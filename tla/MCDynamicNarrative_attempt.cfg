CONSTANTS
    Callers = {c1, c2}
    Requests = {r1}
    Forms = {f1, f2}
    CanonicalForm = f1
    Suggested = {r1}
    Legacy = {r1}
    NoCaller = NoCaller
    NoRequest = NoRequest
    NoForm = NoForm
    Capacity = 1
    AmbiguousCommits = TRUE
    MaxFaults = 2
    MaxCancels = 2
SPECIFICATION FairSpec
INVARIANTS LedgerTellsTheTruth AnswersOwnSubmission NoOrphanedAttempt
PROPERTIES PromiseSpec EveryCallReturns
