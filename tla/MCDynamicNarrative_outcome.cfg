CONSTANTS
    Callers = {c1, c2}
    Requests = {r1}
    Forms = {f1}
    CanonicalForm = f1
    Suggested = {}
    Legacy = {}
    NoCaller = NoCaller
    NoRequest = NoRequest
    NoForm = NoForm
    Capacity = 1
    AmbiguousCommits = FALSE
    MaxFaults = 0
    MaxCancels = 0
SPECIFICATION Spec
INVARIANTS OneOutcome
SYMMETRY CallerSymmetry
