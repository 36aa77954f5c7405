CONSTANTS
    Callers = {c1, c2}
    Requests = {r1, r2, r3}
    Forms = {f1}
    CanonicalForm = f1
    Suggested = {}
    Legacy = {}
    NoCaller = NoCaller
    NoRequest = NoRequest
    NoForm = NoForm
    Capacity = 2
    AmbiguousCommits = FALSE
    MaxFaults = 1
    MaxCancels = 0
SPECIFICATION Spec
INVARIANTS TypeOK TurnsAreWhole RefusalIsFinal CommittedIsNotHidden CapacityHolds
SYMMETRY RivalSymmetry
