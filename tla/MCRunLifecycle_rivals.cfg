CONSTANTS
    Handlers = {h1, h2}
    NoHandler = NoHandler
    Orphan = Orphan
    r1 = r1
    r2 = r2
    k1 = k1
    k2 = k2
    Runs = {r1}
    Keys = {k1, k2}
    Requests <- RivalRequests
    MaxVersion = 2
SPECIFICATION FairSpec
INVARIANTS ReceiptsMatch StagedIsCurrent CarryoverIsExact SuccessIsDurable
PROPERTIES LockComesFree
CHECK_DEADLOCK FALSE
