CONSTANTS
    Handlers = {h1, h2}
    NoHandler = NoHandler
    Orphan = Orphan
    r1 = r1
    r2 = r2
    k1 = k1
    k2 = k2
    Runs = {r1, r2}
    Keys = {k1}
    Requests <- JourneyRequests
    MaxVersion = 1
SPECIFICATION Spec
INVARIANTS TypeOK SealedSources
PROPERTIES StorySpec NoFalseRefusal
SYMMETRY HandlerSymmetry
CHECK_DEADLOCK FALSE
