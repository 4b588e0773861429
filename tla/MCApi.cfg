SPECIFICATION Spec
CONSTANTS
    r1 = r1
    r2 = r2
    e1 = e1
    e2 = e2
    e3 = e3
    NoRow = NoRow
    NoRequest = NoRequest
    NoLimit = NoLimit
    Replayers = {r1, r2}
    Ids = {e1, e2}
    Types <- MCTypes
    Repositories <- MCRepositories
    Senders <- MCSenders
    Times <- MCTimes
    Requests <- MCRequests
    NewRows <- MCNewRows
    PageLimit = 1
    OffsetNeedsLimit = TRUE
    DefaultLimit = 1
    MaxRequests = 2
    MaxFaults = 1
SYMMETRY MCSymmetry
INVARIANTS
    TypeOK
    OkIsComplete
    PageKeepsPromise
PROPERTIES
    EventsSurviveReplay
    OnlyWantedAreReset
