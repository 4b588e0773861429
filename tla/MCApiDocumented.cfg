SPECIFICATION Spec
CONSTANTS
    r1 = r1
    r2 = r2
    e1 = e1
    e2 = e2
    e3 = e3
    NoRow = NoRow
    NoRequest = NoRequest
    NoLimit = NoLimit
    Replayers = {r1}
    Ids = {e1, e2}
    Types <- MCTypes
    Repositories <- MCRepositories
    Senders <- MCSenders
    Times <- MCTimes
    Requests <- MCDocumented
    NewRows <- MCNewRows
    PageLimit = 1
    OffsetNeedsLimit = TRUE
    DefaultLimit = 2
    MaxRequests = 1
    MaxFaults = 0
INVARIANT
    DocumentedReplayWorks
