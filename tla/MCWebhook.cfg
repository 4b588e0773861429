SPECIFICATION FairSpec
CONSTANTS
    h1 = h1
    h2 = h2
    e1 = e1
    e2 = e2
    u1 = u1
    u2 = u2
    github = github
    foreigner = foreigner
    NoRow = NoRow
    NoId = NoId
    NoRequest = NoRequest
    Handlers = {h1, h2}
    Ids = {e1, e2, u1, u2}
    Uuids = {u1, u2}
    IPs = {github, foreigner}
    RangeSets <- MCRangeSets
    Types <- MCTypes
    Repositories <- MCRepositories
    Senders <- MCSenders
    Times <- MCTimes
    Requests <- MCRequests
    ValidateIP = TRUE
    MaxRequests = 2
    MaxFaults = 1
INVARIANTS
    TypeOK
    StoredWasAdmitted
PROPERTIES
    RowsAreKept
    EveryRequestIsAnswered
