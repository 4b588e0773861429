SPECIFICATION Spec
CONSTANTS
    h1 = h1
    h2 = h2
    e1 = e1
    e2 = e2
    u1 = u1
    u2 = u2
    github = github
    foreigner = foreigner
    NoRow = NoRow
    NoId = NoId
    NoRequest = NoRequest
    Handlers = {h1}
    Ids = {e1, e2, u1, u2}
    Uuids = {u1, u2}
    IPs = {github, foreigner}
    RangeSets <- MCRangeSets
    Types <- MCTypes
    Repositories <- MCRepositories
    Senders <- MCSenders
    Times <- MCTimes
    Requests <- MCGenuine
    ValidateIP = TRUE
    MaxRequests = 1
    MaxFaults = 1
INVARIANT
    AnsweredIsStored
