SPECIFICATION FairSpec
CONSTANTS
    p = p
    h1 = h1
    r1 = r1
    e1 = e1
    a1 = a1
    a2 = a2
    NoRow = NoRow
    NoId = NoId
    NoRequest = NoRequest
    NoLimit = NoLimit
    Process = p
    Handlers = {h1}
    Replayers = {r1}
    Ids = {e1}
    Uuids = {}
    IPs = {a1, a2}
    Types <- MCTypes
    Repositories <- MCRepositories
    Senders <- MCSenders
    Times <- MCTimes
    Requests <- MCRequests
    ApiRequests <- MCApiRequests
    Documents <- MCDocuments
    Periodic = {}
    ValidateIP = TRUE
    DefaultLimit = 1
    PageLimit = 1
    OffsetNeedsLimit = TRUE
    MaxRequests = 1
    MaxApiRequests = 1
    MaxReplays = 1
    MaxRotations = 1
    MaxFaults = 1
INVARIANTS
    DeliveredWasAdmitted
    RangesArePublished
PROPERTIES
    WebhookPart
    ForwarderPart
    MetricsPart
    ApiPart
    RangesCatchUp
