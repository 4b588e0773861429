SPECIFICATION FairSpec
CONSTANTS
    n1 = n1
    n2 = n2
    e1 = e1
    e2 = e2
    e3 = e3
    NoRow = NoRow
    NoId = NoId
    Nodes = {n1}
    Ids = {e1, e2}
    Types <- MCTypes
    Repositories <- MCRepositories
    Senders <- MCSenders
    Times <- MCTimes
    NewRows <- MCNewRows
    MaxFaults = 3
    MaxReplays = 2
INVARIANTS
    TypeOK
    MarkedWasAccepted
    NoSpuriousDuplicate
PROPERTIES
    JobDrainsBacklog
    ImplementsDeliveryLog
