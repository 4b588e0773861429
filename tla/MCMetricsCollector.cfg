SPECIFICATION FairSpec
CONSTANTS
    n1 = n1
    h1 = h1
    h2 = h2
    e1 = e1
    e2 = e2
    e3 = e3
    NoRow = NoRow
    NoId = NoId
    Nodes = {n1}
    Handlers = {h1, h2}
    Ids = {e1, e2, e3}
    Types <- MCTypes
    Repositories <- MCRepositories
    Senders <- MCSenders
    Times <- MCTimes
    NewRows <- MCNewRows
    Periodic = {n1}
    MaxFaults = 1
INVARIANTS
    TypeOK
    NoLostWakeup
    GaugesAreOfARead
PROPERTIES
    GaugesNeverDrop
    OwnEventsAreCounted
    AllEventsAreCounted
