SPECIFICATION FairSpec
CONSTANTS
    n1 = n1
    n2 = n2
    e1 = e1
    e2 = e2
    e3 = e3
    NoRow = NoRow
    NoId = NoId
    Nodes = {n1}
    Ids = {e1}
    Types <- MCTypes
    Repositories <- MCRepositories
    Senders <- MCSenders
    Times <- MCTimes
    NewRows <- MCGoodRows
    MaxFaults = 0
    MaxReplays = 0
PROPERTY
    StoredIsForwarded
