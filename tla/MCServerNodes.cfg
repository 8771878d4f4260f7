CONSTANTS
    Handlers = {h1, h2}
    MaxChildren = 3
    MainServer = TRUE
    None = None
    Nodes = {n}
    LastAddr = 2
    Absent = Absent
    MaxAdds = 3
    MaxFaults = 3
SPECIFICATION UnionSpec
INVARIANTS
    AliveIsTracked
    AnsweredConfigLoaded
    RecordsMatchAgents
    RemovedNodeStaysAway
PROPERTIES
    HandlersReturn
    ClientsFollowNodes
CHECK_DEADLOCK FALSE
