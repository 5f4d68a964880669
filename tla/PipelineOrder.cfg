SPECIFICATION Spec
CONSTANTS
    Commands = {"c1", "c2"}
    Connectors = {"k"}
    ConnectorOf <- OneConnector
    Requests = {"r1", "r2"}
    CommandOf <- MCCommandOf
    ComponentOf <- TwoPanels
    Workers = {"w1"}
    Capacity = 2
    PollLimit = 2
    FlushLimit = 0
    MaxFaults = 0
    MaxStops = 1
    NoTask = NoTask
INVARIANTS
    OrderInv
