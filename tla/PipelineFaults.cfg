SPECIFICATION FairSpec
CONSTANTS
    Commands = {"c1"}
    Connectors = {"k"}
    ConnectorOf <- OneConnector
    Requests = {"r1", "r1 again"}
    CommandOf <- MCCommandOf
    ComponentOf <- TwoPanels
    Workers = {"w1"}
    Capacity = 2
    PollLimit = 2
    FlushLimit = 1
    MaxFaults = 2
    MaxStops = 1
    NoTask = NoTask
INVARIANTS
    PipelineInv
PROPERTIES
    ImplementsContract
    AuthorizedIsClaimed
    OwedAuditIsWritten
    ClaimedConcludes
