SPECIFICATION Spec
CONSTANTS
    Missing = Missing
    NoRef = NoRef
    NoDrag = NoDrag
    Absent = Absent
    MaxPoints = 4
    MaxTime = 6
    MaxPending = 2
    BatchSizes = {1, 2}
    Ranges = {"short", "long"}
    Duration <- MCDuration
    Resolution <- MCResolution
    MinOverlap = 2
    CacheFor = 2
    ChartInstances <- MCChartInstances
    Numbers = {0, 1, 20, 50, 100}
    Projects <- MCProjects
    MaxEdits = 2
    TagNames = {"speed", "level"}
    Sources = {"mock", "plant"}
    MaxChildren = 2
    MaxSteps = 2
    MaxSeries = 2
    UndoLimit = 2
    MaxComponents = 4
    Workbenches <- MCWorkbenches
    Extent = 120
    MinSize = 24
    Grid = 10
    Tolerance = 4
    Cascade = 20
    Pulls <- MCPulls
    Boards <- MCBoards
    Fold <- MCFold
    Slug <- MCSlug
    Endings = {}
    NumberNames = {"flow-rate", "flow_rate", "Flow-rate"}
    Exchanges <- MCExchanges
INVARIANT PagesInv
CHECK_DEADLOCK FALSE
