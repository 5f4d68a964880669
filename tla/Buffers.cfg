SPECIFICATION BuffersSpec
CONSTANTS
    Buffers = {"queue", "archive", "writer"}
    Ids = {a, b, c, d}
    Keys = {k1, k2}
    NoTask = NoTask
    Capacity = 3
    SampleBatch = 2
    MaxQueue = 7
    MaxSamples = 9
    ValueKeys = {k1, k2, k3}
    ValueBatch = 1
    MaxPending = 2
    MaxValues = 4
INVARIANTS
    BuffersInv
PROPERTIES
    ImplementsSerialLanes
    StoredNeverGoesBack
    BuffersDrain
    ClosesReturn
CHECK_DEADLOCK FALSE
