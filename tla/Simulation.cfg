SPECIFICATION Spec
CONSTANTS
    p1 = p1
    p2 = p2
    None = None
    Orphan = Orphan
    Rpcs = {1, 2}
    Quiet = {2}
    Responders = {p1, p2}
    BridgeBounds <- MCBridgeBounds
    MaxPending = 2
    TelemetryBounds <- MCTelemetryBounds
    ControlPages = {p1, p2}
    Buttons = {"b1", "b2"}
    Recipe <- MCRecipe
    ControlBounds <- MCControlBounds
    Nobody = Nobody
    Instances <- MCInstances
INVARIANTS
    BridgeInv
    TelemetryInv
    ControlInv
PROPERTIES
    RpcsAnswered
    ValuesSettle
    ControlsRest
