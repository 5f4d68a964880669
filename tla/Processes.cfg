SPECIFICATION Spec
CONSTANTS
    Tags = {t1, t2}
    Periodic = {t1}
    HealthFaults = TRUE
    EarlyClose = TRUE
    MaxBacklog = 2
    Connectors = {c1, c2}
    Reloads = {r1, r2}
    MaxEdits = 1
    MaxFaults = 1
    None = None
    PlaneTags = {x, y}
    MaxPending = 1
    MaxOutbound = 2
    PlaneBounds <- MCPlaneBounds
INVARIANTS
    ProcessInv
    FlowInv
PROPERTIES
    RuntimeSettles
    ConfigurationApplies
    PlaneRecovers
CHECK_DEADLOCK FALSE
