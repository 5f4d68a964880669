SPECIFICATION Spec
CONSTANTS
    p1 = p1
    p2 = p2
    j1 = j1
    j2 = j2
    Pages = {p1, p2}
    MaxSessions = 2
    StreamBounds <- MCStreamBounds
    Requests = {1, 2}
    None = None
    ViewBounds <- MCViewBounds
    Commands = {1, 2}
    Janitors = {j1, j2}
    BatchSize = 2
    RetentionBounds <- MCRetentionBounds
    Callers = {c1, c2}
    Admins = {a1, a2}
    SecretBounds <- MCSecretBounds
    Deliveries = {1, 2}
    Orders = {1, 2}
    ServingBounds <- MCServingBounds
    Scenarios <- MCScenarios
INVARIANTS
    StreamInv
    ViewInv
    RetentionInv
    SecretsInv
    ServerlessInv
PROPERTIES
    StreamSettles
    OldCommandsGo
    PageConcludes
CHECK_DEADLOCK FALSE
