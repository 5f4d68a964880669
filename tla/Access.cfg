SPECIFICATION Spec
CONSTANTS
    Accounts = {"ann", "bob"}
    Bootstrap = "ann"
    Shared = shared
    Requests = {"q1", "q2"}
    GivenRoles = {"OWNER", "ADMIN", "OPERATOR"}
    MaxSessions = 2
    None = None
    AccountSetups <- MCAccountSetups
    Holders = {h1, h2}
    Calls = {1, 2}
    PIN = {pin1, pin2}
    NoPin = NoPin
    PinSetups <- MCPinSetups
    AccessScenarios <- MCScenarios
INVARIANTS
    AccessInv
CHECK_DEADLOCK FALSE
