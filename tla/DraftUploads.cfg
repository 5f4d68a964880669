SPECIFICATION Spec
CONSTANTS
    Editors = {"ann"}
    HistoryLimit = 1
    Changes = {1, 2, 3}
    Bounds <- MCBounds
    None = None
    Requests = {"p1", "p1 again", "p2", "back"}
    KeyOf <- MCKeyOf
    Restores = {"back"}
PROPERTIES
    NoLostUpdate
CHECK_DEADLOCK FALSE
