SPECIFICATION FairSpec
CONSTANTS
    Editors = {"ann", "bob"}
    HistoryLimit = 1
    Changes = {1, 2, 3}
    Bounds <- MCBounds
    None = None
    Requests = {"p1", "p1 again", "p2", "back"}
    KeyOf <- MCKeyOf
    Restores = {"back"}
INVARIANTS
    PublishingInv
PROPERTIES
    SavedChangesStay
    ChangesAreSaved
    ImplementsVersionHistory
CHECK_DEADLOCK FALSE
