CONSTANTS
    Names = {"a", "b"}
    Samples <- MCSamples
    Memory = {"m"}
    Undefined = Undefined
    MaxLines = 6
SPECIFICATION LogSpec
INVARIANTS
    LogTypeOK
    RowsMatchLog
    UtilisationInRange
CHECK_DEADLOCK FALSE
