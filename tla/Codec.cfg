CONSTANTS
    High = 4
    Digit = 2
    Block = 2
    Nibble = 2
    Hex = 2
    MaxShort = 6
    MaxLong = 14
    Programs = {"git", "git-core"}
    Pushes <- MCPushes
SPECIFICATION Spec
INVARIANTS
    TypeOK
    CommandsIntact
    ObjectsIntact
    SizesRight
CHECK_DEADLOCK FALSE
