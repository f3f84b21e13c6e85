CONSTANTS
    Objects = {a, b, x}
    Corrupt = Corrupt
    Inputs <- MCInputs
SPECIFICATION FairSpec
INVARIANTS
    TypeOK
    NothingInvented
    ServesEverything
    ServesIfBasesEarlier
PROPERTY Ends
CHECK_DEADLOCK FALSE
