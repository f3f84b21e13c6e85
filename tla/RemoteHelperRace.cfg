CONSTANTS
    c1 = c1
    c2 = c2
    a = a
    b = b
    x = x
    main = main
    dev = dev
    NoSha = NoSha
    Clones = {c1, c2}
    Pushers = {c1, c2}
    Shas = {a, b, x}
    RefNames = {main}
    MaxPacks = 2
    MaxLost = 1
    MaxClears = 1
    PackObjectsMayFail = TRUE
SPECIFICATION Spec
INVARIANTS
    TypeOK
    ClosedUnlessBlind
    BasesEarlierUnlessBlind
PROPERTIES
    
    FastForwardUnlessMoved
SYMMETRY Symmetry
CHECK_DEADLOCK FALSE
CONSTRAINT Sighted
