CONSTANTS
    c1 = c1
    c2 = c2
    a = a
    b = b
    x = x
    main = main
    dev = dev
    NoSha = NoSha
    Clones = {c1, c2}
    Pushers = {c1, c2}
    Shas = {a, b}
    RefNames = {main}
    MaxPacks = 3
    MaxLost = 0
    MaxClears = 0
    PackObjectsMayFail = FALSE
SPECIFICATION Spec
INVARIANT NothingNew
SYMMETRY Symmetry
CHECK_DEADLOCK FALSE
