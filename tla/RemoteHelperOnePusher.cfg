CONSTANTS
    c1 = c1
    c2 = c2
    a = a
    b = b
    x = x
    main = main
    dev = dev
    NoSha = NoSha
    Clones = {c1}
    Pushers = {c1}
    Shas = {a, b, x}
    RefNames = {main, dev}
    MaxPacks = 2
    MaxLost = 1
    MaxClears = 1
    PackObjectsMayFail = FALSE
SPECIFICATION Spec
INVARIANT NeverBlind
SYMMETRY Symmetry
CHECK_DEADLOCK FALSE
