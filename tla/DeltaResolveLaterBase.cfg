CONSTANTS
    Objects = {a, b, x}
    Corrupt = Corrupt
    Inputs <- MCInputs
SPECIFICATION Spec
INVARIANT LaterBaseServed
SYMMETRY Symmetry
CHECK_DEADLOCK FALSE
