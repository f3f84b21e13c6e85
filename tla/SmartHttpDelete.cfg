CONSTANTS
    a = a
    b = b
    x = x
    Zero = Zero
    NoSha = NoSha
    NoConfig = NoConfig
    Shas = {a, b, x, Zero}
    History <- MCHistory
    Repos = {repo}
    RefNames = {main}
    Pushes = {p1, p2}
    Fetches = {}
    Programs = {"worker"}
    Nodes = {TRUE}
    MaxClears = 0
    MaxConfigures = 1
    MaxStops = 0
SPECIFICATION Spec
INVARIANTS
    DeletedRefsAreGone
SYMMETRY Symmetry
CHECK_DEADLOCK FALSE
