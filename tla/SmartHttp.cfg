CONSTANTS
    a = a
    b = b
    x = x
    Zero = Zero
    NoSha = NoSha
    NoConfig = NoConfig
    Shas = {a, b, x, Zero}
    History <- MCHistory
    Repos = {repo}
    RefNames = {main, dev}
    Pushes = {p1, p2}
    Fetches = {f}
    Programs = {"worker", "server"}
    Nodes = {TRUE, FALSE}
    MaxClears = 1
    MaxConfigures = 1
    MaxStops = 0
SPECIFICATION Spec
INVARIANTS
    TypeOK
    OkIsApplied
    ReplacesWhatWasShown
    RefsClosed
    FetchIsComplete
    ReadYourWrites
SYMMETRY Symmetry
CHECK_DEADLOCK FALSE
