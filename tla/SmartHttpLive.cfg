CONSTANTS
    a = a
    b = b
    x = x
    Zero = Zero
    NoSha = NoSha
    NoConfig = NoConfig
    Shas = {a, Zero}
    History <- MCOne
    Repos = {repo, fork}
    RefNames = {main}
    Pushes = {p1, p2}
    Fetches = {f}
    Programs = {"worker", "server"}
    Nodes = {TRUE}
    MaxClears = 0
    MaxConfigures = 2
    MaxStops = 1
SPECIFICATION FairSpec
INVARIANTS
    OkIsApplied
PROPERTIES
    Answered
CHECK_DEADLOCK FALSE
