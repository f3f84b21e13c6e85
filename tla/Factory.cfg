CONSTANTS
    Calls = {c1, c2, c3}
    Users = {alice, bob}
    Relays = {relay}
    FactoryOwner = alice
    Names = {repo1}
    Dotted = {dotted}
    Hashes = {h1, h2, h3}
    Deployed = {h1, h2}
    Deposits = {0, 10}
    MaxDeletes = 2
    FirstHash = h1
    NoRepo = NoRepo
SPECIFICATION Spec
INVARIANTS
    TypeOK
    DepositsAccounted
    FailsForAReason
    RepoIsPinned
PROPERTIES
    NoTakeover
    DeletedForItsOwner
SYMMETRY Symmetry
