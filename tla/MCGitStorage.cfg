CONSTANTS
    alice = alice
    factory = factory
    main = main
    dev = dev
    s1 = s1
    s2 = s2
    p1 = p1
    p2 = p2
    Accounts <- MCAccounts
    RefNames <- MCRefNames
    Shas <- MCShas
    Packs <- MCPacks
    Calls <- MCCalls
    NoSha = NoSha
    NoPack = NoPack
    NoOwner = NoOwner
    NoCall = NoCall
    MaxU32 = 2
    MaxDeletes = 2
SPECIFICATION FairSpec
INVARIANTS
    TypeOK
    PackLogDense
    GetPacksIsSuffix
    LoopInv
PROPERTIES
    RepoSpec
    Answered
