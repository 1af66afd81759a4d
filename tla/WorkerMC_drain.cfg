SPECIFICATION FairSpec
CONSTANTS
    p1 = p1
    p2 = p2
    p3 = p3
    p4 = p4
    sd1 = sd1
    sc1 = sc1
    sd2 = sd2
    sc2 = sc2
    NoMessage = NoMessage
    Cores <- C3
    Running <- C3
    FirstAction <- TwoFirst
    Packets <- P2
    Buckets <- B2
    RssHash <- TwoHash
    reta <- TwoReta
    buckets <- TwoBuckets
    Actions <- TwoActions
    Kind <- TwoKind
    StateOf <- TwoStateOf
    States <- TwoStates
    simple_path <- TwoPath
    control_frequency <- Alternate
    Placements <- TwoPlacements
    Migrations <- NoMigrations
    PoolSize = 1
    RingSize = 3
    BurstSize = 2
    TxSize = 2
PROPERTIES
    BuffersDrain
