SPECIFICATION Spec
CONSTANTS
    p1 = p1
    p2 = p2
    p3 = p3
    p4 = p4
    sd1 = sd1
    sc1 = sc1
    sd2 = sd2
    sc2 = sc2
    NoMessage = NoMessage
    Cores <- C2
    Running <- C2
    FirstAction <- OneFirst
    Packets <- P4
    Buckets <- B1
    RssHash <- OneHash
    reta <- OneReta
    buckets <- OneBuckets
    Actions <- OneActions
    Kind <- OneKind
    StateOf <- OneStateOf
    States <- OneStates
    simple_path <- OnePath
    control_frequency <- MostlyControl
    Placements <- SplitOnly
    Migrations <- NoMigrations
    PoolSize = 4
    RingSize = 2
    BurstSize = 4
    TxSize = 4
INVARIANTS
    GridlockNeedsItems
SYMMETRY PacketSymmetry
CHECK_DEADLOCK FALSE
