SPECIFICATION FairSpec
CONSTANTS
    p1 = p1
    p2 = p2
    p3 = p3
    p4 = p4
    sd1 = sd1
    sc1 = sc1
    sd2 = sd2
    sc2 = sc2
    NoMessage = NoMessage
    Cores <- C2
    Running <- C2
    FirstAction <- OneFirst
    Packets <- P3
    Buckets <- B1
    RssHash <- OneHash
    reta <- OneReta
    buckets <- OneBuckets
    Actions <- OneActions
    Kind <- OneKind
    StateOf <- OneStateOf
    States <- OneStates
    simple_path <- OnePath
    control_frequency <- MostlyControl
    Placements <- SplitOnly
    Migrations <- NoMigrations
    PoolSize = 2
    RingSize = 3
    BurstSize = 2
    TxSize = 2
INVARIANTS
    PacketInOnePlace
PROPERTIES
    PacketsLeave
    QuitTerminates
    BuffersDrain
