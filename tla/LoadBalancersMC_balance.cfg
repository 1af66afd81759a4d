SPECIFICATION MCSpec
CONSTANTS
    MaxSize = 100
    CoreLists <- SmallLists
    Numbers <- SmallNumbers
    Flows <- ThreeFlows
    Proto <- Protocol
    RssQueue <- Rss
    DataCores <- Group
    QueueIds <- Queues
    MaxBurst = 2
    Entries = 1
    MaxPackets <- Packets
INVARIANTS
    TypeOK
    OneOutstanding
    MissesAccounted
    PacketsAccounted
    SetupEndsWhenItCan
    DataCoresShared
PROPERTIES
    StaysOnServer
    QuitStops
    MissAnswered
CHECK_DEADLOCK FALSE
