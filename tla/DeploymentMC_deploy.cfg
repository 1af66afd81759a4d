SPECIFICATION MCSpec
CONSTANTS
    NBuckets = 6
    ActionList <- GdActions
    StateList <- GdStates
    StateOf <- GdStateOf
    Edges <- DataEdges
    RegistrationId <- ConfigId
    Place <- Shards
    Cores <- EightCores
    Workers <- OddCores
    Indices <- Table
    RssBuckets <- SixBuckets
    MaximumPath = 5
    MaximumPathInstance = 1
    Plans <- SomePlans
    Ranges = {0, 2, 3}
    Frequencies = {0, 1}
    OperatorCommands <- Typed
    MaxTyped = 1
    Entries = 2
    MaxPackets = 3
    Lcores <- FiveCores
    SocketOf <- Package
    MaxCores = 8
    Classes <- ThreeClasses
    Others <- CoreFour
    NumWays = 4
    Contention = {3}
    CdpOn = TRUE
    Requests <- Arguments
    MaxInits = 2
INVARIANTS
    DeploymentTypeOK
    AstrayOnlyFromGaps
    FaultNeedsRange
    NothingLeftBehind
    Granted
    OthersKept
    FreedOncePerInit
PROPERTIES
    PacketLeaves
CHECK_DEADLOCK FALSE
