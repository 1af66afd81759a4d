SPECIFICATION MCSpec
CONSTANTS
    NBuckets = 6
    ActionList <- GdActions
    StateList <- GdStates
    StateOf <- GdStateOf
    Edges <- YamlEdges
    RegistrationId <- ConfigId
    Place <- Shards
    Cores <- EightCores
    Workers <- OddCores
    Indices <- Table
    RssBuckets <- SixBuckets
    MaximumPath = 5
    MaximumPathInstance = 1
    Plans <- SomePlans
    Ranges = {0, 2, 3}
    Frequencies = {0, 1}
    OperatorCommands <- Impatient
    MaxTyped = 2
    Entries = 2
    MaxPackets = 3
    Lcores <- FiveCores
    SocketOf <- Package
    MaxCores = 8
    Classes <- ThreeClasses
    Others <- CoreFour
    NumWays = 4
    Contention = {3}
    CdpOn = TRUE
    Requests <- NoArguments
    MaxInits = 0
INVARIANTS
    EveryBucketServed
    AstrayOnlyFromGaps
CHECK_DEADLOCK FALSE
