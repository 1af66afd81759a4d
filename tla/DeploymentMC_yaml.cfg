SPECIFICATION MCSpec
CONSTANTS
    NBuckets = 6
    ActionList <- GdActions
    StateList <- GdStates
    StateOf <- GdStateOf
    Edges <- YamlEdges
    RegistrationId <- YamlId
    Place <- Shards
    Cores <- EightCores
    Workers <- OddCores
    Indices <- Table
    RssBuckets <- SixBuckets
    MaximumPath = 5
    MaximumPathInstance = 1
    Plans <- OnePlan
    Ranges = {2}
    Frequencies = {1}
    OperatorCommands <- NoCommands
    MaxTyped = 0
    Entries = 2
    MaxPackets = 3
    Lcores <- FiveCores
    SocketOf <- Package
    MaxCores = 8
    Classes <- ThreeClasses
    Others <- CoreFour
    NumWays = 4
    Contention = {3}
    CdpOn = TRUE
    Requests <- NoArguments
    MaxInits = 0
INVARIANTS
    NoneAstray
CHECK_DEADLOCK FALSE
