SPECIFICATION MCSpec
CONSTANTS
    NCommands = 2
    OperatorText <- Terminal
    Length <- Bytes
    Hush <- Comment
    Blanks <- Blank
    MsgInLenMax = 3
    Tries = 2
    Frequencies <- Small
    Reconfigurations <- Small
    MaxInt = 6
    MaxPackets = 16
INVARIANTS
    TypeOK
    AloneOnceInOrder
    TornBounded
    AheadOfServer
    ClassifierTypeOK
    ShareKept
    StuckUntilOverflow
PROPERTIES
    SendReturns
    FollowsMono
CHECK_DEADLOCK FALSE
