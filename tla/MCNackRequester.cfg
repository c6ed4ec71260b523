SPECIFICATION NackSpec
CONSTANTS
    SeqMod = 16
    MaxPacketAge = 4
    MaxNackPackets = 2
    MaxNackRetries = 2
    SendNackDelay = TRUE
    First = 14
    Last = 20
    Reorder = 2
    Jumps = {1, 3}
    MaxIncomplete = 5
INVARIANTS
    ArrivedNotListed
    MissingListed
    TriesLimited
PROPERTIES
    ListEmpties
CHECK_DEADLOCK FALSE
