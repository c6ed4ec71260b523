SPECIFICATION FairSpec
CONSTANTS
    Suspend = TRUE
    MaxTasks = 3
    MaxUpdates = 3
INVARIANTS
    RegisteredOnlyWhileActive
    EncoderFollows
PROPERTIES
    LostNetworkSilences
    ProducingRegisters
