SPECIFICATION FairSpec
CONSTANTS
    Targets = {1, 2}
    Metrics = {0, 1}
INVARIANTS
    TypeOK
    TargetInForce
PROPERTIES
    SignalDelivered
    PauseEnds
