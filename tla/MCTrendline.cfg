SPECIFICATION Spec
CONSTANTS
    Slopes <- MCSlopes
    ArrivalSteps <- MCArrivalSteps
    SendDeltas <- MCSendDeltas
    MinNumDeltas = 3
    DeltaCounterMax = 4
    MaxSamples = 8
INVARIANTS
    TypeOK
    OveruseReachesEncoder
    UsageRestsOnFit
PROPERTY
    EncoderSignalLeads
