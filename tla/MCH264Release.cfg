SPECIFICATION Spec
CONSTANTS
    CodecModes = {2, 3, 4, 5}
    TargetBps <- MCTargetBps
    TemporalLayers = {1, 3}
    MaxStreams = 1
    MaxOpens = 2
    HardenedVector = FALSE
INVARIANT
    ReleaseFreesEncoder
