SPECIFICATION Spec
CONSTANTS
    CodecModes = {4}
    TargetBps <- MCTargetBps
    TemporalLayers = {1}
    MaxStreams = 1
    HardenedVector = FALSE
    Formats = {f1, f2}
    Sizes = {1}
    MinKbps = 0
    MaxKbps = 150
    FrameRates = {0, 30}
    Utilizations = {100, 120}
    MaxOpens = 2
SYMMETRY FormatSymmetry
INVARIANTS
    AllocatorOnlyWhenInitialized
    MissingEncoderIsPending
    EncoderFollowsRates
    KeyRequestKept
    NoUnconfiguredUse
