SPECIFICATION Spec
CONSTANTS
    CodecModes = {3, 4, 5}
    TargetBps <- MCTargetBps
    TemporalLayers = {1, 3}
    MaxStreams = 2
    MaxOpens = 2
    HardenedVector = FALSE
INVARIANTS
    NoDanglingHandle
    LibraryInSync
    NoPictureDiscarded
    VbvHoldsOneFrame
