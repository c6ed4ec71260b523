SPECIFICATION FairSpec
CONSTANTS
    MaxLayers = 2
    MaxFrames = 4
    MaxTasks = 2
    MaxRequestId = 3
INVARIANTS
    AdapterMatchesMode
    TasksMatchFrames
    NeverFrozen
PROPERTIES
    DroppedForNewer
    FeedsFrames
