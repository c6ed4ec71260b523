SPECIFICATION DeltaSpec
CONSTANTS
    SendTimes <- MCSendTimes
    ArrivalTimes <- MCArrivalTimes
    FeedbackTimes <- MCFeedbackTimes
    GroupLength = 5
    BurstDeltaThreshold = 5
    MaxBurstDuration = 100
    OffsetThreshold = 3000
    ReorderedResetThreshold = 3
INVARIANTS
    GroupsApart
    DeltasTelescope
