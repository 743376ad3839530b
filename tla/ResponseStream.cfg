CONSTANT
    Chunks = 3
SPECIFICATION FairSpec
INVARIANTS
    FinishedReleases
    NoLostWakeUp
PROPERTIES
    NoLateEnqueue
    ImplementsReplyBody
    BodyEnds
CHECK_DEADLOCK FALSE
