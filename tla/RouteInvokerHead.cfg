CONSTANTS
    N = 2
    Waits <- UnmatchedWaits
    Routed <- UnmatchedRouted
    HeadRequest = TRUE
SPECIFICATION FairSpec
INVARIANTS
    NoLostWakeUp
    HeadAnswersAfterClose
PROPERTIES
    LayersNest
    HeadReleaseEnds
