CONSTANTS
    N = 2
    Waits <- UseWaits
    Routed <- UseRouted
    HeadRequest = FALSE
SPECIFICATION FairSpec
INVARIANTS
    SseAnswersRoutedLayers
    FailedHandlerEndsStream
PROPERTIES
    FinalizedIsAnswered
    NextErrorIsReported
