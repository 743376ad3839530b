CONSTANTS
    N = 2
    Waits <- UseWaits
    Routed <- UseRouted
    HeadRequest = FALSE
SPECIFICATION Spec
INVARIANT
    SseStartResolves
