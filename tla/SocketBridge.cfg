CONSTANTS
    head = head
    get = get
    first = first
    second = second
    third = third
    HeadRequests <- OneRequest
    Streaming <- OneRequest
    Requests <- Pipelined
    Ids <- ThreeListeners
    Owner <- TwoAndOne
SPECIFICATION Spec
SYMMETRY Swap
INVARIANTS
    OneSocketListener
    BridgedIsHeard
    CloseReportedOnce
    ResponseReleasesSocket
CHECK_DEADLOCK FALSE
