CONSTANTS
    MaxListens = 3
    MaxCloses = 2
    RetriesElsewhere = FALSE
SPECIFICATION FairSpec
INVARIANTS
    ClosedMeansStopped
    AddressIsCurrent
PROPERTY
    CallsAreReported
CHECK_DEADLOCK FALSE
