CONSTANTS
    MaxListens = 3
    MaxCloses = 2
    RetriesElsewhere = TRUE
SPECIFICATION Spec
INVARIANT
    AddressIsCurrent
CHECK_DEADLOCK FALSE
