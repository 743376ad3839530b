CONSTANTS
    Length = 3
    MAX_PART_HEADER_BYTES = 9
    Requests <- Bodies
    ChunkSizes <- Cuts
SPECIFICATION Spec
INVARIANTS
    AgreesWithWholeScan
PROPERTIES
    ScanAdvances
    ImplementsWholeScan
CHECK_DEADLOCK FALSE
