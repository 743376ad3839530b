SPECIFICATION FairSpec
CONSTANTS
    Paths <- PathsMC
    HonoPathsOf <- HonoPathsMC
    PrefixOf <- PrefixMC
    SuffixesOf <- SuffixesMC
    NestMatch <- NestMatchMC
    Requests <- RequestsMC
    Targets <- TargetsMC
    ParamsOf <- ParamsMC
    NoMatch <- NoMatchMC
    Names <- NamesMC
    Edited <- EditedMC
    Offered <- OfferedMC
    MaxSetup = 3
INVARIANTS
    PathsCovered
    ParamsAreNest
    MiddlewareFirst
    MiddlewareOnce
    HeadFirst
    EditsReachNextLayers
    ClosingStopsRequests
PROPERTIES
    KeepsHonoSemantics
    Answered
