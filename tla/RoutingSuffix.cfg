SPECIFICATION Spec
CONSTANTS
    Paths <- PathsMC
    HonoPathsOf <- HonoPathsMC
    PrefixOf <- PrefixMC
    SuffixesOf <- SuffixesMC
    NestMatch <- NestMatchMC
    Requests <- RequestsMC
    Targets <- TargetsMC
    ParamsOf <- ParamsMC
    NoMatch <- NoMatchMC
    Names <- NamesMC
    Edited <- EditedMC
    Offered <- OfferedSuffix
    MaxSetup = 2
INVARIANT
    ParamsAreNest
