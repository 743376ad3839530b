CONSTANTS
    Servers <- UseServers
    Replacements <- UseReplacements
    Chains <- UseChains
    Paths <- UsePaths
    BodyLimit <- UseLimits
    SkippedPaths <- UseSkipped
    MultipartLimits = TRUE
    RestoresReplaced = FALSE
    MaxRequests = 4
SPECIFICATION Spec
INVARIANT
    BodyIsPreserved
PROPERTIES
    LimitHolds
    ParsedAsDeclared
    MetadataIsCurrent
CHECK_DEADLOCK FALSE
