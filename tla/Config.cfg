CONSTANTS
    Disks <- MCDisks
    Paths <- MCPaths
    Profiles <- MCProfiles
    Normal <- MCNormal
    Number <- MCNumber
    LogOutputs <- MCLogOutputs
    Listen <- MCListen
SPECIFICATION Spec
INVARIANTS
    MergeIsOverlay
    AliasesFollowAnchors
    TiersAsDeclared
CHECK_DEADLOCK FALSE
