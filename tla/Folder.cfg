SPECIFICATION Spec
SYMMETRY Symmetry
CONSTANTS
    None = None
    Workers = {x, y}
    Order <- MCOrder
    Documents <- MCDocuments
    Empty = {"empty"}
    Unreadable = {}
    Claims <- MCClaims
    Definitions <- MCDefinitions
    CanonicalId <- NoName
    Registered <- MCRegistered
    Sidecar <- NoName
    Ladder = {None}
    External <- MCExternal
    InitialFolders <- MCFolders
    Saves <- MCSaves
    Additions <- MCAdditions
    Picks <- MCPicks
    Stem <- MCStem
    Plural <- MCPlural
    Common = {}
    MinSources = 2
    MinClaims = 2
    Share = 2
    MaxCalls = 3
    MaxEdits = 1
    MaxFaults = 1
INVARIANTS RegistryUnique   ConfirmedStay TargetGrounded
\* The bounds stop it.
CHECK_DEADLOCK FALSE
