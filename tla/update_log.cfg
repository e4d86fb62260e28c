SPECIFICATION LogSpec
CONSTANTS
    Version <- MCVersion
    Unnamed = Unnamed
    Capacity = 2
    MaxAppends = 4
    MaxCuts = 2
INVARIANTS
    LogIsSound
PROPERTIES
    KnownBadIsLatest
