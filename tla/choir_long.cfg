SPECIFICATION Spec
CONSTANTS
    Duck <- Pair
    Register <- PairVoice
    Knows <- PairSongs
    None = None
    ScoreBeats = 126
    Byte = 256
    Settle = 2
    Stale = 5
    Lock = 3
    MaxFaults = 0
    Habits = {}
INVARIANTS
    SameMusic
