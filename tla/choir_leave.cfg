SPECIFICATION Spec
CONSTANTS
    Duck <- Ducks
    Register <- Registers
    Knows <- Songs
    None = None
    ScoreBeats = 5
    Byte = 256
    Settle = 2
    Stale = 5
    Lock = 3
    MaxFaults = 1
    Habits = {"leave"}
INVARIANTS
    SameMusic
