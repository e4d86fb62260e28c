SPECIFICATION Spec
CONSTANTS
    Duck <- Ducks
    Register <- Registers
    Knows <- OlderLow
    None = None
    ScoreBeats = 5
    Byte = 256
    Settle = 2
    Stale = 5
    Lock = 3
    MaxFaults = 0
    Habits = {}
INVARIANTS
    OneConductor
