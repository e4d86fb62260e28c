SPECIFICATION Spec
CONSTANTS
    None = None
    SeatedBoot = FALSE
    Asks <- AllAsks
    Habits = {"midTick"}
    MaxRequests = 2
    MaxFaults = 0
INVARIANT RelaxWins
