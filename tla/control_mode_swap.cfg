SPECIFICATION Spec
CONSTANTS
    None = None
    SeatedBoot = FALSE
    Asks <- AllAsks
    Habits = {"modeOverChange"}
    MaxRequests = 4
    MaxFaults = 0
INVARIANT RunningIsPublished
