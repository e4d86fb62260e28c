SPECIFICATION Spec
CONSTANTS
    None = None
    SeatedBoot = FALSE
    Asks <- AllAsks
    Habits = {"fileLost"}
    MaxRequests = 3
    MaxFaults = 0
INVARIANT FileIsRunning
