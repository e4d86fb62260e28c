SPECIFICATION Spec
CONSTANTS
    None = None
    SeatedBoot = TRUE
    Asks <- AllAsks
    Habits <- AnyHabits
    MaxRequests = 3
    MaxFaults = 3
INVARIANTS PowerOffIsTorqueless UnhealthyIsNoPolicy
