SPECIFICATION Spec
CONSTANTS
    None = None
    SeatedBoot = FALSE
    Asks <- AllAsks
    Habits = {"seatOff"}
    MaxRequests = 3
    MaxFaults = 0
INVARIANT SeatHasItsNetwork
