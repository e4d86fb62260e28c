\* A pad and other clients: three requests, one loss; a button held over two ticks.
SPECIFICATION PadSpec
CONSTANTS
    None = None
    SeatedBoot = FALSE
    Asks <- PadAsks
    Habits = {"modeWhileDown", "changeAtShutdown"}
    MaxRequests = 3
    MaxFaults = 0
    Hold = 2
    Heartbeat = 2
    Deadman = 2
    MaxLosses = 1
    PadHabits = {}
INVARIANTS SticksAreHeeded PressesAreMeant RollerIsTheRobots
