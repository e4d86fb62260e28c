SPECIFICATION FairSpec
CONSTANTS
    None = None
    SeatedBoot = FALSE
    Asks <- AllAsks
    Habits = {}
    MaxRequests = 4
    MaxFaults = 0
INVARIANTS RelaxWins DrivingIsPowered RobotIsAsSaid
PROPERTIES SeatIsKept AskedIsDone
