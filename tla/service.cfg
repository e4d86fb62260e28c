SPECIFICATION FairSpec
CONSTANTS
    Release <- Releases
    Good <- GoodOnes
    Mandatory <- MandatoryOnes
    Permits <- ByDefault
    Caller = {c}
    Subscriber = {s}
    None = None
    Scheduler = Scheduler
    Lines = 2
    Room = 1
    Buffer = 2
    MaxCalls = 1
    MaxMoves = 1
    Habits = {}
INVARIANTS UnattendedIsVetted
PROPERTIES ProgressIsTold UpdateEnds MandatoryIsApplied
