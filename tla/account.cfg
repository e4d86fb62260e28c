SPECIFICATION FairSpec
CONSTANTS
    MaxGeneration = 4
    MaxAges = 2
    None = None
    Asking = Asking
    Habits = {}
INVARIANTS OwnerWasTold CodeIsPolled
PROPERTIES LoginIsSettled
CHECK_DEADLOCK FALSE
