SPECIFICATION Spec
CONSTANTS
    TopRelease = 3
    Release <- MCRelease
    None = None
    Golden = 1
    Bad <- MCBad
    DeadUpdater <- MCDeadUpdater
    KeepPrevious = 1
    MaxBoots = 2
    Health = "socket"
    Ops <- AllOps
    Events <- EventKinds
    MaxFaults = 2
INVARIANTS TrialIsAboutTheLive
PROPERTIES FollowsProtocol
CHECK_DEADLOCK FALSE
