SPECIFICATION FairSpec
CONSTANTS
    TopRelease = 4
    Release <- MCRelease
    None = None
    Golden = 1
    Bad <- MCBad
    DeadUpdater <- MCDeadUpdater
    KeepPrevious = 1
    MaxBoots = 2
    Health = "socket"
    Ops <- AllOps
    Events = {"rescue", "ioError"}
    MaxFaults = 3
INVARIANTS BadLiveIsOnTrial DiskIsKept OutcomeIsTrue
PROPERTIES BadIsLeft TrialIsDecided
