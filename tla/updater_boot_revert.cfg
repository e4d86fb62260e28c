SPECIFICATION Spec
CONSTANTS
    TopRelease = 3
    Release <- MCRelease
    None = None
    Golden = 1
    Bad <- MCBad
    DeadUpdater <- MCDeadUpdater
    KeepPrevious = 1
    MaxBoots = 2
    Health = "socket"
    Ops = {"latest", "exact"}
    Events = {}
    MaxFaults = 1
INVARIANT LiveIsNotKnownBad
