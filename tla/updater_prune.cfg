SPECIFICATION Spec
CONSTANTS
    TopRelease = 4
    Release <- MCRelease
    None = None
    Golden = None
    Bad <- MCBad
    DeadUpdater <- MCDeadUpdater
    KeepPrevious = 1
    MaxBoots = 2
    Health = "socket"
    Ops = {"latest", "exact"}
    Events = {}
    MaxFaults = 0
PROPERTY PruneKeepsAFallback
