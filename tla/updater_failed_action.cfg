SPECIFICATION Spec
CONSTANTS
    TopRelease = 4
    Release <- MCRelease
    None = None
    Golden = 1
    Bad <- MCBad
    DeadUpdater <- MCDeadUpdater
    KeepPrevious = 1
    MaxBoots = 2
    Health = "socket"
    Ops = {"latest", "exact", "rollback", "select"}
    Events = {"actionFails"}
    MaxFaults = 0
INVARIANT NoUnguardedBadRelease
