\* A good and a refused token, two consumers, one failure or login.
CONSTANTS
  Token = {good, stale}
  Refused = {stale}
  None = None
  Asker = {a, b}
  Cadence = 2
  Poll = 6
  Lease = 6
  Reply = 4
  Prompt = 1
  Room = 1
  Misses = 2
  Steps = 1
  MaxEvents = 1
  MaxFaults = 1
SPECIFICATION FairSpec
INVARIANTS LeaseIsHeld NoneIsAbandoned
PROPERTIES SignedOutIsUnlisted ReachableAgain
CHECK_DEADLOCK FALSE
