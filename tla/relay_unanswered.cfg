\* relay.cfg, to see a GET /events waited for for ever.
CONSTANTS
  Token = {good, stale}
  Refused = {stale}
  None = None
  Asker = {a, b}
  Cadence = 2
  Poll = 6
  Lease = 6
  Reply = 4
  Prompt = 1
  Room = 1
  Misses = 2
  Steps = 1
  MaxEvents = 1
  MaxFaults = 1
SPECIFICATION FairSpec
PROPERTY AlwaysRetried
CHECK_DEADLOCK FALSE
