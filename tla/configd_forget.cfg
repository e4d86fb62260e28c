\* A profile whose settings cannot be read is passed over by net.forget.
CONSTANTS
  home = home
  away = away
  Ssids = {home, away}
  Old = {11, 12}
  OldSsid <- MCOldSsid
  Pads = {1, 2}
  MaxCalls = 1
  MaxFaults = 1
  Habits = {}
SPECIFICATION Spec
INVARIANTS ForgottenIsGone
CHECK_DEADLOCK FALSE
