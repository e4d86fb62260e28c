\* Two calls to one part of configd, one restart, power cut or failed bus call.
CONSTANTS
  home = home
  away = away
  Ssids = {home, away}
  Old = {11, 12}
  OldSsid <- MCOldSsid
  Pads = {1, 2}
  MaxCalls = 2
  MaxFaults = 1
  Habits = {}
SPECIFICATION FairSpec
INVARIANTS ProfileIsTheAnswer SettingIsKept PairingIsSound
PROPERTIES CallIsAnswered
CHECK_DEADLOCK FALSE
