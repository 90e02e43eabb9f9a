SPECIFICATION FairDepartureSpec

CONSTANTS
  Node = {1, 2}
  NoMac = 0
  FirstRounds = {0}
  MaxRound = 3
  MaxInFlight = 1
  MaxSwitches = 2
  MayLeave = {1}
  MayBreak = {{1, 2}}

PROPERTY NoSilentStall

CHECK_DEADLOCK FALSE
