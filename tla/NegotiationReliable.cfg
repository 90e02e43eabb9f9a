SPECIFICATION ReliableSpec

CONSTANTS
  Node = {1, 2, 3}
  NoMac = 0
  FirstRounds = {0, 1}
  MaxRound = 2
  MaxInFlight = 1
  MaxSwitches = 2
  MayLeave = {}
  MayBreak = {}

INVARIANT Agreement
PROPERTY ElectionSpec

CHECK_DEADLOCK FALSE
