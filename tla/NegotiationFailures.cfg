SPECIFICATION Spec

CONSTANTS
  Node = {1, 2, 3}
  NoMac = 0
  FirstRounds = {1}
  MaxRound = 2
  MaxInFlight = 1
  MaxSwitches = 1
  MayLeave = {3}
  MayBreak = {}

INVARIANT TypeOK
INVARIANT OffersMatchPeers
INVARIANT PlaysInRoundOfPeers
INVARIANT PeerAgreement

CHECK_DEADLOCK FALSE
