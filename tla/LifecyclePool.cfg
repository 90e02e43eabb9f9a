SPECIFICATION FairSpec
CONSTANTS
  Peer = {p1}
  MAX_SEND_RETRY_COUNT = 2
  MAX_GAME_START_RETRY_COUNT = 2
  MAX_DISCOVERY_RETRY_COUNT = 1
  MAX_LISTENING_RETRY_COUNT = 1
  MaxSwitches = 2
  MaxHellos = 1
  MaxOrphans = 1
PROPERTY PoolNotEmpty
CHECK_DEADLOCK FALSE
