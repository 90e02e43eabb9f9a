SPECIFICATION FairSpec
CONSTANTS
  Producer = {p1, p2}
  Owner = owner
  Self = self
  Capacity = 2
  Delay = {0, 1}
  MaxTasks = 3
  MaxTime = 1
INVARIANTS
  InTimeAndOrder
  NoLostWakeup
PROPERTIES
  EveryCallServed
CHECK_DEADLOCK FALSE
