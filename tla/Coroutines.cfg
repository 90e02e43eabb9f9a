SPECIFICATION FairSpec
CONSTANTS
  Task = {t0, t1, t2, t3}
  AnyFrame = AnyFrame
  Wrappers = 2
  None = None
INVARIANTS
  HandlesLive
PROPERTIES
  AbandonedUnwind
  OneWinner
  ExceptionsSurface
  FramesReclaimed
CHECK_DEADLOCK FALSE
