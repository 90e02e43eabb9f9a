SPECIFICATION BridgeFairSpec
CONSTANTS
  Task = {t1, t2}
  NoTask = NoTask
  Base = {2}
  Close = 2
  Slots = 2
  MaxIssued = 3
  EventName = {"SocketReadFailed", "MessageReceived"}
  MaxReady = 2
  MaxEvents = 1
INVARIANTS
  TypeOK
  SuspendedIffRegistered
  IdsIdentifyCommands
  AnswerIsOwn
  CommandsInTransit
  InvokersLive
  ArgumentsIntact
PROPERTIES
  EventsHeard
  EveryCallReturns
CHECK_DEADLOCK FALSE
