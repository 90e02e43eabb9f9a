SPECIFICATION FairSpec
CONSTANTS
  Node = {g, a}
  Gen = g
  Kind = {few, many}
  Sendable = {few}
  Showable = {few, many}
  NoRequest = NoRequest
  REQUEST_ATTEMPTS = 2
  RETRY_COUNT = 2
  ROUNDS_PER_GENERATOR = 2
  Budget = 4
  CastType = {"D4", "D6"}
  MaxSize = 2
  MaxThreshold = 7
  IntBits = 3
  NoCount = NoCount
INVARIANTS
  RetriesWhilePending
  ThrowsPerRequest
  ThrowsAccountedFor
  MessagesReadBack
  AnswersMatch
  ResultsShownWhole
PROPERTIES
  RequestResolved
CHECK_DEADLOCK FALSE
