CONSTANTS
  MaxPerRead = 2
  MaxOwed = 2
SPECIFICATION FairSpec
CHECK_DEADLOCK FALSE
INVARIANTS
  TypeOK
  TakesTurns
  SentReplyCreated
  ReadGuarded
  AwaitGuarded
  ErrorOnlyRejects
  RepliesMatchRequests
PROPERTIES
  ReplyStable
  ImplementsHalfDuplex
  IdleReadEnds
  AsyncAnswered
  ShutReleased
