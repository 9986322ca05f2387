CONSTANTS
  MaxPerRead = 2
  MaxOwed = 2
  MaxApps = 2
SPECIFICATION FairSpec
CHECK_DEADLOCK FALSE
INVARIANTS
  TypeOK
  OneIoChain
  WaitingExact
  PromptReplyCreated
  PromptReadGuarded
PROPERTIES
  PromptReplyStable
  ImplementsHalfDuplex
  IdleReadShut
