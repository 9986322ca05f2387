CONSTANTS
  MaxPerRead = 2
  MaxOwed = 2
SPECIFICATION FairSpec
CHECK_DEADLOCK FALSE
PROPERTIES
  NotCutWhileWaiting
