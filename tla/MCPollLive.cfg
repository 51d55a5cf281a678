SPECIFICATION FairSpec
CONSTANTS
  Granularity = 1000
  WaitMaxi = 2
  WaitMini = 1
  WaitAwake = 1
  RelogErrs = 2
  Codes <- LiveCodes
  Silent <- RequestStates
  MaxNews = 1
  Forced = TRUE
  MayExit = TRUE
PROPERTIES
  MessageSettled
  KeepsReading
CHECK_DEADLOCK FALSE
