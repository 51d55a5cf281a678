SPECIFICATION HSpec
CONSTANTS
  Granularity = 1000
  WaitMaxi = 2
  WaitMini = 2
  WaitAwake = 1
  RelogErrs = 2
  Codes <- AllCodes
  Silent <- AllSilent
  MaxNews = 1
  Forced = TRUE
  MayExit = TRUE
INVARIANTS
  PendingIsOnItsWay
  TriesBounded
  Polite
  NoRepost
  LoginIsComplete
PROPERTIES
  RelogIsJustified
CHECK_DEADLOCK FALSE
