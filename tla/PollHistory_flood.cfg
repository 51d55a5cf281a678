SPECIFICATION HSpec
CONSTANTS
  Granularity = 1000
  WaitMaxi = 4
  WaitMini = 2
  WaitAwake = 1
  RelogErrs = 2
  Codes <- Refusing
  Silent <- OnlyPosts
  MaxNews = 1
  Forced = FALSE
  MayExit = FALSE
INVARIANTS
  NeverFloods
