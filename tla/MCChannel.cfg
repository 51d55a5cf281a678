SPECIFICATION FairSpec
CONSTANTS
  Self = self
  Names = {self, a}
  Topics = {t1, t2}
  NoTopic = noTopic
  TopicMode = 2
  RejoinDelay = 2
  VisibleLimit = 1
  InvisibleLimit = 2
  MayCut = TRUE
INVARIANTS ViewIsList RegisteredByItself TopicFollowed
PROPERTIES NotRushed GoneIsParted WelcomedEnters
