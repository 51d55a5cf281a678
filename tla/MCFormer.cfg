\* Two connections and four lines, one write that fails, and what a page may say.
SPECIFICATION FairSpec
CONSTANTS
  Connections = 2
  MaxLines = 4
  MaxFails = 1
  IrcNicks = {"me", "other"}
  Channel = "#c"
  ForumNames = {"A"}
  ffname = "Me"
  JoinDelay = 1
  MaxEvents = 2
INVARIANTS SaidIsPosted NobodyStays
PROPERTIES EchoOnce WelcomedJoins
\* A crash is a stop.
CHECK_DEADLOCK FALSE
