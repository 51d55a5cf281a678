SPECIFICATION Spec
CONSTANTS
  MAXCOOKIES = 2
  MAXBUFNAME = 2
  MAXBUFVALUE = 1
  BufSize = 14
  IdSize = 20
  Window = 2
  MaxMsg = 2
  MaxLogin = 2
  MaxRefused = 1
  Apart = TRUE
  CookieSets <- SetsFor
  Presences <- People
  First = 18
  ContentOf <- Content
  Symbols <- SomeSymbols
INVARIANTS PageIsRead TokensArePaired JarIsTold
PROPERTIES ImplementsDelivery JarIsStore
CHECK_DEADLOCK FALSE
