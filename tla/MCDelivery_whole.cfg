SPECIFICATION FairSpec
CONSTANTS
  Window = 3
  MaxMsg = 6
  MaxLogin = 3
  MayCut = FALSE
  MayTear = FALSE
  First = 7
  Digit <- Bits
  Width = 4
  Text <- TextOf
  Value <- ValueOf
PROPERTIES LogIsJournal EverythingLogged
