SPECIFICATION Spec
CONSTANTS
  Window = 3
  MaxMsg = 5
  MaxLogin = 3
  MayCut = TRUE
  MayTear = TRUE
  First = 7
  Digit <- Bits
  Width = 4
  Text <- TextOf
  Value <- ValueOf
INVARIANTS OnlyTornIsLost LoggedOnce
