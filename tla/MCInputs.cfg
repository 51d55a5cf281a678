SPECIFICATION Spec
CONSTANTS
  Prefix = 1
  MaxText = 2
  Size = 4
  MaxInput = 6
  MaxLines = 4
  MayTrail = FALSE
  Chars <- Keyboard
  Width <- Widths
  Full = 3
INVARIANTS LinesAreWhole PostedIsSaid LostOnlyInBurst
