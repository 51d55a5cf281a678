SPECIFICATION Spec
CONSTANTS
  Texts = {hi, bye}
  Nothing = nothing
  MaxSaid = 3
  MaxCopies = 2
  MaxOvertaken = 1
SYMMETRY AnyText
INVARIANTS EchoOnce TextIsSeen
