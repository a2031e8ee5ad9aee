SPECIFICATION Spec
CONSTANTS
  Pieces = {"p1", "p2"}
  MaxSent = 5
  Disturbed = TRUE
INVARIANTS
  OnAir
  Silent

