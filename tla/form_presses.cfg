SPECIFICATION Spec
CONSTANTS
  p1 = p1
  p2 = p2
  p3 = p3
  Presses = {p1, p2, p3}
  None = None
  Supported = {"zone", "timing", "key"}
  Verified = TRUE
  HasCode = TRUE
  Faults <- Everything
INVARIANTS
  TypeOK
PROPERTIES
  ImplementsAuthorization
SYMMETRY Symmetry
CHECK_DEADLOCK FALSE
