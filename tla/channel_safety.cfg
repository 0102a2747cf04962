SPECIFICATION Spec
CONSTANTS
  a = a
  b = b
  p = p
  Typists = {a, b}
  Pollers = {p}
  KeyCount = 2
  Attempts = 2
  MaxSessions = 2
  None = None
  Faults <- Ordinary
INVARIANTS
  TypeOK
  OneCommandInFlight
PROPERTIES
  ImplementsDelivery
CHECK_DEADLOCK FALSE
