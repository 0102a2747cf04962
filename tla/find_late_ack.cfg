SPECIFICATION Spec
CONSTANTS
  a = a
  b = b
  p = p
  Typists = {a, b}
  Pollers = {}
  KeyCount = 2
  Attempts = 1
  MaxSessions = 1
  None = None
  Faults <- Slow
INVARIANTS
  SuccessMeansEveryKey
CHECK_DEADLOCK FALSE
