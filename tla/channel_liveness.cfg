SPECIFICATION FairSpec
CONSTANTS
  a = a
  q = q
  p = p
  Typists = {a}
  Pollers = {p, q}
  KeyCount = 2
  Attempts = 1
  MaxSessions = 2
  None = None
  Faults <- Everything
PROPERTIES
  CommandsFinish
CHECK_DEADLOCK FALSE
