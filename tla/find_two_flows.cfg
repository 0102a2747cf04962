SPECIFICATION Spec
CONSTANTS
  t1 = t1
  t2 = t2
  f1 = f1
  f2 = f2
  Tasks = {t1, t2}
  Flows = {f1, f2}
  Setup = setup
  Unload = unload
  None = None
  BackoffMin = 1
  BackoffMax = 1
  FailuresBeforeIssue = 1
  Faults <- TcpFaults
INVARIANTS
  LoanIsRespected
CHECK_DEADLOCK FALSE
