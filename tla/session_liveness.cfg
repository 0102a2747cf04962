SPECIFICATION FairSpec
CONSTANTS
  t1 = t1
  t2 = t2
  f1 = f1
  Tasks = {t1, t2}
  Flows = {f1}
  Setup = setup
  Unload = unload
  None = None
  BackoffMin = 1
  BackoffMax = 1
  FailuresBeforeIssue = 1
  Faults <- TcpFaults
PROPERTIES
  Recovers
  SilenceIsNoticed
  FlowsFinish
  ShutdownFinishes
CHECK_DEADLOCK FALSE
