SPECIFICATION Spec
CONSTANTS
  t1 = t1
  t2 = t2
  f1 = f1
  Tasks = {t1, t2}
  Flows = {f1}
  Setup = setup
  Unload = unload
  None = None
  BackoffMin = 1
  BackoffMax = 2
  FailuresBeforeIssue = 2
  Faults <- AllFaults
INVARIANTS
  TypeOK
  IInv
  OneSocket
  NeverForgotten
  LoanIsOwned
  ConnectedMeansWatched
  IssueIsHonest
  NoDialAfterShutdown
PROPERTIES
  NoReaderDropped
  ImplementsLoan
CHECK_DEADLOCK FALSE
