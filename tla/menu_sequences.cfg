SPECIFICATION Spec
CONSTANTS
  Models <- AllModels
  Zones <- Boundaries
  HardwireTypes <- Wirings
  MaxRequests = 2
INVARIANTS
  TypeOK
  EntriesMeetTheirPrompts
  DoneAsAsked
PROPERTIES
  RefusedAsDocumented
CHECK_DEADLOCK FALSE
