SPECIFICATION FairSpec
CONSTANTS
  u1 = u1
  u2 = u2
  Partitions = {1}
  PanelPartitions = {1, 2}
  Zones = {1}
  PanelZones = {1, 2}
  Users = {u1, u2}
  None = None
  Base = 4
  Timers = {3, 4}
  Budgets <- FewOfEach
  MaxWire = 4
INVARIANTS
  TypeOK
  StatusIsTrue
  ZonesAreTrue
  TroubleIsTrue
  UsersAreTrue
PROPERTIES
  ZonesCatchUp
CHECK_DEADLOCK FALSE
