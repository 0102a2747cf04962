SPECIFICATION Spec
CONSTANTS
  z1 = z1
  z2 = z2
  c1 = c1
  c2 = c2
  c3 = c3
  a1 = a1
  Zones = {z1, z2}
  SwitchCalls = {c1, c2, c3}
  ActionCalls = {a1}
  None = None
  Faults <- Everything
INVARIANTS
  TypeOK
  SwitchesAgree
  NoneIsLeftOver
PROPERTIES
  CallsGetTheirWay
SYMMETRY Symmetry
CHECK_DEADLOCK FALSE
