SPECIFICATION StartSpec
CONSTANTS
  m1 = m1
  m2 = m2
  right = right
  wrong = wrong
  f1 = f1
  h1 = h1
  h2 = h2
  c1 = c1
  c2 = c2
  MaxEntries = 2
  Flows = {f1}
  Hosts = {h1, h2}
  Modules = {m1}
  Passwords = {right, wrong}
  PasswordOf <- Accepted
  MaxZones = 2
  Codes = {c1, c2}
  MaxActs = 2
  None = None
INVARIANTS
  OptionsTakeEffect
CHECK_DEADLOCK FALSE
