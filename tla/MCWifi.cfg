CONSTANTS
  hb = hb
  ddu = ddu
  c1 = c1
  c2 = c2
  Dev = {hb, ddu}
  KindOf <- OneAxis
  Creds = {c1, c2}
  Good = c1
  NoCreds = NoCreds
  CrashLimit = 3
  MaxAxes = 2
  Scenarios <- All
SPECIFICATION FairSpec
INVARIANTS GuardHolds NoGhostButton ReplyIsOwn
PROPERTIES NotLockedOut CredsTakeEffect
CHECK_DEADLOCK FALSE
