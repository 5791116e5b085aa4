SPECIFICATION Spec
CONSTANTS
  c1 = c1  f1 = f1  f2 = f2  u1 = u1  u2 = u2
  m1 = m1  m2 = m2
  Main = Main  None = None
  Callers <- OneCaller
  Followers <- TwoFollowers
  Units <- TwoUnits
  Chans <- Band
  DefaultHz = m1
  Commands <- Orders
  Enabled = TRUE
  Backlog = 1
  Faults = {"dies", "refuses", "slow"}
SYMMETRY Alike
INVARIANTS
  NoOrphanTransmitter
  DisarmedIsSilent
CHECK_DEADLOCK FALSE
