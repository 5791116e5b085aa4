SPECIFICATION FairSpec
CONSTANTS
  c1 = c1  f1 = f1  f2 = f2  u1 = u1  u2 = u2
  m1 = m1  m2 = m2
  Main = Main  None = None
  Callers <- OneCaller
  Followers <- TwoFollowers
  Units <- TwoUnits
  Chans <- Band
  DefaultHz = m1
  Commands <- ShortOrders
  Enabled = TRUE
  Backlog = 1
  Faults = {"dies"}
INVARIANTS
  ParkedWhereTold
  NeverContends
PROPERTIES
  CommandsReturn
  ShutdownSilences
CHECK_DEADLOCK FALSE
