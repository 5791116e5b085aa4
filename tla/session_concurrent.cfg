SPECIFICATION Spec
CONSTANTS
  c1 = c1  c2 = c2  e1 = e1  e2 = e2  s1 = s1  s2 = s2  None = None
  Clients <- TwoClients
  Exps <- TwoExps
  Specs <- OneSpec
  Chans <- Band
  HopPlans <- Hops
  Declared = 2370
  BootHz = 2400
  StartupExp = None
  NoteSeqs = {1}
  Faults = {"error", "gone"}
  Budget = 1
  MaxRows = 1
INVARIANTS
  TypeOK
  WholeFlightsOnly
SYMMETRY ClientSymmetry
