SPECIFICATION Spec
CONSTANTS
  c1 = c1  c2 = c2  e1 = e1  e2 = e2  s1 = s1  s2 = s2  None = None
  Clients <- OneClient
  Exps <- TwoExps
  Specs <- TwoSpecs
  Chans <- WideBand
  HopPlans <- HopsOfOne
  Declared = 2370
  BootHz = 2400
  StartupExp = None
  NoteSeqs = {1}
  Faults = {}
  Budget = 1
  MaxRows = 3
INVARIANTS
  CentreIsMeasured
  RealHopsFlewTheirPlan
  LinkReturnsHome
  TuningFitsStructure
SYMMETRY SerialSymmetry
