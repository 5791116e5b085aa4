SPECIFICATION FairSpec
CONSTANTS
  c1 = c1  c2 = c2  e1 = e1  e2 = e2  s1 = s1  s2 = s2  None = None
  Clients <- OneClient
  Exps <- TwoExps
  Specs <- OneSpec
  Chans <- Band
  HopPlans <- Hops
  Declared = 2370
  BootHz = 2400
  StartupExp = None
  NoteSeqs = {1, 3}
  Faults = {"error", "gone"}
  Budget = 2
  MaxRows = 2
INVARIANTS
  LastResultIsCurrent
  AbortLeavesNoResult
PROPERTIES
  IsARunJournal
  RequestsReturn
