SPECIFICATION FairSpec
CONSTANTS
  c1 = c1  c2 = c2  f1 = f1  f2 = f2  tx = tx  rx = rx
  Main = Main  None = None
  Clients <- TwoClients
  Chans <- TwoChans
  Declared = f1
  Window = 1
  Roles <- TwoRoles
  Requests <- Asked
  Faults = {"unplug", "slow", "wedge", "exit"}
INVARIANTS
  RepliesMatch
  TrialFliesItsCondition
  SweepIsSilent
  GateClosedBetweenCaptures
PROPERTIES
  ImplementsRadioLink
  RequestsReturn
CHECK_DEADLOCK FALSE
