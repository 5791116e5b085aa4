SPECIFICATION Spec
CONSTANTS
  f1 = f1  f2 = f2  f3 = f3  None = None
  bpsk = bpsk  qpsk = qpsk  coded = coded  qam = qam
  Candidates <- Channels3
  Rates <- HopRates
  Ladder <- Rungs4
  Need <- Needs
  Eff <- Bits
  Levels = {0, 1, 3, 6}
  Hits = {1, 2, 6}
  Margin = 1
  Errors <- BitErrorRates
  Tolerated = 1
  Forgiven = 4
  Taus = {4, 5, 12, 20}
  Skews = {0, 1, 2}
  Probe = qpsk
  Powers = 4
  Iterations = 3
  Foes <- Jammers
  MaxRounds = 6
  Lapses = {"dropped", "current", "avoided"}
INVARIANTS
  ReportNamesTheLink
  ChoosesWell
  VerdictsStand
  LeastPower
  ProbeSeesTheEvasion
CHECK_DEADLOCK FALSE
