SPECIFICATION Spec
CONSTANTS
  None = None  Missing = file  file = file
  ipA = ipA  ipB = ipB
  Radios <- TheRadios
  Uris <- TheUris
  Benches <- TheBenches
  Invocations <- TheInvocations
  Margins <- TheMargins
  MaxReplugs = 2
  MinMargin = 10
  MaxSpread = 6
  Senses = 3
INVARIANTS
  MeasuresDeclaredBench
  KeyedOnlyContained
  PassedMeansHeard
CHECK_DEADLOCK FALSE
