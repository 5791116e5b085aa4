SPECIFICATION Spec
CONSTANTS
  None = None
  e1 = e1  e2 = e2
  DigitFirst = {"16qam_link"}
  Exps <- TwoExps
  Structures <- TheStructures
  Names = {"gap"}
  Ladder <- TheLadder
  Targets = {0, 1}
  Gains = {40, 150}
  Levels = {0, 1}
  DefaultTarget = 1
  Tuned <- Typing
  Inserts = {"costas"}
  Hangs = {"foreign"}
  MaxEdits = 1
  MaxCalls <- TheCalls
  MaxMixed = 1
INVARIANTS
  EveryRunDownloadable
  ImportFaithful
  VocabularyTrue
SYMMETRY Same
CHECK_DEADLOCK FALSE
