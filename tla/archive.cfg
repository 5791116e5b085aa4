SPECIFICATION Spec
CONSTANTS
  agent = agent  operator = operator  console = console
  n1 = n1  n2 = n2  n3 = n3  None = None
  Threads <- AllThreads
  Names <- Three
  Saved <- TwoSaved
  Wants <- Bench
  Reuse = FALSE
  MaxRows = 1
  MaxMade = 4
INVARIANTS
  CurrentIsThere
  RowsSurvive
PROPERTIES
  IsAShelf
CHECK_DEADLOCK FALSE
