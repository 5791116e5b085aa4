SPECIFICATION Spec
CONSTANTS
  agent = agent  portal = portal  e1 = e1  e2 = e2
  None = None
  Clients <- TwoClients
  Exps <- TwoExps
  Requests <- Traffic
  MaxBody = 1
  McpMaxBody = 16
  TokenSet = TRUE
  MaxSessions = 2
INVARIANT PageIsTrue
PROPERTY InStep
CHECK_DEADLOCK FALSE
SYMMETRY Same
