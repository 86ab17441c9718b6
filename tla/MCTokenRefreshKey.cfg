SPECIFICATION Spec
CONSTANTS
  Process = {p1, p2}
  Reader = {q1}
  Account = {a1, a2}
  NoAccount = NoAccount
  MaxTokens = 2
  MaxVersion = 3
CHECK_DEADLOCK FALSE
SYMMETRY Processes
PROPERTIES
  TokensChangeWithTheVersion
