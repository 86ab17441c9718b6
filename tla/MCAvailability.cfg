SPECIFICATION FairSpec
CONSTANTS
  c1 = c1
  c2 = c2
  transport = transport
  model = model
  Scope = {transport, model}
  NoScope = NoScope
  Candidate = {c1, c2}
  scopesOf <- Scopes
  Token = {t1, t2}
  NoToken = NoToken
  FailureLimit = 2
  MaxEpoch = 2
CHECK_DEADLOCK FALSE
INVARIANTS
  TypeOK
  OneTrialPerScope
  CancelledHoldsNothing
PROPERTIES
  ImplementsBreaker
  RestIsUndisturbed
  ScopesReopen
