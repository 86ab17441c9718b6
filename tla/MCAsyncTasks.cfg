SPECIFICATION FairSpec
CONSTANTS
  t1 = t1
  p1 = p1
  p2 = p2
  w1 = w1
  w2 = w2
  s1 = s1
  s2 = s2
  Task = {t1}
  MaxAttempts <- TwoAttempts
  Webhook = {t1}
  Process = {p1, p2}
  NoProcess = NoProcess
  Survivor = p2
  Worker = {w1, w2}
  Sender = {s1, s2}
  home <- Homes
  NoTask = NoTask
  MaxSends = 2
CHECK_DEADLOCK FALSE
INVARIANTS
  TypeOK
  EveryEndIsAnnounced
  OneRunPerIdentity
PROPERTIES
  EndsAreFinal
  TasksConclude
