CONSTANTS
  Events = {e1}
  NoEvent = NoEvent
  Workers = {w1}
  Compensators = {c1}
  Configured = {e1}
  Tokens = {t1, t2, t3}
  NoToken = NoToken
  SmallintMax = 4
  MaxAttempts = 2
  BrokerKinds = {TRUE}
  MaxCopies = 1
  MaxFaults = 1
SPECIFICATION Spec
INVARIANTS
  AttemptCountIsRealCalls
CHECK_DEADLOCK FALSE
