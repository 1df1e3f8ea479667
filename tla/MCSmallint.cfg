CONSTANTS
  Events = {e1}
  NoEvent = NoEvent
  Workers = {w1}
  Compensators = {c1}
  Configured = {e1}
  Tokens = {t1, t2, t3}
  NoToken = NoToken
  SmallintMax = 2
  MaxAttempts = 2
  BrokerKinds = {TRUE}
  MaxCopies = 1
  MaxFaults = 1
SPECIFICATION FairSpec
PROPERTIES
  ExhaustedEventFails
CHECK_DEADLOCK FALSE
