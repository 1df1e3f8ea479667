\* One event, two workers, one compensator and two faults of any kind at any
\* moment, with an external broker and with the memory broker.  The event's
\* action may be missing at any delivery.  Two tokens are enough: a token is
\* chosen again once nothing refers to it.  A behaviour ends when its event
\* is settled and its messages are gone.
CONSTANTS
  Events = {e1}
  NoEvent = NoEvent
  Workers = {w1, w2}
  Compensators = {c1}
  Configured = {}
  Tokens = {t1, t2}
  NoToken = NoToken
  SmallintMax = 4
  MaxAttempts = 2
  BrokerKinds = {TRUE, FALSE}
  MaxCopies = 2
  MaxFaults = 2
SPECIFICATION FairSpec
INVARIANTS
  TypeOK
  ProviderCallBudget
  AttemptCountCoversCalls
  NoLostWakeup
  AlwaysRecoverable
  OutcomeJustified
  ExclusiveProcessing
  SafetyInv
PROPERTIES
  TerminalIsFinal
  ImplementsContract
  EventuallySettled
ACTION_CONSTRAINT TokenChoice
CHECK_DEADLOCK FALSE
