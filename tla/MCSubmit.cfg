CONSTANTS
  Clients = {c1, c2}
  EventIds = {e1, e2}
  NoEvent = NoEvent
  Keys = {"k1", "k2"}
  Actions = {"a1", "a2"}
  Values = {"v1", "v2", "v3"}
  LargeValues = {"v2"}
  Float64 <- MCFloat64
  Requests <- MCRequests
  MaxFaults = 1
SPECIFICATION LiveSpec
INVARIANTS TypeOK OneEventPerSourceRequest AnswersAgree RefusedAttemptStoredNothing AcceptedContentIsStored PublishedOnceStored
PROPERTIES EventuallyAnswered
