\* One event and one malformed message; two deliveries outstanding, one of
\* them in its delay while the other is handled; one fault of any kind at any
\* moment.  Six slots are enough: 1 + MaxFaults * Prefetch copies, as
\* many replaced originals as the prefetch allows, and the malformed message.
\* A behaviour ends when its event is done.
CONSTANTS
  Events = {e1}
  Junk = Junk
  Concurrency = 1
  PrefetchCount = 2
  MaxUint = 2
  MaxMessages = 6
  MaxPublishes = 1
  MaxFaults = 1
SPECIFICATION LiveSpec
INVARIANTS TypeOK ConfirmedIsKept DuplicatesNeedFaults
PROPERTIES HandledUntilDone ImplementsQueue
CHECK_DEADLOCK FALSE
