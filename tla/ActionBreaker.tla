----------------------------- MODULE ActionBreaker -----------------------------
(***************************************************************************)
(* The circuit breaker (internal/worker/breaker.go) and the concurrency    *)
(* slots (internal/worker/limiter.go) of one provider action in one        *)
(* worker process, and what Processor.process does with them: the          *)
(* handler goroutines of the process share both.                           *)
(*                                                                         *)
(* allow, observe and abort run under the breaker's mutex and are atomic.  *)
(* A permit is what a handler remembers between Allow and Observe or       *)
(* Abort.  A rejected delivery changes nothing here: it is deferred and    *)
(* comes back (Delivery, DeferForOpenCircuit).  The token bucket of the    *)
(* limiter only delays Acquire.                                            *)
(***************************************************************************)
EXTENDS Integers, FiniteSets

CONSTANTS
  Handlers,           \* goroutines running Processor.process
  FailureThreshold,   \* failure_threshold of the action
  MaxConcurrency,     \* max_concurrency of the action, 0 = no limit
  MaxGeneration       \* bound: generations of one behaviour

ASSUME HandlersAssumption == IsFiniteSet(Handlers)
ASSUME ThresholdAssumption == FailureThreshold \in Nat \ {0}
ASSUME LimitAssumption == MaxConcurrency \in Nat /\ MaxGeneration \in Nat

VARIABLES
  state,                \* breakerState
  consecutiveFailure,
  generation,
  openUntil,            \* unset, still ahead, or passed
  halfOpenInFlight,
  sem,                  \* slots taken from actionLimiter.sem
  handler               \* what each handler goroutine knows

vars == <<state, consecutiveFailure, generation, openUntil, halfOpenInFlight, sem, handler>>

(* A handler waits for a slot, prepares its row, calls the provider and    *)
(* settles its row; the slot is released when process returns.             *)
PCs == {"idle", "acquire", "prepare", "call", "settle"}

Idle == [pc |-> "idle", generation |-> 0, halfOpen |-> FALSE]

Init ==
  /\ state = "CLOSED"
  /\ consecutiveFailure = 0
  /\ generation = 0
  /\ openUntil = "unset"
  /\ halfOpenInFlight = FALSE
  /\ sem = 0
  /\ handler = [h \in Handlers |-> Idle]

-----------------------------------------------------------------------------
(* actionBreaker *)

Permit(h, halfOpen) ==
  handler' = [handler EXCEPT ![h] = [pc |-> "acquire", generation |-> generation,
                                     halfOpen |-> halfOpen]]

AllowClosed(h) ==
  /\ state = "CLOSED"
  /\ Permit(h, FALSE)
  /\ UNCHANGED <<state, halfOpenInFlight>>

(* Mutant: a half-open breaker does not check for a probe under way. *)
AllowProbe_Unchecked(h) ==
  /\ \/ state = "OPEN" /\ openUntil = "past"
     \/ state = "HALF_OPEN"
  /\ state' = "HALF_OPEN"
  /\ halfOpenInFlight' = TRUE
  /\ Permit(h, TRUE)

AllowProbe(h) ==
  /\ \/ state = "OPEN" /\ openUntil = "past"
     \/ state = "HALF_OPEN" /\ ~halfOpenInFlight
  /\ state' = "HALF_OPEN"
  /\ halfOpenInFlight' = TRUE
  /\ Permit(h, TRUE)

Allow(h) ==
  /\ handler[h].pc = "idle"
  /\ generation < MaxGeneration
  /\ AllowClosed(h) \/ AllowProbe(h)
  /\ UNCHANGED <<consecutiveFailure, generation, openUntil, sem>>

(* Mutant: permits of an earlier generation count as well. *)
Current_Always(h) == TRUE

Current(h) == handler[h].generation = generation

(* Mutant: opening the circuit starts no new generation. *)
openLocked_SameGeneration ==
  /\ openUntil' = "future"
  /\ halfOpenInFlight' = FALSE
  /\ state' = "OPEN"
  /\ UNCHANGED generation

openLocked ==
  /\ generation' = generation + 1
  /\ openUntil' = "future"
  /\ halfOpenInFlight' = FALSE
  /\ state' = "OPEN"

Released(h) == IF handler[h].halfOpen THEN FALSE ELSE halfOpenInFlight

(* Mutant: a probe without a verdict keeps the probe slot. *)
ObserveIgnore_KeepsProbe(h) ==
  UNCHANGED <<state, consecutiveFailure, generation, openUntil, halfOpenInFlight>>

ObserveIgnore(h) ==
  /\ halfOpenInFlight' = Released(h)
  /\ UNCHANGED <<state, consecutiveFailure, generation, openUntil>>

(* Mutant: closing the circuit keeps the failure count. *)
ObserveReachable_KeepsCount(h) ==
  /\ halfOpenInFlight' = Released(h)
  /\ UNCHANGED consecutiveFailure
  /\ IF state = "HALF_OPEN"
       THEN /\ generation' = generation + 1
            /\ openUntil' = "unset"
            /\ state' = "CLOSED"
       ELSE UNCHANGED <<generation, openUntil, state>>

ObserveReachable(h) ==
  /\ halfOpenInFlight' = Released(h)
  /\ consecutiveFailure' = 0
  /\ IF state = "HALF_OPEN"
       THEN /\ generation' = generation + 1
            /\ openUntil' = "unset"
            /\ state' = "CLOSED"
       ELSE UNCHANGED <<generation, openUntil, state>>

(* An open circuit has issued no permit of its generation, so the early    *)
(* return of observe for that state is never taken (OpenIsUnpermitted).    *)
ObserveUnavailable(h) ==
  \/ /\ state = "HALF_OPEN"
     /\ openLocked
     /\ UNCHANGED consecutiveFailure
  \/ /\ state = "CLOSED"
     /\ consecutiveFailure' = consecutiveFailure + 1
     /\ IF consecutiveFailure + 1 >= FailureThreshold
          THEN openLocked
          ELSE /\ halfOpenInFlight' = Released(h)
               /\ UNCHANGED <<state, generation, openUntil>>

abort(h) ==
  /\ halfOpenInFlight' = IF Current(h) THEN Released(h) ELSE halfOpenInFlight
  /\ UNCHANGED <<state, consecutiveFailure, generation, openUntil>>

-----------------------------------------------------------------------------
(* Processor.process *)

Finish(h) == handler' = [handler EXCEPT ![h] = Idle]

Acquire(h) ==
  /\ handler[h].pc = "acquire"
  /\ MaxConcurrency > 0 => sem < MaxConcurrency
  /\ sem' = IF MaxConcurrency > 0 THEN sem + 1 ELSE sem
  /\ handler' = [handler EXCEPT ![h].pc = "prepare"]
  /\ UNCHANGED <<state, consecutiveFailure, generation, openUntil, halfOpenInFlight>>

(* The context ends while the handler waits for the rate or for a slot. *)
AcquireCanceled(h) ==
  /\ handler[h].pc = "acquire"
  /\ abort(h)
  /\ Finish(h)
  /\ UNCHANGED sem

release == sem' = IF MaxConcurrency > 0 THEN sem - 1 ELSE sem

(* Mutant: the slot is released only after a provider call. *)
PrepareFails_KeepsSlot(h) ==
  /\ handler[h].pc = "prepare"
  /\ abort(h)
  /\ Finish(h)
  /\ UNCHANGED sem

(* MarkRequesting or RenewLease fails, or the lease is gone. *)
PrepareFails(h) ==
  /\ handler[h].pc = "prepare"
  /\ abort(h)
  /\ release
  /\ Finish(h)

Prepared(h) ==
  /\ handler[h].pc = "prepare"
  /\ handler' = [handler EXCEPT ![h].pc = "call"]
  /\ UNCHANGED <<state, consecutiveFailure, generation, openUntil, halfOpenInFlight, sem>>

(* The provider answers, or the adapter fails without a verdict. *)
Observe(h) ==
  /\ handler[h].pc = "call"
  /\ \/ /\ Current(h)
        /\ ObserveIgnore(h) \/ ObserveReachable(h) \/ ObserveUnavailable(h)
     \/ /\ ~Current(h)
        /\ UNCHANGED <<state, consecutiveFailure, generation, openUntil, halfOpenInFlight>>
  /\ handler' = [handler EXCEPT ![h].pc = "settle"]
  /\ UNCHANGED sem

(* The row is settled and the deferred release runs. *)
Return(h) ==
  /\ handler[h].pc = "settle"
  /\ release
  /\ Finish(h)
  /\ UNCHANGED <<state, consecutiveFailure, generation, openUntil, halfOpenInFlight>>

OpenDurationPasses ==
  /\ state = "OPEN" /\ openUntil = "future"
  /\ openUntil' = "past"
  /\ UNCHANGED <<state, consecutiveFailure, generation, halfOpenInFlight, sem, handler>>

Step(h) == \/ Allow(h) \/ Acquire(h) \/ AcquireCanceled(h) \/ PrepareFails(h)
           \/ Prepared(h) \/ Observe(h) \/ Return(h)

Next == OpenDurationPasses \/ \E h \in Handlers : Step(h)

Spec == Init /\ [][Next]_vars

(* Goroutines are scheduled, calls have timeouts, waiting senders of a Go  *)
(* channel are served in order, deferred deliveries come back and time     *)
(* passes.                                                                 *)
Fairness ==
  /\ WF_vars(OpenDurationPasses)
  /\ WF_vars(\E h \in Handlers : Allow(h))
  /\ \A h \in Handlers : /\ SF_vars(Acquire(h))
                         /\ WF_vars(Prepared(h) \/ PrepareFails(h))
                         /\ WF_vars(Observe(h))
                         /\ WF_vars(Return(h))

FairSpec == Spec /\ Fairness

-----------------------------------------------------------------------------
(* Properties *)

TypeOK ==
  /\ state \in {"CLOSED", "OPEN", "HALF_OPEN"}
  /\ consecutiveFailure \in 0 .. FailureThreshold
  /\ generation \in 0 .. MaxGeneration
  /\ openUntil \in {"unset", "future", "past"}
  /\ halfOpenInFlight \in BOOLEAN
  /\ sem \in Nat
  /\ handler \in [Handlers -> [pc : PCs, generation : 0 .. MaxGeneration, halfOpen : BOOLEAN]]

(* h still owes the breaker an answer on its permit. *)
Outstanding(h) == handler[h].pc \in {"acquire", "prepare", "call"}

Probe(h) == Outstanding(h) /\ handler[h].halfOpen /\ Current(h)

(* No permit of the current generation is out while the circuit is open:   *)
(* observe and abort ignore every late answer until the next probe.        *)
OpenIsUnpermitted ==
  state = "OPEN" => \A h \in Handlers : ~(Outstanding(h) /\ Current(h))

(* A half-open breaker has one probe at most, and remembers one exactly    *)
(* while it is under way: the flag never stays behind when a probe ends    *)
(* without a verdict, and no late answer of an older permit clears it.     *)
ProbeAccounted ==
  /\ halfOpenInFlight <=> \E h \in Handlers : Probe(h)
  /\ \A g, h \in Handlers : Probe(g) /\ Probe(h) => g = h
  /\ halfOpenInFlight => state = "HALF_OPEN"

(* The failure count is at the threshold exactly when the circuit is not   *)
(* closed, so a circuit that closes starts from a clean count.             *)
StreakMatchesState == state = "CLOSED" <=> consecutiveFailure < FailureThreshold

(* Slots in use are those of the handlers past Acquire: none is leaked on  *)
(* an error path, none is released twice, and the cap holds.               *)
SlotsAccounted ==
  MaxConcurrency > 0 =>
    /\ sem = Cardinality({h \in Handlers : handler[h].pc \in {"prepare", "call", "settle"}})
    /\ sem <= MaxConcurrency

(* Once open, the circuit is closed or opened again only by the answer to  *)
(* a probe, never by one to a call admitted before it opened.              *)
ProbeDecides ==
  [][state # "CLOSED" /\ generation' # generation =>
       \E h \in Handlers : Probe(h) /\ handler[h].pc = "call" /\ handler'[h].pc = "settle"]_vars

(* The breaker is never stuck: an open circuit gets to probe, and a probe  *)
(* ends, also while older calls occupy the slots.                          *)
ProbesHappen ==
  /\ state = "OPEN" /\ generation < MaxGeneration ~> state = "HALF_OPEN"
  /\ halfOpenInFlight ~> ~halfOpenInFlight
=============================================================================
