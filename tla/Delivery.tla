------------------------------- MODULE Delivery -------------------------------
(***************************************************************************)
(* The delivery path: the API goroutine that inserts and publishes an      *)
(* event, the broker, the workers (internal/worker/processor.go), the two  *)
(* loops of every compensator (internal/worker/compensator.go) and the     *)
(* publish service all of them share (internal/publish), over one table of *)
(* rows (EventRepo).                                                       *)
(*                                                                         *)
(* A step is one database statement, broker call or provider call together *)
(* with the local code up to the next one.  Rows outlive everything; what  *)
(* a goroutine knows between two statements is in worker, todo, marking    *)
(* and snapshot, and is lost when its process dies.                        *)
(***************************************************************************)
EXTENDS EventRepo, FiniteSets

CONSTANTS
  Events,          \* event ids (rows of notification_event)
  NoEvent,
  Workers,         \* goroutines running Processor.HandleDelivery
  Compensators,    \* processes running a Compensator
  Configured,      \* events whose action every worker's Registry has
  MaxAttempts,     \* max_attempts of the broker configuration, 0 = unlimited
  BrokerKinds,     \* deployments: TRUE for NSQ or RabbitMQ, FALSE for MemoryBroker
  MaxCopies,       \* bound: messages per event in the broker and in handlers
  MaxFaults        \* bound: faults of the environment in one behaviour

ASSUME EventAssumption == NoEvent \notin Events
ASSUME ConfiguredAssumption == Configured \subseteq Events
ASSUME AttemptsAssumption == MaxAttempts \in 0 .. SmallintMax  \* validateRequeueConfig
ASSUME BrokerAssumption == BrokerKinds \subseteq BOOLEAN
ASSUME BoundAssumption == MaxCopies \in Nat /\ MaxFaults \in Nat

VARIABLES
  durable,     \* what receipts of this deployment's broker say; never changes
  row,         \* the table
  queue,       \* messages per event the broker may deliver now or later
  worker,      \* what each worker goroutine knows
  todo,        \* events a publisher still has to publish
  marking,     \* event whose publish was confirmed and is not marked yet
  snapshot,    \* rows the lease scan has read and not handled yet
  calls,       \* provider requests made, per event and attempt number
  confirmed,   \* events a provider call of which returned success
  overrun,     \* events whose lease ran out under a worker still at work
  faults       \* faults so far

vars == <<durable, row, queue, worker, todo, marking, snapshot, calls, confirmed, overrun,
          faults>>

(* Callers of publish.Service: the API goroutine that accepted an event    *)
(* and the two scan loops of every compensator.                            *)
Publishers == ({"api"} \X Events) \cup ({"pending", "lease"} \X Compensators)

PCs == {"idle", "claim", "process", "renew", "send", "calling", "succeed", "fail"}
Attempts == 1 .. SmallintMax

WorkerStates == [pc      : PCs,
                 ev      : Events \cup {NoEvent},
                 token   : Tokens \cup {NoToken},
                 attempt : 0 .. SmallintMax]

Idle == [pc |-> "idle", ev |-> NoEvent, token |-> NoToken, attempt |-> 0]

Snapshots == [ev : Events, token : Tokens \cup {NoToken},
              phase : Phases, outcome : Outcomes]

Init ==
  /\ durable \in BrokerKinds
  /\ row       = [e \in Events |-> Absent]
  /\ queue     = [e \in Events |-> 0]
  /\ worker    = [w \in Workers |-> Idle]
  /\ todo      = [p \in Publishers |-> {}]
  /\ marking   = [p \in Publishers |-> NoEvent]
  /\ snapshot  = [c \in Compensators |-> {}]
  /\ calls     = [e \in Events |-> [n \in Attempts |-> 0]]
  /\ confirmed = {}
  /\ overrun   = {}
  /\ faults    = 0

-----------------------------------------------------------------------------
(* Building blocks *)

Fault == faults < MaxFaults /\ faults' = faults + 1

Update(e, r) == row' = [row EXCEPT ![e] = r]

Copies(e) == queue[e] + Cardinality({w \in Workers : worker[w].ev = e})

Enqueue(e) == queue' = [queue EXCEPT ![e] = @ + 1]

(* uuid.New: a token that nothing in the system still refers to. *)
Fresh(t) == /\ \A e \in Events : row[e].lease_token # t
            /\ \A w \in Workers : worker[w].token # t
            /\ \A c \in Compensators : \A s \in snapshot[c] : s.token # t

-----------------------------------------------------------------------------
(* publish.Service: PublishAndMark *)

(* Submit stores the event; its goroutine publishes it next. *)
ApiInsert(e) ==
  /\ row[e].status = "ABSENT"
  /\ Update(e, Insert(row[e]))
  /\ todo' = [todo EXCEPT ![<<"api", e>>] = {e}]
  /\ UNCHANGED <<durable, queue, worker, marking, snapshot, calls, confirmed, overrun, faults>>

Published(p, e) == todo' = [todo EXCEPT ![p] = @ \ {e}]

Publish(p, e) ==
  /\ marking[p] = NoEvent
  /\ e \in todo[p]
  /\ Copies(e) < MaxCopies
  /\ Enqueue(e)
  /\ Published(p, e)
  /\ marking' = [marking EXCEPT ![p] = IF durable THEN e ELSE NoEvent]
  /\ UNCHANGED <<durable, row, worker, snapshot, calls, confirmed, overrun, faults>>

(* Full or closed channel, broker down, or a confirmation that got lost    *)
(* after an external broker stored the message.                            *)
PublishFails(p, e) ==
  /\ marking[p] = NoEvent
  /\ e \in todo[p]
  /\ Fault
  /\ \/ UNCHANGED queue
     \/ durable /\ Copies(e) < MaxCopies /\ Enqueue(e)
  /\ Published(p, e)
  /\ UNCHANGED <<durable, row, worker, marking, snapshot, calls, confirmed, overrun>>

Mark(p) ==
  /\ marking[p] # NoEvent
  /\ Update(marking[p], MarkEnqueued(row[marking[p]]))
  /\ marking' = [marking EXCEPT ![p] = NoEvent]
  /\ UNCHANGED <<durable, queue, worker, todo, snapshot, calls, confirmed, overrun, faults>>

MarkFails(p) ==
  /\ marking[p] # NoEvent
  /\ Fault
  /\ marking' = [marking EXCEPT ![p] = NoEvent]
  /\ UNCHANGED <<durable, row, queue, worker, todo, snapshot, calls, confirmed, overrun>>

-----------------------------------------------------------------------------
(* Worker: mq.Handler = Processor.HandleDelivery *)

RowOf(w) == row[worker[w].ev]

Held(w) == Holds(RowOf(w), worker[w].token)

Goto(w, pc) ==
  /\ worker' = [worker EXCEPT ![w].pc = pc]
  /\ UNCHANGED queue

(* The handler returned nil: the broker drops the message. *)
Ack(w) ==
  /\ worker' = [worker EXCEPT ![w] = Idle]
  /\ UNCHANGED queue

(* Mutant: a message is acknowledged although its handler failed. *)
Requeue_Forgotten(w) == Ack(w)

(* The handler returned an error: the broker delivers the message again    *)
(* after a delay.  MemoryBroker.requeueAfter drops it when the channel,    *)
(* shared with every other event, is full by then.                         *)
Requeue(w) ==
  /\ worker' = [worker EXCEPT ![w] = Idle]
  /\ \/ Enqueue(worker[w].ev)
     \/ ~durable /\ UNCHANGED queue

(* A statement guarded by the worker's lease.  A worker whose lease is     *)
(* gone acknowledges its message; a database error is returned to the      *)
(* broker, and the statement may have been committed all the same.         *)
Exec(w, new, Then) ==
  \/ /\ Held(w)
     /\ Update(worker[w].ev, new)
     /\ Then
     /\ UNCHANGED faults
  \/ /\ ~Held(w)
     /\ Ack(w)
     /\ UNCHANGED <<row, faults>>
  \/ /\ Fault
     /\ Requeue(w)
     /\ \/ UNCHANGED row
        \/ Held(w) /\ Update(worker[w].ev, new)

UNCHANGED_OTHERS == UNCHANGED <<durable, todo, marking, snapshot, calls, confirmed, overrun>>

Deliver(w, e) ==
  /\ worker[w].pc = "idle"
  /\ queue[e] > 0
  /\ queue' = [queue EXCEPT ![e] = @ - 1]
  /\ worker' = [worker EXCEPT ![w] = [Idle EXCEPT !.pc = "claim", !.ev = e]]
  /\ UNCHANGED <<row, faults>> /\ UNCHANGED_OTHERS

ClaimEvent(w) ==
  /\ worker[w].pc = "claim"
  /\ \/ /\ Claimable(RowOf(w)) /\ ~ClaimOverflows(RowOf(w))
        /\ \E t \in Tokens :
             /\ Fresh(t)
             /\ Update(worker[w].ev, Claim(RowOf(w), t))
             /\ \/ /\ worker' = [worker EXCEPT ![w].pc = "process",
                                               ![w].token = t,
                                               ![w].attempt = RowOf(w).attempt_count + 1]
                   /\ UNCHANGED <<queue, faults>>
                \/ Fault /\ Requeue(w)       \* committed, but the answer was lost
     \/ /\ Claimable(RowOf(w)) /\ ClaimOverflows(RowOf(w))
        /\ Requeue(w)
        /\ UNCHANGED <<row, faults>>
     \/ /\ ~Claimable(RowOf(w))
        /\ Ack(w)
        /\ UNCHANGED <<row, faults>>
     \/ Fault /\ Requeue(w) /\ UNCHANGED row
  /\ UNCHANGED_OTHERS

(* Mutant: the check before the provider call is off by one. *)
Exhausted_OffByOne(w) == MaxAttempts > 0 /\ worker[w].attempt > MaxAttempts + 1

Exhausted(w) == MaxAttempts > 0 /\ worker[w].attempt > MaxAttempts

(* Mutant: gives up one attempt early. *)
LastAttempt_Early(w) == MaxAttempts > 0 /\ worker[w].attempt >= MaxAttempts - 1

LastAttempt(w) == MaxAttempts > 0 /\ worker[w].attempt >= MaxAttempts

FinishExhaustedBeforeProvider(w) ==
  /\ worker[w].pc = "process"
  /\ Exhausted(w)
  /\ Exec(w, MarkFailedWithoutProviderAttempt(RowOf(w)), Ack(w))
  /\ UNCHANGED_OTHERS

Admissible(w) ==
  /\ worker[w].pc = "process"
  /\ ~Exhausted(w)

(* The breaker rejects the delivery.  Breakers are modelled on their own   *)
(* (ActionBreaker); here a rejection is one of the environment's faults.   *)
DeferForOpenCircuit(w) ==
  /\ Admissible(w)
  /\ \/ /\ Held(w)
        /\ Update(worker[w].ev, MarkCircuitOpenWaitingForRequeue(RowOf(w)))
        /\ Requeue(w)
     \/ /\ ~Held(w)
        /\ Ack(w)
        /\ UNCHANGED row
     \/ Requeue(w) /\ UNCHANGED row
  /\ Fault
  /\ UNCHANGED_OTHERS

(* Breaker and limiter let the delivery through. *)
StartRequesting(w) ==
  /\ Admissible(w)
  /\ Exec(w, MarkRequesting(RowOf(w)), Goto(w, "renew"))
  /\ UNCHANGED_OTHERS

RenewBeforeSend(w) ==
  /\ worker[w].pc = "renew"
  /\ Exec(w, RenewLease(RowOf(w)), Goto(w, "send"))
  /\ UNCHANGED_OTHERS

SendActionRequest(w) ==
  /\ worker[w].pc = "send"
  /\ calls' = [calls EXCEPT ![worker[w].ev][worker[w].attempt] = @ + 1]
  /\ Goto(w, "calling")
  /\ UNCHANGED <<durable, row, todo, marking, snapshot, confirmed, overrun, faults>>

(* Mutant: any answer of the provider counts as success. *)
ProviderReturns_AnyAnswer(w) ==
  /\ worker[w].pc = "calling"
  /\ Goto(w, "succeed")
  /\ UNCHANGED <<durable, row, todo, marking, snapshot, calls, confirmed, overrun, faults>>

ProviderReturns(w) ==
  /\ worker[w].pc = "calling"
  /\ \/ /\ Goto(w, "succeed")
        /\ confirmed' = confirmed \cup {worker[w].ev}
     \/ /\ Goto(w, "fail")
        /\ UNCHANGED confirmed
  /\ UNCHANGED <<durable, row, todo, marking, snapshot, calls, overrun, faults>>

SettleSuccess(w) ==
  /\ worker[w].pc = "succeed"
  /\ Exec(w, MarkSucceeded(RowOf(w)), Ack(w))
  /\ UNCHANGED_OTHERS

(* After a provider failure, or at once for an action that the worker's    *)
(* Registry lacks.  A message may reach workers started with different     *)
(* provider files, so an event that is not Configured may find its action  *)
(* (Admissible) or not, delivery by delivery.                              *)
RetryOrFail(w) ==
  /\ \/ worker[w].pc = "fail"
     \/ worker[w].pc = "process" /\ ~Exhausted(w) /\ worker[w].ev \notin Configured
  /\ IF LastAttempt(w)
       THEN Exec(w, MarkFailed(RowOf(w)), Ack(w))
       ELSE Exec(w, MarkWaitingForRequeue(RowOf(w)), Requeue(w))
  /\ UNCHANGED_OTHERS

-----------------------------------------------------------------------------
(* Compensator *)

Resting(p) == todo[p] = {} /\ marking[p] = NoEvent

SelectPendingToPublish(c) ==
  LET p == <<"pending", c>>
      selected == {e \in Events : SelectedToPublish(row[e])}
  IN  /\ Resting(p)
      /\ selected # {}
      /\ todo' = [todo EXCEPT ![p] = selected]
      /\ UNCHANGED <<durable, row, queue, worker, marking, snapshot, calls, confirmed, overrun,
                     faults>>

SelectExpiredLeases(c) ==
  LET expired == {e \in Events : Expired(row[e])}
  IN  /\ snapshot[c] = {}
      /\ Resting(<<"lease", c>>)
      /\ expired # {}
      /\ snapshot' = [snapshot EXCEPT ![c] =
           {[ev |-> e, token |-> row[e].lease_token,
             phase |-> row[e].last_result.phase,
             outcome |-> row[e].last_result.outcome] : e \in expired}]
      /\ UNCHANGED <<durable, row, queue, worker, todo, marking, calls, confirmed, overrun,
                     faults>>

SnapshotWaiting(s) == s.token = NoToken /\ s.outcome = "REQUEUE_REQUESTED"

(* The guard and the effect of the statement recoverOne runs for a row it  *)
(* read as s; a row without a token in any other outcome is skipped.       *)
RecoveryGuard(s) ==
  IF SnapshotWaiting(s) THEN Reservable(row[s.ev])
                        ELSE s.token # NoToken /\ Recoverable(row[s.ev], s.token)

RecoveredRow(s) ==
  IF SnapshotWaiting(s)
    THEN ReserveExpiredRequeue(row[s.ev])
    ELSE RecoverExpiredToRequeue(row[s.ev],
           IF s.phase = "REQUESTING" THEN "WORKER_LEASE_EXPIRED_DURING_REQUEST"
                                     ELSE "WORKER_LEASE_EXPIRED")

RecoverOne(c, s) ==
  LET p == <<"lease", c>>
  IN  /\ s \in snapshot[c]
      /\ Resting(p)
      /\ snapshot' = [snapshot EXCEPT ![c] = @ \ {s}]
      /\ \/ /\ RecoveryGuard(s)
            /\ Update(s.ev, RecoveredRow(s))
            /\ todo' = [todo EXCEPT ![p] = {s.ev}]
            /\ UNCHANGED faults
         \/ /\ ~RecoveryGuard(s)
            /\ UNCHANGED <<row, todo, faults>>
         \/ /\ Fault
            /\ \/ UNCHANGED row
               \/ RecoveryGuard(s) /\ Update(s.ev, RecoveredRow(s))
            /\ UNCHANGED todo
      /\ UNCHANGED <<durable, queue, worker, marking, calls, confirmed, overrun>>

-----------------------------------------------------------------------------
(* Environment: time, crashes and restarts, broker redelivery *)

LiveHolder(e) == \E w \in Workers : /\ worker[w].ev = e
                                    /\ worker[w].token # NoToken
                                    /\ worker[w].token = row[e].lease_token

Expire(e) ==
  /\ row[e].status = "PROCESSING"
  /\ row[e].lease_until = "future"
  /\ Update(e, [row[e] EXCEPT !.lease_until = "past"])
  /\ UNCHANGED <<durable, queue, worker, todo, marking, snapshot, calls, confirmed>>

LeaseExpires(e) == ~LiveHolder(e) /\ Expire(e) /\ UNCHANGED <<overrun, faults>>

(* A stalled worker: its lease runs out while it still works on the event. *)
LeaseExpiresEarly(e) ==
  /\ LiveHolder(e)
  /\ Expire(e)
  /\ overrun' = overrun \cup {e}
  /\ Fault

(* External broker: a worker process dies or shuts down and the broker     *)
(* takes back the messages it had not acknowledged.                        *)
CrashWorker(w) ==
  /\ durable
  /\ worker[w].pc # "idle"
  /\ Fault
  /\ worker' = [worker EXCEPT ![w] = Idle]
  /\ Enqueue(worker[w].ev)
  /\ UNCHANGED row /\ UNCHANGED_OTHERS

CrashCompensator(c) ==
  LET loops == {<<"pending", c>>, <<"lease", c>>}
  IN  /\ durable
      /\ ~(snapshot[c] = {} /\ \A p \in loops : Resting(p))
      /\ Fault
      /\ todo' = [p \in Publishers |-> IF p \in loops THEN {} ELSE todo[p]]
      /\ marking' = [p \in Publishers |-> IF p \in loops THEN NoEvent ELSE marking[p]]
      /\ snapshot' = [snapshot EXCEPT ![c] = {}]
      /\ UNCHANGED <<durable, row, queue, worker, calls, confirmed, overrun>>

(* Memory mode: API, channel, workers and compensator are one process. *)
CrashServer ==
  /\ ~durable
  /\ Fault
  /\ queue' = [e \in Events |-> 0]
  /\ worker' = [w \in Workers |-> Idle]
  /\ todo' = [p \in Publishers |-> {}]
  /\ marking' = [p \in Publishers |-> NoEvent]
  /\ snapshot' = [c \in Compensators |-> {}]
  /\ UNCHANGED <<durable, row, calls, confirmed, overrun>>

(* At-least-once: a message whose acknowledgement is late or lost. *)
DuplicateDelivery(e) ==
  /\ durable
  /\ Fault
  /\ Copies(e) \in 1 .. MaxCopies - 1
  /\ Enqueue(e)
  /\ UNCHANGED <<row, worker>> /\ UNCHANGED_OTHERS

-----------------------------------------------------------------------------
WorkerStep(w) ==
  \/ ClaimEvent(w)
  \/ FinishExhaustedBeforeProvider(w)
  \/ DeferForOpenCircuit(w)
  \/ StartRequesting(w)
  \/ RenewBeforeSend(w)
  \/ SendActionRequest(w)
  \/ ProviderReturns(w)
  \/ SettleSuccess(w)
  \/ RetryOrFail(w)

PublisherStep(p) ==
  \/ \E e \in Events : Publish(p, e) \/ PublishFails(p, e)
  \/ Mark(p)
  \/ MarkFails(p)

CompensatorStep(c) ==
  \/ SelectPendingToPublish(c)
  \/ SelectExpiredLeases(c)
  \/ \E s \in snapshot[c] : RecoverOne(c, s)
  \/ CrashCompensator(c)

Next ==
  \/ \E e \in Events : \/ ApiInsert(e)
                       \/ LeaseExpires(e)
                       \/ LeaseExpiresEarly(e)
                       \/ DuplicateDelivery(e)
  \/ \E w \in Workers : \/ \E e \in Events : Deliver(w, e)
                        \/ WorkerStep(w)
                        \/ CrashWorker(w)
  \/ \E p \in Publishers : PublisherStep(p)
  \/ \E c \in Compensators : CompensatorStep(c)
  \/ CrashServer

Spec == Init /\ [][Next]_vars

-----------------------------------------------------------------------------
(* Fairness.  Goroutines are scheduled and every call they make is bounded *)
(* by a timeout; the tickers of the compensator keep firing; a lease that  *)
(* nobody renews runs out; brokers deliver in arrival order, so a message  *)
(* is not passed over for ever while workers keep becoming free.  The API  *)
(* client and its goroutine owe nothing, and no fault is owed.  One        *)
(* condition per goroutine is enough: what it does next is decided by its  *)
(* own state.                                                              *)
PublishOrMark(p) == (\E e \in Events : Publish(p, e)) \/ Mark(p)

Fairness ==
  /\ \A w \in Workers :
       WF_vars(\/ ClaimEvent(w)
               \/ FinishExhaustedBeforeProvider(w) \/ StartRequesting(w)
               \/ RenewBeforeSend(w) \/ SendActionRequest(w) \/ ProviderReturns(w)
               \/ SettleSuccess(w) \/ RetryOrFail(w))
  /\ \A e \in Events :
       /\ SF_vars(\E w \in Workers : Deliver(w, e))
       /\ WF_vars(LeaseExpires(e))
  /\ \A c \in Compensators :
       /\ WF_vars(SelectPendingToPublish(c) \/ PublishOrMark(<<"pending", c>>))
       /\ WF_vars(\/ SelectExpiredLeases(c)
                  \/ \E s \in snapshot[c] : RecoverOne(c, s)
                  \/ PublishOrMark(<<"lease", c>>))

FairSpec == Spec /\ Fairness

-----------------------------------------------------------------------------
(* Properties *)

TypeOK ==
  /\ durable \in BrokerKinds
  /\ row \in [Events -> Rows]
  /\ queue \in [Events -> Nat]
  /\ worker \in [Workers -> WorkerStates]
  /\ todo \in [Publishers -> SUBSET Events]
  /\ marking \in [Publishers -> Events \cup {NoEvent}]
  /\ snapshot \in [Compensators -> SUBSET Snapshots]
  /\ calls \in [Events -> [Attempts -> Nat]]
  /\ confirmed \in SUBSET Events
  /\ overrun \in SUBSET Events
  /\ faults \in 0 .. MaxFaults

(* The provider is asked at most once per attempt number, and never beyond *)
(* max_attempts, however claims, crashes, lost leases, roll-backs of       *)
(* attempt_count and redeliveries interleave (README: max_attempts counts  *)
(* the real provider calls).                                               *)
ProviderCallBudget ==
  \A e \in Events : \A n \in Attempts :
    /\ calls[e][n] <= 1
    /\ MaxAttempts > 0 /\ n > MaxAttempts => calls[e][n] = 0

(* attempt_count never under-reports: neither roll-back of the counter     *)
(* takes back the number of an attempt that did reach the provider.        *)
AttemptCountCoversCalls ==
  \A e \in Events : \A n \in Attempts :
    calls[e][n] > 0 => n <= row[e].attempt_count

(* A PENDING row with enqueued_at set is invisible to both scans, so its   *)
(* message must still be in the broker or at a worker about to claim it.   *)
NoLostWakeup ==
  \A e \in Events :
    row[e].status = "PENDING" /\ row[e].enqueued_at =>
      \/ queue[e] > 0
      \/ \E w \in Workers : worker[w].ev = e /\ worker[w].pc = "claim"

(* Every PROCESSING row has a deadline after which the lease scan selects  *)
(* it, and a row without a token is in the only state from which the scan  *)
(* (or a delivery) can take it on.                                         *)
AlwaysRecoverable ==
  \A e \in Events :
    row[e].status = "PROCESSING" =>
      /\ row[e].lease_until # "null"
      /\ row[e].lease_token = NoToken => Waiting(row[e])

(* SUCCEEDED is only written after the provider confirmed success, FAILED  *)
(* only when the attempt count has reached a limit that is set.            *)
OutcomeJustified ==
  \A e \in Events :
    /\ row[e].status = "SUCCEEDED" => e \in confirmed
    /\ row[e].status = "FAILED" => /\ MaxAttempts > 0
                                   /\ row[e].attempt_count >= MaxAttempts

(* Two workers are never past Claim for the same event, unless the lease   *)
(* of one of them ran out under it: crashes, lost answers, duplicate       *)
(* messages and concurrent compensators alone do not cause it.             *)
ExclusiveProcessing ==
  \A e \in Events \ overrun : \A v, w \in Workers :
    /\ worker[v].ev = e /\ worker[v].pc # "claim"
    /\ worker[w].ev = e /\ worker[w].pc # "claim"
    => v = w

(* SUCCEEDED and FAILED are final: no late worker, duplicate message or    *)
(* stale compensator snapshot touches the row again.                       *)
TerminalIsFinal ==
  [][\A e \in Events : row[e].status \in Terminal => row'[e] = row[e]]_vars

(* What a row says of its event to the client that submitted it. *)
OutcomeOf(r) == CASE r.status = "ABSENT"    -> "absent"
                  [] r.status = "SUCCEEDED" -> "succeeded"
                  [] r.status = "FAILED"    -> "failed"
                  [] OTHER                  -> "open"

(* What the service promises, in DeliveryContract. *)
Contract == INSTANCE DeliveryContract
              WITH outcome <- [e \in Events |-> OutcomeOf(row[e])]

(* Every step of the delivery path is a step the contract allows. *)
ImplementsContract == Contract!Spec

(* No accepted event is lost: with a limit on attempts and finitely many   *)
(* faults it ends up SUCCEEDED or FAILED.                                  *)
EventuallySettled ==
  \A e \in Events : row[e].status = "PENDING" ~> row[e].status \in Terminal

-----------------------------------------------------------------------------
(* Claims of the repository that the code does not keep *)

(* event_repo.go, MarkFailedWithoutProviderAttempt: the roll-back keeps    *)
(* attempt_count equal to the number of real provider calls.               *)
AttemptCountIsRealCalls ==
  \A e \in Events :
    row[e].status \in Terminal =>
      row[e].attempt_count = Cardinality({n \in Attempts : calls[e][n] > 0})

(* README: after a crash during the last call the recovered delivery       *)
(* writes FAILED instead of calling again.                                 *)
ExhaustedEventFails ==
  \A e \in Events :
    row[e].status = "PROCESSING" /\ row[e].attempt_count = MaxAttempts
      ~> row[e].status \in Terminal

(* system-design-plan: an event recovered in phase REQUESTING records      *)
(* request_may_have_been_sent; so one recovered without it was not sent.   *)
UnsentDiagnosisIsTrue ==
  \A e \in Events :
    row[e].last_result.error_class = "WORKER_LEASE_EXPIRED" =>
      calls[e][row[e].attempt_count] = 0
=============================================================================
