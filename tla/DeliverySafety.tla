---------------------------- MODULE DeliverySafety ----------------------------
(* Safety of Delivery, for every value of its constants. *)
EXTENDS DeliveryTypes

-----------------------------------------------------------------------------
(* The inductive invariant *)

(* Only a PROCESSING row has a token; it always has a deadline, and waits  *)
(* for a requeue when it has no token.                                     *)
RowShape ==
  /\ \A e \in Events : row[e].lease_token # NoToken => row[e].status = "PROCESSING"
  /\ \A w \in Workers : Active(w) => row[worker[w].ev].status # "ABSENT"
  /\ AlwaysRecoverable

(* A claim is known by its token and by its attempt number.  The row names *)
(* the attempt of the worker that holds the lease; a worker that lost its  *)
(* lease has an earlier number than the one that holds it now.             *)
ClaimInv ==
  /\ \A e \in Events : \A w \in Workers :
       Active(w) /\ row[e].lease_token = worker[w].token =>
         worker[w].ev = e /\ worker[w].attempt = row[e].attempt_count
  /\ \A w \in Workers : Active(w) =>
       LET r == row[worker[w].ev]
       IN  /\ worker[w].attempt <= r.attempt_count
           /\ r.lease_token \notin {NoToken, worker[w].token} =>
                worker[w].attempt < r.attempt_count
  /\ \A v, w \in Workers : v # w /\ Active(v) /\ Active(w) =>
       /\ worker[v].token # worker[w].token
       /\ worker[v].ev = worker[w].ev => worker[v].attempt # worker[w].attempt

(* An attempt number that has been used is covered by the row's counter    *)
(* and the limit; a worker that has not called yet has an unused one.      *)
CallInv ==
  /\ \A e \in Events : \A n \in Attempts :
       /\ calls[e][n] <= 1
       /\ calls[e][n] > 0 => /\ n <= row[e].attempt_count
                             /\ MaxAttempts > 0 => n <= MaxAttempts
  /\ \A w \in Workers :
       /\ worker[w].pc \in {"process", "renew", "send"} =>
            calls[worker[w].ev][worker[w].attempt] = 0
       /\ worker[w].pc = "calling" => calls[worker[w].ev][worker[w].attempt] = 1
       /\ worker[w].pc \in {"renew", "send", "calling", "succeed", "fail"} /\ MaxAttempts > 0 =>
            worker[w].attempt <= MaxAttempts

OutcomeInv ==
  /\ \A w \in Workers : worker[w].pc = "succeed" => worker[w].ev \in confirmed
  /\ OutcomeJustified

(* A worker whose lease did not run out under it still holds it. *)
ExclusiveInv ==
  \A w \in Workers : Active(w) /\ worker[w].ev \notin overrun =>
    /\ row[worker[w].ev].lease_token = worker[w].token
    /\ row[worker[w].ev].lease_until = "future"

Awake(e) == \/ queue[e] > 0
            \/ \E w \in Workers : worker[w].ev = e /\ worker[w].pc = "claim"

(* A PENDING row is marked, or about to be, only while a message exists;   *)
(* nobody publishes or marks an event before it is stored.                 *)
WakeInv ==
  /\ \A e \in Events : row[e].status = "ABSENT" =>
       /\ ~row[e].enqueued_at
       /\ \A p \in Publishers : marking[p] # e /\ e \notin todo[p]
  /\ \A e \in Events : row[e].status = "PENDING" =>
       /\ row[e].enqueued_at => Awake(e)
       /\ \A p \in Publishers : marking[p] = e => Awake(e)
  /\ ~durable => /\ \A e \in Events : ~row[e].enqueued_at
                 /\ \A p \in Publishers : marking[p] = NoEvent

CoreInv == RowShape /\ ClaimInv /\ CallInv /\ OutcomeInv /\ ExclusiveInv

SafetyInv == CoreInv /\ WakeInv

-----------------------------------------------------------------------------
(* Every step, as far as claims and calls are concerned, has one of these  *)
(* shapes.                                                                 *)

(* No claim, call or result changes; a deadline may be set or run out.     *)
Neutral ==
  /\ UNCHANGED <<worker, calls, confirmed>>
  /\ overrun \subseteq overrun'
  /\ \/ \A e \in Events : row'[e].status = row[e].status
     \/ \E e \in Events : /\ row[e].status = "ABSENT" /\ row'[e].status = "PENDING"
                          /\ \A f \in Events \ {e} : row'[f].status = row[f].status
  /\ \A e \in Events :
       /\ row'[e].lease_token = row[e].lease_token
       /\ row'[e].attempt_count = row[e].attempt_count
       /\ row'[e].last_result = row[e].last_result
       /\ \/ row'[e].lease_until = row[e].lease_until
          \/ row'[e].status = "PROCESSING" /\ row'[e].lease_until = "future"
          \/ /\ row'[e].status = "PROCESSING" /\ row'[e].lease_until = "past"
             /\ e \in overrun' \/ ~LiveHolder(e)

(* A worker gives its message up and writes nothing. *)
GivesUp(w) ==
  /\ worker' = [worker EXCEPT ![w] = Idle]
  /\ UNCHANGED <<row, calls, confirmed, overrun>>

Delivered(w, e) ==
  /\ worker[w].pc = "idle"
  /\ worker' = [worker EXCEPT ![w] = [Idle EXCEPT !.pc = "claim", !.ev = e]]
  /\ UNCHANGED <<row, calls, confirmed, overrun>>

(* A claim is committed; the worker learns of it or not. *)
Claimed(w, t) ==
  /\ worker[w].pc = "claim"
  /\ Claimable(RowOf(w)) /\ ~ClaimOverflows(RowOf(w))
  /\ Fresh(t)
  /\ row' = [row EXCEPT ![worker[w].ev] = Claim(RowOf(w), t)]
  /\ \/ worker' = [worker EXCEPT ![w].pc = "process", ![w].token = t,
                                 ![w].attempt = RowOf(w).attempt_count + 1]
     \/ worker' = [worker EXCEPT ![w] = Idle]
  /\ UNCHANGED <<calls, confirmed, overrun>>

(* The lease holder moves on to its provider call, or fails to. *)
Prepares(w, pc) ==
  /\ Held(w)
  /\ \/ worker[w].pc = "process" /\ ~Exhausted(w) /\ pc = "renew"
        /\ row' = [row EXCEPT ![worker[w].ev] = MarkRequesting(RowOf(w))]
     \/ worker[w].pc = "renew" /\ pc = "send"
        /\ row' = [row EXCEPT ![worker[w].ev] = RenewLease(RowOf(w))]
  /\ \/ worker' = [worker EXCEPT ![w].pc = pc]
     \/ worker' = [worker EXCEPT ![w] = Idle]
  /\ UNCHANGED <<calls, confirmed, overrun>>

(* The lease holder ends its attempt. *)
Releases(w) ==
  /\ Held(w) /\ Active(w)
  /\ \/ row' = [row EXCEPT ![worker[w].ev] = MarkWaitingForRequeue(RowOf(w))]
     \/ /\ worker[w].pc = "process"
        /\ row' = [row EXCEPT ![worker[w].ev] = MarkCircuitOpenWaitingForRequeue(RowOf(w))]
     \/ /\ worker[w].pc = "succeed"
        /\ row' = [row EXCEPT ![worker[w].ev] = MarkSucceeded(RowOf(w))]
     \/ /\ LastAttempt(w)
        /\ row' = [row EXCEPT ![worker[w].ev] = MarkFailed(RowOf(w))]
     \/ /\ worker[w].pc = "process" /\ Exhausted(w)
        /\ row' = [row EXCEPT ![worker[w].ev] = MarkFailedWithoutProviderAttempt(RowOf(w))]
  /\ worker' = [worker EXCEPT ![w] = Idle]
  /\ UNCHANGED <<calls, confirmed, overrun>>

(* The compensator takes an expired lease away. *)
Recovers(e) ==
  /\ row[e].status = "PROCESSING"
  /\ row[e].lease_token # NoToken
  /\ row[e].lease_until = "past"
  /\ \E class \in ErrorClasses :
       row' = [row EXCEPT ![e] = RecoverExpiredToRequeue(row[e], class)]
  /\ UNCHANGED <<worker, calls, confirmed, overrun>>

Shape ==
  \/ Neutral
  \/ \E w \in Workers : \/ GivesUp(w)
                        \/ \E e \in Events : Delivered(w, e)
                        \/ \E t \in Tokens : Claimed(w, t)
                        \/ \E pc \in PCs : Prepares(w, pc)
                        \/ SendActionRequest(w)
                        \/ ProviderReturns(w)
                        \/ Releases(w)
  \/ \E e \in Events : Recovers(e)
  \/ CrashServer

(* What a worker does between Claim and the end of its attempt. *)
LEMMA WorkerShapes ==
  ASSUME TypeInv, NEW w \in Workers, WorkerStep(w)
  PROVE  \/ GivesUp(w)
         \/ \E t \in Tokens : Claimed(w, t)
         \/ \E pc \in PCs : Prepares(w, pc)
         \/ SendActionRequest(w)
         \/ ProviderReturns(w)
         \/ Releases(w)
<1>1. ASSUME ClaimEvent(w)
      PROVE  GivesUp(w) \/ \E t \in Tokens : Claimed(w, t)
  BY <1>1 DEF ClaimEvent, Requeue, Ack, Update, GivesUp, Claimed, UNCHANGED_OTHERS
<1>2. ASSUME FinishExhaustedBeforeProvider(w)
      PROVE  GivesUp(w) \/ Releases(w)
  <2>1. \/ GivesUp(w)
        \/ /\ Held(w)
           /\ row' = [row EXCEPT ![worker[w].ev] = MarkFailedWithoutProviderAttempt(RowOf(w))]
           /\ worker' = [worker EXCEPT ![w] = Idle]
           /\ UNCHANGED <<calls, confirmed, overrun>>
    BY <1>2 DEF FinishExhaustedBeforeProvider, Exec, Ack, Requeue, Update, GivesUp,
                UNCHANGED_OTHERS
  <2>2. QED
    BY <1>2, <2>1 DEF FinishExhaustedBeforeProvider, Releases, Active
<1>3. ASSUME DeferForOpenCircuit(w) PROVE GivesUp(w) \/ Releases(w)
  BY <1>3 DEF DeferForOpenCircuit, Admissible, Ack, Requeue, Update, UNCHANGED_OTHERS, GivesUp,
              Releases, Active
<1>4. ASSUME StartRequesting(w) PROVE GivesUp(w) \/ Prepares(w, "renew")
  BY <1>4 DEF StartRequesting, Admissible, Exec, Ack, Requeue, Goto, Update, UNCHANGED_OTHERS,
              GivesUp, Prepares
<1>5. ASSUME RenewBeforeSend(w) PROVE GivesUp(w) \/ Prepares(w, "send")
  BY <1>5 DEF RenewBeforeSend, Exec, Ack, Requeue, Goto, Update, UNCHANGED_OTHERS, GivesUp,
              Prepares
<1>6. ASSUME SettleSuccess(w) PROVE GivesUp(w) \/ Releases(w)
  BY <1>6 DEF SettleSuccess, Exec, Ack, Requeue, Update, UNCHANGED_OTHERS, GivesUp, Releases,
               Active
<1>7. ASSUME RetryOrFail(w) PROVE GivesUp(w) \/ Releases(w)
  BY <1>7 DEF RetryOrFail, Exec, Ack, Requeue, Update, UNCHANGED_OTHERS, GivesUp, Releases,
               Active
<1>8. "renew" \in PCs /\ "send" \in PCs
  BY DEF PCs
<1>9. QED
  BY <1>1, <1>2, <1>3, <1>4, <1>5, <1>6, <1>7, <1>8 DEF WorkerStep

(* Every step of the system has one of the shapes. *)
LEMMA StepShape == TypeInv /\ [Next]_vars => Shape
<1> SUFFICES ASSUME TypeInv, [Next]_vars PROVE Shape
  OBVIOUS
<1>1. ASSUME NEW e \in Events, ApiInsert(e) PROVE Neutral
  <2>1. /\ row[e].status = "ABSENT" /\ row'[e] = [row[e] EXCEPT !.status = "PENDING"]
        /\ row[e] \in Rows
        /\ \A f \in Events \ {e} : row'[f] = row[f]
        /\ UNCHANGED <<worker, calls, confirmed, overrun>>
    BY <1>1 DEF ApiInsert, Update, Insert, TypeInv, TypeOK
  <2>2. /\ row'[e].status = "PENDING"
        /\ row'[e].lease_token = row[e].lease_token
        /\ row'[e].attempt_count = row[e].attempt_count
        /\ row'[e].last_result = row[e].last_result
        /\ row'[e].lease_until = row[e].lease_until
    BY <2>1 DEF Rows
  <2>3. QED
    BY <2>1, <2>2 DEF Neutral
<1>2. ASSUME NEW e \in Events, LeaseExpires(e) \/ LeaseExpiresEarly(e) PROVE Neutral
  <2>1. /\ row[e].status = "PROCESSING" /\ row'[e] = [row[e] EXCEPT !.lease_until = "past"]
        /\ row[e] \in Rows
        /\ \A f \in Events \ {e} : row'[f] = row[f]
        /\ UNCHANGED <<worker, calls, confirmed>>
        /\ overrun \subseteq overrun' /\ (e \in overrun' \/ ~LiveHolder(e))
    BY <1>2 DEF LeaseExpires, LeaseExpiresEarly, Expire, Update, TypeInv, TypeOK
  <2>2. /\ row'[e].status = row[e].status
        /\ row'[e].lease_token = row[e].lease_token
        /\ row'[e].attempt_count = row[e].attempt_count
        /\ row'[e].last_result = row[e].last_result
        /\ row'[e].lease_until = "past"
    BY <2>1 DEF Rows
  <2>3. QED
    BY <2>1, <2>2 DEF Neutral
<1>3. ASSUME NEW e \in Events, DuplicateDelivery(e) PROVE Neutral
  BY <1>3 DEF DuplicateDelivery, UNCHANGED_OTHERS, Neutral
<1>4. ASSUME NEW w \in Workers, NEW e \in Events, Deliver(w, e) PROVE Delivered(w, e)
  BY <1>4 DEF Deliver, Delivered, UNCHANGED_OTHERS
<1>5. ASSUME NEW w \in Workers, CrashWorker(w) PROVE GivesUp(w)
  BY <1>5 DEF CrashWorker, UNCHANGED_OTHERS, GivesUp
<1>6. ASSUME NEW p \in Publishers, PublisherStep(p) PROVE Neutral
  <2>1. CASE Mark(p)
    BY <2>1 DEF Mark, Update, MarkEnqueued, Neutral, TypeInv, TypeOK, Rows
  <2>2. CASE MarkFails(p)
    BY <2>2 DEF MarkFails, Neutral
  <2>3. ASSUME NEW e \in Events, Publish(p, e) \/ PublishFails(p, e) PROVE Neutral
    BY <2>3 DEF Publish, PublishFails, Neutral
  <2>4. QED
    BY <1>6, <2>1, <2>2, <2>3 DEF PublisherStep
<1>7. ASSUME NEW c \in Compensators, CompensatorStep(c)
       PROVE  Neutral \/ \E e \in Events : Recovers(e)
  <2>1. CASE SelectPendingToPublish(c) \/ SelectExpiredLeases(c) \/ CrashCompensator(c)
    BY <2>1 DEF SelectPendingToPublish, SelectExpiredLeases, CrashCompensator, Neutral
  <2>2. ASSUME NEW s \in snapshot[c], RecoverOne(c, s)
        PROVE  Neutral \/ \E e \in Events : Recovers(e)
    <3>1. s.ev \in Events
      BY DEF TypeInv, TypeOK, Snapshots
    <3>2. UNCHANGED row \/ (RecoveryGuard(s) /\ row' = [row EXCEPT ![s.ev] = RecoveredRow(s)])
      BY <2>2 DEF RecoverOne, Update
    <3>3. UNCHANGED <<worker, calls, confirmed, overrun>>
      BY <2>2 DEF RecoverOne
    <3>4. CASE UNCHANGED row
      BY <3>3, <3>4 DEF Neutral
    <3>5. CASE /\ SnapshotWaiting(s) /\ RecoveryGuard(s)
               /\ row' = [row EXCEPT ![s.ev] = RecoveredRow(s)]
      BY <3>1, <3>3, <3>5 DEF RecoveryGuard, RecoveredRow, Reservable, Waiting,
                              ReserveExpiredRequeue, Neutral, TypeInv, TypeOK, Rows
    <3>6. CASE /\ ~SnapshotWaiting(s) /\ RecoveryGuard(s)
               /\ row' = [row EXCEPT ![s.ev] = RecoveredRow(s)]
      <4>1. /\ row[s.ev].status = "PROCESSING" /\ row[s.ev].lease_token # NoToken
            /\ row[s.ev].lease_until = "past"
        BY <3>6 DEF RecoveryGuard, Recoverable, Holds
      <4>2. \E class \in ErrorClasses :
              row' = [row EXCEPT ![s.ev] = RecoverExpiredToRequeue(row[s.ev], class)]
        BY <3>6 DEF RecoveredRow, ErrorClasses
      <4>3. QED
        BY <3>1, <3>3, <4>1, <4>2 DEF Recovers
    <3>7. QED
      BY <3>2, <3>4, <3>5, <3>6
  <2>3. QED
    BY <1>7, <2>1, <2>2 DEF CompensatorStep
<1>8. CASE UNCHANGED vars
  BY <1>8 DEF vars, Shape, Neutral
<1>9. QED
  BY <1>1, <1>2, <1>3, <1>4, <1>5, <1>6, <1>7, <1>8, WorkerShapes DEF Next, Shape

-----------------------------------------------------------------------------
(* What the shapes do to a worker and to its row. *)

(* The fields a claim changes. *)
LEMMA ClaimFields ==
  ASSUME TypeInv, NEW w \in Workers, NEW t \in Tokens, Claimed(w, t)
  PROVE  /\ worker[w].ev \in Events
         /\ row'[worker[w].ev].status = "PROCESSING"
         /\ row'[worker[w].ev].lease_token = t
         /\ row'[worker[w].ev].lease_until = "future"
         /\ row'[worker[w].ev].attempt_count = row[worker[w].ev].attempt_count + 1
         /\ \A e \in Events \ {worker[w].ev} : row'[e] = row[e]
         /\ \A v \in Workers \ {w} : worker'[v] = worker[v]
         /\ \/ worker'[w] = Idle
            \/ /\ worker'[w].pc = "process"
               /\ worker'[w].ev = worker[w].ev
               /\ worker'[w].token = t
               /\ worker'[w].attempt = row[worker[w].ev].attempt_count + 1
<1>1. worker[w].ev \in Events
  BY DEF Claimed, TypeInv, TypeOK, WorkerShape, WorkerStates
<1>2. row[worker[w].ev] \in Rows
  BY <1>1 DEF TypeInv, TypeOK
<1>3. /\ row'[worker[w].ev] = Claim(RowOf(w), t)
      /\ \A e \in Events \ {worker[w].ev} : row'[e] = row[e]
  BY <1>1 DEF Claimed, TypeInv, TypeOK
<1>4. /\ \A v \in Workers \ {w} : worker'[v] = worker[v]
      /\ \/ worker'[w] = Idle
         \/ /\ worker'[w].pc = "process"
            /\ worker'[w].ev = worker[w].ev
            /\ worker'[w].token = t
            /\ worker'[w].attempt = row[worker[w].ev].attempt_count + 1
  BY DEF Claimed, RowOf, TypeInv, TypeOK, WorkerStates
<1>5. QED
  BY <1>1, <1>2, <1>3, <1>4 DEF Claim, RowOf, Rows

(* The fields a lease holder's preparation changes. *)
LEMMA PrepareFields ==
  ASSUME TypeInv, NEW w \in Workers, NEW pc \in PCs, Prepares(w, pc)
  PROVE  /\ worker[w].ev \in Events
         /\ Active(w) /\ Held(w)
         /\ row'[worker[w].ev].status = row[worker[w].ev].status
         /\ row'[worker[w].ev].lease_token = row[worker[w].ev].lease_token
         /\ row'[worker[w].ev].attempt_count = row[worker[w].ev].attempt_count
         /\ row'[worker[w].ev].lease_until \in {row[worker[w].ev].lease_until, "future"}
         /\ \A e \in Events \ {worker[w].ev} : row'[e] = row[e]
         /\ \A v \in Workers \ {w} : worker'[v] = worker[v]
         /\ \/ worker'[w] = Idle
            \/ /\ worker'[w].pc = pc
               /\ worker'[w].ev = worker[w].ev
               /\ worker'[w].token = worker[w].token
               /\ worker'[w].attempt = worker[w].attempt
         /\ \/ worker[w].pc = "process" /\ ~Exhausted(w) /\ pc = "renew"
            \/ worker[w].pc = "renew" /\ pc = "send"
<1>1. worker[w].ev \in Events /\ Active(w)
  BY DEF Prepares, Active, TypeInv, TypeOK, WorkerShape, WorkerStates
<1>2. row[worker[w].ev] \in Rows
  BY <1>1 DEF TypeInv, TypeOK
<1>3. /\ row'[worker[w].ev] \in {MarkRequesting(RowOf(w)), RenewLease(RowOf(w))}
      /\ \A e \in Events \ {worker[w].ev} : row'[e] = row[e]
  BY <1>1 DEF Prepares, TypeInv, TypeOK
<1>4. /\ \A v \in Workers \ {w} : worker'[v] = worker[v]
      /\ \/ worker'[w] = Idle
         \/ /\ worker'[w].pc = pc
            /\ worker'[w].ev = worker[w].ev
            /\ worker'[w].token = worker[w].token
            /\ worker'[w].attempt = worker[w].attempt
  BY DEF Prepares, TypeInv, TypeOK, WorkerStates
<1>5. QED
  BY <1>1, <1>2, <1>3, <1>4 DEF Prepares, MarkRequesting, RenewLease, RowOf, Rows

(* A finished result carries its outcome. *)
LEMMA FinishedOutcome == \A o, class : Finished(o, class).outcome = o
  BY DEF Finished

(* The fields the end of an attempt changes. *)
LEMMA ReleaseFields ==
  ASSUME TypeInv, NEW w \in Workers, Releases(w)
  PROVE  LET e == worker[w].ev
         IN  /\ e \in Events /\ Active(w) /\ Held(w)
             /\ row'[e].lease_token = NoToken
             /\ \A f \in Events \ {e} : row'[f] = row[f]
             /\ \A v \in Workers \ {w} : worker'[v] = worker[v]
             /\ worker'[w] = Idle
             /\ UNCHANGED <<calls, confirmed, overrun>>
             /\ \/ row'[e].attempt_count = row[e].attempt_count
                \/ /\ worker[w].pc = "process"
                   /\ row'[e].attempt_count = RollBackAttempt(row[e].attempt_count)
             /\ \/ /\ row'[e].status = "PROCESSING" /\ row'[e].lease_until = "future"
                   /\ row'[e].last_result.outcome = "REQUEUE_REQUESTED"
                \/ row'[e].status = "SUCCEEDED" /\ worker[w].pc = "succeed"
                \/ /\ row'[e].status = "FAILED" /\ LastAttempt(w)
                   /\ row'[e].attempt_count = row[e].attempt_count
                \/ /\ row'[e].status = "FAILED" /\ Exhausted(w)
                   /\ row'[e].attempt_count = RollBackAttempt(row[e].attempt_count)
<1> DEFINE e == worker[w].ev
<1>1. e \in Events
  BY DEF Releases, Active, TypeInv, TypeOK, WorkerShape, WorkerStates
<1>2. row[e] \in Rows /\ row[e] = RowOf(w)
  BY <1>1 DEF TypeInv, TypeOK, RowOf
<1>3. row[e].status = "PROCESSING"
  BY <1>2 DEF Releases, Held, Holds
<1>4. /\ \A f \in Events \ {e} : row'[f] = row[f]
      /\ \A v \in Workers \ {w} : worker'[v] = worker[v]
      /\ worker'[w] = Idle
  BY <1>1 DEF Releases, TypeInv, TypeOK
<1>5. \/ row'[e] = MarkWaitingForRequeue(row[e])
      \/ worker[w].pc = "process" /\ row'[e] = MarkCircuitOpenWaitingForRequeue(row[e])
      \/ worker[w].pc = "succeed" /\ row'[e] = MarkSucceeded(row[e])
      \/ LastAttempt(w) /\ row'[e] = MarkFailed(row[e])
      \/ worker[w].pc = "process" /\ Exhausted(w)
         /\ row'[e] = MarkFailedWithoutProviderAttempt(row[e])
  BY <1>1, <1>2 DEF Releases, TypeInv, TypeOK
<1>6. CASE row'[e] = MarkWaitingForRequeue(row[e])
  <2>1. /\ row'[e].lease_token = NoToken
        /\ row'[e].status = row[e].status /\ row'[e].lease_until = "future"
        /\ row'[e].last_result = Finished("REQUEUE_REQUESTED", "PROVIDER")
        /\ row'[e].attempt_count = row[e].attempt_count
    BY <1>2, <1>6 DEF MarkWaitingForRequeue, ReleaseToRequeue, Rows
  <2>2. row'[e].last_result.outcome = "REQUEUE_REQUESTED"
    BY <2>1, FinishedOutcome
  <2>3. QED
    BY <1>1, <1>3, <1>4, <1>6, <2>1, <2>2 DEF Releases
<1>7. CASE worker[w].pc = "process" /\ row'[e] = MarkCircuitOpenWaitingForRequeue(row[e])
  <2>1. /\ row'[e].lease_token = NoToken
        /\ row'[e].status = row[e].status /\ row'[e].lease_until = "future"
        /\ row'[e].last_result = Finished("REQUEUE_REQUESTED", "CIRCUIT_OPEN")
        /\ row'[e].attempt_count = RollBackAttempt(row[e].attempt_count)
    BY <1>2, <1>7 DEF MarkCircuitOpenWaitingForRequeue, ReleaseToRequeue, Rows
  <2>2. row'[e].last_result.outcome = "REQUEUE_REQUESTED"
    BY <2>1, FinishedOutcome
  <2>3. QED
    BY <1>1, <1>3, <1>4, <1>7, <2>1, <2>2 DEF Releases
<1>8. CASE worker[w].pc = "succeed" /\ row'[e] = MarkSucceeded(row[e])
  BY <1>1, <1>2, <1>4, <1>8 DEF Releases, MarkSucceeded, Settle, Rows
<1>9. CASE LastAttempt(w) /\ row'[e] = MarkFailed(row[e])
  <2>1. /\ row'[e].status = "FAILED" /\ row'[e].lease_token = NoToken
        /\ row'[e].attempt_count = row[e].attempt_count
    BY <1>2, <1>9 DEF MarkFailed, Settle, Rows
  <2>2. QED
    BY <1>1, <1>4, <1>9, <2>1 DEF Releases
<1>10. CASE worker[w].pc = "process" /\ Exhausted(w)
            /\ row'[e] = MarkFailedWithoutProviderAttempt(row[e])
  <2>1. /\ row'[e].status = "FAILED" /\ row'[e].lease_token = NoToken
        /\ row'[e].attempt_count = RollBackAttempt(row[e].attempt_count)
    BY <1>2, <1>10 DEF MarkFailedWithoutProviderAttempt, MarkFailed, Settle, Rows
  <2>2. QED
    BY <1>1, <1>4, <1>10, <2>1 DEF Releases
<1>11. QED
  BY <1>5, <1>6, <1>7, <1>8, <1>9, <1>10

(* The fields a recovery changes. *)
LEMMA RecoverFields ==
  ASSUME TypeInv, NEW e \in Events, Recovers(e)
  PROVE  /\ row'[e].lease_token = NoToken
         /\ row'[e].status = "PROCESSING"
         /\ row'[e].attempt_count = row[e].attempt_count
         /\ row'[e].lease_until = "future"
         /\ row'[e].last_result.outcome = "REQUEUE_REQUESTED"
         /\ \A f \in Events \ {e} : row'[f] = row[f]
  BY DEF Recovers, RecoverExpiredToRequeue, ReleaseToRequeue, Finished, TypeInv, TypeOK, Rows

(* The fields a call and its answer change. *)
LEMMA CallFields ==
  ASSUME TypeInv, NEW w \in Workers, SendActionRequest(w) \/ ProviderReturns(w)
  PROVE  /\ Active(w)
         /\ worker[w].ev \in Events /\ worker[w].attempt \in Attempts
         /\ worker'[w].ev = worker[w].ev
         /\ worker'[w].token = worker[w].token
         /\ worker'[w].attempt = worker[w].attempt
         /\ \A v \in Workers \ {w} : worker'[v] = worker[v]
         /\ SendActionRequest(w) => worker[w].pc = "send" /\ worker'[w].pc = "calling"
         /\ ProviderReturns(w) =>
              /\ worker[w].pc = "calling"
              /\ \/ worker'[w].pc = "succeed" /\ worker[w].ev \in confirmed'
                 \/ worker'[w].pc = "fail"
              /\ confirmed \subseteq confirmed'
         /\ UNCHANGED <<row, overrun>>
  BY DEF SendActionRequest, ProviderReturns, Goto, Active, TypeInv, TypeOK, WorkerShape,
         WorkerStates

-----------------------------------------------------------------------------
(* Each shape preserves the invariant. *)

(* What the types say of a worker with a claim. *)
LEMMA ActiveWorker ==
  ASSUME TypeInv, NEW w \in Workers, Active(w)
  PROVE  /\ worker[w].ev \in Events
         /\ worker[w].token \in Tokens /\ worker[w].token # NoToken
         /\ worker[w].attempt \in Attempts
  BY TokenAssumption DEF Active, TypeInv, TypeOK, WorkerShape, WorkerStates

(* The table is empty and nobody has claimed anything. *)
LEMMA CoreInit == Init => CoreInv
<1> SUFFICES ASSUME Init PROVE CoreInv
  OBVIOUS
<1>1. \A w \in Workers : worker[w].pc = "idle"
  BY IdleType DEF Init
<1>2. \A e \in Events : /\ row[e].status = "ABSENT" /\ row[e].lease_token = NoToken
                        /\ \A n \in Attempts : calls[e][n] = 0
  BY DEF Init, Absent
<1>3. QED
  BY <1>1, <1>2 DEF CoreInv, RowShape, AlwaysRecoverable, ClaimInv, CallInv, OutcomeInv,
                    OutcomeJustified, ExclusiveInv, Active

(* Losing claims disturbs nothing: a message is given up, handed out, or   *)
(* the whole process dies.                                                 *)
LEMMA CoreFewerClaims ==
  ASSUME CoreInv, UNCHANGED <<row, calls, confirmed, overrun>>,
         \A w \in Workers : worker'[w] = worker[w] \/ worker'[w].pc \in {"idle", "claim"}
  PROVE  CoreInv'
<1>1. RowShape'
  BY DEF CoreInv, RowShape, AlwaysRecoverable, Waiting, Active
<1>2. ClaimInv'
  BY DEF CoreInv, ClaimInv, Active
<1>3. CallInv'
  BY DEF CoreInv, CallInv
<1>4. OutcomeInv' /\ ExclusiveInv'
  BY DEF CoreInv, OutcomeInv, OutcomeJustified, ExclusiveInv, Active
<1>5. QED
  BY <1>1, <1>2, <1>3, <1>4 DEF CoreInv

(* Publishing, marking, reserving and the passing of time change no claim. *)
LEMMA CoreNeutral ==
  ASSUME TypeInv, CoreInv, Neutral
  PROVE  CoreInv'
<1>1. RowShape'
  <2>1. \A e \in Events : row'[e].lease_token # NoToken => row'[e].status = "PROCESSING"
    BY DEF CoreInv, RowShape, Neutral
  <2>2. \A w \in Workers : Active(w)' => row'[worker'[w].ev].status # "ABSENT"
    BY ActiveWorker DEF CoreInv, RowShape, Neutral, Active
  <2>3. AlwaysRecoverable'
    BY DEF CoreInv, RowShape, AlwaysRecoverable, Waiting, Neutral
  <2>4. QED
    BY <2>1, <2>2, <2>3 DEF RowShape
<1>2. ClaimInv'
  <2>1. \A e \in Events : /\ row'[e].lease_token = row[e].lease_token
                          /\ row'[e].attempt_count = row[e].attempt_count
    BY DEF Neutral
  <2>2. UNCHANGED worker
    BY DEF Neutral
  <2>3. QED
    BY <2>1, <2>2, ActiveWorker DEF CoreInv, ClaimInv, Active
<1>3. CallInv'
  BY DEF CoreInv, CallInv, Neutral
<1>4. OutcomeInv'
  BY DEF CoreInv, OutcomeInv, OutcomeJustified, Neutral
<1>5. ExclusiveInv'
  BY ActiveWorker DEF CoreInv, ExclusiveInv, Neutral, LiveHolder, Active
<1>6. QED
  BY <1>1, <1>2, <1>3, <1>4, <1>5 DEF CoreInv

(* A recovered event keeps its counter; the worker that lost its lease     *)
(* keeps its number, and its event is among those with an expired lease.   *)
LEMMA CoreRecovers ==
  ASSUME TypeInv, CoreInv, NEW e \in Events, Recovers(e)
  PROVE  CoreInv'
<1>1. /\ row'[e].lease_token = NoToken
      /\ row'[e].status = "PROCESSING"
      /\ row'[e].attempt_count = row[e].attempt_count
      /\ row'[e].lease_until = "future"
      /\ row'[e].last_result.outcome = "REQUEUE_REQUESTED"
      /\ \A f \in Events \ {e} : row'[f] = row[f]
  BY RecoverFields
<1>2. UNCHANGED <<worker, calls, confirmed, overrun>> /\ row[e].lease_until = "past"
  BY DEF Recovers
<1>3. \A w \in Workers : Active(w) => worker[w].ev \in Events /\ worker[w].token # NoToken
  BY ActiveWorker
<1>4. RowShape'
  BY <1>1, <1>2, <1>3 DEF CoreInv, RowShape, AlwaysRecoverable, Waiting, Active
<1>5. ClaimInv'
  BY <1>1, <1>2, <1>3 DEF CoreInv, ClaimInv, Active
<1>6. CallInv'
  BY <1>1, <1>2 DEF CoreInv, CallInv
<1>7. OutcomeInv'
  BY <1>1, <1>2 DEF CoreInv, OutcomeInv, OutcomeJustified
<1>8. ExclusiveInv'
  BY <1>1, <1>2, <1>3 DEF CoreInv, ExclusiveInv, Active
<1>9. QED
  BY <1>4, <1>5, <1>6, <1>7, <1>8 DEF CoreInv

(* A claim takes a token nobody knows and a number nobody has used.        *)
LEMMA CoreClaimed ==
  ASSUME TypeInv, CoreInv, NEW w \in Workers, NEW t \in Tokens, Claimed(w, t)
  PROVE  CoreInv'
<1> DEFINE e == worker[w].ev
           n == row[e].attempt_count + 1
<1>1. /\ e \in Events /\ row[e] \in Rows /\ n \in Attempts
      /\ row[e].attempt_count \in Nat /\ n > row[e].attempt_count
  <2>1. e \in Events
    BY ClaimFields
  <2>2. row[e] \in Rows /\ ~ClaimOverflows(row[e])
    BY <2>1 DEF Claimed, RowOf, TypeInv, TypeOK
  <2>3. QED
    BY <2>1, <2>2, ClaimStatement DEF Rows
<1>2. /\ row'[e].status = "PROCESSING" /\ row'[e].lease_token = t
      /\ row'[e].lease_until = "future" /\ row'[e].attempt_count = n
      /\ \A f \in Events \ {e} : row'[f] = row[f]
      /\ \A v \in Workers \ {w} : worker'[v] = worker[v]
      /\ \/ worker'[w] = Idle
         \/ /\ worker'[w].pc = "process" /\ worker'[w].ev = e
            /\ worker'[w].token = t /\ worker'[w].attempt = n
  BY ClaimFields
<1>3. /\ UNCHANGED <<calls, confirmed, overrun>>
      /\ \A f \in Events : row[f].lease_token # t
      /\ \A v \in Workers : worker[v].token # t
  BY DEF Claimed, Fresh
<1>4. row[e].lease_token = NoToken /\ row[e].status \in {"PENDING", "PROCESSING"}
  BY <1>1 DEF Claimed, Claimable, Waiting, RowOf, CoreInv, RowShape
<1>5. /\ ~Active(w)
      /\ \A v \in Workers : Active(v)' => (v # w /\ Active(v)) \/ (v = w /\ worker'[w] # Idle)
  BY <1>2, IdleType DEF Claimed, Active
<1>6. t # NoToken
  BY TokenAssumption
<1>7. \A v \in Workers : Active(v) => /\ worker[v].ev \in Events
                                      /\ worker[v].token # NoToken
                                      /\ worker[v].attempt \in Attempts
  BY ActiveWorker
<1>8. RowShape'
  BY <1>1, <1>2, <1>4, <1>5, <1>6, <1>7 DEF CoreInv, RowShape, AlwaysRecoverable, Waiting
<1>9. ClaimInv'
  <2>1. \A f \in Events : \A v \in Workers :
          Active(v)' /\ row'[f].lease_token = worker'[v].token =>
            worker'[v].ev = f /\ worker'[v].attempt = row'[f].attempt_count
    BY <1>1, <1>2, <1>3, <1>4, <1>5, <1>7 DEF CoreInv, ClaimInv
  <2>2. \A v \in Workers : Active(v)' =>
          /\ worker'[v].attempt <= row'[worker'[v].ev].attempt_count
          /\ row'[worker'[v].ev].lease_token \notin {NoToken, worker'[v].token} =>
               worker'[v].attempt < row'[worker'[v].ev].attempt_count
    <3>1. \A v \in Workers : Active(v) /\ worker[v].ev = e => worker[v].attempt < n
      BY <1>1, <1>7 DEF CoreInv, ClaimInv, Attempts
    <3>2. \A v \in Workers : Active(v) /\ worker[v].ev = e => worker[v].attempt <= n
      BY <3>1, <1>1, <1>7 DEF Attempts
    <3>3. n <= n
      BY <1>1 DEF Attempts
    <3>4. QED
      BY <1>2, <1>5, <1>7, <3>1, <3>2, <3>3 DEF CoreInv, ClaimInv
  <2>3. \A u, v \in Workers : u # v /\ Active(u)' /\ Active(v)' =>
          /\ worker'[u].token # worker'[v].token
          /\ worker'[u].ev = worker'[v].ev => worker'[u].attempt # worker'[v].attempt
    <3>1. \A v \in Workers : Active(v) /\ worker[v].ev = e => worker[v].attempt # n
      BY <1>1, <1>7 DEF CoreInv, ClaimInv, Attempts
    <3>2. QED
      BY <1>2, <1>3, <1>5, <3>1 DEF CoreInv, ClaimInv
  <2>4. QED
    BY <2>1, <2>2, <2>3 DEF ClaimInv
<1>10. CallInv'
  <2>1. calls[e][n] = 0
    <3>1. calls[e][n] \in Nat
      BY <1>1 DEF TypeInv, TypeOK
    <3>2. calls[e][n] > 0 => n <= row[e].attempt_count
      BY <1>1 DEF CoreInv, CallInv
    <3>3. QED
      BY <1>1, <3>1, <3>2 DEF Attempts
  <2>2. \A m \in Attempts : m <= row[e].attempt_count => m <= n
    BY <1>1 DEF Attempts
  <2>3. \A f \in Events : \A m \in Attempts :
          /\ calls'[f][m] <= 1
          /\ calls'[f][m] > 0 => /\ m <= row'[f].attempt_count
                                 /\ MaxAttempts > 0 => m <= MaxAttempts
    BY <1>2, <1>3, <2>2 DEF CoreInv, CallInv
  <2>4. worker'[w] # Idle => worker'[w].pc = "process" /\ worker'[w].ev = e /\ worker'[w].attempt = n
    BY <1>2
  <2>5. QED
    BY <1>2, <1>3, <2>1, <2>3, <2>4, IdleType DEF CoreInv, CallInv
<1>11. OutcomeInv'
  BY <1>1, <1>2, <1>3, IdleType DEF CoreInv, OutcomeInv, OutcomeJustified
<1>12. ExclusiveInv'
  BY <1>1, <1>2, <1>3, <1>4, <1>5, <1>7 DEF CoreInv, ExclusiveInv
<1>13. QED
  BY <1>8, <1>9, <1>10, <1>11, <1>12 DEF CoreInv

(* Preparing a call keeps the lease; only an attempt within the limit is   *)
(* prepared.                                                               *)
LEMMA CorePrepares ==
  ASSUME TypeInv, CoreInv, NEW w \in Workers, NEW pc \in PCs, Prepares(w, pc)
  PROVE  CoreInv'
<1> DEFINE e == worker[w].ev
<1>1. /\ e \in Events
      /\ row'[e].status = row[e].status
      /\ row'[e].lease_token = row[e].lease_token
      /\ row'[e].attempt_count = row[e].attempt_count
      /\ row'[e].lease_until \in {row[e].lease_until, "future"}
      /\ \A f \in Events \ {e} : row'[f] = row[f]
      /\ \A v \in Workers \ {w} : worker'[v] = worker[v]
      /\ \/ worker'[w] = Idle
         \/ /\ worker'[w].pc = pc /\ worker'[w].ev = e
            /\ worker'[w].token = worker[w].token
            /\ worker'[w].attempt = worker[w].attempt
  BY PrepareFields
<1>2. /\ row[e].status = "PROCESSING" /\ row[e].lease_token = worker[w].token
      /\ row[e].lease_token # NoToken
  BY PrepareFields, ActiveWorker DEF Held, Holds, RowOf
<1>3. UNCHANGED <<calls, confirmed, overrun>>
  BY DEF Prepares
<1>4. /\ Active(w) /\ worker[w].attempt \in Attempts
      /\ worker[w].pc \in {"process", "renew"} /\ pc \in {"renew", "send"}
      /\ worker[w].pc = "process" => ~Exhausted(w)
  BY PrepareFields, ActiveWorker
<1>5. \A v \in Workers : Active(v)' => /\ Active(v)
                                       /\ worker'[v].ev = worker[v].ev
                                       /\ worker'[v].token = worker[v].token
                                       /\ worker'[v].attempt = worker[v].attempt
  BY <1>1, <1>4, IdleType DEF Active
<1>6. \A v \in Workers : Active(v) => worker[v].ev \in Events
  BY ActiveWorker
<1>7. RowShape'
  BY <1>1, <1>2, <1>5, <1>6 DEF CoreInv, RowShape, AlwaysRecoverable, Waiting
<1>8. ClaimInv'
  <2>1. \A f \in Events : /\ row'[f].lease_token = row[f].lease_token
                          /\ row'[f].attempt_count = row[f].attempt_count
    BY <1>1
  <2>2. QED
    BY <1>5, <1>6, <2>1 DEF CoreInv, ClaimInv
<1>9. CallInv'
  <2>1. MaxAttempts > 0 => worker[w].attempt <= MaxAttempts
    <3>1. CASE worker[w].pc = "process"
      BY <1>4, <3>1, AttemptsAssumption, SmallintAssumption DEF Exhausted, Attempts
    <3>2. CASE worker[w].pc = "renew"
      BY <3>2 DEF CoreInv, CallInv
    <3>3. QED
      BY <1>4, <3>1, <3>2
  <2>2. calls[e][worker[w].attempt] = 0
    BY <1>4 DEF CoreInv, CallInv
  <2>3. \A f \in Events : row'[f].attempt_count = row[f].attempt_count
    BY <1>1
  <2>4. QED
    BY <1>1, <1>3, <1>4, <2>1, <2>2, <2>3, IdleType DEF CoreInv, CallInv
<1>10. OutcomeInv'
  BY <1>1, <1>3, <1>4, IdleType DEF CoreInv, OutcomeInv, OutcomeJustified
<1>11. ExclusiveInv'
  BY <1>1, <1>3, <1>5, <1>6 DEF CoreInv, ExclusiveInv
<1>12. QED
  BY <1>7, <1>8, <1>9, <1>10, <1>11 DEF CoreInv

(* A call uses its attempt number for the first and only time; its answer  *)
(* is remembered.                                                          *)
LEMMA CoreCalls ==
  ASSUME TypeInv, CoreInv, NEW w \in Workers, SendActionRequest(w) \/ ProviderReturns(w)
  PROVE  CoreInv'
<1> DEFINE e == worker[w].ev
           n == worker[w].attempt
<1>1. /\ Active(w) /\ e \in Events /\ n \in Attempts
      /\ worker'[w].ev = e /\ worker'[w].token = worker[w].token /\ worker'[w].attempt = n
      /\ \A v \in Workers \ {w} : worker'[v] = worker[v]
      /\ UNCHANGED <<row, overrun>>
  BY CallFields
<1>2. \A v \in Workers : Active(v)' => /\ Active(v)
                                       /\ worker'[v].ev = worker[v].ev
                                       /\ worker'[v].token = worker[v].token
                                       /\ worker'[v].attempt = worker[v].attempt
  BY <1>1 DEF Active
<1>3. RowShape'
  BY <1>1, <1>2 DEF CoreInv, RowShape, AlwaysRecoverable, Waiting
<1>4. ClaimInv'
  BY <1>1, <1>2 DEF CoreInv, ClaimInv
<1>5. ExclusiveInv'
  BY <1>1, <1>2 DEF CoreInv, ExclusiveInv
<1>6. CASE SendActionRequest(w)
  <2>1. /\ worker[w].pc = "send" /\ worker'[w].pc = "calling" /\ UNCHANGED confirmed
        /\ calls' = [calls EXCEPT ![e] = [calls[e] EXCEPT ![n] = @ + 1]]
    BY <1>6, CallFields DEF SendActionRequest
  <2>2. calls[e][n] = 0 /\ (MaxAttempts > 0 => n <= MaxAttempts)
    BY <2>1 DEF CoreInv, CallInv
  <2>3. /\ calls'[e][n] = 1
        /\ \A f \in Events : \A m \in Attempts :
             f # e \/ m # n => calls'[f][m] = calls[f][m]
    BY <1>1, <2>1, <2>2 DEF TypeInv, TypeOK
  <2>4. n <= row[e].attempt_count
    BY <1>1 DEF CoreInv, ClaimInv
  <2>5. \A f \in Events : \A m \in Attempts :
          /\ calls'[f][m] <= 1
          /\ calls'[f][m] > 0 => /\ m <= row'[f].attempt_count
                                 /\ MaxAttempts > 0 => m <= MaxAttempts
    BY <1>1, <2>2, <2>3, <2>4 DEF CoreInv, CallInv
  <2>6. \A v \in Workers \ {w} : Active(v) =>
          calls'[worker[v].ev][worker[v].attempt] = calls[worker[v].ev][worker[v].attempt]
    <3>1. \A v \in Workers \ {w} : Active(v) => worker[v].ev # e \/ worker[v].attempt # n
      BY <1>1 DEF CoreInv, ClaimInv
    <3>2. \A v \in Workers : Active(v) => worker[v].ev \in Events /\ worker[v].attempt \in Attempts
      BY ActiveWorker
    <3>3. QED
      BY <2>3, <3>1, <3>2
  <2>7. CallInv'
    BY <1>1, <2>1, <2>2, <2>3, <2>5, <2>6 DEF CoreInv, CallInv, Active
  <2>8. OutcomeInv'
    BY <1>1, <2>1 DEF CoreInv, OutcomeInv, OutcomeJustified
  <2>9. QED
    BY <1>3, <1>4, <1>5, <2>7, <2>8 DEF CoreInv
<1>7. CASE ProviderReturns(w)
  <2>1. /\ worker[w].pc = "calling" /\ UNCHANGED calls /\ confirmed \subseteq confirmed'
        /\ \/ worker'[w].pc = "succeed" /\ e \in confirmed'
           \/ worker'[w].pc = "fail"
    BY <1>7, CallFields DEF ProviderReturns
  <2>2. CallInv'
    BY <1>1, <2>1 DEF CoreInv, CallInv
  <2>3. OutcomeInv'
    BY <1>1, <2>1 DEF CoreInv, OutcomeInv, OutcomeJustified
  <2>4. QED
    BY <1>3, <1>4, <1>5, <2>2, <2>3 DEF CoreInv
<1>8. QED
  BY <1>6, <1>7

(* Ending an attempt may take its number back only if it was not used, and *)
(* then no other worker and no call has that number or a later one.        *)
LEMMA CoreReleases ==
  ASSUME TypeInv, CoreInv, NEW w \in Workers, Releases(w)
  PROVE  CoreInv'
<1> DEFINE e == worker[w].ev
           n == row[e].attempt_count
<1>1. /\ e \in Events /\ Active(w) /\ Held(w)
      /\ row'[e].lease_token = NoToken
      /\ \A f \in Events \ {e} : row'[f] = row[f]
      /\ \A v \in Workers \ {w} : worker'[v] = worker[v]
      /\ worker'[w] = Idle
      /\ UNCHANGED <<calls, confirmed, overrun>>
  BY ReleaseFields
<1>2. \/ row'[e].attempt_count = n
      \/ worker[w].pc = "process" /\ row'[e].attempt_count = RollBackAttempt(n)
  BY ReleaseFields
<1>3. \/ /\ row'[e].status = "PROCESSING" /\ row'[e].lease_until = "future"
         /\ row'[e].last_result.outcome = "REQUEUE_REQUESTED"
      \/ row'[e].status = "SUCCEEDED" /\ worker[w].pc = "succeed"
      \/ row'[e].status = "FAILED" /\ LastAttempt(w) /\ row'[e].attempt_count = n
      \/ row'[e].status = "FAILED" /\ Exhausted(w) /\ row'[e].attempt_count = RollBackAttempt(n)
  BY ReleaseFields
<1>4. worker[w].attempt = n /\ worker[w].token = row[e].lease_token /\ n \in Attempts
  BY <1>1, ActiveWorker DEF Held, Holds, RowOf, CoreInv, ClaimInv
<1>5. \A v \in Workers : Active(v)' => /\ v # w /\ Active(v)
                                       /\ worker'[v] = worker[v]
                                       /\ worker[v].ev \in Events
                                       /\ worker[v].token # NoToken
                                       /\ worker[v].attempt \in Attempts
  BY <1>1, IdleType, ActiveWorker DEF Active
<1>6. RollBackAttempt(n) = n - 1
  BY <1>4 DEF RollBackAttempt, Attempts
<1>7. RowShape'
  BY <1>1, <1>3, <1>5 DEF CoreInv, RowShape, AlwaysRecoverable, Waiting
<1>8. ClaimInv'
  <2>1. \A v \in Workers : Active(v)' /\ worker[v].ev = e => worker[v].attempt < n
    <3>1. \A v \in Workers : Active(v)' /\ worker[v].ev = e =>
            worker[v].attempt <= n /\ worker[v].attempt # worker[w].attempt
      BY <1>1, <1>5 DEF CoreInv, ClaimInv
    <3>2. QED
      BY <1>4, <1>5, <3>1 DEF Attempts
  <2>2. \A v \in Workers : Active(v)' /\ worker[v].ev = e =>
          worker[v].attempt <= row'[e].attempt_count
    BY <1>2, <1>4, <1>5, <1>6, <2>1 DEF Attempts
  <2>3. QED
    BY <1>1, <1>5, <2>2 DEF CoreInv, ClaimInv
<1>9. CallInv'
  <2>1. \A m \in Attempts : calls[e][m] > 0 => m <= row'[e].attempt_count
    <3>1. CASE row'[e].attempt_count = n
      BY <1>1, <3>1 DEF CoreInv, CallInv
    <3>2. CASE worker[w].pc = "process" /\ row'[e].attempt_count = n - 1
      <4>1. calls[e][n] = 0
        BY <1>4, <3>2 DEF CoreInv, CallInv
      <4>2. \A m \in Attempts : calls[e][m] > 0 => m <= n /\ m # n
        BY <1>1, <4>1 DEF CoreInv, CallInv
      <4>3. QED
        BY <1>4, <3>2, <4>2 DEF Attempts
    <3>3. QED
      BY <1>2, <1>6, <3>1, <3>2
  <2>2. QED
    BY <1>1, <2>1, IdleType DEF CoreInv, CallInv
<1>10. OutcomeInv'
  <2>1. row'[e].status = "SUCCEEDED" => e \in confirmed
    BY <1>3 DEF CoreInv, OutcomeInv
  <2>2. row'[e].status = "FAILED" => MaxAttempts > 0 /\ row'[e].attempt_count >= MaxAttempts
    BY <1>3, <1>4, <1>6, AttemptsAssumption, SmallintAssumption
    DEF LastAttempt, Exhausted, Attempts
  <2>3. QED
    BY <1>1, <2>1, <2>2, IdleType DEF CoreInv, OutcomeInv, OutcomeJustified
<1>11. ExclusiveInv'
  <2>1. \A v \in Workers : Active(v)' => worker[v].token # worker[w].token
    BY <1>1, <1>5 DEF CoreInv, ClaimInv
  <2>2. QED
    BY <1>1, <1>4, <1>5, <2>1 DEF CoreInv, ExclusiveInv
<1>12. QED
  BY <1>7, <1>8, <1>9, <1>10, <1>11 DEF CoreInv

(* Every step preserves what the invariant says of claims and calls. *)
LEMMA CoreNext == TypeInv /\ CoreInv /\ [Next]_vars => CoreInv'
<1> SUFFICES ASSUME TypeInv, CoreInv, Shape PROVE CoreInv'
  BY StepShape
<1>1. ASSUME NEW w \in Workers, GivesUp(w) PROVE CoreInv'
  <2>1. \A v \in Workers : worker'[v] = worker[v] \/ worker'[v].pc \in {"idle", "claim"}
    BY <1>1, IdleType DEF GivesUp, TypeInv, TypeOK
  <2>2. QED
    BY <1>1, <2>1, CoreFewerClaims DEF GivesUp
<1>2. ASSUME NEW w \in Workers, NEW e \in Events, Delivered(w, e) PROVE CoreInv'
  <2>1. [Idle EXCEPT !.pc = "claim", !.ev = e].pc = "claim"
    BY DEF Idle
  <2>2. \A v \in Workers : worker'[v] = worker[v] \/ worker'[v].pc \in {"idle", "claim"}
    BY <1>2, <2>1 DEF Delivered, TypeInv, TypeOK
  <2>3. QED
    BY <1>2, <2>2, CoreFewerClaims DEF Delivered
<1>3. CASE CrashServer
  <2>1. \A v \in Workers : worker'[v].pc \in {"idle", "claim"}
    BY <1>3, IdleType DEF CrashServer
  <2>2. QED
    BY <1>3, <2>1, CoreFewerClaims DEF CrashServer
<1>4. QED
  BY <1>1, <1>2, <1>3, CoreNeutral, CoreRecovers, CoreClaimed, CorePrepares, CoreCalls,
     CoreReleases
  DEF Shape

-----------------------------------------------------------------------------
(* Messages and marks *)

(* The statements of a lease holder leave enqueued_at alone and do not     *)
(* make the row PENDING.                                                   *)
LEMMA HolderStatements ==
  ASSUME NEW r \in Rows, r.status = "PROCESSING",
         NEW new \in {MarkRequesting(r), RenewLease(r), MarkSucceeded(r), MarkFailed(r),
                      MarkFailedWithoutProviderAttempt(r), MarkWaitingForRequeue(r),
                      MarkCircuitOpenWaitingForRequeue(r)}
  PROVE  new.enqueued_at = r.enqueued_at /\ new.status \notin {"ABSENT", "PENDING"}
<1>1. CASE new = MarkRequesting(r) \/ new = RenewLease(r)
  BY <1>1 DEF MarkRequesting, RenewLease, Rows
<1>2. CASE new = MarkSucceeded(r) \/ new = MarkFailed(r)
  BY <1>2 DEF MarkSucceeded, MarkFailed, Settle, Rows
<1>3. CASE new = MarkFailedWithoutProviderAttempt(r)
  BY <1>3 DEF MarkFailedWithoutProviderAttempt, MarkFailed, Settle, Rows
<1>4. CASE new = MarkWaitingForRequeue(r)
  BY <1>4 DEF MarkWaitingForRequeue, ReleaseToRequeue, Rows
<1>5. CASE new = MarkCircuitOpenWaitingForRequeue(r)
  BY <1>5 DEF MarkCircuitOpenWaitingForRequeue, ReleaseToRequeue, Rows
<1>6. QED
  BY <1>1, <1>2, <1>3, <1>4, <1>5

(* No row becomes PENDING or loses or gains its mark. *)
MarksKept ==
  \A e \in Events : /\ row'[e].enqueued_at = row[e].enqueued_at
                    /\ row'[e].status \in {"ABSENT", "PENDING"} => row'[e].status = row[e].status

(* With an external broker, an event that is PENDING afterwards keeps its  *)
(* messages.                                                               *)
WakeupsKept ==
  durable => \A e \in Events : row'[e].status = "PENDING" /\ Awake(e) => Awake(e)'

(* A step that keeps marks and wake-ups, and starts no new marking, keeps  *)
(* the invariant.                                                          *)
LEMMA WakeKept ==
  ASSUME TypeInv, WakeInv, MarksKept, WakeupsKept, UNCHANGED durable,
         \A p \in Publishers : marking'[p] \in {marking[p], NoEvent},
         \A e \in Events : row[e].status = "ABSENT" =>
           \A p \in Publishers : e \in todo'[p] => e \in todo[p]
  PROVE  WakeInv'
<1>1. \A e \in Events : row'[e].status = "ABSENT" =>
        /\ ~row'[e].enqueued_at
        /\ \A p \in Publishers : marking'[p] # e /\ e \notin todo'[p]
  BY EventAssumption DEF MarksKept, WakeInv
<1>2. ~durable => /\ \A e \in Events : ~row'[e].enqueued_at
                  /\ \A p \in Publishers : marking'[p] = NoEvent
  BY DEF MarksKept, WakeInv
<1>3. ASSUME NEW e \in Events, row'[e].status = "PENDING"
      PROVE  /\ row'[e].enqueued_at => Awake(e)'
             /\ \A p \in Publishers : marking'[p] = e => Awake(e)'
  <2>1. CASE durable
    BY <1>3, <2>1, EventAssumption DEF MarksKept, WakeupsKept, WakeInv
  <2>2. CASE ~durable
    BY <1>2, <1>3, <2>2, EventAssumption
  <2>3. QED
    BY <2>1, <2>2
<1>4. QED
  BY <1>1, <1>2, <1>3 DEF WakeInv

(* A step that leaves the workers alone and takes no message keeps all     *)
(* wake-ups.                                                               *)
LEMMA WakeupsGrow ==
  ASSUME TypeInv, UNCHANGED worker, queue' \in [Events -> Nat],
         \A e \in Events : queue'[e] >= queue[e]
  PROVE  \A e \in Events : Awake(e) => Awake(e)'
  BY DEF Awake, TypeInv, TypeOK

(* A step of a worker that has its claim takes no message away. *)
LEMMA ActiveWakeups ==
  ASSUME TypeInv, NEW w \in Workers, Active(w),
         \A v \in Workers \ {w} : worker'[v] = worker[v],
         queue' = queue \/ Enqueue(worker[w].ev)
  PROVE  WakeupsKept
<1>1. worker[w].ev \in Events
  BY ActiveWorker
<1>2. \A e \in Events : queue[e] > 0 => queue'[e] > 0
  BY <1>1 DEF Enqueue, TypeInv, TypeOK
<1>3. \A v \in Workers : worker[v].pc = "claim" => worker'[v] = worker[v]
  BY DEF Active
<1>4. QED
  BY <1>2, <1>3 DEF WakeupsKept, Awake

(* A worker at work marks nothing and takes no message away. *)
LEMMA WakeWorker ==
  ASSUME TypeInv, NEW w \in Workers, Active(w), WorkerStep(w)
  PROVE  MarksKept /\ WakeupsKept /\ UNCHANGED <<marking, todo>>
<1> DEFINE e == worker[w].ev
<1>1. e \in Events /\ row[e] \in Rows /\ row[e] = RowOf(w)
  BY ActiveWorker DEF TypeInv, TypeOK, RowOf
<1>2. \/ UNCHANGED row
      \/ /\ Held(w)
         /\ \E new \in {MarkRequesting(row[e]), RenewLease(row[e]), MarkSucceeded(row[e]),
                         MarkFailed(row[e]), MarkFailedWithoutProviderAttempt(row[e]),
                         MarkWaitingForRequeue(row[e]),
                         MarkCircuitOpenWaitingForRequeue(row[e])} :
              row' = [row EXCEPT ![e] = new]
  <2>1. CASE FinishExhaustedBeforeProvider(w)
    BY <1>1, <2>1 DEF FinishExhaustedBeforeProvider, Exec, Update
  <2>2. CASE DeferForOpenCircuit(w)
    BY <1>1, <2>2 DEF DeferForOpenCircuit, Update
  <2>3. CASE StartRequesting(w)
    BY <1>1, <2>3 DEF StartRequesting, Exec, Update
  <2>4. CASE RenewBeforeSend(w)
    BY <1>1, <2>4 DEF RenewBeforeSend, Exec, Update
  <2>5. CASE SendActionRequest(w) \/ ProviderReturns(w)
    BY <2>5 DEF SendActionRequest, ProviderReturns
  <2>6. CASE SettleSuccess(w)
    BY <1>1, <2>6 DEF SettleSuccess, Exec, Update
  <2>7. CASE RetryOrFail(w)
    BY <1>1, <2>7 DEF RetryOrFail, Exec, Update
  <2>8. ~ClaimEvent(w)
    BY DEF ClaimEvent, Active
  <2>9. QED
    BY <2>1, <2>2, <2>3, <2>4, <2>5, <2>6, <2>7, <2>8 DEF WorkerStep
<1>3. MarksKept
  <2>1. CASE UNCHANGED row
    BY <2>1 DEF MarksKept
  <2>2. ASSUME Held(w),
               NEW new \in {MarkRequesting(row[e]), RenewLease(row[e]), MarkSucceeded(row[e]),
                            MarkFailed(row[e]), MarkFailedWithoutProviderAttempt(row[e]),
                            MarkWaitingForRequeue(row[e]),
                            MarkCircuitOpenWaitingForRequeue(row[e])},
               row' = [row EXCEPT ![e] = new]
        PROVE  MarksKept
    <3>1. row[e].status = "PROCESSING"
      BY <1>1, <2>2 DEF Held, Holds
    <3>2. new.enqueued_at = row[e].enqueued_at /\ new.status \notin {"ABSENT", "PENDING"}
      BY <1>1, <3>1, HolderStatements
    <3>3. row'[e] = new /\ \A f \in Events \ {e} : row'[f] = row[f]
      BY <1>1, <2>2 DEF TypeInv, TypeOK
    <3>4. QED
      BY <3>2, <3>3 DEF MarksKept
  <2>3. QED
    BY <1>2, <2>1, <2>2
<1>4. /\ \/ worker' = [worker EXCEPT ![w] = Idle]
         \/ \E pc \in PCs : worker' = [worker EXCEPT ![w].pc = pc]
      /\ queue' = queue \/ Enqueue(e)
      /\ UNCHANGED <<marking, todo>>
  <2>1. CASE FinishExhaustedBeforeProvider(w) \/ SettleSuccess(w) \/ RetryOrFail(w)
    BY <2>1 DEF FinishExhaustedBeforeProvider, SettleSuccess, RetryOrFail, Exec, Ack, Requeue,
                UNCHANGED_OTHERS
  <2>2. CASE DeferForOpenCircuit(w)
    BY <2>2 DEF DeferForOpenCircuit, Ack, Requeue, UNCHANGED_OTHERS
  <2>3. CASE StartRequesting(w) \/ RenewBeforeSend(w)
    BY <2>3 DEF StartRequesting, RenewBeforeSend, Exec, Ack, Requeue, Goto, UNCHANGED_OTHERS, PCs
  <2>4. CASE SendActionRequest(w) \/ ProviderReturns(w)
    BY <2>4 DEF SendActionRequest, ProviderReturns, Goto, PCs
  <2>5. ~ClaimEvent(w)
    BY DEF ClaimEvent, Active
  <2>6. QED
    BY <2>1, <2>2, <2>3, <2>4, <2>5 DEF WorkerStep
<1>5. \A v \in Workers \ {w} : worker'[v] = worker[v]
  BY <1>4 DEF TypeInv, TypeOK
<1>6. QED
  BY <1>3, <1>4, <1>5, ActiveWakeups

(* A claim takes its message for good only when the row is not PENDING any *)
(* more.                                                                   *)
LEMMA WakeClaim ==
  ASSUME TypeInv, NEW w \in Workers, ClaimEvent(w)
  PROVE  MarksKept /\ WakeupsKept /\ UNCHANGED <<marking, todo>>
<1> DEFINE e == worker[w].ev
<1>1. e \in Events /\ row[e] \in Rows /\ row[e] = RowOf(w)
  BY DEF ClaimEvent, RowOf, TypeInv, TypeOK, WorkerShape, WorkerStates
<1>2. UNCHANGED <<marking, todo>>
  BY DEF ClaimEvent, UNCHANGED_OTHERS
<1>3. UNCHANGED row \/ \E t \in Tokens : row' = [row EXCEPT ![e] = Claim(row[e], t)]
  BY <1>1 DEF ClaimEvent, Update
<1>4. ASSUME NEW t \in Tokens, row' = [row EXCEPT ![e] = Claim(row[e], t)]
      PROVE  MarksKept /\ row'[e].status = "PROCESSING"
  BY <1>1, <1>4 DEF Claim, Rows, MarksKept, TypeInv, TypeOK
<1>5. MarksKept
  BY <1>3, <1>4 DEF MarksKept
<1>6. \/ row'[e].status # "PENDING"
      \/ Requeue(w)
  <2>1. CASE UNCHANGED row /\ ~Claimable(row[e])
    BY <2>1 DEF Claimable
  <2>2. CASE \E t \in Tokens : row' = [row EXCEPT ![e] = Claim(row[e], t)]
    BY <1>4, <2>2
  <2>3. QED
    BY <1>1, <2>1, <2>2 DEF ClaimEvent, Update
<1>7. /\ \A v \in Workers \ {w} : worker'[v] = worker[v]
      /\ queue' = queue \/ queue' = [queue EXCEPT ![e] = @ + 1]
  BY DEF ClaimEvent, Requeue, Ack, Enqueue, TypeInv, TypeOK
<1>8. \A f \in Events : queue[f] > 0 => queue'[f] > 0
  BY <1>1, <1>7 DEF TypeInv, TypeOK
<1>9. Requeue(w) /\ durable => queue'[e] > 0
  BY <1>1 DEF Requeue, Enqueue, TypeInv, TypeOK
<1>10. WakeupsKept
  BY <1>6, <1>7, <1>8, <1>9 DEF WakeupsKept, Awake
<1>11. QED
  BY <1>2, <1>5, <1>10

(* Nothing is stored, published or marked at first. *)
LEMMA WakeInit == Init => WakeInv
<1> SUFFICES ASSUME Init PROVE WakeInv
  OBVIOUS
<1>1. \A e \in Events : row[e].status = "ABSENT" /\ ~row[e].enqueued_at
  BY DEF Init, Absent
<1>2. \A p \in Publishers : marking[p] = NoEvent /\ todo[p] = {}
  BY DEF Init
<1>3. QED
  BY <1>1, <1>2, EventAssumption DEF WakeInv

(* Storing an event leaves its row unmarked. *)
LEMMA WakeInsert ==
  ASSUME TypeInv, WakeInv, NEW e \in Events, ApiInsert(e), UNCHANGED durable
  PROVE  WakeInv'
<1>1. /\ row'[e].status = "PENDING" /\ row'[e].enqueued_at = row[e].enqueued_at
      /\ \A f \in Events \ {e} : row'[f] = row[f]
      /\ row[e].status = "ABSENT"
      /\ UNCHANGED <<queue, worker, marking>>
  BY DEF ApiInsert, Update, Insert, TypeInv, TypeOK, Rows
<1>2. \A f \in Events \ {e} : \A p \in Publishers : f \in todo'[p] => f \in todo[p]
  BY DEF ApiInsert, TypeInv, TypeOK
<1>3. \A f \in Events : Awake(f) => Awake(f)'
  BY <1>1 DEF Awake
<1>4. QED
  BY <1>1, <1>2, <1>3, EventAssumption DEF WakeInv

(* A publisher marks only after the broker took the message, and only for  *)
(* an external broker.                                                     *)
LEMMA WakePublisher ==
  ASSUME TypeInv, WakeInv, NEW p \in Publishers, PublisherStep(p), UNCHANGED durable
  PROVE  WakeInv'
<1>1. ASSUME NEW e \in Events, Publish(p, e) \/ PublishFails(p, e) PROVE WakeInv'
  <2>1. /\ UNCHANGED <<row, worker>>
        /\ UNCHANGED queue \/ queue' = [queue EXCEPT ![e] = @ + 1]
        /\ e \in todo[p]
    BY <1>1 DEF Publish, PublishFails, Enqueue
  <2>2. \A f \in Events : Awake(f) => Awake(f)'
    BY <2>1 DEF Awake, TypeInv, TypeOK
  <2>3. \A f \in Events : \A q \in Publishers : f \in todo'[q] => f \in todo[q]
    BY <1>1 DEF Publish, PublishFails, Published, TypeInv, TypeOK
  <2>4. \/ UNCHANGED marking
        \/ ~durable /\ marking' = [marking EXCEPT ![p] = NoEvent]
        \/ durable /\ marking' = [marking EXCEPT ![p] = e] /\ queue' = [queue EXCEPT ![e] = @ + 1]
    BY <1>1 DEF Publish, PublishFails, Enqueue
  <2>5. MarksKept /\ WakeupsKept
    BY <2>1, <2>2 DEF MarksKept, WakeupsKept
  <2>6. CASE UNCHANGED marking \/ marking' = [marking EXCEPT ![p] = NoEvent]
    <3>1. \A q \in Publishers : marking'[q] \in {marking[q], NoEvent}
      BY <2>6 DEF TypeInv, TypeOK
    <3>2. QED
      BY <2>3, <2>5, <3>1, WakeKept
  <2>7. CASE durable /\ marking' = [marking EXCEPT ![p] = e] /\ queue' = [queue EXCEPT ![e] = @ + 1]
    <3>1. Awake(e)'
      BY <2>7 DEF Awake, TypeInv, TypeOK
    <3>2. \A q \in Publishers : marking'[q] = marking[q] \/ marking'[q] = e
      BY <2>7 DEF TypeInv, TypeOK
    <3>3. row[e].status # "ABSENT"
      BY <2>1 DEF WakeInv
    <3>4. QED
      BY <2>1, <2>2, <2>3, <2>7, <3>1, <3>2, <3>3 DEF WakeInv
  <2>8. QED
    BY <2>4, <2>6, <2>7
<1>2. CASE Mark(p)
  <2> DEFINE e == marking[p]
  <2>1. /\ e \in Events /\ durable /\ row[e].status # "ABSENT"
        /\ row' = [row EXCEPT ![e] = MarkEnqueued(row[e])]
        /\ marking' = [marking EXCEPT ![p] = NoEvent]
        /\ UNCHANGED <<queue, worker, todo>>
    BY <1>2, BrokerAssumption DEF Mark, Update, WakeInv, TypeInv, TypeOK
  <2>2. /\ \A f \in Events \ {e} : row'[f] = row[f]
        /\ row'[e].status = row[e].status
        /\ \A q \in Publishers : marking'[q] = marking[q] \/ marking'[q] = NoEvent
    BY <2>1 DEF MarkEnqueued, TypeInv, TypeOK, Rows
  <2>3. \A f \in Events : Awake(f) => Awake(f)'
    BY <2>1 DEF Awake
  <2>4. row[e].status = "PENDING" => Awake(e)
    BY <2>1 DEF WakeInv
  <2>5. QED
    BY <2>1, <2>2, <2>3, <2>4, EventAssumption DEF WakeInv
<1>3. CASE MarkFails(p)
  <2>1. /\ \A q \in Publishers : marking'[q] \in {marking[q], NoEvent}
        /\ UNCHANGED <<row, queue, worker, todo>>
    BY <1>3 DEF MarkFails, TypeInv, TypeOK
  <2>2. MarksKept /\ WakeupsKept
    BY <2>1 DEF MarksKept, WakeupsKept, Awake
  <2>3. QED
    BY <2>1, <2>2, WakeKept
<1>4. QED
  BY <1>1, <1>2, <1>3 DEF PublisherStep

(* A compensator publishes only what it found stored. *)
LEMMA WakeCompensator ==
  ASSUME TypeInv, WakeInv, NEW c \in Compensators, CompensatorStep(c), UNCHANGED durable
  PROVE  WakeInv'
<1>1. CASE SelectPendingToPublish(c)
  <2>1. /\ UNCHANGED <<row, queue, worker, marking>>
        /\ \A e \in Events : \A p \in Publishers :
             e \in todo'[p] => e \in todo[p] \/ row[e].status = "PENDING"
    BY <1>1 DEF SelectPendingToPublish, SelectedToPublish, TypeInv, TypeOK
  <2>2. MarksKept /\ WakeupsKept
    BY <2>1 DEF MarksKept, WakeupsKept, Awake
  <2>3. QED
    BY <2>1, <2>2, WakeKept
<1>2. CASE SelectExpiredLeases(c)
  <2>1. UNCHANGED <<row, queue, worker, marking, todo>>
    BY <1>2 DEF SelectExpiredLeases
  <2>2. MarksKept /\ WakeupsKept
    BY <2>1 DEF MarksKept, WakeupsKept, Awake
  <2>3. QED
    BY <2>1, <2>2, WakeKept
<1>3. ASSUME NEW s \in snapshot[c], RecoverOne(c, s) PROVE WakeInv'
  <2>1. s.ev \in Events /\ row[s.ev] \in Rows
    BY DEF TypeInv, TypeOK, Snapshots
  <2>2. /\ UNCHANGED <<queue, worker, marking>>
        /\ \/ UNCHANGED <<row, todo>>
           \/ /\ RecoveryGuard(s)
              /\ row' = [row EXCEPT ![s.ev] = RecoveredRow(s)]
              /\ \/ UNCHANGED todo
                 \/ todo' = [todo EXCEPT ![<<"lease", c>>] = {s.ev}]
    BY <1>3 DEF RecoverOne, Update
  <2>3. RecoveryGuard(s) => row[s.ev].status = "PROCESSING"
    BY DEF RecoveryGuard, Reservable, Waiting, Recoverable, Holds
  <2>4. /\ RecoveredRow(s).status = row[s.ev].status
        /\ RecoveredRow(s).enqueued_at = row[s.ev].enqueued_at
    BY <2>1 DEF RecoveredRow, ReserveExpiredRequeue, RecoverExpiredToRequeue, ReleaseToRequeue,
                Rows
  <2>5. MarksKept
    BY <2>1, <2>2, <2>4 DEF MarksKept, TypeInv, TypeOK
  <2>6. WakeupsKept
    BY <2>2 DEF WakeupsKept, Awake
  <2>7. \A e \in Events : row[e].status = "ABSENT" =>
          \A p \in Publishers : e \in todo'[p] => e \in todo[p]
    <3>1. CASE UNCHANGED todo
      BY <3>1
    <3>2. CASE RecoveryGuard(s) /\ todo' = [todo EXCEPT ![<<"lease", c>>] = {s.ev}]
      <4>1. \A p \in Publishers : todo'[p] = todo[p] \/ todo'[p] = {s.ev}
        BY <3>2 DEF TypeInv, TypeOK
      <4>2. QED
        BY <2>3, <3>2, <4>1
    <3>3. QED
      BY <2>2, <3>1, <3>2
  <2>8. QED
    BY <2>2, <2>5, <2>6, <2>7, WakeKept
<1>4. CASE CrashCompensator(c)
  <2>1. /\ UNCHANGED <<row, queue, worker>>
        /\ \A p \in Publishers : /\ marking'[p] \in {marking[p], NoEvent}
                                 /\ \A e \in Events : e \in todo'[p] => e \in todo[p]
    BY <1>4 DEF CrashCompensator
  <2>2. MarksKept /\ WakeupsKept
    BY <2>1 DEF MarksKept, WakeupsKept, Awake
  <2>3. QED
    BY <2>1, <2>2, WakeKept
<1>5. QED
  BY <1>1, <1>2, <1>3, <1>4 DEF CompensatorStep

(* No step changes the kind of broker. *)
LEMMA BrokerStays == [Next]_vars => UNCHANGED durable
<1> SUFFICES ASSUME [Next]_vars PROVE UNCHANGED durable
  OBVIOUS
<1>1. ASSUME NEW e \in Events,
             \/ ApiInsert(e) \/ LeaseExpires(e) \/ LeaseExpiresEarly(e) \/ DuplicateDelivery(e)
      PROVE  UNCHANGED durable
  BY <1>1 DEF ApiInsert, LeaseExpires, LeaseExpiresEarly, Expire, DuplicateDelivery,
              UNCHANGED_OTHERS
<1>2. ASSUME NEW w \in Workers,
             (\E e \in Events : Deliver(w, e)) \/ WorkerStep(w) \/ CrashWorker(w)
      PROVE  UNCHANGED durable
  BY <1>2 DEF Deliver, CrashWorker, WorkerStep, ClaimEvent, FinishExhaustedBeforeProvider,
              DeferForOpenCircuit, StartRequesting, RenewBeforeSend, SendActionRequest,
              ProviderReturns, SettleSuccess, RetryOrFail, UNCHANGED_OTHERS
<1>3. ASSUME NEW p \in Publishers, PublisherStep(p) PROVE UNCHANGED durable
  BY <1>3 DEF PublisherStep, Publish, PublishFails, Mark, MarkFails
<1>4. ASSUME NEW c \in Compensators, CompensatorStep(c) PROVE UNCHANGED durable
  BY <1>4 DEF CompensatorStep, SelectPendingToPublish, SelectExpiredLeases, RecoverOne,
              CrashCompensator
<1>5. QED
  BY <1>1, <1>2, <1>3, <1>4 DEF Next, CrashServer, vars

(* Every step keeps the wake-up of a marked PENDING row. *)
LEMMA WakeNext == TypeInv /\ WakeInv /\ [Next]_vars => WakeInv'
<1> SUFFICES ASSUME TypeInv, WakeInv, [Next]_vars PROVE WakeInv'
  OBVIOUS
<1>0. UNCHANGED durable
  BY BrokerStays
<1>1. ASSUME NEW e \in Events, LeaseExpires(e) \/ LeaseExpiresEarly(e) PROVE WakeInv'
  <2>1. /\ row' = [row EXCEPT ![e] = [row[e] EXCEPT !.lease_until = "past"]]
        /\ UNCHANGED <<queue, worker, todo, marking>>
    BY <1>1 DEF LeaseExpires, LeaseExpiresEarly, Expire, Update
  <2>2. MarksKept
    BY <2>1 DEF MarksKept, TypeInv, TypeOK, Rows
  <2>3. WakeupsKept
    BY <2>1 DEF WakeupsKept, Awake
  <2>4. QED
    BY <2>1, <2>2, <2>3, <1>0, WakeKept
<1>2. ASSUME NEW e \in Events, DuplicateDelivery(e) PROVE WakeInv'
  <2>1. UNCHANGED <<row, worker, todo, marking>> /\ queue' = [queue EXCEPT ![e] = @ + 1]
    BY <1>2 DEF DuplicateDelivery, Enqueue, UNCHANGED_OTHERS
  <2>2. MarksKept /\ WakeupsKept
    BY <2>1 DEF MarksKept, WakeupsKept, Awake, TypeInv, TypeOK
  <2>3. QED
    BY <2>1, <2>2, <1>0, WakeKept
<1>3. ASSUME NEW w \in Workers, NEW e \in Events, Deliver(w, e) PROVE WakeInv'
  <2>1. /\ UNCHANGED <<row, todo, marking>>
        /\ worker[w].pc = "idle"
        /\ queue' = [queue EXCEPT ![e] = @ - 1]
        /\ worker' = [worker EXCEPT ![w] = [Idle EXCEPT !.pc = "claim", !.ev = e]]
    BY <1>3 DEF Deliver, UNCHANGED_OTHERS
  <2>2. worker'[w].pc = "claim" /\ worker'[w].ev = e
    BY <2>1 DEF Idle, TypeInv, TypeOK
  <2>3. Awake(e)'
    BY <2>2 DEF Awake
  <2>4. \A f \in Events \ {e} : Awake(f) => Awake(f)'
    BY <2>1 DEF Awake, TypeInv, TypeOK
  <2>5. MarksKept /\ WakeupsKept
    BY <2>1, <2>3, <2>4 DEF MarksKept, WakeupsKept
  <2>6. QED
    BY <2>1, <2>5, <1>0, WakeKept
<1>4. ASSUME NEW w \in Workers, WorkerStep(w) PROVE WakeInv'
  <2>1. ClaimEvent(w) \/ Active(w)
    BY <1>4 DEF WorkerStep, FinishExhaustedBeforeProvider, DeferForOpenCircuit, StartRequesting,
                Admissible, RenewBeforeSend, SendActionRequest, ProviderReturns, SettleSuccess,
                RetryOrFail, Active
  <2>2. MarksKept /\ WakeupsKept /\ UNCHANGED <<marking, todo>>
    BY <1>4, <2>1, WakeClaim, WakeWorker
  <2>3. QED
    BY <2>2, <1>0, WakeKept
<1>5. ASSUME NEW w \in Workers, CrashWorker(w) PROVE WakeInv'
  <2>1. /\ UNCHANGED <<row, todo, marking>>
        /\ worker' = [worker EXCEPT ![w] = Idle]
        /\ queue' = [queue EXCEPT ![worker[w].ev] = @ + 1]
        /\ worker[w].ev \in Events
    BY <1>5 DEF CrashWorker, Enqueue, UNCHANGED_OTHERS, TypeInv, TypeOK, WorkerShape, WorkerStates
  <2>2. queue'[worker[w].ev] > 0 /\ \A e \in Events : queue[e] > 0 => queue'[e] > 0
    BY <2>1 DEF TypeInv, TypeOK
  <2>3. \A v \in Workers \ {w} : worker'[v] = worker[v]
    BY <2>1 DEF TypeInv, TypeOK
  <2>4. MarksKept /\ WakeupsKept
    BY <2>1, <2>2, <2>3 DEF MarksKept, WakeupsKept, Awake
  <2>5. QED
    BY <2>1, <2>4, <1>0, WakeKept
<1>6. CASE CrashServer
  <2>1. /\ UNCHANGED row /\ ~durable
        /\ \A p \in Publishers : marking'[p] = NoEvent /\ todo'[p] = {}
    BY <1>6 DEF CrashServer
  <2>2. MarksKept /\ WakeupsKept
    BY <2>1 DEF MarksKept, WakeupsKept
  <2>3. QED
    BY <2>1, <2>2, <1>0, WakeKept
<1>7. CASE UNCHANGED vars
  BY <1>7 DEF vars, WakeInv, Awake
<1>8. QED
  BY <1>1, <1>2, <1>3, <1>4, <1>5, <1>6, <1>7, <1>0, WakeInsert, WakePublisher, WakeCompensator
  DEF Next

-----------------------------------------------------------------------------
(* The theorems *)

(* The inductive invariant, which relates rows, tokens, workers, messages  *)
(* and provider calls, holds in every state the delivery path reaches.     *)
THEOREM Invariance == Spec => [](TypeInv /\ SafetyInv)
<1>1. Init => TypeInv /\ SafetyInv
  BY TypeInvInit, CoreInit, WakeInit DEF SafetyInv
<1>2. TypeInv /\ SafetyInv /\ [Next]_vars => (TypeInv /\ SafetyInv)'
  BY TypeInvNext, CoreNext, WakeNext DEF SafetyInv
<1>3. QED
  BY <1>1, <1>2, PTL DEF Spec

(* However claims, crashes, lost leases, roll-backs and redeliveries       *)
(* interleave, no attempt number reaches the provider twice and none       *)
(* beyond max_attempts is used.                                            *)
THEOREM CallsWithinBudget == Spec => []ProviderCallBudget
<1>1. TypeInv /\ SafetyInv => ProviderCallBudget
  <2> SUFFICES ASSUME TypeInv, SafetyInv, NEW e \in Events, NEW n \in Attempts
               PROVE  /\ calls[e][n] <= 1
                      /\ MaxAttempts > 0 /\ n > MaxAttempts => calls[e][n] = 0
    BY DEF ProviderCallBudget
  <2>1. calls[e][n] \in Nat
    BY DEF TypeInv, TypeOK
  <2>2. /\ calls[e][n] <= 1
        /\ calls[e][n] > 0 /\ MaxAttempts > 0 => n <= MaxAttempts
    BY DEF SafetyInv, CoreInv, CallInv
  <2>3. QED
    BY <2>1, <2>2, AttemptsAssumption, SmallintAssumption DEF Attempts
<1>2. QED
  BY <1>1, Invariance, PTL

(* attempt_count covers every attempt number that reached the provider:    *)
(* the roll-backs of the repository never take back the number of a call   *)
(* that was made.                                                          *)
THEOREM CallsAreCovered == Spec => []AttemptCountCoversCalls
<1>1. SafetyInv => AttemptCountCoversCalls
  BY DEF SafetyInv, CoreInv, CallInv, AttemptCountCoversCalls
<1>2. QED
  BY <1>1, Invariance, PTL

(* A PENDING row that the pending scan will not publish again has a        *)
(* message on its way, with a memory broker and with an external one.      *)
THEOREM WakeupIsNeverLost == Spec => []NoLostWakeup
<1>1. SafetyInv => NoLostWakeup
  BY DEF SafetyInv, WakeInv, Awake, NoLostWakeup
<1>2. QED
  BY <1>1, Invariance, PTL

(* Every PROCESSING row has a deadline, and without a token it is one the  *)
(* lease scan and a delivery can both take on.                             *)
THEOREM RowsStayRecoverable == Spec => []AlwaysRecoverable
<1>1. SafetyInv => AlwaysRecoverable
  BY DEF SafetyInv, CoreInv, RowShape
<1>2. QED
  BY <1>1, Invariance, PTL

(* SUCCEEDED needs a confirmed provider call, FAILED a limit that has been *)
(* reached.                                                                *)
THEOREM OutcomesAreJustified == Spec => []OutcomeJustified
<1>1. SafetyInv => OutcomeJustified
  BY DEF SafetyInv, CoreInv, OutcomeInv
<1>2. QED
  BY <1>1, Invariance, PTL

(* Two workers are past Claim for one event only after the lease of one of *)
(* them ran out under it.                                                  *)
THEOREM ProcessingIsExclusive == Spec => []ExclusiveProcessing
<1>1. TypeInv /\ SafetyInv => ExclusiveProcessing
  <2> SUFFICES ASSUME TypeInv, SafetyInv, NEW e \in Events \ overrun,
                      NEW v \in Workers, NEW w \in Workers,
                      worker[v].ev = e, worker[v].pc # "claim",
                      worker[w].ev = e, worker[w].pc # "claim"
               PROVE  v = w
    BY DEF ExclusiveProcessing
  <2>1. Active(v) /\ Active(w)
    BY EventAssumption DEF Active, TypeInv, WorkerShape
  <2>2. worker[v].token = worker[w].token
    BY <2>1 DEF SafetyInv, CoreInv, ExclusiveInv
  <2>3. QED
    BY <2>1, <2>2 DEF SafetyInv, CoreInv, ClaimInv
<1>2. QED
  BY <1>1, Invariance, PTL
=============================================================================
