----------------------------- MODULE DeliveryTypes ----------------------------
(* Type correctness of Delivery, for every value of its constants. *)
EXTENDS Delivery, TLAPS

-----------------------------------------------------------------------------
(* The statements of EventRepo map rows to rows. *)

(* The results the statements write are well formed. *)
LEMMA ResultTypes ==
  /\ \A p \in Phases : InPhase(p) \in LastResults
  /\ \A o \in Outcomes : \A class \in ErrorClasses : Finished(o, class) \in LastResults
  BY DEF LastResults, Phases, Outcomes, ErrorClasses, InPhase, Finished, NoResult

(* Every statement maps a row to a row. *)
LEMMA RowStatements ==
  ASSUME NEW r \in Rows
  PROVE  /\ Insert(r) \in Rows
         /\ MarkEnqueued(r) \in Rows
         /\ RenewLease(r) \in Rows
         /\ MarkRequesting(r) \in Rows
         /\ MarkSucceeded(r) \in Rows
         /\ MarkFailed(r) \in Rows
         /\ MarkFailedWithoutProviderAttempt(r) \in Rows
         /\ MarkWaitingForRequeue(r) \in Rows
         /\ MarkCircuitOpenWaitingForRequeue(r) \in Rows
         /\ ReserveExpiredRequeue(r) \in Rows
         /\ [r EXCEPT !.lease_until = "past"] \in Rows
         /\ \A class \in ErrorClasses : RecoverExpiredToRequeue(r, class) \in Rows
<1>1. /\ Insert(r) \in Rows
      /\ MarkEnqueued(r) \in Rows
  BY DEF Rows, Statuses, Insert, MarkEnqueued
<1>2. /\ RenewLease(r) \in Rows
      /\ ReserveExpiredRequeue(r) \in Rows
      /\ [r EXCEPT !.lease_until = "past"] \in Rows
  BY DEF Rows, Leases, RenewLease, ReserveExpiredRequeue
<1>3. MarkRequesting(r) \in Rows
  BY ResultTypes DEF Rows, Phases, MarkRequesting
<1>4. /\ MarkSucceeded(r) \in Rows
      /\ MarkFailed(r) \in Rows
  BY ResultTypes DEF Rows, Statuses, Leases, Outcomes, ErrorClasses,
                     MarkSucceeded, MarkFailed, Settle
<1>5. RollBackAttempt(r.attempt_count) \in 0 .. SmallintMax
  BY SmallintAssumption DEF Rows, RollBackAttempt
<1>6. MarkFailedWithoutProviderAttempt(r) \in Rows
  BY <1>4, <1>5 DEF Rows, MarkFailedWithoutProviderAttempt, MarkFailed, Settle
<1>7. \A class \in ErrorClasses : ReleaseToRequeue(r, class) \in Rows
  BY ResultTypes DEF Rows, Leases, Outcomes, ReleaseToRequeue
<1>8. MarkCircuitOpenWaitingForRequeue(r) \in Rows
  BY <1>5, <1>7 DEF Rows, ErrorClasses, MarkCircuitOpenWaitingForRequeue, ReleaseToRequeue
<1>9. MarkWaitingForRequeue(r) \in Rows
  BY <1>7 DEF ErrorClasses, MarkWaitingForRequeue
<1>10. QED
  BY <1>1, <1>2, <1>3, <1>4, <1>6, <1>7, <1>8, <1>9 DEF RecoverExpiredToRequeue

(* A claim that does not overflow the column maps a row to a row. *)
LEMMA ClaimStatement ==
  ASSUME NEW r \in Rows, NEW t \in Tokens, ~ClaimOverflows(r)
  PROVE  /\ Claim(r, t) \in Rows
         /\ r.attempt_count + 1 \in Attempts
<1>1. r.attempt_count + 1 \in 0 .. SmallintMax /\ r.attempt_count + 1 \in Attempts
  BY SmallintAssumption DEF ClaimOverflows, Attempts, Rows
<1>2. InPhase("CLAIMED") \in LastResults
  BY ResultTypes DEF Phases
<1>3. QED
  BY <1>1, <1>2 DEF Claim, Rows, Statuses, Leases

-----------------------------------------------------------------------------
(* The inductive invariant *)

(* Worker w has claimed an event and has not finished with it. *)
Active(w) == worker[w].pc \notin {"idle", "claim"}

(* A goroutine has an event from delivery on, a token and an attempt       *)
(* number from Claim on.                                                   *)
WorkerShape ==
  \A w \in Workers :
    /\ worker[w].pc = "idle" <=> worker[w].ev = NoEvent
    /\ Active(w) => worker[w].token \in Tokens /\ worker[w].attempt \in Attempts
    /\ ~Active(w) => worker[w].token = NoToken

TypeInv == TypeOK /\ WorkerShape

(* A goroutine without a message is well typed. *)
LEMMA IdleType ==
  /\ Idle \in WorkerStates
  /\ Idle.pc = "idle" /\ Idle.ev = NoEvent /\ Idle.token = NoToken
  BY SmallintAssumption DEF Idle, WorkerStates, PCs

(* So is a row that is not there. *)
LEMMA AbsentType == Absent \in Rows
  BY SmallintAssumption
  DEF Absent, Rows, Statuses, Leases, LastResults, Phases, Outcomes, ErrorClasses, NoResult

(* The first state is well typed. *)
LEMMA TypeInvInit == Init => TypeInv
<1> SUFFICES ASSUME Init PROVE TypeInv
  OBVIOUS
<1>1. row \in [Events -> Rows] /\ queue \in [Events -> Nat]
  BY AbsentType DEF Init
<1>2. worker \in [Workers -> WorkerStates] /\ WorkerShape
  BY IdleType DEF Init, WorkerShape, Active
<1>3. /\ todo \in [Publishers -> SUBSET Events]
      /\ marking \in [Publishers -> Events \cup {NoEvent}]
      /\ snapshot \in [Compensators -> SUBSET Snapshots]
  BY DEF Init
<1>4. /\ calls \in [Events -> [Attempts -> Nat]]
      /\ confirmed \in SUBSET Events
      /\ overrun \in SUBSET Events
      /\ faults \in 0 .. MaxFaults
      /\ durable \in BrokerKinds
  BY BoundAssumption DEF Init
<1>5. QED
  BY <1>1, <1>2, <1>3, <1>4 DEF TypeInv, TypeOK

(* What a worker may become: idle, or the same claim at another step. *)
LEMMA WorkerMoves ==
  ASSUME TypeInv, NEW w \in Workers, Active(w), NEW pc \in PCs \ {"idle", "claim"},
         \/ worker' = [worker EXCEPT ![w] = Idle]
         \/ worker' = [worker EXCEPT ![w].pc = pc]
  PROVE  worker' \in [Workers -> WorkerStates] /\ WorkerShape'
<1>1. CASE worker' = [worker EXCEPT ![w] = Idle]
  BY <1>1, IdleType DEF TypeInv, TypeOK, WorkerShape, Active
<1>2. CASE worker' = [worker EXCEPT ![w].pc = pc]
  <2>1. /\ worker' \in [Workers -> WorkerStates]
        /\ worker'[w].pc = pc
        /\ worker'[w].ev = worker[w].ev
        /\ worker'[w].token = worker[w].token
        /\ worker'[w].attempt = worker[w].attempt
        /\ \A v \in Workers \ {w} : worker'[v] = worker[v]
    BY <1>2 DEF TypeInv, TypeOK, WorkerStates
  <2>2. QED
    BY <2>1 DEF TypeInv, TypeOK, WorkerShape, Active
<1>3. QED
  BY <1>1, <1>2

(* A guarded statement of a worker keeps the types, whichever way its      *)
(* handler ends.                                                           *)
LEMMA TypeInvExec ==
  ASSUME TypeInv, NEW w \in Workers, Active(w), NEW new \in Rows,
         NEW pc \in PCs \ {"idle", "claim"},
         \/ Exec(w, new, Ack(w))
         \/ Exec(w, new, Requeue(w))
         \/ Exec(w, new, Goto(w, pc)),
         UNCHANGED_OTHERS
  PROVE  TypeInv'
<1>1. row' \in [Events -> Rows]
  BY DEF TypeInv, TypeOK, Exec, Update
<1>2. queue' \in [Events -> Nat]
  BY DEF TypeInv, TypeOK, Exec, Ack, Requeue, Goto, Enqueue
<1>3. faults' \in 0 .. MaxFaults
  BY BoundAssumption DEF TypeInv, TypeOK, Exec, Fault
<1>4. worker' = [worker EXCEPT ![w] = Idle] \/ worker' = [worker EXCEPT ![w].pc = pc]
  BY DEF Exec, Ack, Requeue, Goto
<1>5. worker' \in [Workers -> WorkerStates] /\ WorkerShape'
  BY <1>4, WorkerMoves
<1>6. QED
  BY <1>1, <1>2, <1>3, <1>5 DEF TypeInv, TypeOK, UNCHANGED_OTHERS

(* Every step keeps the types. *)
LEMMA TypeInvNext == TypeInv /\ [Next]_vars => TypeInv'
<1> SUFFICES ASSUME TypeInv, [Next]_vars PROVE TypeInv'
  OBVIOUS
<1>1. ASSUME NEW e \in Events, ApiInsert(e) PROVE TypeInv'
  <2>1. Insert(row[e]) \in Rows
    BY RowStatements DEF TypeInv, TypeOK
  <2>2. QED
    BY <1>1, <2>1 DEF ApiInsert, Update, TypeInv, TypeOK, WorkerShape, Active, Publishers
<1>2. ASSUME NEW e \in Events, Expire(e), overrun' \in {overrun, overrun \cup {e}},
             Fault \/ UNCHANGED faults
      PROVE  TypeInv'
  <2>1. [row[e] EXCEPT !.lease_until = "past"] \in Rows
    BY RowStatements DEF TypeInv, TypeOK
  <2>2. faults' \in 0 .. MaxFaults
    BY <1>2, BoundAssumption DEF Fault, TypeInv, TypeOK
  <2>3. row' \in [Events -> Rows]
    BY <1>2, <2>1 DEF Expire, Update, TypeInv, TypeOK
  <2>4. overrun' \in SUBSET Events
    BY <1>2 DEF TypeInv, TypeOK
  <2>5. WorkerShape' /\ UNCHANGED <<durable, queue, worker, todo, marking, snapshot, calls, confirmed>>
    BY <1>2 DEF Expire, TypeInv, WorkerShape, Active
  <2>6. QED
    BY <2>2, <2>3, <2>4, <2>5 DEF TypeInv, TypeOK
<1>3. ASSUME NEW e \in Events, DuplicateDelivery(e) PROVE TypeInv'
  <2>1. faults' \in 0 .. MaxFaults
    BY <1>3, BoundAssumption DEF DuplicateDelivery, Fault, TypeInv, TypeOK
  <2>2. queue' \in [Events -> Nat]
    BY <1>3 DEF DuplicateDelivery, Enqueue, TypeInv, TypeOK
  <2>3. /\ WorkerShape'
        /\ UNCHANGED <<durable, row, worker, todo, marking, snapshot, calls, confirmed, overrun>>
    BY <1>3 DEF DuplicateDelivery, UNCHANGED_OTHERS, TypeInv, WorkerShape, Active
  <2>4. QED
    BY <2>1, <2>2, <2>3 DEF TypeInv, TypeOK
<1>4. ASSUME NEW w \in Workers, NEW e \in Events, Deliver(w, e) PROVE TypeInv'
  <2> DEFINE s == [Idle EXCEPT !.pc = "claim", !.ev = e]
  <2>1. s \in WorkerStates /\ s.pc = "claim" /\ s.ev = e /\ s.token = NoToken
    BY IdleType DEF Idle, WorkerStates, PCs
  <2>2. worker' = [worker EXCEPT ![w] = s]
    BY <1>4 DEF Deliver
  <2>3. worker' \in [Workers -> WorkerStates] /\ WorkerShape'
    BY <2>1, <2>2, EventAssumption DEF TypeInv, TypeOK, WorkerShape, Active
  <2>4. queue' \in [Events -> Nat]
    BY <1>4 DEF Deliver, TypeInv, TypeOK
  <2>5. QED
    BY <1>4, <2>3, <2>4 DEF Deliver, UNCHANGED_OTHERS, TypeInv, TypeOK
<1>5. ASSUME NEW w \in Workers, ClaimEvent(w) PROVE TypeInv'
  <2>1. worker[w].ev \in Events /\ RowOf(w) \in Rows
    BY <1>5 DEF ClaimEvent, RowOf, TypeInv, TypeOK, WorkerShape, WorkerStates
  <2>2. ASSUME Requeue(w) \/ Ack(w), Fault \/ UNCHANGED faults, row' \in [Events -> Rows],
               UNCHANGED_OTHERS
        PROVE  TypeInv'
    <3>1. worker' = [worker EXCEPT ![w] = Idle] /\ queue' \in [Events -> Nat]
      BY <2>2 DEF Requeue, Ack, Enqueue, TypeInv, TypeOK
    <3>2. worker' \in [Workers -> WorkerStates] /\ WorkerShape'
      BY <3>1, IdleType DEF TypeInv, TypeOK, WorkerShape, Active
    <3>3. faults' \in 0 .. MaxFaults
      BY <2>2, BoundAssumption DEF Fault, TypeInv, TypeOK
    <3>4. QED
      BY <2>2, <3>1, <3>2, <3>3 DEF UNCHANGED_OTHERS, TypeInv, TypeOK
  <2>3. ASSUME NEW t \in Tokens, ~ClaimOverflows(RowOf(w)),
               Update(worker[w].ev, Claim(RowOf(w), t))
        PROVE  row' \in [Events -> Rows]
    BY <2>1, <2>3, ClaimStatement DEF Update, TypeInv, TypeOK
  <2>4. ASSUME NEW t \in Tokens, ~ClaimOverflows(RowOf(w)),
               Update(worker[w].ev, Claim(RowOf(w), t)),
               worker' = [worker EXCEPT ![w].pc = "process", ![w].token = t,
                                        ![w].attempt = RowOf(w).attempt_count + 1],
               UNCHANGED <<queue, faults>>, UNCHANGED_OTHERS
        PROVE  TypeInv'
    <3>1. RowOf(w).attempt_count + 1 \in Attempts /\ RowOf(w).attempt_count + 1 \in 0 .. SmallintMax
      BY <2>1, <2>4, ClaimStatement, SmallintAssumption DEF Attempts
    <3>2. /\ worker' \in [Workers -> WorkerStates]
          /\ worker'[w].pc = "process"
          /\ worker'[w].ev = worker[w].ev
          /\ worker'[w].token = t
          /\ worker'[w].attempt \in Attempts
          /\ \A v \in Workers \ {w} : worker'[v] = worker[v]
      BY <2>4, <3>1 DEF TypeInv, TypeOK, WorkerStates, PCs
    <3>3. WorkerShape'
      BY <3>2, <2>1, EventAssumption DEF TypeInv, TypeOK, WorkerShape, Active
    <3>4. QED
      BY <2>3, <2>4, <3>2, <3>3 DEF UNCHANGED_OTHERS, TypeInv, TypeOK
  <2>5. UNCHANGED row => row' \in [Events -> Rows]
    BY DEF TypeInv, TypeOK
  <2>6. QED
    BY <1>5, <2>2, <2>3, <2>4, <2>5 DEF ClaimEvent
<1>6. ASSUME NEW w \in Workers, \/ FinishExhaustedBeforeProvider(w)
                                \/ StartRequesting(w)
                                \/ RenewBeforeSend(w)
                                \/ SettleSuccess(w)
                                \/ RetryOrFail(w)
      PROVE  TypeInv'
  <2>1. Active(w) /\ worker[w].ev \in Events /\ RowOf(w) \in Rows
    BY <1>6 DEF FinishExhaustedBeforeProvider, StartRequesting, Admissible, RenewBeforeSend,
                SettleSuccess, RetryOrFail, Active, RowOf, TypeInv, TypeOK, WorkerShape,
                WorkerStates
  <2>2. PICK new \in Rows, pc \in PCs \ {"idle", "claim"} :
          /\ \/ Exec(w, new, Ack(w))
             \/ Exec(w, new, Requeue(w))
             \/ Exec(w, new, Goto(w, pc))
          /\ UNCHANGED_OTHERS
    <3>1. "renew" \in PCs \ {"idle", "claim"} /\ "send" \in PCs \ {"idle", "claim"}
      BY DEF PCs
    <3>2. QED
      BY <1>6, <2>1, <3>1, RowStatements
      DEF FinishExhaustedBeforeProvider, StartRequesting, RenewBeforeSend,
          SettleSuccess, RetryOrFail
  <2>3. QED
    BY <2>1, <2>2, TypeInvExec
<1>7. ASSUME NEW w \in Workers, DeferForOpenCircuit(w) PROVE TypeInv'
  <2>1. Active(w) /\ worker[w].ev \in Events /\ RowOf(w) \in Rows
    BY <1>7 DEF DeferForOpenCircuit, Admissible, Active, RowOf, TypeInv, TypeOK, WorkerShape,
                WorkerStates
  <2>2. row' \in [Events -> Rows]
    BY <1>7, <2>1, RowStatements DEF DeferForOpenCircuit, Update, TypeInv, TypeOK
  <2>3. worker' = [worker EXCEPT ![w] = Idle] /\ queue' \in [Events -> Nat]
    BY <1>7 DEF DeferForOpenCircuit, Ack, Requeue, Enqueue, TypeInv, TypeOK
  <2>4. "fail" \in PCs \ {"idle", "claim"}
    BY DEF PCs
  <2>5. worker' \in [Workers -> WorkerStates] /\ WorkerShape'
    BY <2>1, <2>3, <2>4, WorkerMoves
  <2>6. faults' \in 0 .. MaxFaults
    BY <1>7, BoundAssumption DEF DeferForOpenCircuit, Fault, TypeInv, TypeOK
  <2>7. QED
    BY <1>7, <2>2, <2>3, <2>5, <2>6 DEF DeferForOpenCircuit, UNCHANGED_OTHERS, TypeInv, TypeOK
<1>8. ASSUME NEW w \in Workers, SendActionRequest(w) \/ ProviderReturns(w) PROVE TypeInv'
  <2>1. Active(w) /\ worker[w].ev \in Events /\ worker[w].attempt \in Attempts
    BY <1>8 DEF SendActionRequest, ProviderReturns, Active, TypeInv, TypeOK, WorkerShape,
                WorkerStates
  <2>2. PICK pc \in PCs \ {"idle", "claim"} : worker' = [worker EXCEPT ![w].pc = pc]
    BY <1>8 DEF SendActionRequest, ProviderReturns, Goto, PCs
  <2>3. worker' \in [Workers -> WorkerStates] /\ WorkerShape'
    BY <2>1, <2>2, WorkerMoves
  <2>4. calls' \in [Events -> [Attempts -> Nat]]
    <3>1. calls[worker[w].ev][worker[w].attempt] + 1 \in Nat
      BY <2>1 DEF TypeInv, TypeOK
    <3>2. [calls[worker[w].ev] EXCEPT ![worker[w].attempt] = @ + 1] \in [Attempts -> Nat]
      BY <2>1, <3>1 DEF TypeInv, TypeOK
    <3>3. \/ UNCHANGED calls
          \/ calls' = [calls EXCEPT ![worker[w].ev] =
                                      [calls[worker[w].ev] EXCEPT ![worker[w].attempt] = @ + 1]]
      BY <1>8 DEF SendActionRequest, ProviderReturns
    <3>4. QED
      BY <2>1, <3>2, <3>3 DEF TypeInv, TypeOK
  <2>5. confirmed' \in SUBSET Events
    BY <1>8, <2>1 DEF SendActionRequest, ProviderReturns, TypeInv, TypeOK
  <2>6. QED
    BY <1>8, <2>3, <2>4, <2>5 DEF SendActionRequest, ProviderReturns, Goto, TypeInv, TypeOK
<1>9. ASSUME NEW w \in Workers, CrashWorker(w) PROVE TypeInv'
  <2>1. worker' \in [Workers -> WorkerStates] /\ WorkerShape'
    BY <1>9, IdleType DEF CrashWorker, TypeInv, TypeOK, WorkerShape, Active
  <2>2. faults' \in 0 .. MaxFaults
    BY <1>9, BoundAssumption DEF CrashWorker, Fault, TypeInv, TypeOK
  <2>3. queue' \in [Events -> Nat]
    <3>1. queue' = [queue EXCEPT ![worker[w].ev] = @ + 1]
      BY <1>9 DEF CrashWorker, Enqueue
    <3>2. worker[w].ev \in Events
      BY <1>9 DEF CrashWorker, TypeInv, TypeOK, WorkerShape, WorkerStates
    <3>3. queue[worker[w].ev] + 1 \in Nat
      BY <3>2 DEF TypeInv, TypeOK
    <3>4. QED
      BY <3>1, <3>2, <3>3 DEF TypeInv, TypeOK
  <2>4. QED
    BY <1>9, <2>1, <2>2, <2>3 DEF CrashWorker, Enqueue, UNCHANGED_OTHERS, TypeInv, TypeOK
<1>10. ASSUME NEW p \in Publishers, PublisherStep(p) PROVE TypeInv'
  <2>1. ASSUME NEW e \in Events, Publish(p, e) \/ PublishFails(p, e) PROVE TypeInv'
    <3>1. faults' \in 0 .. MaxFaults
      BY <2>1, BoundAssumption DEF Publish, PublishFails, Fault, TypeInv, TypeOK
    <3>2. todo' \in [Publishers -> SUBSET Events] /\ marking' \in [Publishers -> Events \cup {NoEvent}]
      BY <2>1 DEF Publish, PublishFails, Published, TypeInv, TypeOK
    <3>3. queue' \in [Events -> Nat]
      BY <2>1 DEF Publish, PublishFails, Enqueue, TypeInv, TypeOK
    <3>4. QED
      BY <2>1, <3>1, <3>2, <3>3 DEF Publish, PublishFails, TypeInv, TypeOK, WorkerShape, Active
  <2>2. CASE Mark(p)
    <3>1. marking[p] \in Events /\ MarkEnqueued(row[marking[p]]) \in Rows
      BY <2>2, RowStatements DEF Mark, TypeInv, TypeOK
    <3>2. QED
      BY <2>2, <3>1 DEF Mark, Update, TypeInv, TypeOK, WorkerShape, Active
  <2>3. CASE MarkFails(p)
    BY <2>3, BoundAssumption DEF MarkFails, Fault, TypeInv, TypeOK, WorkerShape, Active
  <2>4. QED
    BY <1>10, <2>1, <2>2, <2>3 DEF PublisherStep
<1>11. ASSUME NEW c \in Compensators, CompensatorStep(c) PROVE TypeInv'
  <2>1. CASE SelectPendingToPublish(c)
    BY <2>1 DEF SelectPendingToPublish, TypeInv, TypeOK, WorkerShape, Active
  <2>2. CASE SelectExpiredLeases(c)
    <3>1. \A e \in Events :
            [ev |-> e, token |-> row[e].lease_token, phase |-> row[e].last_result.phase,
             outcome |-> row[e].last_result.outcome] \in Snapshots
      BY DEF Snapshots, TypeInv, TypeOK, Rows, LastResults
    <3>2. snapshot' \in [Compensators -> SUBSET Snapshots]
      BY <2>2, <3>1 DEF SelectExpiredLeases, TypeInv, TypeOK
    <3>3. QED
      BY <2>2, <3>2 DEF SelectExpiredLeases, TypeInv, TypeOK, WorkerShape, Active
  <2>3. ASSUME NEW s \in snapshot[c], RecoverOne(c, s) PROVE TypeInv'
    <3>1. s.ev \in Events /\ row[s.ev] \in Rows
      BY DEF TypeInv, TypeOK, Snapshots
    <3>2. RecoveredRow(s) \in Rows
      BY <3>1, RowStatements DEF RecoveredRow, ErrorClasses
    <3>3. faults' \in 0 .. MaxFaults
      BY <2>3, BoundAssumption DEF RecoverOne, Fault, TypeInv, TypeOK
    <3>4. row' \in [Events -> Rows]
      BY <2>3, <3>1, <3>2 DEF RecoverOne, Update, TypeInv, TypeOK
    <3>5. todo' \in [Publishers -> SUBSET Events] /\ snapshot' \in [Compensators -> SUBSET Snapshots]
      BY <2>3, <3>1 DEF RecoverOne, TypeInv, TypeOK
    <3>6. QED
      BY <2>3, <3>3, <3>4, <3>5 DEF RecoverOne, TypeInv, TypeOK, WorkerShape, Active
  <2>4. CASE CrashCompensator(c)
    <3>1. faults' \in 0 .. MaxFaults
      BY <2>4, BoundAssumption DEF CrashCompensator, Fault, TypeInv, TypeOK
    <3>2. /\ todo' \in [Publishers -> SUBSET Events]
          /\ marking' \in [Publishers -> Events \cup {NoEvent}]
          /\ snapshot' \in [Compensators -> SUBSET Snapshots]
      BY <2>4 DEF CrashCompensator, TypeInv, TypeOK
    <3>3. QED
      BY <2>4, <3>1, <3>2 DEF CrashCompensator, TypeInv, TypeOK, WorkerShape, Active
  <2>5. QED
    BY <1>11, <2>1, <2>2, <2>3, <2>4 DEF CompensatorStep
<1>12. CASE CrashServer
  <2>1. worker' \in [Workers -> WorkerStates] /\ WorkerShape'
    BY <1>12, IdleType DEF CrashServer, WorkerShape, Active
  <2>2. QED
    BY <1>12, <2>1, BoundAssumption DEF CrashServer, Fault, TypeInv, TypeOK
<1>13. CASE UNCHANGED vars
  BY <1>13 DEF vars, TypeInv, TypeOK, WorkerShape, Active
<1>14. QED
  BY <1>1, <1>2, <1>3, <1>4, <1>5, <1>6, <1>7, <1>8, <1>9, <1>10, <1>11, <1>12, <1>13
  DEF Next, WorkerStep, LeaseExpires, LeaseExpiresEarly

(* Every variable keeps its type, a claimed worker its token and attempt. *)
THEOREM TypeCorrect == Spec => []TypeOK
<1>1. Spec => []TypeInv
  BY TypeInvInit, TypeInvNext, PTL DEF Spec
<1>2. TypeInv => TypeOK
  BY DEF TypeInv
<1>3. QED
  BY <1>1, <1>2, PTL
=============================================================================
