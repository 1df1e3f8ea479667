-------------------------- MODULE DeliveryRefinement --------------------------
(* What the delivery path promises, for every value of its constants: a    *)
(* final outcome stays, and every step is one the contract allows.         *)
EXTENDS DeliverySafety

-----------------------------------------------------------------------------
(* Final outcomes *)

(* Every row a step writes is not yet terminal, except for the mark of a   *)
(* publisher, which leaves a terminal row as it is.                        *)
LEMMA TerminalStep ==
  ASSUME TypeInv, [Next]_vars, NEW e \in Events, row[e].status \in Terminal
  PROVE  row'[e] = row[e]
<1>1. row[e].status \notin {"ABSENT", "PENDING", "PROCESSING"}
  BY DEF Terminal
<1>2. ASSUME NEW f \in Events, NEW new, row' = [row EXCEPT ![f] = new],
             row[f].status \in {"ABSENT", "PENDING", "PROCESSING"}
      PROVE  row'[e] = row[e]
  BY <1>1, <1>2 DEF TypeInv, TypeOK
<1>3. ASSUME NEW f \in Events, ApiInsert(f) \/ LeaseExpires(f) \/ LeaseExpiresEarly(f)
      PROVE  row'[e] = row[e]
  BY <1>2, <1>3 DEF ApiInsert, LeaseExpires, LeaseExpiresEarly, Expire, Update
<1>4. ASSUME NEW w \in Workers, NEW t \in Tokens, Claimed(w, t) PROVE row'[e] = row[e]
  BY <1>1, <1>4, ClaimFields DEF Claimed, Claimable, Waiting, RowOf
<1>5. ASSUME NEW w \in Workers, NEW pc \in PCs, Prepares(w, pc) PROVE row'[e] = row[e]
  BY <1>1, <1>5, PrepareFields DEF Held, Holds, RowOf
<1>6. ASSUME NEW w \in Workers, Releases(w) PROVE row'[e] = row[e]
  BY <1>1, <1>6, ReleaseFields DEF Held, Holds, RowOf
<1>7. ASSUME NEW f \in Events, Recovers(f) PROVE row'[e] = row[e]
  BY <1>1, <1>7, RecoverFields DEF Recovers
<1>8. ASSUME NEW p \in Publishers, PublisherStep(p) PROVE row'[e] = row[e]
  <2>1. UNCHANGED row \/ (marking[p] \in Events /\ Update(marking[p], MarkEnqueued(row[marking[p]])))
    BY <1>8 DEF PublisherStep, Publish, PublishFails, Mark, MarkFails, TypeInv, TypeOK
  <2>2. MarkEnqueued(row[e]) = row[e]
    BY <1>1 DEF MarkEnqueued
  <2>3. QED
    BY <2>1, <2>2 DEF Update, TypeInv, TypeOK
<1>9. ASSUME NEW c \in Compensators, CompensatorStep(c) PROVE row'[e] = row[e]
  <2>1. ASSUME NEW s \in snapshot[c], RecoverOne(c, s) PROVE row'[e] = row[e]
    <3>1. s.ev \in Events
      BY DEF TypeInv, TypeOK, Snapshots
    <3>2. UNCHANGED row \/ (RecoveryGuard(s) /\ row' = [row EXCEPT ![s.ev] = RecoveredRow(s)])
      BY <2>1 DEF RecoverOne, Update
    <3>3. RecoveryGuard(s) => row[s.ev].status = "PROCESSING"
      BY DEF RecoveryGuard, Reservable, Waiting, Recoverable, Holds
    <3>4. QED
      BY <1>2, <3>1, <3>2, <3>3
  <2>2. QED
    BY <1>9, <2>1 DEF CompensatorStep, SelectPendingToPublish, SelectExpiredLeases,
                      CrashCompensator
<1>10. ASSUME NEW w \in Workers, WorkerStep(w) PROVE row'[e] = row[e]
  <2>1. \/ UNCHANGED row
        \/ \E t \in Tokens : Claimed(w, t)
        \/ \E pc \in PCs : Prepares(w, pc)
        \/ Releases(w)
    BY <1>10, WorkerShapes DEF GivesUp, SendActionRequest, ProviderReturns
  <2>2. QED
    BY <2>1, <1>4, <1>5, <1>6
<1>11. QED
  BY <1>3, <1>8, <1>9, <1>10 DEF Next, DuplicateDelivery, Deliver, CrashWorker, CrashServer, vars

(* SUCCEEDED and FAILED are final: no late worker, duplicate message or    *)
(* stale compensator snapshot touches the row again.                       *)
THEOREM OutcomesAreFinal == Spec => TerminalIsFinal
<1>1. TypeInv /\ [Next]_vars =>
        [\A e \in Events : row[e].status \in Terminal => row'[e] = row[e]]_vars
  BY TerminalStep
<1>2. QED
  BY <1>1, TypeInvInit, TypeInvNext, PTL DEF Spec, TerminalIsFinal

-----------------------------------------------------------------------------
(* Refinement of DeliveryContract *)

(* The outcome a client sees depends on the status alone. *)
LEMMA OutcomeStatus ==
  /\ \A r, s : r.status = s.status => OutcomeOf(r) = OutcomeOf(s)
  /\ \A r : r.status = "ABSENT" => OutcomeOf(r) = "absent"
  /\ \A r : r.status \in {"PENDING", "PROCESSING"} => OutcomeOf(r) = "open"
  /\ \A r : r.status = "SUCCEEDED" => OutcomeOf(r) = "succeeded"
  /\ \A r : r.status = "FAILED" => OutcomeOf(r) = "failed"
  /\ \A r : r.status # "ABSENT" => OutcomeOf(r) # "absent"
  BY DEF OutcomeOf

Outcome == [e \in Events |-> OutcomeOf(row[e])]

(* The first state of the delivery path is one of the contract. *)
LEMMA ContractInit == Init => Contract!Init
<1> SUFFICES ASSUME Init PROVE Contract!Init
  OBVIOUS
<1>1. \A e \in Events : row[e].status = "ABSENT"
  BY DEF Init, Absent
<1>2. Outcome = [e \in Events |-> "absent"]
  BY <1>1, OutcomeStatus DEF Outcome
<1>3. QED
  BY <1>2 DEF Init, Contract!Init, Contract!Numbers, Attempts, Outcome

(* Every step of the delivery path is one the contract allows. *)
LEMMA ContractNext ==
  ASSUME TypeInv, SafetyInv, [Next]_vars
  PROVE  [Contract!Next]_(Contract!cvars)
<1>1. ASSUME UNCHANGED <<calls, confirmed>>,
             \A e \in Events : OutcomeOf(row[e])' = OutcomeOf(row[e])
      PROVE  UNCHANGED Contract!cvars
  BY <1>1 DEF Contract!cvars
<1>2. CASE Neutral
  <2>1. CASE \A e \in Events : row'[e].status = row[e].status
    BY <1>1, <1>2, <2>1, OutcomeStatus DEF Neutral, OutcomeOf
  <2>2. ASSUME NEW e \in Events, row[e].status = "ABSENT", row'[e].status = "PENDING",
               \A f \in Events \ {e} : row'[f].status = row[f].status
        PROVE  Contract!Accept(e)
    <3>1. Outcome[e] = "absent" /\ Outcome'[e] = "open"
      BY <2>2, OutcomeStatus DEF Outcome
    <3>2. \A f \in Events \ {e} : Outcome'[f] = Outcome[f]
      BY <2>2, OutcomeStatus DEF Outcome
    <3>3. Outcome' = [Outcome EXCEPT ![e] = "open"]
      BY <3>1, <3>2 DEF Outcome
    <3>4. QED
      BY <1>2, <3>1, <3>3 DEF Contract!Accept, Outcome, Neutral
  <2>3. QED
    BY <1>2, <2>1, <2>2 DEF Neutral, Contract!Next
<1>3. ASSUME UNCHANGED <<row, calls, confirmed>> PROVE UNCHANGED Contract!cvars
  BY <1>1, <1>3
<1>4. ASSUME NEW w \in Workers, NEW t \in Tokens, Claimed(w, t)
      PROVE  UNCHANGED Contract!cvars
  <2>1. row[worker[w].ev].status \in {"PENDING", "PROCESSING"} /\ UNCHANGED <<calls, confirmed>>
    BY <1>4 DEF Claimed, Claimable, Waiting, RowOf
  <2>2. /\ row'[worker[w].ev].status \in {"PENDING", "PROCESSING"}
        /\ \A e \in Events \ {worker[w].ev} : row'[e] = row[e]
    BY <1>4, ClaimFields
  <2>3. \A e \in Events : OutcomeOf(row'[e]) = OutcomeOf(row[e])
    BY <2>1, <2>2, OutcomeStatus
  <2>4. QED
    BY <1>1, <2>1, <2>3 DEF OutcomeOf
<1>5. ASSUME UNCHANGED <<calls, confirmed>>, \A e \in Events : row'[e].status = row[e].status
      PROVE  UNCHANGED Contract!cvars
  <2>1. \A e \in Events : OutcomeOf(row'[e]) = OutcomeOf(row[e])
    BY <1>5, OutcomeStatus
  <2>2. QED
    BY <1>1, <1>5, <2>1 DEF OutcomeOf
<1>6. ASSUME NEW w \in Workers, NEW pc \in PCs, Prepares(w, pc)
      PROVE  UNCHANGED Contract!cvars
  BY <1>5, <1>6, PrepareFields DEF Prepares
<1>7. ASSUME NEW e \in Events, Recovers(e) PROVE UNCHANGED Contract!cvars
  BY <1>5, <1>7, RecoverFields DEF Recovers
<1>8. ASSUME NEW w \in Workers, SendActionRequest(w) PROVE Contract!Next
  <2> DEFINE e == worker[w].ev
             n == worker[w].attempt
  <2>1. /\ Active(w) /\ e \in Events /\ n \in Attempts
        /\ worker[w].pc = "send" /\ UNCHANGED <<row, confirmed>>
        /\ calls' = [calls EXCEPT ![e] = [calls[e] EXCEPT ![n] = @ + 1]]
    BY <1>8, CallFields DEF SendActionRequest
  <2>2. calls[e][n] = 0 /\ (MaxAttempts > 0 => n <= MaxAttempts)
    BY <2>1 DEF SafetyInv, CoreInv, CallInv
  <2>3. Outcome[e] # "absent"
    BY <2>1, OutcomeStatus DEF Outcome, SafetyInv, CoreInv, RowShape
  <2>4. calls' = [calls EXCEPT ![e] = [calls[e] EXCEPT ![n] = 1]]
    <3>1. calls[e][n] + 1 = 1
      BY <2>2
    <3>2. QED
      BY <2>1, <3>1
  <2>5. Contract!Call(e, n)
    BY <2>1, <2>2, <2>3, <2>4 DEF Contract!Call, Outcome
  <2>6. QED
    BY <2>1, <2>5 DEF Contract!Next, Contract!Numbers, Attempts
<1>9. ASSUME NEW w \in Workers, ProviderReturns(w)
      PROVE  Contract!Next \/ UNCHANGED Contract!cvars
  <2>1. /\ worker[w].ev \in Events /\ worker[w].attempt \in Attempts
        /\ worker[w].pc = "calling" /\ UNCHANGED <<row, calls>>
        /\ confirmed' = confirmed \cup {worker[w].ev} \/ UNCHANGED confirmed
    BY <1>9, CallFields DEF ProviderReturns
  <2>2. calls[worker[w].ev][worker[w].attempt] = 1
    BY <2>1 DEF SafetyInv, CoreInv, CallInv
  <2>3. CASE UNCHANGED confirmed
    BY <1>3, <2>1, <2>3
  <2>4. CASE confirmed' = confirmed \cup {worker[w].ev}
    <3>1. Contract!Confirm(worker[w].ev)
      BY <2>1, <2>2, <2>4 DEF Contract!Confirm, Contract!Numbers, Attempts
    <3>2. QED
      BY <2>1, <3>1 DEF Contract!Next
  <2>5. QED
    BY <2>1, <2>3, <2>4
<1>10. ASSUME NEW w \in Workers, Releases(w)
       PROVE  Contract!Next \/ UNCHANGED Contract!cvars
  <2> DEFINE e == worker[w].ev
  <2>1. /\ e \in Events /\ UNCHANGED <<calls, confirmed>>
        /\ \A f \in Events \ {e} : row'[f] = row[f]
    BY <1>10, ReleaseFields
  <2>2. row[e].status = "PROCESSING"
    BY <1>10, ReleaseFields DEF Held, Holds, RowOf
  <2>3. \/ row'[e].status = "PROCESSING"
        \/ row'[e].status = "SUCCEEDED" /\ worker[w].pc = "succeed"
        \/ row'[e].status = "FAILED" /\ MaxAttempts > 0
    BY <1>10, ReleaseFields DEF LastAttempt, Exhausted
  <2>4. Outcome[e] = "open" /\ \A f \in Events \ {e} : Outcome'[f] = Outcome[f]
    BY <2>1, <2>2, OutcomeStatus DEF Outcome
  <2>5. CASE row'[e].status = "PROCESSING"
    BY <1>5, <2>1, <2>2, <2>5
  <2>6. CASE row'[e].status = "SUCCEEDED" /\ worker[w].pc = "succeed"
    <3>1. Outcome'[e] = "succeeded"
      BY <2>1, <2>6, OutcomeStatus DEF Outcome
    <3>2. Outcome' = [Outcome EXCEPT ![e] = "succeeded"]
      BY <2>4, <3>1 DEF Outcome
    <3>3. e \in confirmed
      BY <2>6 DEF SafetyInv, CoreInv, OutcomeInv
    <3>4. Contract!Succeed(e)
      BY <2>1, <2>4, <3>2, <3>3 DEF Contract!Succeed, Outcome
    <3>5. QED
      BY <2>1, <3>4 DEF Contract!Next
  <2>7. CASE row'[e].status = "FAILED" /\ MaxAttempts > 0
    <3>1. Outcome'[e] = "failed"
      BY <2>1, <2>7, OutcomeStatus DEF Outcome
    <3>2. Outcome' = [Outcome EXCEPT ![e] = "failed"]
      BY <2>4, <3>1 DEF Outcome
    <3>3. Contract!Fail(e)
      BY <2>1, <2>4, <2>7, <3>2 DEF Contract!Fail, Outcome
    <3>4. QED
      BY <2>1, <3>3 DEF Contract!Next
  <2>8. QED
    BY <2>3, <2>5, <2>6, <2>7
<1>11. ASSUME NEW w \in Workers, NEW e \in Events, Delivered(w, e)
       PROVE  UNCHANGED Contract!cvars
  BY <1>3, <1>11 DEF Delivered
<1>12. ASSUME NEW w \in Workers, GivesUp(w) PROVE UNCHANGED Contract!cvars
  BY <1>3, <1>12 DEF GivesUp
<1>13. CASE CrashServer
  BY <1>3, <1>13 DEF CrashServer
<1>14. Shape
  BY StepShape
<1>15. QED
  BY <1>2, <1>4, <1>6, <1>7, <1>8, <1>9, <1>10, <1>11, <1>12, <1>13, <1>14 DEF Shape

(* Rows, leases, brokers, workers and compensators together implement the  *)
(* contract a source system relies on.                                     *)
THEOREM Refinement == Spec => ImplementsContract
<1>1. TypeInv /\ SafetyInv /\ [Next]_vars => [Contract!Next]_(Contract!cvars)
  BY ContractNext
<1>2. QED
  BY <1>1, ContractInit, Invariance, PTL DEF Spec, ImplementsContract, Contract!Spec
=============================================================================
