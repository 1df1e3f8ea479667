--------------------------- MODULE DeliveryContract ---------------------------
(***************************************************************************)
(* What the delivery path promises a source system about an accepted       *)
(* event, without rows, leases, brokers or workers: at least once, within  *)
(* max_attempts provider calls, and a final outcome that means what it     *)
(* says.  A call may still be under way, or even start, when the outcome   *)
(* is already final: the service does not promise exactly-once.            *)
(***************************************************************************)
EXTENDS Integers

CONSTANTS Events, MaxAttempts, SmallintMax

VARIABLES
  outcome,     \* "absent", "open", "succeeded" or "failed"
  calls,       \* provider requests per event and attempt number
  confirmed    \* events some provider request of which succeeded

cvars == <<outcome, calls, confirmed>>

Numbers == 1 .. SmallintMax

Init ==
  /\ outcome = [e \in Events |-> "absent"]
  /\ calls = [e \in Events |-> [n \in Numbers |-> 0]]
  /\ confirmed = {}

Accept(e) ==
  /\ outcome[e] = "absent"
  /\ outcome' = [outcome EXCEPT ![e] = "open"]
  /\ UNCHANGED <<calls, confirmed>>

Call(e, n) ==
  /\ outcome[e] # "absent"
  /\ MaxAttempts > 0 => n <= MaxAttempts
  /\ calls[e][n] = 0
  /\ calls' = [calls EXCEPT ![e][n] = 1]
  /\ UNCHANGED <<outcome, confirmed>>

Confirm(e) ==
  /\ \E n \in Numbers : calls[e][n] = 1
  /\ confirmed' = confirmed \cup {e}
  /\ UNCHANGED <<outcome, calls>>

Succeed(e) ==
  /\ outcome[e] = "open"
  /\ e \in confirmed
  /\ outcome' = [outcome EXCEPT ![e] = "succeeded"]
  /\ UNCHANGED <<calls, confirmed>>

Fail(e) ==
  /\ outcome[e] = "open"
  /\ MaxAttempts > 0
  /\ outcome' = [outcome EXCEPT ![e] = "failed"]
  /\ UNCHANGED <<calls, confirmed>>

Next ==
  \E e \in Events :
    \/ Accept(e)
    \/ \E n \in Numbers : Call(e, n)
    \/ Confirm(e)
    \/ Succeed(e)
    \/ Fail(e)

Spec == Init /\ [][Next]_cvars
=============================================================================
