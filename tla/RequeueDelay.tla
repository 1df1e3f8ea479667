----------------------------- MODULE RequeueDelay -----------------------------
(***************************************************************************)
(* internal/mq/mq.go: the delay every broker applies before a message is   *)
(* delivered again, in the arithmetic of time.Duration: a signed integer   *)
(* that wraps at Limit (2^63).                                             *)
(***************************************************************************)
EXTENDS Integers

CONSTANT Limit   \* one more than the largest time.Duration

Durations == -Limit .. Limit - 1

(* What a product is after it wrapped. *)
Wrapped(x) == ((x + Limit) % (2 * Limit)) - Limit

(* DefaultRequeueDelay > 0 and MaxRequeueDelay >= DefaultRequeueDelay. *)
validateRequeueConfig(defaultDelay, maxDelay) ==
  defaultDelay > 0 /\ maxDelay >= defaultDelay

(* Both branches of the code on a maximum of zero are kept, although no    *)
(* validated configuration has one.                                        *)
linearRequeueDelay(attempts, defaultDelay, maxDelay) ==
  LET n == IF attempts = 0 THEN 1 ELSE attempts
      delay == Wrapped(defaultDelay * n) IN
  IF defaultDelay <= 0 THEN 0
  ELSE IF maxDelay > 0 /\ n > maxDelay \div defaultDelay THEN maxDelay
  ELSE IF maxDelay > 0 /\ delay > maxDelay THEN maxDelay
  ELSE delay

=============================================================================
