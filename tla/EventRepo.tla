------------------------------ MODULE EventRepo ------------------------------
(***************************************************************************)
(* The statements of internal/store/event_repo.go on one row of            *)
(* notification_event.  A statement is one atomic UPDATE ... WHERE of      *)
(* PostgreSQL, so it is an operator from a row to a row together with the  *)
(* WHERE clause that guards it; a guard that fails is "zero rows           *)
(* affected", which the repository reports as ErrNotClaimed.               *)
(*                                                                         *)
(* Time is abstracted to what the guards tell apart.  lease_until is NULL, *)
(* in the future or in the past.  next_attempt_at is set to now() by the   *)
(* INSERT and never again, on the clock the guards read, so a PENDING row  *)
(* is always due and the column is not kept.  Payload, provider response   *)
(* and timestamps are not read by any guard and are left out.              *)
(***************************************************************************)
EXTENDS Integers

CONSTANTS
  Tokens,        \* lease tokens (uuid.New in HandleDelivery)
  NoToken,       \* lease_token IS NULL
  SmallintMax    \* largest attempt_count the SMALLINT column holds

ASSUME TokenAssumption == NoToken \notin Tokens
ASSUME SmallintAssumption == SmallintMax \in Nat \ {0}

Statuses == {"ABSENT", "PENDING", "PROCESSING", "SUCCEEDED", "FAILED"}
Terminal == {"SUCCEEDED", "FAILED"}
Leases   == {"null", "future", "past"}
Phases   == {"", "CLAIMED", "REQUESTING"}
Outcomes == {"", "REQUEUE_REQUESTED", "SUCCEEDED", "FAILED"}

(* error_class of a finished attempt.  The classes adapters produce, and   *)
(* UNSUPPORTED_PROVIDER_ACTION, are one value: nothing in the delivery     *)
(* path distinguishes them.  request_may_have_been_sent is true exactly in *)
(* class WORKER_LEASE_EXPIRED_DURING_REQUEST.                              *)
ErrorClasses == {"", "PROVIDER", "CIRCUIT_OPEN", "EXHAUSTED",
                 "WORKER_LEASE_EXPIRED", "WORKER_LEASE_EXPIRED_DURING_REQUEST"}

LastResults == [phase : Phases, outcome : Outcomes, error_class : ErrorClasses]

Rows == [status        : Statuses,
         attempt_count : 0 .. SmallintMax,
         enqueued_at   : BOOLEAN,            \* IS NOT NULL
         lease_token   : Tokens \cup {NoToken},
         lease_until   : Leases,
         last_result   : LastResults]

NoResult == [phase |-> "", outcome |-> "", error_class |-> ""]
InPhase(p) == [NoResult EXCEPT !.phase = p]
Finished(o, class) == [phase |-> "", outcome |-> o, error_class |-> class]

(* No row with this id. *)
Absent == [status |-> "ABSENT", attempt_count |-> 0, enqueued_at |-> FALSE,
           lease_token |-> NoToken, lease_until |-> "null",
           last_result |-> NoResult]

-----------------------------------------------------------------------------
(* Publishing *)

Insert(r) == [r EXCEPT !.status = "PENDING"]

SelectedToPublish(r) == r.status = "PENDING" /\ ~r.enqueued_at

(* Mutant: the status = 'PENDING' guard is missing. *)
MarkEnqueued_Unguarded(r) == [r EXCEPT !.enqueued_at = TRUE]

MarkEnqueued(r) == IF r.status = "PENDING"
                     THEN [r EXCEPT !.enqueued_at = TRUE]
                     ELSE r

-----------------------------------------------------------------------------
(* Claiming.  The increment is evaluated only for a row the WHERE clause   *)
(* selects; past the SMALLINT range the statement is an error and the row  *)
(* is left alone.                                                          *)

(* Mutant: Claim resumes any PROCESSING row, leased or not. *)
Waiting_LeaseIgnored(r) == r.status = "PROCESSING"

Waiting(r) == /\ r.status = "PROCESSING"
              /\ r.lease_token = NoToken
              /\ r.last_result.outcome = "REQUEUE_REQUESTED"

Claimable(r) == r.status = "PENDING" \/ Waiting(r)

ClaimOverflows(r) == r.attempt_count = SmallintMax

Claim(r, token) ==
  [r EXCEPT !.status        = "PROCESSING",
            !.attempt_count = @ + 1,
            !.lease_token   = token,
            !.lease_until   = "future",
            !.last_result   = InPhase("CLAIMED")]

-----------------------------------------------------------------------------
(* Statements of the worker that holds the lease *)

Holds(r, token) == r.status = "PROCESSING" /\ r.lease_token = token

RenewLease(r) == [r EXCEPT !.lease_until = "future"]

MarkRequesting(r) == [r EXCEPT !.last_result = InPhase("REQUESTING")]

Settle(r, status, result) ==
  [r EXCEPT !.status      = status,
            !.lease_token = NoToken,
            !.lease_until = "null",
            !.last_result = result]

MarkSucceeded(r) == Settle(r, "SUCCEEDED", Finished("SUCCEEDED", ""))

MarkFailed(r) == Settle(r, "FAILED", Finished("FAILED", "EXHAUSTED"))

(* Mutant: the claim is taken back twice. *)
RollBackAttempt_Twice(n) == IF n > 1 THEN n - 2 ELSE 0

(* Mutant: the claim is taken back twice, without the GREATEST. *)
RollBackAttempt_BelowZero(n) == n - 2

RollBackAttempt(n) == IF n > 0 THEN n - 1 ELSE 0

MarkFailedWithoutProviderAttempt(r) ==
  [MarkFailed(r) EXCEPT !.attempt_count = RollBackAttempt(@)]

(* Mutant: the recovery deadline is cleared along with the token. *)
ReleaseToRequeue_NoDeadline(r, class) ==
  [r EXCEPT !.lease_token = NoToken,
            !.lease_until = "null",
            !.last_result = Finished("REQUEUE_REQUESTED", class)]

(* The row stays PROCESSING without a token: the broker owns the wake-up.  *)
ReleaseToRequeue(r, class) ==
  [r EXCEPT !.lease_token = NoToken,
            !.lease_until = "future",
            !.last_result = Finished("REQUEUE_REQUESTED", class)]

(* Mutant: a failed provider call is rolled back like a deferral. *)
MarkWaitingForRequeue_RollsBack(r) ==
  [ReleaseToRequeue(r, "PROVIDER") EXCEPT !.attempt_count = RollBackAttempt(@)]

MarkWaitingForRequeue(r) == ReleaseToRequeue(r, "PROVIDER")

MarkCircuitOpenWaitingForRequeue(r) ==
  [ReleaseToRequeue(r, "CIRCUIT_OPEN")
     EXCEPT !.attempt_count = RollBackAttempt(@)]

-----------------------------------------------------------------------------
(* Statements of the compensator's lease scan *)

(* Mutant: the scan selects only abandoned waits, not worker leases. *)
Expired_WaitsOnly(r) == Waiting(r) /\ r.lease_until = "past"

Expired(r) == r.status = "PROCESSING" /\ r.lease_until = "past"

Reservable(r) == Waiting(r) /\ r.lease_until = "past"

ReserveExpiredRequeue(r) == [r EXCEPT !.lease_until = "future"]

Recoverable(r, token) == Holds(r, token) /\ r.lease_until = "past"

RecoverExpiredToRequeue(r, class) == ReleaseToRequeue(r, class)
=============================================================================
