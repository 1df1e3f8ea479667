----------------------------- MODULE MessageQueue -----------------------------
(***************************************************************************)
(* What Publish with {Durable: true} and Consumer.Start promise the rest   *)
(* of the system, without channels, deliveries, delays or replacements: an *)
(* event that reached the queue stays until a handler has returned nil for *)
(* it, only such events are handled, and only one that was handled before  *)
(* can come back without another publish.                                  *)
(***************************************************************************)
CONSTANT Events

VARIABLES
  sent,   \* events that reached the queue
  kept,   \* events the queue will deliver unless they are handled first
  done    \* events a handler returned nil for

qvars == <<sent, kept, done>>

Init == sent = {} /\ kept = {} /\ done = {}

Publish(e) ==
  /\ sent' = sent \cup {e} /\ kept' = kept \cup {e}
  /\ UNCHANGED done

(* Another copy may be left, or may have been there already. *)
Handle(e) ==
  /\ e \in sent
  /\ done' = done \cup {e} /\ kept' \in {kept, kept \ {e}}
  /\ UNCHANGED sent

(* Acknowledgements that a lost channel took along. *)
Redeliver(S) ==
  /\ kept' = kept \cup S
  /\ UNCHANGED <<sent, done>>

Next == \/ \E e \in Events : Publish(e) \/ Handle(e)
        \/ \E S \in SUBSET done : Redeliver(S)

Spec == Init /\ [][Next]_qvars
=============================================================================
