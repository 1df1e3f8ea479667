--------------------------- MODULE MCActionBreaker ---------------------------
(* A finite instance of ActionBreaker for TLC. *)
EXTENDS ActionBreaker, TLC
=============================================================================
