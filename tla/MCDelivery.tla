------------------------------ MODULE MCDelivery ------------------------------
(* Finite instances of Delivery for TLC. *)
EXTENDS DeliveryRefinement

(* Tokens are only compared for equality, so it is enough to let every     *)
(* claim take one particular fresh token: a symmetry reduction that        *)
(* temporal properties allow.                                              *)
TokenChoice ==
  \A e \in Events : \A t \in Tokens :
    row'[e].lease_token = t /\ row[e].lease_token # t
      => t = CHOOSE u \in Tokens : Fresh(u)
=============================================================================
