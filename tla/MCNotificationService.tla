------------------------ MODULE MCNotificationService ------------------------
EXTENDS NotificationService

(* "v1" stands for 2^53, "v2" for 10^21, which float64 prints with an      *)
(* exponent, and "v3" for 2^53 + 1, which float64 rounds to 2^53.          *)
MCFloat64 == [v \in Values |-> IF v = "v3" THEN "v1" ELSE v]

Sent(proto, key, action, value, form, flaw) ==
  [proto |-> proto, kind |-> "submit",
   cmd |-> [key |-> key, action |-> action,
            payload |-> [value |-> value, form |-> form], flaw |-> flaw]]

(* One source request in several spellings, values and protocols, with     *)
(* another action, a second source request, and each flaw once.            *)
MCRequests ==
  {Sent("rest", "k1", "a1", "v1", "integer", "none"),
   Sent("rest", "k1", "a1", "v1", "exponent", "none"),
   Sent("mcp",  "k1", "a1", "v3", "fraction", "none"),
   Sent("mcp",  "k1", "a1", "v2", "integer", "none"),
   Sent("mcp",  "k1", "a1", "v1", "integer", "incomplete"),
   Sent("grpc", "k1", "a2", "v1", "integer", "scheme"),
   Sent("grpc", "k2", "a1", "v2", "fraction", "token"),
   Sent("grpc", "k2", "a2", "v1", "integer", "payload"),
   Sent("grpc", "k2", "a1", "v1", "integer", "none"),
   Sent("rest", "k2", "a1", "v1", "integer", "unstorable")}
  \cup {[Sent("rest", "k1", "a1", "v1", "integer", "none") EXCEPT !.kind = "status"]}
=============================================================================
