---------------------- MODULE NotificationServiceProofs ----------------------
(***************************************************************************)
(* Proofs about accepting notifications, for any set of clients, source    *)
(* requests, actions, payload values and requests, and any number of       *)
(* faults.                                                                 *)
(***************************************************************************)
EXTENDS NotificationService, TLAPS

(* An event that was not published yet has one caller who will. *)
WakeInv ==
  /\ PublishedOnceStored
  /\ \A c, d \in Clients : call[c].pc = "publish" /\ call[d].pc = "publish"
                             /\ call[c].id = call[d].id => c = d

AnswerInv == \A a \in answers : a.id \in RowsOf(a.key)

(* What the answer of a client says about the table. *)
VerdictInv(c) ==
  call[c].pc = "answered" /\ call[c].kind = "submit" =>
    /\ call[c].code \in Accepted \cup Conflicting => call[c].id \in Stored
    /\ call[c].code \in Accepted => SameContent(call[c].id, c)

(* A caller about to publish has its own row, stored by nobody else; an    *)
(* attempt that stored a row is not answered with a refusal.               *)
CallerInv(c) ==
  /\ call[c].pc = "publish" => /\ call[c].id \in RowsOf(call[c].cmd.key)
                               /\ SameContent(call[c].id, c)
                               /\ wakes[call[c].id] = 0
  /\ call[c].pc = "status" => call[c].kind = "status"
  /\ call[c].pc # "idle" /\ call[c].own =>
       \/ call[c].pc \in {"publish", "lost"}
       \/ call[c].pc = "answered" /\ call[c].code \in Accepted \cup TryLater
  /\ VerdictInv(c)

SubmitInv ==
  TypeOK /\ OneEventPerSourceRequest /\ WakeInv /\ AnswerInv /\ \A c \in Clients : CallerInv(c)

USE IdAssumption, FaultAssumption, Float64Assumption

-----------------------------------------------------------------------------
(* Types *)

LEMMA RowIsStored == \A r \in Rows : r # NoRow
  BY DEF Rows, NoRow

LEMMA CodeType ==
  ASSUME NEW p \in Protocols, NEW r \in Results
  PROVE  Code(p, r) \in Codes
  BY DEF Codes

LEMMA ResultType ==
  {"ErrInvalidRequest", "ErrUnsupportedProviderAction", "ErrInvalidPayload",
   "ErrSourceRequestConflict", "ErrNotFound", "ErrStorageUnavailable", "ErrInvalidToken",
   "ok"} = Results
  BY DEF Results, HttpStatus

LEMMA PayloadType ==
  ASSUME NEW p \in Payloads, NEW proto \in Protocols
  PROVE  /\ Received(proto, p) \in Payloads
         /\ Received(proto, p).value = IF proto = "mcp" THEN Float64[p.value] ELSE p.value
         /\ Jsonb(p) \in Payloads /\ Jsonb(p).value = p.value
  BY DEF Payloads, Received, Jsonb, Spellings

(* A call that has been received. *)
LEMMA ActiveCall ==
  ASSUME TypeOK, NEW c \in Clients, call[c].pc # "idle"
  PROVE  call[c] \in Calls
  BY DEF TypeOK, NoCall

LEMMA GotoType ==
  ASSUME TypeOK, NEW c \in Clients, call[c].pc # "idle", NEW pc \in PCs, Goto(c, pc)
  PROVE  call' \in [Clients -> Calls \cup {NoCall}]
  BY ActiveCall DEF TypeOK, Goto, Calls

LEMMA AnswerType ==
  ASSUME TypeOK, NEW c \in Clients, call[c].pc # "idle", NEW result \in Results,
         NEW i \in EventIds \cup {NoEvent}, Answer(c, result, i)
  PROVE  call' \in [Clients -> Calls \cup {NoCall}]
<1>1. call[c] \in Calls
  BY ActiveCall
<1>2. Code(call[c].proto, result) \in Codes
  BY <1>1, CodeType DEF Calls
<1> QED BY <1>1, <1>2 DEF TypeOK, Answer, Calls, PCs

LEMMA RowType ==
  ASSUME TypeOK, NEW c \in Clients, call[c].pc # "idle"
  PROVE  Row(c) \in Rows
<1>1. call[c] \in Calls
  BY ActiveCall
<1> QED BY <1>1, PayloadType DEF Row, Rows, Calls, Commands

LEMMA InsertType ==
  ASSUME TypeOK, NEW c \in Clients, call[c].pc # "idle", NEW i \in EventIds, Store(c, i)
  PROVE  table' \in [EventIds -> Rows \cup {NoRow}]
  BY RowType DEF TypeOK, Store

LEMMA ClientType ==
  ASSUME TypeOK, NEW c \in Clients, call[c].pc = "publish" => call[c].id \in EventIds,
         \/ Request(c) \/ Step(c) \/ Retry(c) \/ InsertCollides(c) \/ StorageFails(c)
         \/ AnswerLost(c)
  PROVE  TypeOK'
<1> USE DEF TypeOK
<1>1. CASE Request(c)
  <2>1. PICK r \in Requests :
          call' = [call EXCEPT ![c] =
                     [pc |-> "received", proto |-> r.proto, cmd |-> r.cmd, kind |-> r.kind,
                      id |-> NoEvent, own |-> FALSE, code |-> "none"]]
    BY <1>1 DEF Request
  <2>2. [pc |-> "received", proto |-> r.proto, cmd |-> r.cmd, kind |-> r.kind,
         id |-> NoEvent, own |-> FALSE, code |-> "none"] \in Calls
    BY RequestAssumption DEF Calls, PCs
  <2> QED BY <1>1, <2>1, <2>2 DEF Request
<1>2. CASE Retry(c)
  <2>1. call[c] \in Calls
    BY <1>2, ActiveCall DEF Retry
  <2> QED BY <1>2, <2>1 DEF Retry, Calls, PCs
<1>3. CASE Receive(c)
  <2>1. call[c].pc # "idle"
    BY <1>3 DEF Receive
  <2> DEFINE next == IF ~Authenticated(call[c].proto, call[c].cmd) THEN "ErrInvalidToken"
                     ELSE IF call[c].kind = "submit" THEN Submit(call[c].cmd)
                     ELSE IF call[c].cmd.flaw = "incomplete" THEN "ErrInvalidRequest"
                     ELSE "status"
  <2>2. next \in Results \cup {"resolve", "status"}
    BY ResultType DEF Submit
  <2>3. IF next \in Results THEN Answer(c, next, NoEvent) ELSE Goto(c, next)
    BY <1>3 DEF Receive
  <2>4. call' \in [Clients -> Calls \cup {NoCall}]
    BY <2>1, <2>2, <2>3, AnswerType, GotoType DEF PCs
  <2> QED BY <1>3, <2>4 DEF Receive
<1>4. CASE resolveExisting(c)
  <2>1. call[c].pc # "idle" /\ call[c] \in Calls
    BY <1>4, ActiveCall DEF resolveExisting
  <2>2. /\ call' \in [Clients -> Calls \cup {NoCall}]
        /\ answers' \subseteq [key : Keys, id : EventIds]
    <3>1. CASE Goto(c, "insert") /\ UNCHANGED answers
      BY <2>1, <3>1, GotoType DEF PCs
    <3>2. ASSUME NEW r \in Results, NEW i \in EventIds \cup {NoEvent}, Answer(c, r, i),
                 UNCHANGED answers
          PROVE  <2>2!1 /\ <2>2!2
      BY <2>1, <3>2, AnswerType
    <3>3. ASSUME NEW i \in EventIds, Accept(c, i) PROVE <2>2!1 /\ <2>2!2
      <4>1. call' \in [Clients -> Calls \cup {NoCall}]
        BY <2>1, <3>3, AnswerType, ResultType DEF Accept
      <4> QED BY <2>1, <3>3, <4>1 DEF Accept, Calls, Commands
    <3> QED BY <1>4, <3>1, <3>2, <3>3, ResultType DEF resolveExisting, RowsOf, Stored
  <2> QED BY <1>4, <2>2 DEF resolveExisting
<1>5. CASE Insert(c)
  <2>1. call[c].pc # "idle" /\ call[c] \in Calls
    BY <1>5, ActiveCall DEF Insert
  <2>2. CASE RowsOf(call[c].cmd.key) # {}
    BY <1>5, <2>1, <2>2, GotoType DEF Insert, PCs
  <2>3. CASE RowsOf(call[c].cmd.key) = {}
    <3>1. PICK i \in EventIds \ Stored :
            /\ Store(c, i)
            /\ call' = [call EXCEPT ![c].pc = "publish", ![c].id = i, ![c].own = TRUE]
      BY <1>5, <2>3 DEF Insert
    <3>2. call' \in [Clients -> Calls \cup {NoCall}]
      BY <2>1, <3>1 DEF Calls, PCs
    <3> QED BY <1>5, <2>1, <3>1, <3>2, InsertType DEF Insert
  <2> QED BY <2>2, <2>3
<1>6. CASE InsertRejected(c)
  BY <1>6, AnswerType, ResultType DEF InsertRejected
<1>7. CASE Publish(c)
  <2>1. call[c].pc # "idle" /\ call[c] \in Calls
    BY <1>7, ActiveCall DEF Publish
  <2>2. call[c].id \in EventIds
    BY <1>7 DEF Publish
  <2>3. call' \in [Clients -> Calls \cup {NoCall}]
    BY <1>7, <2>1, <2>2, AnswerType, ResultType DEF Publish, Accept
  <2>4. answers' \subseteq [key : Keys, id : EventIds]
    BY <1>7, <2>1, <2>2 DEF Publish, Accept, Calls, Commands
  <2> QED BY <1>7, <2>2, <2>3, <2>4 DEF Publish
<1>8. CASE GetStatus(c)
  BY <1>8, AnswerType, ResultType DEF GetStatus, RowsOf, Stored
<1>9. CASE InsertCollides(c)
  BY <1>9, GotoType DEF InsertCollides, PCs, Fault
<1>10. CASE AnswerLost(c)
  BY <1>10, GotoType DEF AnswerLost, PCs, Fault
<1>11. CASE StorageFails(c)
  <2>1. call[c].pc # "idle" /\ call[c] \in Calls
    BY <1>11, ActiveCall DEF StorageFails
  <2>2. faults' \in 0 .. MaxFaults
    BY <1>11 DEF StorageFails, Fault
  <2>3. CASE Answer(c, "ErrStorageUnavailable", NoEvent) /\ UNCHANGED table
    BY <1>11, <2>1, <2>2, <2>3, AnswerType, ResultType DEF StorageFails
  <2>4. ASSUME NEW i \in EventIds, Store(c, i),
               call' = [call EXCEPT ![c].pc = "answered", ![c].own = TRUE,
                          ![c].code = Code(call[c].proto, "ErrStorageUnavailable")]
        PROVE  TypeOK'
    <3>1. Code(call[c].proto, "ErrStorageUnavailable") \in Codes
      BY <2>1, CodeType, ResultType DEF Calls
    <3>2. call' \in [Clients -> Calls \cup {NoCall}]
      BY <2>1, <2>4, <3>1 DEF Calls, PCs
    <3> QED BY <1>11, <2>1, <2>2, <2>4, <3>2, InsertType DEF StorageFails
  <2> QED BY <1>11, <2>3, <2>4 DEF StorageFails
<1> QED BY <1>1, <1>2, <1>3, <1>4, <1>5, <1>6, <1>7, <1>8, <1>9, <1>10, <1>11 DEF Step

-----------------------------------------------------------------------------
(* Codes *)

LEMMA CodesApart ==
  ASSUME NEW p \in Protocols
  PROVE  /\ Accepted = {"2xx", "OK", "result"}
         /\ Code(p, "ok") \in Accepted
         /\ Code(p, "ErrSourceRequestConflict") \in Conflicting
         /\ Code(p, "ErrStorageUnavailable") \in TryLater
         /\ \A r \in {"ErrInvalidRequest", "ErrUnsupportedProviderAction",
                       "ErrInvalidPayload", "ErrInvalidToken", "ErrNotFound",
                       "ErrStorageUnavailable"} :
              Code(p, r) \notin Accepted \cup Conflicting
<1>1. \A r \in Results : /\ Code("rest", r) = HttpStatus[r]
                         /\ Code("grpc", r) = applicationError[r]
                         /\ Code("mcp", r) = toolError[r]
  BY DEF Code
<1>2. /\ Code("rest", "ok") = "2xx" /\ Code("grpc", "ok") = "OK"
      /\ Code("mcp", "ok") = "result"
  BY <1>1, ResultType DEF HttpStatus, applicationError, toolError
<1>3. Accepted = {"2xx", "OK", "result"}
  BY <1>2 DEF Accepted, Protocols
<1>4. CASE p = "rest"
  BY <1>1, <1>3, <1>4, ResultType DEF HttpStatus, Conflicting, TryLater
<1>5. CASE p = "grpc"
  BY <1>1, <1>3, <1>5, ResultType DEF applicationError, Conflicting, TryLater
<1>6. CASE p = "mcp"
  BY <1>1, <1>3, <1>6, ResultType DEF toolError, Conflicting, TryLater
<1> QED BY <1>4, <1>5, <1>6 DEF Protocols

-----------------------------------------------------------------------------
(* The table *)

(* Rows that are stored stay as they are. *)
Kept == \A i \in Stored : i \in Stored' /\ table'[i] = table[i]

LEMMA StoreKeeps ==
  ASSUME TypeOK, OneEventPerSourceRequest, NEW c \in Clients, call[c].pc # "idle",
         NEW i \in EventIds \ Stored, RowsOf(call[c].cmd.key) = {}, Store(c, i)
  PROVE  /\ OneEventPerSourceRequest' /\ Kept
         /\ i \in Stored' /\ table'[i] = Row(c)
<1>1. /\ table'[i] = Row(c) /\ Row(c) # NoRow
      /\ \A j \in EventIds \ {i} : table'[j] = table[j]
  BY RowType, RowIsStored DEF TypeOK, Store
<1>2. Stored' = Stored \cup {i} /\ Kept
  BY <1>1 DEF Stored, Kept
<1>3. \A j \in Stored : table[j].key # Row(c).key
  BY DEF RowsOf, Row
<1>4. OneEventPerSourceRequest'
  BY <1>1, <1>2, <1>3 DEF OneEventPerSourceRequest, Kept
<1> QED BY <1>1, <1>2, <1>4

LEMMA SameKeeps ==
  ASSUME OneEventPerSourceRequest, UNCHANGED table
  PROVE  OneEventPerSourceRequest' /\ Kept /\ Stored' = Stored
  BY DEF OneEventPerSourceRequest, Stored, Kept

LEMMA StepTable ==
  ASSUME TypeOK, OneEventPerSourceRequest, NEW c \in Clients,
         \/ Request(c) \/ Step(c) \/ Retry(c) \/ InsertCollides(c) \/ StorageFails(c)
         \/ AnswerLost(c)
  PROVE  OneEventPerSourceRequest' /\ Kept
<1>1. CASE UNCHANGED table BY <1>1, SameKeeps
<1>2. CASE Insert(c) \/ StorageFails(c)
  <2>1. \/ UNCHANGED table
        \/ /\ RowsOf(call[c].cmd.key) = {} /\ call[c].pc # "idle"
           /\ \E i \in EventIds \ Stored : Store(c, i)
    BY <1>2 DEF Insert, StorageFails
  <2> QED BY <1>1, <2>1, StoreKeeps
<1> QED BY <1>1, <1>2 DEF Request, Step, Retry, Receive, resolveExisting, InsertRejected,
                          Publish, GetStatus, InsertCollides, AnswerLost

(* Answers that were given stay true. *)
LEMMA RowsKept ==
  ASSUME Kept, NEW k, NEW i \in RowsOf(k)
  PROVE  i \in RowsOf(k)'
  BY DEF Kept, RowsOf

LEMMA SameRequestIsSameContent ==
  ASSUME TypeOK, OneEventPerSourceRequest, NEW c \in Clients, call[c].pc # "idle",
         NEW i \in Stored
  PROVE  SameRequest(i, c) => SameContent(i, c)
<1>1. call[c].proto \in Protocols /\ call[c].cmd.payload \in Payloads
  BY ActiveCall DEF Calls, Commands
<1>2. Received(call[c].proto, call[c].cmd.payload).value = ValueOf(c)
  BY <1>1, PayloadType DEF ValueOf
<1> QED BY <1>2 DEF SameRequest, SameContent, canonicalEqual

-----------------------------------------------------------------------------
(* Callers *)

LEMMA GotoFields ==
  ASSUME TypeOK, NEW c \in Clients, call[c].pc # "idle", NEW pc \in PCs, Goto(c, pc)
  PROVE  /\ call'[c].pc = pc
         /\ call'[c].kind = call[c].kind /\ call'[c].own = call[c].own
         /\ call'[c].cmd = call[c].cmd /\ call'[c].id = call[c].id
<1>1. call[c] \in Calls
  BY ActiveCall
<1> QED BY <1>1 DEF TypeOK, Goto, Calls

LEMMA AnswerFields ==
  ASSUME TypeOK, NEW c \in Clients, call[c].pc # "idle", NEW r, NEW i, Answer(c, r, i)
  PROVE  /\ call'[c].pc = "answered" /\ call'[c].id = i
         /\ call'[c].code = Code(call[c].proto, r)
         /\ call'[c].kind = call[c].kind /\ call'[c].own = call[c].own
         /\ call'[c].cmd = call[c].cmd /\ call'[c].proto = call[c].proto
<1>1. call[c] \in Calls
  BY ActiveCall
<1> QED BY <1>1 DEF TypeOK, Answer, Calls

LEMMA OtherCallers ==
  ASSUME TypeOK, NEW c \in Clients,
         \/ Request(c) \/ Step(c) \/ Retry(c) \/ InsertCollides(c) \/ StorageFails(c)
         \/ AnswerLost(c)
  PROVE  \A d \in Clients \ {c} : call'[d] = call[d]
<1>1. \A x : call' = [call EXCEPT ![c] = x] =>
               \A d \in Clients \ {c} : call'[d] = call[d]
  BY DEF TypeOK
<1>2. \E x : call' = [call EXCEPT ![c] = x]
  <2>1. CASE Request(c) \/ Retry(c)
    BY <2>1 DEF Request, Retry
  <2>2. CASE Step(c)
    BY <2>2 DEF Step, Receive, resolveExisting, Insert, InsertRejected, Publish, GetStatus,
                Goto, Answer, Accept
  <2>3. CASE InsertCollides(c) \/ StorageFails(c) \/ AnswerLost(c)
    BY <2>3 DEF InsertCollides, StorageFails, AnswerLost, Goto, Answer
  <2> QED BY <2>1, <2>2, <2>3
<1> QED BY <1>1, <1>2

(* What a client knows stays true while others work. *)
LEMMA CallerKept ==
  ASSUME TypeOK, NEW d \in Clients, CallerInv(d), Kept, call'[d] = call[d],
         call[d].pc = "publish" => wakes'[call[d].id] = wakes[call[d].id]
  PROVE  CallerInv(d)'
<1>1. CASE call[d].pc = "publish"
  <2>1. call[d].id \in RowsOf(call[d].cmd.key) /\ SameContent(call[d].id, d)
    BY <1>1 DEF CallerInv
  <2>2. call[d].id \in RowsOf(call[d].cmd.key)'
    BY <2>1, RowsKept
  <2>3. SameContent(call[d].id, d)'
    BY <2>1 DEF SameContent, ValueOf, RowsOf, Kept
  <2> QED BY <1>1, <2>2, <2>3 DEF CallerInv, VerdictInv
<1>2. CASE call[d].pc # "publish"
  <2>1. VerdictInv(d)'
    <3>1. CASE call[d].pc = "answered" /\ call[d].kind = "submit"
      <4>1. CASE call[d].code \in Accepted \cup Conflicting
        <5>1. call[d].id \in Stored' /\ table'[call[d].id] = table[call[d].id]
          BY <3>1, <4>1 DEF CallerInv, VerdictInv, Kept
        <5> QED BY <3>1, <4>1, <5>1 DEF CallerInv, VerdictInv, SameContent, ValueOf
      <4>2. CASE call[d].code \notin Accepted \cup Conflicting
        BY <4>2 DEF VerdictInv
      <4> QED BY <4>1, <4>2
    <3>2. CASE ~(call[d].pc = "answered" /\ call[d].kind = "submit")
      BY <3>2 DEF VerdictInv
    <3> QED BY <3>1, <3>2
  <2> QED BY <1>2, <2>1 DEF CallerInv
<1> QED BY <1>1, <1>2

(* A client that is answered. *)
LEMMA AnsweredCaller ==
  ASSUME TypeOK, NEW c \in Clients, CallerInv(c), Kept, call[c].pc # "idle",
         NEW r \in Results, NEW i, Answer(c, r, i),
         r \notin {"ok", "ErrStorageUnavailable"} => ~call[c].own,
         r = "ok" /\ call[c].kind = "submit" => i \in Stored /\ SameContent(i, c),
         r = "ErrSourceRequestConflict" => i \in Stored
  PROVE  CallerInv(c)'
<1>1. call[c] \in Calls /\ call[c].proto \in Protocols
  BY ActiveCall DEF Calls
<1>2. /\ call'[c].pc = "answered" /\ call'[c].id = i
      /\ call'[c].code = Code(call[c].proto, r)
      /\ call'[c].kind = call[c].kind /\ call'[c].own = call[c].own
      /\ call'[c].cmd = call[c].cmd /\ call'[c].proto = call[c].proto
  BY AnswerFields
<1>3. call'[c].own => call'[c].code \in Accepted \cup TryLater
  BY <1>1, <1>2, CodesApart
<1>4. VerdictInv(c)'
  <2>1. CASE call[c].kind # "submit"
    BY <1>2, <2>1 DEF VerdictInv
  <2>2. CASE call[c].kind = "submit" /\ r = "ok"
    <3>1. i \in Stored' /\ table'[i] = table[i]
      BY <2>2 DEF Kept
    <3>2. call'[c].code \notin Conflicting
      BY <1>1, <1>2, <2>2, CodesApart DEF Conflicting
    <3>3. SameContent(call[c].id, c)'
      BY <1>2, <2>2, <3>1 DEF SameContent, ValueOf
    <3> QED BY <1>2, <3>1, <3>2, <3>3 DEF VerdictInv
  <2>3. CASE r = "ErrSourceRequestConflict"
    <3>1. i \in Stored' /\ table'[i] = table[i]
      BY <2>3 DEF Kept
    <3>2. call'[c].code \notin Accepted
      BY <1>1, <1>2, <2>3, CodesApart DEF Conflicting
    <3> QED BY <1>2, <2>3, <3>1, <3>2 DEF VerdictInv
  <2>4. CASE r \notin {"ok", "ErrSourceRequestConflict"}
    <3>1. call'[c].code \notin Accepted \cup Conflicting
      BY <1>1, <1>2, <2>4, CodesApart, ResultType
    <3> QED BY <3>1 DEF VerdictInv
  <2> QED BY <2>1, <2>2, <2>3, <2>4
<1> QED BY <1>2, <1>3, <1>4 DEF CallerInv

(* A client that goes on to another step. *)
LEMMA MovedCaller ==
  ASSUME TypeOK, NEW c \in Clients, call[c].pc # "idle",
         NEW pc \in {"resolve", "insert", "resolve_again", "status", "lost"}, Goto(c, pc),
         pc # "lost" => ~call[c].own,
         pc = "status" => call[c].kind = "status"
  PROVE  CallerInv(c)'
<1>1. /\ call'[c].pc = pc
      /\ call'[c].kind = call[c].kind /\ call'[c].own = call[c].own
  BY GotoFields DEF PCs
<1> QED BY <1>1 DEF CallerInv, VerdictInv

(* Before the INSERT an attempt has stored nothing. *)
LEMMA NothingOwn ==
  ASSUME TypeOK, NEW c \in Clients, CallerInv(c),
         call[c].pc \in {"received", "resolve", "insert", "resolve_again", "status"}
  PROVE  call[c].pc # "idle" /\ ~call[c].own
  BY DEF CallerInv

LEMMA StoredCaller ==
  ASSUME TypeOK, NEW c \in Clients, CallerInv(c), call[c].pc = "insert",
         NEW i \in EventIds, i \in Stored', table'[i] = Row(c),
         wakes'[i] = 0,
         call' = [call EXCEPT ![c].pc = "publish", ![c].id = i, ![c].own = TRUE]
  PROVE  CallerInv(c)' /\ call'[c].pc = "publish" /\ call'[c].id = i
<1>1. call[c] \in Calls
  BY ActiveCall
<1>2. /\ call'[c].pc = "publish" /\ call'[c].id = i
      /\ call'[c].cmd = call[c].cmd /\ call'[c].proto = call[c].proto
  BY <1>1 DEF TypeOK, Calls
<1>3. i \in RowsOf(call[c].cmd.key)'
  BY <1>2 DEF RowsOf, Row
<1>4. Row(c).payload.value = ValueOf(c)
  BY <1>1, PayloadType DEF Row, ValueOf, Calls, Commands
<1>5. SameContent(call[c].id, c)'
  BY <1>2, <1>4 DEF SameContent, ValueOf, Row
<1> QED BY <1>2, <1>3, <1>5 DEF CallerInv, VerdictInv

(* The caller that takes a step. *)
LEMMA StepCaller ==
  ASSUME SubmitInv, NEW c \in Clients, Kept,
         \/ Request(c) \/ Step(c) \/ Retry(c) \/ InsertCollides(c) \/ StorageFails(c)
         \/ AnswerLost(c)
  PROVE  CallerInv(c)'
<1> USE DEF SubmitInv
<1>1. CASE Request(c)
  <2>1. call'[c].pc = "received" /\ call'[c].own = FALSE
    BY <1>1 DEF Request, TypeOK
  <2> QED BY <2>1 DEF CallerInv, VerdictInv
<1>2. CASE Retry(c)
  <2>1. call[c] \in Calls
    BY <1>2, ActiveCall DEF Retry
  <2>2. call'[c].pc = "received" /\ call'[c].own = FALSE
    BY <1>2, <2>1 DEF Retry, TypeOK, Calls
  <2> QED BY <2>2 DEF CallerInv, VerdictInv
<1>3. CASE Receive(c)
  <2>1. call[c].pc # "idle" /\ ~call[c].own /\ call[c] \in Calls
    BY <1>3, NothingOwn, ActiveCall DEF Receive
  <2> DEFINE next == IF ~Authenticated(call[c].proto, call[c].cmd) THEN "ErrInvalidToken"
                     ELSE IF call[c].kind = "submit" THEN Submit(call[c].cmd)
                     ELSE IF call[c].cmd.flaw = "incomplete" THEN "ErrInvalidRequest"
                     ELSE "status"
  <2>2. /\ next \in {"ErrInvalidRequest", "ErrUnsupportedProviderAction",
                      "ErrInvalidPayload", "ErrInvalidToken", "resolve", "status"}
        /\ next = "status" => call[c].kind = "status"
    BY <2>1 DEF Submit, Calls
  <2>3. IF next \in Results THEN Answer(c, next, NoEvent) ELSE Goto(c, next)
    BY <1>3 DEF Receive
  <2> HIDE DEF next
  <2>4. CASE next \in Results
    BY <2>1, <2>2, <2>3, <2>4, AnsweredCaller
  <2>5. CASE next \notin Results
    BY <2>1, <2>2, <2>3, <2>5, MovedCaller, ResultType
  <2> QED BY <2>4, <2>5
<1>4. CASE resolveExisting(c)
  <2>1. call[c].pc # "idle" /\ ~call[c].own
    BY <1>4, NothingOwn DEF resolveExisting
  <2>2. CASE Goto(c, "insert")
    BY <2>1, <2>2, MovedCaller
  <2>3. CASE Answer(c, "ErrStorageUnavailable", NoEvent)
    BY <2>1, <2>3, AnsweredCaller, ResultType
  <2>4. ASSUME NEW i \in Stored, SameRequest(i, c), Answer(c, "ok", i)
        PROVE  CallerInv(c)'
    <3>1. SameContent(i, c)
      BY <2>1, <2>4, SameRequestIsSameContent
    <3> QED BY <2>1, <2>4, <3>1, AnsweredCaller, ResultType
  <2>5. ASSUME NEW i \in Stored, ~SameRequest(i, c), Answer(c, "ErrSourceRequestConflict", i)
        PROVE  CallerInv(c)'
    BY <2>1, <2>5, AnsweredCaller, ResultType
  <2> QED BY <1>4, <2>2, <2>3, <2>4, <2>5 DEF resolveExisting, Accept, RowsOf
<1>5. CASE Insert(c)
  <2>1. call[c].pc = "insert" /\ call[c].pc # "idle" /\ ~call[c].own
    BY <1>5, NothingOwn DEF Insert
  <2>2. CASE RowsOf(call[c].cmd.key) # {}
    BY <1>5, <2>1, <2>2, MovedCaller DEF Insert
  <2>3. CASE RowsOf(call[c].cmd.key) = {}
    <3>1. PICK i \in EventIds \ Stored :
            /\ Store(c, i)
            /\ call' = [call EXCEPT ![c].pc = "publish", ![c].id = i, ![c].own = TRUE]
      BY <1>5, <2>3 DEF Insert
    <3>2. i \in Stored' /\ table'[i] = Row(c)
      BY <2>1, <2>3, <3>1, StoreKeeps
    <3>3. wakes[i] \in Nat /\ wakes[i] <= 1 /\ wakes[i] # 1
      BY <3>1 DEF WakeInv, PublishedOnceStored, TypeOK
    <3>4. wakes[i] = 0 /\ UNCHANGED wakes
      <4>1. wakes[i] = 0 BY <3>3
      <4> QED BY <1>5, <4>1 DEF Insert
    <3> QED BY <2>1, <3>1, <3>2, <3>4, StoredCaller
  <2> QED BY <2>2, <2>3
<1>6. CASE InsertRejected(c)
  BY <1>6, AnsweredCaller, ResultType DEF InsertRejected
<1>7. CASE Publish(c)
  <2>1. call[c].id \in Stored /\ SameContent(call[c].id, c)
    BY <1>7 DEF Publish, CallerInv, RowsOf
  <2> QED BY <1>7, <2>1, AnsweredCaller, ResultType DEF Publish, Accept
<1>8. CASE GetStatus(c)
  <2>1. call[c].pc # "idle" /\ ~call[c].own /\ call[c].kind = "status"
    BY <1>8, NothingOwn DEF GetStatus, CallerInv
  <2>2. CASE Answer(c, "ErrNotFound", NoEvent)
    BY <2>1, <2>2, AnsweredCaller, ResultType
  <2>3. ASSUME NEW i, Answer(c, "ok", i) PROVE CallerInv(c)'
    BY <2>1, <2>3, AnsweredCaller, ResultType
  <2> QED BY <1>8, <2>2, <2>3 DEF GetStatus
<1>9. CASE InsertCollides(c)
  BY <1>9, NothingOwn, MovedCaller DEF InsertCollides
<1>10. CASE AnswerLost(c)
  BY <1>10, MovedCaller DEF AnswerLost
<1>11. CASE StorageFails(c)
  <2>1. call[c].pc # "idle" /\ ~call[c].own /\ call[c] \in Calls
    BY <1>11, NothingOwn, ActiveCall DEF StorageFails
  <2>2. CASE Answer(c, "ErrStorageUnavailable", NoEvent)
    BY <2>1, <2>2, AnsweredCaller, ResultType
  <2>3. CASE call' = [call EXCEPT ![c].pc = "answered", ![c].own = TRUE,
                        ![c].code = Code(call[c].proto, "ErrStorageUnavailable")]
    <3>1. /\ call'[c].pc = "answered"
          /\ call'[c].code = Code(call[c].proto, "ErrStorageUnavailable")
      BY <2>1, <2>3 DEF TypeOK, Calls
    <3>2. call'[c].code \in TryLater /\ call'[c].code \notin Accepted \cup Conflicting
      BY <2>1, <3>1, CodesApart DEF Calls
    <3> QED BY <3>1, <3>2 DEF CallerInv, VerdictInv
  <2> QED BY <1>11, <2>2, <2>3 DEF StorageFails
<1> QED BY <1>1, <1>2, <1>3, <1>4, <1>5, <1>6, <1>7, <1>8, <1>9, <1>10, <1>11 DEF Step

-----------------------------------------------------------------------------
(* Wake-ups and answers *)

(* Only an INSERT that stored a row leads to a publish. *)
LEMMA NewPublisher ==
  ASSUME SubmitInv, NEW c \in Clients, call'[c].pc = "publish",
         \/ Request(c) \/ Step(c) \/ Retry(c) \/ InsertCollides(c) \/ StorageFails(c)
         \/ AnswerLost(c)
  PROVE  /\ call'[c].id \in EventIds \ Stored
         /\ UNCHANGED <<wakes, answers>>
<1> USE DEF SubmitInv
<1>1. ~(Request(c) \/ Retry(c))
  <2>1. CASE Request(c) BY <2>1 DEF Request, TypeOK
  <2>2. CASE Retry(c)
    BY <2>2, ActiveCall DEF Retry, TypeOK, Calls
  <2> QED BY <2>1, <2>2
<1>2. \A r, i : call[c].pc # "idle" => ~Answer(c, r, i)
  BY AnswerFields
<1>3. \A pc \in PCs : call[c].pc # "idle" /\ pc # "publish" => ~Goto(c, pc)
  BY GotoFields
<1>4. ~Receive(c)
  <2>1. SUFFICES ASSUME Receive(c) PROVE FALSE
    OBVIOUS
  <2> DEFINE next == IF ~Authenticated(call[c].proto, call[c].cmd) THEN "ErrInvalidToken"
                     ELSE IF call[c].kind = "submit" THEN Submit(call[c].cmd)
                     ELSE IF call[c].cmd.flaw = "incomplete" THEN "ErrInvalidRequest"
                     ELSE "status"
  <2>2. next \in Results \cup {"resolve", "status"}
    BY ResultType DEF Submit
  <2>3. call[c].pc # "idle" /\ IF next \in Results THEN Answer(c, next, NoEvent)
                               ELSE Goto(c, next)
    BY <2>1 DEF Receive
  <2> QED BY <1>2, <1>3, <2>2, <2>3 DEF PCs
<1>5. ~(resolveExisting(c) \/ InsertRejected(c) \/ Publish(c) \/ GetStatus(c))
  BY <1>2, <1>3 DEF resolveExisting, InsertRejected, Publish, GetStatus, Accept, PCs
<1>6. ~(InsertCollides(c) \/ AnswerLost(c))
  BY <1>2, <1>3 DEF InsertCollides, AnswerLost, PCs
<1>7. ~StorageFails(c)
  <2>1. SUFFICES ASSUME StorageFails(c) PROVE FALSE
    OBVIOUS
  <2>2. call[c].pc # "idle" /\ call[c] \in Calls
    BY <2>1, ActiveCall DEF StorageFails
  <2>3. call' = [call EXCEPT ![c].pc = "answered", ![c].own = TRUE,
                   ![c].code = Code(call[c].proto, "ErrStorageUnavailable")]
    BY <1>2, <2>1, <2>2 DEF StorageFails
  <2> QED BY <2>2, <2>3 DEF TypeOK, Calls
<1>8. Insert(c)
  BY <1>1, <1>4, <1>5, <1>6, <1>7 DEF Step
<1>9. call[c].pc # "idle" /\ call[c] \in Calls
  BY <1>8, ActiveCall DEF Insert
<1>10. RowsOf(call[c].cmd.key) = {}
  BY <1>3, <1>8, <1>9 DEF Insert, PCs
<1>11. PICK i \in EventIds \ Stored :
         call' = [call EXCEPT ![c].pc = "publish", ![c].id = i, ![c].own = TRUE]
  BY <1>8, <1>10 DEF Insert
<1>12. call'[c].id = i
  BY <1>9, <1>11 DEF TypeOK, Calls
<1> QED BY <1>8, <1>12 DEF Insert

LEMMA StepWakes ==
  ASSUME SubmitInv, NEW c \in Clients, Kept,
         \/ Request(c) \/ Step(c) \/ Retry(c) \/ InsertCollides(c) \/ StorageFails(c)
         \/ AnswerLost(c)
  PROVE  WakeInv'
<1> USE DEF SubmitInv
<1>1. PublishedOnceStored'
  <2>1. CASE UNCHANGED wakes
    BY <2>1 DEF WakeInv, PublishedOnceStored, Kept
  <2>2. CASE Publish(c)
    <3>1. call[c].id \in Stored /\ wakes[call[c].id] = 0
      BY <2>2 DEF Publish, CallerInv, RowsOf
    <3>2. wakes'[call[c].id] = 1 /\ \A i \in EventIds \ {call[c].id} : wakes'[i] = wakes[i]
      BY <2>2, <3>1 DEF Publish, TypeOK, Stored
    <3> QED BY <3>1, <3>2 DEF WakeInv, PublishedOnceStored, Kept
  <2> QED BY <2>1, <2>2 DEF Request, Step, Retry, Receive, resolveExisting, Insert,
             InsertRejected, GetStatus, InsertCollides, StorageFails, AnswerLost
<1>2. ASSUME NEW d \in Clients, NEW e \in Clients, call'[d].pc = "publish",
             call'[e].pc = "publish", call'[d].id = call'[e].id
      PROVE  d = e
  <2>1. \A b \in Clients \ {c} : call'[b] = call[b]
    BY OtherCallers
  <2>2. \A b \in Clients \ {c} : call'[b].pc = "publish" => call'[b].id \in Stored
    BY <2>1 DEF CallerInv, RowsOf
  <2>3. call'[c].pc = "publish" => call'[c].id \notin Stored
    BY NewPublisher
  <2> QED BY <1>2, <2>1, <2>2, <2>3 DEF WakeInv
<1> QED BY <1>1, <1>2 DEF WakeInv

LEMMA StepAnswers ==
  ASSUME SubmitInv, NEW c \in Clients, Kept,
         \/ Request(c) \/ Step(c) \/ Retry(c) \/ InsertCollides(c) \/ StorageFails(c)
         \/ AnswerLost(c)
  PROVE  AnswerInv'
<1>1. \/ UNCHANGED answers
      \/ \E i \in RowsOf(call[c].cmd.key) :
           answers' = answers \cup {[key |-> call[c].cmd.key, id |-> i]}
  <2>1. CASE Publish(c)
    BY <2>1 DEF Publish, Accept, SubmitInv, CallerInv
  <2>2. CASE resolveExisting(c)
    BY <2>2 DEF resolveExisting, Accept
  <2> QED BY <2>1, <2>2 DEF Request, Step, Retry, Receive, Insert,
             InsertRejected, GetStatus, InsertCollides, StorageFails, AnswerLost
<1>2. \A a \in answers : a.id \in RowsOf(a.key)'
  BY RowsKept DEF SubmitInv, AnswerInv
<1>3. CASE UNCHANGED answers
  BY <1>2, <1>3 DEF AnswerInv
<1>4. ASSUME NEW k, NEW i \in RowsOf(k), answers' = answers \cup {[key |-> k, id |-> i]}
      PROVE  AnswerInv'
  <2>1. i \in RowsOf(k)'
    BY RowsKept
  <2> QED BY <1>2, <1>4, <2>1 DEF AnswerInv
<1> QED BY <1>1, <1>3, <1>4

-----------------------------------------------------------------------------
(* A client's step, and the end of the process *)

LEMMA ClientKeeps ==
  ASSUME SubmitInv, NEW c \in Clients,
         \/ Request(c) \/ Step(c) \/ Retry(c) \/ InsertCollides(c) \/ StorageFails(c)
         \/ AnswerLost(c)
  PROVE  SubmitInv'
<1>1. TypeOK'
  <2>1. call[c].pc = "publish" => call[c].id \in EventIds
    BY DEF SubmitInv, CallerInv, RowsOf, Stored
  <2> QED BY <2>1, ClientType DEF SubmitInv
<1>2. OneEventPerSourceRequest' /\ Kept
  BY StepTable DEF SubmitInv
<1>3. WakeInv' /\ AnswerInv' /\ CallerInv(c)'
  BY <1>2, StepWakes, StepAnswers, StepCaller
<1>4. ASSUME NEW d \in Clients \ {c} PROVE CallerInv(d)'
  <2>1. call'[d] = call[d]
    BY OtherCallers DEF SubmitInv
  <2>2. call[d].pc = "publish" => wakes'[call[d].id] = wakes[call[d].id]
    <3>1. CASE UNCHANGED wakes BY <3>1
    <3>2. CASE Publish(c)
      <4>1. call[d].pc = "publish" => call[d].id # call[c].id
        BY <3>2 DEF SubmitInv, WakeInv, Publish
      <4>2. call[d].pc = "publish" => call[d].id \in EventIds
        BY DEF SubmitInv, CallerInv, RowsOf, Stored
      <4> QED BY <3>2, <4>1, <4>2 DEF Publish, SubmitInv, TypeOK
    <3> QED BY <3>1, <3>2 DEF Request, Step, Retry, Receive, resolveExisting, Insert,
               InsertRejected, GetStatus, InsertCollides, StorageFails, AnswerLost
  <2> QED BY <1>2, <2>1, <2>2, CallerKept DEF SubmitInv
<1> QED BY <1>1, <1>2, <1>3, <1>4 DEF SubmitInv

LEMMA RestartKeeps ==
  ASSUME SubmitInv, Restart
  PROVE  SubmitInv'
<1> USE DEF SubmitInv
<1>1. OneEventPerSourceRequest' /\ Kept /\ Stored' = Stored
  BY SameKeeps DEF Restart
<1>2. ASSUME NEW d \in Clients
      PROVE  /\ call'[d] \in Calls \cup {NoCall}
             /\ \/ call'[d] = call[d] /\ call[d].pc # "publish"
                \/ call'[d].pc = "lost"
  <2>1. CASE call[d].pc \in {"idle", "answered"}
    BY <2>1 DEF Restart, TypeOK
  <2>2. CASE call[d].pc \notin {"idle", "answered"}
    <3>1. call[d] \in Calls
      BY <2>2, ActiveCall
    <3>2. call'[d] = [call[d] EXCEPT !.pc = "lost"]
      BY <2>2 DEF Restart
    <3> QED BY <3>1, <3>2 DEF Calls, PCs
  <2> QED BY <2>1, <2>2
<1>3. TypeOK'
  <2>1. call' \in [Clients -> Calls \cup {NoCall}]
    BY <1>2 DEF Restart
  <2> QED BY <2>1 DEF Restart, TypeOK, Fault
<1>4. WakeInv'
  BY <1>1, <1>2 DEF Restart, WakeInv, PublishedOnceStored
<1>5. AnswerInv'
  BY <1>1, RowsKept DEF Restart, AnswerInv
<1>6. ASSUME NEW d \in Clients PROVE CallerInv(d)'
  <2>1. CASE call'[d] = call[d] /\ call[d].pc # "publish"
    BY <1>1, <2>1, CallerKept
  <2>2. CASE call'[d].pc = "lost"
    BY <2>2 DEF CallerInv, VerdictInv
  <2> QED BY <1>2, <2>1, <2>2
<1> QED BY <1>1, <1>3, <1>4, <1>5, <1>6

LEMMA InitInv == Init => SubmitInv
<1> SUFFICES ASSUME Init PROVE SubmitInv
  OBVIOUS
<1>1. Stored = {} /\ \A c \in Clients : call[c].pc = "idle"
  BY DEF Init, Stored, NoCall
<1>2. TypeOK
  BY DEF Init, TypeOK
<1> QED BY <1>1, <1>2 DEF Init, SubmitInv, OneEventPerSourceRequest, WakeInv,
           PublishedOnceStored, AnswerInv, CallerInv, VerdictInv

LEMMA NextInv == SubmitInv /\ [Next]_vars => SubmitInv'
<1> SUFFICES ASSUME SubmitInv, [Next]_vars PROVE SubmitInv'
  OBVIOUS
<1>1. CASE Next
  BY <1>1, ClientKeeps, RestartKeeps DEF Next
<1>2. CASE UNCHANGED vars
  <2>1. OneEventPerSourceRequest' /\ Kept
    BY <1>2, SameKeeps DEF SubmitInv, vars
  <2>2. \A c \in Clients : CallerInv(c)'
    BY <1>2, <2>1, CallerKept DEF SubmitInv, vars
  <2>3. TypeOK' /\ WakeInv' /\ AnswerInv'
    BY <1>2 DEF SubmitInv, TypeOK, WakeInv, PublishedOnceStored, AnswerInv, Stored, RowsOf,
                vars
  <2> QED BY <2>1, <2>2, <2>3 DEF SubmitInv
<1> QED BY <1>1, <1>2

LEMMA SubmitInvariance == Spec => []SubmitInv
  BY InitInv, NextInv, PTL DEF Spec

-----------------------------------------------------------------------------
(* Results *)

(* The requests, the table and the answers stay within their types. *)
THEOREM SubmitTypeCorrect == Spec => []TypeOK
<1>1. SubmitInv => TypeOK
  BY DEF SubmitInv
<1> QED BY <1>1, SubmitInvariance, PTL

(* However many requests race through Service.Submit with one source       *)
(* request, are lost, retried or cut off by a restart, the table holds at  *)
(* most one event for it.                                                  *)
THEOREM OneEventIsStored == Spec => []OneEventPerSourceRequest
<1>1. SubmitInv => OneEventPerSourceRequest
  BY DEF SubmitInv, OneEventPerSourceRequest
<1> QED BY <1>1, SubmitInvariance, PTL

(* Every acceptance Service.Submit ever gives for one source request names *)
(* the same stored event.                                                  *)
THEOREM AcceptancesAgree == Spec => []AnswersAgree
<1>1. SubmitInv => AnswersAgree
  BY DEF SubmitInv, OneEventPerSourceRequest, AnswerInv, AnswersAgree, RowsOf
<1> QED BY <1>1, SubmitInvariance, PTL

(* An attempt that is answered with a refusal or a conflict, in any of the *)
(* three protocols' codes, has stored nothing itself.                      *)
THEOREM RefusalsStoreNothing == Spec => []RefusedAttemptStoredNothing
<1>1. \A p : p \in Refused \cup Conflicting => p \notin {"2xx", "OK", "result"} \cup TryLater
  BY DEF Refused, Conflicting, TryLater
<1>2. Accepted = {"2xx", "OK", "result"}
  BY CodesApart DEF Protocols
<1>3. SubmitInv => RefusedAttemptStoredNothing
  BY <1>1, <1>2 DEF SubmitInv, CallerInv, RefusedAttemptStoredNothing
<1> QED BY <1>3, SubmitInvariance, PTL

(* resolveExisting and Insert accept a request only if the stored event    *)
(* has its action and its content; over MCP, what float64 leaves of it.    *)
THEOREM AcceptancesMatchContent == Spec => []AcceptedContentIsStored
<1>1. SubmitInv => AcceptedContentIsStored
  BY DEF SubmitInv, CallerInv, VerdictInv, AcceptedContentIsStored
<1> QED BY <1>1, SubmitInvariance, PTL

(* Service.Submit publishes an event at most once, after it was stored. *)
THEOREM DirectPublishOnce == Spec => []PublishedOnceStored
<1>1. SubmitInv => PublishedOnceStored
  BY DEF SubmitInv, WakeInv
<1> QED BY <1>1, SubmitInvariance, PTL
=============================================================================
