-------------------------- MODULE NotificationService --------------------------
(***************************************************************************)
(* Accepting a notification: REST, gRPC and MCP requests that reach        *)
(* notification.Service (internal/application/notification), the provider  *)
(* registry it consults, and the unique key of the table that decides      *)
(* between requests racing with the same source request.                   *)
(*                                                                         *)
(* A client is one request at a time.  A step is one statement or broker   *)
(* call with the local code around it, so any number of requests           *)
(* interleave between the look-up and the INSERT.  A client whose request  *)
(* was lost or answered "unavailable" sends the same request again.        *)
(***************************************************************************)
EXTENDS Naturals, FiniteSets

CONSTANTS
  Clients,       \* concurrent callers
  EventIds,      \* values uuid.New may return
  NoEvent,
  Keys,          \* (source_system, source_request_id) pairs
  Actions,       \* (provider_code, provider_action) pairs some adapter serves
  Values,        \* what a payload says
  LargeValues,   \* payloads with a number float64 prints with an exponent
  Float64,       \* what float64 leaves of a payload: integers above 2^53 change
  Requests,      \* what clients may send: protocol, operation and command
  MaxFaults      \* bound: faults of the environment in one behaviour

ASSUME IdAssumption == NoEvent \notin EventIds
ASSUME LargeAssumption == LargeValues \subseteq Values
ASSUME Float64Assumption == Float64 \in [Values -> Values]
ASSUME FaultAssumption == MaxFaults \in Nat

VARIABLES
  table,     \* notification_event: the row of every event id
  call,      \* the request each client has under way, or its last answer
  registry,  \* actions the server process resolved at start-up
  answers,   \* every acceptance a client has received
  wakes,     \* calls of PublishAndMark per event
  faults

vars == <<table, call, registry, answers, wakes, faults>>

-----------------------------------------------------------------------------
(* Payloads.  A payload says a value and spells its numbers in some form:  *)
(* 100, 1e2 or 100.0.                                                      *)

Spellings == {"integer", "exponent", "fraction"}
Payloads == [value : Values, form : Spellings]

(* PostgreSQL's jsonb writes a number out in full and keeps the zeros of a *)
(* fraction.                                                               *)
Jsonb(p) == [p EXCEPT !.form = IF @ = "exponent" THEN "integer" ELSE @]

(* The MCP tool decodes the payload into map[string]any and encodes it     *)
(* again: numbers pass through float64, which rounds what it cannot hold   *)
(* and spells the rest its own way.  REST and gRPC keep the bytes.         *)
Received(proto, p) ==
  IF proto # "mcp" THEN p
  ELSE [value |-> Float64[p.value],
        form  |-> IF Float64[p.value] \in LargeValues THEN "exponent" ELSE "integer"]

(* Mutant: only the shape of the payloads is compared. *)
canonicalEqual_ByShape(a, b) == a.form = b.form

(* UseNumber keeps the text of every number, so only equal text is equal. *)
canonicalEqual(a, b) == a = b

-----------------------------------------------------------------------------
(* Requests *)

Protocols == {"rest", "grpc", "mcp"}
Flaws == {"none", "scheme", "token", "incomplete", "payload", "unstorable"}
Commands == [key : Keys, action : Actions, payload : Payloads, flaw : Flaws]

ASSUME RequestAssumption ==
  Requests \subseteq [proto : Protocols, kind : {"submit", "status"}, cmd : Commands]

PCs == {"idle", "received", "resolve", "insert", "resolve_again", "publish",
        "status", "answered", "lost"}

NoRow == [key |-> "none"]
Rows == [key : Keys, action : Actions, payload : Payloads, sent : Payloads,
         proto : Protocols]

Stored == {i \in EventIds : table[i] # NoRow}
RowsOf(k) == {i \in Stored : table[i].key = k}

(* api/handlers.go, api/middleware.go, grpcapi/notification.go and         *)
(* mcpapi/tools.go: how each protocol reports what the service returned.   *)
HttpStatus ==
  [ErrInvalidRequest |-> "400", ErrUnsupportedProviderAction |-> "422",
   ErrInvalidPayload |-> "422", ErrSourceRequestConflict |-> "409",
   ErrNotFound |-> "404", ErrStorageUnavailable |-> "503",
   ErrInvalidToken |-> "401", ok |-> "2xx"]

(* Mutant: an unmapped storage error falls through to a refusal. *)
applicationError_Unmapped ==
  [ErrInvalidRequest |-> "InvalidArgument",
   ErrUnsupportedProviderAction |-> "InvalidArgument",
   ErrInvalidPayload |-> "InvalidArgument", ErrSourceRequestConflict |-> "AlreadyExists",
   ErrNotFound |-> "NotFound", ErrStorageUnavailable |-> "InvalidArgument",
   ErrInvalidToken |-> "Unauthenticated", ok |-> "OK"]

applicationError ==
  [ErrInvalidRequest |-> "InvalidArgument",
   ErrUnsupportedProviderAction |-> "InvalidArgument",
   ErrInvalidPayload |-> "InvalidArgument", ErrSourceRequestConflict |-> "AlreadyExists",
   ErrNotFound |-> "NotFound", ErrStorageUnavailable |-> "Unavailable",
   ErrInvalidToken |-> "Unauthenticated", ok |-> "OK"]

toolError ==
  [ErrInvalidRequest |-> "INVALID_REQUEST",
   ErrUnsupportedProviderAction |-> "UNSUPPORTED_PROVIDER_ACTION",
   ErrInvalidPayload |-> "INVALID_PAYLOAD",
   ErrSourceRequestConflict |-> "SOURCE_REQUEST_CONFLICT",
   ErrNotFound |-> "NOT_FOUND", ErrStorageUnavailable |-> "STORAGE_UNAVAILABLE",
   ErrInvalidToken |-> "401", ok |-> "result"]

Results == DOMAIN HttpStatus

Code(proto, result) ==
  CASE proto = "rest" -> HttpStatus[result]
    [] proto = "grpc" -> applicationError[result]
    [] proto = "mcp"  -> toolError[result]

Codes == {Code(p, r) : p \in Protocols, r \in Results}
Accepted    == {Code(p, "ok") : p \in Protocols}
Conflicting == {"409", "AlreadyExists", "SOURCE_REQUEST_CONFLICT"}
TryLater    == {"503", "Unavailable", "STORAGE_UNAVAILABLE"}
Refused     == {"400", "401", "422", "InvalidArgument", "Unauthenticated",
                "INVALID_REQUEST", "INVALID_PAYLOAD", "UNSUPPORTED_PROVIDER_ACTION"}

(* own: the attempt under way stored a row. *)
Calls == [pc : PCs, proto : Protocols, cmd : Commands, kind : {"submit", "status"},
          id : EventIds \cup {NoEvent}, own : BOOLEAN, code : Codes \cup {"none"}]
NoCall == [pc |-> "idle"]

Fault == faults < MaxFaults /\ faults' = faults + 1

Goto(c, pc) == call' = [call EXCEPT ![c].pc = pc]

Answer(c, result, i) ==
  call' = [call EXCEPT ![c].pc = "answered", ![c].id = i,
                       ![c].code = Code(call[c].proto, result)]

(* A SubmitResult reaches the client. *)
Accept(c, i) ==
  /\ Answer(c, "ok", i)
  /\ answers' = answers \cup {[key |-> call[c].cmd.key, id |-> i]}

Init ==
  /\ table    = [i \in EventIds |-> NoRow]
  /\ call     = [c \in Clients |-> NoCall]
  /\ registry = Actions
  /\ answers  = {}
  /\ wakes    = [i \in EventIds |-> 0]
  /\ faults   = 0

-----------------------------------------------------------------------------
(* The interfaces *)

Request(c) ==
  /\ call[c].pc = "idle" \/ (call[c].pc = "answered" /\ call[c].code \notin TryLater)
  /\ \E r \in Requests :
       call' = [call EXCEPT ![c] =
         [pc |-> "received", proto |-> r.proto, cmd |-> r.cmd, kind |-> r.kind,
          id |-> NoEvent, own |-> FALSE, code |-> "none"]]
  /\ UNCHANGED <<table, registry, answers, wakes, faults>>

(* REST wants the scheme spelt "Bearer"; gRPC and the MCP SDK ignore its   *)
(* case.  The health methods need no token.                                *)
bearerAuth(cmd)          == cmd.flaw \notin {"token", "scheme"}
verifyIncomingToken(cmd) == cmd.flaw # "token"
Authenticated(proto, cmd) == IF proto = "rest" THEN bearerAuth(cmd)
                                               ELSE verifyIncomingToken(cmd)

(* A request whose answer was lost, or that was told to try later, is sent *)
(* again as it was.                                                        *)
Retry(c) ==
  /\ call[c].pc = "lost" \/ (call[c].pc = "answered" /\ call[c].code \in TryLater)
  /\ call' = [call EXCEPT ![c].pc = "received", ![c].id = NoEvent, ![c].own = FALSE,
                          ![c].code = "none"]
  /\ UNCHANGED <<table, registry, answers, wakes, faults>>

-----------------------------------------------------------------------------
(* Service.Submit *)

(* The checks before any statement: fields, Registry.Lookup and            *)
(* Adapter.Validate.  A result, or the step that follows.                  *)
Submit(cmd) ==
  IF cmd.flaw = "incomplete" THEN "ErrInvalidRequest"
  ELSE IF cmd.action \notin registry THEN "ErrUnsupportedProviderAction"
  ELSE IF cmd.flaw = "payload" THEN "ErrInvalidPayload"
  ELSE "resolve"

Receive(c) ==
  LET cmd  == call[c].cmd
      then == IF ~Authenticated(call[c].proto, cmd) THEN "ErrInvalidToken"
              ELSE IF call[c].kind = "submit" THEN Submit(cmd)
              ELSE IF cmd.flaw = "incomplete" THEN "ErrInvalidRequest" ELSE "status" IN
  /\ call[c].pc = "received"
  /\ IF then \in Results THEN Answer(c, then, NoEvent) ELSE Goto(c, then)
  /\ UNCHANGED <<table, registry, answers, wakes, faults>>

SameRequest(i, c) ==
  /\ table[i].action = call[c].cmd.action
  /\ canonicalEqual(table[i].payload, Received(call[c].proto, call[c].cmd.payload))

(* Mutant: a duplicate is published again. *)
resolveExisting_Republishes(c) ==
  /\ call[c].pc \in {"resolve", "resolve_again"}
  /\ \/ /\ RowsOf(call[c].cmd.key) = {}
        /\ Goto(c, "insert")
        /\ UNCHANGED <<answers, wakes>>
     \/ \E i \in RowsOf(call[c].cmd.key) :
          Accept(c, i) /\ wakes' = [wakes EXCEPT ![i] = @ + 1]
  /\ UNCHANGED <<table, registry, faults>>

(* Before the INSERT and again after it was rejected. *)
resolveExisting(c) ==
  LET found == RowsOf(call[c].cmd.key) IN
  /\ call[c].pc \in {"resolve", "resolve_again"}
  /\ \/ /\ found = {} /\ call[c].pc = "resolve"
        /\ Goto(c, "insert")
        /\ UNCHANGED answers
     \/ /\ found = {} /\ call[c].pc = "resolve_again"
        /\ Answer(c, "ErrStorageUnavailable", NoEvent)
        /\ UNCHANGED answers
     \/ \E i \in found :
          \/ SameRequest(i, c) /\ Accept(c, i)
          \/ /\ ~SameRequest(i, c)
             /\ Answer(c, "ErrSourceRequestConflict", i)
             /\ UNCHANGED answers
  /\ UNCHANGED <<table, registry, wakes, faults>>

(* Mutant: the request is stored as it came. *)
Row_Request(c) == call[c].cmd

Row(c) == [key |-> call[c].cmd.key, action |-> call[c].cmd.action,
           payload |-> Jsonb(Received(call[c].proto, call[c].cmd.payload)),
           sent |-> call[c].cmd.payload, proto |-> call[c].proto]

Store(c, i) == table' = [table EXCEPT ![i] = Row(c)]

(* Mutant: the table lost its unique constraint. *)
Insert_NoUniqueKey(c) ==
  /\ call[c].pc = "insert" /\ call[c].cmd.flaw # "unstorable"
  /\ \E i \in EventIds \ Stored :
       /\ Store(c, i)
       /\ call' = [call EXCEPT ![c].pc = "publish", ![c].id = i, ![c].own = TRUE]
  /\ UNCHANGED <<registry, answers, wakes, faults>>

(* Mutant: a rejected INSERT is taken for success. *)
Insert_IgnoresDuplicate(c) ==
  /\ call[c].pc = "insert" /\ call[c].cmd.flaw # "unstorable"
  /\ \E i \in EventIds \ Stored :
       /\ IF RowsOf(call[c].cmd.key) = {} THEN Store(c, i) ELSE UNCHANGED table
       /\ call' = [call EXCEPT ![c].pc = "publish", ![c].id = i, ![c].own = TRUE]
  /\ UNCHANGED <<registry, answers, wakes, faults>>

(* Mutant: no branch for ErrDuplicateSourceRequest. *)
Insert_WaitsForKey(c) ==
  /\ call[c].pc = "insert" /\ call[c].cmd.flaw # "unstorable"
  /\ RowsOf(call[c].cmd.key) = {}
  /\ \E i \in EventIds \ Stored :
       /\ Store(c, i)
       /\ call' = [call EXCEPT ![c].pc = "publish", ![c].id = i, ![c].own = TRUE]
  /\ UNCHANGED <<registry, answers, wakes, faults>>

(* EventRepo.Insert: one row per source request; SQLSTATE 23505 of either  *)
(* unique index becomes ErrDuplicateSourceRequest.                         *)
Insert(c) ==
  /\ call[c].pc = "insert" /\ call[c].cmd.flaw # "unstorable"
  /\ IF RowsOf(call[c].cmd.key) # {}
     THEN Goto(c, "resolve_again") /\ UNCHANGED table
     ELSE \E i \in EventIds \ Stored :
            /\ Store(c, i)
            /\ call' = [call EXCEPT ![c].pc = "publish", ![c].id = i, ![c].own = TRUE]
  /\ UNCHANGED <<registry, answers, wakes, faults>>

(* uuid.New repeats an id of another request: 23505 of the primary key. *)
InsertCollides(c) ==
  /\ call[c].pc = "insert" /\ call[c].cmd.flaw # "unstorable"
  /\ RowsOf(call[c].cmd.key) = {} /\ Stored # {}
  /\ Fault
  /\ Goto(c, "resolve_again")
  /\ UNCHANGED <<table, registry, answers, wakes>>

(* The columns are VARCHAR(64) and VARCHAR(128), and jsonb refuses \u0000: *)
(* such a request passes every check and fails in the statement.           *)
InsertRejected(c) ==
  /\ call[c].pc = "insert" /\ call[c].cmd.flaw = "unstorable"
  /\ Answer(c, "ErrStorageUnavailable", NoEvent)
  /\ UNCHANGED <<table, registry, answers, wakes, faults>>

(* PublishAndMark is best effort: success or not, the answer is the same. *)
Publish(c) ==
  /\ call[c].pc = "publish"
  /\ Accept(c, call[c].id)
  /\ wakes' = [wakes EXCEPT ![call[c].id] = @ + 1]
  /\ UNCHANGED <<table, registry, faults>>

GetStatus(c) ==
  /\ call[c].pc = "status"
  /\ \/ RowsOf(call[c].cmd.key) = {} /\ Answer(c, "ErrNotFound", NoEvent)
     \/ \E i \in RowsOf(call[c].cmd.key) : Answer(c, "ok", i)
  /\ UNCHANGED <<table, registry, answers, wakes, faults>>

-----------------------------------------------------------------------------
(* Faults *)

(* A statement fails.  An INSERT may have been committed all the same. *)
StorageFails(c) ==
  /\ call[c].pc \in {"resolve", "resolve_again", "insert", "status"}
  /\ Fault
  /\ \/ Answer(c, "ErrStorageUnavailable", NoEvent) /\ UNCHANGED table
     \/ /\ call[c].pc = "insert" /\ call[c].cmd.flaw # "unstorable"
        /\ RowsOf(call[c].cmd.key) = {}
        /\ \E i \in EventIds \ Stored :
             /\ Store(c, i)
             /\ call' = [call EXCEPT ![c].pc = "answered", ![c].own = TRUE,
                  ![c].code = Code(call[c].proto, "ErrStorageUnavailable")]
  /\ UNCHANGED <<registry, answers, wakes>>

(* The connection breaks: the client never sees the answer. *)
AnswerLost(c) ==
  /\ call[c].pc \in PCs \ {"idle", "answered", "lost"}
  /\ Fault
  /\ Goto(c, "lost")
  /\ UNCHANGED <<table, registry, answers, wakes>>

(* The server process ends and starts again with another providers.yaml.   *)
(* A configuration Registry.Build refuses keeps the process from starting, *)
(* so what serves requests is always a complete registry.                  *)
Restart ==
  /\ Fault
  /\ call' = [c \in Clients |-> IF call[c].pc \in {"idle", "answered"} THEN call[c]
                                ELSE [call[c] EXCEPT !.pc = "lost"]]
  /\ registry' \in (SUBSET Actions) \ {{}}
  /\ UNCHANGED <<table, answers, wakes>>

Step(c) == \/ Receive(c) \/ resolveExisting(c) \/ Insert(c)
           \/ InsertRejected(c) \/ Publish(c) \/ GetStatus(c)

Next == \/ \E c \in Clients : \/ Request(c) \/ Step(c) \/ Retry(c) \/ InsertCollides(c)
                              \/ StorageFails(c) \/ AnswerLost(c)
        \/ Restart

Spec == Init /\ [][Next]_vars

(* A request a goroutine works on proceeds, and a client keeps retrying.   *)
Fairness == \A c \in Clients : WF_vars(Step(c)) /\ WF_vars(Retry(c))
LiveSpec == Spec /\ Fairness

-----------------------------------------------------------------------------
(* Properties *)

TypeOK ==
  /\ table \in [EventIds -> Rows \cup {NoRow}]
  /\ call \in [Clients -> Calls \cup {NoCall}]
  /\ registry \subseteq Actions
  /\ answers \subseteq [key : Keys, id : EventIds]
  /\ wakes \in [EventIds -> Nat]
  /\ faults \in 0 .. MaxFaults

(* Requests racing with one source request leave one event behind, also    *)
(* when several missed each other in resolveExisting (service.go:57-63).   *)
OneEventPerSourceRequest ==
  \A i, j \in Stored : table[i].key = table[j].key => i = j

(* All acceptances a client ever got for one source request name the same  *)
(* event, whatever protocol, retry, crash or race they came through, and   *)
(* that event is stored under the source request.                          *)
AnswersAgree ==
  \A a \in answers : /\ a.id \in RowsOf(a.key)
                     /\ \A b \in answers : a.key = b.key => a.id = b.id

(* The attempt that is answered with a refusal or a conflict has stored    *)
(* nothing itself: of all answers only "try later" may hide an event the   *)
(* same attempt stored (service.go:57-67).  It says nothing of earlier     *)
(* attempts of the same request: see IdenticalIsDuplicate.                 *)
RefusedAttemptStoredNothing ==
  \A c \in Clients :
    call[c].pc = "answered" /\ call[c].code \in Refused \cup Conflicting => ~call[c].own

(* What a client's payload should have become: MCP's JSON numbers are      *)
(* float64, the other protocols do not touch it.                           *)
ValueOf(c) == IF call[c].proto = "mcp" THEN Float64[call[c].cmd.payload.value]
                                       ELSE call[c].cmd.payload.value

SameContent(i, c) == /\ table[i].action = call[c].cmd.action
                     /\ table[i].payload.value = ValueOf(c)

(* The event a client is told of carries its own action and content,       *)
(* whichever client stored it, through whichever protocol and whatever     *)
(* happened in between; over MCP the content is what float64 leaves of it. *)
AcceptedContentIsStored ==
  \A c \in Clients :
    call[c].pc = "answered" /\ call[c].kind = "submit" /\ call[c].code \in Accepted
      => SameContent(call[c].id, c)

(* An accepted event is stored before it is published, and duplicates are  *)
(* never published again: the broker gets at most one direct wake-up.      *)
PublishedOnceStored ==
  \A i \in EventIds : wakes[i] <= 1 /\ (wakes[i] = 1 => i \in Stored)

(* A client that keeps sending a request the table can hold gets a final   *)
(* answer, however its first attempts were lost.                           *)
EventuallyAnswered ==
  \A c \in Clients :
    (call[c].pc = "received" /\ call[c].cmd.flaw # "unstorable")
      ~> (call[c].pc = "answered" /\ call[c].code \notin TryLater)

-----------------------------------------------------------------------------
(* A claim of the repository that the code does not keep *)

(* The request c is waiting on repeats, byte for byte and over the same    *)
(* protocol, the one event i was stored for.                               *)
Repeats(c, i) ==
  /\ i \in RowsOf(call[c].cmd.key)
  /\ call[c].kind = "submit" /\ call[c].cmd.flaw = "none"
  /\ table[i].proto = call[c].proto
  /\ table[i].action = call[c].cmd.action
  /\ table[i].sent = call[c].cmd.payload

(* handlers.go: reusing source_system and source_request_id with identical *)
(* content returns the original event as a duplicate.  So a repetition is  *)
(* answered with that event, unless storage is out of order.               *)
IdenticalIsDuplicate ==
  [][\A c \in Clients : \A i \in EventIds :
       /\ call[c].pc \in PCs \ {"idle", "answered", "lost"}
       /\ call'[c].pc = "answered"
       /\ Repeats(c, i)
       => \/ call'[c].code \in Accepted /\ call'[c].id = i
          \/ call'[c].code \in TryLater]_vars
=============================================================================
