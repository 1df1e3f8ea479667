----------------------------- MODULE ProviderCall -----------------------------
(***************************************************************************)
(* internal/provider and its adapters: one configured action and the calls *)
(* a worker makes for one event, from providers.yaml to the result and the *)
(* observation Processor.process hands to the circuit breaker.             *)
(*                                                                         *)
(* The vendor is external.  vendor records what it has really done with    *)
(* the message and answered whether it said anything at all in this call,  *)
(* neither of which the adapter sees: it sees a response, or an error.     *)
(***************************************************************************)
EXTENDS Naturals, Sequences

HttpAdapters == {"webhook", "lark_bot", "loadtest_http"}
Adapters == HttpAdapters \cup {"smtp_email", "firebase_push"}

VARIABLES
  adapter,     \* the adapter of the action
  cfg,         \* its section of providers.yaml
  env,         \* the environment variable of its credential
  client,      \* firebase_push: the cached messaging client exists
  pc,          \* where the call is
  payload,     \* the payload of the event
  canceled,    \* the worker's context has ended
  request,     \* the request under way: the "original", a "copy", or a "bare" GET
  vendor,      \* what the vendor has done with the message of that request
  earlier,     \* the most it has done with an earlier copy, "none" without one
  answered,    \* the vendor sent an answer
  err,         \* what ended the exchange: an error, or NoError
  resp,        \* what the vendor answered
  result

vars == <<adapter, cfg, env, client, pc, payload, canceled, request, vendor,
          earlier, answered, err, resp, result>>
startup == <<adapter, cfg, env>>
ghosts == <<request, vendor, earlier, answered>>

NoError == "none"
NoResp == [status |-> 0, body |-> "none"]
Pending == [success |-> FALSE, avail |-> FALSE, class |-> "PENDING"]

-----------------------------------------------------------------------------
(* Configuration: Adapter.Config and Registry.Build *)

(* What the adapters' own schemas distinguish.  form stands for every      *)
(* check on the form of a single field (URL, host, port, address, project  *)
(* id, breaker); limits is "fast" above five requests per second.          *)
Configs(a) ==
  [form     : BOOLEAN,
   limits   : {"invalid", "ok", "fast"},
   ref      : BOOLEAN,
   auth     : IF a = "webhook" THEN {"none", "bearer", "hmac_sha256", "other"} ELSE {"none"},
   tls      : IF a = "smtp_email" THEN {"starttls", "implicit_tls", "disabled", "other"}
                                  ELSE {"none"},
   loopback : IF a \in {"smtp_email", "loadtest_http"} THEN BOOLEAN ELSE {FALSE},
   username : IF a = "smtp_email" THEN BOOLEAN ELSE {FALSE}]

validateDeliveryLimits(c) == c.limits # "invalid"

WebhookConfig(c) == /\ c.form /\ validateDeliveryLimits(c)
                    /\ \/ c.auth = "none" /\ ~c.ref
                       \/ c.auth \in {"bearer", "hmac_sha256"} /\ c.ref
LarkConfig(c)     == c.form /\ validateDeliveryLimits(c) /\ c.limits # "fast"
LoadtestConfig(c) == c.form /\ c.limits # "invalid" /\ c.loopback /\ ~c.ref
SMTPConfig(c)     == /\ c.form /\ validateDeliveryLimits(c)
                     /\ c.tls \in {"starttls", "implicit_tls"}
                        \/ (c.tls = "disabled" /\ c.loopback)
                     /\ c.username = c.ref
FirebaseConfig(c) == c.form /\ validateDeliveryLimits(c)

Config(a, c) ==
  CASE a = "webhook"       -> WebhookConfig(c)
    [] a = "lark_bot"      -> LarkConfig(c)
    [] a = "loadtest_http" -> LoadtestConfig(c)
    [] a = "smtp_email"    -> SMTPConfig(c)
    [] a = "firebase_push" -> FirebaseConfig(c)

(* The resolver: no reference, no credential; a variable may be set and    *)
(* empty.                                                                  *)
Resolves(c) == c.ref => env # "unset"
Credential == IF cfg.ref THEN env ELSE "empty"

(* Payloads: the size of the text against the adapter's limit, and its     *)
(* fields: no JSON, JSON but no object, an object that lacks a required    *)
(* field or has a bad value, one with a field the adapter does not know,   *)
(* or neither.                                                             *)
Payloads == [size   : {"within", "growing", "over"},
             fields : {"not_json", "not_object", "missing", "unknown", "complete"}]

(* "growing" is within the limit as the caller wrote it and over it in the *)
(* text PostgreSQL returns for JSONB, or in the request built around it.   *)
Stored(p) == [p EXCEPT !.size = IF @ = "growing" THEN "over" ELSE @]

validateWebhookPayload(p)       == p.size # "over" /\ p.fields \notin {"not_json", "not_object"}
normalizeLarkMessage(p)         == p.size # "over" /\ p.fields \in {"unknown", "complete"}
normalizeSMTPPayload(p)         == p.size # "over" /\ p.fields = "complete"
normalizeFirebasePushPayload(p) == p.size # "over" /\ p.fields = "complete"
validLoadtestPayload(p)         == p.fields # "not_json"

Valid(a, p) ==
  CASE a = "webhook"       -> validateWebhookPayload(p)
    [] a = "lark_bot"      -> normalizeLarkMessage(p)
    [] a = "smtp_email"    -> normalizeSMTPPayload(p)
    [] a = "firebase_push" -> normalizeFirebasePushPayload(p)
    [] a = "loadtest_http" -> validLoadtestPayload(p)

Init ==
  /\ adapter \in Adapters
  /\ cfg \in Configs(adapter)
  /\ env \in {"unset", "empty", "value"}
  /\ payload \in Payloads
  /\ client = FALSE /\ pc = "build" /\ canceled = FALSE
  /\ request = "original" /\ vendor = "untouched" /\ earlier = "none" /\ answered = FALSE
  /\ err = NoError /\ resp = NoResp /\ result = Pending

(* Any adapter that refuses its section, or a credential that does not     *)
(* resolve, stops the process before it serves anything.                   *)
Build ==
  /\ pc = "build"
  /\ pc' = IF Config(adapter, cfg) /\ Resolves(cfg) THEN "validate" ELSE "stopped"
  /\ UNCHANGED <<startup, client, payload, canceled, ghosts, err, resp, result>>

(* Submit validates the payload as the caller wrote it. *)
Validate ==
  /\ pc = "validate"
  /\ pc' = IF Valid(adapter, payload) THEN "send" ELSE "stopped"
  /\ UNCHANGED <<startup, client, payload, canceled, ghosts, err, resp, result>>

-----------------------------------------------------------------------------
(* Results *)

Result(s, a, c) == [success |-> s, avail |-> a, class |-> c]
AdapterError == Result(FALSE, FALSE, "ADAPTER_ERROR")

Finish(r) == /\ pc' = "observe" /\ result' = r
             /\ UNCHANGED <<startup, client, payload, canceled, ghosts, err, resp>>

(* SendActionRequest up to the first byte: the checks it repeats, the      *)
(* credential it needs.                                                    *)
Sendable == /\ Valid(adapter, Stored(payload))
            /\ adapter = "webhook" /\ cfg.auth # "none" => Credential # "empty"
            /\ cfg.username => Credential # "empty"

NeedsCredential == adapter = "firebase_push" /\ cfg.ref /\ Credential = "empty"

SendRefused ==
  /\ pc = "send" /\ (~Sendable \/ NeedsCredential)
  /\ Finish(IF Sendable THEN Result(FALSE, FALSE, "FCM_CREDENTIAL_EMPTY") ELSE AdapterError)

FirstStage == CASE adapter \in HttpAdapters -> "dial"
                [] adapter = "smtp_email" -> "connect"
                [] adapter = "firebase_push" -> "client_init"

At(stage) == pc' = stage /\ UNCHANGED <<startup, payload, canceled, result>>

SendStarts ==
  /\ pc = "send" /\ Sendable /\ ~NeedsCredential
  /\ At(FirstStage)
  /\ UNCHANGED <<client, ghosts, err, resp>>

-----------------------------------------------------------------------------
(* HTTP: httpclient.Client.Do *)

RejectRedirects == adapter = "webhook"

(* The vendor's answers to a message it accepted, and to one it did not,   *)
(* or never saw because something in front of it answered.  302 stands for *)
(* 301, 302 and 303, 307 for 307 and 308.  A body longer than              *)
(* maxResponseBytes is cut, and then it is no JSON.                        *)
Ambiguous == [status : {302, 408, 500}, body : {"other"}]
Accepting ==
  Ambiguous \cup IF adapter = "lark_bot" THEN [status : {200}, body : {"code_0", "not_json"}]
                 ELSE [status : {200, 204}, body : {"other"}]
Refusing ==
  Ambiguous \cup [status : {307, 404, 429}, body : {"other"}]
  \cup IF adapter # "lark_bot" THEN {}
       ELSE [status : {200}, body : {"code_11232", "code_n", "no_code", "not_json"}]
            \cup [status : {204}, body : {"other"}]

(* A GET without the message is answered like one that was not accepted,   *)
(* or with a page; no page reads as Lark's code 0.                         *)
ToBare == Refusing \cup IF adapter = "lark_bot" THEN {}
                        ELSE [status : {200, 204}, body : {"other"}]

Dialed ==
  /\ pc = "dial"
  /\ At("write") /\ UNCHANGED <<client, ghosts, err, resp>>

Written ==
  /\ pc = "write"
  /\ vendor' = IF request = "bare" THEN vendor ELSE "received"
  /\ At("wait") /\ UNCHANGED <<client, request, earlier, answered, err, resp>>

(* A redirect without a Location is an answer like any other. *)
Responds ==
  /\ pc = "wait" /\ adapter \in HttpAdapters
  /\ \/ request # "bare" /\ vendor' = "accepted" /\ resp' \in Accepting
     \/ request # "bare" /\ vendor' = "refused" /\ resp' \in Refusing
     \/ request = "bare" /\ vendor' = vendor /\ resp' \in ToBare
  /\ \E stage \in {"redirect", "body"} :
       /\ stage = "redirect" => resp'.status \in {302, 307} /\ ~RejectRedirects
       /\ At(stage)
  /\ answered' = TRUE
  /\ UNCHANGED <<client, request, earlier, err>>

(* A further request begins; what came of the copies before it is kept. *)
SendsAgain(kind, fate) ==
  /\ request' = kind /\ vendor' = "untouched"
  /\ earlier' = IF request = "bare" \/ earlier = "accepted" THEN earlier ELSE fate

(* The client goes to the host it was pointed to: with the same request    *)
(* after a 307, with a GET without a body after any other redirect.  The   *)
(* error after the tenth redirect is a failure like any other (Breaks).    *)
FollowsRedirect ==
  /\ pc = "redirect"
  /\ SendsAgain(IF resp.status = 307 /\ request # "bare" THEN "copy" ELSE "bare", vendor)
  /\ At("dial") /\ UNCHANGED <<client, answered, err, resp>>

(* net/http repeats a request with an Idempotency-Key header on a new      *)
(* connection when a reused one fails before the answer; only the webhook  *)
(* adapter sets that header.                                               *)
TransportReplays ==
  /\ pc = "wait" /\ adapter = "webhook"
  /\ \E fate \in {"received", "accepted", "refused"} : SendsAgain("copy", fate)
  /\ At("dial") /\ UNCHANGED <<client, answered, err, resp>>

-----------------------------------------------------------------------------
(* SMTP: sendSMTP *)

Stages == <<"connect", "connection_deadline", "greeting", "starttls", "auth", "mail_from",
            "recipient", "data_open", "data_write", "data_commit", "accepted">>

Skipped(stage) == \/ stage = "starttls" /\ cfg.tls # "starttls"
                  \/ stage = "auth" /\ ~cfg.username

NextStage(stage) ==
  LET i == CHOOSE j \in 1 .. Len(Stages) : Stages[j] = stage
      later == {j \in i + 1 .. Len(Stages) : ~Skipped(Stages[j])}
  IN  Stages[CHOOSE j \in later : \A k \in later : j <= k]

(* Every later stage answers; the reply to the end of DATA is the          *)
(* server's acceptance.                                                    *)
StagePasses ==
  /\ adapter = "smtp_email" /\ pc \in {Stages[j] : j \in 1 .. Len(Stages) - 1}
  /\ At(NextStage(pc))
  /\ vendor' = CASE pc = "data_write" -> "received" [] pc = "data_commit" -> "accepted"
                 [] OTHER -> vendor
  /\ answered' = (answered \/ pc \notin {"connect", "connection_deadline",
                                                "data_write"})
  /\ UNCHANGED <<client, request, earlier, err, resp>>

(* A reply whose code is not the expected one: textproto.Error, of 4xx,    *)
(* 5xx or any other code (a 354 or 1xx where 250 was due).                 *)
StageRejected ==
  /\ adapter = "smtp_email"
  /\ pc \in {"greeting", "starttls", "auth", "mail_from", "recipient", "data_open",
             "data_commit"}
  /\ err' \in {"code_4xx", "code_5xx", "code_other"}
  /\ vendor' = "refused" /\ answered' = TRUE
  /\ pc' = pc
  /\ UNCHANGED <<startup, client, payload, canceled, request, earlier, resp, result>>

-----------------------------------------------------------------------------
(* FCM: messagingClient and client.Send *)

(* A credential that is no service account, or a refusal of the SDK        *)
(* itself, of its configuration or of the message.                         *)
SdkFails ==
  /\ adapter = "firebase_push"
  /\ (pc = "client_init" /\ ~client) \/ pc = "fcm_send"
  /\ err' = "other" /\ pc' = pc
  /\ UNCHANGED <<startup, client, payload, canceled, ghosts, resp, result>>

messagingClient ==
  /\ pc = "client_init"
  /\ client' = TRUE
  /\ At("fcm_send") /\ UNCHANGED <<ghosts, err, resp>>

FcmRefusals == {"unregistered", "third_party_auth", "sender_id_mismatch", "invalid_argument",
                "unauthenticated", "permission_denied"}
FcmOutages == {"quota_exceeded", "unavailable", "internal"}

(* The SDK sends again after an outage or a lost connection, within the    *)
(* same client.Send.                                                       *)
SdkRetries ==
  /\ pc = "fcm_send"
  /\ \E fate \in {"received", "accepted", "refused"} : SendsAgain("copy", fate)
  /\ answered' \in {answered, TRUE}
  /\ At(pc) /\ UNCHANGED <<client, err, resp>>

(* What client.Send returns of the last answer.  Only FcmRefusals say that *)
(* the message was not taken.                                              *)
FcmAnswers ==
  /\ pc = "fcm_send"
  /\ answered' = TRUE
  /\ \/ /\ resp' \in [status : {200}, body : {"message_id", "no_id"}]
        /\ vendor' = IF resp'.body = "message_id" THEN "accepted" ELSE "received"
        /\ pc' = "body" /\ UNCHANGED err
     \/ /\ err' \in FcmRefusals /\ vendor' = "refused"
        /\ pc' = pc /\ UNCHANGED resp
     \/ /\ err' \in FcmOutages \cup {"timeout", "canceled", "other"}
        /\ vendor' \in {"received", "accepted", "refused"}
        /\ pc' = pc /\ UNCHANGED resp
  /\ UNCHANGED <<startup, client, payload, canceled, request, earlier, result>>

-----------------------------------------------------------------------------
(* What can end an exchange from outside *)

Exchanging == pc \in {"dial", "write", "wait", "redirect", "body", "client_init", "fcm_send"}
              \/ (adapter = "smtp_email" /\ pc \in {Stages[j] : j \in 1 .. Len(Stages) - 1})
(* Nothing of the message has been written yet. *)
BeforeMessage == pc \in {"dial", "redirect", "client_init"} \cup
                       ({Stages[j] : j \in 1 .. Len(Stages)} \ {"data_write", "data_commit"})

(* The connection breaks or a step fails locally ("network"), the call's   *)
(* own timeout passes, or the end of the worker's context closes the       *)
(* connection.  What the vendor makes of what was written stays unknown,   *)
(* a DATA that was cut short included.                                     *)
Breaks ==
  /\ Exchanging /\ err = NoError
  /\ ~(adapter = "firebase_push" /\ (pc = "body" \/ (client /\ pc = "client_init")))
  /\ err' \in {"network", "timeout"} \cup (IF canceled THEN {"canceled"} ELSE {})
  /\ vendor' \in IF BeforeMessage \/ request = "bare" \/ vendor \in {"accepted", "refused"}
                 THEN {vendor}
                 ELSE {vendor, "received", "accepted", "refused"}
  /\ pc' = pc
  /\ UNCHANGED <<startup, client, payload, canceled, request, earlier, answered, resp, result>>

(* The worker is told to stop. *)
Cancel ==
  /\ ~canceled /\ canceled' = TRUE
  /\ UNCHANGED <<startup, client, pc, payload, ghosts, err, resp, result>>

-----------------------------------------------------------------------------
(* Classification *)

Overloaded(s) == s \in {408, 429} \/ s >= 500

(* Mutant: a body without a code counts as code 0. *)
interpretLarkResponse_ZeroCode(r) ==
  CASE r.status # 200 -> Result(FALSE, Overloaded(r.status), "LARK_HTTP_ERROR")
    [] r.status = 200 /\ r.body = "not_json" -> Result(FALSE, TRUE, "UNEXPECTED_VENDOR_BODY")
    [] r.status = 200 /\ r.body \in {"code_0", "no_code"} -> Result(TRUE, FALSE, "")
    [] OTHER -> Result(FALSE, r.body = "code_11232", "LARK_CODE")

interpretLarkResponse(r) ==
  CASE r.status # 200 -> Result(FALSE, Overloaded(r.status), "LARK_HTTP_ERROR")
    [] r.status = 200 /\ r.body \in {"not_json", "no_code"} ->
         Result(FALSE, TRUE, "UNEXPECTED_VENDOR_BODY")
    [] r.status = 200 /\ r.body = "code_0" -> Result(TRUE, FALSE, "")
    [] OTHER -> Result(FALSE, r.body = "code_11232", "LARK_CODE")

interpretWebhookResponse(r) ==
  CASE r.status \in 200 .. 299 -> Result(TRUE, FALSE, "")
    [] r.status \in 300 .. 399 -> Result(FALSE, FALSE, "WEBHOOK_REDIRECT_REJECTED")
    [] OTHER -> Result(FALSE, Overloaded(r.status), "WEBHOOK_HTTP_ERROR")

interpretLoadtestResponse(r) ==
  IF r.status \in 200 .. 299 THEN Result(TRUE, FALSE, "")
  ELSE Result(FALSE, Overloaded(r.status), "LOADTEST_HTTP_STATUS")

interpretFcmResponse(r) ==
  IF r.body = "message_id" THEN Result(TRUE, FALSE, "")
  ELSE Result(FALSE, TRUE, "FCM_PROTOCOL_ERROR")

Interpreted ==
  CASE adapter = "lark_bot"      -> interpretLarkResponse(resp)
    [] adapter = "webhook"       -> interpretWebhookResponse(resp)
    [] adapter = "loadtest_http" -> interpretLoadtestResponse(resp)
    [] adapter = "firebase_push" -> interpretFcmResponse(resp)

Interpret == pc = "body" /\ err = NoError /\ Finish(Interpreted)

SMTPAccepted == pc = "accepted" /\ Finish(Result(TRUE, FALSE, ""))

(* Do returns the dial error itself; a timeout of the call may hide it. *)
PreSendFailure == pc = "dial"

HttpFailure ==
  IF canceled THEN {AdapterError}
  ELSE {Result(FALSE, TRUE, "TRANSPORT_ERROR")}
       \cup (IF PreSendFailure THEN {Result(FALSE, TRUE, "PRE_SEND_CONNECT_FAILURE")} ELSE {})

(* Mutant: the end of the worker's context is not looked at. *)
classifySMTPFailure_NoCause ==
  CASE err = "code_4xx" -> Result(FALSE, TRUE, "SMTP_TEMPORARY_REJECTION")
    [] err \in {"code_5xx", "code_other"} -> Result(FALSE, FALSE, "SMTP_PERMANENT_REJECTION")
    [] OTHER -> Result(FALSE, TRUE, "SMTP_TIMEOUT")

classifySMTPFailure ==
  CASE canceled -> Result(FALSE, FALSE, "SMTP_CONTEXT_CANCELED")
    [] ~canceled /\ err = "code_4xx" -> Result(FALSE, TRUE, "SMTP_TEMPORARY_REJECTION")
    [] ~canceled /\ err \in {"code_5xx", "code_other"} ->
         Result(FALSE, FALSE, "SMTP_PERMANENT_REJECTION")
    [] ~canceled /\ err = "timeout" -> Result(FALSE, TRUE, "SMTP_TIMEOUT")
    [] ~canceled /\ err = "network" /\ pc \in {"connect", "greeting", "starttls"} ->
         Result(FALSE, TRUE, "SMTP_CONNECTION_FAILURE")
    [] ~canceled /\ err = "network" /\ pc \in {"data_write", "data_commit"} ->
         Result(FALSE, TRUE, "SMTP_ACCEPTANCE_UNCONFIRMED")
    [] OTHER -> Result(FALSE, TRUE, "SMTP_PROTOCOL_ERROR")

classifyFirebasePushFailure ==
  CASE err = "timeout" -> Result(FALSE, TRUE, "FCM_TIMEOUT")
    [] err # "timeout" /\ (canceled \/ err = "canceled") ->
         Result(FALSE, FALSE, "FCM_CONTEXT_CANCELED")
    [] err \in FcmRefusals /\ ~canceled -> Result(FALSE, FALSE, "FCM_REFUSED")
    [] err \in FcmOutages /\ ~canceled -> Result(FALSE, TRUE, "FCM_OUTAGE")
    [] err = "network" /\ ~canceled -> Result(FALSE, TRUE, "FCM_TRANSPORT_ERROR")
    [] OTHER -> Result(FALSE, FALSE, IF pc = "client_init" THEN "FCM_CLIENT_INIT_ERROR"
                                     ELSE "FCM_SEND_ERROR")

Failures ==
  CASE adapter \in HttpAdapters -> HttpFailure
    [] adapter = "smtp_email" -> {classifySMTPFailure}
    [] adapter = "firebase_push" -> {classifyFirebasePushFailure}

Fail == err # NoError /\ Exchanging /\ \E r \in Failures : Finish(r)

(* process: what the breaker is told. *)
Observation(r) == CASE r.class = "ADAPTER_ERROR" -> "ignore"
                    [] r.class # "ADAPTER_ERROR" /\ r.avail -> "unavailable"
                    [] OTHER -> "reachable"

(* Not confirmed: the event is requeued and another call is made. *)
Retry ==
  /\ pc = "observe" /\ ~result.success /\ ~canceled
  /\ pc' = "send"
  /\ request' = "original" /\ vendor' = "untouched" /\ earlier' = "none" /\ answered' = FALSE
  /\ err' = NoError /\ resp' = NoResp /\ result' = Pending
  /\ UNCHANGED <<startup, client, payload, canceled>>

Next ==
  \/ Build \/ Validate \/ SendRefused \/ SendStarts
  \/ /\ err = NoError
     /\ \/ Dialed \/ Written \/ Responds \/ FollowsRedirect \/ TransportReplays
        \/ StagePasses \/ StageRejected
        \/ SdkFails \/ messagingClient \/ SdkRetries \/ FcmAnswers
  \/ Breaks \/ Cancel \/ Interpret \/ SMTPAccepted \/ Fail \/ Retry

Spec == Init /\ [][Next]_vars

-----------------------------------------------------------------------------
(* Properties *)

(* WEBHOOK_REDIRECT_REJECTED is not one: it is the adapter that refuses a  *)
(* redirect, and a 303 may follow an acceptance.                           *)
Rejections == {"SMTP_TEMPORARY_REJECTION", "SMTP_PERMANENT_REJECTION", "FCM_REFUSED",
               "LARK_CODE"}

(* Success only if the vendor explicitly accepted the message in this very *)
(* call, and a rejection only if it answered and did not accept the copy   *)
(* it answered: a lost or unreadable answer is neither, whatever stage it  *)
(* is lost at.  The exception is loadtest_http behind a 302: its adapter   *)
(* takes the page that a GET without the message brings for a success.     *)
VerdictIsVendors ==
  pc = "observe" =>
    /\ result.success => \/ vendor = "accepted"
                         \/ adapter = "loadtest_http" /\ request = "bare"
    /\ result.class \in Rejections => answered /\ vendor # "accepted"

(* The breaker counts no failure against the vendor for a call that the    *)
(* worker's own shutdown ended, whichever stage of the call it cut: every  *)
(* adapter tells the end of its context from an error of the exchange.     *)
ShutdownIsNotOutage ==
  pc = "observe" /\ Observation(result) = "unavailable" => err # "canceled"

(* The comment of PreSendFailure: its class says that no request bytes     *)
(* could have reached the vendor.                                          *)
PreSendMeansUnsent ==
  pc = "observe" /\ result.class = "PRE_SEND_CONNECT_FAILURE" =>
    vendor = "untouched" /\ earlier = "none"

(* The comment in process: what it reports as reachable are successes and  *)
(* explicit responses of the provider.                                     *)
ReachableMeansAnswered ==
  pc = "observe" /\ Observation(result) = "reachable" => answered
=============================================================================
