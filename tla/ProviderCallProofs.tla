-------------------------- MODULE ProviderCallProofs --------------------------
(***************************************************************************)
(* Why a result and an observation of an adapter are right: what each      *)
(* stage of a call still knows of the vendor when it ends.                 *)
(***************************************************************************)
EXTENDS ProviderCall, TLAPS

HttpStages == {"dial", "write", "wait", "redirect"}
FcmStages == {"client_init", "fcm_send"}

(* The stages of sendSMTP before the end of DATA. *)
EarlyStages == {"connect", "connection_deadline", "greeting", "starttls", "auth", "mail_from",
                "recipient", "data_open", "data_write"}
SmtpStages == EarlyStages \cup {"data_commit", "accepted"}

Replies == {"code_4xx", "code_5xx", "code_other"}

(* Every adapter goes through its own stages. *)
StagesInv ==
  /\ adapter \in Adapters /\ canceled \in BOOLEAN
  /\ pc \in {"build", "validate", "send", "body", "observe", "stopped"}
            \cup HttpStages \cup FcmStages \cup SmtpStages
  /\ pc \in HttpStages => adapter \in HttpAdapters
  /\ pc \in SmtpStages => adapter = "smtp_email"
  /\ pc \in FcmStages => adapter = "firebase_push"
  /\ pc = "body" => adapter # "smtp_email"
  /\ request = "bare" => adapter # "webhook"
  /\ pc = "redirect" => adapter # "webhook"

(* What an error says of the vendor and of the worker. *)
ErrorInv ==
  /\ err \in {NoError, "network", "timeout", "canceled", "other"} \cup Replies
             \cup FcmRefusals \cup FcmOutages
  /\ err = "canceled" /\ adapter # "firebase_push" => canceled
  /\ err \in Replies => adapter = "smtp_email" /\ answered /\ vendor = "refused"
  /\ err \in FcmRefusals => adapter = "firebase_push" /\ answered /\ vendor = "refused"

(* What a stage says of the vendor. *)
VendorInv ==
  /\ pc \in {"build", "validate", "send"} => vendor = "untouched" /\ err = NoError
  /\ pc \in {"dial", "write", "wait"} /\ request = "bare" => vendor = "untouched"
  /\ pc = "dial" => vendor = "untouched"
  /\ pc = "accepted" => vendor = "accepted" /\ answered /\ err = NoError
  /\ pc = "body" /\ adapter \in HttpAdapters =>
       /\ answered
       /\ \/ vendor = "accepted" /\ resp \in Accepting
          \/ vendor = "refused" /\ resp \in Refusing
          \/ request = "bare" /\ vendor = "untouched" /\ resp \in ToBare
  /\ pc = "body" /\ adapter = "firebase_push" =>
       /\ answered /\ err = NoError
       /\ resp.body = "message_id" => vendor = "accepted"

(* The properties, of any result. *)
Sound(r) ==
  /\ r.success => vendor = "accepted" \/ (adapter = "loadtest_http" /\ request = "bare")
  /\ r.class \in Rejections => answered /\ vendor # "accepted"
  /\ Observation(r) = "unavailable" => err # "canceled"

CallInv == /\ StagesInv /\ ErrorInv /\ VendorInv
           /\ pc = "observe" => Sound(result)

-----------------------------------------------------------------------------
(* The next stage of sendSMTP *)

LEMMA StageList ==
  /\ Len(Stages) = 11
  /\ Stages[1] = "connect" /\ Stages[2] = "connection_deadline" /\ Stages[3] = "greeting"
  /\ Stages[4] = "starttls" /\ Stages[5] = "auth" /\ Stages[6] = "mail_from"
  /\ Stages[7] = "recipient" /\ Stages[8] = "data_open" /\ Stages[9] = "data_write"
  /\ Stages[10] = "data_commit" /\ Stages[11] = "accepted"
  BY DEF Stages

LEMMA StagesDiffer ==
  \A i, j \in 1 .. 11 : Stages[i] = Stages[j] => i = j
<1>1. \A i \in 1 .. 11 : i = 1 \/ i = 2 \/ i = 3 \/ i = 4 \/ i = 5 \/ i = 6 \/ i = 7 \/ i = 8
                         \/ i = 9 \/ i = 10 \/ i = 11
  OBVIOUS
<1> QED BY <1>1, StageList

LEMMA NextStageIs ==
  ASSUME NEW i \in 1 .. 10, NEW j \in i + 1 .. 11, ~Skipped(Stages[j]),
         \A k \in i + 1 .. j - 1 : Skipped(Stages[k])
  PROVE  NextStage(Stages[i]) = Stages[j]
<1> DEFINE c == CHOOSE k \in 1 .. Len(Stages) : Stages[k] = Stages[i]
           later == {k \in c + 1 .. Len(Stages) : ~Skipped(Stages[k])}
           d == CHOOSE k \in later : \A l \in later : k <= l
<1>1. c = i
  BY StageList, StagesDiffer
<1>2. later = {k \in i + 1 .. 11 : ~Skipped(Stages[k])}
  BY <1>1, StageList
<1> HIDE DEF c, later
<1>3. j \in later /\ \A l \in later : j <= l
  BY <1>2
<1>4. d \in later /\ \A l \in later : d <= l
  BY <1>3
<1> HIDE DEF d
<1>5. d = j
  BY <1>2, <1>3, <1>4
<1> QED BY <1>5 DEF NextStage, c, later, d

(* The order of the stages, whichever are skipped. *)
LEMMA StageOrder ==
  /\ NextStage("data_write") = "data_commit"
  /\ NextStage("data_commit") = "accepted"
  /\ \A s \in EarlyStages \ {"data_write"} : NextStage(s) \in EarlyStages
<1>1. \A j \in 1 .. 11 : Skipped(Stages[j]) => j \in {4, 5}
  BY StageList, StagesDiffer DEF Skipped
<1>2. \A i \in {1, 2, 5, 6, 7, 8, 9, 10} : NextStage(Stages[i]) = Stages[i + 1]
  BY <1>1, NextStageIs
<1>3. NextStage(Stages[4]) \in {Stages[5], Stages[6]}
  <2>1. CASE ~Skipped(Stages[5])
    BY <2>1, NextStageIs
  <2>2. CASE Skipped(Stages[5])
    BY <1>1, <2>2, NextStageIs
  <2> QED BY <2>1, <2>2
<1>4. NextStage(Stages[3]) \in {Stages[4], Stages[5], Stages[6]}
  <2>1. CASE ~Skipped(Stages[4])
    BY <2>1, NextStageIs
  <2>2. CASE Skipped(Stages[4]) /\ ~Skipped(Stages[5])
    BY <2>2, NextStageIs
  <2>3. CASE Skipped(Stages[4]) /\ Skipped(Stages[5])
    BY <1>1, <2>3, NextStageIs
  <2> QED BY <2>1, <2>2, <2>3
<1> QED BY <1>2, <1>3, <1>4, StageList DEF EarlyStages

LEMMA StageSet == {Stages[j] : j \in 1 .. Len(Stages) - 1} = EarlyStages \cup {"data_commit"}
<1>1. \A i \in 1 .. 10 : i = 1 \/ i = 2 \/ i = 3 \/ i = 4 \/ i = 5 \/ i = 6 \/ i = 7 \/ i = 8
                         \/ i = 9 \/ i = 10
  OBVIOUS
<1> QED BY <1>1, StageList DEF EarlyStages

-----------------------------------------------------------------------------
(* Results *)

LEMMA SoundResult ==
  ASSUME NEW s \in BOOLEAN, NEW a \in BOOLEAN, NEW c,
         s => vendor = "accepted" \/ (adapter = "loadtest_http" /\ request = "bare"),
         c \in Rejections => answered /\ vendor # "accepted",
         a => err # "canceled"
  PROVE  Sound(Result(s, a, c))
<1> DEFINE r == Result(s, a, c)
<1>1. r.success = s /\ r.avail = a /\ r.class = c
  BY DEF Result
<1> HIDE DEF r
<1>2. Observation(r) = IF c = "ADAPTER_ERROR" THEN "ignore"
                       ELSE IF a THEN "unavailable" ELSE "reachable"
  BY <1>1 DEF Observation
<1>3. Sound(r)
  BY <1>1, <1>2 DEF Sound
<1> QED BY <1>3 DEF r

LEMMA SoundAdapterError == Sound(AdapterError)
  BY SoundResult DEF AdapterError, Rejections

(* An answer in the vendor's words. *)
LEMMA SoundInterpreted ==
  ASSUME CallInv, pc = "body", err = NoError
  PROVE  Sound(Interpreted)
<1> USE DEF Rejections, NoError
<1>1. answered /\ adapter \in (HttpAdapters \cup {"firebase_push"})
  BY DEF CallInv, StagesInv, VendorInv, Adapters, HttpAdapters
<1>2. CASE adapter = "firebase_push"
  <2>1. resp.body = "message_id" => vendor = "accepted"
    BY <1>2 DEF CallInv, VendorInv
  <2>2. Interpreted = interpretFcmResponse(resp)
    BY <1>2 DEF Interpreted
  <2> QED BY <2>1, <2>2, SoundResult DEF interpretFcmResponse
<1>3. CASE adapter \in HttpAdapters
  <2>1. \/ vendor = "accepted" /\ resp \in Accepting
        \/ vendor = "refused" /\ resp \in Refusing
        \/ request = "bare" /\ vendor = "untouched" /\ resp \in ToBare
    BY <1>3 DEF CallInv, VendorInv
  <2>2. Overloaded(resp.status) \in BOOLEAN
    BY DEF Overloaded
  <2>3. CASE adapter = "lark_bot"
    <3>1. Interpreted = interpretLarkResponse(resp)
      BY <2>3 DEF Interpreted
    <3>2. resp.body = "code_0" => vendor = "accepted"
      BY <2>1, <2>3 DEF Refusing, ToBare, Ambiguous
    <3>3. vendor = "accepted" => resp.status # 200 \/ resp.body \in {"code_0", "not_json"}
      BY <2>1, <2>3 DEF Accepting, Ambiguous
    <3>4. \/ Interpreted = Result(FALSE, Overloaded(resp.status), "LARK_HTTP_ERROR")
          \/ Interpreted = Result(FALSE, TRUE, "UNEXPECTED_VENDOR_BODY")
          \/ resp.body = "code_0" /\ Interpreted = Result(TRUE, FALSE, "")
          \/ /\ resp.status = 200 /\ resp.body \notin {"code_0", "not_json"}
             /\ Interpreted = Result(FALSE, resp.body = "code_11232", "LARK_CODE")
      BY <3>1 DEF interpretLarkResponse
    <3>5. /\ Sound(Result(FALSE, Overloaded(resp.status), "LARK_HTTP_ERROR"))
          /\ Sound(Result(FALSE, TRUE, "UNEXPECTED_VENDOR_BODY"))
      BY <2>2, SoundResult
    <3>6. resp.body = "code_0" => Sound(Result(TRUE, FALSE, ""))
      BY <3>2, SoundResult
    <3>7. CASE resp.status = 200 /\ resp.body \notin {"code_0", "not_json"}
      <4>1. answered /\ vendor # "accepted"
        BY <1>1, <3>3, <3>7
      <4>2. Sound(Result(FALSE, TRUE, "LARK_CODE")) /\ Sound(Result(FALSE, FALSE, "LARK_CODE"))
        BY <4>1, SoundResult
      <4>3. CASE resp.body = "code_11232"
        <5>1. Interpreted = Result(FALSE, TRUE, "LARK_CODE")
          BY <3>1, <3>7, <4>3 DEF interpretLarkResponse, Result
        <5> QED BY <4>2, <5>1
      <4>4. CASE resp.body # "code_11232"
        <5>1. \/ Interpreted = Result(FALSE, TRUE, "UNEXPECTED_VENDOR_BODY")
              \/ Interpreted = Result(FALSE, FALSE, "LARK_CODE")
          BY <3>1, <3>7, <4>4 DEF interpretLarkResponse, Result
        <5> QED BY <3>5, <4>2, <5>1
      <4> QED BY <4>3, <4>4
    <3> QED BY <3>4, <3>5, <3>6, <3>7
  <2>4. CASE adapter \in {"webhook", "loadtest_http"}
    <3>1. resp.status \in 200 .. 299 => vendor = "accepted" \/ request = "bare"
      BY <2>1, <2>4 DEF Refusing, Ambiguous
    <3>2. CASE adapter = "loadtest_http"
      <4>1. Interpreted = interpretLoadtestResponse(resp)
        BY <3>2 DEF Interpreted
      <4> QED BY <2>2, <3>1, <3>2, <4>1, SoundResult DEF interpretLoadtestResponse
    <3>3. CASE adapter = "webhook"
      <4>1. Interpreted = interpretWebhookResponse(resp)
        BY <3>3 DEF Interpreted
      <4>2. request # "bare"
        BY <3>3 DEF CallInv, StagesInv
      <4>3. \/ resp.status \in 200 .. 299 /\ Interpreted = Result(TRUE, FALSE, "")
            \/ Interpreted = Result(FALSE, FALSE, "WEBHOOK_REDIRECT_REJECTED")
            \/ Interpreted = Result(FALSE, Overloaded(resp.status), "WEBHOOK_HTTP_ERROR")
        <5>1. CASE resp.status \in 200 .. 299
          <6>1. /\ ~(resp.status \in 300 .. 399)
                /\ resp.status \in 200 .. 299
            BY <5>1
          <6> DEFINE ok == resp.status \in 200 .. 299
                     moved == resp.status \in 300 .. 399
          <6>2. interpretWebhookResponse(resp) =
                  CASE ok -> Result(TRUE, FALSE, "")
                    [] moved -> Result(FALSE, FALSE, "WEBHOOK_REDIRECT_REJECTED")
                    [] OTHER -> Result(FALSE, Overloaded(resp.status), "WEBHOOK_HTTP_ERROR")
            BY DEF interpretWebhookResponse
          <6>3. ok /\ ~moved
            BY <6>1
          <6> HIDE DEF ok, moved
          <6>4. interpretWebhookResponse(resp) = Result(TRUE, FALSE, "")
            BY <6>2, <6>3
          <6> QED BY <4>1, <6>3, <6>4 DEF ok
        <5>2. CASE resp.status \notin 200 .. 299
          <6>1. interpretWebhookResponse(resp) \in
                  {Result(FALSE, FALSE, "WEBHOOK_REDIRECT_REJECTED"),
                   Result(FALSE, Overloaded(resp.status), "WEBHOOK_HTTP_ERROR")}
            BY <5>2 DEF interpretWebhookResponse
          <6> QED BY <4>1, <6>1
        <5> QED BY <5>1, <5>2
      <4> QED BY <2>2, <3>1, <4>2, <4>3, SoundResult
    <3> QED BY <2>4, <3>2, <3>3
  <2> QED BY <1>3, <2>3, <2>4 DEF HttpAdapters
<1> QED BY <1>1, <1>2, <1>3

(* An exchange that did not come to an end. *)
LEMMA SoundFailures ==
  ASSUME CallInv, err # NoError, Exchanging, NEW r \in Failures
  PROVE  Sound(r)
<1> USE DEF Rejections, NoError
<1>1. CASE adapter \in HttpAdapters
  <2>1. r \in HttpFailure
    BY <1>1 DEF Failures, HttpAdapters
  <2>2. ~canceled => err # "canceled"
    <3>1. adapter # "firebase_push"
      BY <1>1 DEF HttpAdapters
    <3> QED BY <3>1 DEF CallInv, ErrorInv
  <2> QED BY <2>1, <2>2, SoundResult, SoundAdapterError DEF HttpFailure
<1>2. CASE adapter = "smtp_email"
  <2>1. r = classifySMTPFailure
    BY <1>2 DEF Failures, HttpAdapters
  <2>2. ~canceled => err # "canceled"
    BY <1>2 DEF CallInv, ErrorInv
  <2>3. err \in Replies => answered /\ vendor = "refused"
    BY DEF CallInv, ErrorInv
  <2> QED BY <2>1, <2>2, <2>3, SoundResult DEF classifySMTPFailure, Replies
<1>3. CASE adapter = "firebase_push"
  <2>1. r = classifyFirebasePushFailure
    BY <1>3 DEF Failures, HttpAdapters
  <2>2. err \in FcmRefusals => answered /\ vendor = "refused"
    BY DEF CallInv, ErrorInv
  <2> QED BY <2>1, <2>2, SoundResult
          DEF classifyFirebasePushFailure, FcmRefusals, FcmOutages
<1> QED BY <1>1, <1>2, <1>3 DEF CallInv, StagesInv, Adapters

LEMMA FinishStep ==
  ASSUME CallInv, NEW r, Sound(r), Finish(r)
  PROVE  CallInv'
<1>1. /\ pc' = "observe" /\ result' = r
      /\ UNCHANGED <<adapter, canceled, request, vendor, answered, err, resp>>
  BY DEF Finish, startup, ghosts
<1>2. StagesInv'
  BY <1>1 DEF CallInv, StagesInv, HttpStages, FcmStages, SmtpStages, EarlyStages
<1>3. ErrorInv'
  BY <1>1 DEF CallInv, ErrorInv
<1>4. VendorInv'
  BY <1>1 DEF VendorInv
<1>5. Sound(result)'
  BY <1>1 DEF Sound
<1> QED BY <1>2, <1>3, <1>4, <1>5 DEF CallInv

-----------------------------------------------------------------------------
(* Steps *)

LEMMA CallInit == Init => CallInv
  BY DEF Init, CallInv, StagesInv, ErrorInv, VendorInv, HttpStages, FcmStages, SmtpStages,
         EarlyStages, Replies, NoError, FcmRefusals, FcmOutages

(* Before the first byte. *)
LEMMA StartStep ==
  ASSUME CallInv, Build \/ Validate \/ SendStarts
  PROVE  CallInv'
<1>1. /\ pc \in {"build", "validate", "send"}
      /\ UNCHANGED <<adapter, canceled, request, vendor, answered, err, resp>>
  BY DEF Build, Validate, SendStarts, At, startup, ghosts
<1>2. \/ pc' \in {"validate", "stopped", "send"}
      \/ pc' = "dial" /\ adapter \in HttpAdapters
      \/ pc' = "connect" /\ adapter = "smtp_email"
      \/ pc' = "client_init" /\ adapter = "firebase_push"
  BY DEF Build, Validate, SendStarts, At, FirstStage, CallInv, StagesInv, Adapters, HttpAdapters
<1>3. vendor = "untouched" /\ err = NoError
  BY <1>1 DEF CallInv, VendorInv
<1>4. StagesInv'
  BY <1>1, <1>2 DEF CallInv, StagesInv, HttpStages, FcmStages, SmtpStages, EarlyStages
<1>5. ErrorInv'
  BY <1>1 DEF CallInv, ErrorInv
<1>6. VendorInv'
  BY <1>1, <1>2, <1>3 DEF VendorInv
<1> QED BY <1>2, <1>4, <1>5, <1>6 DEF CallInv

LEMMA HttpStep ==
  ASSUME CallInv, err = NoError,
         Dialed \/ Written \/ Responds \/ FollowsRedirect \/ TransportReplays
  PROVE  CallInv'
<1>1. /\ UNCHANGED <<adapter, canceled, err>>
      /\ pc \in HttpStages /\ pc' \in HttpStages \cup {"body"}
  BY DEF Dialed, Written, Responds, FollowsRedirect, TransportReplays, At, startup, HttpStages
<1>2. adapter \in HttpAdapters
  BY <1>1 DEF CallInv, StagesInv
<1>3. StagesInv'
  <2>1. adapter = "webhook" => request' # "bare" /\ pc' # "redirect"
    BY DEF Dialed, Written, Responds, FollowsRedirect, TransportReplays, At, SendsAgain, ghosts,
           RejectRedirects, CallInv, StagesInv
  <2> QED BY <1>1, <1>2, <2>1 DEF CallInv, StagesInv, HttpStages, FcmStages, SmtpStages,
                                  EarlyStages, HttpAdapters
<1>4. ErrorInv'
  BY <1>1 DEF CallInv, ErrorInv, NoError, Replies, FcmRefusals, FcmOutages
<1>5. /\ pc' = "dial" => vendor' = "untouched"
      /\ pc' \in {"write", "wait"} /\ request' = "bare" => vendor' = "untouched"
  BY DEF Dialed, Written, Responds, FollowsRedirect, TransportReplays, At, SendsAgain, ghosts,
         CallInv, VendorInv
<1>6. pc' = "body" =>
        /\ answered'
        /\ \/ vendor' = "accepted" /\ resp' \in Accepting
           \/ vendor' = "refused" /\ resp' \in Refusing
           \/ request' = "bare" /\ vendor' = "untouched" /\ resp' \in ToBare
  BY DEF Dialed, Written, Responds, FollowsRedirect, TransportReplays, At, CallInv, VendorInv
<1>7. Accepting' = Accepting /\ Refusing' = Refusing /\ ToBare' = ToBare
  BY <1>1 DEF Accepting, Refusing, ToBare, Ambiguous
<1>8. VendorInv'
  BY <1>1, <1>2, <1>5, <1>6, <1>7 DEF VendorInv, HttpStages, HttpAdapters
<1> QED BY <1>1, <1>3, <1>4, <1>8 DEF CallInv, HttpStages

LEMMA SmtpStep ==
  ASSUME CallInv, err = NoError, StagePasses \/ StageRejected
  PROVE  CallInv'
<1>1. /\ UNCHANGED <<adapter, canceled, request>> /\ adapter = "smtp_email"
      /\ pc \in EarlyStages \cup {"data_commit"}
  BY StageSet DEF StagePasses, StageRejected, At, startup, EarlyStages
<1>2. CASE StagePasses
  <2>1. UNCHANGED err /\ pc' = NextStage(pc)
    BY <1>2 DEF StagePasses, At
  <2>2. \/ pc \in EarlyStages \ {"data_write"} /\ pc' \in EarlyStages /\ UNCHANGED vendor
        \/ pc = "data_write" /\ pc' = "data_commit"
        \/ pc = "data_commit" /\ pc' = "accepted" /\ vendor' = "accepted" /\ answered'
    BY <1>1, <1>2, <2>1, StageOrder DEF StagePasses, EarlyStages
  <2>3. StagesInv'
    BY <1>1, <2>2 DEF CallInv, StagesInv, HttpStages, FcmStages, SmtpStages, EarlyStages
  <2>4. ErrorInv'
    BY <1>1, <2>1 DEF CallInv, ErrorInv, NoError, Replies, FcmRefusals, FcmOutages
  <2>5. VendorInv'
    BY <1>1, <2>1, <2>2 DEF CallInv, VendorInv, EarlyStages
  <2> QED BY <2>2, <2>3, <2>4, <2>5 DEF CallInv, EarlyStages
<1>3. CASE StageRejected
  <2>1. /\ UNCHANGED pc /\ err' \in Replies /\ vendor' = "refused" /\ answered'
        /\ pc \in SmtpStages \ {"accepted"}
    BY <1>3 DEF StageRejected, Replies, SmtpStages, EarlyStages
  <2>2. StagesInv'
    BY <1>1, <2>1 DEF CallInv, StagesInv
  <2>3. ErrorInv'
    BY <1>1, <2>1 DEF ErrorInv, NoError, Replies, FcmRefusals, FcmOutages
  <2>4. VendorInv'
    BY <1>1, <2>1 DEF VendorInv, SmtpStages, EarlyStages, NoError, Replies
  <2> QED BY <2>1, <2>2, <2>3, <2>4 DEF CallInv, SmtpStages, EarlyStages
<1> QED BY <1>2, <1>3

LEMMA FcmStep ==
  ASSUME CallInv, err = NoError, SdkFails \/ messagingClient \/ SdkRetries \/ FcmAnswers
  PROVE  CallInv'
<1>1. UNCHANGED <<adapter, canceled>> /\ pc \in FcmStages
  BY DEF SdkFails, messagingClient, SdkRetries, FcmAnswers, At, startup, ghosts, FcmStages
<1>2. adapter = "firebase_push"
  BY <1>1 DEF CallInv, StagesInv
<1>3. \/ pc' \in FcmStages /\ err' \in FcmOutages \cup {NoError, "timeout", "canceled", "other"}
      \/ pc' = "fcm_send" /\ err' \in FcmRefusals /\ vendor' = "refused" /\ answered'
      \/ /\ pc' = "body" /\ answered' /\ err' = NoError
         /\ resp'.body = "message_id" => vendor' = "accepted"
  BY DEF SdkFails, messagingClient, SdkRetries, FcmAnswers, At, startup, ghosts, FcmStages
<1>4. StagesInv'
  BY <1>1, <1>2, <1>3 DEF CallInv, StagesInv, HttpStages, FcmStages, SmtpStages, EarlyStages
<1>5. ErrorInv'
  BY <1>1, <1>2, <1>3 DEF ErrorInv, NoError, Replies, FcmRefusals, FcmOutages
<1>6. VendorInv'
  BY <1>1, <1>2, <1>3 DEF VendorInv, FcmStages, HttpAdapters
<1> QED BY <1>3, <1>4, <1>5, <1>6 DEF CallInv, FcmStages

(* An exchange breaks. *)
LEMMA BreakStep ==
  ASSUME CallInv, Breaks
  PROVE  CallInv'
<1>1. /\ UNCHANGED <<adapter, canceled, pc, request, answered, resp>> /\ err = NoError
      /\ err' \in {"network", "timeout", "canceled"} /\ (err' = "canceled" => canceled)
      /\ BeforeMessage \/ request = "bare" \/ vendor \in {"accepted", "refused"} =>
           vendor' = vendor
      /\ ~(adapter = "firebase_push" /\ pc = "body")
  BY DEF Breaks, startup
<1>2. pc \in HttpStages \cup FcmStages \cup EarlyStages \cup {"body", "data_commit"}
  BY StageSet DEF Breaks, Exchanging, HttpStages, FcmStages
<1>3. pc = "dial" => vendor' = vendor
  BY <1>1 DEF BeforeMessage
<1>4. StagesInv'
  BY <1>1 DEF CallInv, StagesInv
<1>5. ErrorInv'
  BY <1>1 DEF ErrorInv, NoError, Replies, FcmRefusals, FcmOutages
<1>6. Accepting' = Accepting /\ Refusing' = Refusing /\ ToBare' = ToBare
  BY <1>1 DEF Accepting, Refusing, ToBare, Ambiguous
<1>7. VendorInv'
  BY <1>1, <1>2, <1>3, <1>6
     DEF CallInv, VendorInv, EarlyStages, NoError, Replies, HttpStages, FcmStages
<1> QED BY <1>1, <1>2, <1>4, <1>5, <1>7
        DEF CallInv, HttpStages, FcmStages, EarlyStages

LEMMA CallStep ==
  ASSUME CallInv, [Next]_vars
  PROVE  CallInv'
<1>1. CASE SendRefused
  <2>1. Sound(Result(FALSE, FALSE, "FCM_CREDENTIAL_EMPTY"))
    BY SoundResult DEF Rejections
  <2> QED BY <1>1, <2>1, SoundAdapterError, FinishStep DEF SendRefused
<1>2. CASE Interpret
  BY <1>2, SoundInterpreted, FinishStep DEF Interpret
<1>3. CASE SMTPAccepted
  <2>1. vendor = "accepted" /\ answered
    BY <1>3 DEF SMTPAccepted, CallInv, VendorInv
  <2>2. Sound(Result(TRUE, FALSE, ""))
    BY <2>1, SoundResult DEF Rejections
  <2> QED BY <1>3, <2>2, FinishStep DEF SMTPAccepted
<1>4. CASE Fail
  BY <1>4, SoundFailures, FinishStep DEF Fail
<1>5. CASE Cancel
  <2>1. /\ UNCHANGED <<adapter, pc, request, vendor, answered, err, resp, result>> /\ canceled'
        /\ canceled' \in BOOLEAN
    BY <1>5 DEF Cancel, startup, ghosts
  <2>2. StagesInv' /\ ErrorInv'
    BY <2>1 DEF CallInv, StagesInv, ErrorInv
  <2>3. VendorInv'
    BY <2>1 DEF CallInv, VendorInv, Accepting, Refusing, ToBare, Ambiguous
  <2>4. pc' = "observe" => Sound(result)'
    BY <2>1 DEF CallInv, Sound
  <2> QED BY <2>2, <2>3, <2>4 DEF CallInv
<1>6. CASE Retry
  <2>1. StagesInv' /\ ErrorInv' /\ VendorInv'
    BY <1>6 DEF Retry, startup, CallInv, StagesInv, ErrorInv, VendorInv, HttpStages, FcmStages,
                SmtpStages, EarlyStages, NoError, Replies, FcmRefusals, FcmOutages
  <2> QED BY <1>6, <2>1 DEF Retry, CallInv
<1>7. CASE UNCHANGED vars
  BY <1>7 DEF vars, CallInv, StagesInv, ErrorInv, VendorInv, Sound, Accepting, Refusing, ToBare,
              Ambiguous
<1> QED BY <1>1, <1>2, <1>3, <1>4, <1>5, <1>6, <1>7, StartStep, HttpStep, SmtpStep, FcmStep,
           BreakStep DEF Next

LEMMA CallInvariant == Spec => []CallInv
  BY CallInit, CallStep, PTL DEF Spec

-----------------------------------------------------------------------------
(* An adapter reports success only on the vendor's acceptance in the same  *)
(* call (loadtest_http behind a 302 excepted), and a rejection only on an  *)
(* answer that was none: whatever stage of sendSMTP, client.Send or        *)
(* httpclient.Client.Do the call ends at.                                  *)
THEOREM VerdictsAreTheVendors == Spec => []VerdictIsVendors
<1>1. CallInv => VerdictIsVendors
  BY DEF CallInv, Sound, VerdictIsVendors
<1> QED BY <1>1, CallInvariant, PTL

(* process reports no failure to the breaker for a call that the end of    *)
(* the worker's context cut, at any stage and for every adapter.           *)
THEOREM ShutdownsAreNotOutages == Spec => []ShutdownIsNotOutage
<1>1. CallInv => ShutdownIsNotOutage
  BY DEF CallInv, Sound, ShutdownIsNotOutage
<1> QED BY <1>1, CallInvariant, PTL
=============================================================================
