----------------------------- MODULE ServerProofs -----------------------------
(***************************************************************************)
(* Proofs about the server process for any number of calls and consumers   *)
(* and any buffer: the order in which it takes itself down.                *)
(***************************************************************************)
EXTENDS Server, TLAPS

(* Servers that main has waited for, or that never served. *)
StoppedServers == IF main \in {"setup", "select", "http", "http_wait"} THEN {}
                  ELSE IF main \in {"grpc", "grpc_wait", "grpc_stop"} THEN {"http"} ELSE Servers

(* The broker: what each stage of Close has seen stays true, because no    *)
(* consumer is started after it and a delayed requeue needs a consumer.    *)
CloseInv ==
  /\ closed <=> once # "unused"
  /\ \A c \in Consumers : holds[c] # NoWake => consumer[c] = "running"
  /\ once \in {"requeues", "done"} => WorkersDone
  /\ once = "done" => RequeuesDone

(* The process: the database is closed last, and a server main waited for  *)
(* has no calls, except HTTP when its timeout passed.                      *)
ShutdownInv ==
  /\ db = "closed" => main \in {"database", "exited"}
  /\ main \in {"database", "exited"} => once = "done"
  /\ \A s \in Servers :
       /\ server[s] = "off" => Running(s) = {}
       /\ main = "setup" => server[s] = "off"
       /\ Waiting(s) \/ s \in StoppedServers => server[s] # "serving"
       /\ s \in StoppedServers => Running(s) = {} \/ s \in {"http"} \cap forced
  /\ main = "grpc_stop" => server["grpc"] # "serving"

(* Why run returns nil. *)
ExitInv ==
  /\ main \in {"setup", "select"} /\ ctxDone => signalled
  /\ main \notin {"setup", "select"} /\ ~runErr => signalled

ServerInv == TypeOK /\ CloseInv /\ ShutdownInv /\ ExitInv

USE BrokerAssumption

-----------------------------------------------------------------------------
(* Types *)

LEMMA InitType == Init => TypeOK
<1> SUFFICES ASSUME Init PROVE TypeOK
  OBVIOUS
<1>1. BrokerTypeOK
  <2>1. jobs \in Seq(Wakes) /\ Len(jobs) <= BufferSize
    BY DEF Init, NewMemoryBroker
  <2>2. attempts \in [Wakes -> 1 .. MaxUint]
    BY DEF Init, NewMemoryBroker
  <2> QED BY <2>1, <2>2 DEF Init, NewMemoryBroker, BrokerTypeOK, Places, ConsumerStates,
                            OnceStates
<1>2. server \in [Servers -> {"off", "serving", "failed", "shutdown"}]
  BY DEF Init
<1>3. call \in [Wakes -> {NoCall, Ended} \cup (Kinds \X {"database", "publish"})]
  BY DEF Init
<1> QED BY <1>1, <1>2, <1>3 DEF Init, TypeOK, MainStates, WorkerStates

LEMMA PublishType ==
  ASSUME BrokerTypeOK, NEW w \in Wakes, NEW ended \in BOOLEAN,
         publishMessage(w) \/ publishMessageFails(w, ended)
  PROVE  jobs' \in Seq(Wakes) /\ Len(jobs') <= BufferSize /\ place' \in [Wakes -> Places]
<1>1. CASE publishMessage(w)
  <2>1. Len(jobs) < BufferSize /\ jobs' = Append(jobs, w) /\ jobs \in Seq(Wakes)
    BY <1>1 DEF BrokerTypeOK, publishMessage, Accepts
  <2>2. Len(Append(jobs, w)) = Len(jobs) + 1 /\ Append(jobs, w) \in Seq(Wakes)
        /\ Len(jobs) \in Nat
    BY <2>1
  <2> QED BY <1>1, <2>1, <2>2 DEF BrokerTypeOK, publishMessage, Move, Places
<1>2. CASE publishMessageFails(w, ended)
  BY <1>2 DEF BrokerTypeOK, publishMessageFails, Move, Places
<1> QED BY <1>1, <1>2

LEMMA BrokerStepType == BrokerTypeOK /\ BrokerStep => BrokerTypeOK'
<1> SUFFICES ASSUME BrokerTypeOK, BrokerStep PROVE BrokerTypeOK'
  OBVIOUS
<1> USE DEF BrokerTypeOK, Places, ConsumerStates, OnceStates
<1>1. ASSUME NEW c \in Consumers, consumeExits(c) PROVE BrokerTypeOK'
  BY <1>1 DEF consumeExits
<1>2. ASSUME NEW c \in Consumers, consume(c) PROVE BrokerTypeOK'
  <2>1. Head(jobs) \in Wakes /\ Tail(jobs) \in Seq(Wakes) /\ Len(Tail(jobs)) <= BufferSize
    BY <1>2 DEF consume
  <2> QED BY <1>2, <2>1 DEF consume, Move, Holding
<1>3. ASSUME NEW c \in Consumers, handlerReturns(c) PROVE BrokerTypeOK'
  BY <1>3 DEF handlerReturns, Move, Holding
<1>4. ASSUME NEW c \in Consumers, scheduleRequeue(c) PROVE BrokerTypeOK'
  BY <1>4 DEF scheduleRequeue, Move, Holding
<1>5. ASSUME NEW w \in Wakes, requeueAfter(w) PROVE BrokerTypeOK'
  BY <1>5 DEF requeueAfter, Move, NextAttempts
<1>6. ASSUME NEW w \in Wakes, requeuePublish(w) PROVE BrokerTypeOK'
  BY <1>6, PublishType DEF requeuePublish
<1>7. CASE WaitWorkers BY <1>7 DEF WaitWorkers
<1>8. CASE WaitRequeues BY <1>8 DEF WaitRequeues
<1> QED BY <1>1, <1>2, <1>3, <1>4, <1>5, <1>6, <1>7, <1>8 DEF BrokerStep

LEMMA CloseType == BrokerTypeOK /\ (Close \/ CallClose) => BrokerTypeOK'
  BY DEF BrokerTypeOK, CallClose, Close, brokerVars, OnceStates

LEMMA StartType == BrokerTypeOK /\ Start => BrokerTypeOK'
  BY DEF BrokerTypeOK, Start, ConsumerStates


LEMMA CallType ==
  ASSUME TypeOK, NEW w \in Wakes, NEW k \in Kinds,
         CallBegins(w, k) \/ CallStored(w, k) \/ CallPublishes(w, k)
  PROVE  TypeOK'
<1>1. call' \in [Wakes -> {NoCall, Ended} \cup (Kinds \X {"database", "publish"})]
  BY DEF TypeOK, CallBegins, CallStored, CallPublishes
<1>2. CASE CallBegins(w, k) \/ CallStored(w, k)
  BY <1>1, <1>2 DEF TypeOK, BrokerTypeOK, CallBegins, CallStored, brokerVars
<1>3. CASE CallPublishes(w, k)
  <2>1. BrokerTypeOK'
    BY <1>3, PublishType DEF TypeOK, BrokerTypeOK, CallPublishes, Publish
  <2> QED BY <1>1, <1>3, <2>1 DEF TypeOK, CallPublishes
<1> QED BY <1>2, <1>3

LEMMA WorkerType == TypeOK /\ WorkerRuns => TypeOK'
<1> SUFFICES ASSUME TypeOK, WorkerRuns PROVE TypeOK'
  OBVIOUS
<1>1. BrokerTypeOK'
  <2>1. CASE RunStarts BY <2>1, StartType DEF TypeOK, RunStarts
  <2>2. CASE RunCloses BY <2>2, CloseType DEF TypeOK, RunCloses
  <2>3. CASE RunRefused \/ RunCanceled \/ RunReturns
    BY <2>3 DEF TypeOK, BrokerTypeOK, RunRefused, RunCanceled, RunReturns, brokerVars
  <2> QED BY <2>1, <2>2, <2>3 DEF WorkerRuns
<1>2. /\ worker' \in WorkerStates /\ failed' \subseteq Servers \cup {"worker"}
      /\ UNCHANGED <<main, server, runErr, signalled, forced, db, call>>
  BY DEF TypeOK, WorkerRuns, RunStarts, RunRefused, RunCanceled, RunCloses, RunReturns,
         WorkerAt, WorkerStates
<1> QED BY <1>1, <1>2 DEF TypeOK

LEMMA MainType == TypeOK /\ MainRuns => TypeOK'
<1> SUFFICES ASSUME TypeOK, MainRuns PROVE TypeOK'
  OBVIOUS
<1>1. BrokerTypeOK'
  <2>1. CASE BrokerCloses BY <2>1, CloseType DEF TypeOK, BrokerCloses
  <2>2. CASE Select BY <2>2 DEF TypeOK, BrokerTypeOK, Select, brokerVars
  <2>3. CASE SetupFails \/ GoroutinesStart \/ ForcedStop \/ BrokerClosed \/ Exits
    BY <2>3 DEF TypeOK, BrokerTypeOK, SetupFails, GoroutinesStart, ForcedStop, BrokerClosed,
                Exits, brokerVars
  <2>4. ASSUME NEW s \in Servers, ShutdownBegins(s) \/ ShutdownEnds(s) PROVE BrokerTypeOK'
    BY <2>4 DEF TypeOK, BrokerTypeOK, ShutdownBegins, ShutdownEnds, brokerVars
  <2> QED BY <2>1, <2>2, <2>3, <2>4 DEF MainRuns
<1>2. CASE SetupFails \/ Select \/ ForcedStop \/ BrokerCloses \/ BrokerClosed \/ Exits
  BY <1>1, <1>2 DEF TypeOK, SetupFails, Select, ForcedStop, BrokerCloses, BrokerClosed,
                    Exits, MainAt, MainStates
<1>3. CASE GoroutinesStart
  BY <1>1, <1>3 DEF TypeOK, GoroutinesStart, MainAt, MainStates, WorkerStates
<1>4. ASSUME NEW s \in Servers, ShutdownBegins(s) \/ ShutdownEnds(s) PROVE TypeOK'
  BY <1>1, <1>4 DEF TypeOK, ShutdownBegins, ShutdownEnds, AfterShutdown, MainAt, MainStates,
                    Servers
<1> QED BY <1>2, <1>3, <1>4 DEF MainRuns

LEMMA StepType == TypeOK /\ [Next]_vars => TypeOK'
<1> SUFFICES ASSUME TypeOK, [Next]_vars PROVE TypeOK'
  OBVIOUS
<1>1. CASE BrokerRuns
  BY <1>1, BrokerStepType DEF BrokerRuns, TypeOK, processVars
<1>2. CASE Signal
  BY <1>2 DEF Signal, TypeOK, BrokerTypeOK, brokerVars
<1>3. CASE Terminated \/ UNCHANGED vars
  BY <1>3 DEF Terminated, TypeOK, BrokerTypeOK, vars, brokerVars, processVars
<1>4. ASSUME NEW s \in Servers, ServeFails(s) PROVE TypeOK'
  BY <1>4 DEF ServeFails, TypeOK, BrokerTypeOK, brokerVars
<1> QED BY <1>1, <1>2, <1>3, <1>4, CallType, WorkerType, MainType DEF Next

(* The type invariant of the process holds for every number of calls and   *)
(* consumers and every capacity: the channel never exceeds its capacity    *)
(* and the uint32 attempts saturate.                                       *)
THEOREM ServerTypeCorrect == Spec => []TypeOK
  BY InitType, StepType, PTL DEF Spec

-----------------------------------------------------------------------------
(* The broker *)

LEMMA PublishClose ==
  ASSUME BrokerTypeOK, CloseInv, NEW w \in Wakes, NEW ended \in BOOLEAN,
         publishMessage(w) \/ publishMessageFails(w, ended),
         UNCHANGED <<closed, consumer, holds, once>>
  PROVE  CloseInv'
<1>1. place' = [place EXCEPT ![w] = place'[w]] /\ place'[w] \in {"queued", "lost"}
  BY DEF BrokerTypeOK, publishMessage, publishMessageFails, Move
<1>2. RequeuesDone => RequeuesDone'
  BY <1>1 DEF BrokerTypeOK, RequeuesDone
<1> QED BY <1>2 DEF CloseInv, WorkersDone

LEMMA BrokerStepClose == BrokerTypeOK /\ CloseInv /\ BrokerStep => CloseInv'
<1> SUFFICES ASSUME BrokerTypeOK, CloseInv, BrokerStep PROVE CloseInv'
  OBVIOUS
<1>1. ASSUME NEW c \in Consumers, consumeExits(c) PROVE CloseInv'
  BY <1>1 DEF consumeExits, Free, BrokerTypeOK, CloseInv, WorkersDone, RequeuesDone
<1>2. ASSUME NEW c \in Consumers, consume(c) PROVE CloseInv'
  <2>1. once \notin {"requeues", "done"}
    BY <1>2 DEF consume, Free, CloseInv, WorkersDone
  <2>2. \A d \in Consumers : holds'[d] # NoWake => consumer[d] = "running"
    BY <1>2 DEF consume, Free, Holding, BrokerTypeOK, CloseInv
  <2> QED BY <1>2, <2>1, <2>2 DEF consume, CloseInv
<1>3. ASSUME NEW c \in Consumers, handlerReturns(c) \/ scheduleRequeue(c) PROVE CloseInv'
  <2>1. consumer[c] = "running"
    BY <1>3 DEF handlerReturns, scheduleRequeue, CloseInv
  <2>2. once \notin {"requeues", "done"}
    BY <2>1 DEF CloseInv, WorkersDone
  <2>3. \A d \in Consumers : holds'[d] # NoWake => consumer[d] = "running"
    BY <1>3 DEF handlerReturns, scheduleRequeue, Holding, BrokerTypeOK, CloseInv
  <2> QED BY <1>3, <2>2, <2>3 DEF handlerReturns, scheduleRequeue, CloseInv
<1>4. ASSUME NEW w \in Wakes, requeueAfter(w) PROVE CloseInv'
  <2>1. ~RequeuesDone
    BY <1>4 DEF requeueAfter, RequeuesDone
  <2> QED BY <1>4, <2>1 DEF requeueAfter, CloseInv, WorkersDone
<1>5. ASSUME NEW w \in Wakes, requeuePublish(w) PROVE CloseInv'
  BY <1>5, PublishClose DEF requeuePublish, BrokerTypeOK
<1>6. CASE WaitWorkers
  BY <1>6 DEF WaitWorkers, CloseInv, WorkersDone
<1>7. CASE WaitRequeues
  BY <1>7 DEF WaitRequeues, CloseInv, WorkersDone, RequeuesDone
<1> QED BY <1>1, <1>2, <1>3, <1>4, <1>5, <1>6, <1>7 DEF BrokerStep

LEMMA StepClose == TypeOK /\ CloseInv /\ [Next]_vars => CloseInv'
<1> SUFFICES ASSUME TypeOK, CloseInv, [Next]_vars PROVE CloseInv'
  OBVIOUS
<1>1. CASE UNCHANGED brokerVars
  BY <1>1 DEF brokerVars, CloseInv, WorkersDone, RequeuesDone
<1>2. CASE CallClose
  BY <1>2 DEF CallClose, Close, brokerVars, CloseInv, WorkersDone, RequeuesDone
<1>3. CASE Start
  BY <1>3 DEF Start, BrokerTypeOK, TypeOK, CloseInv, WorkersDone, RequeuesDone
<1>4. ASSUME NEW w \in Wakes, NEW k \in Kinds, CallPublishes(w, k) PROVE CloseInv'
  BY <1>4, PublishClose DEF CallPublishes, Publish, TypeOK
<1>5. CASE BrokerRuns
  BY <1>5, BrokerStepClose DEF BrokerRuns, TypeOK
<1>6. ASSUME NEW w \in Wakes, NEW k \in Kinds, CallBegins(w, k) \/ CallStored(w, k)
      PROVE  CloseInv'
  BY <1>1, <1>6 DEF CallBegins, CallStored
<1>7. CASE WorkerRuns
  BY <1>1, <1>2, <1>3, <1>7 DEF WorkerRuns, RunStarts, RunRefused, RunCanceled, RunCloses,
                                RunReturns
<1>8. CASE MainRuns
  BY <1>1, <1>2, <1>8 DEF MainRuns, SetupFails, GoroutinesStart, Select, ShutdownBegins,
                          ShutdownEnds, ForcedStop, BrokerCloses, BrokerClosed, Exits
<1>9. CASE Signal \/ Terminated \/ UNCHANGED vars \/ \E s \in Servers : ServeFails(s)
  BY <1>1, <1>9 DEF Signal, Terminated, vars, ServeFails
<1> QED BY <1>4, <1>5, <1>6, <1>7, <1>8, <1>9 DEF Next

-----------------------------------------------------------------------------
(* The shutdown of the process *)

LEMMA RunningKept ==
  ASSUME TypeOK, NEW s \in Servers, NEW w \in Wakes, NEW k \in Kinds,
         CallStored(w, k) \/ CallPublishes(w, k), Running(s) = {}
  PROVE  Running(s)' = {}
<1>1. call[w] \in {<<k, "database">>, <<k, "publish">>}
  BY DEF CallStored, CallPublishes
<1>2. k # s
  BY <1>1 DEF Running
<1>3. \A v \in Wakes : call'[v] = call[v] \/ call'[v] \in {<<k, "publish">>, Ended}
  BY DEF TypeOK, CallStored, CallPublishes
<1>4. s # "none"
  BY DEF Servers
<1> QED BY <1>2, <1>3, <1>4 DEF Running, Ended

LEMMA CallShutdown ==
  ASSUME TypeOK, ShutdownInv, NEW w \in Wakes, NEW k \in Kinds,
         CallBegins(w, k) \/ CallStored(w, k) \/ CallPublishes(w, k)
  PROVE  ShutdownInv'
<1>1. UNCHANGED <<main, server, forced, db>> /\ (once = "done" => once' = "done")
  BY DEF CallBegins, CallStored, CallPublishes, Publish, brokerVars
<1>2. ASSUME NEW s \in Servers, server[s] # "serving", Running(s) = {}
      PROVE  Running(s)' = {}
  <2>1. CASE CallBegins(w, k)
    <3>1. k # s
      BY <1>2, <2>1 DEF CallBegins, Accepting, Servers
    <3> QED BY <1>2, <2>1, <3>1 DEF CallBegins, TypeOK, Running
  <2> QED BY <1>2, <2>1, RunningKept
<1> QED BY <1>1, <1>2 DEF ShutdownInv, StoppedServers, Waiting

LEMMA MainShutdown == TypeOK /\ ShutdownInv /\ MainRuns => ShutdownInv'
<1> SUFFICES ASSUME TypeOK, ShutdownInv, MainRuns PROVE ShutdownInv'
  OBVIOUS
<1> USE DEF ShutdownInv, StoppedServers, Waiting, MainAt, Servers
<1>1. UNCHANGED call /\ \A s \in Servers : Running(s)' = Running(s)
  BY DEF MainRuns, SetupFails, GoroutinesStart, Select, ShutdownBegins, ShutdownEnds,
         ForcedStop, BrokerCloses, BrokerClosed, Exits, Running
<1>2. CASE SetupFails BY <1>1, <1>2 DEF SetupFails
<1>3. CASE GoroutinesStart BY <1>1, <1>3 DEF GoroutinesStart
<1>4. CASE Select BY <1>1, <1>4 DEF Select
<1>5. CASE ShutdownBegins("http") BY <1>1, <1>5 DEF ShutdownBegins, TypeOK
<1>6. CASE ShutdownBegins("grpc") BY <1>1, <1>6 DEF ShutdownBegins, TypeOK
<1>7. CASE ShutdownEnds("http") BY <1>1, <1>7 DEF ShutdownEnds, AfterShutdown
<1>8. CASE ShutdownEnds("grpc") BY <1>1, <1>8 DEF ShutdownEnds, AfterShutdown
<1>9. CASE BrokerCloses BY <1>1, <1>9 DEF BrokerCloses
<1>10. CASE BrokerClosed BY <1>1, <1>10 DEF BrokerClosed, CloseReturns, brokerVars
<1>11. CASE Exits BY <1>1, <1>11 DEF Exits, brokerVars
<1>12. CASE ForcedStop BY <1>1, <1>12 DEF ForcedStop, brokerVars
<1> QED BY <1>2, <1>3, <1>4, <1>5, <1>6, <1>7, <1>8, <1>9, <1>10, <1>11, <1>12 DEF MainRuns

LEMMA StepShutdown == TypeOK /\ ShutdownInv /\ [Next]_vars => ShutdownInv'
<1> SUFFICES ASSUME TypeOK, ShutdownInv, [Next]_vars PROVE ShutdownInv'
  OBVIOUS
<1>1. ASSUME UNCHANGED <<main, server, forced, db, call>>, once = "done" => once' = "done"
      PROVE  ShutdownInv'
  BY <1>1 DEF ShutdownInv, StoppedServers, Waiting, Running
<1>2. CASE BrokerRuns
  <2>1. once = "done" => once' = "done"
    BY <1>2 DEF BrokerRuns, BrokerStep, consumeExits, consume, handlerReturns,
                scheduleRequeue, requeueAfter, requeuePublish, WaitWorkers, WaitRequeues
  <2> QED BY <1>1, <1>2, <2>1 DEF BrokerRuns, processVars
<1>3. CASE WorkerRuns
  <2>1. once = "done" => once' = "done"
    BY <1>3 DEF WorkerRuns, RunStarts, Start, RunRefused, RunCanceled, RunCloses, CallClose,
                Close, RunReturns, brokerVars
  <2> QED BY <1>1, <1>3, <2>1 DEF WorkerRuns, RunStarts, RunRefused, RunCanceled, RunCloses,
                                  RunReturns, WorkerAt
<1>4. CASE Signal \/ Terminated \/ UNCHANGED vars
  BY <1>1, <1>4 DEF Signal, Terminated, vars, brokerVars, processVars
<1>5. ASSUME NEW s \in Servers, ServeFails(s) PROVE ShutdownInv'
  BY <1>5 DEF ServeFails, TypeOK, ShutdownInv, StoppedServers, Waiting, Running, brokerVars
<1> QED BY <1>2, <1>3, <1>4, <1>5, CallShutdown, MainShutdown DEF Next

-----------------------------------------------------------------------------
(* The result of the process *)

LEMMA StepExit == TypeOK /\ ExitInv /\ [Next]_vars => ExitInv'
<1> SUFFICES ASSUME TypeOK, ExitInv, [Next]_vars PROVE ExitInv'
  OBVIOUS
<1>1. CASE UNCHANGED <<ctxDone, main, runErr, signalled>>
  BY <1>1 DEF ExitInv
<1>2. CASE Signal
  BY <1>2 DEF Signal, ExitInv
<1>3. CASE MainRuns
  <2> USE DEF MainAt, ExitInv
  <2>1. CASE SetupFails \/ GoroutinesStart BY <2>1 DEF SetupFails, GoroutinesStart
  <2>2. CASE Select BY <2>2 DEF Select
  <2>3. ASSUME NEW s \in Servers, ShutdownBegins(s) PROVE ExitInv'
    BY <2>3 DEF ShutdownBegins, Servers
  <2>4. ASSUME NEW s \in Servers, ShutdownEnds(s) PROVE ExitInv'
    BY <2>4 DEF ShutdownEnds, Waiting, AfterShutdown, Servers, TypeOK
  <2>5. CASE BrokerCloses BY <2>5 DEF BrokerCloses
  <2>6. CASE ForcedStop \/ BrokerClosed \/ Exits
    BY <2>6 DEF ForcedStop, BrokerClosed, Exits
  <2> QED BY <1>3, <2>1, <2>2, <2>3, <2>4, <2>5, <2>6 DEF MainRuns
<1>4. CASE WorkerRuns
  BY <1>1, <1>4 DEF WorkerRuns, RunStarts, Start, RunRefused, RunCanceled, RunCloses,
                    CallClose, Close, RunReturns, WorkerAt
<1>5. CASE BrokerRuns
  BY <1>1, <1>5 DEF BrokerRuns, BrokerStep, consumeExits, consume, handlerReturns,
                    scheduleRequeue, requeueAfter, requeuePublish, WaitWorkers, WaitRequeues,
                    processVars
<1>6. ASSUME NEW w \in Wakes, NEW k \in Kinds,
             CallBegins(w, k) \/ CallStored(w, k) \/ CallPublishes(w, k)
      PROVE  ExitInv'
  BY <1>1, <1>6 DEF CallBegins, CallStored, CallPublishes, Publish
<1>7. CASE Terminated \/ UNCHANGED vars \/ \E s \in Servers : ServeFails(s)
  BY <1>1, <1>7 DEF Terminated, vars, processVars, ServeFails
<1> QED BY <1>2, <1>3, <1>4, <1>5, <1>6, <1>7 DEF Next

-----------------------------------------------------------------------------
LEMMA InitServerInv == Init => ServerInv
<1> SUFFICES ASSUME Init PROVE ServerInv
  OBVIOUS
<1>1. \A s \in Servers : Running(s) = {}
  BY DEF Init, Running, NoCall, Servers
<1>2. CloseInv
  BY DEF Init, NewMemoryBroker, CloseInv
<1>3. ShutdownInv
  BY <1>1 DEF Init, ShutdownInv, StoppedServers, Waiting
<1>4. ExitInv
  BY DEF Init, ExitInv
<1> QED BY <1>2, <1>3, <1>4, InitType DEF ServerInv

LEMMA ServerInvariant == Spec => []ServerInv
<1>1. ServerInv /\ [Next]_vars => ServerInv'
  BY StepType, StepClose, StepShutdown, StepExit DEF ServerInv
<1> QED BY <1>1, InitServerInv, PTL DEF Spec

(* main.go closes the database only when no consumer, no delayed requeue   *)
(* and no API call, except HTTP calls that outlived their timeout, can     *)
(* still use it, whichever of main and the worker calls Close first.       *)
THEOREM DatabaseIsClosedLast == Spec => []DatabaseOutlivesUsers
<1>1. ServerInv => DatabaseOutlivesUsers
  <2> SUFFICES ASSUME ServerInv, db = "closed"
               PROVE  /\ Quiet /\ Running("grpc") = {}
                      /\ "http" \in forced \/ Running("http") = {}
    BY DEF DatabaseOutlivesUsers
  <2>1. main \in {"database", "exited"} /\ once = "done"
    BY DEF ServerInv, ShutdownInv
  <2>2. Quiet
    BY <2>1 DEF ServerInv, CloseInv, Quiet
  <2>3. StoppedServers = Servers
    BY <2>1 DEF StoppedServers
  <2> QED BY <2>2, <2>3 DEF ServerInv, ShutdownInv, Servers
<1> QED BY <1>1, ServerInvariant, PTL

(* run returns nil only after a signal: the failure of a server, of the    *)
(* worker or of setup is never reported as a clean exit.                   *)
THEOREM CleanExitIsSignalled == Spec => []CleanExitNeedsSignal
<1>1. ServerInv => CleanExitNeedsSignal
  BY DEF ServerInv, ExitInv, CleanExitNeedsSignal
<1> QED BY <1>1, ServerInvariant, PTL
=============================================================================
