-------------------------------- MODULE Server --------------------------------
(***************************************************************************)
(* cmd/server/main.go in memory mode: one process that serves HTTP and     *)
(* gRPC, runs the embedded worker over a MemoryBroker, and on a signal or  *)
(* on the failure of any of them stops the servers, closes the broker and  *)
(* then the database, in that order.                                       *)
(*                                                                         *)
(* main, the goroutine of Worker.Run, the broker's goroutines and the      *)
(* calls that publish a wake (API requests and scans of the compensator)   *)
(* run concurrently until main returns and the process with it.            *)
(***************************************************************************)
EXTENDS MemoryBroker

VARIABLES
  main,       \* where run is
  worker,     \* where the goroutine of Worker.Run is
  server,     \* the two servers
  failed,     \* components whose error waits in its channel
  runErr,     \* run returns an error
  signalled,  \* SIGINT or SIGTERM arrived
  forced,     \* servers whose shutdown ran into its timeout
  db,
  call        \* the kind of each call and where it is

processVars == <<main, worker, server, failed, runErr, signalled, forced, db, call>>
vars == <<ctxDone, brokerVars, processVars>>

Servers == {"http", "grpc"}
Kinds == Servers \cup {"scan"}
NoCall == <<"none", "none">>
Ended == <<"none", "done">>
MainStates == {"setup", "select", "http", "http_wait", "grpc", "grpc_wait", "grpc_stop",
               "close", "closing", "database", "exited"}
WorkerStates == {"none", "start", "wait", "close", "closing", "returned"}

Init ==
  /\ NewMemoryBroker
  /\ ctxDone = FALSE
  /\ main = "setup" /\ worker = "none" /\ server = [s \in Servers |-> "off"]
  /\ failed = {} /\ runErr = FALSE /\ signalled = FALSE /\ forced = {}
  /\ db = "open" /\ call = [w \in Wakes |-> NoCall]

Alive == main # "exited"
Running(k) == {w \in Wakes : call[w] \in {<<k, "database">>, <<k, "publish">>}}

-----------------------------------------------------------------------------
(* Calls *)

Accepting(k) == IF k = "scan" THEN worker # "none" ELSE server[k] = "serving"

CallBegins(w, k) ==
  /\ Alive /\ call[w] = NoCall /\ Accepting(k)
  /\ call' = [call EXCEPT ![w] = <<k, "database">>]
  /\ UNCHANGED <<ctxDone, brokerVars, main, worker, server, failed, runErr, signalled,
                 forced, db>>

(* The row is stored or selected; a statement that fails ends the call. *)
CallStored(w, k) ==
  /\ Alive /\ call[w] = <<k, "database">>
  /\ \/ db = "open" /\ call' = [call EXCEPT ![w] = <<k, "publish">>]
     \/ call' = [call EXCEPT ![w] = Ended]
  /\ UNCHANGED <<ctxDone, brokerVars, main, worker, server, failed, runErr, signalled,
                 forced, db>>

CallPublishes(w, k) ==
  /\ Alive /\ call[w] = <<k, "publish">>
  /\ Publish(w)
  /\ call' = [call EXCEPT ![w] = Ended]
  /\ UNCHANGED <<main, worker, server, failed, runErr, signalled, forced, db>>

-----------------------------------------------------------------------------
(* The embedded worker: Worker.Run and its goroutine *)

WorkerAt(p) == worker' = p /\ UNCHANGED <<main, server, runErr, signalled, forced, db, call>>

RunStarts ==
  /\ Alive /\ worker = "start"
  /\ Start
  /\ WorkerAt("wait") /\ UNCHANGED failed

(* Close was first: Run returns the error of Start. *)
RunRefused ==
  /\ Alive /\ worker = "start" /\ closed
  /\ failed' = failed \cup {"worker"}
  /\ WorkerAt("returned") /\ UNCHANGED <<ctxDone, brokerVars>>

RunCanceled ==
  /\ Alive /\ worker = "wait" /\ ctxDone
  /\ WorkerAt("close") /\ UNCHANGED <<ctxDone, brokerVars, failed>>

(* closeOnce lets one of the two callers close; the other waits. *)
CallClose == Close \/ (once # "unused" /\ UNCHANGED <<ctxDone, brokerVars>>)

RunCloses ==
  /\ Alive /\ worker = "close"
  /\ CallClose
  /\ WorkerAt("closing") /\ UNCHANGED failed

(* The context has ended, so the nil that Run returns is no error. *)
RunReturns ==
  /\ Alive /\ worker = "closing" /\ CloseReturns
  /\ WorkerAt("returned") /\ UNCHANGED <<ctxDone, brokerVars, failed>>

-----------------------------------------------------------------------------
(* main *)

MainAt(p) == main' = p /\ UNCHANGED <<signalled, call>>

(* A step of setup fails after the broker was made: the deferred calls.    *)
SetupFails ==
  /\ main = "setup"
  /\ runErr' = TRUE
  /\ MainAt("close")
  /\ UNCHANGED <<ctxDone, brokerVars, worker, server, failed, forced, db>>

GoroutinesStart ==
  /\ main = "setup"
  /\ worker' = "start" /\ server' = [s \in Servers |-> "serving"]
  /\ MainAt("select")
  /\ UNCHANGED <<ctxDone, brokerVars, failed, runErr, forced, db>>

(* Serve returns by itself; nobody reads the channel once the context has  *)
(* ended.                                                                  *)
ServeFails(s) ==
  /\ Alive /\ server[s] = "serving"
  /\ server' = [server EXCEPT ![s] = "failed"]
  /\ failed' = IF ctxDone THEN failed ELSE failed \cup {s}
  /\ UNCHANGED <<ctxDone, brokerVars, main, worker, runErr, signalled, forced, db, call>>

(* Mutant: a server that stops by itself is taken for a shutdown. *)
Select_IgnoresError ==
  /\ main = "select" /\ (ctxDone \/ failed # {})
  /\ ctxDone' = TRUE
  /\ MainAt("http")
  /\ UNCHANGED <<brokerVars, worker, server, failed, runErr, forced, db>>

(* select takes any branch that is ready; stop ends the context. *)
Select ==
  /\ main = "select"
  /\ \/ ctxDone /\ UNCHANGED runErr
     \/ failed # {} /\ runErr' = TRUE
  /\ ctxDone' = TRUE
  /\ MainAt("http")
  /\ UNCHANGED <<brokerVars, worker, server, failed, forced, db>>

(* srv.Shutdown and GracefulStop: no new calls. *)
ShutdownBegins(s) ==
  /\ main = s
  /\ server' = [server EXCEPT ![s] = "shutdown"]
  /\ MainAt(IF s = "http" THEN "http_wait" ELSE "grpc_wait")
  /\ UNCHANGED <<ctxDone, brokerVars, worker, failed, runErr, forced, db>>

Waiting(s) == main = IF s = "http" THEN "http_wait" ELSE "grpc_wait"
AfterShutdown(s) == IF s = "http" THEN "grpc" ELSE "close"

(* Mutant: the wait has no timeout. *)
ShutdownEnds_NoTimeout(s) ==
  /\ Waiting(s)
  /\ Running(s) = {} /\ UNCHANGED <<forced, runErr>>
  /\ MainAt(AfterShutdown(s))
  /\ UNCHANGED <<ctxDone, brokerVars, worker, server, failed, db>>

(* The running calls end, or the timeout passes.  srv.Shutdown leaves the  *)
(* calls that are late to themselves; gracefulStopGRPC forces a stop.      *)
ShutdownEnds(s) ==
  /\ Waiting(s)
  /\ \/ Running(s) = {} /\ MainAt(AfterShutdown(s)) /\ UNCHANGED <<forced, runErr>>
     \/ /\ Running(s) # {}
        /\ forced' = forced \cup {s} /\ runErr' = TRUE
        /\ MainAt(IF s = "http" THEN "grpc" ELSE "grpc_stop")
  /\ UNCHANGED <<ctxDone, brokerVars, worker, server, failed, db>>

(* Stop cancelled the calls; main waits for GracefulStop, which waits for  *)
(* them.                                                                   *)
ForcedStop ==
  /\ main = "grpc_stop" /\ Running("grpc") = {}
  /\ MainAt("close")
  /\ UNCHANGED <<ctxDone, brokerVars, worker, server, failed, runErr, forced, db>>

BrokerCloses ==
  /\ main = "close"
  /\ CallClose
  /\ MainAt("closing")
  /\ UNCHANGED <<worker, server, failed, runErr, forced, db>>

BrokerClosed ==
  /\ main = "closing" /\ CloseReturns
  /\ db' = "closed"
  /\ MainAt("database")
  /\ UNCHANGED <<ctxDone, brokerVars, worker, server, failed, runErr, forced>>

Exits ==
  /\ main = "database"
  /\ MainAt("exited")
  /\ UNCHANGED <<ctxDone, brokerVars, worker, server, failed, runErr, forced, db>>

Signal ==
  /\ Alive /\ ~ctxDone
  /\ ctxDone' = TRUE /\ signalled' = TRUE
  /\ UNCHANGED <<brokerVars, main, worker, server, failed, runErr, forced, db, call>>

-----------------------------------------------------------------------------
BrokerRuns == Alive /\ BrokerStep /\ UNCHANGED processVars

WorkerRuns == RunStarts \/ RunRefused \/ RunCanceled \/ RunCloses \/ RunReturns

MainRuns == \/ SetupFails \/ GoroutinesStart \/ Select
            \/ \E s \in Servers : ShutdownBegins(s) \/ ShutdownEnds(s)
            \/ ForcedStop \/ BrokerCloses \/ BrokerClosed \/ Exits

Terminated == main = "exited" /\ UNCHANGED vars

Next ==
  \/ \E w \in Wakes, k \in Kinds : CallBegins(w, k) \/ CallStored(w, k)
                                   \/ CallPublishes(w, k)
  \/ \E s \in Servers : ServeFails(s)
  \/ BrokerRuns \/ WorkerRuns \/ MainRuns \/ Signal \/ Terminated

(* A call whose context Stop cancelled: statements and publishes return.   *)
CanceledCalls == /\ main = "grpc_stop"
                 /\ \E w \in Wakes : CallStored(w, "grpc") \/ CallPublishes(w, "grpc")

(* Goroutines are scheduled, timers fire, and a handler returns: a         *)
(* provider call has a timeout.  Other API calls and scans are not assumed *)
(* to end.                                                                 *)
Fairness == /\ WF_vars(BrokerRuns) /\ WF_vars(WorkerRuns) /\ WF_vars(MainRuns)
            /\ WF_vars(CanceledCalls)

Spec == Init /\ [][Next]_vars /\ Fairness

-----------------------------------------------------------------------------
(* Properties *)

TypeOK ==
  /\ BrokerTypeOK
  /\ main \in MainStates /\ worker \in WorkerStates
  /\ server \in [Servers -> {"off", "serving", "failed", "shutdown"}]
  /\ failed \subseteq Servers \cup {"worker"} /\ forced \subseteq Servers
  /\ runErr \in BOOLEAN /\ signalled \in BOOLEAN
  /\ db \in {"open", "closed"}
  /\ call \in [Wakes -> {NoCall, Ended} \cup (Kinds \X {"database", "publish"})]

(* The database is closed under no one who still needs it: not under a     *)
(* handler or a delayed requeue of the broker, whichever of main and the   *)
(* worker closes the broker first and whether the worker was started in    *)
(* time, not under a gRPC call, and not under an HTTP call unless the      *)
(* shutdown of that server timed out.  Those, and the scans of the         *)
(* compensator, which nobody waits for, can find it closed.                *)
DatabaseOutlivesUsers ==
  db = "closed" => /\ Quiet
                   /\ Running("grpc") = {}
                   /\ "http" \in forced \/ Running("http") = {}

(* A process nobody told to stop exits with an error: the failure of any   *)
(* component reaches the supervisor that would restart it.                 *)
CleanExitNeedsSignal == main = "exited" /\ ~runErr => signalled

(* A signal or the failure of a component ends the process, although main  *)
(* and the worker wait for each other's Close, and calls may hang.         *)
EventuallyExits == ctxDone \/ failed # {} ~> main = "exited"
=============================================================================
