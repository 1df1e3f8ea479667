----------------------------- MODULE MemoryBroker -----------------------------
(***************************************************************************)
(* internal/mq/memory.go: a bounded channel, a fixed pool of consumers,    *)
(* one goroutine per delayed requeue, and Close, which refuses new work    *)
(* and waits for both groups of goroutines.                                *)
(*                                                                         *)
(* A wake is one message: what one accepted call of Publish put into the   *)
(* channel, followed through its requeues.  The RWMutex makes every step   *)
(* below atomic; the operations are instantiated by the process that owns  *)
(* the broker (Server), which also owns the context.                       *)
(***************************************************************************)
EXTENDS Naturals, Sequences

CONSTANTS
  Wakes,        \* calls of Publish
  Consumers,    \* goroutines of the pool: the concurrency
  BufferSize,   \* capacity of jobs
  MaxUint,      \* largest attempts value
  NoWake

ASSUME BrokerAssumption == /\ BufferSize \in Nat \ {0}   \* NewMemoryBroker
                           /\ MaxUint \in Nat \ {0}
                           /\ NoWake \notin Wakes

VARIABLES
  ctxDone,    \* the context of the worker has ended
  jobs,       \* the channel
  attempts,   \* attempts of each message
  place,      \* where each wake is
  started, closed,
  consumer,   \* what each goroutine of the pool does
  holds,      \* the wake a consumer is handling
  once        \* closeOnce: how far the first call of Close is

brokerVars == <<jobs, attempts, place, started, closed, consumer, holds, once>>

Places == {"none", "queued", "handling", "failed", "timer", "fired", "done", "lost"}
ConsumerStates == {"none", "running", "exited"}
OnceStates == {"unused", "workers", "requeues", "done"}

BrokerTypeOK ==
  /\ ctxDone \in BOOLEAN
  /\ jobs \in Seq(Wakes) /\ Len(jobs) <= BufferSize
  /\ attempts \in [Wakes -> 1 .. MaxUint]
  /\ place \in [Wakes -> Places]
  /\ started \in BOOLEAN /\ closed \in BOOLEAN
  /\ consumer \in [Consumers -> ConsumerStates]
  /\ holds \in [Consumers -> Wakes \cup {NoWake}]
  /\ once \in OnceStates

NewMemoryBroker ==
  /\ jobs = <<>> /\ attempts = [w \in Wakes |-> 1] /\ place = [w \in Wakes |-> "none"]
  /\ started = FALSE /\ closed = FALSE
  /\ consumer = [c \in Consumers |-> "none"] /\ holds = [c \in Consumers |-> NoWake]
  /\ once = "unused"

Move(w, p) == place' = [place EXCEPT ![w] = p]
Holding(c, w) == holds' = [holds EXCEPT ![c] = w]

-----------------------------------------------------------------------------
(* Intake *)

Accepts == ~closed /\ Len(jobs) < BufferSize

(* publishMessage never blocks: the message is in the channel, or closed,  *)
(* full or ended is reported.                                              *)
publishMessage(w) == /\ Accepts
                     /\ jobs' = Append(jobs, w) /\ Move(w, "queued")

publishMessageFails(w, ended) == /\ ~Accepts \/ ended
                                 /\ Move(w, "lost") /\ UNCHANGED jobs

(* Publish, with the caller's own context, which may have ended.           *)
Publish(w) == /\ place[w] = "none"
              /\ publishMessage(w) \/ publishMessageFails(w, TRUE)
              /\ UNCHANGED <<ctxDone, attempts, started, closed, consumer, holds, once>>

-----------------------------------------------------------------------------
(* Consumers *)

(* Start launches the pool once, unless Close came first. *)
Start ==
  /\ ~closed /\ ~started
  /\ started' = TRUE
  /\ consumer' = [c \in Consumers |-> "running"]
  /\ UNCHANGED <<ctxDone, jobs, attempts, place, closed, holds, once>>

Free(c) == consumer[c] = "running" /\ holds[c] = NoWake

(* select: the end of the context, done, or a message, whichever is ready. *)
consumeExits(c) ==
  /\ Free(c) /\ (ctxDone \/ closed)
  /\ consumer' = [consumer EXCEPT ![c] = "exited"]
  /\ UNCHANGED <<ctxDone, jobs, attempts, place, started, closed, holds, once>>

consume(c) ==
  /\ Free(c) /\ jobs # <<>>
  /\ jobs' = Tail(jobs)
  /\ Move(Head(jobs), "handling") /\ Holding(c, Head(jobs))
  /\ UNCHANGED <<ctxDone, attempts, started, closed, consumer, once>>

(* The handler returns nil, or an error that asks for a requeue. *)
handlerReturns(c) ==
  /\ holds[c] # NoWake /\ place[holds[c]] = "handling"
  /\ \/ Move(holds[c], "done") /\ Holding(c, NoWake)
     \/ Move(holds[c], "failed") /\ UNCHANGED holds
  /\ UNCHANGED <<ctxDone, jobs, attempts, started, closed, consumer, once>>

(* scheduleRequeue adds to requeues only before Close. *)
scheduleRequeue(c) ==
  /\ holds[c] # NoWake /\ place[holds[c]] = "failed"
  /\ Move(holds[c], IF closed THEN "lost" ELSE "timer")
  /\ Holding(c, NoWake)
  /\ UNCHANGED <<ctxDone, jobs, attempts, started, closed, consumer, once>>

-----------------------------------------------------------------------------
(* Delayed requeues *)

(* Mutant: the uint32 wraps. *)
NextAttempts_Wraps(n) == (n + 1) % (MaxUint + 1)

NextAttempts(n) == IF n = MaxUint THEN n ELSE n + 1

(* The context or done ends the wait at once; otherwise the timer fires. *)
requeueAfter(w) ==
  /\ place[w] = "timer"
  /\ \/ (ctxDone \/ closed) /\ Move(w, "lost") /\ UNCHANGED attempts
     \/ Move(w, "fired") /\ attempts' = [attempts EXCEPT ![w] = NextAttempts(@)]
  /\ UNCHANGED <<ctxDone, jobs, started, closed, consumer, holds, once>>

(* The replacement is dropped when the channel is full. *)
requeuePublish(w) ==
  /\ place[w] = "fired"
  /\ publishMessage(w) \/ publishMessageFails(w, ctxDone)
  /\ UNCHANGED <<ctxDone, attempts, started, closed, consumer, holds, once>>

-----------------------------------------------------------------------------
(* Close *)

WorkersDone == \A c \in Consumers : consumer[c] # "running"
RequeuesDone == \A w \in Wakes : place[w] \notin {"timer", "fired"}

(* The first caller closes intake; it waits outside the mutex. *)
Close ==
  /\ once = "unused"
  /\ closed' = TRUE /\ once' = "workers"
  /\ UNCHANGED <<ctxDone, jobs, attempts, place, started, consumer, holds>>

WaitWorkers ==
  /\ once = "workers" /\ WorkersDone
  /\ once' = "requeues"
  /\ UNCHANGED <<ctxDone, jobs, attempts, place, started, closed, consumer, holds>>

WaitRequeues ==
  /\ once = "requeues" /\ RequeuesDone
  /\ once' = "done"
  /\ UNCHANGED <<ctxDone, jobs, attempts, place, started, closed, consumer, holds>>

(* Mutant: a second caller does not wait for the first. *)
CloseReturns_AtOnce == once # "unused"

(* Every caller of Close returns when the first one is through. *)
CloseReturns == once = "done"

(* Ready: what the readiness probe reports. *)
Ready == started /\ ~closed

BrokerStep ==
  \/ \E c \in Consumers : consumeExits(c) \/ consume(c) \/ handlerReturns(c)
                          \/ scheduleRequeue(c)
  \/ \E w \in Wakes : requeueAfter(w) \/ requeuePublish(w)
  \/ WaitWorkers \/ WaitRequeues

(* No goroutine of the broker is running. *)
Quiet == WorkersDone /\ RequeuesDone
=============================================================================
