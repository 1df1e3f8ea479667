------------------------------- MODULE RabbitMQ -------------------------------
(***************************************************************************)
(* internal/mq/rabbitmq.go: the publisher with its one connection, and the *)
(* consumer that reconnects, handles deliveries concurrently, and delays a *)
(* retry by keeping the original unacknowledged, publishing a replacement  *)
(* when the timer fires and acknowledging the original afterwards.         *)
(*                                                                         *)
(* The broker is external: a durable queue of messages, at most prefetch   *)
(* of them unacknowledged on a channel, all of which return to the queue   *)
(* when the channel goes away.  A task is a goroutine of the consumer; it  *)
(* keeps the delivery it was started with, also after the channel it came  *)
(* from is gone and the broker has delivered the message again.            *)
(***************************************************************************)
EXTENDS Naturals, FiniteSets

CONSTANTS
  Events,          \* event ids in message bodies
  Junk,            \* a body decode rejects
  Concurrency,     \* handler slots: capacity of sem
  PrefetchCount,   \* prefetch_count of the configuration
  MaxUint,         \* largest attempts value a uint32 holds
  MaxMessages,     \* bound: messages in the broker at a time
  MaxPublishes,    \* bound: calls of Publish per event
  MaxFaults        \* bound: faults of the environment in one behaviour

ASSUME JunkAssumption == Junk \notin Events
ASSUME ConfigAssumption == /\ Concurrency \in Nat \ {0} /\ PrefetchCount \in Nat
                           /\ MaxUint \in Nat \ {0}
ASSUME BoundAssumption == MaxMessages \in Nat /\ MaxPublishes \in Nat /\ MaxFaults \in Nat

VARIABLES
  msg,        \* messages in the broker
  broker,     \* "up" or "down"
  pub,        \* the publisher's channel: "open" or "closed"
  loop,       \* where runLoop is
  gen,        \* number of times connect succeeded: the current channel
  ch,         \* the consumer's channel: "open" or "closed"
  retryCh,    \* the channel retries are published on
  buf,        \* deliveries the client has received and no goroutine has yet
  tasks,      \* goroutines handling or requeueing a delivery
  sent,       \* calls of Publish that reached the broker, per event
  published,  \* events with a confirmed call of Publish
  done,       \* events a handler returned nil for
  faults

consumer == <<loop, gen, ch, retryCh, buf>>
vars == <<msg, broker, pub, consumer, tasks, sent, published, done, faults>>

Slots == 1 .. MaxMessages
Bodies == Events \cup {Junk}
Free == [st |-> "free"]
Messages == [st : {"ready", "unacked"}, ev : Bodies, n : 1 .. MaxUint, gen : Nat]
Tasks == [m : Slots, gen : Nat, ev : Bodies, n : 1 .. MaxUint,
          pc : {"handle", "delay", "publish", "confirm", "ack"}]

Ready(e, n) == [st |-> "ready", ev |-> e, n |-> n, gen |-> 0]

(* The first free slot, so that states differ only in what is stored. *)
FreeSlots == {m \in Slots : msg[m] = Free /\ \A k \in 1 .. m - 1 : msg[k] # Free}

Unacked(m, g) == msg[m] # Free /\ msg[m].st = "unacked" /\ msg[m].gen = g
OnChannel(g) == {m \in Slots : Unacked(m, g)}
Live(e) == {m \in Slots : msg[m] # Free /\ msg[m].ev = e}

(* The broker takes back what a dead channel had not acknowledged. *)
Returned(q, g) ==
  [m \in Slots |-> IF q[m] # Free /\ q[m].st = "unacked" /\ q[m].gen = g
                   THEN Ready(q[m].ev, q[m].n) ELSE q[m]]

(* connect sets the prefetch to at least the concurrency. *)
Prefetch == IF PrefetchCount < Concurrency THEN Concurrency ELSE PrefetchCount

Running == {t \in tasks : t.pc = "handle"}

(* retryMu: publishRetry holds it until the broker has confirmed; connect  *)
(* and Close need it to replace or close the retry channel.                *)
RetryLocked == \E t \in tasks : t.pc = "confirm"

Fault == faults < MaxFaults /\ faults' = faults + 1

Init ==
  /\ msg = [m \in Slots |-> IF m = 1 THEN Ready(Junk, 1) ELSE Free]
  /\ broker = "up" /\ pub = "open"
  /\ loop = "start" /\ gen = 0 /\ ch = "closed" /\ retryCh = "nil"
  /\ buf = {} /\ tasks = {} /\ sent = [e \in Events |-> 0] /\ published = {} /\ done = {}
  /\ faults = 0

-----------------------------------------------------------------------------
(* Publisher *)

Put(e, n) == \E m \in FreeSlots : msg' = [msg EXCEPT ![m] = Ready(e, n)]

Send(e) ==
  /\ pub = "open"
  /\ sent[e] < MaxPublishes
  /\ Put(e, 1)
  /\ sent' = [sent EXCEPT ![e] = @ + 1]
  /\ UNCHANGED <<broker, pub, consumer, tasks, done>>

(* Publish waits for the confirmation; attempts start at one. *)
Publish(e) == Send(e) /\ published' = published \cup {e} /\ UNCHANGED faults

(* The confirmation does not arrive: an error, but the message is there.   *)
PublishUnconfirmed(e) == Send(e) /\ Fault /\ UNCHANGED published

(* Nothing reopens the publisher's channel but a new process. *)
newRabbitMQPublisher ==
  /\ pub = "closed" /\ broker = "up"
  /\ pub' = "open"
  /\ UNCHANGED <<msg, broker, consumer, tasks, sent, published, done, faults>>

-----------------------------------------------------------------------------
(* Consumer: connection *)

(* Start and waitAndReconnect: a new connection with a channel to consume  *)
(* and one to publish retries, installed together under retryMu.           *)
connect ==
  /\ loop \in {"start", "wait"} /\ broker = "up" /\ ~RetryLocked
  /\ gen' = gen + 1 /\ ch' = "open" /\ retryCh' = "open" /\ loop' = "consume" /\ buf' = {}
  /\ UNCHANGED <<msg, broker, pub, tasks, sent, published, done, faults>>

(* Consume fails, connClosed fires or deliveries is closed. *)
waitAndReconnect ==
  /\ loop = "consume" /\ ch = "closed"
  /\ loop' = "wait"
  /\ UNCHANGED <<msg, broker, pub, gen, ch, retryCh, buf, tasks, sent, published, done, faults>>

(* External: the broker pushes a message while the prefetch allows. *)
Push(m) ==
  /\ loop = "consume" /\ ch = "open" /\ broker = "up"
  /\ msg[m] # Free /\ msg[m].st = "ready"
  /\ Cardinality(OnChannel(gen)) < Prefetch
  /\ msg' = [msg EXCEPT ![m].st = "unacked", ![m].gen = gen]
  /\ buf' = buf \cup {[m |-> m, gen |-> gen, ev |-> msg[m].ev, n |-> msg[m].n,
                       pc |-> "handle"]}
  /\ UNCHANGED <<broker, pub, loop, gen, ch, retryCh, tasks, sent, published, done, faults>>

-----------------------------------------------------------------------------
(* Consumer: deliveries *)

(* A handler slot is taken, then the goroutine is started: also for what   *)
(* a channel delivered before it died, and after the context has ended.    *)
consumeUntilClosed(t) ==
  /\ loop \in {"consume", "stopping"}
  /\ Cardinality(Running) < Concurrency
  /\ buf' = buf \ {t}
  /\ tasks' = tasks \cup {t}
  /\ UNCHANGED <<msg, broker, pub, loop, gen, ch, retryCh, sent, published, done, faults>>

(* Ack and Nack reach the broker only over the channel of the delivery. *)
Acked(t) == IF Unacked(t.m, t.gen) THEN [msg EXCEPT ![t.m] = Free] ELSE msg
Nacked(t) == IF Unacked(t.m, t.gen) THEN [msg EXCEPT ![t.m] = Ready(t.ev, t.n)] ELSE msg
Ack(t) == msg' = Acked(t)
Nack(t) == msg' = Nacked(t)

End(t) == tasks' = tasks \ {t}
Become(t, pc) == tasks' = (tasks \ {t}) \cup {[t EXCEPT !.pc = pc]}

(* Mutant: the original is acknowledged when the retry is scheduled. *)
handleDelivery_AcksFirst(t) ==
  /\ t.pc = "handle"
  /\ Ack(t)
  /\ \/ t.ev = Junk /\ End(t) /\ UNCHANGED done
     \/ t.ev # Junk /\ End(t) /\ done' = done \cup {t.ev}
     \/ t.ev # Junk /\ Become(t, "delay") /\ UNCHANGED done
  /\ UNCHANGED <<broker, pub, consumer, sent, published, faults>>

(* A malformed body is dropped; nil acknowledges; an error starts          *)
(* requeueAfter, which no longer holds the slot.                           *)
handleDelivery(t) ==
  /\ t.pc = "handle"
  /\ \/ t.ev = Junk /\ Ack(t) /\ End(t) /\ UNCHANGED done
     \/ t.ev # Junk /\ Ack(t) /\ End(t) /\ done' = done \cup {t.ev}
     \/ t.ev # Junk /\ Become(t, "delay") /\ UNCHANGED <<msg, done>>
  /\ UNCHANGED <<broker, pub, consumer, sent, published, faults>>

Stopping == loop \in {"stopping", "stopped"}

(* requeueAfter: the timer fires, or the context of a process that stops   *)
(* ends the goroutine and leaves the original to the broker.               *)
requeueAfter(t) ==
  /\ t.pc = "delay"
  /\ IF Stopping THEN End(t) ELSE Become(t, "publish")
  /\ UNCHANGED <<msg, broker, pub, consumer, sent, published, done, faults>>

(* Mutant: the uint32 wraps. *)
NextAttempts_Wraps(n) == (n + 1) % (MaxUint + 1)

(* The uint32 stays at its largest value instead of wrapping to zero. *)
NextAttempts(n) == IF n = MaxUint THEN n ELSE n + 1

(* The replacement goes out on whatever channel connect installed last,    *)
(* not the one the delivery came from.                                     *)
publishRetry(t) ==
  /\ t.pc = "publish" /\ ~RetryLocked /\ retryCh = "open"
  /\ Put(t.ev, NextAttempts(t.n))
  /\ Become(t, "confirm")
  /\ UNCHANGED <<broker, pub, consumer, sent, published, done, faults>>

publishRetryConfirmed(t) ==
  /\ t.pc = "confirm" /\ retryCh = "open"
  /\ Become(t, "ack")
  /\ UNCHANGED <<msg, broker, pub, consumer, sent, published, done, faults>>

(* Mutant: the original is acknowledged although nothing was published. *)
publishRetryFails_Acks(t) ==
  /\ t.pc = "publish" /\ ~RetryLocked
  /\ Ack(t) /\ End(t)
  /\ UNCHANGED <<broker, pub, consumer, sent, published, done, faults>>

(* No channel, a closed one, or a broker that nacks the replacement on an  *)
(* open one and stores nothing: the original is returned to the queue.     *)
publishRetryFails(t) ==
  /\ t.pc = "publish" /\ ~RetryLocked
  /\ Nack(t) /\ End(t)
  /\ UNCHANGED <<broker, pub, consumer, sent, published, done, faults>>

(* Mutant: the wait for the confirmation only ends with the context. *)
publishRetryUnconfirmed_Waits(t) ==
  /\ t.pc = "confirm" /\ Stopping
  /\ Nack(t) /\ End(t)
  /\ UNCHANGED <<broker, pub, consumer, sent, published, done, faults>>

(* The channel closes, which the library reports as a negative             *)
(* confirmation, or the context ends: the original is returned although    *)
(* the broker has the replacement.                                         *)
publishRetryUnconfirmed(t) ==
  /\ t.pc = "confirm" /\ (retryCh # "open" \/ Stopping)
  /\ Nack(t) /\ End(t)
  /\ UNCHANGED <<broker, pub, consumer, sent, published, done, faults>>

(* Mutant: the original is returned to the queue after the replacement. *)
ackOriginal_Nacks(t) ==
  /\ t.pc = "ack"
  /\ Nack(t) /\ End(t)
  /\ UNCHANGED <<broker, pub, consumer, sent, published, done, faults>>

ackOriginal(t) ==
  /\ t.pc = "ack"
  /\ Ack(t) /\ End(t)
  /\ UNCHANGED <<broker, pub, consumer, sent, published, done, faults>>

-----------------------------------------------------------------------------
(* Losing channels, connections, brokers and processes *)

LoseConsumer == ch' = "closed" /\ msg' = Returned(msg, gen)

(* The consumer's channel, its connection, or only the retry channel. *)
ConnectionLost ==
  /\ loop = "consume"
  /\ Fault
  /\ \/ LoseConsumer /\ UNCHANGED retryCh
     \/ LoseConsumer /\ retryCh' = "closed"
     \/ retryCh' = "closed" /\ UNCHANGED <<ch, msg>>
  /\ UNCHANGED <<broker, pub, loop, gen, buf, tasks, sent, published, done>>

PublisherLost ==
  /\ pub = "open"
  /\ Fault
  /\ pub' = "closed"
  /\ UNCHANGED <<msg, broker, consumer, tasks, sent, published, done>>

(* The queue is durable and messages are persistent. *)
BrokerStops ==
  /\ broker = "up"
  /\ Fault
  /\ broker' = "down" /\ pub' = "closed" /\ ch' = "closed"
  /\ retryCh' = IF retryCh = "nil" THEN "nil" ELSE "closed"
  /\ msg' = Returned(msg, gen)
  /\ UNCHANGED <<loop, gen, buf, tasks, sent, published, done>>

BrokerStarts ==
  /\ broker = "down"
  /\ broker' = "up"
  /\ UNCHANGED <<msg, pub, consumer, tasks, sent, published, done, faults>>

(* The worker is told to stop: the context ends and runLoop returns; the   *)
(* goroutines are still running, on channels that are still open.          *)
Cancel ==
  /\ loop \in {"consume", "wait"}
  /\ Fault
  /\ loop' = "stopping"
  /\ UNCHANGED <<msg, broker, pub, gen, ch, retryCh, buf, tasks, sent, published, done>>

(* Close does not wait for the goroutines. *)
Close ==
  /\ loop = "stopping" /\ ~RetryLocked
  /\ loop' = "stopped" /\ ch' = "closed" /\ retryCh' = "nil"
  /\ msg' = Returned(msg, gen)
  /\ UNCHANGED <<broker, pub, gen, buf, tasks, sent, published, done, faults>>

(* The process ends, with whatever its goroutines were doing, and starts   *)
(* again.                                                                  *)
Restart ==
  /\ loop = "stopped"
  /\ loop' = "start" /\ buf' = {} /\ tasks' = {}
  /\ UNCHANGED <<msg, broker, pub, gen, ch, retryCh, sent, published, done, faults>>

TaskStep(t) == \/ handleDelivery(t) \/ requeueAfter(t) \/ publishRetry(t)
               \/ publishRetryConfirmed(t) \/ publishRetryFails(t)
               \/ publishRetryUnconfirmed(t) \/ ackOriginal(t)

ConsumerStep == connect \/ waitAndReconnect \/ Close \/ Restart \/ BrokerStarts

Next ==
  \/ \E e \in Events : Publish(e) \/ PublishUnconfirmed(e)
  \/ newRabbitMQPublisher \/ ConsumerStep
  \/ \E m \in Slots : Push(m)
  \/ \E t \in buf : consumeUntilClosed(t)
  \/ \E t \in tasks : TaskStep(t)
  \/ ConnectionLost \/ PublisherLost \/ BrokerStops \/ Cancel

Spec == Init /\ [][Next]_vars

(* Some goroutine that can run does, timers fire, a broker that went down  *)
(* comes back and the consumer reaches it, and the broker delivers what is *)
(* in the queue.                                                           *)
Fairness ==
  /\ WF_vars(ConsumerStep)
  /\ WF_vars(\E m \in Slots : Push(m))
  /\ WF_vars(\E t \in buf : consumeUntilClosed(t))
  /\ WF_vars(\E t \in tasks : TaskStep(t))
LiveSpec == Spec /\ Fairness

-----------------------------------------------------------------------------
(* Properties *)

TypeOK ==
  /\ msg \in [Slots -> Messages \cup {Free}]
  /\ broker \in {"up", "down"} /\ pub \in {"open", "closed"}
  /\ loop \in {"start", "consume", "wait", "stopping", "stopped"}
  /\ gen \in Nat /\ ch \in {"open", "closed"} /\ retryCh \in {"nil", "open", "closed"}
  /\ buf \subseteq Tasks /\ tasks \subseteq Tasks
  /\ sent \in [Events -> 0 .. MaxPublishes] /\ published \subseteq Events
  /\ done \subseteq Events
  /\ faults \in 0 .. MaxFaults

(* A message whose publish was confirmed stays in the broker, as itself or *)
(* as its replacement, until a handler has returned nil for the event:     *)
(* whatever channel, connection, broker or process is lost, and when.  It  *)
(* is what the receipt {Durable: true} promises the compensator.           *)
ConfirmedIsKept ==
  \A e \in published \ done : Live(e) # {}

(* Originals whose replacement is in the queue already: its confirmation   *)
(* or their acknowledgement is under way.                                  *)
Replaced == {m \in Slots : \E t \in tasks :
               t.pc \in {"confirm", "ack"} /\ t.m = m /\ Unacked(m, t.gen)}
Fresh(e) == Live(e) \ Replaced

(* A delayed retry duplicates nothing by itself: replaced originals left   *)
(* out, the copies of an event are those its publisher sent and, for each  *)
(* lost channel, connection, confirmation, broker or process, at most one  *)
(* more for every delivery the prefetch allows to be outstanding.          *)
DuplicatesNeedFaults ==
  \A e \in Events : Cardinality(Fresh(e)) <= sent[e] + faults * Prefetch

Queue == INSTANCE MessageQueue WITH
           sent <- {e \in Events : sent[e] > 0},
           kept <- {e \in Events : Fresh(e) # {}},
           done <- done

(* Delays, replacements, reconnects and shutdowns amount to an             *)
(* at-least-once queue: no step but a handler's nil ends the delivery of   *)
(* an event, confirmed or not, nothing is handled that was not published,  *)
(* and only what was handled before comes back by itself.                  *)
ImplementsQueue == Queue!Spec

(* As long as no handler has returned nil for every published event,       *)
(* events are handled again and again: no fault leaves the queue parked on *)
(* a dead channel, behind the prefetch, in a forgotten goroutine or behind *)
(* a confirmation that keeps connect from installing the next channel.     *)
HandledUntilDone ==
  []<>(published \subseteq done \/ \E t \in Running : t.ev # Junk)
=============================================================================
