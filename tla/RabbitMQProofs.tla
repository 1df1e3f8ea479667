---------------------------- MODULE RabbitMQProofs ----------------------------
(***************************************************************************)
(* Proofs about the RabbitMQ publisher and consumer for any number of      *)
(* events, messages, publishes and faults, any prefetch and concurrency;   *)
(* and about the delay of a retry, for any width of time.Duration.         *)
(***************************************************************************)
EXTENDS RabbitMQ, RequeueDelay, FiniteSetTheorems, TLAPS

(* Every delivery the process knows of. *)
Deliveries == buf \cup tasks

(* Only the channel that is open has deliveries outstanding, and no more   *)
(* than the prefetch.                                                      *)
ChannelInv ==
  /\ loop \in {"start", "wait", "stopped"} => ch = "closed"
  /\ \A m \in Slots : msg[m] # Free /\ msg[m].st = "unacked" =>
       msg[m].gen = gen /\ ch = "open"
  /\ Cardinality(OnChannel(gen)) <= Prefetch

(* A delivery that can still be acknowledged. *)
Current(t) == t.gen = gen /\ ch = "open"

(* A current delivery is the broker's own record of it, and one goroutine  *)
(* has it: an acknowledgement never hits another message that meanwhile    *)
(* took the place.                                                         *)
TaskInv ==
  /\ IsFiniteSet(buf) /\ IsFiniteSet(tasks)
  /\ \A t \in Deliveries : t.gen <= gen
  /\ \A t \in buf : t.pc = "handle"
  /\ \A t \in Deliveries : Current(t) => Unacked(t.m, t.gen) /\ msg[t.m].ev = t.ev
  /\ \A t, u \in Deliveries : Current(t) /\ Current(u) /\ t.m = u.m => t = u
  /\ buf \cap tasks = {}

(* Every message and delivery goes back to a publish. *)
OriginInv ==
  /\ \A e \in published : sent[e] > 0
  /\ \A m \in Slots : msg[m] # Free /\ msg[m].ev # Junk => sent[msg[m].ev] > 0
  /\ \A t \in Deliveries : t.ev # Junk => sent[t.ev] > 0

(* An event that reached the queue and is not done has a message nobody    *)
(* has replaced: ConfirmedIsKept alone allows two originals that count on  *)
(* each other.                                                             *)
KeptInv == \A e \in Events \ done : sent[e] > 0 => Fresh(e) # {}

(* Deliveries of a dead channel: their originals are back in the queue,    *)
(* and they will publish a replacement all the same.                       *)
Stale(e) == {t \in Deliveries : /\ t.ev = e /\ t.pc \in {"handle", "delay", "publish"}
                                /\ ~Unacked(t.m, t.gen)}

(* Originals that a fault of the past lets return although they have been  *)
(* replaced: any of them while the process stops, those waiting for a      *)
(* confirmation once the retry channel is lost.                            *)
Owed == IF loop = "stopping" THEN OnChannel(gen)
        ELSE IF retryCh = "open" THEN {}
        ELSE {m \in Slots : \E t \in tasks : t.pc = "confirm" /\ t.m = m /\ Unacked(m, t.gen)}

(* The copies of an event there are or will be without another fault. *)
Copies(e) == ({"message"} \X Fresh(e)) \cup ({"delivery"} \X Stale(e)) \cup ({"owed"} \X Owed)

CopiesInv == \A e \in Events : Cardinality(Copies(e)) <= sent[e] + faults * Prefetch

QueueInv == TypeOK /\ ChannelInv /\ TaskInv
RabbitInv == QueueInv /\ OriginInv /\ KeptInv /\ CopiesInv

USE JunkAssumption, ConfigAssumption, BoundAssumption

-----------------------------------------------------------------------------
(* Counting *)

LEMMA CountSmaller ==
  ASSUME NEW S, IsFiniteSet(S), NEW T, T \subseteq S
  PROVE  /\ IsFiniteSet(T) /\ Cardinality(T) \in Nat /\ Cardinality(S) \in Nat
         /\ Cardinality(T) <= Cardinality(S)
  BY FS_Subset, FS_CardinalityType

LEMMA CountUnion ==
  ASSUME NEW S, IsFiniteSet(S), NEW U, IsFiniteSet(U), NEW T, T \subseteq S \cup U
  PROVE  /\ IsFiniteSet(T) /\ Cardinality(T) \in Nat
         /\ Cardinality(S) \in Nat /\ Cardinality(U) \in Nat
         /\ Cardinality(T) <= Cardinality(S) + Cardinality(U)
<1>1. /\ Cardinality(S) \in Nat /\ Cardinality(U) \in Nat
      /\ IsFiniteSet(S \cap U) /\ Cardinality(S \cap U) \in Nat
  BY FS_Intersection, FS_CardinalityType
<1>2. /\ IsFiniteSet(S \cup U)
      /\ Cardinality(S \cup U) = Cardinality(S) + Cardinality(U) - Cardinality(S \cap U)
  BY FS_Union
<1>3. /\ IsFiniteSet(T) /\ Cardinality(T) \in Nat
      /\ Cardinality(T) <= Cardinality(S \cup U)
  BY <1>2, CountSmaller
<1> QED BY <1>1, <1>2, <1>3

LEMMA CountAdded ==
  ASSUME NEW S, IsFiniteSet(S), NEW x, NEW T, T \subseteq S \cup {x}
  PROVE  /\ IsFiniteSet(T) /\ Cardinality(T) \in Nat /\ Cardinality(S) \in Nat
         /\ Cardinality(T) <= Cardinality(S) + 1
<1>1. IsFiniteSet({x}) /\ Cardinality({x}) = 1
  BY FS_Singleton
<1> QED BY <1>1, CountUnion

(* Some elements give way to no more others. *)
LEMMA CountExchanged ==
  ASSUME NEW S, IsFiniteSet(S), NEW V, V \subseteq S, NEW U, IsFiniteSet(U),
         Cardinality(U) <= Cardinality(V), NEW T, T \subseteq (S \ V) \cup U
  PROVE  /\ IsFiniteSet(T) /\ Cardinality(T) \in Nat /\ Cardinality(S) \in Nat
         /\ Cardinality(T) <= Cardinality(S)
<1>1. /\ IsFiniteSet(V) /\ Cardinality(V) \in Nat /\ Cardinality(S) \in Nat
      /\ S \cap V = V
  BY CountSmaller
<1>2. IsFiniteSet(S \ V) /\ Cardinality(S \ V) = Cardinality(S) - Cardinality(V)
  BY <1>1, FS_Difference
<1>3. /\ IsFiniteSet(T) /\ Cardinality(T) \in Nat /\ Cardinality(U) \in Nat
      /\ Cardinality(T) <= Cardinality(S \ V) + Cardinality(U)
  BY <1>2, CountUnion
<1> QED BY <1>1, <1>2, <1>3

LEMMA CountReplaced ==
  ASSUME NEW S, IsFiniteSet(S), NEW x \in S, NEW y, NEW T, T \subseteq (S \ {x}) \cup {y}
  PROVE  /\ IsFiniteSet(T) /\ Cardinality(T) \in Nat /\ Cardinality(S) \in Nat
         /\ Cardinality(T) <= Cardinality(S)
<1>1. /\ IsFiniteSet({x}) /\ Cardinality({x}) = 1
      /\ IsFiniteSet({y}) /\ Cardinality({y}) = 1
  BY FS_Singleton
<1>2. {x} \subseteq S /\ Cardinality({y}) <= Cardinality({x})
  BY <1>1
<1> QED BY <1>1, <1>2, CountExchanged

LEMMA CountImage ==
  ASSUME NEW S, IsFiniteSet(S), NEW T, NEW f \in [S -> T], \A y \in T : \E x \in S : f[x] = y
  PROVE  IsFiniteSet(T) /\ Cardinality(T) <= Cardinality(S)
<1>1. f \in Surjection(S, T)
  BY DEF Surjection
<1> QED BY <1>1, FS_Surjection

-----------------------------------------------------------------------------
(* Types *)

LEMMA PrefetchType == Prefetch \in Nat \ {0}
  BY DEF Prefetch

LEMMA ReadyType ==
  ASSUME NEW e \in Bodies, NEW n \in 1 .. MaxUint
  PROVE  /\ Ready(e, n) \in Messages /\ Ready(e, n) # Free
         /\ Ready(e, n).st = "ready" /\ Ready(e, n).ev = e
  BY DEF Ready, Messages, Free

LEMMA MessageType ==
  ASSUME TypeOK, NEW m \in Slots, msg[m] # Free
  PROVE  /\ msg[m] \in Messages /\ msg[m].ev \in Bodies /\ msg[m].n \in 1 .. MaxUint
         /\ msg[m].st \in {"ready", "unacked"}
  BY DEF TypeOK, Messages

LEMMA ReturnedType ==
  ASSUME TypeOK, msg' = Returned(msg, gen)
  PROVE  msg' \in [Slots -> Messages \cup {Free}]
  BY MessageType, ReadyType DEF TypeOK, Returned

LEMMA PutType ==
  ASSUME TypeOK, NEW e \in Bodies, NEW n \in 1 .. MaxUint, Put(e, n)
  PROVE  msg' \in [Slots -> Messages \cup {Free}]
  BY ReadyType DEF TypeOK, Put, FreeSlots

LEMMA AttemptsType ==
  ASSUME NEW n \in 1 .. MaxUint
  PROVE  NextAttempts(n) \in 1 .. MaxUint
  BY DEF NextAttempts

LEMMA TaskType ==
  ASSUME TypeOK, NEW t \in tasks
  PROVE  /\ t \in Tasks /\ t.m \in Slots /\ t.ev \in Bodies /\ t.n \in 1 .. MaxUint
         /\ Acked(t) \in [Slots -> Messages \cup {Free}]
         /\ Nacked(t) \in [Slots -> Messages \cup {Free}]
         /\ \A pc \in {"delay", "publish", "confirm", "ack"} :
              Become(t, pc) => tasks' \subseteq Tasks
<1>1. t \in Tasks /\ t.m \in Slots /\ t.ev \in Bodies /\ t.n \in 1 .. MaxUint
  BY DEF TypeOK, Tasks
<1>2. \A pc \in {"delay", "publish", "confirm", "ack"} : [t EXCEPT !.pc = pc] \in Tasks
  BY <1>1 DEF Tasks
<1> QED BY <1>1, <1>2, ReadyType DEF Acked, Nacked, TypeOK, Become

LEMMA TypeInit == Init => TypeOK
<1>1. Junk \in Bodies /\ 1 \in 1 .. MaxUint
  BY DEF Bodies
<1>2. Ready(Junk, 1) \in Messages
  BY <1>1, ReadyType
<1> QED BY <1>2 DEF Init, TypeOK

LEMMA TypeTask ==
  ASSUME TypeOK, NEW t \in tasks, TaskStep(t)
  PROVE  TypeOK'
<1> USE TaskType
<1>1. CASE handleDelivery(t)
  BY <1>1 DEF handleDelivery, TypeOK, Ack, End, consumer, Bodies
<1>2. CASE requeueAfter(t)
  BY <1>2 DEF requeueAfter, TypeOK, End, consumer
<1>3. CASE publishRetry(t)
  <2>1. msg' \in [Slots -> Messages \cup {Free}]
    BY <1>3, PutType, AttemptsType DEF publishRetry
  <2> QED BY <1>3, <2>1 DEF publishRetry, TypeOK, consumer
<1>4. CASE publishRetryConfirmed(t)
  BY <1>4 DEF publishRetryConfirmed, TypeOK, consumer
<1>5. CASE publishRetryFails(t) \/ publishRetryUnconfirmed(t)
  BY <1>5 DEF publishRetryFails, publishRetryUnconfirmed, TypeOK, Nack, End, consumer
<1>6. CASE ackOriginal(t)
  BY <1>6 DEF ackOriginal, TypeOK, Ack, End, consumer
<1> QED BY <1>1, <1>2, <1>3, <1>4, <1>5, <1>6 DEF TaskStep

LEMMA TypeStep == TypeOK /\ [Next]_vars => TypeOK'
<1> SUFFICES ASSUME TypeOK, [Next]_vars PROVE TypeOK'
  OBVIOUS
<1>1. ASSUME NEW e \in Events, Publish(e) \/ PublishUnconfirmed(e) PROVE TypeOK'
  <2>1. msg' \in [Slots -> Messages \cup {Free}]
    BY <1>1, PutType DEF Publish, PublishUnconfirmed, Send, Bodies
  <2>2. sent' \in [Events -> 0 .. MaxPublishes]
    BY <1>1 DEF Publish, PublishUnconfirmed, Send, TypeOK
  <2>3. faults' \in 0 .. MaxFaults
    BY <1>1 DEF Publish, PublishUnconfirmed, Fault, TypeOK
  <2> QED BY <1>1, <2>1, <2>2, <2>3
          DEF Publish, PublishUnconfirmed, Send, TypeOK, consumer
<1>2. CASE newRabbitMQPublisher \/ connect \/ waitAndReconnect \/ Restart \/ BrokerStarts
  BY <1>2 DEF newRabbitMQPublisher, connect, waitAndReconnect, Restart, BrokerStarts, TypeOK,
              consumer
<1>3. CASE Close
  BY <1>3, ReturnedType DEF Close, TypeOK
<1>4. ASSUME NEW m \in Slots, Push(m) PROVE TypeOK'
  <2>1. msg[m] \in Messages
    BY <1>4, MessageType DEF Push
  <2>2. [m |-> m, gen |-> gen, ev |-> msg[m].ev, n |-> msg[m].n, pc |-> "handle"] \in Tasks
    BY <2>1 DEF Tasks, Messages, TypeOK
  <2>3. [msg[m] EXCEPT !.st = "unacked", !.gen = gen] \in Messages
    BY <2>1 DEF Messages, TypeOK
  <2>4. msg' \in [Slots -> Messages \cup {Free}]
    BY <1>4, <2>3 DEF Push, TypeOK
  <2> QED BY <1>4, <2>2, <2>4 DEF Push, TypeOK
<1>5. ASSUME NEW t \in buf, consumeUntilClosed(t) PROVE TypeOK'
  BY <1>5 DEF consumeUntilClosed, TypeOK
<1>6. ASSUME NEW t \in tasks, TaskStep(t) PROVE TypeOK'
  BY <1>6, TypeTask
<1>7. CASE ConnectionLost
  BY <1>7, ReturnedType DEF ConnectionLost, LoseConsumer, Fault, TypeOK
<1>8. CASE PublisherLost
  BY <1>8 DEF PublisherLost, Fault, TypeOK, consumer
<1>9. CASE BrokerStops
  BY <1>9, ReturnedType DEF BrokerStops, Fault, TypeOK
<1>10. CASE Cancel
  BY <1>10 DEF Cancel, Fault, TypeOK
<1>11. CASE UNCHANGED vars
  BY <1>11 DEF vars, TypeOK, consumer
<1> QED BY <1>1, <1>2, <1>3, <1>4, <1>5, <1>6, <1>7, <1>8, <1>9, <1>10, <1>11
        DEF Next, ConsumerStep

-----------------------------------------------------------------------------
(* What a step does to the messages *)

LEMMA SlotsFinite == IsFiniteSet(Slots)
  BY FS_Interval DEF Slots

LEMMA PutMessage ==
  ASSUME TypeOK, NEW e \in Bodies, NEW n \in 1 .. MaxUint, Put(e, n)
  PROVE  \E s \in Slots : /\ msg[s] = Free /\ msg'[s] = Ready(e, n)
                          /\ \A k \in Slots \ {s} : msg'[k] = msg[k]
  BY DEF TypeOK, Put, FreeSlots

LEMMA ReturnedMessages ==
  ASSUME TypeOK, ChannelInv, msg' = Returned(msg, gen)
  PROVE  \A k \in Slots : /\ msg'[k] = Free <=> msg[k] = Free
                          /\ msg[k] # Free => msg'[k].ev = msg[k].ev /\ msg'[k].st = "ready"
<1> TAKE k \in Slots
<1>1. msg'[k] = IF msg[k] # Free /\ msg[k].st = "unacked" /\ msg[k].gen = gen
                THEN Ready(msg[k].ev, msg[k].n) ELSE msg[k]
  BY DEF Returned
<1>2. msg[k] # Free /\ msg[k].st = "unacked" => msg[k].gen = gen
  BY DEF ChannelInv
<1> QED BY <1>1, <1>2, MessageType, ReadyType

(* An acknowledgement that arrives is one of a current delivery. *)
LEMMA UnackedIsCurrent ==
  ASSUME QueueInv, NEW m \in Slots, NEW g, Unacked(m, g)
  PROVE  g = gen /\ ch = "open"
  BY DEF QueueInv, ChannelInv, Unacked

LEMMA AckMessage ==
  ASSUME TypeOK, NEW t \in tasks, Ack(t)
  PROVE  \/ UNCHANGED msg /\ ~Unacked(t.m, t.gen)
         \/ /\ Unacked(t.m, t.gen) /\ msg'[t.m] = Free
            /\ \A k \in Slots \ {t.m} : msg'[k] = msg[k]
  BY TaskType DEF Ack, Acked, TypeOK

LEMMA NackMessage ==
  ASSUME TypeOK, NEW t \in tasks, Nack(t)
  PROVE  \/ UNCHANGED msg /\ ~Unacked(t.m, t.gen)
         \/ /\ Unacked(t.m, t.gen) /\ msg'[t.m] = Ready(t.ev, t.n)
            /\ \A k \in Slots \ {t.m} : msg'[k] = msg[k]
  BY TaskType DEF Nack, Nacked, TypeOK

-----------------------------------------------------------------------------
(* Channels *)

(* Nothing new is outstanding. *)
LEMMA ChannelKept ==
  ASSUME QueueInv, UNCHANGED gen,
         loop' \in {"start", "wait", "stopped"} => ch' = "closed",
         \A k \in Slots : msg'[k] # Free /\ msg'[k].st = "unacked" =>
                            msg'[k] = msg[k] /\ ch' = ch
  PROVE  ChannelInv'
<1>1. OnChannel(gen)' \subseteq OnChannel(gen)
  BY DEF OnChannel, Unacked
<1>2. IsFiniteSet(OnChannel(gen))
  BY SlotsFinite, FS_Subset DEF OnChannel
<1>3. /\ Cardinality(OnChannel(gen)') \in Nat /\ Cardinality(OnChannel(gen)) \in Nat
      /\ Cardinality(OnChannel(gen)') <= Cardinality(OnChannel(gen))
  BY <1>1, <1>2, CountSmaller
<1>4. Cardinality(OnChannel(gen)') <= Prefetch
  BY <1>3, PrefetchType DEF QueueInv, ChannelInv
<1>5. Prefetch' = Prefetch /\ Cardinality(OnChannel(gen))' = Cardinality(OnChannel(gen)')
  BY DEF Prefetch
<1> QED BY <1>4, <1>5 DEF QueueInv, ChannelInv

LEMMA ChannelReturned ==
  ASSUME QueueInv, UNCHANGED gen, ch' = "closed", msg' = Returned(msg, gen)
  PROVE  ChannelInv'
  BY ReturnedMessages, ChannelKept DEF QueueInv

LEMMA ChannelPut ==
  ASSUME QueueInv, UNCHANGED <<gen, ch, loop>>, NEW e \in Bodies, NEW n \in 1 .. MaxUint,
         Put(e, n)
  PROVE  ChannelInv'
<1>1. PICK s \in Slots : /\ msg[s] = Free /\ msg'[s] = Ready(e, n)
                         /\ \A k \in Slots \ {s} : msg'[k] = msg[k]
  BY PutMessage DEF QueueInv
<1>2. \A k \in Slots : msg'[k] # Free /\ msg'[k].st = "unacked" => msg'[k] = msg[k]
  BY <1>1, ReadyType
<1> QED BY <1>2, ChannelKept DEF QueueInv, ChannelInv

LEMMA ChannelSame ==
  ASSUME QueueInv, UNCHANGED <<msg, gen, ch>>,
         loop' \in {"start", "wait", "stopped"} => ch' = "closed"
  PROVE  ChannelInv'
  BY ChannelKept DEF QueueInv

LEMMA ChannelTask ==
  ASSUME QueueInv, NEW t \in tasks, TaskStep(t)
  PROVE  ChannelInv'
<1>1. UNCHANGED <<gen, ch, loop>>
  BY DEF TaskStep, handleDelivery, requeueAfter, publishRetry, publishRetryConfirmed,
         publishRetryFails, publishRetryUnconfirmed, ackOriginal, consumer
<1>2. CASE UNCHANGED msg
  BY <1>1, <1>2, ChannelSame DEF QueueInv, ChannelInv
<1>3. CASE Ack(t) \/ Nack(t)
  <2>1. \A k \in Slots : msg'[k] # Free /\ msg'[k].st = "unacked" => msg'[k] = msg[k]
    BY <1>3, AckMessage, NackMessage, TaskType, ReadyType DEF QueueInv
  <2> QED BY <1>1, <2>1, ChannelKept DEF QueueInv, ChannelInv
<1>4. CASE publishRetry(t)
  BY <1>1, <1>4, ChannelPut, TaskType, AttemptsType DEF publishRetry, QueueInv
<1> QED BY <1>2, <1>3, <1>4 DEF TaskStep, handleDelivery, requeueAfter, publishRetryConfirmed,
           publishRetryFails, publishRetryUnconfirmed, ackOriginal

LEMMA PushMessage ==
  ASSUME TypeOK, NEW m \in Slots, Push(m)
  PROVE  /\ msg[m] # Free /\ msg[m].st = "ready"
         /\ msg'[m] # Free /\ msg'[m].st = "unacked" /\ msg'[m].gen = gen
         /\ msg'[m].ev = msg[m].ev /\ msg'[m].n = msg[m].n
         /\ \A k \in Slots \ {m} : msg'[k] = msg[k]
<1>1. msg[m] \in Messages /\ msg[m] # Free
  BY MessageType DEF Push
<1>2. /\ msg'[m] = [msg[m] EXCEPT !.st = "unacked", !.gen = gen]
      /\ \A k \in Slots \ {m} : msg'[k] = msg[k]
  BY DEF Push, TypeOK
<1>3. /\ msg'[m].st = "unacked" /\ msg'[m].gen = gen
      /\ msg'[m].ev = msg[m].ev /\ msg'[m].n = msg[m].n
  BY <1>1, <1>2 DEF Messages
<1>4. msg'[m] # Free
  BY <1>3 DEF Free
<1> QED BY <1>1, <1>2, <1>3, <1>4 DEF Push

LEMMA ChannelPush ==
  ASSUME QueueInv, NEW m \in Slots, Push(m)
  PROVE  ChannelInv'
<1>1. /\ msg'[m].gen = gen /\ \A k \in Slots \ {m} : msg'[k] = msg[k]
      /\ msg[m] # Free /\ UNCHANGED <<gen, ch, loop>> /\ ch = "open"
  BY PushMessage DEF Push, QueueInv
<1>2. OnChannel(gen)' \subseteq OnChannel(gen) \cup {m}
  BY <1>1 DEF OnChannel, Unacked
<1>3. IsFiniteSet(OnChannel(gen))
  BY SlotsFinite, FS_Subset DEF OnChannel
<1>4. /\ Cardinality(OnChannel(gen)') \in Nat /\ Cardinality(OnChannel(gen)) \in Nat
      /\ Cardinality(OnChannel(gen)') <= Cardinality(OnChannel(gen)) + 1
  BY <1>2, <1>3, CountAdded
<1>5. Cardinality(OnChannel(gen)) < Prefetch
  BY DEF Push
<1>6. Cardinality(OnChannel(gen)') <= Prefetch
  BY <1>4, <1>5, PrefetchType
<1>7. Prefetch' = Prefetch /\ Cardinality(OnChannel(gen))' = Cardinality(OnChannel(gen)')
  BY DEF Prefetch
<1> QED BY <1>1, <1>6, <1>7 DEF ChannelInv, QueueInv, Push

LEMMA ChannelConnect ==
  ASSUME QueueInv, connect
  PROVE  ChannelInv'
<1>1. \A k \in Slots : msg'[k] # Free => msg'[k].st # "unacked"
  BY DEF connect, QueueInv, ChannelInv
<1>2. OnChannel(gen)' = {}
  BY <1>1 DEF OnChannel, Unacked
<1>3. Cardinality(OnChannel(gen))' <= Prefetch'
  BY <1>2, FS_EmptySet, PrefetchType DEF Prefetch
<1> QED BY <1>1, <1>3 DEF ChannelInv, connect

-----------------------------------------------------------------------------
(* Deliveries *)

(* Deliveries go, or stay with their message. *)
LEMMA TasksKept ==
  ASSUME QueueInv, UNCHANGED gen, buf' \subseteq buf, tasks' \subseteq tasks,
         ch' = "open" => ch = "open",
         \A u \in Deliveries' : ch' = "open" /\ u.gen = gen => msg'[u.m] = msg[u.m]
  PROVE  TaskInv'
<1>1. IsFiniteSet(buf') /\ IsFiniteSet(tasks')
  BY CountSmaller DEF QueueInv, TaskInv
<1>2. Deliveries' \subseteq Deliveries
  BY DEF Deliveries
<1>3. \A t \in Deliveries' : Current(t)' => Current(t)
  BY DEF Current
<1>4. \A t \in Deliveries' : t.gen <= gen'
  BY <1>2 DEF QueueInv, TaskInv
<1>5. (\A t \in buf' : t.pc = "handle") /\ (buf \cap tasks)' = {}
  BY DEF QueueInv, TaskInv
<1>6. \A t \in Deliveries' : Current(t)' => Unacked(t.m, t.gen)' /\ msg'[t.m].ev = t.ev
  BY <1>2, <1>3 DEF QueueInv, TaskInv, Current, Unacked
<1>7. \A t, u \in Deliveries' : Current(t)' /\ Current(u)' /\ t.m = u.m => t = u
  BY <1>2, <1>3 DEF QueueInv, TaskInv
<1> QED BY <1>1, <1>4, <1>5, <1>6, <1>7 DEF TaskInv

LEMMA DeliveryType ==
  ASSUME TypeOK, NEW t \in Deliveries
  PROVE  t \in Tasks /\ t.m \in Slots /\ t.ev \in Bodies /\ t.n \in 1 .. MaxUint
  BY DEF TypeOK, Deliveries, Tasks

(* No delivery is on a slot that is free or ready. *)
LEMMA CurrentIsUnacked ==
  ASSUME QueueInv, NEW t \in Deliveries, Current(t)
  PROVE  msg[t.m] # Free /\ msg[t.m].st = "unacked"
  BY DEF QueueInv, TaskInv, Unacked

LEMMA PutKeepsCurrent ==
  ASSUME QueueInv, NEW e \in Bodies, NEW n \in 1 .. MaxUint, Put(e, n),
         NEW u \in Deliveries, Current(u)
  PROVE  msg'[u.m] = msg[u.m]
  BY PutMessage, CurrentIsUnacked, DeliveryType DEF QueueInv

LEMMA TasksPut ==
  ASSUME QueueInv, UNCHANGED <<gen, ch, buf, tasks>>, NEW e \in Bodies,
         NEW n \in 1 .. MaxUint, Put(e, n)
  PROVE  TaskInv'
  BY PutKeepsCurrent, TasksKept DEF Deliveries, Current

(* A goroutine ends, with an answer to the broker or without. *)
LEMMA TasksEnd ==
  ASSUME QueueInv, NEW t \in tasks, End(t), UNCHANGED <<gen, ch, buf>>,
         Ack(t) \/ Nack(t) \/ UNCHANGED msg
  PROVE  TaskInv'
<1>1. \/ UNCHANGED msg
      \/ /\ Current(t) /\ \A k \in Slots \ {t.m} : msg'[k] = msg[k]
  BY AckMessage, NackMessage, UnackedIsCurrent, TaskType DEF QueueInv, Current
<1>2. ASSUME NEW u \in Deliveries', ch' = "open", u.gen = gen PROVE msg'[u.m] = msg[u.m]
  <2>1. (u \in Deliveries /\ u # t) \/ UNCHANGED msg
    <3>1. CASE u \in tasks'
      BY <3>1 DEF End, Deliveries
    <3>2. CASE u \in buf'
      BY <1>1, <1>2, <3>2 DEF Deliveries, QueueInv, TaskInv, Current
    <3> QED BY <3>1, <3>2 DEF Deliveries
  <2>2. CASE UNCHANGED msg BY <2>2
  <2>3. CASE u \in Deliveries /\ u # t /\ Current(t) /\ \A k \in Slots \ {t.m} : msg'[k] = msg[k]
    <3>1. u.m # t.m
      BY <1>2, <2>3 DEF QueueInv, TaskInv, Deliveries, Current
    <3> QED BY <2>3, <3>1, DeliveryType DEF QueueInv
  <2> QED BY <1>1, <2>1, <2>2, <2>3
<1> QED BY <1>2, TasksKept DEF End

(* A goroutine goes on with its delivery. *)
LEMMA TasksBecome ==
  ASSUME QueueInv, NEW t \in tasks, NEW pc, pc # "handle", Become(t, pc),
         UNCHANGED <<gen, ch, buf>>,
         \A u \in Deliveries : Current(u) => msg'[u.m] = msg[u.m]
  PROVE  TaskInv'
<1> DEFINE n == [t EXCEPT !.pc = pc]
<1>1. n.m = t.m /\ n.gen = t.gen /\ n.ev = t.ev /\ n.pc # "handle"
  BY TaskType DEF QueueInv, Tasks
<1>2. tasks' = (tasks \ {t}) \cup {n}
  BY DEF Become
<1> HIDE DEF n
<1>3. IsFiniteSet(tasks') /\ IsFiniteSet(buf')
  BY <1>2, CountReplaced DEF QueueInv, TaskInv
<1>4. \A u \in Deliveries' : u = n \/ (u \in Deliveries /\ u # t)
  BY <1>2 DEF Deliveries, QueueInv, TaskInv
<1>5. \A u : Current(u)' <=> Current(u)
  BY DEF Current
<1>6. Current(n) <=> Current(t)
  BY <1>1 DEF Current
<1>7. t \in Deliveries
  BY DEF Deliveries
<1>8. \A u \in Deliveries' : u.gen <= gen'
  BY <1>1, <1>4, <1>7 DEF QueueInv, TaskInv
<1>9. \A u \in buf' : u.pc = "handle"
  BY DEF QueueInv, TaskInv
<1>10. \A u \in Deliveries' : Current(u)' => Unacked(u.m, u.gen)' /\ msg'[u.m].ev = u.ev
  BY <1>1, <1>4, <1>5, <1>6, <1>7 DEF QueueInv, TaskInv, Unacked
<1>11. \A u, v \in Deliveries' : Current(u)' /\ Current(v)' /\ u.m = v.m => u = v
  BY <1>1, <1>4, <1>5, <1>6, <1>7 DEF QueueInv, TaskInv
<1>12. (buf \cap tasks)' = {}
  BY <1>1, <1>2, <1>9 DEF QueueInv, TaskInv
<1> QED BY <1>3, <1>8, <1>9, <1>10, <1>11, <1>12 DEF TaskInv

LEMMA TasksTask ==
  ASSUME QueueInv, NEW t \in tasks, TaskStep(t)
  PROVE  TaskInv'
<1>1. UNCHANGED <<gen, ch, buf>>
  BY DEF TaskStep, handleDelivery, requeueAfter, publishRetry, publishRetryConfirmed,
         publishRetryFails, publishRetryUnconfirmed, ackOriginal, consumer
<1>2. CASE End(t) /\ (Ack(t) \/ Nack(t) \/ UNCHANGED msg)
  BY <1>1, <1>2, TasksEnd
<1>3. CASE publishRetry(t)
  <2>1. \A u \in Deliveries : Current(u) => msg'[u.m] = msg[u.m]
    BY <1>3, PutKeepsCurrent, TaskType, AttemptsType DEF publishRetry, QueueInv
  <2> QED BY <1>1, <1>3, <2>1, TasksBecome DEF publishRetry
<1>4. ASSUME NEW pc, pc # "handle", Become(t, pc), UNCHANGED msg PROVE TaskInv'
  BY <1>1, <1>4, TasksBecome
<1> QED BY <1>2, <1>3, <1>4 DEF TaskStep, handleDelivery, requeueAfter,
           publishRetryConfirmed, publishRetryFails, publishRetryUnconfirmed, ackOriginal

LEMMA TasksConsume ==
  ASSUME QueueInv, NEW t \in buf, consumeUntilClosed(t)
  PROVE  TaskInv'
<1>1. /\ Deliveries' = Deliveries /\ UNCHANGED <<gen, ch, msg>>
      /\ buf' = buf \ {t} /\ tasks' = tasks \cup {t}
  BY DEF consumeUntilClosed, Deliveries
<1>2. IsFiniteSet(buf') /\ IsFiniteSet(tasks')
  BY <1>1, CountSmaller, CountAdded DEF QueueInv, TaskInv
<1> QED BY <1>1, <1>2 DEF QueueInv, TaskInv, Current, Unacked

LEMMA TasksPush ==
  ASSUME QueueInv, NEW m \in Slots, Push(m)
  PROVE  TaskInv'
<1> DEFINE d == [m |-> m, gen |-> gen, ev |-> msg[m].ev, n |-> msg[m].n, pc |-> "handle"]
<1>1. /\ buf' = buf \cup {d} /\ UNCHANGED <<gen, ch, tasks>>
      /\ d.m = m /\ d.gen = gen /\ d.ev = msg[m].ev /\ d.pc = "handle"
  BY DEF Push
<1> HIDE DEF d
<1>2. IsFiniteSet(buf') /\ IsFiniteSet(tasks')
  BY <1>1, CountAdded DEF QueueInv, TaskInv
<1>3. Deliveries' = Deliveries \cup {d}
  BY <1>1 DEF Deliveries
<1>4. \A u : Current(u)' <=> Current(u)
  BY <1>1 DEF Current
<1>5. \A u \in Deliveries : Current(u) => u.m # m /\ msg'[u.m] = msg[u.m]
  BY CurrentIsUnacked, PushMessage, DeliveryType DEF QueueInv
<1>6. \A u \in Deliveries' : u.gen <= gen'
  BY <1>1, <1>3 DEF QueueInv, TaskInv, TypeOK
<1>7. \A u \in Deliveries' : Current(u)' => Unacked(u.m, u.gen)' /\ msg'[u.m].ev = u.ev
  BY <1>1, <1>3, <1>4, <1>5, PushMessage DEF QueueInv, TaskInv, Unacked
<1>8. \A u, v \in Deliveries' : Current(u)' /\ Current(v)' /\ u.m = v.m => u = v
  BY <1>1, <1>3, <1>4, <1>5 DEF QueueInv, TaskInv
<1>9. (\A u \in buf' : u.pc = "handle") /\ (buf \cap tasks)' = {}
  <2>1. d \notin tasks
    BY <1>1, <1>5 DEF Deliveries, Current, Push
  <2> QED BY <1>1, <2>1 DEF QueueInv, TaskInv
<1> QED BY <1>2, <1>6, <1>7, <1>8, <1>9 DEF TaskInv

LEMMA TasksConnect ==
  ASSUME QueueInv, connect
  PROVE  TaskInv'
<1>1. IsFiniteSet(buf') /\ IsFiniteSet(tasks')
  BY FS_EmptySet DEF connect, QueueInv, TaskInv
<1>2. \A t \in Deliveries' : t \in Deliveries /\ t.gen \in Nat /\ t.gen <= gen
  BY DEF connect, Deliveries, QueueInv, TaskInv, TypeOK, Tasks
<1>3. \A t \in Deliveries' : t.gen <= gen' /\ ~Current(t)'
  BY <1>2 DEF connect, Current, QueueInv, TypeOK
<1> QED BY <1>1, <1>3 DEF TaskInv, connect, Deliveries

-----------------------------------------------------------------------------
(* Channels and deliveries fit together *)

LEMMA QueueInit == Init => QueueInv
<1> SUFFICES ASSUME Init PROVE QueueInv
  OBVIOUS
<1>1. Junk \in Bodies /\ 1 \in 1 .. MaxUint
  BY DEF Bodies
<1>2. \A m \in Slots : msg[m] # Free => msg[m].st = "ready"
  BY <1>1, ReadyType DEF Init
<1>3. OnChannel(gen) = {}
  BY <1>2 DEF OnChannel, Unacked
<1>4. ChannelInv
  BY <1>2, <1>3, FS_EmptySet, PrefetchType DEF Init, ChannelInv
<1>5. TaskInv
  BY FS_EmptySet DEF Init, TaskInv, Deliveries
<1> QED BY <1>4, <1>5, TypeInit DEF QueueInv

LEMMA QueueStep == QueueInv /\ [Next]_vars => QueueInv'
<1> SUFFICES ASSUME QueueInv, [Next]_vars PROVE QueueInv'
  OBVIOUS
<1>1. TypeOK'
  BY TypeStep DEF QueueInv
<1> SUFFICES ChannelInv' /\ TaskInv'
  BY <1>1 DEF QueueInv
<1>2. ASSUME UNCHANGED <<msg, gen, ch, buf, tasks>>,
             loop' \in {"start", "wait", "stopped"} => ch' = "closed"
      PROVE  ChannelInv' /\ TaskInv'
  BY <1>2, ChannelSame, TasksKept
<1>3. ASSUME NEW e \in Events, Publish(e) \/ PublishUnconfirmed(e)
      PROVE  ChannelInv' /\ TaskInv'
  <2>1. /\ e \in Bodies /\ 1 \in 1 .. MaxUint /\ Put(e, 1)
        /\ UNCHANGED <<gen, ch, loop, buf, tasks>>
    BY <1>3 DEF Publish, PublishUnconfirmed, Send, Bodies, consumer
  <2> QED BY <2>1, ChannelPut, TasksPut
<1>4. CASE newRabbitMQPublisher \/ waitAndReconnect \/ BrokerStarts \/ PublisherLost \/ Cancel
           \/ UNCHANGED vars
  BY <1>2, <1>4 DEF newRabbitMQPublisher, waitAndReconnect, BrokerStarts, PublisherLost, Cancel,
                    vars, consumer, QueueInv, ChannelInv
<1>5. CASE connect
  BY <1>5, ChannelConnect, TasksConnect
<1>6. CASE Restart
  <2>1. ChannelInv'
    BY <1>6, ChannelSame DEF Restart, QueueInv, ChannelInv
  <2>2. TaskInv'
    BY <1>6, TasksKept DEF Restart, Deliveries
  <2> QED BY <2>1, <2>2
<1>7. ASSUME UNCHANGED <<gen, buf, tasks>>, ch' = "closed", msg' = Returned(msg, gen)
      PROVE  ChannelInv' /\ TaskInv'
  BY <1>7, ChannelReturned, TasksKept
<1>8. CASE Close \/ BrokerStops
  BY <1>7, <1>8 DEF Close, BrokerStops
<1>9. CASE ConnectionLost
  <2>1. CASE LoseConsumer
    BY <1>7, <1>9, <2>1 DEF ConnectionLost, LoseConsumer
  <2>2. CASE UNCHANGED <<ch, msg>>
    BY <1>2, <1>9, <2>2 DEF ConnectionLost
  <2> QED BY <1>9, <2>1, <2>2 DEF ConnectionLost
<1>10. ASSUME NEW m \in Slots, Push(m) PROVE ChannelInv' /\ TaskInv'
  BY <1>10, ChannelPush, TasksPush
<1>11. ASSUME NEW t \in buf, consumeUntilClosed(t) PROVE ChannelInv' /\ TaskInv'
  <2>1. ChannelInv'
    BY <1>11, ChannelSame DEF consumeUntilClosed, QueueInv, ChannelInv
  <2> QED BY <1>11, <2>1, TasksConsume
<1>12. ASSUME NEW t \in tasks, TaskStep(t) PROVE ChannelInv' /\ TaskInv'
  BY <1>12, ChannelTask, TasksTask
<1> QED BY <1>3, <1>4, <1>5, <1>6, <1>8, <1>9, <1>10, <1>11, <1>12
        DEF Next, ConsumerStep

-----------------------------------------------------------------------------
(* Fresh messages, stale deliveries and what is owed, step by step *)

LEMMA ReplacedIsOutstanding ==
  ASSUME QueueInv
  PROVE  /\ Replaced \subseteq OnChannel(gen)
         /\ \A t \in tasks : Unacked(t.m, t.gen) /\ t.pc \in {"confirm", "ack"} =>
                               t.m \in Replaced
  BY UnackedIsCurrent, TaskType DEF Replaced, OnChannel, QueueInv

(* One goroutine has the delivery, so it alone decides. *)
LEMMA OnlyHolder ==
  ASSUME QueueInv, NEW t \in Deliveries, NEW u \in Deliveries, u # t,
         Unacked(t.m, t.gen), Unacked(u.m, u.gen)
  PROVE  u.m # t.m
  BY UnackedIsCurrent, DeliveryType DEF QueueInv, TaskInv, Current

LEMMA NotReplaced ==
  ASSUME QueueInv, NEW t \in Deliveries, Unacked(t.m, t.gen),
         t.pc \in {"handle", "delay", "publish"}
  PROVE  t.m \notin Replaced /\ t.m \in Live(t.ev)
<1>1. t.m \notin Replaced
  <2>1. SUFFICES ASSUME NEW u \in tasks, u.pc \in {"confirm", "ack"}, u.m = t.m,
                        Unacked(t.m, u.gen)
                 PROVE  FALSE
    BY DEF Replaced
  <2>2. u \in Deliveries /\ u # t
    BY <2>1 DEF Deliveries
  <2> QED BY <2>1, <2>2, OnlyHolder
<1>2. t.m \in Live(t.ev)
  BY UnackedIsCurrent, DeliveryType DEF QueueInv, TaskInv, Current, Live, Unacked
<1> QED BY <1>1, <1>2

(* A message is put into the queue. *)
LEMMA PutFresh ==
  ASSUME QueueInv, NEW b \in Bodies, NEW n \in 1 .. MaxUint, Put(b, n),
         UNCHANGED <<gen, tasks>>
  PROVE  /\ \A k \in Slots : \A g : Unacked(k, g)' <=> Unacked(k, g)
         /\ \E s \in Slots : \A e : Fresh(e)' = IF e = b THEN Fresh(e) \cup {s} ELSE Fresh(e)
<1>1. PICK s \in Slots : /\ msg[s] = Free /\ msg'[s] = Ready(b, n)
                         /\ \A k \in Slots \ {s} : msg'[k] = msg[k]
  BY PutMessage DEF QueueInv
<1>2. msg'[s] # Free /\ msg'[s].st = "ready" /\ msg'[s].ev = b
  BY <1>1, ReadyType
<1>3. \A k \in Slots : \A g : Unacked(k, g)' <=> Unacked(k, g)
  BY <1>1, <1>2 DEF Unacked
<1>4. Replaced' = Replaced /\ s \notin Replaced
  BY <1>1, <1>3 DEF Replaced, Unacked
<1>5. \A e : Live(e)' = IF e = b THEN Live(e) \cup {s} ELSE Live(e)
  BY <1>1, <1>2 DEF Live
<1>6. \A e : Fresh(e)' = IF e = b THEN Fresh(e) \cup {s} ELSE Fresh(e)
  BY <1>4, <1>5 DEF Fresh
<1> QED BY <1>3, <1>6

(* Everything outstanding returns to the queue. *)
LEMMA ReturnedFresh ==
  ASSUME QueueInv, msg' = Returned(msg, gen)
  PROVE  /\ \A k \in Slots : \A g : ~Unacked(k, g)'
         /\ Replaced' = {}
         /\ \A e : Fresh(e)' = Live(e)
<1>1. \A k \in Slots : /\ msg'[k] = Free <=> msg[k] = Free
                       /\ msg[k] # Free => msg'[k].ev = msg[k].ev /\ msg'[k].st = "ready"
  BY ReturnedMessages DEF QueueInv
<1>2. \A k \in Slots : \A g : ~Unacked(k, g)'
  BY <1>1 DEF Unacked
<1>3. Replaced' = {}
  BY <1>2 DEF Replaced
<1>4. ASSUME NEW e PROVE Live(e)' = Live(e)
  <2>1. ASSUME NEW k \in Slots
        PROVE  (msg'[k] # Free /\ msg'[k].ev = e) <=> (msg[k] # Free /\ msg[k].ev = e)
    <3>1. CASE msg[k] = Free
      BY <1>1, <3>1
    <3>2. CASE msg[k] # Free
      BY <1>1, <3>2
    <3> QED BY <3>1, <3>2
  <2> QED BY <2>1 DEF Live
<1> QED BY <1>2, <1>3, <1>4 DEF Fresh

(* A goroutine ends without a word to the broker. *)
LEMMA EndFresh ==
  ASSUME QueueInv, NEW t \in tasks, End(t), UNCHANGED msg,
         t.pc \notin {"confirm", "ack"} \/ ~Unacked(t.m, t.gen)
  PROVE  \A e : Fresh(e)' = Fresh(e)
<1>1. Replaced' = Replaced
  BY DEF Replaced, End, Unacked
<1>2. \A e : Live(e)' = Live(e)
  BY DEF Live
<1> QED BY <1>1, <1>2 DEF Fresh

(* A current delivery is acknowledged or returned. *)
LEMMA SettledFresh ==
  ASSUME QueueInv, NEW t \in tasks, End(t), Unacked(t.m, t.gen), Ack(t) \/ Nack(t)
  PROVE  /\ \A k \in Slots : \A g : Unacked(k, g)' <=> Unacked(k, g) /\ k # t.m
         /\ Ack(t)  => \A e : Fresh(e)' = Fresh(e) \ {t.m}
         /\ Nack(t) => \A e : Fresh(e)' = IF e = t.ev THEN Fresh(e) \cup {t.m} ELSE Fresh(e)
<1>1. /\ t.m \in Slots /\ \A k \in Slots \ {t.m} : msg'[k] = msg[k]
      /\ Ack(t) => msg'[t.m] = Free
      /\ Nack(t) => msg'[t.m] = Ready(t.ev, t.n)
  BY AckMessage, NackMessage, TaskType DEF QueueInv
<1>2. msg[t.m] # Free /\ msg[t.m].ev = t.ev
  BY UnackedIsCurrent, <1>1 DEF QueueInv, TaskInv, Current, Deliveries, Unacked
<1>3. Nack(t) => msg'[t.m] # Free /\ msg'[t.m].st = "ready" /\ msg'[t.m].ev = t.ev
  BY <1>1, ReadyType, TaskType DEF QueueInv
<1>4. \A k \in Slots : \A g : Unacked(k, g)' <=> Unacked(k, g) /\ k # t.m
  BY <1>1, <1>3 DEF Unacked
<1>5. Replaced' = Replaced \ {t.m}
  BY <1>4 DEF Replaced, End
<1>6. ASSUME Ack(t) PROVE \A e : Live(e)' = Live(e) \ {t.m}
  <2>1. \A k \in Slots : msg'[k] = IF k = t.m THEN Free ELSE msg[k]
    BY <1>1, <1>6
  <2> QED BY <2>1 DEF Live
<1>7. Nack(t) => \A e : Live(e)' = Live(e) /\ (t.m \in Live(e) <=> e = t.ev)
  BY <1>1, <1>2, <1>3 DEF Live
<1> QED BY <1>4, <1>5, <1>6, <1>7 DEF Fresh

(* A goroutine goes on, on the same side of the publish. *)
LEMMA BecomeFresh ==
  ASSUME QueueInv, NEW t \in tasks, NEW pc, Become(t, pc), UNCHANGED msg,
         t.pc \in {"confirm", "ack"} <=> pc \in {"confirm", "ack"}
  PROVE  \A e : Fresh(e)' = Fresh(e)
<1> DEFINE n == [t EXCEPT !.pc = pc]
<1>1. n.m = t.m /\ n.gen = t.gen /\ n.pc = pc
  BY TaskType DEF QueueInv, Tasks
<1>2. tasks' = (tasks \ {t}) \cup {n}
  BY DEF Become
<1> HIDE DEF n
<1>3. Replaced' = Replaced
  BY <1>1, <1>2 DEF Replaced, Unacked
<1>4. \A e : Live(e)' = Live(e)
  BY DEF Live
<1> QED BY <1>3, <1>4 DEF Fresh

(* The replacement of a current delivery takes its original's part; that   *)
(* of a stale one is one more.                                             *)
LEMMA RetryFresh ==
  ASSUME QueueInv, NEW t \in tasks, publishRetry(t)
  PROVE  /\ \A k \in Slots : \A g : Unacked(k, g)' <=> Unacked(k, g)
         /\ \E s \in Slots :
              /\ \A e : e # t.ev => Fresh(e)' = Fresh(e)
              /\ Fresh(t.ev)' = (Fresh(t.ev) \ (IF Unacked(t.m, t.gen) THEN {t.m} ELSE {}))
                                \cup {s}
<1> DEFINE n == [t EXCEPT !.pc = "confirm"]
<1>1. n.m = t.m /\ n.gen = t.gen /\ n.pc = "confirm"
  BY TaskType DEF QueueInv, Tasks
<1>2. tasks' = (tasks \ {t}) \cup {n} /\ t.pc = "publish"
  BY DEF publishRetry, Become
<1> HIDE DEF n
<1>3. PICK s \in Slots : /\ msg[s] = Free /\ msg'[s] = Ready(t.ev, NextAttempts(t.n))
                         /\ \A k \in Slots \ {s} : msg'[k] = msg[k]
  BY PutMessage, TaskType, AttemptsType DEF publishRetry, QueueInv
<1>4. msg'[s] # Free /\ msg'[s].st = "ready" /\ msg'[s].ev = t.ev
  BY <1>3, ReadyType, TaskType, AttemptsType DEF QueueInv
<1>5. \A k \in Slots : \A g : Unacked(k, g)' <=> Unacked(k, g)
  BY <1>3, <1>4 DEF Unacked
<1>6. t.m \in Slots
  BY TaskType DEF QueueInv
<1>7. Replaced' = Replaced \cup (IF Unacked(t.m, t.gen) THEN {t.m} ELSE {})
  BY <1>1, <1>2, <1>5, <1>6 DEF Replaced
<1>8. s \notin Replaced' /\ (Unacked(t.m, t.gen) => s # t.m)
  BY <1>3, <1>7 DEF Replaced, Unacked
<1>9. \A e : Live(e)' = IF e = t.ev THEN Live(e) \cup {s} ELSE Live(e)
  BY <1>3, <1>4 DEF Live
<1>10. \A e : Unacked(t.m, t.gen) /\ t.m \in Live(e) => e = t.ev
  BY NotReplaced, <1>2 DEF Live, Deliveries
<1>11. \A e : e # t.ev => Fresh(e)' = Fresh(e)
  BY <1>7, <1>9, <1>10 DEF Fresh
<1>12. Fresh(t.ev)' = (Fresh(t.ev) \ (IF Unacked(t.m, t.gen) THEN {t.m} ELSE {})) \cup {s}
  BY <1>7, <1>8, <1>9 DEF Fresh
<1> QED BY <1>5, <1>11, <1>12
(* A push makes a delivery, which nobody has replaced yet. *)
LEMMA PushFresh ==
  ASSUME QueueInv, NEW m \in Slots, Push(m)
  PROVE  /\ \A t \in Deliveries : Unacked(t.m, t.gen)' <=> Unacked(t.m, t.gen)
         /\ \A e : Fresh(e)' = Fresh(e)
<1>1. /\ msg[m] # Free /\ msg[m].st = "ready" /\ msg'[m] # Free /\ msg'[m].ev = msg[m].ev
      /\ msg'[m].st = "unacked" /\ msg'[m].gen = gen
      /\ \A k \in Slots \ {m} : msg'[k] = msg[k]
      /\ UNCHANGED <<gen, ch, tasks>> /\ ch = "open"
  BY PushMessage DEF Push, QueueInv
<1>2. ASSUME NEW t \in Deliveries PROVE Unacked(t.m, t.gen)' <=> Unacked(t.m, t.gen)
  <2>1. t.m \in Slots
    BY DeliveryType DEF QueueInv
  <2>2. CASE t.m # m
    BY <1>1, <2>1, <2>2 DEF Unacked
  <2>3. CASE t.m = m
    <3>1. ~Current(t)
      BY <1>1, <2>3, CurrentIsUnacked
    <3> QED BY <1>1, <2>3, <3>1 DEF Unacked, Current
  <2> QED BY <2>2, <2>3
<1>3. Replaced' = Replaced
  BY <1>1, <1>2 DEF Replaced, Deliveries
<1>4. ASSUME NEW e PROVE Live(e)' = Live(e)
  <2>1. \A k \in Slots : msg'[k] # Free /\ msg'[k].ev = e <=> msg[k] # Free /\ msg[k].ev = e
    BY <1>1
  <2> QED BY <2>1 DEF Live
<1> QED BY <1>2, <1>3, <1>4 DEF Fresh

-----------------------------------------------------------------------------
(* What was confirmed is kept *)

(* A step that ends the delivery of no event, and one that may end t.ev's. *)
Stays == UNCHANGED done /\ \A e \in Events : Fresh(e) # {} => Fresh(e)' # {}
Handles(t) ==
  /\ t.ev \in Events /\ done' = done \cup {t.ev}
  /\ \A e : e # t.ev => Fresh(e)' = Fresh(e)
  /\ Fresh(t.ev)' \subseteq Fresh(t.ev)

LEMMA FreshTask ==
  ASSUME QueueInv, NEW t \in tasks, TaskStep(t)
  PROVE  Stays \/ Handles(t)
<1>1. t \in Deliveries /\ t.ev \in Bodies
  BY TaskType DEF QueueInv, Deliveries
<1>2. CASE handleDelivery(t)
  <2>1. CASE Become(t, "delay") /\ UNCHANGED <<msg, done>>
    BY <1>2, <2>1, BecomeFresh DEF handleDelivery, Stays
  <2>2. CASE Ack(t) /\ End(t)
    <3>1. \A e : Fresh(e)' \subseteq Fresh(e) /\ (e # t.ev => Fresh(e)' = Fresh(e))
      <4>1. CASE ~Unacked(t.m, t.gen)
        BY <1>2, <2>2, <4>1, AckMessage, EndFresh DEF QueueInv
      <4>2. CASE Unacked(t.m, t.gen)
        <5>1. t.m \in Live(t.ev)
          BY <1>1, <1>2, <4>2, NotReplaced DEF handleDelivery
        <5>2. \A e : e # t.ev => t.m \notin Fresh(e)
          BY <5>1 DEF Fresh, Live
        <5> QED BY <2>2, <4>2, <5>2, SettledFresh
      <4> QED BY <4>1, <4>2
    <3>2. CASE t.ev = Junk /\ UNCHANGED done
      BY <3>1, <3>2 DEF Stays
    <3>3. CASE t.ev # Junk /\ done' = done \cup {t.ev}
      BY <1>1, <3>1, <3>3 DEF Handles, Bodies
    <3> QED BY <1>2, <2>2, <3>2, <3>3, <2>1 DEF handleDelivery
  <2> QED BY <1>2, <2>1, <2>2 DEF handleDelivery
<1>3. CASE requeueAfter(t)
  BY <1>3, EndFresh, BecomeFresh DEF requeueAfter, Stays
<1>4. CASE publishRetry(t)
  <2>1. \A e : Fresh(e) # {} => Fresh(e)' # {}
    BY <1>4, RetryFresh
  <2> QED BY <1>4, <2>1 DEF publishRetry, Stays
<1>5. CASE publishRetryConfirmed(t)
  BY <1>5, BecomeFresh DEF publishRetryConfirmed, Stays
<1>6. CASE Nack(t) /\ End(t) /\ UNCHANGED done /\ Unacked(t.m, t.gen)
  <2>1. \A e : Fresh(e) \subseteq Fresh(e)'
    BY <1>6, SettledFresh
  <2> QED BY <1>6, <2>1 DEF Stays
<1>7. CASE (Ack(t) \/ Nack(t)) /\ End(t) /\ UNCHANGED done /\ ~Unacked(t.m, t.gen)
  <2>1. UNCHANGED msg
    BY <1>7, AckMessage, NackMessage DEF QueueInv
  <2> QED BY <1>7, <2>1, EndFresh DEF Stays
<1>8. CASE ackOriginal(t) /\ Unacked(t.m, t.gen)
  <2>1. \A e : Fresh(e)' = Fresh(e) \ {t.m}
    BY <1>8, SettledFresh DEF ackOriginal
  <2>2. t.m \in Replaced
    BY <1>8, ReplacedIsOutstanding DEF ackOriginal
  <2>3. \A e : Fresh(e)' = Fresh(e)
    BY <2>1, <2>2 DEF Fresh
  <2> QED BY <1>8, <2>3 DEF ackOriginal, Stays
<1> QED BY <1>2, <1>3, <1>4, <1>5, <1>6, <1>7, <1>8
        DEF TaskStep, publishRetryFails, publishRetryUnconfirmed, ackOriginal

LEMMA FreshSend ==
  ASSUME QueueInv, NEW e \in Events, Publish(e) \/ PublishUnconfirmed(e)
  PROVE  /\ UNCHANGED done /\ sent' = [sent EXCEPT ![e] = @ + 1]
         /\ Fresh(e)' # {} /\ \A b : b # e => Fresh(b)' = Fresh(b)
<1>1. /\ e \in Bodies /\ 1 \in 1 .. MaxUint /\ Put(e, 1) /\ UNCHANGED <<gen, tasks, done>>
      /\ sent' = [sent EXCEPT ![e] = @ + 1]
  BY DEF Publish, PublishUnconfirmed, Send, Bodies, consumer
<1>2. PICK s \in Slots : \A b : Fresh(b)' = IF b = e THEN Fresh(b) \cup {s} ELSE Fresh(b)
  BY <1>1, PutFresh
<1> QED BY <1>1, <1>2

(* The steps as the queue sees them. *)
LEMMA FreshStep ==
  ASSUME QueueInv, [Next]_vars
  PROVE  \/ \E e \in Events : Publish(e) \/ PublishUnconfirmed(e)
         \/ UNCHANGED sent /\ Stays
         \/ UNCHANGED sent /\ \E t \in tasks : Handles(t)
<1>1. ASSUME UNCHANGED <<msg, done>>,
             \A t \in tasks' : t.pc \in {"confirm", "ack"} => t \in tasks
      PROVE  Stays
  <2>1. Replaced' \subseteq Replaced
    BY <1>1 DEF Replaced, Unacked
  <2>2. \A e : Live(e)' = Live(e)
    BY <1>1 DEF Live
  <2> QED BY <1>1, <2>1, <2>2 DEF Fresh, Stays
<1>2. CASE newRabbitMQPublisher \/ waitAndReconnect \/ BrokerStarts \/ PublisherLost \/ Cancel
           \/ UNCHANGED vars \/ connect \/ Restart
  BY <1>1, <1>2 DEF newRabbitMQPublisher, waitAndReconnect, BrokerStarts, PublisherLost, Cancel,
                    vars, consumer, connect, Restart
<1>3. ASSUME NEW t \in buf, consumeUntilClosed(t) PROVE UNCHANGED sent /\ Stays
  <2>1. t.pc = "handle"
    BY DEF QueueInv, TaskInv
  <2> QED BY <1>1, <1>3, <2>1 DEF consumeUntilClosed
<1>4. ASSUME UNCHANGED done, msg' = Returned(msg, gen) PROVE Stays
  BY <1>4, ReturnedFresh DEF Fresh, Stays
<1>5. CASE Close \/ BrokerStops
  BY <1>4, <1>5 DEF Close, BrokerStops
<1>6. CASE ConnectionLost
  BY <1>1, <1>4, <1>6 DEF ConnectionLost, LoseConsumer
<1>7. ASSUME NEW m \in Slots, Push(m) PROVE UNCHANGED sent /\ Stays
  BY <1>7, PushFresh DEF Push, Stays
<1>8. ASSUME NEW t \in tasks, TaskStep(t) PROVE UNCHANGED sent /\ (Stays \/ Handles(t))
  <2>1. UNCHANGED sent
    BY <1>8 DEF TaskStep, handleDelivery, requeueAfter, publishRetry, publishRetryConfirmed,
           publishRetryFails, publishRetryUnconfirmed, ackOriginal
  <2> QED BY <1>8, <2>1, FreshTask
<1> QED BY <1>2, <1>3, <1>5, <1>6, <1>7, <1>8 DEF Next, ConsumerStep

LEMMA KeptStep ==
  ASSUME QueueInv, KeptInv, [Next]_vars
  PROVE  KeptInv'
<1>1. ASSUME NEW e \in Events, Publish(e) \/ PublishUnconfirmed(e) PROVE KeptInv'
  BY <1>1, FreshSend DEF KeptInv, QueueInv, TypeOK
<1>2. CASE UNCHANGED sent /\ Stays
  BY <1>2 DEF KeptInv, Stays
<1>3. ASSUME NEW t \in tasks, UNCHANGED sent, Handles(t) PROVE KeptInv'
  BY <1>3 DEF KeptInv, Handles
<1> QED BY <1>1, <1>2, <1>3, FreshStep

-----------------------------------------------------------------------------
(* Copies *)

LEMMA CopiesFinite ==
  ASSUME QueueInv, NEW e
  PROVE  /\ IsFiniteSet(Copies(e)) /\ Cardinality(Copies(e)) \in Nat
         /\ IsFiniteSet(OnChannel(gen)) /\ Cardinality(OnChannel(gen)) \in Nat
<1>1. IsFiniteSet(Fresh(e)) /\ IsFiniteSet(Owed) /\ IsFiniteSet(OnChannel(gen))
  BY SlotsFinite, FS_Subset DEF Fresh, Live, Owed, OnChannel
<1>2. IsFiniteSet(Deliveries)
  BY FS_Union DEF Deliveries, QueueInv, TaskInv
<1>3. IsFiniteSet(Stale(e))
  BY <1>2, FS_Subset DEF Stale
<1>4. \A x : IsFiniteSet({x})
  BY FS_Singleton
<1>5. /\ IsFiniteSet({"message"} \X Fresh(e)) /\ IsFiniteSet({"delivery"} \X Stale(e))
      /\ IsFiniteSet({"owed"} \X Owed)
  BY <1>1, <1>3, <1>4, FS_Product
<1>6. IsFiniteSet(Copies(e))
  BY <1>5, FS_Union DEF Copies
<1> QED BY <1>1, <1>6, FS_CardinalityType

(* What happens to the parts happens to the copies. *)
LEMMA CopiesParts ==
  ASSUME NEW e, Stale(e)' \subseteq Stale(e), Owed' \subseteq Owed
  PROVE  /\ Fresh(e)' \subseteq Fresh(e) => Copies(e)' \subseteq Copies(e)
         /\ \A s : Fresh(e)' \subseteq Fresh(e) \cup {s} =>
                     Copies(e)' \subseteq Copies(e) \cup {<<"message", s>>}
  BY DEF Copies

(* No fault: the copies stay within what they were, or one takes the place *)
(* of another.                                                             *)
LEMMA CopiesKept ==
  ASSUME QueueInv, CopiesInv, UNCHANGED <<sent, faults>>,
         \A e \in Events : \/ Copies(e)' \subseteq Copies(e)
                           \/ \E x \in Copies(e) : \E y :
                                Copies(e)' \subseteq (Copies(e) \ {x}) \cup {y}
  PROVE  CopiesInv'
<1>1. SUFFICES ASSUME NEW e \in Events
               PROVE  Cardinality(Copies(e)') <= sent[e] + faults * Prefetch
  BY DEF CopiesInv, Prefetch
<1>2. /\ Cardinality(Copies(e)') \in Nat /\ Cardinality(Copies(e)) \in Nat
      /\ Cardinality(Copies(e)') <= Cardinality(Copies(e))
  <2>1. CASE Copies(e)' \subseteq Copies(e)
    BY <2>1, CopiesFinite, CountSmaller
  <2>2. CASE \E x \in Copies(e) : \E y : Copies(e)' \subseteq (Copies(e) \ {x}) \cup {y}
    BY <2>2, CopiesFinite, CountReplaced
  <2> QED BY <2>1, <2>2
<1>3. Cardinality(Copies(e)) <= sent[e] + faults * Prefetch
  BY DEF CopiesInv
<1>4. sent[e] \in Nat /\ faults * Prefetch \in Nat
  BY PrefetchType DEF QueueInv, TypeOK
<1> QED BY <1>2, <1>3, <1>4

(* A fault: as many more as deliveries can be outstanding. *)
LEMMA CopiesFault ==
  ASSUME QueueInv, CopiesInv, UNCHANGED sent, faults' = faults + 1,
         \A e \in Events : \E U : /\ IsFiniteSet(U) /\ Cardinality(U) <= Prefetch
                                  /\ Copies(e)' \subseteq Copies(e) \cup U
  PROVE  CopiesInv'
<1>1. SUFFICES ASSUME NEW e \in Events
               PROVE  Cardinality(Copies(e)') <= sent[e] + (faults + 1) * Prefetch
  BY DEF CopiesInv, Prefetch
<1>2. PICK U : /\ IsFiniteSet(U) /\ Cardinality(U) <= Prefetch
               /\ Copies(e)' \subseteq Copies(e) \cup U
  OBVIOUS
<1>3. /\ Cardinality(Copies(e)') \in Nat /\ Cardinality(Copies(e)) \in Nat
      /\ Cardinality(U) \in Nat
      /\ Cardinality(Copies(e)') <= Cardinality(Copies(e)) + Cardinality(U)
  BY <1>2, CopiesFinite, CountUnion
<1>4. Cardinality(Copies(e)) <= sent[e] + faults * Prefetch
  BY DEF CopiesInv
<1>5. /\ sent[e] \in Nat /\ faults * Prefetch \in Nat /\ Prefetch \in Nat
      /\ (faults + 1) * Prefetch = faults * Prefetch + Prefetch
  BY PrefetchType DEF QueueInv, TypeOK
<1> QED BY <1>2, <1>3, <1>4, <1>5

(* A fault that leaves the messages and the deliveries alone. *)
LEMMA CopiesWithout ==
  ASSUME QueueInv, CopiesInv, UNCHANGED sent, faults' = faults + 1,
         \A e \in Events : Copies(e)' \subseteq Copies(e)
  PROVE  CopiesInv'
<1>1. IsFiniteSet({}) /\ Cardinality({}) <= Prefetch
  BY FS_EmptySet, PrefetchType
<1> QED BY <1>1, CopiesFault

(* A publish is a copy of its own; that its confirmation is lost adds      *)
(* nothing.                                                                *)
LEMMA CopiesSend ==
  ASSUME QueueInv, CopiesInv, NEW e \in Events, Publish(e) \/ PublishUnconfirmed(e)
  PROVE  CopiesInv'
<1>1. /\ e \in Bodies /\ 1 \in 1 .. MaxUint /\ Put(e, 1)
      /\ UNCHANGED <<loop, retryCh, gen, buf, tasks>>
      /\ sent' = [sent EXCEPT ![e] = @ + 1] /\ faults' \in {faults, faults + 1}
  BY DEF Publish, PublishUnconfirmed, Send, Bodies, consumer, Fault
<1>2. PICK s \in Slots : \A b : Fresh(b)' = IF b = e THEN Fresh(b) \cup {s} ELSE Fresh(b)
  BY <1>1, PutFresh
<1>3. \A k \in Slots : \A g : Unacked(k, g)' <=> Unacked(k, g)
  BY <1>1, PutFresh
<1>4. Owed' = Owed
  BY <1>1, <1>3 DEF Owed, OnChannel
<1>5. \A b : Stale(b)' = Stale(b)
  <2>1. \A t \in Deliveries : t.m \in Slots
    BY DeliveryType DEF QueueInv
  <2> QED BY <1>1, <1>3, <2>1 DEF Stale, Deliveries
<1>6. /\ faults * Prefetch \in Nat /\ faults' * Prefetch \in Nat
      /\ faults * Prefetch <= faults' * Prefetch
  <2>1. faults \in Nat /\ Prefetch \in Nat
    BY PrefetchType DEF QueueInv, TypeOK
  <2>2. faults * Prefetch \in Nat /\ (faults + 1) * Prefetch = faults * Prefetch + Prefetch
    BY <2>1
  <2>3. CASE faults' = faults
    BY <2>2, <2>3
  <2>4. CASE faults' = faults + 1
    BY <2>1, <2>2, <2>4
  <2> QED BY <1>1, <2>3, <2>4
<1>7. ASSUME NEW b \in Events PROVE Cardinality(Copies(b)') <= sent'[b] + faults' * Prefetch
  <2>1. CASE b = e
    <3>1. Copies(b)' \subseteq Copies(b) \cup {<<"message", s>>}
      BY <1>2, <1>4, <1>5, <2>1, CopiesParts
    <3>2. /\ Cardinality(Copies(b)') \in Nat /\ Cardinality(Copies(b)) \in Nat
          /\ Cardinality(Copies(b)') <= Cardinality(Copies(b)) + 1
      BY <3>1, CopiesFinite, CountAdded
    <3>3. sent'[b] = sent[b] + 1 /\ sent[b] \in Nat
      BY <1>1, <2>1 DEF QueueInv, TypeOK
    <3> QED BY <1>6, <3>2, <3>3 DEF CopiesInv
  <2>2. CASE b # e
    <3>1. Copies(b)' \subseteq Copies(b)
      BY <1>2, <1>4, <1>5, <2>2, CopiesParts
    <3>2. /\ Cardinality(Copies(b)') \in Nat /\ Cardinality(Copies(b)) \in Nat
          /\ Cardinality(Copies(b)') <= Cardinality(Copies(b))
      BY <3>1, CopiesFinite, CountSmaller
    <3>3. sent'[b] = sent[b] /\ sent[b] \in Nat
      BY <1>1, <2>2 DEF QueueInv, TypeOK
    <3> QED BY <1>6, <3>2, <3>3 DEF CopiesInv
  <2> QED BY <2>1, <2>2
<1> QED BY <1>7 DEF CopiesInv, Prefetch

(* A goroutine ends: what it leaves to the broker is nobody else's. *)
LEMMA EndParts ==
  ASSUME QueueInv, NEW t \in tasks, End(t), UNCHANGED <<loop, retryCh, gen, buf>>,
         \/ UNCHANGED msg
         \/ Unacked(t.m, t.gen) /\ (Ack(t) \/ Nack(t))
  PROVE  /\ \A e : Stale(e)' \subseteq Stale(e)
         /\ Owed' \subseteq Owed
         /\ Unacked(t.m, t.gen) /\ ~UNCHANGED msg => t.m \notin Owed'
<1>1. t \in Deliveries /\ t \notin Deliveries' /\ Deliveries' \subseteq Deliveries
  BY DEF End, Deliveries, QueueInv, TaskInv
<1>2. CASE UNCHANGED msg
  <2>1. \A k, g : Unacked(k, g)' <=> Unacked(k, g)
    BY <1>2 DEF Unacked
  <2>2. \A e : Stale(e)' \subseteq Stale(e)
    BY <1>1, <2>1 DEF Stale
  <2>3. Owed' \subseteq Owed
    BY <2>1 DEF Owed, OnChannel, End
  <2> QED BY <1>2, <2>2, <2>3
<1>3. CASE Unacked(t.m, t.gen) /\ (Ack(t) \/ Nack(t))
  <2>1. \A k \in Slots : \A g : Unacked(k, g)' <=> Unacked(k, g) /\ k # t.m
    BY <1>3, SettledFresh
  <2>2. \A u \in Deliveries' : Unacked(u.m, u.gen) => Unacked(u.m, u.gen)'
    BY <1>1, <1>3, <2>1, OnlyHolder, DeliveryType DEF QueueInv
  <2>3. \A e : Stale(e)' \subseteq Stale(e)
    BY <1>1, <2>2 DEF Stale
  <2>4. Owed' \subseteq Owed /\ t.m \notin Owed'
    BY <2>1 DEF Owed, OnChannel, End
  <2> QED BY <2>3, <2>4
<1> QED BY <1>2, <1>3

(* A goroutine goes on without a word to the broker. *)
LEMMA BecomeCopies ==
  ASSUME QueueInv, NEW t \in tasks, NEW pc \in {"delay", "publish", "ack"}, Become(t, pc),
         UNCHANGED <<msg, loop, retryCh, gen, buf>>,
         t.pc = "confirm" <=> pc = "ack", t.pc # "ack", NEW e
  PROVE  \/ Copies(e)' \subseteq Copies(e)
         \/ \E x \in Copies(e) : \E y : Copies(e)' \subseteq (Copies(e) \ {x}) \cup {y}
<1> DEFINE n == [t EXCEPT !.pc = pc]
<1>1. /\ n.m = t.m /\ n.gen = t.gen /\ n.ev = t.ev /\ n.pc = pc
      /\ t.pc \in {"handle", "delay", "publish", "confirm", "ack"}
  BY TaskType DEF QueueInv, Tasks
<1>2. tasks' = (tasks \ {t}) \cup {n}
  BY DEF Become
<1> HIDE DEF n
<1>3. Fresh(e)' = Fresh(e)
  BY BecomeFresh
<1>4. \A k, g : Unacked(k, g)' <=> Unacked(k, g)
  BY DEF Unacked
<1>5. Owed' \subseteq Owed
  BY <1>1, <1>2, <1>4 DEF Owed, OnChannel
<1>6. t \in Deliveries /\ Deliveries' = (Deliveries \ {t}) \cup {n}
  BY <1>2 DEF Deliveries, QueueInv, TaskInv
<1>7. CASE n \in Stale(e)'
  <2>1. t \in Stale(e)
    BY <1>1, <1>4, <1>6, <1>7 DEF Stale
  <2>2. Stale(e)' \subseteq (Stale(e) \ {t}) \cup {n}
    BY <1>4, <1>6 DEF Stale
  <2>3. <<"delivery", t>> \in Copies(e)
    BY <2>1 DEF Copies
  <2>4. Copies(e)' \subseteq (Copies(e) \ {<<"delivery", t>>}) \cup {<<"delivery", n>>}
    BY <1>3, <1>5, <2>2 DEF Copies
  <2> QED BY <2>3, <2>4
<1>8. CASE n \notin Stale(e)'
  <2>1. Stale(e)' \subseteq Stale(e)
    BY <1>4, <1>6, <1>8 DEF Stale
  <2> QED BY <1>3, <1>5, <2>1, CopiesParts
<1> QED BY <1>7, <1>8

(* A replacement takes the part of its original, or of a stale delivery. *)
LEMMA RetryCopies ==
  ASSUME QueueInv, NEW t \in tasks, publishRetry(t), NEW e
  PROVE  \/ Copies(e)' \subseteq Copies(e)
         \/ \E x \in Copies(e) : \E y : Copies(e)' \subseteq (Copies(e) \ {x}) \cup {y}
<1> DEFINE n == [t EXCEPT !.pc = "confirm"]
<1>1. n.pc = "confirm" /\ t.pc = "publish" /\ t \in Deliveries
  BY TaskType DEF QueueInv, Tasks, publishRetry, Deliveries
<1>2. tasks' = (tasks \ {t}) \cup {n}
  BY DEF publishRetry, Become
<1> HIDE DEF n
<1>3. /\ UNCHANGED <<loop, retryCh, gen, buf>> /\ retryCh = "open"
      /\ \A k \in Slots : \A g : Unacked(k, g)' <=> Unacked(k, g)
  BY RetryFresh DEF publishRetry, consumer
<1>4. PICK s \in Slots :
        /\ \A b : b # t.ev => Fresh(b)' = Fresh(b)
        /\ Fresh(t.ev)' = (Fresh(t.ev) \ (IF Unacked(t.m, t.gen) THEN {t.m} ELSE {}))
                          \cup {s}
  BY RetryFresh
<1>5. Owed' = Owed
  BY <1>3 DEF Owed, OnChannel
<1>6. Deliveries' = (Deliveries \ {t}) \cup {n}
  BY <1>2, <1>3 DEF Deliveries, QueueInv, TaskInv
<1>7. Stale(e)' \subseteq Stale(e) \ {t}
  <2>1. \A u \in Deliveries : u.m \in Slots
    BY DeliveryType DEF QueueInv
  <2> QED BY <1>1, <1>3, <1>6, <2>1 DEF Stale
<1>8. CASE e # t.ev
  BY <1>4, <1>5, <1>7, <1>8, CopiesParts
<1>9. CASE e = t.ev /\ Unacked(t.m, t.gen)
  <2>1. t.m \in Fresh(e)
    BY <1>1, <1>9, NotReplaced DEF Fresh
  <2>2. <<"message", t.m>> \in Copies(e)
    BY <2>1 DEF Copies
  <2>3. Copies(e)' \subseteq (Copies(e) \ {<<"message", t.m>>}) \cup {<<"message", s>>}
    BY <1>4, <1>5, <1>7, <1>9 DEF Copies
  <2> QED BY <2>2, <2>3
<1>10. CASE e = t.ev /\ ~Unacked(t.m, t.gen)
  <2>1. t \in Stale(e)
    BY <1>1, <1>10 DEF Stale
  <2>2. <<"delivery", t>> \in Copies(e)
    BY <2>1 DEF Copies
  <2>3. Copies(e)' \subseteq (Copies(e) \ {<<"delivery", t>>}) \cup {<<"message", s>>}
    BY <1>4, <1>5, <1>7, <1>10 DEF Copies
  <2> QED BY <2>2, <2>3
<1> QED BY <1>8, <1>9, <1>10

(* An original that returns although it was replaced had been owed. *)
LEMMA UnconfirmedCopies ==
  ASSUME QueueInv, NEW t \in tasks, publishRetryUnconfirmed(t), Unacked(t.m, t.gen), NEW e
  PROVE  \/ Copies(e)' \subseteq Copies(e)
         \/ \E x \in Copies(e) : \E y : Copies(e)' \subseteq (Copies(e) \ {x}) \cup {y}
<1>1. /\ End(t) /\ Nack(t) /\ UNCHANGED <<loop, retryCh, gen, buf>>
      /\ t.pc = "confirm" /\ t.m \in Slots
      /\ retryCh # "open" \/ loop \in {"stopping", "stopped"}
  BY TaskType DEF publishRetryUnconfirmed, consumer, Stopping, QueueInv
<1>2. t.gen = gen /\ ch = "open"
  BY <1>1, UnackedIsCurrent
<1>3. loop # "stopped"
  BY <1>2 DEF QueueInv, ChannelInv
<1>4. t.m \in Owed
  BY <1>1, <1>2, <1>3 DEF Owed, OnChannel
<1>5. ~UNCHANGED msg
  <2>1. Unacked(t.m, t.gen)' => FALSE
    BY <1>1, SettledFresh
  <2> QED BY <2>1 DEF Unacked
<1>6. Stale(e)' \subseteq Stale(e) /\ Owed' \subseteq Owed \ {t.m}
  BY <1>1, <1>5, EndParts
<1>7. Fresh(e)' \subseteq Fresh(e) \cup {t.m}
  BY <1>1, SettledFresh
<1>8. <<"owed", t.m>> \in Copies(e)
  BY <1>4 DEF Copies
<1>9. Copies(e)' \subseteq (Copies(e) \ {<<"owed", t.m>>}) \cup {<<"message", t.m>>}
  BY <1>6, <1>7 DEF Copies
<1> QED BY <1>8, <1>9

LEMMA CopiesTask ==
  ASSUME QueueInv, CopiesInv, NEW t \in tasks, TaskStep(t)
  PROVE  CopiesInv'
<1>1. UNCHANGED <<sent, faults, loop, retryCh, gen, buf>> /\ t \in Deliveries
  BY DEF TaskStep, handleDelivery, requeueAfter, publishRetry, publishRetryConfirmed,
         publishRetryFails, publishRetryUnconfirmed, ackOriginal, consumer, Deliveries
<1>2. ASSUME End(t), UNCHANGED msg \/ (Unacked(t.m, t.gen) /\ (Ack(t) \/ Nack(t))),
             \A e : Fresh(e)' \subseteq Fresh(e)
      PROVE  CopiesInv'
  <2>1. \A e : Copies(e)' \subseteq Copies(e)
    BY <1>1, <1>2, EndParts, CopiesParts
  <2> QED BY <1>1, <2>1, CopiesKept
<1>3. CASE publishRetry(t)
  BY <1>1, <1>3, RetryCopies, CopiesKept
<1>4. CASE publishRetryConfirmed(t)
  BY <1>1, <1>4, BecomeCopies, CopiesKept DEF publishRetryConfirmed
<1>5. CASE t.pc = "handle" /\ Become(t, "delay") /\ UNCHANGED msg
  BY <1>1, <1>5, BecomeCopies, CopiesKept
<1>6. CASE t.pc = "delay" /\ Become(t, "publish") /\ UNCHANGED msg
  BY <1>1, <1>6, BecomeCopies, CopiesKept
<1>7. CASE t.pc = "delay" /\ End(t) /\ UNCHANGED msg
  BY <1>2, <1>7, EndFresh
<1>8. CASE (Ack(t) \/ Nack(t)) /\ End(t) /\ ~Unacked(t.m, t.gen)
  <2>1. UNCHANGED msg
    BY <1>8, AckMessage, NackMessage DEF QueueInv
  <2> QED BY <1>2, <1>8, <2>1, EndFresh
<1>9. CASE Ack(t) /\ End(t) /\ Unacked(t.m, t.gen)
  BY <1>2, <1>9, SettledFresh
<1>10. CASE publishRetryFails(t) /\ Unacked(t.m, t.gen)
  <2>1. t.m \in Fresh(t.ev)
    BY <1>1, <1>10, NotReplaced DEF Fresh, publishRetryFails
  <2>2. \A e : Fresh(e)' \subseteq Fresh(e)
    BY <1>10, <2>1, SettledFresh DEF publishRetryFails
  <2> QED BY <1>2, <1>10, <2>2 DEF publishRetryFails
<1>11. CASE publishRetryUnconfirmed(t) /\ Unacked(t.m, t.gen)
  BY <1>1, <1>11, UnconfirmedCopies, CopiesKept
<1> QED BY <1>3, <1>4, <1>5, <1>6, <1>7, <1>8, <1>9, <1>10, <1>11
        DEF TaskStep, handleDelivery, requeueAfter, publishRetryFails,
            publishRetryUnconfirmed, ackOriginal

(* A lost channel gives back, for each delivery outstanding on it, either  *)
(* the original that was replaced or a goroutine that will replace one.    *)
LEMMA LostCopies ==
  ASSUME QueueInv, UNCHANGED <<buf, tasks>>, msg' = Returned(msg, gen), NEW e
  PROVE  \E U : /\ IsFiniteSet(U) /\ Cardinality(U) <= Cardinality(OnChannel(gen))
                /\ Copies(e)' \subseteq (Copies(e) \ ({"owed"} \X OnChannel(gen))) \cup U
<1> DEFINE Holder(m) == CHOOSE u \in Deliveries : u.m = m /\ Unacked(u.m, u.gen)
           Given(m) == IF m \in Replaced THEN <<"message", m>> ELSE <<"delivery", Holder(m)>>
           U == {Given(m) : m \in OnChannel(gen)}
           f == [m \in OnChannel(gen) |-> Given(m)]
<1>1. f \in [OnChannel(gen) -> U] /\ \A y \in U : \E m \in OnChannel(gen) : f[m] = y
  <2> HIDE DEF Given
  <2> QED OBVIOUS
<1> HIDE DEF f
<1>2. IsFiniteSet(U) /\ Cardinality(U) <= Cardinality(OnChannel(gen))
  <2> HIDE DEF U
  <2> QED BY <1>1, CopiesFinite, CountImage
<1>3. /\ \A k \in Slots : \A g : ~Unacked(k, g)'
      /\ Fresh(e)' = Live(e)
  BY ReturnedFresh
<1>4. Owed' = {}
  BY <1>3 DEF Owed, OnChannel
<1>5. \A m \in Live(e) : m \in Fresh(e) \/ <<"message", m>> \in U
  <2>1. SUFFICES ASSUME NEW m \in Live(e), m \in Replaced PROVE <<"message", m>> \in U
    BY DEF Fresh
  <2>2. m \in OnChannel(gen)
    BY <2>1, ReplacedIsOutstanding
  <2> QED BY <2>1, <2>2
<1>6. \A t \in Stale(e)' : t \in Stale(e) \/ <<"delivery", t>> \in U
  <2>1. SUFFICES ASSUME NEW t \in Deliveries, t.pc \in {"handle", "delay", "publish"},
                        Unacked(t.m, t.gen)
                 PROVE  <<"delivery", t>> \in U
    BY DEF Stale, Deliveries
  <2>2. t.m \in OnChannel(gen)
    BY <2>1, UnackedIsCurrent, DeliveryType DEF OnChannel, QueueInv
  <2>3. t.m \notin Replaced
    BY <2>1, NotReplaced
  <2>4. Holder(t.m) = t
    BY <2>1, OnlyHolder
  <2>5. Given(t.m) = <<"delivery", t>>
    BY <2>3, <2>4
  <2> HIDE DEF Given
  <2> QED BY <2>2, <2>5
<1> HIDE DEF U
<1>7. Copies(e)' \subseteq (Copies(e) \ ({"owed"} \X OnChannel(gen))) \cup U
  BY <1>3, <1>4, <1>5, <1>6 DEF Copies
<1> QED BY <1>2, <1>7

LEMMA OwedCount ==
  ASSUME QueueInv
  PROVE  /\ IsFiniteSet({"owed"} \X OnChannel(gen))
         /\ Cardinality({"owed"} \X OnChannel(gen)) = Cardinality(OnChannel(gen))
<1>1. IsFiniteSet({"owed"}) /\ Cardinality({"owed"}) = 1
  BY FS_Singleton
<1>2. IsFiniteSet(OnChannel(gen)) /\ Cardinality(OnChannel(gen)) \in Nat
  BY CopiesFinite
<1>3. /\ IsFiniteSet({"owed"} \X OnChannel(gen))
      /\ Cardinality({"owed"} \X OnChannel(gen)) = 1 * Cardinality(OnChannel(gen))
  BY <1>1, <1>2, FS_Product
<1> QED BY <1>2, <1>3

(* Faults that make originals owed. *)
LEMMA OwedFault ==
  ASSUME QueueInv, CopiesInv, UNCHANGED <<msg, gen, buf, tasks, sent>>, faults' = faults + 1
  PROVE  CopiesInv'
<1>1. \A k, g : Unacked(k, g)' <=> Unacked(k, g)
  BY DEF Unacked
<1>2. Replaced' = Replaced /\ \A e : Live(e)' = Live(e)
  BY <1>1 DEF Replaced, Live
<1>3. \A e : Fresh(e)' = Fresh(e) /\ Stale(e)' = Stale(e)
  BY <1>1, <1>2 DEF Fresh, Stale, Deliveries
<1>4. Owed' \subseteq OnChannel(gen)
  BY <1>1, UnackedIsCurrent DEF Owed, OnChannel
<1>5. \A e : Copies(e)' \subseteq Copies(e) \cup ({"owed"} \X OnChannel(gen))
  BY <1>3, <1>4 DEF Copies
<1>6. Cardinality(OnChannel(gen)) <= Prefetch
  BY DEF QueueInv, ChannelInv
<1> QED BY <1>5, <1>6, OwedCount, CopiesFault

LEMMA LostFault ==
  ASSUME QueueInv, CopiesInv, UNCHANGED <<buf, tasks, sent>>, msg' = Returned(msg, gen),
         faults' = faults + 1
  PROVE  CopiesInv'
<1>1. ASSUME NEW e PROVE \E U : /\ IsFiniteSet(U) /\ Cardinality(U) <= Prefetch
                                /\ Copies(e)' \subseteq Copies(e) \cup U
  <2>1. PICK U : /\ IsFiniteSet(U) /\ Cardinality(U) <= Cardinality(OnChannel(gen))
                 /\ Copies(e)' \subseteq (Copies(e) \ ({"owed"} \X OnChannel(gen))) \cup U
    BY LostCopies
  <2>2. /\ Cardinality(OnChannel(gen)) <= Prefetch /\ Cardinality(U) \in Nat
        /\ Cardinality(OnChannel(gen)) \in Nat /\ Prefetch \in Nat
    BY <2>1, CopiesFinite, FS_CardinalityType, PrefetchType DEF QueueInv, ChannelInv
  <2>3. Cardinality(U) <= Prefetch
    BY <2>1, <2>2
  <2> QED BY <2>1, <2>3
<1> QED BY <1>1, CopiesFault

(* Close returns what was owed since the process was told to stop. *)
LEMMA CloseCopies ==
  ASSUME QueueInv, CopiesInv, Close
  PROVE  CopiesInv'
<1> DEFINE V == {"owed"} \X OnChannel(gen)
<1>1. /\ UNCHANGED <<buf, tasks, sent, faults>> /\ msg' = Returned(msg, gen)
      /\ loop = "stopping"
  BY DEF Close
<1>2. IsFiniteSet(V) /\ Cardinality(V) = Cardinality(OnChannel(gen))
  BY OwedCount
<1>3. ASSUME NEW e \in Events
      PROVE  Cardinality(Copies(e)') <= sent[e] + faults * Prefetch
  <2>1. PICK U : /\ IsFiniteSet(U) /\ Cardinality(U) <= Cardinality(OnChannel(gen))
                 /\ Copies(e)' \subseteq (Copies(e) \ V) \cup U
    BY <1>1, LostCopies
  <2>2. V \subseteq Copies(e)
    BY <1>1 DEF Copies, Owed
  <2> HIDE DEF V
  <2>3. /\ Cardinality(Copies(e)') \in Nat /\ Cardinality(Copies(e)) \in Nat
        /\ Cardinality(Copies(e)') <= Cardinality(Copies(e))
    BY <1>2, <2>1, <2>2, CopiesFinite, CountExchanged
  <2>4. Cardinality(Copies(e)) <= sent[e] + faults * Prefetch
    BY DEF CopiesInv
  <2>5. sent[e] \in Nat /\ faults * Prefetch \in Nat
    BY PrefetchType DEF QueueInv, TypeOK
  <2> QED BY <2>3, <2>4, <2>5
<1> QED BY <1>1, <1>3 DEF CopiesInv, Prefetch

(* Steps that only move deliveries, or forget them. *)
LEMMA CopiesMoved ==
  ASSUME QueueInv, UNCHANGED msg, Deliveries' \subseteq Deliveries,
         \/ Replaced' = Replaced
         \/ Replaced = {},
         Owed' \subseteq Owed
  PROVE  \A e : Copies(e)' \subseteq Copies(e)
<1>1. \A k, g : Unacked(k, g)' <=> Unacked(k, g)
  BY DEF Unacked
<1>2. \A e : Fresh(e)' \subseteq Fresh(e)
  BY DEF Fresh, Live
<1>3. \A e : Stale(e)' \subseteq Stale(e)
  BY <1>1 DEF Stale
<1> QED BY <1>2, <1>3, CopiesParts

LEMMA CopiesStep ==
  ASSUME QueueInv, CopiesInv, [Next]_vars
  PROVE  CopiesInv'
<1>1. ASSUME NEW e \in Events, Publish(e) \/ PublishUnconfirmed(e) PROVE CopiesInv'
  BY <1>1, CopiesSend
<1>2. ASSUME UNCHANGED <<msg, gen, buf, tasks, retryCh>>,
             loop' = loop \/ {loop, loop'} \cap {"stopping"} = {}
      PROVE  \A e : Copies(e)' \subseteq Copies(e)
  <2>1. Replaced' = Replaced /\ Owed' = Owed /\ Deliveries' = Deliveries
    BY <1>2 DEF Replaced, Owed, OnChannel, Unacked, Deliveries
  <2> QED BY <1>2, <2>1, CopiesMoved
<1>3. CASE newRabbitMQPublisher \/ waitAndReconnect \/ BrokerStarts \/ UNCHANGED vars
  BY <1>2, <1>3, CopiesKept DEF newRabbitMQPublisher, waitAndReconnect, BrokerStarts,
                                vars, consumer
<1>4. CASE PublisherLost
  BY <1>2, <1>4, CopiesWithout DEF PublisherLost, consumer, Fault
<1>5. CASE connect
  <2>1. Replaced' = Replaced /\ Owed' = {} /\ Deliveries' \subseteq Deliveries
    BY <1>5 DEF connect, Replaced, Owed, Unacked, Deliveries
  <2> QED BY <1>5, <2>1, CopiesMoved, CopiesKept DEF connect
<1>6. CASE Restart
  <2>1. Replaced = {}
    BY <1>6, TaskType, UnackedIsCurrent DEF Restart, Replaced, QueueInv, ChannelInv
  <2>2. Owed' = {} /\ Deliveries' = {}
    BY <1>6 DEF Restart, Owed, Deliveries
  <2> QED BY <1>6, <2>1, <2>2, CopiesMoved, CopiesKept DEF Restart
<1>7. CASE Close
  BY <1>7, CloseCopies
<1>8. ASSUME NEW m \in Slots, Push(m) PROVE CopiesInv'
  <2> DEFINE d == [m |-> m, gen |-> gen, ev |-> msg[m].ev, n |-> msg[m].n, pc |-> "handle"]
  <2>1. /\ UNCHANGED <<gen, tasks, loop, retryCh, sent, faults>> /\ loop = "consume"
        /\ buf' = buf \cup {d} /\ d.m = m /\ d.gen = gen
    BY <1>8 DEF Push
  <2> HIDE DEF d
  <2>2. /\ \A t \in Deliveries : Unacked(t.m, t.gen)' <=> Unacked(t.m, t.gen)
        /\ \A e : Fresh(e)' = Fresh(e)
    BY <1>8, PushFresh
  <2>3. \A k, g : k = d.m /\ g = d.gen => Unacked(k, g)'
    BY <1>8, <2>1, PushMessage DEF Unacked, QueueInv
  <2>4. \A e : Stale(e)' \subseteq Stale(e)
    BY <2>1, <2>2, <2>3 DEF Stale, Deliveries
  <2>5. Owed' \subseteq Owed
    BY <2>1, <2>2 DEF Owed, Deliveries
  <2> QED BY <2>1, <2>2, <2>4, <2>5, CopiesParts, CopiesKept
<1>9. ASSUME NEW t \in buf, consumeUntilClosed(t) PROVE CopiesInv'
  <2>1. t.pc = "handle"
    BY DEF QueueInv, TaskInv
  <2>2. Replaced' = Replaced /\ Owed' = Owed /\ Deliveries' = Deliveries
    BY <1>9, <2>1 DEF consumeUntilClosed, Replaced, Owed, OnChannel, Unacked, Deliveries
  <2> QED BY <1>9, <2>2, CopiesMoved, CopiesKept DEF consumeUntilClosed
<1>10. ASSUME NEW t \in tasks, TaskStep(t) PROVE CopiesInv'
  BY <1>10, CopiesTask
<1>11. CASE ConnectionLost
  BY <1>11, LostFault, OwedFault DEF ConnectionLost, LoseConsumer, Fault
<1>12. CASE BrokerStops
  BY <1>12, LostFault DEF BrokerStops, Fault
<1>13. CASE Cancel
  BY <1>13, OwedFault DEF Cancel, Fault
<1> QED BY <1>1, <1>3, <1>4, <1>5, <1>6, <1>7, <1>8, <1>9, <1>10, <1>11, <1>12, <1>13
        DEF Next, ConsumerStep

-----------------------------------------------------------------------------
(* Nothing comes from nowhere *)

(* The events of messages and deliveries. *)
Known == {msg[m].ev : m \in {k \in Slots : msg[k] # Free}} \cup {t.ev : t \in Deliveries}

LEMMA KnownTask ==
  ASSUME QueueInv, NEW t \in tasks, TaskStep(t)
  PROVE  Known' \subseteq Known
<1>1. t.ev \in Known /\ t.m \in Slots
  BY TaskType DEF Known, Deliveries, QueueInv
<1>2. \A k \in Slots : msg'[k] # Free => msg'[k] = msg[k] \/ msg'[k].ev = t.ev
  <2>1. CASE UNCHANGED msg
    BY <2>1
  <2>2. CASE Ack(t) \/ Nack(t)
    BY <2>2, AckMessage, NackMessage, ReadyType, TaskType DEF QueueInv
  <2>3. CASE publishRetry(t)
    BY <2>3, PutMessage, ReadyType, TaskType, AttemptsType DEF publishRetry, QueueInv
  <2> QED BY <2>1, <2>2, <2>3 DEF TaskStep, handleDelivery, requeueAfter,
             publishRetryConfirmed, publishRetryFails, publishRetryUnconfirmed, ackOriginal
<1>3. \A u \in Deliveries' : u \in Deliveries \/ u.ev = t.ev
  <2>1. UNCHANGED buf
    BY DEF TaskStep, handleDelivery, requeueAfter, publishRetry, publishRetryConfirmed,
           publishRetryFails, publishRetryUnconfirmed, ackOriginal, consumer
  <2>2. CASE End(t)
    BY <2>1, <2>2 DEF End, Deliveries
  <2>3. ASSUME NEW pc, Become(t, pc) PROVE \A u \in tasks' : u \in tasks \/ u.ev = t.ev
    BY <2>3, TaskType DEF Become, QueueInv, Tasks
  <2> QED BY <2>1, <2>2, <2>3 DEF Deliveries, TaskStep, handleDelivery, requeueAfter,
             publishRetry, publishRetryConfirmed, publishRetryFails, publishRetryUnconfirmed,
             ackOriginal
<1> QED BY <1>1, <1>2, <1>3 DEF Known

LEMMA OriginStep ==
  ASSUME QueueInv, OriginInv, [Next]_vars
  PROVE  OriginInv'
<1>1. \A e \in Known : e # Junk => sent[e] > 0
  BY DEF Known, OriginInv
<1>2. ASSUME UNCHANGED <<sent, published>>, Known' \subseteq Known PROVE OriginInv'
  <2>1. \A e \in Known' : e # Junk => sent'[e] > 0
    BY <1>1, <1>2
  <2> QED BY <1>2, <2>1 DEF OriginInv, Known
<1>3. ASSUME NEW e \in Events, Publish(e) \/ PublishUnconfirmed(e) PROVE OriginInv'
  <2>1. /\ e \in Bodies /\ 1 \in 1 .. MaxUint /\ Put(e, 1) /\ UNCHANGED <<buf, tasks>>
        /\ published' \subseteq published \cup {e} /\ sent' = [sent EXCEPT ![e] = @ + 1]
    BY <1>3 DEF Publish, PublishUnconfirmed, Send, Bodies, consumer
  <2>2. \A k \in Slots : msg'[k] # Free => msg'[k] = msg[k] \/ msg'[k].ev = e
    BY <2>1, PutMessage, ReadyType DEF QueueInv
  <2>3. \A b \in Events : sent[b] > 0 \/ b = e => sent'[b] > 0
    BY <2>1 DEF QueueInv, TypeOK
  <2>4. \A b \in Bodies \ {Junk} : b \in Events
    BY DEF Bodies
  <2>5. \A b \in published' : sent'[b] > 0
    BY <2>1, <2>3 DEF OriginInv, QueueInv, TypeOK
  <2>6. \A k \in Slots : msg'[k] # Free /\ msg'[k].ev # Junk => sent'[msg'[k].ev] > 0
    BY <2>2, <2>3, <2>4, MessageType DEF OriginInv, QueueInv
  <2>7. \A t \in Deliveries' : t.ev # Junk => sent'[t.ev] > 0
    BY <2>1, <2>3, <2>4, DeliveryType DEF OriginInv, QueueInv, Deliveries
  <2> QED BY <2>5, <2>6, <2>7 DEF OriginInv
<1>4. ASSUME UNCHANGED msg, Deliveries' \subseteq Deliveries PROVE Known' \subseteq Known
  BY <1>4 DEF Known
<1>5. CASE newRabbitMQPublisher \/ waitAndReconnect \/ BrokerStarts \/ PublisherLost \/ Cancel
           \/ UNCHANGED vars \/ connect \/ Restart
  BY <1>2, <1>4, <1>5 DEF newRabbitMQPublisher, waitAndReconnect, BrokerStarts, PublisherLost,
                          Cancel, vars, consumer, connect, Restart, Deliveries
<1>6. ASSUME NEW t \in buf, consumeUntilClosed(t) PROVE OriginInv'
  BY <1>2, <1>4, <1>6 DEF consumeUntilClosed, Deliveries
<1>7. ASSUME UNCHANGED <<buf, tasks>>, msg' = Returned(msg, gen) PROVE Known' \subseteq Known
  BY <1>7, ReturnedMessages DEF Known, Deliveries, QueueInv
<1>8. CASE Close \/ BrokerStops
  BY <1>2, <1>7, <1>8 DEF Close, BrokerStops
<1>9. CASE ConnectionLost
  BY <1>2, <1>4, <1>7, <1>9 DEF ConnectionLost, LoseConsumer, Deliveries
<1>10. ASSUME NEW m \in Slots, Push(m) PROVE OriginInv'
  <2>1. \A k \in Slots : msg'[k] # Free => msg[k] # Free /\ msg'[k].ev = msg[k].ev
    BY <1>10, PushMessage DEF QueueInv
  <2>2. /\ \A t \in Deliveries' : t \in Deliveries \/ t.ev = msg[m].ev
        /\ msg[m] # Free /\ UNCHANGED <<sent, published>>
    BY <1>10 DEF Push, Deliveries
  <2>3. Known' \subseteq Known
    BY <2>1, <2>2 DEF Known
  <2> QED BY <1>2, <2>2, <2>3
<1>11. ASSUME NEW t \in tasks, TaskStep(t) PROVE OriginInv'
  <2>1. UNCHANGED <<sent, published>>
    BY <1>11 DEF TaskStep, handleDelivery, requeueAfter, publishRetry, publishRetryConfirmed,
           publishRetryFails, publishRetryUnconfirmed, ackOriginal
  <2> QED BY <1>2, <1>11, <2>1, KnownTask
<1> QED BY <1>3, <1>5, <1>6, <1>8, <1>9, <1>10, <1>11 DEF Next, ConsumerStep

-----------------------------------------------------------------------------
(* The invariant, and what it gives *)

LEMMA RabbitInit == Init => RabbitInv
<1> SUFFICES ASSUME Init PROVE RabbitInv
  OBVIOUS
<1>1. KeptInv
  BY DEF Init, KeptInv
<1>2. ASSUME NEW e \in Events PROVE Copies(e) = {}
  <2>1. Junk \in Bodies /\ 1 \in 1 .. MaxUint
    BY DEF Bodies
  <2>2. \A m \in Slots : msg[m] # Free => msg[m].ev = Junk
    BY <2>1, ReadyType DEF Init
  <2>3. Fresh(e) = {}
    BY <2>2 DEF Fresh, Live
  <2>4. Stale(e) = {} /\ Owed = {}
    BY DEF Init, Stale, Owed, Deliveries
  <2> QED BY <2>3, <2>4 DEF Copies
<1>3. CopiesInv
  BY <1>2, FS_EmptySet, PrefetchType DEF Init, CopiesInv
<1>4. OriginInv
  <2>1. \A m \in Slots : msg[m] # Free => msg[m].ev = Junk
    BY DEF Init, Ready
  <2> QED BY <2>1 DEF Init, OriginInv, Deliveries
<1> QED BY <1>1, <1>3, <1>4, QueueInit DEF RabbitInv

LEMMA RabbitInvariant == Spec => []RabbitInv
<1>1. RabbitInv /\ [Next]_vars => RabbitInv'
  BY QueueStep, OriginStep, KeptStep, CopiesStep DEF RabbitInv
<1> QED BY <1>1, RabbitInit, PTL DEF Spec

(* The state of the publisher, the consumer and the broker stays in its    *)
(* types; in particular the attempts of a message never wrap to zero.      *)
THEOREM RabbitTypeCorrect == Spec => []TypeOK
  BY TypeInit, TypeStep, PTL DEF Spec

(* Publish and requeueAfter lose nothing: a confirmed message, or its      *)
(* replacement, is in the broker until a handler has returned nil for its  *)
(* event, whatever is lost or stopped between any two steps.               *)
THEOREM PublishedIsKept == Spec => []ConfirmedIsKept
<1>1. RabbitInv => ConfirmedIsKept
  BY DEF RabbitInv, OriginInv, KeptInv, QueueInv, TypeOK, Fresh, ConfirmedIsKept
<1> QED BY <1>1, RabbitInvariant, PTL

(* requeueAfter duplicates nothing by itself: every copy of an event goes  *)
(* back to a publish, or to a fault, which accounts for no more of them    *)
(* than the prefetch.                                                      *)
THEOREM RetriesDoNotMultiply == Spec => []DuplicatesNeedFaults
<1>1. RabbitInv => DuplicatesNeedFaults
  <2> SUFFICES ASSUME RabbitInv, NEW e \in Events
               PROVE  Cardinality(Fresh(e)) <= sent[e] + faults * Prefetch
    BY DEF DuplicatesNeedFaults
  <2>1. IsFiniteSet(Copies(e)) /\ IsFiniteSet(Fresh(e))
    BY CopiesFinite, SlotsFinite, FS_Subset DEF RabbitInv, Fresh, Live
  <2>2. Cardinality(Fresh(e)) \in Nat /\ Cardinality({"message"}) = 1 /\ IsFiniteSet({"message"})
    BY <2>1, FS_CardinalityType, FS_Singleton
  <2>3. Cardinality({"message"} \X Fresh(e)) = 1 * Cardinality(Fresh(e))
    BY <2>1, <2>2, FS_Product
  <2>4. {"message"} \X Fresh(e) \subseteq Copies(e)
    BY DEF Copies
  <2>5. /\ Cardinality({"message"} \X Fresh(e)) <= Cardinality(Copies(e))
        /\ Cardinality(Copies(e)) \in Nat
    BY <2>1, <2>4, CountSmaller
  <2>6. Cardinality(Copies(e)) <= sent[e] + faults * Prefetch
    BY DEF RabbitInv, CopiesInv
  <2>7. sent[e] \in Nat /\ faults * Prefetch \in Nat
    BY PrefetchType DEF RabbitInv, QueueInv, TypeOK
  <2> QED BY <2>2, <2>3, <2>5, <2>6, <2>7
<1> QED BY <1>1, RabbitInvariant, PTL

(* What Ack and Nack of a delivery change is the message that was          *)
(* delivered, and no other goroutine has it.                               *)
AnswersItsOwn ==
  \A t \in tasks : Unacked(t.m, t.gen) =>
    /\ msg[t.m].ev = t.ev
    /\ \A u \in Deliveries : u.m = t.m /\ Unacked(u.m, u.gen) => u = t

(* A goroutine that outlives its channel never acknowledges or returns the *)
(* message of another: neither one that took the slot of its own, nor its  *)
(* own message delivered again on a later channel.                         *)
THEOREM LateAnswersAreHarmless == Spec => []AnswersItsOwn
<1>1. ASSUME RabbitInv PROVE AnswersItsOwn
  <2>1. SUFFICES ASSUME NEW t \in tasks, Unacked(t.m, t.gen)
                 PROVE  /\ msg[t.m].ev = t.ev
                        /\ \A u \in Deliveries : u.m = t.m /\ Unacked(u.m, u.gen) => u = t
    BY DEF AnswersItsOwn
  <2>2. QueueInv /\ t \in Deliveries /\ t.m \in Slots
    BY <1>1, TaskType DEF RabbitInv, QueueInv, Deliveries
  <2>3. Current(t)
    BY <2>1, <2>2, UnackedIsCurrent DEF Current
  <2>4. msg[t.m].ev = t.ev
    BY <2>2, <2>3 DEF QueueInv, TaskInv
  <2> QED BY <2>1, <2>2, <2>4, OnlyHolder
<1> QED BY <1>1, RabbitInvariant, PTL

-----------------------------------------------------------------------------
(* The consumer implements the at-least-once queue *)

Sent == {e \in Events : sent[e] > 0}
Kept == {e \in Events : Fresh(e) # {}}

LEMMA QueueMapInit == Init => Queue!Init
<1> SUFFICES ASSUME Init PROVE Queue!Init
  OBVIOUS
<1>1. \A m \in Slots : msg[m] # Free => msg[m].ev = Junk
  BY DEF Init, Ready
<1>2. \A e \in Events : Fresh(e) = {}
  BY <1>1 DEF Fresh, Live
<1>3. Sent = {} /\ Kept = {} /\ done = {}
  BY <1>2 DEF Init, Sent, Kept
<1> QED BY <1>3 DEF Queue!Init, Sent, Kept

(* A replacement keeps its event where it was, a returned original brings  *)
(* back only what KeptInv had let go: what was done.                       *)
LEMMA QueueMapStep ==
  ASSUME RabbitInv, RabbitInv', [Next]_vars
  PROVE  [Queue!Next]_(Queue!qvars)
<1>1. sent \in [Events -> Nat] /\ QueueInv /\ KeptInv /\ OriginInv
  BY DEF RabbitInv, QueueInv, TypeOK
<1>2. Kept' \subseteq Sent'
  BY DEF RabbitInv, OriginInv, Kept, Sent, Fresh, Live
<1>3. ASSUME NEW e \in Events, Publish(e) \/ PublishUnconfirmed(e)
      PROVE  Queue!Publish(e)
  <2>1. UNCHANGED done /\ Sent' = Sent \cup {e} /\ Kept' = Kept \cup {e}
    BY <1>1, <1>3, FreshSend DEF Sent, Kept
  <2> QED BY <2>1 DEF Queue!Publish, Sent, Kept
<1>4. ASSUME UNCHANGED sent, Stays
      PROVE  \E S \in SUBSET done : Queue!Redeliver(S)
  <2>1. Sent' = Sent /\ Kept \subseteq Kept' /\ UNCHANGED done
    BY <1>4 DEF Sent, Kept, Stays
  <2>2. Kept' \ Kept \subseteq done
    BY <1>1, <1>2, <2>1 DEF KeptInv, Sent, Kept
  <2>3. Queue!Redeliver(Kept' \ Kept)
    BY <2>1 DEF Queue!Redeliver, Sent, Kept
  <2> QED BY <2>2, <2>3
<1>5. ASSUME NEW t \in tasks, UNCHANGED sent, Handles(t)
      PROVE  Queue!Handle(t.ev) /\ t.ev \in Events
  <2>1. t.ev \in Sent /\ Sent' = Sent
    BY <1>1, <1>5 DEF Handles, OriginInv, Deliveries, Sent
  <2>2. Kept' \in {Kept, Kept \ {t.ev}}
    BY <1>5 DEF Handles, Kept
  <2> QED BY <1>5, <2>1, <2>2 DEF Queue!Handle, Handles, Sent, Kept
<1> QED BY <1>1, <1>3, <1>4, <1>5, FreshStep DEF Queue!Next

(* Publisher, consumer and broker, with every delay, replacement,          *)
(* reconnect and shutdown, are an at-least-once queue to the service that  *)
(* publishes and the handler that consumes.                                *)
THEOREM QueueRefinement == Spec => ImplementsQueue
<1>1. RabbitInv /\ RabbitInv' /\ [Next]_vars => [Queue!Next]_(Queue!qvars)
  BY QueueMapStep
<1> QED BY <1>1, QueueMapInit, RabbitInvariant, PTL DEF Spec, ImplementsQueue, Queue!Spec

-----------------------------------------------------------------------------
(* The delay before requeueAfter publishes *)

(* A quotient is exceeded exactly when the product is. *)
LEMMA QuotientBounds ==
  ASSUME NEW d \in Nat \ {0}, NEW m \in Nat, NEW n \in Nat
  PROVE  n > m \div d <=> n * d > m
<1> DEFINE q == m \div d
           r == m % d
<1>1. q \in Nat /\ r \in Nat /\ r < d /\ m = d * q + r
  BY SMT
<1>2. ASSUME n > q PROVE n * d > m
  <2>1. n * d >= (q + 1) * d
    BY <1>1, <1>2, SMT
  <2> QED BY <1>1, <2>1, SMT
<1>3. ASSUME n <= q PROVE n * d <= m
  <2>1. n * d <= q * d
    BY <1>1, <1>3, SMT
  <2> QED BY <1>1, <2>1, SMT
<1> QED BY <1>1, <1>2, <1>3, SMT

(* The comment above the function, min(default_requeue_delay * attempts,   *)
(* max_requeue_delay), holds for every validated configuration and every   *)
(* attempts value: the check by division keeps the product from wrapping   *)
(* into a short or negative delay.  Attempt zero counts as the first.      *)
THEOREM DelayIsCappedProduct ==
  ASSUME Limit \in Nat \ {0},
         NEW defaultDelay \in Durations, NEW maxDelay \in Durations, NEW attempts \in Nat,
         validateRequeueConfig(defaultDelay, maxDelay)
  PROVE  LET product == defaultDelay * (IF attempts = 0 THEN 1 ELSE attempts) IN
         linearRequeueDelay(attempts, defaultDelay, maxDelay)
           = IF product <= maxDelay THEN product ELSE maxDelay
<1> DEFINE n == IF attempts = 0 THEN 1 ELSE attempts
           product == defaultDelay * n
<1>1. /\ defaultDelay \in Nat \ {0} /\ maxDelay \in Nat \ {0} /\ n \in Nat \ {0}
      /\ maxDelay < Limit
  BY DEF Durations, validateRequeueConfig
<1>2. n > maxDelay \div defaultDelay <=> product > maxDelay
  <2>1. n > maxDelay \div defaultDelay <=> n * defaultDelay > maxDelay
    BY <1>1, QuotientBounds
  <2>2. n * defaultDelay = product
    BY <1>1
  <2> QED BY <2>1, <2>2
<1>3. product \in Nat
  BY <1>1
<1> HIDE DEF n
<1>4. ASSUME product <= maxDelay PROVE Wrapped(product) = product
  <2> HIDE DEF product
  <2>1. product + Limit \in 0 .. 2 * Limit - 1
    BY <1>1, <1>3, <1>4
  <2>2. (product + Limit) % (2 * Limit) = product + Limit
    BY <2>1, SMT
  <2> QED BY <2>2, <1>3 DEF Wrapped
<1>5. linearRequeueDelay(attempts, defaultDelay, maxDelay)
        = IF n > maxDelay \div defaultDelay THEN maxDelay
          ELSE IF Wrapped(product) > maxDelay THEN maxDelay ELSE Wrapped(product)
  BY <1>1 DEF linearRequeueDelay, n
<1>6. linearRequeueDelay(attempts, defaultDelay, maxDelay)
        = IF product <= maxDelay THEN product ELSE maxDelay
  <2> HIDE DEF product
  <2>1. CASE product <= maxDelay
    BY <1>1, <1>2, <1>3, <1>4, <1>5, <2>1
  <2>2. CASE product > maxDelay
    BY <1>1, <1>2, <1>3, <1>5, <2>2
  <2> QED BY <1>1, <1>3, <2>1, <2>2
<1> QED BY <1>6 DEF n
=============================================================================
