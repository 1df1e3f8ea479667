------------------------- MODULE ActionBreakerProofs -------------------------
(***************************************************************************)
(* Proofs about ActionBreaker for any number of handlers, any threshold    *)
(* and any limit.  The argument is about permits: a permit belongs to the  *)
(* generation in which it was issued, every change of state that ends a    *)
(* generation leaves no permit of the new one behind, and within one       *)
(* generation all permits are of the kind the state calls for.             *)
(***************************************************************************)
EXTENDS ActionBreaker, FiniteSetTheorems, TLAPS

InUse == {h \in Handlers : handler[h].pc \in {"prepare", "call", "settle"}}

(* A permit is of a generation that has existed and can still end. *)
PermitsAreOld ==
  \A h \in Handlers : Outstanding(h) =>
    handler[h].generation <= generation /\ handler[h].generation < MaxGeneration

(* Permits of the current generation are probes exactly when half open. *)
PermitsFitState ==
  \A h \in Handlers : Outstanding(h) /\ Current(h) =>
    (handler[h].halfOpen <=> state = "HALF_OPEN")

(* The slot count without its limit. *)
SlotCount == MaxConcurrency > 0 => sem = Cardinality(InUse) /\ sem <= MaxConcurrency

BreakerInv ==
  /\ TypeOK
  /\ PermitsAreOld
  /\ PermitsFitState
  /\ OpenIsUnpermitted
  /\ ProbeAccounted
  /\ StreakMatchesState

Inv == BreakerInv /\ SlotCount

USE HandlersAssumption, ThresholdAssumption, LimitAssumption

-----------------------------------------------------------------------------
(* The breaker *)

(* Every idle handler is outside the accounting of permits. *)
LEMMA IdleIsSettled ==
  /\ Idle \in [pc : PCs, generation : 0 .. MaxGeneration, halfOpen : BOOLEAN]
  /\ Idle.pc = "idle"
BY DEF Idle, PCs

(* Allow issues a permit that fits the state it leaves behind. *)
LEMMA AllowKeeps ==
  ASSUME BreakerInv, sem' \in Nat, NEW h \in Handlers, Allow(h)
  PROVE  BreakerInv'
<1> USE DEF BreakerInv, Allow, Permit, Current, Outstanding, Probe
<1>1. CASE AllowClosed(h)
  BY <1>1 DEF AllowClosed, TypeOK, PCs, PermitsAreOld, PermitsFitState, OpenIsUnpermitted,
              ProbeAccounted, StreakMatchesState
<1>2. CASE AllowProbe(h)
  <2>1. TypeOK'
    BY <1>2 DEF AllowProbe, TypeOK, PCs
  <2>2. (PermitsAreOld /\ PermitsFitState /\ OpenIsUnpermitted /\ StreakMatchesState)'
    BY <1>2 DEF AllowProbe, TypeOK, PCs, PermitsAreOld, PermitsFitState, OpenIsUnpermitted,
                StreakMatchesState
  <2>3. \A g \in Handlers : ~Probe(g)
    BY <1>2 DEF AllowProbe, ProbeAccounted, OpenIsUnpermitted
  <2>4. ProbeAccounted'
    BY <1>2, <2>3 DEF AllowProbe, TypeOK, PCs, ProbeAccounted
  <2> QED BY <2>1, <2>2, <2>4
<1> QED BY <1>1, <1>2 DEF Allow

(* A step that only moves a handler on keeps the accounting. *)
LEMMA MoveKeeps ==
  ASSUME BreakerInv, sem' \in Nat, NEW h \in Handlers, NEW pc \in {"prepare", "call"},
         Outstanding(h),
         handler' = [handler EXCEPT ![h].pc = pc],
         UNCHANGED <<state, consecutiveFailure, generation, openUntil, halfOpenInFlight>>
  PROVE  BreakerInv'
BY DEF BreakerInv, TypeOK, PCs, PermitsAreOld, PermitsFitState, OpenIsUnpermitted,
       ProbeAccounted, StreakMatchesState, Current, Outstanding, Probe

(* abort gives the probe back, if the handler has it. *)
LEMMA AbortKeeps ==
  ASSUME BreakerInv, sem' \in Nat, NEW h \in Handlers, Outstanding(h), abort(h), Finish(h)
  PROVE  BreakerInv'
<1> USE DEF BreakerInv, abort, Finish, Current, Outstanding, Probe
<1>1. TypeOK'
  BY IdleIsSettled DEF TypeOK, PCs, Released
<1>2. (PermitsAreOld /\ PermitsFitState /\ OpenIsUnpermitted /\ StreakMatchesState)'
  BY IdleIsSettled DEF TypeOK, PCs, PermitsAreOld, PermitsFitState, OpenIsUnpermitted,
                       StreakMatchesState
<1>3. ProbeAccounted'
  BY IdleIsSettled DEF TypeOK, PCs, ProbeAccounted, Released
<1> QED BY <1>1, <1>2, <1>3

(* observe either ignores the answer of an old permit, or gives its        *)
(* verdict on the current generation and, if that ends it, starts one      *)
(* without permits.                                                        *)
LEMMA ObserveKeeps ==
  ASSUME BreakerInv, sem' \in Nat, NEW h \in Handlers, Observe(h)
  PROVE  BreakerInv'
<1> USE DEF BreakerInv, Current, Outstanding, Probe
<1>0. /\ handler[h].pc = "call"
      /\ handler' = [handler EXCEPT ![h].pc = "settle"]
  BY DEF Observe
<1>1. handler' \in [Handlers -> [pc : PCs, generation : 0 .. MaxGeneration, halfOpen : BOOLEAN]]
  BY <1>0 DEF TypeOK, PCs
<1>2. \A g \in Handlers : /\ Outstanding(g)' <=> Outstanding(g) /\ g # h
                          /\ handler'[g].generation = handler[g].generation
                          /\ handler'[g].halfOpen = handler[g].halfOpen
  BY <1>0 DEF TypeOK
<1>3. CASE /\ ~Current(h)
           /\ UNCHANGED <<state, consecutiveFailure, generation, openUntil, halfOpenInFlight>>
  BY <1>1, <1>2, <1>3 DEF TypeOK, PermitsAreOld, PermitsFitState, OpenIsUnpermitted,
     ProbeAccounted, StreakMatchesState
<1>4. CASE /\ Current(h)
           /\ halfOpenInFlight' = Released(h)
           /\ UNCHANGED <<state, generation, openUntil>>
           /\ consecutiveFailure' \in 0 .. FailureThreshold
           /\ StreakMatchesState'
  <2>1. (TypeOK /\ PermitsAreOld /\ PermitsFitState /\ OpenIsUnpermitted)'
    BY <1>1, <1>2, <1>4 DEF TypeOK, PermitsAreOld, PermitsFitState, OpenIsUnpermitted, Released
  <2>2. ProbeAccounted'
    BY <1>0, <1>2, <1>4 DEF TypeOK, ProbeAccounted, Released, PermitsFitState
  <2> QED BY <1>4, <2>1, <2>2
<1>5. CASE /\ Current(h)
           /\ generation' = generation + 1
           /\ ~halfOpenInFlight'
           /\ state' \in {"CLOSED", "OPEN"}
           /\ openUntil' \in {"unset", "future"}
           /\ consecutiveFailure' \in 0 .. FailureThreshold
           /\ StreakMatchesState'
  <2>1. generation' \in 0 .. MaxGeneration /\ halfOpenInFlight' = FALSE
    BY <1>0, <1>5 DEF TypeOK, PermitsAreOld, Observe, ObserveIgnore, ObserveReachable,
       ObserveUnavailable, openLocked, Released
  <2>2. \A g \in Handlers : ~(Outstanding(g) /\ Current(g))'
    BY <1>2, <1>5 DEF TypeOK, PermitsAreOld
  <2>3. TypeOK'
    BY <1>1, <1>5, <2>1 DEF TypeOK
  <2>4. PermitsAreOld'
    BY <1>2, <1>5, <2>1 DEF TypeOK, PermitsAreOld
  <2>5. (PermitsFitState /\ OpenIsUnpermitted /\ ProbeAccounted)'
    BY <2>1, <2>2 DEF PermitsFitState, OpenIsUnpermitted, ProbeAccounted
  <2> QED BY <1>5, <2>3, <2>4, <2>5
<1>6. CASE Current(h) /\ ObserveIgnore(h)
  BY <1>4, <1>6 DEF ObserveIgnore, TypeOK, StreakMatchesState
<1>7. CASE Current(h) /\ ObserveReachable(h)
  <2>1. state # "OPEN"
    BY <1>0, <1>7 DEF OpenIsUnpermitted
  <2>2. CASE state = "HALF_OPEN"
    <3>1. halfOpenInFlight' = FALSE
      BY <1>0, <1>7, <2>2 DEF ObserveReachable, Released, PermitsFitState
    <3> QED BY <1>5, <1>7, <2>2, <3>1 DEF ObserveReachable, TypeOK, StreakMatchesState
  <2>3. CASE state = "CLOSED"
    BY <1>4, <1>7, <2>3 DEF ObserveReachable, TypeOK, StreakMatchesState
  <2> QED BY <2>1, <2>2, <2>3 DEF TypeOK
<1>8. CASE Current(h) /\ ObserveUnavailable(h)
  <2>1. CASE state = "HALF_OPEN"
    BY <1>5, <1>8, <2>1 DEF ObserveUnavailable, openLocked, TypeOK, StreakMatchesState
  <2>2. CASE state = "CLOSED" /\ consecutiveFailure + 1 >= FailureThreshold
    BY <1>5, <1>8, <2>2 DEF ObserveUnavailable, openLocked, TypeOK, StreakMatchesState
  <2>3. CASE state = "CLOSED" /\ ~(consecutiveFailure + 1 >= FailureThreshold)
    BY <1>4, <1>8, <2>3 DEF ObserveUnavailable, TypeOK, StreakMatchesState
  <2> QED BY <1>8, <2>1, <2>2, <2>3 DEF ObserveUnavailable
<1> QED BY <1>3, <1>6, <1>7, <1>8 DEF Observe

-----------------------------------------------------------------------------
(* The slots *)

(* A handler that enters the slotted part of process is one more in it,    *)
(* one that leaves is one less.                                            *)
LEMMA SlotsMove ==
  ASSUME TypeOK, NEW h \in Handlers, NEW r,
         handler' = [handler EXCEPT ![h] = r]
  PROVE  /\ IsFiniteSet(InUse) /\ Cardinality(InUse) \in Nat
         /\ h \notin InUse /\ r.pc \in {"prepare", "call", "settle"}
              => Cardinality(InUse)' = Cardinality(InUse) + 1
         /\ h \in InUse /\ r.pc \notin {"prepare", "call", "settle"}
              => /\ Cardinality(InUse)' = Cardinality(InUse) - 1
                 /\ Cardinality(InUse) > 0
         /\ (h \in InUse <=> r.pc \in {"prepare", "call", "settle"})
              => Cardinality(InUse)' = Cardinality(InUse)
<1>1. IsFiniteSet(InUse)
  BY FS_Subset DEF InUse
<1>2. Cardinality(InUse) \in Nat
  BY <1>1, FS_CardinalityType
<1>3. InUse' = IF r.pc \in {"prepare", "call", "settle"} THEN InUse \cup {h} ELSE InUse \ {h}
  BY DEF InUse, TypeOK
<1>4. h \notin InUse => Cardinality(InUse \cup {h}) = Cardinality(InUse) + 1
  BY <1>1, FS_AddElement
<1>5. h \in InUse => Cardinality(InUse \ {h}) = Cardinality(InUse) - 1
  BY <1>1, FS_RemoveElement
<1>6. h \in InUse => Cardinality(InUse) # 0
  BY <1>1, FS_EmptySet
<1>7. h \in InUse => InUse \cup {h} = InUse
  OBVIOUS
<1>8. h \notin InUse => InUse \ {h} = InUse
  OBVIOUS
<1>9. CASE r.pc \in {"prepare", "call", "settle"}
  <2>1. InUse' = InUse \cup {h}
    BY <1>3, <1>9
  <2>2. h \notin InUse => Cardinality(InUse') = Cardinality(InUse) + 1
    BY <1>4, <2>1
  <2>3. h \in InUse => Cardinality(InUse') = Cardinality(InUse)
    BY <1>7, <2>1
  <2> QED BY <1>1, <1>2, <1>9, <2>2, <2>3
<1>10. CASE r.pc \notin {"prepare", "call", "settle"}
  <2>1. InUse' = InUse \ {h}
    BY <1>3, <1>10
  <2>2. h \in InUse => Cardinality(InUse') = Cardinality(InUse) - 1 /\ Cardinality(InUse) > 0
    BY <1>2, <1>5, <1>6, <2>1
  <2>3. h \notin InUse => Cardinality(InUse') = Cardinality(InUse)
    BY <1>8, <2>1
  <2> QED BY <1>1, <1>2, <1>10, <2>2, <2>3
<1> QED BY <1>9, <1>10

-----------------------------------------------------------------------------
(* Every step of a handler, and the clock, keep the invariant. *)
LEMMA StepKeeps ==
  ASSUME Inv, NEW h \in Handlers, Step(h)
  PROVE  Inv'
<1> USE DEF Inv, BreakerInv
<1>0. TypeOK
  OBVIOUS
<1>1. CASE Allow(h)
  <2>0. PICK b \in BOOLEAN : Permit(h, b)
    BY <1>1 DEF Allow, AllowClosed, AllowProbe
  <2> DEFINE r == [pc |-> "acquire", generation |-> generation, halfOpen |-> b]
  <2>1. handler' = [handler EXCEPT ![h] = r] /\ r.pc = "acquire"
    BY <2>0 DEF Permit
  <2> HIDE DEF r
  <2>2. Cardinality(InUse)' = Cardinality(InUse)
    BY <1>0, <1>1, <2>1, SlotsMove DEF Allow, InUse
  <2>3. SlotCount' /\ sem' \in Nat
    BY <1>1, <2>2 DEF Allow, SlotCount, TypeOK
  <2> QED BY <1>1, <2>3, AllowKeeps
<1>2. CASE Acquire(h)
  <2>1. handler' = [handler EXCEPT ![h] = [handler[h] EXCEPT !.pc = "prepare"]]
    BY <1>2 DEF Acquire, TypeOK
  <2>2. /\ h \notin InUse
        /\ [handler[h] EXCEPT !.pc = "prepare"].pc \in {"prepare", "call", "settle"}
    BY <1>2 DEF Acquire, InUse, TypeOK
  <2>3. Cardinality(InUse)' = Cardinality(InUse) + 1
    BY <1>0, <2>1, <2>2, SlotsMove
  <2>4. SlotCount' /\ sem' \in Nat
    BY <1>2, <2>3 DEF Acquire, SlotCount, TypeOK
  <2> QED BY <1>2, <2>4, MoveKeeps DEF Acquire, Outstanding
<1>3. CASE AcquireCanceled(h)
  <2>1. Cardinality(InUse)' = Cardinality(InUse)
    BY <1>0, <1>3, IdleIsSettled, SlotsMove DEF AcquireCanceled, Finish, InUse
  <2>2. SlotCount' /\ sem' \in Nat
    BY <1>3, <2>1 DEF AcquireCanceled, SlotCount, TypeOK
  <2> QED BY <1>3, <2>2, AbortKeeps DEF AcquireCanceled, Outstanding
<1>4. CASE PrepareFails(h)
  <2>1. /\ Cardinality(InUse)' = Cardinality(InUse) - 1
        /\ Cardinality(InUse) > 0 /\ Cardinality(InUse) \in Nat
    BY <1>0, <1>4, IdleIsSettled, SlotsMove DEF PrepareFails, Finish, InUse
  <2>2. SlotCount' /\ sem' \in Nat
    BY <1>4, <2>1 DEF PrepareFails, release, SlotCount, TypeOK
  <2> QED BY <1>4, <2>2, AbortKeeps DEF PrepareFails, Outstanding
<1>5. CASE Prepared(h)
  <2>1. handler' = [handler EXCEPT ![h] = [handler[h] EXCEPT !.pc = "call"]]
    BY <1>5 DEF Prepared, TypeOK
  <2>2. /\ h \in InUse
        /\ [handler[h] EXCEPT !.pc = "call"].pc \in {"prepare", "call", "settle"}
    BY <1>5 DEF Prepared, InUse, TypeOK
  <2>3. Cardinality(InUse)' = Cardinality(InUse)
    BY <1>0, <2>1, <2>2, SlotsMove
  <2>4. SlotCount' /\ sem' \in Nat
    BY <1>5, <2>3 DEF Prepared, SlotCount, TypeOK
  <2> QED BY <1>5, <2>4, MoveKeeps DEF Prepared, Outstanding
<1>6. CASE Observe(h)
  <2>1. handler' = [handler EXCEPT ![h] = [handler[h] EXCEPT !.pc = "settle"]]
    BY <1>6 DEF Observe, TypeOK
  <2>2. /\ h \in InUse
        /\ [handler[h] EXCEPT !.pc = "settle"].pc \in {"prepare", "call", "settle"}
    BY <1>6 DEF Observe, InUse, TypeOK
  <2>3. Cardinality(InUse)' = Cardinality(InUse)
    BY <1>0, <2>1, <2>2, SlotsMove
  <2>4. SlotCount' /\ sem' \in Nat
    BY <1>6, <2>3 DEF Observe, SlotCount, TypeOK
  <2> QED BY <1>6, <2>4, ObserveKeeps
<1>7. CASE Return(h)
  <2>1. /\ Cardinality(InUse)' = Cardinality(InUse) - 1
        /\ Cardinality(InUse) > 0 /\ Cardinality(InUse) \in Nat
    BY <1>0, <1>7, IdleIsSettled, SlotsMove DEF Return, Finish, InUse
  <2>2. SlotCount' /\ sem' \in Nat
    BY <1>7, <2>1 DEF Return, release, SlotCount, TypeOK
  <2>3. \A g \in Handlers : /\ Outstanding(g)' <=> Outstanding(g)
                            /\ Outstanding(g) => handler'[g] = handler[g]
    BY <1>0, <1>7, IdleIsSettled DEF Return, Finish, Outstanding, TypeOK
  <2>4. TypeOK'
    BY <1>0, <1>7, <2>2, IdleIsSettled DEF Return, Finish, TypeOK
  <2>5. (PermitsAreOld /\ PermitsFitState /\ OpenIsUnpermitted /\ StreakMatchesState)'
    BY <1>7, <2>3 DEF Return, PermitsAreOld, PermitsFitState, OpenIsUnpermitted,
                      StreakMatchesState, Current
  <2>6. ProbeAccounted'
    BY <1>7, <2>3 DEF Return, ProbeAccounted, Probe, Current
  <2> QED BY <2>2, <2>4, <2>5, <2>6
<1> QED BY <1>1, <1>2, <1>3, <1>4, <1>5, <1>6, <1>7 DEF Step

(* The initial state satisfies the invariant. *)
LEMMA InitHolds == Init => Inv
<1> SUFFICES ASSUME Init PROVE Inv
  OBVIOUS
<1>1. BreakerInv
  <2>1. StreakMatchesState
    BY DEF Init, StreakMatchesState
  <2>2. handler \in [Handlers -> [pc : PCs, generation : 0 .. MaxGeneration, halfOpen : BOOLEAN]]
    BY IdleIsSettled DEF Init
  <2>3. /\ consecutiveFailure \in 0 .. FailureThreshold
        /\ generation \in 0 .. MaxGeneration
        /\ sem \in Nat
    BY DEF Init
  <2>4. /\ state \in {"CLOSED", "OPEN", "HALF_OPEN"}
        /\ openUntil \in {"unset", "future", "past"}
        /\ halfOpenInFlight \in BOOLEAN
    BY DEF Init
  <2>5. TypeOK
    BY <2>2, <2>3, <2>4 DEF TypeOK
  <2>6. \A h \in Handlers : ~Outstanding(h)
    BY IdleIsSettled DEF Init, Outstanding
  <2>7. PermitsAreOld /\ PermitsFitState /\ OpenIsUnpermitted
    BY <2>6 DEF PermitsAreOld, PermitsFitState, OpenIsUnpermitted
  <2>8. ~halfOpenInFlight /\ \A h \in Handlers : ~Probe(h)
    BY <2>6 DEF Init, Probe
  <2>9. ProbeAccounted
    BY <2>8 DEF ProbeAccounted
  <2> QED BY <2>1, <2>7, <2>9, <2>5 DEF BreakerInv
<1>2. InUse = {}
  BY IdleIsSettled DEF Init, InUse
<1>3. SlotCount
  BY <1>2, FS_EmptySet DEF Init, SlotCount
<1> QED BY <1>1, <1>3 DEF Inv

(* Inv is inductive. *)
LEMMA Inductive == Inv /\ [Next]_vars => Inv'
<1> SUFFICES ASSUME Inv, [Next]_vars PROVE Inv'
  OBVIOUS
<1> USE DEF Inv, BreakerInv
<1>1. CASE OpenDurationPasses
  <2>1. InUse' = InUse
    BY <1>1 DEF OpenDurationPasses, InUse
  <2> QED
    BY <1>1, <2>1 DEF OpenDurationPasses, TypeOK, PermitsAreOld, PermitsFitState, SlotCount,
       OpenIsUnpermitted, ProbeAccounted, StreakMatchesState, Outstanding, Probe, Current
<1>2. CASE \E h \in Handlers : Step(h)
  BY <1>2, StepKeeps
<1>3. CASE UNCHANGED vars
  <2>1. InUse' = InUse
    BY <1>3 DEF vars, InUse
  <2> QED
    BY <1>3, <2>1 DEF vars, TypeOK, PermitsAreOld, PermitsFitState, SlotCount,
       OpenIsUnpermitted, ProbeAccounted, StreakMatchesState, Outstanding, Probe, Current
<1> QED BY <1>1, <1>2, <1>3 DEF Next

(* Inv holds in every reachable state. *)
LEMMA Invariance == Spec => []Inv
BY InitHolds, Inductive, PTL DEF Spec

-----------------------------------------------------------------------------
(* The variables of breaker, limiter and handlers keep their types; the    *)
(* failure count never passes the threshold that opens the circuit.        *)
THEOREM BreakerTypeCorrect == Spec => []TypeOK
<1>1. Inv => TypeOK
  BY DEF Inv, BreakerInv
<1> QED BY <1>1, Invariance, PTL

(* The breaker has at most one probe and remembers it exactly while it is  *)
(* under way, whatever path its handler leaves by.                         *)
THEOREM ProbeIsAccounted == Spec => []ProbeAccounted
<1>1. Inv => ProbeAccounted
  BY DEF Inv, BreakerInv
<1> QED BY <1>1, Invariance, PTL

(* No permit of the current generation is out while the circuit is open.   *)
THEOREM OpenHasNoPermit == Spec => []OpenIsUnpermitted
<1>1. Inv => OpenIsUnpermitted
  BY DEF Inv, BreakerInv
<1> QED BY <1>1, Invariance, PTL

(* The failure count is at the threshold exactly when the circuit is not   *)
(* closed, so a circuit that closes starts from a clean count.             *)
THEOREM StreakIsOfState == Spec => []StreakMatchesState
<1>1. Inv => StreakMatchesState
  BY DEF Inv, BreakerInv
<1> QED BY <1>1, Invariance, PTL

(* No path through process leaks a slot, none releases it twice, and       *)
(* max_concurrency holds.                                                  *)
THEOREM SlotsAreAccounted == Spec => []SlotsAccounted
<1>1. Inv => SlotsAccounted
  BY DEF Inv, SlotCount, SlotsAccounted, InUse
<1> QED BY <1>1, Invariance, PTL

(* Only the answer to a probe ends an open or half-open generation. *)
THEOREM ProbeAloneDecides == Spec => ProbeDecides
<1>1. Inv /\ [Next]_vars =>
        [state # "CLOSED" /\ generation' # generation =>
           \E h \in Handlers : Probe(h) /\ handler[h].pc = "call" /\ handler'[h].pc = "settle"]_vars
  <2> SUFFICES ASSUME Inv, Next, state # "CLOSED", generation' # generation
               PROVE  \E h \in Handlers :
                        Probe(h) /\ handler[h].pc = "call" /\ handler'[h].pc = "settle"
    BY DEF vars
  <2>1. PICK h \in Handlers : Step(h)
    BY DEF Next, OpenDurationPasses
  <2>2. Observe(h) /\ Current(h)
    BY <2>1 DEF Step, Allow, Acquire, AcquireCanceled, PrepareFails, Prepared, Observe, Return, abort
  <2>3. Outstanding(h) /\ handler[h].pc = "call" /\ handler'[h].pc = "settle"
    BY <2>2 DEF Observe, Outstanding, Inv, BreakerInv, TypeOK
  <2>4. state = "HALF_OPEN"
    BY <2>2, <2>3 DEF Inv, BreakerInv, OpenIsUnpermitted, TypeOK
  <2>5. Probe(h)
    BY <2>2, <2>3, <2>4 DEF Inv, BreakerInv, PermitsFitState, Probe
  <2> QED BY <2>3, <2>5
<1> QED BY <1>1, Invariance, PTL DEF Spec, ProbeDecides
=============================================================================
