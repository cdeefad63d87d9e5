---------------------------- MODULE SamplesProofs ----------------------------
(***************************************************************************)
(* The safety properties of MCSamples for any number of threads, slots,    *)
(* frames and packets, and any size of the objects of Collections.  Every  *)
(* program has an inductive invariant of its own, kept by the steps of the *)
(* program and, since the others keep still, by all steps.                 *)
(***************************************************************************)
EXTENDS MCSamples, FiniteSetTheorems, SequenceTheorems, WellFoundedInduction, TLAPS

-----------------------------------------------------------------------------
(* Comparing the numbers of elements of two finite sets.                   *)
LEMMA CardinalityGrows ==
  ASSUME NEW S, NEW T, IsFiniteSet(T), S \subseteq T
  PROVE  /\ IsFiniteSet(S) /\ Cardinality(S) \in Nat /\ Cardinality(T) \in Nat
         /\ Cardinality(S) <= Cardinality(T)
<1>1. IsFiniteSet(S) /\ Cardinality(S) <= Cardinality(T)
  BY FS_Subset
<1>. QED  BY <1>1, FS_CardinalityType

(* All but one element are still there ... *)
LEMMA CardinalityLosesOne ==
  ASSUME NEW S, NEW T, NEW x, IsFiniteSet(S), IsFiniteSet(T), S \ {x} \subseteq T
  PROVE  /\ Cardinality(S) \in Nat /\ Cardinality(T) \in Nat
         /\ Cardinality(T) >= Cardinality(S) - 1
<1>1. Cardinality(S) \in Nat
  BY FS_CardinalityType
<1>2. Cardinality(S \ {x}) \in Nat /\ Cardinality(S \ {x}) >= Cardinality(S) - 1
  <2>1. IsFiniteSet(S \ {x}) /\ Cardinality(S \ {x}) \in {Cardinality(S), Cardinality(S) - 1}
    BY FS_RemoveElement
  <2>2. Cardinality(S \ {x}) \in Nat
    BY <2>1, FS_CardinalityType
  <2>. QED  BY <1>1, <2>1, <2>2
<1>3. Cardinality(S \ {x}) <= Cardinality(T) /\ Cardinality(T) \in Nat
  BY CardinalityGrows
<1>. QED  BY <1>1, <1>2, <1>3

(* ... and another one may have come instead. *)
LEMMA CardinalityExchanges ==
  ASSUME NEW S, NEW T, NEW x, NEW y, IsFiniteSet(S), IsFiniteSet(T),
         S \ {x} \subseteq T, y \in T, y \notin S
  PROVE  /\ Cardinality(S) \in Nat /\ Cardinality(T) \in Nat
         /\ Cardinality(T) >= Cardinality(S)
<1>1. /\ IsFiniteSet(T \ {y}) /\ Cardinality(T) \in Nat
      /\ Cardinality(T \ {y}) = Cardinality(T) - 1
  BY FS_RemoveElement, FS_CardinalityType
<1>2. Cardinality(S) \in Nat /\ Cardinality(T \ {y}) >= Cardinality(S) - 1
  BY <1>1, CardinalityLosesOne
<1>. QED  BY <1>1, <1>2

-----------------------------------------------------------------------------
(* The slots.  While somebody sleeps, each step that takes a caller away   *)
(* fills or frees a slot, or wakes somebody, in exchange; a sleeper has a  *)
(* call to complete.                                                       *)
SlotTypeInv ==
  /\ slots \in Seq(Values)
  /\ left \in [Slot!Threads -> Nat]
  /\ state \in [Slot!Threads -> {"running", "waiting", "joined"}]
  /\ \A t \in Slot!Threads : state[t] = "waiting" => left[t] > 0

SlotCallers(S) == {t \in S : Slot!Calls(t)}

SlotSleepers(S) == {t \in S : state[t] = "waiting"}

SlotWakeInv ==
  /\ SlotSleepers(Producers) # {} => Len(slots) + Cardinality(SlotCallers(Producers)) >= Capacity
  /\ SlotSleepers(Consumers) # {} => Len(slots) <= Cardinality(SlotCallers(Consumers))

SlotInv == SlotTypeInv /\ SlotWakeInv

LEMMA SlotInitially == Slot!Init => SlotInv
<1>. SUFFICES ASSUME Slot!Init PROVE SlotInv
  OBVIOUS
<1>1. SlotTypeInv
  BY QuotaAssumption DEF Slot!Init, Slot!Threads, SlotTypeInv
<1>2. SlotSleepers(Producers) = {} /\ SlotSleepers(Consumers) = {}
  BY DEF Slot!Init, Slot!Threads, SlotSleepers
<1>. QED  BY <1>1, <1>2 DEF SlotInv, SlotWakeInv

LEMMA SlotTypeStep == SlotTypeInv /\ [Slot!Next]_slotVars => SlotTypeInv'
<1>. SUFFICES ASSUME SlotTypeInv, [Slot!Next]_slotVars PROVE SlotTypeInv'
  OBVIOUS
<1>. USE DEF SlotTypeInv, Slot!Threads, Slot!Calls
<1>1. ASSUME NEW t \in Slot!Threads, NEW sleepers \in SUBSET Slot!Threads,
             Slot!Calls(t), Slot!FinishCall(t, sleepers)
      PROVE  /\ left' \in [Slot!Threads -> Nat]
             /\ state' \in [Slot!Threads -> {"running", "waiting", "joined"}]
             /\ \A u \in Slot!Threads : state'[u] = "waiting" => left'[u] > 0
  <2>1. left' = [left EXCEPT ![t] = @ - 1] /\ left[t] > 0 /\ state[t] = "running"
    BY <1>1 DEF Slot!FinishCall
  <2>2. left' \in [Slot!Threads -> Nat]
    BY <2>1
  <2>3. \/ state' = state
        \/ \E s \in sleepers : state' = [state EXCEPT ![s] = "running"]
    BY <1>1 DEF Slot!FinishCall
  <2>4. state' \in [Slot!Threads -> {"running", "waiting", "joined"}]
    BY <2>3
  <2>5. \A u \in Slot!Threads : state'[u] = "waiting" => state[u] = "waiting" /\ u # t
    BY <2>1, <2>3
  <2>. QED  BY <2>1, <2>2, <2>4, <2>5
<1>2. ASSUME NEW p \in Producers, Slot!Produce(p) PROVE SlotTypeInv'
  <2>1. slots' \in Seq(Values)
    BY <1>2 DEF Slot!Produce
  <2>. QED  BY <1>1, <1>2, <2>1 DEF Slot!Produce, Slot!OnSlotEmpty
<1>3. ASSUME NEW c \in Consumers, Slot!Consume(c) PROVE SlotTypeInv'
  <2>1. slots' \in Seq(Values)
    BY <1>3 DEF Slot!Consume
  <2>. QED  BY <1>1, <1>3, <2>1 DEF Slot!Consume, Slot!OnSlotFull
<1>4. ASSUME NEW t \in Slot!Threads,
             Slot!ProducerSleeps(t) \/ Slot!ConsumerSleeps(t) \/ Slot!WakeSpuriously(t) \/ Slot!Join(t)
      PROVE  SlotTypeInv'
  BY <1>4 DEF Slot!ProducerSleeps, Slot!ConsumerSleeps, Slot!WakeSpuriously, Slot!Join
<1>5. CASE UNCHANGED slotVars
  BY <1>5 DEF slotVars
<1>. QED  BY <1>2, <1>3, <1>4, <1>5 DEF Slot!Next, Slot!Terminated, Slot!vars, slotVars

(* A call that is finished takes one caller off its side, and the one it   *)
(* wakes joins the other side's.                                           *)
LEMMA SlotCallEnds ==
  ASSUME SlotTypeInv, SlotTypeInv',
         NEW S, NEW T, S \in {Producers, Consumers}, T \in {Producers, Consumers}, S # T,
         NEW t \in S, Slot!Calls(t), Slot!FinishCall(t, SlotSleepers(T))
  PROVE  /\ SlotSleepers(S)' = SlotSleepers(S)
         /\ Cardinality(SlotCallers(S)') >= Cardinality(SlotCallers(S)) - 1
         /\ SlotSleepers(T)' # {} => /\ SlotSleepers(T) # {}
                                      /\ Cardinality(SlotCallers(T)') >= Cardinality(SlotCallers(T)) + 1
         /\ Cardinality(SlotCallers(S)) \in Nat /\ Cardinality(SlotCallers(T)) \in Nat
         /\ Cardinality(SlotCallers(S)') \in Nat /\ Cardinality(SlotCallers(T)') \in Nat
<1>. USE DEF SlotTypeInv, Slot!Threads, Slot!Calls, SlotCallers, SlotSleepers
<1>1. /\ S \cap T = {} /\ S \subseteq Slot!Threads /\ T \subseteq Slot!Threads
      /\ IsFiniteSet(SlotCallers(S)) /\ IsFiniteSet(SlotCallers(T))
      /\ IsFiniteSet(SlotCallers(S)') /\ IsFiniteSet(SlotCallers(T)')
  BY ThreadsAssumption, CardinalityGrows
<1>2. left' = [left EXCEPT ![t] = @ - 1]
  BY DEF Slot!FinishCall
<1>3. \A u \in S : state'[u] = state[u]
  BY <1>1 DEF Slot!FinishCall
<1>4. Cardinality(SlotCallers(S)') >= Cardinality(SlotCallers(S)) - 1
  <2>1. SlotCallers(S) \ {t} \subseteq SlotCallers(S)'
    BY <1>1, <1>2, <1>3
  <2>. QED  BY <1>1, <2>1, CardinalityLosesOne
<1>5. ASSUME SlotSleepers(T)' # {}
      PROVE  /\ SlotSleepers(T) # {}
             /\ Cardinality(SlotCallers(T)') >= Cardinality(SlotCallers(T)) + 1
  <2>1. SlotSleepers(T) # {}
    BY <1>1, <1>5 DEF Slot!FinishCall
  <2>2. PICK s \in SlotSleepers(T) : state' = [state EXCEPT ![s] = "running"]
    BY <2>1 DEF Slot!FinishCall
  <2>3. s \in SlotCallers(T)' /\ s \notin SlotCallers(T) /\ SlotCallers(T) \subseteq SlotCallers(T)'
    BY <1>1, <1>2, <2>2
  <2>4. SlotCallers(T) \cup {s} \subseteq SlotCallers(T)'
    BY <2>3
  <2>5. Cardinality(SlotCallers(T) \cup {s}) = Cardinality(SlotCallers(T)) + 1
    BY <1>1, <2>3, FS_AddElement
  <2>6. Cardinality(SlotCallers(T) \cup {s}) <= Cardinality(SlotCallers(T)')
    BY <1>1, <2>4, CardinalityGrows
  <2>. QED  BY <2>1, <2>5, <2>6
<1>. QED  BY <1>1, <1>3, <1>4, <1>5, FS_CardinalityType

LEMMA SlotWakeStep == SlotInv /\ SlotTypeInv' /\ [Slot!Next]_slotVars => SlotWakeInv'
<1>. SUFFICES ASSUME SlotInv, SlotTypeInv', [Slot!Next]_slotVars PROVE SlotWakeInv'
  OBVIOUS
<1>. USE CapacityAssumption DEF SlotInv
<1>1. ASSUME NEW p \in Producers, Slot!Produce(p) PROVE SlotWakeInv'
  <2>1. Slot!Calls(p) /\ Slot!FinishCall(p, SlotSleepers(Consumers)) /\ Producers # Consumers
    BY <1>1, ThreadsAssumption DEF Slot!Produce, Slot!OnSlotEmpty, SlotSleepers
  <2>2. Len(slots') = Len(slots) + 1 /\ Len(slots) \in Nat
    BY <1>1 DEF Slot!Produce, SlotTypeInv
  <2>3. /\ SlotSleepers(Producers)' = SlotSleepers(Producers)
        /\ Cardinality(SlotCallers(Producers)') >= Cardinality(SlotCallers(Producers)) - 1
        /\ SlotSleepers(Consumers)' # {} =>
             Cardinality(SlotCallers(Consumers)') >= Cardinality(SlotCallers(Consumers)) + 1
        /\ SlotSleepers(Consumers)' # {} => SlotSleepers(Consumers) # {}
        /\ Cardinality(SlotCallers(Producers)) \in Nat /\ Cardinality(SlotCallers(Consumers)) \in Nat
        /\ Cardinality(SlotCallers(Producers)') \in Nat /\ Cardinality(SlotCallers(Consumers)') \in Nat
    BY <2>1, SlotCallEnds
  <2>. QED  BY <2>2, <2>3 DEF SlotWakeInv
<1>2. ASSUME NEW c \in Consumers, Slot!Consume(c) PROVE SlotWakeInv'
  <2>1. Slot!Calls(c) /\ Slot!FinishCall(c, SlotSleepers(Producers)) /\ Producers # Consumers
    BY <1>2, ThreadsAssumption DEF Slot!Consume, Slot!OnSlotFull, SlotSleepers
  <2>2. Len(slots') = Len(slots) - 1 /\ Len(slots) \in Nat
    <3>1. slots \in Seq(Values) /\ slots # <<>> /\ slots' = SubSeq(slots, 1, Len(slots) - 1)
      BY <1>2 DEF Slot!Consume, SlotTypeInv
    <3>2. PICK n \in Nat : Len(slots) = n + 1
      <4>1. Len(slots) \in Nat /\ Len(slots) # 0
        BY <3>1, EmptySeq
      <4>. QED  BY <4>1
    <3>3. /\ slots' = SubSeq(slots, 1, n) /\ \A i \in 1..n : slots[i] \in Values
      BY <3>1, <3>2, ElementOfSeq
    <3>4. Len(slots') = IF 1 <= n THEN n - 1 + 1 ELSE 0
      BY <3>3, SubSeqProperties
    <3>. QED  BY <3>2, <3>4
  <2>3. /\ SlotSleepers(Consumers)' = SlotSleepers(Consumers)
        /\ Cardinality(SlotCallers(Consumers)') >= Cardinality(SlotCallers(Consumers)) - 1
        /\ SlotSleepers(Producers)' # {} =>
             Cardinality(SlotCallers(Producers)') >= Cardinality(SlotCallers(Producers)) + 1
        /\ SlotSleepers(Producers)' # {} => SlotSleepers(Producers) # {}
        /\ Cardinality(SlotCallers(Consumers)) \in Nat /\ Cardinality(SlotCallers(Producers)) \in Nat
        /\ Cardinality(SlotCallers(Consumers)') \in Nat /\ Cardinality(SlotCallers(Producers)') \in Nat
    BY <2>1, SlotCallEnds
  <2>. QED  BY <2>2, <2>3 DEF SlotWakeInv
<1>3. ASSUME NEW S, S \in {Producers, Consumers}
      PROVE  /\ IsFiniteSet(SlotCallers(S)) /\ IsFiniteSet(SlotCallers(S)')
             /\ Cardinality(SlotCallers(S)) \in Nat /\ Cardinality(SlotCallers(S)') \in Nat
  BY <1>3, ThreadsAssumption, CardinalityGrows DEF SlotCallers
<1>4. ASSUME NEW p \in Producers, Slot!ProducerSleeps(p) PROVE SlotWakeInv'
  <2>1. slots' = slots /\ Len(slots) \in Nat /\ Len(slots) >= Capacity
    BY <1>4 DEF Slot!ProducerSleeps, SlotTypeInv
  <2>2. /\ SlotSleepers(Consumers)' = SlotSleepers(Consumers)
        /\ SlotCallers(Consumers)' = SlotCallers(Consumers)
    BY <1>4, ThreadsAssumption DEF Slot!ProducerSleeps, SlotSleepers, SlotCallers, Slot!Calls,
                                   SlotTypeInv, Slot!Threads
  <2>. QED  BY <1>3, <2>1, <2>2 DEF SlotWakeInv
<1>5. ASSUME NEW c \in Consumers, Slot!ConsumerSleeps(c) PROVE SlotWakeInv'
  <2>1. slots' = slots /\ Len(slots) = 0
    BY <1>5 DEF Slot!ConsumerSleeps, SlotTypeInv
  <2>2. /\ SlotSleepers(Producers)' = SlotSleepers(Producers)
        /\ SlotCallers(Producers)' = SlotCallers(Producers)
    BY <1>5, ThreadsAssumption DEF Slot!ConsumerSleeps, SlotSleepers, SlotCallers, Slot!Calls,
                                   SlotTypeInv, Slot!Threads
  <2>. QED  BY <1>3, <2>1, <2>2 DEF SlotWakeInv
<1>6. ASSUME NEW t \in Slot!Threads, Slot!WakeSpuriously(t) \/ Slot!Join(t) PROVE SlotWakeInv'
  <2>1. slots' = slots /\ Len(slots) \in Nat
    BY <1>6 DEF Slot!WakeSpuriously, Slot!Join, SlotTypeInv
  <2>2. ASSUME NEW S, S \in {Producers, Consumers}
        PROVE  /\ SlotSleepers(S)' \subseteq SlotSleepers(S)
               /\ Cardinality(SlotCallers(S)) <= Cardinality(SlotCallers(S)')
    <3>1. SlotSleepers(S)' \subseteq SlotSleepers(S) /\ SlotCallers(S) \subseteq SlotCallers(S)'
      BY <1>6, <2>2 DEF Slot!WakeSpuriously, Slot!Join, SlotSleepers, SlotCallers, Slot!Calls,
                        SlotTypeInv, Slot!Threads
    <3>. QED  BY <1>3, <2>2, <3>1, CardinalityGrows
  <2>. QED  BY <1>3, <2>1, <2>2 DEF SlotWakeInv
<1>7. CASE UNCHANGED slotVars
  BY <1>7 DEF slotVars, SlotWakeInv, SlotSleepers, SlotCallers, Slot!Calls
<1>. QED  BY <1>1, <1>2, <1>4, <1>5, <1>6, <1>7 DEF Slot!Next, Slot!Terminated, Slot!vars, slotVars

LEMMA SlotStep == SlotInv /\ [Slot!Next]_slotVars => SlotInv'
BY SlotTypeStep, SlotWakeStep DEF SlotInv

-----------------------------------------------------------------------------
(* The stream puller: which frames pass between the two threads, and what  *)
(* main has acquired when one of its eleven calls fails or the decoding    *)
(* thread runs.                                                            *)
PullerInLoop == main \in {"while", "events", "take", "show", "join"}

PullerTypeInv ==
  /\ main \in {"setup", "while", "events", "take", "show", "join", "cleanup", "returned",
               "crashed"}
  /\ decoder \in {"unborn", "alloc", "while", "read", "send", "receive", "publish", "stop", "gone"}
  /\ frame \in Nat /\ shared_frame \in Nat /\ taken \in Nat /\ shown \in Nat
  /\ local_frame \in Nat /\ frame_ready \in BOOLEAN

(* Which of the two threads exists when. *)
PullerPhaseInv ==
  /\ main = "setup" => decoder = "unborn"
  /\ PullerInLoop => decoder # "unborn"
  /\ main = "cleanup" => decoder = "gone"
  /\ main \in {"returned", "crashed"} => decoder \in {"unborn", "gone"}

(* The frame that was decoded last is published, unless it is about to be, *)
(* and the frame that was taken last is shown, unless it is about to be or *)
(* is empty.                                                               *)
PullerFrameInv ==
  main \notin {"cleanup", "returned", "crashed"} =>
    /\ decoder = "publish" => frame = shared_frame + 1
    /\ decoder # "publish" => frame = shared_frame
    /\ frame_ready <=> shared_frame > taken
    /\ taken <= shared_frame /\ shown <= taken /\ local_frame \in {0, taken}
    /\ local_frame = 0 => shown = taken \/ taken \in spoiled

(* What the calls before the k-th have acquired. *)
IfAfter(n, k, x) == IF k > n THEN {x} ELSE {}
Acquired(k) ==
  IfAfter(1, k, "fmt_ctx") \cup IfAfter(5, k, "codec_ctx") \cup IfAfter(8, k, "SDL")
  \cup IfAfter(9, k, "window") \cup IfAfter(10, k, "renderer") \cup IfAfter(11, k, "texture")

PullerHeldInv ==
  /\ main = "setup" => step \in 1..12 /\ held = Acquired(step)
  /\ PullerInLoop \/ main = "cleanup" => held = Acquired(12)
  /\ main = "returned" => held = {}

PullerInv == PullerTypeInv /\ PullerPhaseInv /\ PullerFrameInv /\ PullerHeldInv

-----------------------------------------------------------------------------
(* Each call's error path releases exactly what the calls before it have   *)
(* acquired (pull_ipc.cpp:154-376).                                        *)
LEMMA PullerCallsAre ==
  /\ Len(Puller!Calls) = 11
  /\ \A k \in 1..11 : /\ Puller!Calls[k].undo = Acquired(k)
                      /\ Acquired(k) \cup Puller!Calls[k].takes = Acquired(k + 1)
<1>1. Len(Puller!OpenStream) = 7 /\ Len(Puller!OpenWindow) = 4
  BY DEF Puller!OpenStream, Puller!OpenWindow
<1>2. /\ Len(Puller!Calls) = 11
      /\ \A k \in 1..11 :
           Puller!Calls[k] = IF k <= 7 THEN Puller!OpenStream[k] ELSE Puller!OpenWindow[k - 7]
  BY <1>1 DEF Puller!Calls, Puller!OpenStream, Puller!OpenWindow
<1>3. ASSUME NEW k \in 1..7
      PROVE  /\ Puller!OpenStream[k].undo = Acquired(k)
             /\ Acquired(k) \cup Puller!OpenStream[k].takes = Acquired(k + 1)
  <2>1. k \in {1, 2, 3, 4, 5, 6, 7}
    OBVIOUS
  <2>. QED  BY <2>1 DEF Puller!OpenStream, Puller!Call, Puller!Stream, Puller!Codec, Acquired, IfAfter
<1>4. ASSUME NEW k \in 8..11
      PROVE  /\ Puller!OpenWindow[k - 7].undo = Acquired(k)
             /\ Acquired(k) \cup Puller!OpenWindow[k - 7].takes = Acquired(k + 1)
  <2>1. k \in {8, 9, 10, 11}
    OBVIOUS
  <2>. QED  BY <2>1 DEF Puller!OpenWindow, Puller!Call, Puller!Codec, Acquired, IfAfter
<1>. QED  BY <1>2, <1>3, <1>4

LEMMA PullerInitially == Puller!Init => PullerInv
<1>. SUFFICES ASSUME Puller!Init PROVE PullerInv
  OBVIOUS
<1>1. PullerTypeInv
  BY DEF Puller!Init, PullerTypeInv
<1>2. PullerPhaseInv /\ PullerFrameInv
  BY DEF Puller!Init, PullerPhaseInv, PullerFrameInv, PullerInLoop
<1>3. PullerHeldInv
  <2>1. Acquired(1) = {}
    BY DEF Acquired, IfAfter
  <2>. QED  BY <2>1 DEF Puller!Init, PullerHeldInv, PullerInLoop
<1>. QED  BY <1>1, <1>2, <1>3 DEF PullerInv

-----------------------------------------------------------------------------
(* main before its loop. *)
LEMMA PullerSetupStep ==
  ASSUME PullerInv, Puller!CallSucceeds \/ Puller!CallFails \/ Puller!StartDecoder
  PROVE  PullerInv'
<1>. USE DEF PullerInv, PullerInLoop, Puller!setupVars, Puller!shared, Puller!history
<1>1. main = "setup" /\ step \in 1..12 /\ held = Acquired(step)
  BY DEF PullerHeldInv, Puller!CallSucceeds, Puller!CallFails, Puller!StartDecoder
<1>2. CASE Puller!CallSucceeds
  <2>1. step \in 1..11
    BY <1>1, <1>2, PullerCallsAre DEF Puller!CallSucceeds
  <2>2. PullerHeldInv'
    BY <1>1, <1>2, <2>1, PullerCallsAre DEF Puller!CallSucceeds, PullerHeldInv
  <2>3. PullerTypeInv' /\ PullerPhaseInv'
    BY <1>2 DEF Puller!CallSucceeds, PullerTypeInv, PullerPhaseInv
  <2>4. PullerFrameInv'
    BY <1>2 DEF Puller!CallSucceeds, PullerFrameInv, PullerPhaseInv
  <2>. QED  BY <2>2, <2>3, <2>4
<1>3. CASE Puller!CallFails
  <2>1. step \in 1..11
    BY <1>1, <1>3, PullerCallsAre DEF Puller!CallFails
  <2>2. PullerHeldInv'
    BY <1>1, <1>3, <2>1, PullerCallsAre DEF Puller!CallFails, PullerHeldInv
  <2>3. PullerTypeInv' /\ PullerPhaseInv'
    BY <1>3 DEF Puller!CallFails, PullerTypeInv, PullerPhaseInv
  <2>4. PullerFrameInv'
    BY <1>3 DEF Puller!CallFails, PullerFrameInv, PullerPhaseInv
  <2>. QED  BY <2>2, <2>3, <2>4
<1>4. CASE Puller!StartDecoder
  <2>1. step = 12
    BY <1>1, <1>4, PullerCallsAre DEF Puller!StartDecoder
  <2>2. PullerHeldInv'
    BY <1>1, <1>4, <2>1 DEF Puller!StartDecoder, PullerHeldInv
  <2>3. PullerTypeInv' /\ PullerPhaseInv'
    BY <1>4 DEF Puller!StartDecoder, PullerTypeInv, PullerPhaseInv
  <2>4. PullerFrameInv'
    BY <1>4 DEF Puller!StartDecoder, PullerFrameInv, PullerPhaseInv
  <2>. QED  BY <2>2, <2>3, <2>4
<1>. QED  BY <1>2, <1>3, <1>4

(* main in its loop and after it: what it holds is all of Acquired(12). *)
LEMMA PullerLoopStep ==
  ASSUME PullerInv,
         \/ Puller!WhileRunning \/ Puller!PollEvents \/ Puller!TakeFrame
         \/ Puller!ShowFrame \/ Puller!Join \/ Puller!Cleanup
  PROVE  PullerInv'
<1>. USE DEF PullerInv, PullerInLoop, Puller!setupVars, Puller!shared, Puller!history
<1>1. CASE Puller!WhileRunning
  BY <1>1 DEF Puller!WhileRunning, PullerTypeInv, PullerPhaseInv, PullerFrameInv, PullerHeldInv
<1>2. CASE Puller!PollEvents
  BY <1>2 DEF Puller!PollEvents, PullerTypeInv, PullerPhaseInv, PullerFrameInv, PullerHeldInv
<1>3. CASE Puller!TakeFrame
  <2>1. PullerTypeInv' /\ PullerPhaseInv' /\ PullerHeldInv'
    BY <1>3 DEF Puller!TakeFrame, PullerTypeInv, PullerPhaseInv, PullerHeldInv
  <2>2. PullerFrameInv'
    BY <1>3 DEF Puller!TakeFrame, PullerTypeInv, PullerFrameInv
  <2>. QED  BY <2>1, <2>2
<1>4. CASE Puller!ShowFrame
  <2>1. PullerTypeInv' /\ PullerPhaseInv' /\ PullerHeldInv'
    BY <1>4 DEF Puller!ShowFrame, PullerTypeInv, PullerPhaseInv, PullerHeldInv
  <2>2. PullerFrameInv'
    BY <1>4 DEF Puller!ShowFrame, PullerTypeInv, PullerFrameInv
  <2>. QED  BY <2>1, <2>2
<1>5. CASE Puller!Join
  BY <1>5 DEF Puller!Join, PullerTypeInv, PullerPhaseInv, PullerFrameInv, PullerHeldInv
<1>6. CASE Puller!Cleanup
  <2>1. held' = {}
    BY <1>6 DEF Puller!Cleanup, PullerHeldInv, Acquired, IfAfter
  <2>. QED  BY <1>6, <2>1 DEF Puller!Cleanup, PullerTypeInv, PullerPhaseInv, PullerFrameInv, PullerHeldInv
<1>. QED  BY <1>1, <1>2, <1>3, <1>4, <1>5, <1>6

(* The decoding thread runs only while main is in its loop. *)
LEMMA PullerDecoderStep == PullerInv /\ Puller!Decoder => PullerInv'
<1>. SUFFICES ASSUME PullerInv, Puller!Decoder PROVE PullerInv'
  OBVIOUS
<1>. USE DEF PullerInv, PullerInLoop, Puller!DecoderOnly, Puller!Goto, Puller!setupVars,
             Puller!shared, Puller!history
<1>0. decoder \notin {"unborn", "gone"} /\ UNCHANGED <<step, held, local_frame, shown, taken>>
  BY DEF Puller!Decoder, Puller!Allocate, Puller!AllocateFails, Puller!DecoderWhile,
         Puller!ReadFrame, Puller!SendPacket, Puller!ReceiveFrame, Puller!NoMoreFrames,
         Puller!Publish, Puller!PublishToNull, Puller!StopRunning
<1>2. PullerInLoop
  BY <1>0 DEF PullerTypeInv, PullerPhaseInv
<1>8. CASE Puller!PublishToNull
  BY <1>0, <1>8 DEF Puller!PublishToNull, PullerTypeInv, PullerPhaseInv, PullerFrameInv, PullerHeldInv
<1>. SUFFICES ASSUME ~Puller!PublishToNull PROVE PullerInv'
  BY <1>8
<1>1. UNCHANGED <<main, step, held, local_frame, shown, taken>> /\ spoiled \subseteq spoiled'
  BY <1>0 DEF Puller!Decoder, Puller!Allocate, Puller!AllocateFails, Puller!DecoderWhile,
         Puller!ReadFrame, Puller!SendPacket, Puller!ReceiveFrame, Puller!NoMoreFrames,
         Puller!Publish, Puller!StopRunning
<1>3. PullerHeldInv'
  BY <1>1, <1>2 DEF PullerHeldInv
<1>4. CASE \/ Puller!Allocate \/ Puller!DecoderWhile \/ Puller!ReadFrame
           \/ Puller!SendPacket \/ Puller!NoMoreFrames
  <2>1. /\ decoder # "publish" /\ decoder' \in {"while", "read", "send", "receive", "stop"}
        /\ UNCHANGED <<frame, shared_frame, frame_ready>>
    BY <1>4 DEF Puller!Allocate, Puller!DecoderWhile, Puller!ReadFrame, Puller!SendPacket,
                Puller!NoMoreFrames
  <2>. QED  BY <1>1, <1>2, <1>3, <2>1 DEF PullerTypeInv, PullerPhaseInv, PullerFrameInv
<1>5. CASE Puller!AllocateFails \/ Puller!StopRunning
  <2>1. /\ decoder # "publish" /\ decoder' = "gone"
        /\ UNCHANGED <<frame, shared_frame, frame_ready>>
    BY <1>5 DEF Puller!AllocateFails, Puller!StopRunning
  <2>. QED  BY <1>1, <1>2, <1>3, <2>1 DEF PullerTypeInv, PullerPhaseInv, PullerFrameInv
<1>6. CASE Puller!ReceiveFrame
  BY <1>1, <1>2, <1>3, <1>6 DEF Puller!ReceiveFrame, PullerTypeInv, PullerPhaseInv, PullerFrameInv
<1>7. CASE Puller!Publish
  <2>1. PullerTypeInv' /\ PullerPhaseInv'
    BY <1>1, <1>2, <1>7 DEF Puller!Publish, PullerTypeInv, PullerPhaseInv
  <2>2. PullerFrameInv'
    BY <1>1, <1>2, <1>7 DEF Puller!Publish, PullerTypeInv, PullerFrameInv
  <2>. QED  BY <1>3, <2>1, <2>2
<1>. QED  BY <1>4, <1>5, <1>6, <1>7 DEF Puller!Decoder

LEMMA PullerStep == PullerInv /\ [Puller!Next]_pullerVars => PullerInv'
<1>. SUFFICES ASSUME PullerInv, [Puller!Next]_pullerVars PROVE PullerInv'
  OBVIOUS
<1>1. CASE UNCHANGED pullerVars
  BY <1>1 DEF pullerVars, PullerInv, PullerInLoop, PullerTypeInv, PullerPhaseInv,
              PullerFrameInv, PullerHeldInv
<1>2. CASE Puller!Main
  BY <1>2, PullerSetupStep, PullerLoopStep DEF Puller!Main
<1>3. CASE Puller!Decoder
  BY <1>3, PullerDecoderStep
<1>4. Puller!Terminated => UNCHANGED pullerVars
  BY DEF Puller!Terminated, Puller!vars, Puller!setupVars, Puller!shared, Puller!history, pullerVars
<1>. QED  BY <1>1, <1>2, <1>3, <1>4 DEF Puller!Next

-----------------------------------------------------------------------------
(* Sequences whose elements count on from n. *)
CountsFrom(n, q) == \A k \in 1..Len(q) : q[k] = n + k

LEMMA CountsAppend ==
  ASSUME NEW n \in Nat, NEW q \in Seq(Nat), CountsFrom(n, q),
         NEW x \in Nat, x = n + Len(q) + 1
  PROVE  /\ Append(q, x) \in Seq(Nat) /\ Len(Append(q, x)) = Len(q) + 1
         /\ CountsFrom(n, Append(q, x))
<1>1. /\ Append(q, x) \in Seq(Nat) /\ Len(Append(q, x)) = Len(q) + 1
      /\ \A k \in 1..Len(q) : Append(q, x)[k] = q[k]
      /\ Append(q, x)[Len(q) + 1] = x
  BY AppendProperties
<1>. QED  BY <1>1, LenProperties DEF CountsFrom

LEMMA CountsHeadTail ==
  ASSUME NEW n \in Nat, NEW q \in Seq(Nat), CountsFrom(n, q), q # <<>>
  PROVE  /\ Head(q) = n + 1
         /\ Tail(q) \in Seq(Nat) /\ Len(q) > 0 /\ Len(Tail(q)) = Len(q) - 1
         /\ CountsFrom(n + 1, Tail(q))
<1>1. /\ Head(q) = q[1] /\ Tail(q) \in Seq(Nat) /\ Len(Tail(q)) = Len(q) - 1
      /\ \A k \in 1..Len(Tail(q)) : Tail(q)[k] = q[k + 1]
  BY HeadTailProperties
<1>2. Len(q) \in Nat /\ Len(q) > 0
  BY LenProperties, EmptySeq
<1>. QED  BY <1>1, <1>2 DEF CountsFrom

(* w, and behind it q, is a part of 1..n in order. *)
InOrder(w, q, n) ==
  /\ \A j, k \in 1..Len(w) : j < k => w[j] < w[k]
  /\ \A j, k \in 1..Len(q) : j < k => q[j] < q[k]
  /\ \A j \in 1..Len(w), k \in 1..Len(q) : w[j] < q[k]
  /\ \A j \in 1..Len(w) : w[j] <= n
  /\ \A k \in 1..Len(q) : q[k] <= n

LEMMA InOrderSends ==
  ASSUME NEW w \in Seq(Nat), NEW q \in Seq(Nat), NEW n \in Nat, InOrder(w, q, n)
  PROVE  Append(q, n + 1) \in Seq(Nat) /\ InOrder(w, Append(q, n + 1), n + 1)
<1>. DEFINE r == Append(q, n + 1)
<1>1. /\ r \in Seq(Nat) /\ Len(r) = Len(q) + 1 /\ Len(q) \in Nat
      /\ \A k \in 1..Len(q) : r[k] = q[k]
      /\ r[Len(q) + 1] = n + 1
  BY AppendProperties, LenProperties
<1>2. /\ \A k \in 1..Len(w) : w[k] \in Nat
      /\ \A k \in 1..Len(q) : q[k] \in Nat
  BY ElementOfSeq
<1>. HIDE DEF r
<1>3. \A j, k \in 1..Len(r) : j < k => r[j] < r[k]
  <2>. SUFFICES ASSUME NEW j \in 1..Len(r), NEW k \in 1..Len(r), j < k PROVE r[j] < r[k]
    OBVIOUS
  <2>1. j \in 1..Len(q) /\ r[j] = q[j] /\ q[j] \in Nat /\ q[j] <= n
    BY <1>1, <1>2 DEF InOrder
  <2>2. CASE k \in 1..Len(q)
    BY <1>1, <2>1, <2>2 DEF InOrder
  <2>3. CASE k \notin 1..Len(q)
    <3>1. r[k] = n + 1
      <4>. DEFINE m == Len(q)
      <4>1. k \in 1..m + 1 /\ m \in Nat /\ k \notin 1..m
        BY <1>1, <2>3
      <4>. HIDE DEF m
      <4>2. k = m + 1
        BY <4>1
      <4>. USE DEF m
      <4>. QED  BY <1>1, <4>2, Zenon
    <3>. QED  BY <2>1, <3>1
  <2>. QED  BY <2>2, <2>3
<1>4. \A j \in 1..Len(w), k \in 1..Len(r) : w[j] < r[k]
  <2>. SUFFICES ASSUME NEW j \in 1..Len(w), NEW k \in 1..Len(r) PROVE w[j] < r[k]
    OBVIOUS
  <2>1. w[j] \in Nat /\ w[j] <= n
    BY <1>2 DEF InOrder
  <2>2. CASE k \in 1..Len(q)
    BY <1>1, <2>1, <2>2 DEF InOrder
  <2>3. CASE k \notin 1..Len(q)
    <3>1. r[k] = n + 1
      <4>1. k = Len(q) + 1
        BY <1>1, <2>3
      <4>. QED  BY <1>1, <4>1
    <3>. QED  BY <2>1, <3>1
  <2>. QED  BY <2>2, <2>3
<1>5. \A k \in 1..Len(r) : r[k] <= n + 1
  <2>. SUFFICES ASSUME NEW k \in 1..Len(r) PROVE r[k] <= n + 1
    OBVIOUS
  <2>1. CASE k \in 1..Len(q)
    <3>1. r[k] = q[k] /\ q[k] \in Nat /\ q[k] <= n
      BY <1>1, <1>2, <2>1 DEF InOrder
    <3>. QED  BY <3>1
  <2>2. CASE k \notin 1..Len(q)
    <3>1. k = Len(q) + 1
      BY <1>1, <2>2
    <3>. QED  BY <1>1, <3>1
  <2>. QED  BY <2>1, <2>2
<1>6. \A j \in 1..Len(w) : w[j] <= n + 1
  BY <1>2 DEF InOrder
<1>7. \A j, k \in 1..Len(w) : j < k => w[j] < w[k]
  BY DEF InOrder
<1>8. InOrder(w, r, n + 1)
  BY <1>3, <1>4, <1>5, <1>6, <1>7 DEF InOrder
<1>. QED  BY <1>1, <1>8 DEF r

LEMMA InOrderReceives ==
  ASSUME NEW w \in Seq(Nat), NEW q \in Seq(Nat), NEW n \in Nat, InOrder(w, q, n), q # <<>>
  PROVE  /\ Tail(q) \in Seq(Nat) /\ Append(w, Head(q)) \in Seq(Nat)
         /\ InOrder(w, Tail(q), n) /\ InOrder(Append(w, Head(q)), Tail(q), n)
<1>. DEFINE r == Tail(q)
            v == Append(w, Head(q))
<1>1. /\ r \in Seq(Nat) /\ Len(r) = Len(q) - 1 /\ Head(q) = q[1] /\ Head(q) \in Nat
      /\ \A k \in 1..Len(r) : r[k] = q[k + 1]
  BY HeadTailProperties
<1>2. Len(q) \in Nat /\ Len(q) >= 1 /\ Len(w) \in Nat
  BY LenProperties, EmptySeq
<1>3. /\ v \in Seq(Nat) /\ Len(v) = Len(w) + 1
      /\ \A k \in 1..Len(w) : v[k] = w[k]
      /\ v[Len(w) + 1] = q[1]
  BY <1>1, AppendProperties
<1>4. /\ \A k \in 1..Len(w) : w[k] \in Nat
      /\ \A k \in 1..Len(q) : q[k] \in Nat
  BY ElementOfSeq
<1>. HIDE DEF r, v
<1>5. /\ \A k \in 1..Len(r) : k + 1 \in 1..Len(q) /\ 1 < k + 1
      /\ 1 \in 1..Len(q)
  BY <1>1, <1>2
<1>6. /\ \A j, k \in 1..Len(r) : j < k => r[j] < r[k]
      /\ \A k \in 1..Len(r) : r[k] <= n
      /\ \A k \in 1..Len(r) : q[1] < r[k]
      /\ \A j \in 1..Len(w), k \in 1..Len(r) : w[j] < r[k]
  <2>1. ASSUME NEW j \in 1..Len(r), NEW k \in 1..Len(r), j < k PROVE r[j] < r[k]
    <3>1. j + 1 < k + 1
      BY <1>1, <2>1
    <3>. QED  BY <1>1, <1>5, <3>1 DEF InOrder
  <2>2. ASSUME NEW k \in 1..Len(r) PROVE r[k] <= n /\ q[1] < r[k]
    BY <1>1, <1>5 DEF InOrder
  <2>3. ASSUME NEW j \in 1..Len(w), NEW k \in 1..Len(r) PROVE w[j] < r[k]
    BY <1>1, <1>5 DEF InOrder
  <2>. QED  BY <2>1, <2>2, <2>3
<1>7. InOrder(w, r, n)
  BY <1>6 DEF InOrder
<1>8. ASSUME NEW k \in 1..Len(v)
      PROVE  \/ k \in 1..Len(w) /\ v[k] = w[k]
             \/ k = Len(w) + 1 /\ v[k] = q[1]
  <2>1. k \in 1..Len(w) \/ k = Len(w) + 1
    BY <1>2, <1>3
  <2>. QED  BY <1>3, <2>1
<1>9. InOrder(v, r, n)
  <2>1. ASSUME NEW j \in 1..Len(v), NEW k \in 1..Len(v), j < k PROVE v[j] < v[k]
    <3>1. j \in 1..Len(w)
      BY <1>2, <1>3, <2>1
    <3>2. v[j] = w[j]
      BY <1>3, <3>1
    <3>3. CASE k \in 1..Len(w)
      BY <1>3, <2>1, <3>1, <3>2, <3>3 DEF InOrder
    <3>4. CASE k = Len(w) + 1
      BY <1>3, <1>5, <3>1, <3>2, <3>4 DEF InOrder
    <3>. QED  BY <1>8, <3>3, <3>4
  <2>2. ASSUME NEW j \in 1..Len(v), NEW k \in 1..Len(r) PROVE v[j] < r[k]
    BY <1>6, <1>8
  <2>3. ASSUME NEW j \in 1..Len(v) PROVE v[j] <= n
    BY <1>5, <1>8 DEF InOrder
  <2>. QED  BY <1>6, <2>1, <2>2, <2>3 DEF InOrder
<1>. QED  BY <1>1, <1>3, <1>7, <1>9 DEF r, v

LEMMA InOrderBelow ==
  ASSUME NEW w \in Seq(Nat), NEW q \in Seq(Nat), NEW n \in Nat, NEW m \in Nat,
         InOrder(w, q, n), n <= m
  PROVE  InOrder(w, q, m)
<1>1. /\ \A k \in 1..Len(w) : w[k] \in Nat
      /\ \A k \in 1..Len(q) : q[k] \in Nat
  BY ElementOfSeq
<1>. QED  BY <1>1 DEF InOrder

(* The operators on sequences, element by element.                         *)
LEMMA PrefixIs ==
  ASSUME NEW S, NEW s \in Seq(S), NEW i \in 0..Len(s), NEW a, a = SubSeq(s, 1, i)
  PROVE  a \in Seq(S) /\ Len(a) = i /\ \A k \in 1..i : a[k] = s[k]
<1>1. \A k \in 1..i : s[k] \in S
  BY LenProperties
<1>2. i \in Int /\ 1 \in Int /\ Len(s) \in Nat
  BY LenProperties
<1>3. /\ a \in Seq(S) /\ Len(a) = IF 1 <= i THEN i - 1 + 1 ELSE 0
      /\ \A k \in 1..i - 1 + 1 : a[k] = s[1 + k - 1]
  BY <1>1, <1>2, SubSeqProperties
<1>4. \A k \in 1..i : k \in 1..i - 1 + 1 /\ 1 + k - 1 = k
  BY <1>2
<1>. QED  BY <1>2, <1>3, <1>4

LEMMA SuffixIs ==
  ASSUME NEW S, NEW s \in Seq(S), NEW i \in 0..Len(s), NEW b, b = SubSeq(s, i + 1, Len(s))
  PROVE  b \in Seq(S) /\ Len(b) = Len(s) - i /\ \A k \in 1..Len(s) - i : b[k] = s[i + k]
<1>. PICK L, j : L = Len(s) /\ j = i + 1
  OBVIOUS
<1>1. L \in Nat /\ i \in 0..L /\ L \in Int /\ j \in Int
  BY LenProperties
<1>2. \A k \in j..L : s[k] \in S
  BY <1>1, LenProperties
<1>3. /\ b \in Seq(S) /\ Len(b) = IF j <= L THEN L - j + 1 ELSE 0
      /\ \A k \in 1..L - j + 1 : b[k] = s[j + k - 1]
  BY <1>1, <1>2, SubSeqProperties
<1>4. \A k \in 1..L - i : k \in 1..L - j + 1 /\ j + k - 1 = i + k
  BY <1>1
<1>. QED  BY <1>1, <1>3, <1>4

IsConcat(S, t, p, q) ==
  /\ t \in Seq(S) /\ Len(t) = Len(p) + Len(q)
  /\ \A k \in 1..Len(p) + Len(q) : t[k] = IF k <= Len(p) THEN p[k] ELSE q[k - Len(p)]

LEMMA ConcatIs ==
  ASSUME NEW S, NEW p \in Seq(S), NEW q \in Seq(S) PROVE IsConcat(S, p \o q, p, q)
BY ConcatProperties DEF IsConcat

(* t is s without its i-th element. *)
Removed(S, s, i, t) ==
  /\ t \in Seq(S) /\ Len(t) = Len(s) - 1
  /\ \A k \in 1..Len(t) : t[k] = IF k < i THEN s[k] ELSE s[k + 1]

LEMMA RemovedAt ==
  ASSUME NEW S, NEW s \in Seq(S), NEW i \in 1..Len(s)
  PROVE  Removed(S, s, i, SubSeq(s, 1, i - 1) \o SubSeq(s, i + 1, Len(s)))
<1>. PICK a, b, t : a = SubSeq(s, 1, i - 1) /\ b = SubSeq(s, i + 1, Len(s)) /\ t = a \o b
  OBVIOUS
<1>2. a \in Seq(S) /\ Len(a) = i - 1 /\ \A k \in 1..i - 1 : a[k] = s[k]
  <2>1. i - 1 \in 0..Len(s)
    BY LenProperties
  <2>. QED  BY <2>1, PrefixIs
<1>3. b \in Seq(S) /\ Len(b) = Len(s) - i /\ \A k \in 1..Len(s) - i : b[k] = s[i + k]
  <2>. PICK j : j = i
    OBVIOUS
  <2>1. j \in 0..Len(s) /\ b = SubSeq(s, j + 1, Len(s))
    BY LenProperties
  <2>. QED  BY <2>1, SuffixIs
<1>4. /\ t \in Seq(S) /\ Len(t) = i - 1 + (Len(s) - i)
      /\ \A k \in 1..i - 1 + (Len(s) - i) : t[k] = IF k <= i - 1 THEN a[k] ELSE b[k - (i - 1)]
  <2>1. /\ t \in Seq(S) /\ Len(t) = Len(a) + Len(b)
        /\ \A k \in 1..Len(a) + Len(b) : t[k] = IF k <= Len(a) THEN a[k] ELSE b[k - Len(a)]
    <3>1. a \in Seq(S) /\ b \in Seq(S)
      BY <1>2, <1>3
    <3>. QED  BY <3>1, ConcatProperties
  <2>. QED  BY <1>2, <1>3, <2>1
<1>5. Len(s) \in Nat /\ i - 1 + (Len(s) - i) = Len(s) - 1
  BY LenProperties
<1>6. ASSUME NEW k \in 1..Len(s) - 1 PROVE t[k] = IF k < i THEN s[k] ELSE s[k + 1]
  <2>0. t[k] = IF k <= i - 1 THEN a[k] ELSE b[k - (i - 1)]
    BY <1>4, <1>5
  <2>1. CASE k < i
    <3>1. k <= i - 1 /\ k \in 1..i - 1
      BY <2>1
    <3>. QED  BY <1>2, <2>0, <2>1, <3>1
  <2>2. CASE ~(k < i)
    <3>1. ~(k <= i - 1) /\ k - (i - 1) \in 1..Len(s) - i /\ i + (k - (i - 1)) = k + 1
      BY <1>5, <2>2
    <3>. QED  BY <1>3, <2>0, <2>2, <3>1
  <2>. QED  BY <2>1, <2>2
<1>. QED  BY <1>4, <1>5, <1>6 DEF Removed

-----------------------------------------------------------------------------
(* The decoders of compressed files.  What has been read is in the buffer  *)
(* or parsed, what has been handed out is in the decoder or written, and   *)
(* nothing is left when the decoder is flushed.                            *)
DecodeTypeInv ==
  /\ dStyle \in {"video", "audio"}
  /\ dPc \in {"setup", "fread", "refill", "parse", "send", "receive", "flush", "exit"}
  /\ file \in Nat /\ data_size \in Nat /\ parsed \in Nat /\ given \in Nat
  /\ eof \in BOOLEAN /\ dFlushed \in BOOLEAN /\ ioError \in BOOLEAN
  /\ dDelay \in Nat /\ dStatus \in Nat
  /\ dQueue \in Seq(Nat) /\ saved \in Seq(Nat)

(* The parser is inside the packet it will hand out next; of a video       *)
(* packet it may have every byte without knowing.                          *)
DecodeBytesInv ==
  /\ file + data_size + parsed = Packets * PacketSize
  /\ given * PacketSize <= parsed /\ parsed <= given * PacketSize + PacketSize
  /\ dStyle = "audio" => parsed < given * PacketSize + PacketSize /\ ~eof
  /\ eof => file = 0 /\ data_size = 0
  /\ dPc \in {"setup", "fread"} => data_size = 0
  /\ ~ioError /\ dStyle = "audio" /\ dPc = "parse" => data_size > 0 \/ file = 0
  /\ dStyle = "video" => dPc # "refill"

DecodeFlushInv ==
  /\ ~ioError /\ (dPc = "flush" \/ dFlushed) => given = Packets
  /\ dPc = "send" => given > 0
  /\ dPc = "setup" => given = 0
  /\ dFlushed => dPc \in {"receive", "exit"}
  /\ dPc = "exit" /\ dStatus = 0 => dFlushed /\ dQueue = <<>>
  /\ dPc # "exit" => dStatus = 0

DecodeSent == IF dPc = "send" THEN given - 1 ELSE given

DecodeOrderInv ==
  dStatus = 0 /\ ~ioError =>
    /\ Len(saved) + Len(dQueue) = DecodeSent
    /\ CountsFrom(0, saved) /\ CountsFrom(Len(saved), dQueue)

DecodeInv == DecodeTypeInv /\ DecodeBytesInv /\ DecodeFlushInv /\ DecodeOrderInv

(* Whatever has failed, what is written and what is in the decoder are in  *)
(* order.                                                                  *)
DecodeWrittenInv == InOrder(saved, dQueue, DecodeSent)

LEMMA DecodeInitially == Decode!Init => DecodeInv
<1>. SUFFICES ASSUME Decode!Init PROVE DecodeInv
  OBVIOUS
<1>1. Packets * PacketSize \in Nat /\ 0 * PacketSize = 0
  BY BufferAssumption
<1>2. DecodeTypeInv
  <2>1. file \in Nat
    BY <1>1, BufferAssumption DEF Decode!Init
  <2>2. dDelay \in Nat
    BY CodecAssumption DEF Decode!Init
  <2>3. dQueue \in Seq(Nat) /\ saved \in Seq(Nat)
    BY EmptySeq DEF Decode!Init
  <2>. QED  BY <2>1, <2>2, <2>3 DEF Decode!Init, DecodeTypeInv
<1>3. DecodeBytesInv
  BY <1>1, BufferAssumption DEF Decode!Init, DecodeBytesInv
<1>4. DecodeFlushInv /\ DecodeOrderInv
  BY DEF Decode!Init, DecodeFlushInv, DecodeOrderInv, DecodeSent, CountsFrom
<1>. QED  BY <1>2, <1>3, <1>4 DEF DecodeInv

LEMMA DecodeBytesAre ==
  ASSUME NEW g \in Nat, NEW h \in Nat
  PROVE  /\ g * PacketSize \in Nat
         /\ (g + 1) * PacketSize = g * PacketSize + PacketSize
         /\ g * PacketSize <= h * PacketSize => g <= h
<1>1. /\ PacketSize \in Nat /\ PacketSize > 0
  BY BufferAssumption
<1>2. /\ g * PacketSize \in Nat
      /\ (g + 1) * PacketSize = g * PacketSize + PacketSize
  BY <1>1
<1>3. g > h => g * PacketSize > h * PacketSize
  BY <1>1
<1>4. h * PacketSize \in Nat
  BY <1>1
<1>. QED  BY <1>2, <1>3, <1>4

(* The steps that read: no byte gets lost between the file and the parser. *)
LEMMA DecodeReadStep ==
  ASSUME DecodeInv,
         \/ Decode!Setup \/ Decode!Fread \/ Decode!FreadFails \/ Decode!Refill \/ Decode!LoopEnds
  PROVE  DecodeInv'
<1>. DEFINE P == Packets * PacketSize
            G == given * PacketSize
<1>. USE DEF Decode!inputVars, Decode!codecVars, Decode!Exit
<1>0. /\ DecodeTypeInv /\ DecodeBytesInv /\ DecodeFlushInv /\ DecodeOrderInv
      /\ P \in Nat /\ G \in Nat /\ PacketSize \in Nat /\ PacketSize > 0
      /\ REFILL_THRESH \in Nat /\ REFILL_THRESH > 0
      /\ INBUF_SIZE \in Nat /\ REFILL_THRESH <= INBUF_SIZE
  BY BufferAssumption, DecodeBytesAre DEF DecodeInv, DecodeTypeInv
<1>1. /\ UNCHANGED <<dStyle, parsed, given, dDelay, dQueue, dFlushed, saved>>
      /\ dPc # "send" /\ dPc' # "send" /\ DecodeSent' = DecodeSent
      /\ dStatus' \in {dStatus, 1} /\ (~ioError' => ~ioError)
  BY <1>0 DEF Decode!Setup, Decode!Fread, Decode!FreadFails, Decode!Refill, Decode!LoopEnds,
              DecodeSent, DecodeTypeInv
<1>2. DecodeOrderInv'
  BY <1>0, <1>1 DEF DecodeOrderInv, CountsFrom
<1>3. CASE Decode!Setup
  <2>1. DecodeTypeInv'
    BY <1>0, <1>3 DEF Decode!Setup, DecodeTypeInv
  <2>2. DecodeBytesInv'
    BY <1>0, <1>3 DEF Decode!Setup, DecodeBytesInv
  <2>3. DecodeFlushInv'
    BY <1>0, <1>3 DEF Decode!Setup, DecodeFlushInv, DecodeTypeInv
  <2>. QED  BY <1>2, <2>1, <2>2, <2>3 DEF DecodeInv
<1>4. CASE Decode!Fread
  <2>. DEFINE n == Decode!Least(INBUF_SIZE, file)
  <2>1. /\ n \in Nat /\ n <= file /\ (n = 0 => file = 0)
        /\ file' = file - n /\ data_size' = data_size + n /\ data_size = 0
        /\ eof' = (dStyle = "video" /\ file = 0) /\ dPc' = "parse" /\ dPc = "fread"
    BY <1>0, <1>4 DEF Decode!Fread, Decode!Take, Decode!Least, DecodeTypeInv, DecodeBytesInv
  <2>2. DecodeTypeInv'
    <3>1. file' \in Nat /\ data_size' \in Nat
      BY <1>0, <2>1 DEF DecodeTypeInv
    <3>. QED  BY <1>0, <1>4, <2>1, <3>1 DEF Decode!Fread, DecodeTypeInv
  <2>3. DecodeBytesInv'
    <3>1. /\ file' + data_size' = file + data_size /\ (eof' => file' = 0 /\ data_size' = 0)
          /\ data_size' > 0 \/ file' = 0
      <4>. HIDE DEF n
      <4>1. n \in Nat /\ file \in Nat /\ n <= file /\ data_size = 0
        BY <1>0, <2>1 DEF DecodeTypeInv
      <4>2. file = 0 => n = 0
        BY <4>1
      <4>3. eof' => file = 0
        BY <2>1
      <4>. QED  BY <2>1, <4>1, <4>2, <4>3
    <3>. QED  BY <1>0, <1>1, <2>1, <3>1 DEF DecodeBytesInv, DecodeTypeInv
  <2>4. DecodeFlushInv'
    BY <1>0, <1>1, <1>4, <2>1 DEF Decode!Fread, DecodeFlushInv, DecodeTypeInv
  <2>. QED  BY <1>2, <2>2, <2>3, <2>4 DEF DecodeInv
<1>5. CASE Decode!FreadFails
  <2>1. PICK n \in Nat : n <= file /\ file' = file - n /\ data_size' = data_size + n
    <3>1. CASE dStyle = "video"
      <4>1. 0 \in Nat /\ 0 <= file /\ file' = file - 0 /\ data_size' = data_size + 0
        BY <1>0, <1>5, <3>1 DEF Decode!FreadFails, DecodeTypeInv
      <4>. QED  BY <4>1
    <3>2. CASE dStyle = "audio"
      <4>1. PICK n \in 0..Decode!Least(INBUF_SIZE - data_size, file) :
              file' = file - n /\ data_size' = data_size + n
        BY <1>5, <3>2 DEF Decode!FreadFails, Decode!Take
      <4>2. n \in Nat /\ n <= file
        BY <1>0, <4>1 DEF Decode!Least, DecodeTypeInv
      <4>. QED  BY <4>1, <4>2
    <3>. QED  BY <1>0, <3>1, <3>2 DEF DecodeTypeInv
  <2>2. /\ file' \in Nat /\ data_size' \in Nat /\ file' + data_size' = file + data_size
        /\ ioError' /\ eof' = eof /\ dStatus' = dStatus /\ dPc \in {"fread", "refill"}
        /\ dStyle = "video" => dPc' = "flush" /\ data_size' = data_size /\ file' = file
        /\ dStyle = "audio" => dPc' = "parse"
    BY <1>0, <1>5, <2>1 DEF Decode!FreadFails, DecodeTypeInv
  <2>3. dPc' \in {"flush", "parse"}
    BY <1>0, <2>2 DEF DecodeTypeInv
  <2>4. DecodeTypeInv'
    BY <1>0, <1>1, <2>2, <2>3 DEF DecodeTypeInv
  <2>5. DecodeBytesInv'
    BY <1>0, <1>1, <2>2, <2>3 DEF DecodeBytesInv, DecodeTypeInv
  <2>6. DecodeFlushInv'
    BY <1>0, <1>1, <2>2, <2>3 DEF DecodeFlushInv
  <2>. QED  BY <1>2, <2>4, <2>5, <2>6 DEF DecodeInv
<1>6. CASE Decode!Refill
  <2>. DEFINE n == Decode!Least(INBUF_SIZE - data_size, file)
  <2>1. PICK m \in Nat : /\ m <= file /\ (m = 0 => file = 0 \/ data_size > 0)
                         /\ file' = file - m /\ data_size' = data_size + m
    <3>1. CASE data_size < REFILL_THRESH
      <4>1. n \in Nat /\ n <= file /\ (n = 0 => file = 0)
        BY <1>0, <3>1 DEF Decode!Least, DecodeTypeInv
      <4>2. file' = file - n /\ data_size' = data_size + n
        BY <1>6, <3>1 DEF Decode!Refill, Decode!Take
      <4>. QED  BY <4>1, <4>2
    <3>2. CASE ~(data_size < REFILL_THRESH)
      <4>1. file' = file /\ data_size' = data_size /\ data_size > 0
        BY <1>0, <1>6, <3>2 DEF Decode!Refill, DecodeTypeInv
      <4>2. 0 \in Nat /\ 0 <= file /\ file' = file - 0 /\ data_size' = data_size + 0
        BY <1>0, <4>1 DEF DecodeTypeInv
      <4>. QED  BY <4>1, <4>2
    <3>. QED  BY <3>1, <3>2
  <2>2. /\ file' \in Nat /\ data_size' \in Nat /\ file' + data_size' = file + data_size
        /\ data_size' > 0 \/ file' = 0
        /\ eof' = eof /\ dPc' = "parse" /\ dPc = "refill" /\ dStyle = "audio" /\ ~eof
    BY <1>0, <1>6, <2>1 DEF Decode!Refill, DecodeTypeInv, DecodeBytesInv
  <2>3. DecodeTypeInv'
    BY <1>0, <1>6, <2>2 DEF Decode!Refill, DecodeTypeInv
  <2>4. DecodeBytesInv'
    BY <1>0, <1>1, <2>2 DEF DecodeBytesInv, DecodeTypeInv
  <2>5. DecodeFlushInv'
    BY <1>0, <1>6 DEF Decode!Refill, DecodeFlushInv
  <2>. QED  BY <1>2, <2>3, <2>4, <2>5 DEF DecodeInv
<1>7. CASE Decode!LoopEnds
  <2>1. DecodeTypeInv'
    BY <1>0, <1>7 DEF Decode!LoopEnds, DecodeTypeInv
  <2>2. DecodeBytesInv'
    BY <1>0, <1>7 DEF Decode!LoopEnds, DecodeBytesInv, DecodeTypeInv
  <2>3. ~ioError /\ dPc' = "flush" => given = Packets
    <3>1. ASSUME ~ioError, dPc' = "flush" PROVE P = parsed /\ G <= P /\ P < G + PacketSize
      BY <1>0, <1>7, <3>1 DEF Decode!LoopEnds, DecodeBytesInv, DecodeTypeInv
    <3>2. ASSUME ~ioError, dPc' = "flush" PROVE given <= Packets /\ ~(given + 1 <= Packets)
      <4>1. given \in Nat /\ Packets \in Nat
        BY <1>0, BufferAssumption DEF DecodeTypeInv
      <4>2. (given + 1) * PacketSize <= P => FALSE
        BY <1>0, <3>1, <3>2, <4>1, DecodeBytesAre
      <4>3. given + 1 <= Packets => (given + 1) * PacketSize <= P
        BY <1>0, <4>1
      <4>. QED  BY <3>1, <3>2, <4>1, <4>2, <4>3, DecodeBytesAre
    <3>. QED  BY <1>0, <3>2, BufferAssumption DEF DecodeTypeInv
  <2>4. DecodeFlushInv'
    BY <1>0, <1>7, <2>3 DEF Decode!LoopEnds, DecodeFlushInv, DecodeTypeInv
  <2>. QED  BY <1>2, <2>1, <2>2, <2>4 DEF DecodeInv
<1>. QED  BY <1>3, <1>4, <1>5, <1>6, <1>7

(* The parser takes the rest of the packet it is in, or of the buffer. *)
LEMMA DecodeParseStep ==
  ASSUME DecodeInv, Decode!Parse
  PROVE  DecodeInv'
<1>. DEFINE G == given * PacketSize
            P == Packets * PacketSize
            m == G + PacketSize - parsed
            n == Decode!Least(data_size, m)
<1>. USE DEF Decode!inputVars, Decode!codecVars, Decode!ParserTakes
<1>1. /\ DecodeTypeInv /\ DecodeBytesInv /\ DecodeFlushInv /\ DecodeOrderInv
      /\ given \in Nat /\ Packets \in Nat /\ PacketSize \in Nat /\ PacketSize > 0
  BY BufferAssumption DEF DecodeInv, DecodeTypeInv
<1>2. /\ G \in Nat /\ P \in Nat /\ (given + 1) * PacketSize = G + PacketSize
      /\ G <= P => given <= Packets
      /\ P <= G => Packets <= given
  BY <1>1, DecodeBytesAre
<1>3. Decode!Missing = m
  <2>1. (given + 1) * PacketSize = G + PacketSize /\ G \in Nat /\ parsed \in Nat
    BY <1>1, <1>2 DEF DecodeTypeInv
  <2>. HIDE DEF G
  <2>2. Decode!Missing = (given + 1) * PacketSize - parsed
    BY DEF Decode!Missing
  <2>. QED  BY <1>1, <2>1, <2>2
<1>4. /\ file \in Nat /\ data_size \in Nat /\ parsed \in Nat
      /\ file + data_size + parsed = P /\ G <= parsed /\ parsed <= G + PacketSize
  BY <1>1 DEF DecodeTypeInv, DecodeBytesInv
<1>5. /\ dPc = "parse" /\ (data_size > 0 \/ eof)
      /\ parsed' = parsed + n /\ data_size' = data_size - n
      /\ UNCHANGED <<dStyle, dStep, dStatus, file, eof, dDelay, dQueue, dFlushed, saved, ioError>>
  BY <1>3 DEF Decode!Parse
<1>. HIDE DEF G, P
<1>6. /\ m \in Nat /\ n \in Nat /\ n <= data_size /\ n <= m /\ n \in {data_size, m}
  BY <1>1, <1>2, <1>4 DEF Decode!Least
<1>. HIDE DEF n
<1>7. parsed' \in Nat /\ data_size' \in Nat /\ file' + data_size' + parsed' = P
  BY <1>4, <1>5, <1>6
<1>8. eof => file = 0 /\ data_size = 0 /\ dStyle = "video"
  BY <1>1 DEF DecodeBytesInv, DecodeTypeInv
<1>9. ~dFlushed /\ dStyle \in {"audio", "video"}
  BY <1>1, <1>5 DEF DecodeFlushInv, DecodeTypeInv
<1>10. CASE Decode!Complete
  <2>1. given' = given + 1 /\ dPc' = "send" /\ parsed' = G + PacketSize
    <3>1. CASE dStyle = "audio"
      <4>1. data_size >= m
        BY <1>3, <1>10, <3>1 DEF Decode!Complete
      <4>2. n = m
        BY <1>4, <1>6, <4>1
      <4>. QED  BY <1>1, <1>2, <1>4, <1>5, <1>10, <4>2 DEF Decode!Parse
    <3>2. CASE dStyle = "video"
      <4>1. data_size > m \/ (data_size = 0 /\ m < PacketSize)
        BY <1>3, <1>10, <3>2 DEF Decode!Complete
      <4>2. CASE data_size > m
        <5>1. n = m
          BY <1>4, <1>6, <4>2
        <5>. QED  BY <1>1, <1>2, <1>4, <1>5, <1>10, <5>1 DEF Decode!Parse
      <4>3. CASE data_size = 0 /\ m < PacketSize
        <5>1. parsed = P /\ G < P
          BY <1>1, <1>2, <1>4, <1>5, <1>8, <4>3
        <5>2. given + 1 <= Packets
          BY <1>1, <1>2, <5>1, DecodeBytesAre DEF P, G
        <5>3. G + PacketSize <= P
          <6>1. (given + 1) * PacketSize <= Packets * PacketSize
            BY <1>1, <5>2
          <6>. QED  BY <1>2, <6>1 DEF P
        <5>4. n = 0 /\ m = 0
          BY <1>1, <1>2, <1>4, <1>6, <4>3, <5>1, <5>3
        <5>. QED  BY <1>1, <1>2, <1>4, <1>5, <1>10, <5>1, <5>3, <5>4 DEF Decode!Parse
      <4>. QED  BY <4>1, <4>2, <4>3
    <3>. QED  BY <1>9, <3>1, <3>2
  <2>2. given' * PacketSize = G + PacketSize
    BY <1>2, <2>1
  <2>3. DecodeTypeInv'
    BY <1>1, <1>5, <1>7, <2>1 DEF DecodeTypeInv
  <2>4. DecodeBytesInv'
    <3>1. eof' => file' = 0 /\ data_size' = 0
      BY <1>4, <1>5, <1>6, <1>8
    <3>. QED  BY <1>1, <1>2, <1>5, <1>7, <1>8, <2>1, <2>2, <3>1 DEF DecodeBytesInv, P
  <2>5. DecodeFlushInv'
    BY <1>1, <1>5, <1>9, <2>1 DEF DecodeFlushInv
  <2>6. DecodeOrderInv'
    <3>1. DecodeSent' = DecodeSent
      BY <1>1, <1>5, <2>1 DEF DecodeSent
    <3>. QED  BY <1>1, <1>5, <3>1 DEF DecodeOrderInv, CountsFrom
  <2>. QED  BY <2>3, <2>4, <2>5, <2>6 DEF DecodeInv
<1>11. CASE ~Decode!Complete
  <2>1. /\ given' = given
        /\ dPc' = IF dStyle = "audio" THEN "refill" ELSE IF eof THEN "flush" ELSE "parse"
    BY <1>11 DEF Decode!Parse
  <2>2. /\ parsed' <= G + PacketSize /\ G <= parsed'
        /\ dStyle = "audio" => parsed' < G + PacketSize
    <3>1. parsed' <= G + PacketSize /\ G <= parsed'
      BY <1>1, <1>2, <1>4, <1>5, <1>6
    <3>2. ASSUME dStyle = "audio" PROVE parsed' < G + PacketSize
      <4>1. data_size < m
        BY <1>3, <1>4, <1>6, <1>11, <3>2 DEF Decode!Complete
      <4>. QED  BY <1>1, <1>2, <1>4, <1>5, <1>6, <4>1
    <3>. QED  BY <3>1, <3>2
  <2>3. dPc' = "flush" => given = Packets
    <3>. SUFFICES ASSUME dPc' = "flush" PROVE given = Packets
      OBVIOUS
    <3>1. dStyle = "video" /\ eof /\ data_size = 0 /\ file = 0
      BY <1>8, <2>1
    <3>2. ~(m < PacketSize)
      BY <1>3, <1>11, <3>1 DEF Decode!Complete
    <3>3. parsed = G /\ parsed = P
      BY <1>1, <1>2, <1>4, <3>1, <3>2
    <3>. QED  BY <1>1, <1>2, <3>3
  <2>4. DecodeTypeInv'
    BY <1>1, <1>5, <1>7, <2>1 DEF DecodeTypeInv
  <2>5. DecodeBytesInv'
    <3>1. eof' => file' = 0 /\ data_size' = 0
      BY <1>4, <1>5, <1>6, <1>8
    <3>. QED  BY <1>1, <1>5, <1>7, <1>8, <1>9, <2>1, <2>2, <3>1 DEF DecodeBytesInv, P, G
  <2>6. DecodeFlushInv'
    BY <1>1, <1>5, <1>9, <2>1, <2>3 DEF DecodeFlushInv
  <2>7. DecodeOrderInv'
    <3>1. DecodeSent' = DecodeSent
      BY <1>1, <1>5, <2>1 DEF DecodeSent
    <3>. QED  BY <1>1, <1>5, <3>1 DEF DecodeOrderInv, CountsFrom
  <2>. QED  BY <2>4, <2>5, <2>6, <2>7 DEF DecodeInv
<1>. QED  BY <1>10, <1>11

(* The decoder and the file that is written: first in, first out. *)
LEMMA DecodeFrameStep ==
  ASSUME DecodeInv,
         \/ Decode!ParseFails \/ Decode!SendPacket \/ Decode!Flush
         \/ Decode!ReceiveFrame \/ Decode!FrameLost \/ Decode!NoFrameReady
  PROVE  DecodeInv'
<1>. USE DEF Decode!inputVars, Decode!codecVars, Decode!Exit
<1>1. /\ DecodeTypeInv /\ DecodeBytesInv /\ DecodeFlushInv /\ DecodeOrderInv
      /\ UNCHANGED <<dStyle, file, data_size, eof, parsed, given, dDelay>>
      /\ dPc' \in {dPc, "exit", "refill", "parse", "receive"}
      /\ dPc' = "refill" => dStyle = "audio"
      /\ dPc' = "parse" => dStyle = "video"
      /\ dPc \notin {"setup", "fread", "exit"} /\ DecodeBytesInv'
      /\ dDelay \in Nat /\ dQueue \in Seq(Nat) /\ saved \in Seq(Nat) /\ given \in Nat
  <2>1. /\ DecodeTypeInv /\ DecodeBytesInv /\ DecodeFlushInv /\ DecodeOrderInv
    BY DEF DecodeInv
  <2>2. /\ UNCHANGED <<dStyle, file, data_size, eof, parsed, given, dDelay>>
        /\ dPc \notin {"setup", "fread", "exit"}
        /\ \/ dPc' \in {"exit", "receive"}
           \/ dStyle = "audio" /\ dPc' = "refill"
           \/ dStyle = "video" /\ dPc' = "parse"
    <3>1. CASE Decode!ParseFails \/ Decode!SendPacket \/ Decode!Flush
      BY <3>1 DEF Decode!ParseFails, Decode!SendPacket, Decode!Flush
    <3>2. CASE Decode!ReceiveFrame \/ Decode!FrameLost
      BY <3>2 DEF Decode!ReceiveFrame, Decode!FrameLost
    <3>3. CASE Decode!NoFrameReady
      BY <2>1, <3>3 DEF Decode!NoFrameReady, DecodeTypeInv
    <3>. QED  BY <3>1, <3>2, <3>3
  <2>3. DecodeBytesInv'
    BY <2>1, <2>2 DEF DecodeBytesInv
  <2>. QED  BY <2>1, <2>2, <2>3 DEF DecodeTypeInv
<1>2. CASE Decode!ParseFails
  BY <1>1, <1>2 DEF DecodeInv, Decode!ParseFails, DecodeTypeInv, DecodeFlushInv, DecodeOrderInv
<1>3. CASE Decode!SendPacket
  <2>1. CASE dPc' = "exit"
    BY <1>1, <1>3, <2>1 DEF DecodeInv, Decode!SendPacket, DecodeTypeInv, DecodeFlushInv, DecodeOrderInv
  <2>2. CASE dPc' # "exit"
    <3>1. /\ dPc = "send" /\ dPc' = "receive" /\ dStatus' = dStatus
          /\ dQueue' = Append(dQueue, given) /\ UNCHANGED <<dFlushed, saved, ioError>>
      BY <1>3, <2>2 DEF Decode!SendPacket
    <3>2. ~dFlushed /\ given > 0
      BY <1>1, <3>1 DEF DecodeFlushInv
    <3>3. DecodeTypeInv'
      <4>1. dQueue' \in Seq(Nat)
        BY <1>1, <3>1, AppendProperties
      <4>. QED  BY <1>1, <3>1, <4>1 DEF DecodeTypeInv
    <3>4. DecodeFlushInv'
      BY <1>1, <3>1, <3>2 DEF DecodeFlushInv
    <3>5. DecodeOrderInv'
      <4>. SUFFICES ASSUME dStatus = 0, ~ioError
                    PROVE  /\ Len(saved) + Len(dQueue') = given
                           /\ CountsFrom(0, saved) /\ CountsFrom(Len(saved), dQueue')
        BY <1>1, <3>1 DEF DecodeOrderInv, DecodeSent, CountsFrom
      <4>1. /\ Len(saved) + Len(dQueue) = given - 1 /\ Len(saved) \in Nat /\ Len(dQueue) \in Nat
            /\ CountsFrom(0, saved) /\ CountsFrom(Len(saved), dQueue)
        BY <1>1, <3>1, LenProperties DEF DecodeOrderInv, DecodeSent
      <4>2. given = Len(saved) + Len(dQueue) + 1
        BY <1>1, <4>1
      <4>. QED  BY <1>1, <3>1, <4>1, <4>2, CountsAppend
    <3>. QED  BY <1>1, <3>3, <3>4, <3>5 DEF DecodeInv
  <2>. QED  BY <2>1, <2>2
<1>4. CASE Decode!Flush
  <2>1. ~dFlushed /\ (~ioError => given = Packets)
    BY <1>1, <1>4 DEF DecodeFlushInv, Decode!Flush
  <2>. QED  BY <1>1, <1>4, <2>1 DEF DecodeInv, Decode!Flush, DecodeTypeInv, DecodeFlushInv,
                                    DecodeOrderInv, DecodeSent
<1>5. CASE Decode!ReceiveFrame
  <2>1. CASE dPc' = "exit"
    BY <1>1, <1>5, <2>1 DEF DecodeInv, Decode!ReceiveFrame, DecodeTypeInv, DecodeFlushInv, DecodeOrderInv
  <2>2. CASE dPc' # "exit"
    <3>1. /\ dPc = "receive" /\ dPc' = "receive" /\ dStatus' = dStatus
          /\ dQueue' = Tail(dQueue) /\ saved' = Append(saved, Head(dQueue))
          /\ UNCHANGED <<dFlushed, ioError>>
      BY <1>5, <2>2 DEF Decode!ReceiveFrame
    <3>2. dQueue # <<>>
      <4>1. Len(dQueue) > dDelay => Len(dQueue) # 0
        BY <1>1, LenProperties
      <4>. QED  BY <1>1, <1>5, <4>1, EmptySeq DEF Decode!ReceiveFrame, Decode!FrameReady
    <3>3. DecodeTypeInv' /\ DecodeFlushInv'
      <4>1. dQueue' \in Seq(Nat) /\ saved' \in Seq(Nat)
        BY <1>1, <3>1, <3>2, HeadTailProperties, AppendProperties
      <4>. QED  BY <1>1, <3>1, <4>1 DEF DecodeTypeInv, DecodeFlushInv
    <3>4. DecodeOrderInv'
      <4>. SUFFICES ASSUME dStatus = 0, ~ioError
                    PROVE  /\ Len(saved') + Len(dQueue') = given
                           /\ CountsFrom(0, saved') /\ CountsFrom(Len(saved'), dQueue')
        BY <1>1, <3>1 DEF DecodeOrderInv, DecodeSent, CountsFrom
      <4>1. /\ Len(saved) + Len(dQueue) = given /\ Len(saved) \in Nat /\ Len(dQueue) \in Nat
            /\ CountsFrom(0, saved) /\ CountsFrom(Len(saved), dQueue)
        BY <1>1, <3>1, LenProperties DEF DecodeOrderInv, DecodeSent
      <4>2. /\ Head(dQueue) = Len(saved) + 1 /\ Len(dQueue') = Len(dQueue) - 1
            /\ CountsFrom(Len(saved) + 1, dQueue')
        BY <1>1, <3>1, <3>2, <4>1, CountsHeadTail
      <4>3. Len(saved') = Len(saved) + 1 /\ CountsFrom(0, saved')
        BY <1>1, <3>1, <4>1, <4>2, CountsAppend
      <4>. QED  BY <4>1, <4>2, <4>3
    <3>. QED  BY <1>1, <3>3, <3>4 DEF DecodeInv
  <2>. QED  BY <2>1, <2>2
<1>6. CASE Decode!FrameLost
  <2>1. dQueue # <<>>
    <3>1. Len(dQueue) > dDelay => Len(dQueue) # 0
      BY <1>1, LenProperties
    <3>. QED  BY <1>1, <1>6, <3>1, EmptySeq DEF Decode!FrameLost, Decode!FrameReady
  <2>2. dQueue' \in Seq(Nat)
    BY <1>1, <1>6, <2>1, HeadTailProperties DEF Decode!FrameLost
  <2>. QED  BY <1>1, <1>6, <2>2 DEF DecodeInv, Decode!FrameLost, DecodeTypeInv, DecodeFlushInv,
                                    DecodeOrderInv
<1>7. CASE Decode!NoFrameReady
  <2>1. dFlushed => dPc' = "exit" /\ dQueue = <<>>
    BY <1>7 DEF Decode!NoFrameReady, Decode!FrameReady
  <2>2. ~dFlushed => dPc' \in {"refill", "parse"} /\ dStatus' = dStatus
    BY <1>7 DEF Decode!NoFrameReady
  <2>3. /\ dPc = "receive" /\ DecodeSent' = DecodeSent
        /\ UNCHANGED <<dQueue, dFlushed, saved, ioError>>
        /\ dStatus' \in {0, dStatus} /\ dStatus = 0
    BY <1>1, <1>7, <2>1, <2>2 DEF Decode!NoFrameReady, DecodeSent, DecodeFlushInv
  <2>. QED  BY <1>1, <2>1, <2>2, <2>3 DEF DecodeInv, DecodeTypeInv, DecodeFlushInv, DecodeOrderInv,
                                          CountsFrom
<1>. QED  BY <1>2, <1>3, <1>4, <1>5, <1>6, <1>7

LEMMA DecodeWrittenInitially == Decode!Init => DecodeWrittenInv
BY DEF Decode!Init, DecodeWrittenInv, InOrder

LEMMA DecodeWrittenStep ==
  ASSUME DecodeInv, DecodeWrittenInv, [Decode!Next]_decodeVars
  PROVE  DecodeWrittenInv'
<1>. USE DEF Decode!inputVars, Decode!codecVars, Decode!Exit
<1>1. /\ dQueue \in Seq(Nat) /\ saved \in Seq(Nat) /\ given \in Nat
      /\ dPc = "send" => given > 0
  BY DEF DecodeInv, DecodeTypeInv, DecodeFlushInv
<1>2. DecodeSent \in Nat
  BY <1>1 DEF DecodeSent
<1>3. CASE UNCHANGED <<dQueue, saved>>
  <2>1. DecodeSent' \in Nat /\ DecodeSent <= DecodeSent'
    <3>1. CASE UNCHANGED given /\ (dPc' # "send" \/ UNCHANGED dPc)
      BY <1>1, <3>1 DEF DecodeSent
    <3>2. CASE Decode!Parse
      BY <1>1, <3>2 DEF DecodeSent, Decode!Parse
    <3>3. CASE UNCHANGED decodeVars
      BY <3>1, <3>3 DEF decodeVars
    <3>4. CASE Decode!Setup \/ Decode!Fread \/ Decode!FreadFails \/ Decode!Refill
      BY <3>1, <3>4 DEF Decode!Setup, Decode!Fread, Decode!FreadFails, Decode!Refill
    <3>5. CASE Decode!ParseFails \/ Decode!LoopEnds \/ Decode!SendPacket \/ Decode!Flush
      BY <3>1, <3>5 DEF Decode!ParseFails, Decode!LoopEnds, Decode!SendPacket, Decode!Flush
    <3>6. CASE Decode!ReceiveFrame \/ Decode!FrameLost \/ Decode!NoFrameReady
      BY <3>1, <3>6 DEF Decode!ReceiveFrame, Decode!FrameLost, Decode!NoFrameReady
    <3>. QED  BY <3>2, <3>3, <3>4, <3>5, <3>6 DEF Decode!Next
  <2>. QED  BY <1>1, <1>2, <1>3, <2>1, InOrderBelow DEF DecodeWrittenInv
<1>4. CASE ~UNCHANGED <<dQueue, saved>>
  <2>1. \/ Decode!SendPacket /\ dQueue' = Append(dQueue, given) /\ UNCHANGED saved
        \/ Decode!ReceiveFrame \/ Decode!FrameLost
    BY <1>4 DEF Decode!Next, Decode!Setup, Decode!Fread, Decode!FreadFails, Decode!Refill,
                Decode!Parse, Decode!ParseFails, Decode!LoopEnds, Decode!SendPacket,
                Decode!Flush, Decode!NoFrameReady, decodeVars
  <2>2. CASE Decode!SendPacket /\ dQueue' = Append(dQueue, given) /\ UNCHANGED saved
    <3>1. DecodeSent = given - 1 /\ given - 1 \in Nat /\ given - 1 + 1 = given
      BY <1>1, <2>2 DEF DecodeSent, Decode!SendPacket
    <3>2. DecodeSent' = given
      BY <1>4, <2>2 DEF DecodeSent, Decode!SendPacket
    <3>. QED  BY <1>1, <2>2, <3>1, <3>2, InOrderSends DEF DecodeWrittenInv
  <2>3. CASE Decode!ReceiveFrame \/ Decode!FrameLost
    <3>1. dQueue # <<>>
      <4>1. /\ Len(dQueue) > dDelay => Len(dQueue) # 0
            /\ Len(dQueue) > dDelay \/ dQueue # <<>>
        BY <1>1, <2>3, LenProperties
           DEF Decode!ReceiveFrame, Decode!FrameLost, Decode!FrameReady, DecodeInv, DecodeTypeInv
      <4>. QED  BY <1>1, <4>1, EmptySeq
    <3>2. /\ dQueue' = Tail(dQueue) /\ saved' \in {saved, Append(saved, Head(dQueue))}
          /\ DecodeSent' = DecodeSent
      BY <1>4, <2>3 DEF Decode!ReceiveFrame, Decode!FrameLost, DecodeSent
    <3>. QED  BY <1>1, <1>2, <3>1, <3>2, InOrderReceives DEF DecodeWrittenInv
  <2>. QED  BY <2>1, <2>2, <2>3
<1>. QED  BY <1>3, <1>4

LEMMA DecodeStep == DecodeInv /\ [Decode!Next]_decodeVars => DecodeInv'
<1>. SUFFICES ASSUME DecodeInv, [Decode!Next]_decodeVars PROVE DecodeInv'
  OBVIOUS
<1>1. CASE UNCHANGED decodeVars
  BY <1>1 DEF decodeVars, DecodeInv, DecodeTypeInv, DecodeBytesInv, DecodeFlushInv,
              DecodeOrderInv, DecodeSent, CountsFrom
<1>2. CASE Decode!Next
  BY <1>2, DecodeReadStep, DecodeParseStep, DecodeFrameStep DEF Decode!Next
<1>. QED  BY <1>1, <1>2

(* What is written when a program ends well. *)
LEMMA DecodeSaves == DecodeInv /\ DecodeWrittenInv => Decode!EveryFrameSaved
<1>0. ASSUME DecodeInv, DecodeWrittenInv
      PROVE  \A j, k \in DOMAIN saved : j < k => saved[j] < saved[k]
  <2>1. DOMAIN saved = 1..Len(saved)
    BY <1>0, LenProperties DEF DecodeInv, DecodeTypeInv
  <2>. QED  BY <1>0, <2>1 DEF DecodeWrittenInv, InOrder
<1>. SUFFICES ASSUME DecodeInv, dPc = "exit", dStatus = 0, ~ioError
              PROVE  saved = [k \in 1..Packets |-> k]
  BY <1>0 DEF Decode!EveryFrameSaved
<1>1. given = Packets /\ dQueue = <<>> /\ Packets \in Nat /\ saved \in Seq(Nat)
  BY BufferAssumption DEF DecodeInv, DecodeTypeInv, DecodeFlushInv
<1>2. Len(saved) + Len(dQueue) = given /\ CountsFrom(0, saved)
  BY DEF DecodeInv, DecodeOrderInv, DecodeSent
<1>3. Len(saved) = Packets
  BY <1>1, <1>2, EmptySeq, LenProperties
<1>. QED  BY <1>1, <1>2, <1>3, LenProperties DEF CountsFrom

-----------------------------------------------------------------------------
(* The demultiplexer.  Frames leave a decoder in the order in which the    *)
(* packets came; without a failure none is missing, and a decoder that was *)
(* flushed is empty.                                                       *)
DemuxOpening == {"open", "openVideo", "openAudio", "allocate"}

DemuxTypeInv ==
  /\ xPc \in DemuxOpening \cup {"read", "send", "receive", "flushVideo", "flushAudio", "describe",
                                "end", "exit", "gone", "crashed"}
  /\ dec \in Demux!Streams /\ stream \subseteq Demux!Streams /\ xFlushed \subseteq Demux!Streams
  /\ xDelay \in [Demux!Streams -> Nat] /\ xQueue \in [Demux!Streams -> Seq(Nat)]
  /\ submitted \in [Demux!Streams -> Nat] /\ xWritten \in [Demux!Streams -> Seq(Nat)]
  /\ failed \in BOOLEAN

DemuxOrderInv ==
  \A s \in Demux!Streams :
    /\ InOrder(xWritten[s], xQueue[s], submitted[s])
    /\ ~failed => /\ Len(xWritten[s]) + Len(xQueue[s]) = submitted[s]
                  /\ CountsFrom(0, xWritten[s]) /\ CountsFrom(Len(xWritten[s]), xQueue[s])

(* Which decoders can have frames when. *)
DemuxFlushInv ==
  /\ xPc \in {"open", "openVideo"} => stream = {}
  /\ xPc = "openAudio" => stream \subseteq {"video"}
  /\ xPc \in DemuxOpening => \A s \in Demux!Streams : xQueue[s] = <<>>
  /\ \A s \in Demux!Streams \ stream : xQueue[s] = <<>>
  /\ xPc \in {"send", "receive"} => dec \in stream
  /\ xPc \in DemuxOpening \cup {"read", "send", "flushVideo"} => xFlushed = {}
  /\ xPc = "receive" => xFlushed = {} \/ dec \in xFlushed
  /\ xPc = "receive" /\ dec = "video" => "audio" \notin xFlushed
  /\ xPc = "flushAudio" => xFlushed \subseteq {"video"}
  /\ ~failed /\ (xPc \in {"flushAudio", "describe", "end", "exit"} \/ "audio" \in xFlushed) =>
       xQueue["video"] = <<>>
  /\ ~failed /\ xPc \in {"describe", "end", "exit"} => xQueue["audio"] = <<>>

(* Everything that End releases. *)
DemuxReleased ==
  {Demux!Input, Demux!Packet, Demux!Frame, Demux!Image}
    \cup {Demux!Context(s) : s \in Demux!Streams} \cup {Demux!File(s) : s \in Demux!Streams}

DemuxHeldInv ==
  /\ xHeld \subseteq DemuxReleased
  /\ xPc = "exit" => xHeld = {}
  /\ xPc # "exit" => \A s \in stream : Demux!Context(s) \in xHeld

DemuxInv == DemuxTypeInv /\ DemuxOrderInv /\ DemuxFlushInv /\ DemuxHeldInv

-----------------------------------------------------------------------------
(* The encoders.  Behind the frames that are written, the encoder refers   *)
(* to buffers that still have the pictures of the next ones, the last of   *)
(* them the AVFrame's while it is being sent.                              *)
EncodeTypeInv ==
  /\ eStyle \in {"video", "jpeg"}
  /\ ePc \in {"setup", "frame", "send", "receive", "packet", "exit"}
  /\ eStep \in Nat /\ count \in Nat /\ available \in Nat /\ broken \in BOOLEAN /\ eFlushed \in BOOLEAN
  /\ buffer \in Encode!Buffers /\ image \in [Encode!Buffers -> Nat]
  /\ eDelay \in 0..EncodeDelay /\ overtaken \in BOOLEAN
  /\ eQueue \in Seq(Encode!Buffers) /\ eWritten \in Seq(Nat)

(* How many frames were sent, and how many of them the encoder handed out: *)
(* the first ones, but for one that its successor has overtaken.           *)
EncodeSent == IF ePc = "send" THEN count - 1 ELSE count
EncodeDone == EncodeSent - Len(eQueue)
EncodeHanded ==
  IF overtaken THEN (1..EncodeDone - 1) \cup {EncodeDone + 1} ELSE 1..EncodeDone

EncodeQueueInv ==
  /\ EncodeDone \in Nat
  /\ overtaken => Len(eQueue) >= 1 /\ EncodeDone >= 1
  /\ \A k \in 1..Len(eQueue) :
       image[eQueue[k]] = IF overtaken /\ k = 1 THEN EncodeDone ELSE EncodeDone + k

EncodeWrittenInv ==
  /\ \A k \in 1..Len(eWritten) : eWritten[k] \in EncodeHanded
  /\ ~broken => EncodeHanded \subseteq {eWritten[k] : k \in 1..Len(eWritten)}

EncodeOrderInv ==
  /\ eStyle = "video" =>
       /\ \A k \in 1..Len(eWritten) : eWritten[k] \in 1..count
       /\ \A j, k \in 1..Len(eWritten) :
            j < k => eWritten[j] < eWritten[k] \/ eWritten[j] = eWritten[k] + 1
  /\ eStyle = "video" /\ (ePc # "exit" \/ eStatus = 0) => EncodeQueueInv /\ EncodeWrittenInv
  /\ ePc = "send" => /\ image[buffer] = count /\ count > 0
                     /\ \A k \in 1..Len(eQueue) : eQueue[k] # buffer
  /\ ePc = "frame" => Len(eQueue) <= eDelay
  /\ ePc \in {"setup", "packet"} =>
       eQueue = <<>> /\ count = 0 /\ eWritten = <<>> /\ ~overtaken

EncodePhaseInv ==
  /\ eStyle = "jpeg" => ePc \in {"setup", "packet", "exit"}
  /\ eStyle = "video" => ePc # "packet"
  /\ eFlushed => count = Frames /\ ePc \in {"receive", "exit"}
  /\ eStyle = "video" /\ ePc = "exit" /\ eStatus = 0 => eFlushed /\ eQueue = <<>>

(* What the calls of read_one_video_frame before the k-th have acquired. *)
JpegAcquired(k) ==
  IfAfter(1, k, "fp") \cup IfAfter(2, k, "yuv_buffer") \cup IfAfter(4, k, "src_frame")
  \cup IfAfter(5, k, "sws_ctx") \cup IfAfter(6, k, "dst_frame") \cup IfAfter(9, k, "codec_ctx")
  \cup IfAfter(11, k, "jpg") \cup IfAfter(13, k, "packet")

EncodeHeldInv ==
  eStyle = "jpeg" =>
    /\ ePc = "setup" => eStep \in 1..14 /\ eHeld = JpegAcquired(eStep)
    /\ ePc = "packet" => eHeld = JpegAcquired(14)
    /\ ePc = "exit" => eHeld = {}

EncodeInv == EncodeTypeInv /\ EncodeOrderInv /\ EncodePhaseInv /\ EncodeHeldInv

LEMMA DemuxInitially == Demux!Init => DemuxInv
<1>. SUFFICES ASSUME Demux!Init PROVE DemuxInv
  OBVIOUS
<1>. USE DEF Demux!Streams
<1>1. DemuxTypeInv
  <2>1. xDelay \in [Demux!Streams -> Nat]
    BY CodecAssumption DEF Demux!Init
  <2>2. xQueue \in [Demux!Streams -> Seq(Nat)] /\ xWritten \in [Demux!Streams -> Seq(Nat)]
    BY EmptySeq DEF Demux!Init
  <2>. QED  BY <2>1, <2>2 DEF Demux!Init, DemuxTypeInv, DemuxOpening
<1>2. DemuxOrderInv
  <2>1. /\ \A s \in Demux!Streams : xQueue[s] = <<>> /\ xWritten[s] = <<>> /\ submitted[s] = 0
    BY DEF Demux!Init
  <2>2. Len(<<>>) = 0 /\ 1..0 = {}
    OBVIOUS
  <2>3. InOrder(<<>>, <<>>, 0) /\ \A n \in Nat : CountsFrom(n, <<>>)
    BY <2>2 DEF InOrder, CountsFrom
  <2>4. ASSUME NEW s \in Demux!Streams
        PROVE  /\ InOrder(xWritten[s], xQueue[s], submitted[s])
               /\ Len(xWritten[s]) + Len(xQueue[s]) = submitted[s]
               /\ CountsFrom(0, xWritten[s]) /\ CountsFrom(Len(xWritten[s]), xQueue[s])
    <3>1. xQueue[s] = <<>> /\ xWritten[s] = <<>> /\ submitted[s] = 0
      BY <2>1
    <3>. QED  BY <2>2, <2>3, <3>1
  <2>. QED  BY <2>4 DEF DemuxOrderInv
<1>3. DemuxFlushInv /\ DemuxHeldInv
  BY DEF Demux!Init, DemuxFlushInv, DemuxHeldInv, DemuxOpening
<1>. QED  BY <1>1, <1>2, <1>3 DEF DemuxInv

(* Opening: nothing is in the decoders yet. *)
LEMMA DemuxOpenStep ==
  ASSUME DemuxInv,
         Demux!OpenInput \/ Demux!OpenVideo \/ Demux!OpenAudio \/ Demux!Allocate
  PROVE  DemuxInv'
<1>. USE DEF Demux!codecVars, Demux!Quit, Demux!Goto, Demux!OpenFails, Demux!NoDecoder, Demux!Streams
<1>1. /\ DemuxTypeInv /\ DemuxOrderInv /\ DemuxFlushInv /\ DemuxHeldInv
      /\ UNCHANGED <<dec, xDelay, xQueue, xFlushed, submitted, xWritten, failed>>
      /\ xPc \in DemuxOpening
      /\ \A s \in Demux!Streams : xQueue[s] = <<>>
      /\ xFlushed = {}
  BY DEF DemuxInv, DemuxFlushInv, Demux!OpenInput, Demux!OpenVideo, Demux!OpenAudio, Demux!Allocate,
         DemuxOpening
<1>2. /\ xPc' \in {"openVideo", "openAudio", "allocate", "read", "end", "gone", "crashed"}
      /\ stream' \subseteq Demux!Streams
      /\ xPc' = "openVideo" => stream' = {}
      /\ xPc' = "openAudio" => stream' \subseteq {"video"}
  BY <1>1 DEF DemuxTypeInv, DemuxFlushInv, Demux!OpenInput, Demux!OpenVideo, Demux!OpenAudio,
              Demux!Allocate
<1>3. xHeld' \subseteq DemuxReleased /\ \A s \in stream' : Demux!Context(s) \in xHeld'
  <2>1. CASE Demux!OpenInput
    BY <1>1, <2>1 DEF Demux!OpenInput, DemuxHeldInv, DemuxReleased, DemuxFlushInv
  <2>2. CASE Demux!OpenVideo
    BY <1>1, <2>2 DEF Demux!OpenVideo, DemuxHeldInv, DemuxReleased, DemuxFlushInv
  <2>3. CASE Demux!OpenAudio
    BY <1>1, <2>3 DEF Demux!OpenAudio, DemuxHeldInv, DemuxReleased, DemuxFlushInv
  <2>4. CASE Demux!Allocate
    BY <1>1, <2>4 DEF Demux!Allocate, DemuxHeldInv, DemuxReleased, DemuxFlushInv
  <2>. QED  BY <2>1, <2>2, <2>3, <2>4
<1>4. DemuxTypeInv'
  BY <1>1, <1>2 DEF DemuxTypeInv, DemuxOpening
<1>5. DemuxOrderInv'
  BY <1>1 DEF DemuxOrderInv
<1>6. DemuxFlushInv'
  BY <1>1, <1>2 DEF DemuxFlushInv, DemuxOpening
<1>7. DemuxHeldInv'
  BY <1>2, <1>3 DEF DemuxHeldInv, DemuxReleased
<1>. QED  BY <1>4, <1>5, <1>6, <1>7 DEF DemuxInv

(* Reading, flushing, and the end. *)
LEMMA DemuxReadStep ==
  ASSUME DemuxInv,
         \/ Demux!ReadPacket \/ Demux!ReadEnds \/ Demux!FlushVideo \/ Demux!FlushAudio
         \/ Demux!Describe \/ Demux!End
  PROVE  DemuxInv'
<1>. USE DEF Demux!codecVars, Demux!Quit, Demux!Goto, Demux!Streams
<1>1. /\ DemuxTypeInv /\ DemuxOrderInv /\ DemuxFlushInv /\ DemuxHeldInv
      /\ UNCHANGED <<stream, xDelay, xQueue, submitted, xWritten, failed>>
  BY DEF DemuxInv, Demux!ReadPacket, Demux!ReadEnds, Demux!FlushVideo, Demux!FlushAudio,
         Demux!FlushDecoder, Demux!Describe, Demux!End
<1>2. DemuxOrderInv'
  BY <1>1 DEF DemuxOrderInv
<1>3. CASE Demux!ReadPacket \/ Demux!ReadEnds \/ Demux!Describe
  BY <1>1, <1>2, <1>3 DEF DemuxInv, DemuxTypeInv, DemuxFlushInv, DemuxHeldInv, DemuxOpening,
       DemuxReleased, Demux!ReadPacket, Demux!ReadEnds, Demux!Describe
<1>4. CASE Demux!FlushVideo \/ Demux!FlushAudio
  <2>1. DemuxTypeInv' /\ DemuxHeldInv'
    BY <1>1, <1>4 DEF Demux!FlushVideo, Demux!FlushAudio, Demux!FlushDecoder, DemuxTypeInv,
         DemuxHeldInv, DemuxOpening, DemuxReleased
  <2>2. DemuxFlushInv'
    <3>1. CASE Demux!FlushVideo
      BY <1>1, <3>1 DEF Demux!FlushVideo, Demux!FlushDecoder, DemuxFlushInv, DemuxOpening, DemuxHeldInv
    <3>2. CASE Demux!FlushAudio
      BY <1>1, <3>2 DEF Demux!FlushAudio, Demux!FlushDecoder, DemuxFlushInv, DemuxOpening, DemuxHeldInv
    <3>. QED  BY <1>4, <3>1, <3>2
  <2>. QED  BY <1>2, <2>1, <2>2 DEF DemuxInv
<1>5. CASE Demux!End
  <2>1. xHeld' = {}
    BY <1>1, <1>5 DEF Demux!End, DemuxHeldInv, DemuxReleased
  <2>. QED  BY <1>1, <1>2, <1>5, <2>1 DEF DemuxInv, DemuxTypeInv, DemuxFlushInv, DemuxHeldInv,
               DemuxOpening, Demux!End
<1>. QED  BY <1>3, <1>4, <1>5

(* decode_packet returns: its caller's loop goes on or ends, or the        *)
(* decoder that was flushed is done with.                                  *)
LEMMA DemuxReturns ==
  ASSUME DemuxInv, xPc \in {"send", "receive"}, NEW r \in Int, Demux!After(r),
         UNCHANGED <<stream, dec, xFlushed>>, failed' \in BOOLEAN,
         xQueue' \in [Demux!Streams -> Seq(Nat)],
         \A s \in Demux!Streams \ {dec} : xQueue'[s] = xQueue[s],
         xQueue[dec] = <<>> => xQueue'[dec] = <<>>,
         ~failed' => ~failed,
         dec \in xFlushed /\ ~failed' => xQueue'[dec] = <<>>
  PROVE  DemuxFlushInv'
<1>. USE DEF Demux!After, Demux!Goto, Demux!Streams
<1>1. /\ dec \in stream /\ dec \in {"video", "audio"} /\ stream \subseteq {"video", "audio"}
      /\ xPc \in {"send", "receive"}
      /\ \A s \in {"video", "audio"} \ stream : xQueue[s] = <<>>
      /\ xFlushed \subseteq {"video", "audio"}
      /\ xFlushed = {} \/ dec \in xFlushed
      /\ dec = "video" => "audio" \notin xFlushed
      /\ ~failed /\ "audio" \in xFlushed => xQueue["video"] = <<>>
  BY DEF DemuxInv, DemuxTypeInv, DemuxFlushInv
<1>2. CASE dec \notin xFlushed
  <2>1. xPc' \in {"read", "flushVideo"} /\ xFlushed = {}
    BY <1>1, <1>2
  <2>. QED  BY <1>1, <2>1 DEF DemuxFlushInv, DemuxOpening
<1>3. CASE dec \in xFlushed
  <2>1. xPc' = IF dec = "video" THEN "flushAudio" ELSE "describe"
    BY <1>3
  <2>2. CASE dec = "video"
    BY <1>1, <1>3, <2>1, <2>2 DEF DemuxFlushInv, DemuxOpening
  <2>3. CASE dec = "audio"
    BY <1>1, <1>3, <2>1, <2>3 DEF DemuxFlushInv, DemuxOpening
  <2>. QED  BY <1>1, <2>2, <2>3
<1>. QED  BY <1>2, <1>3

(* A packet goes into the decoder. *)
LEMMA DemuxSendStep == DemuxInv /\ Demux!Send => DemuxInv'
<1>. SUFFICES ASSUME DemuxInv, Demux!Send PROVE DemuxInv'
  OBVIOUS
<1>1. /\ DemuxTypeInv /\ DemuxOrderInv /\ DemuxFlushInv /\ DemuxHeldInv
      /\ UNCHANGED <<input, stream, xHeld, dec, xDelay, xFlushed, xWritten>>
      /\ xPc = "send" /\ dec \in Demux!Streams /\ dec \in stream
  BY DEF DemuxInv, DemuxTypeInv, DemuxFlushInv, Demux!Send
<1>2. CASE Demux!After(-1) /\ failed' = TRUE /\ UNCHANGED <<xQueue, submitted>>
  <2>1. xPc' \in {"flushVideo", "read", "flushAudio", "describe"}
    BY <1>2 DEF Demux!After, Demux!Goto
  <2>2. DemuxTypeInv'
    BY <1>1, <1>2, <2>1 DEF DemuxTypeInv
  <2>3. DemuxOrderInv'
    BY <1>1, <1>2 DEF DemuxOrderInv
  <2>4. DemuxFlushInv'
    BY <1>1, <1>2, DemuxReturns DEF DemuxTypeInv
  <2>5. DemuxHeldInv'
    BY <1>1, <2>1 DEF DemuxHeldInv
  <2>. QED  BY <2>2, <2>3, <2>4, <2>5 DEF DemuxInv
<1>3. CASE /\ submitted' = [submitted EXCEPT ![dec] = @ + 1]
           /\ xQueue' = [xQueue EXCEPT ![dec] = Append(@, submitted'[dec])]
           /\ Demux!Goto("receive", ret) /\ UNCHANGED failed
  <2>. DEFINE w == xWritten[dec]
              q == xQueue[dec]
              n == submitted[dec]
  <2>1. /\ w \in Seq(Nat) /\ q \in Seq(Nat) /\ n \in Nat
        /\ submitted'[dec] = n + 1 /\ xQueue'[dec] = Append(q, n + 1) /\ xWritten'[dec] = w
        /\ \A s \in Demux!Streams \ {dec} : /\ submitted'[s] = submitted[s]
                                            /\ xQueue'[s] = xQueue[s] /\ xWritten'[s] = xWritten[s]
    BY <1>1, <1>3 DEF DemuxTypeInv
  <2>2. InOrder(w, q, n) /\ Append(q, n + 1) \in Seq(Nat) /\ InOrder(w, Append(q, n + 1), n + 1)
    BY <1>1, <2>1, InOrderSends DEF DemuxOrderInv
  <2>3. DemuxTypeInv'
    BY <1>1, <1>3, <2>1, <2>2 DEF DemuxTypeInv, Demux!Goto
  <2>4. DemuxOrderInv'
    <3>1. ASSUME ~failed
          PROVE  /\ Len(w) + Len(Append(q, n + 1)) = n + 1
                 /\ CountsFrom(0, w) /\ CountsFrom(Len(w), Append(q, n + 1))
      <4>1. /\ Len(w) + Len(q) = n /\ CountsFrom(0, w) /\ CountsFrom(Len(w), q)
            /\ Len(w) \in Nat /\ Len(q) \in Nat
        <5>1. Len(w) + Len(q) = n /\ CountsFrom(0, w) /\ CountsFrom(Len(w), q)
          BY <1>1, <3>1 DEF DemuxOrderInv
        <5>. QED  BY <2>1, <5>1, LenProperties
      <4>. HIDE DEF w, q, n
      <4>2. n + 1 = Len(w) + Len(q) + 1 /\ n + 1 \in Nat
        <5>1. n \in Nat
          BY <2>1
        <5>. QED  BY <4>1, <5>1
      <4>3. Len(Append(q, n + 1)) = Len(q) + 1 /\ CountsFrom(Len(w), Append(q, n + 1))
        BY <2>1, <4>1, <4>2, CountsAppend
      <4>. QED  BY <2>1, <4>1, <4>2, <4>3
    <3>2. ASSUME NEW s \in Demux!Streams
          PROVE  /\ InOrder(xWritten'[s], xQueue'[s], submitted'[s])
                 /\ ~failed' => /\ Len(xWritten'[s]) + Len(xQueue'[s]) = submitted'[s]
                                /\ CountsFrom(0, xWritten'[s])
                                /\ CountsFrom(Len(xWritten'[s]), xQueue'[s])
      <4>1. CASE s = dec
        BY <1>3, <2>1, <2>2, <3>1, <4>1
      <4>2. CASE s # dec
        BY <1>1, <1>3, <2>1, <4>2 DEF DemuxOrderInv
      <4>. QED  BY <4>1, <4>2
    <3>. QED  BY <3>2 DEF DemuxOrderInv
  <2>5. DemuxFlushInv'
    BY <1>1, <1>3, <2>1 DEF DemuxFlushInv, DemuxOpening, Demux!Goto, Demux!Streams
  <2>6. DemuxHeldInv'
    BY <1>1, <1>3 DEF DemuxHeldInv, Demux!Goto
  <2>. QED  BY <2>3, <2>4, <2>5, <2>6 DEF DemuxInv
<1>. QED  BY <1>2, <1>3 DEF Demux!Send

(* A frame comes out of the decoder, or none is there. *)
LEMMA DemuxReceiveStep ==
  ASSUME DemuxInv, Demux!Receive \/ Demux!ReceiveFails \/ Demux!NothingReady
  PROVE  DemuxInv'
<1>. DEFINE w == xWritten[dec]
            q == xQueue[dec]
            n == submitted[dec]
<1>1. /\ DemuxTypeInv /\ DemuxOrderInv /\ DemuxFlushInv /\ DemuxHeldInv
      /\ UNCHANGED <<input, stream, xHeld, dec, xDelay, xFlushed, submitted>>
      /\ xPc = "receive" /\ dec \in Demux!Streams /\ dec \in stream
      /\ w \in Seq(Nat) /\ q \in Seq(Nat) /\ n \in Nat
  BY DEF DemuxInv, DemuxTypeInv, DemuxFlushInv, Demux!Receive, Demux!ReceiveFails,
         Demux!NothingReady, Demux!codecVars
<1>2. ASSUME NEW r \in Int, Demux!After(r)
      PROVE  xPc' \in {"flushVideo", "read", "flushAudio", "describe"} /\ DemuxHeldInv'
  <2>1. xPc' \in {"flushVideo", "read", "flushAudio", "describe"}
    BY <1>2 DEF Demux!After, Demux!Goto
  <2>. QED  BY <1>1, <2>1 DEF DemuxHeldInv
<1>3. CASE Demux!ReceiveFails \/ Demux!NothingReady
  <2>1. PICK r \in Int : Demux!After(r)
    BY <1>3 DEF Demux!ReceiveFails, Demux!NothingReady
  <2>2. UNCHANGED <<xQueue, xWritten>>
    BY <1>3 DEF Demux!ReceiveFails, Demux!NothingReady, Demux!codecVars
  <2>3. failed' \in BOOLEAN /\ (~failed' => ~failed) /\ (~failed' => ~Demux!FrameReady(dec))
    <3>1. CASE Demux!ReceiveFails
      BY <3>1 DEF Demux!ReceiveFails
    <3>2. CASE Demux!NothingReady
      <4>1. failed' = failed /\ ~Demux!FrameReady(dec) /\ failed \in BOOLEAN
        BY <1>1, <3>2 DEF Demux!NothingReady, DemuxTypeInv
      <4>. QED  BY <4>1
    <3>. QED  BY <1>3, <3>1, <3>2
  <2>4. DemuxTypeInv' /\ DemuxOrderInv'
    BY <1>1, <1>2, <2>1, <2>2, <2>3 DEF DemuxTypeInv, DemuxOrderInv
  <2>5. DemuxFlushInv'
    <3>1. dec \in xFlushed /\ ~failed' => xQueue'[dec] = <<>>
      BY <2>2, <2>3 DEF Demux!FrameReady
    <3>2. xQueue' = xQueue /\ xQueue \in [Demux!Streams -> Seq(Nat)]
      BY <1>1, <2>2 DEF DemuxTypeInv
    <3>. QED  BY <1>1, <2>1, <2>3, <3>1, <3>2, DemuxReturns
  <2>. QED  BY <1>2, <2>1, <2>4, <2>5 DEF DemuxInv
<1>4. CASE Demux!Receive
  <2>1. q # <<>>
    <3>1. Len(q) > xDelay[dec] => Len(q) # 0
      BY <1>1, LenProperties DEF DemuxTypeInv
    <3>. QED  BY <1>1, <1>4, <3>1, EmptySeq DEF Demux!Receive, Demux!FrameReady
  <2>2. /\ Tail(q) \in Seq(Nat) /\ Append(w, Head(q)) \in Seq(Nat)
        /\ InOrder(w, Tail(q), n) /\ InOrder(Append(w, Head(q)), Tail(q), n)
    BY <1>1, <2>1, InOrderReceives DEF DemuxOrderInv
  <2>3. /\ xQueue' \in [Demux!Streams -> Seq(Nat)]
        /\ xQueue'[dec] = Tail(q)
        /\ \A s \in Demux!Streams \ {dec} : xQueue'[s] = xQueue[s]
    BY <1>1, <1>4, <2>2 DEF Demux!Receive, DemuxTypeInv
  <2>4. CASE dec = "video" /\ Demux!After(-1) /\ failed' = TRUE /\ UNCHANGED xWritten
    <3>1. DemuxTypeInv'
      BY <1>1, <1>2, <2>3, <2>4 DEF DemuxTypeInv
    <3>2. DemuxOrderInv'
      BY <1>1, <2>2, <2>3, <2>4 DEF DemuxOrderInv
    <3>3. DemuxFlushInv'
      BY <1>1, <2>1, <2>3, <2>4, DemuxReturns
    <3>. QED  BY <1>2, <2>4, <3>1, <3>2, <3>3 DEF DemuxInv
  <2>6. CASE failed' = TRUE /\ UNCHANGED <<xPc, ret, xStatus, xWritten>>
    <3>1. DemuxTypeInv' /\ DemuxHeldInv'
      BY <1>1, <2>3, <2>6 DEF DemuxTypeInv, DemuxHeldInv
    <3>2. DemuxOrderInv'
      BY <1>1, <2>2, <2>3, <2>6 DEF DemuxOrderInv
    <3>3. DemuxFlushInv'
      <4>1. \A s \in Demux!Streams : xQueue[s] = <<>> => xQueue'[s] = <<>>
        BY <2>1, <2>3
      <4>. QED  BY <1>1, <2>6, <4>1 DEF DemuxFlushInv, DemuxOpening, Demux!Streams
    <3>. QED  BY <3>1, <3>2, <3>3 DEF DemuxInv
  <2>5. CASE /\ xWritten' = [xWritten EXCEPT ![dec] = Append(@, Head(xQueue[dec]))]
             /\ UNCHANGED <<xPc, ret, xStatus, failed>>
    <3>1. /\ xWritten' \in [Demux!Streams -> Seq(Nat)]
          /\ xWritten'[dec] = Append(w, Head(q))
          /\ \A s \in Demux!Streams \ {dec} : xWritten'[s] = xWritten[s]
      BY <1>1, <2>2, <2>5 DEF DemuxTypeInv
    <3>2. DemuxTypeInv' /\ DemuxHeldInv'
      BY <1>1, <2>3, <2>5, <3>1 DEF DemuxTypeInv, DemuxHeldInv
    <3>3. ASSUME ~failed
          PROVE  /\ Len(xWritten'[dec]) + Len(xQueue'[dec]) = n
                 /\ CountsFrom(0, xWritten'[dec])
                 /\ CountsFrom(Len(xWritten'[dec]), xQueue'[dec])
      <4>1. /\ Len(w) + Len(q) = n /\ CountsFrom(0, w) /\ CountsFrom(Len(w), q)
            /\ Len(w) \in Nat /\ Len(q) \in Nat
        BY <1>1, <3>3, LenProperties DEF DemuxOrderInv
      <4>2. /\ Head(q) = Len(w) + 1 /\ Len(Tail(q)) = Len(q) - 1 /\ CountsFrom(Len(w) + 1, Tail(q))
        BY <1>1, <2>1, <4>1, CountsHeadTail
      <4>3. /\ Len(Append(w, Head(q))) = Len(w) + 1 /\ CountsFrom(0, Append(w, Head(q)))
        <5>. HIDE DEF w, q, n
        <5>1. Head(q) = 0 + Len(w) + 1 /\ Head(q) \in Nat
          BY <4>1, <4>2
        <5>. QED  BY <1>1, <4>1, <5>1, CountsAppend
      <4>4. Len(xWritten'[dec]) = Len(w) + 1 /\ Len(xQueue'[dec]) = Len(q) - 1
        <5>. HIDE DEF w, q
        <5>. QED  BY <2>3, <3>1, <4>2, <4>3, Zenon
      <4>5. Len(xWritten'[dec]) + Len(xQueue'[dec]) = n
        <5>. DEFINE a == Len(w)
                    b == Len(q)
        <5>1. a + b = n /\ a \in Nat /\ b \in Nat
          BY <4>1
        <5>2. Len(xWritten'[dec]) = a + 1 /\ Len(xQueue'[dec]) = b - 1
          BY <4>4
        <5>. HIDE DEF a, b, n
        <5>. QED  BY <5>1, <5>2
      <4>. QED  BY <2>3, <3>1, <4>2, <4>3, <4>5
    <3>4. DemuxOrderInv'
      <4>1. ASSUME NEW s \in Demux!Streams
            PROVE  /\ InOrder(xWritten'[s], xQueue'[s], submitted'[s])
                   /\ ~failed' => /\ Len(xWritten'[s]) + Len(xQueue'[s]) = submitted'[s]
                                  /\ CountsFrom(0, xWritten'[s])
                                  /\ CountsFrom(Len(xWritten'[s]), xQueue'[s])
        <5>1. CASE s = dec
          BY <1>1, <2>2, <2>3, <2>5, <3>1, <3>3, <5>1
        <5>2. CASE s # dec
          BY <1>1, <2>3, <2>5, <3>1, <5>2 DEF DemuxOrderInv
        <5>. QED  BY <5>1, <5>2
      <4>. QED  BY <4>1 DEF DemuxOrderInv
    <3>5. DemuxFlushInv'
      <4>1. \A s \in Demux!Streams : xQueue[s] = <<>> => xQueue'[s] = <<>>
        BY <2>1, <2>3
      <4>. QED  BY <1>1, <2>5, <4>1 DEF DemuxFlushInv, DemuxOpening, Demux!Streams
    <3>. QED  BY <3>2, <3>4, <3>5 DEF DemuxInv
  <2>. QED  BY <1>4, <2>4, <2>5, <2>6 DEF Demux!Receive
<1>. QED  BY <1>3, <1>4

LEMMA DemuxStep == DemuxInv /\ [Demux!Next]_demuxVars => DemuxInv'
<1>. SUFFICES ASSUME DemuxInv, [Demux!Next]_demuxVars PROVE DemuxInv'
  OBVIOUS
<1>1. CASE UNCHANGED demuxVars
  BY <1>1 DEF demuxVars, DemuxInv, DemuxTypeInv, DemuxOrderInv, DemuxFlushInv, DemuxHeldInv
<1>2. CASE Demux!Next
  BY <1>2, DemuxOpenStep, DemuxReadStep, DemuxSendStep, DemuxReceiveStep DEF Demux!Next
<1>. QED  BY <1>1, <1>2

LEMMA DemuxSaves == DemuxInv => Demux!EveryFrameDemuxed /\ Demux!ReleasesAll
<1>. SUFFICES ASSUME DemuxInv PROVE Demux!EveryFrameDemuxed /\ Demux!ReleasesAll
  OBVIOUS
<1>1. ASSUME NEW s \in Demux!Streams
      PROVE  /\ \A j, k \in DOMAIN xWritten[s] : j < k => xWritten[s][j] < xWritten[s][k]
             /\ xPc = "exit" /\ ~failed => xWritten[s] = [k \in 1..submitted[s] |-> k]
  <2>1. xWritten[s] \in Seq(Nat) /\ submitted[s] \in Nat /\ InOrder(xWritten[s], xQueue[s], submitted[s])
    BY DEF DemuxInv, DemuxTypeInv, DemuxOrderInv
  <2>2. \A j, k \in DOMAIN xWritten[s] : j < k => xWritten[s][j] < xWritten[s][k]
    BY <2>1, LenProperties DEF InOrder
  <2>3. ASSUME xPc = "exit", ~failed
        PROVE  xWritten[s] = [k \in 1..submitted[s] |-> k]
    <3>1. xQueue[s] = <<>>
      BY <2>3 DEF DemuxInv, DemuxFlushInv, Demux!Streams
    <3>2. Len(xWritten[s]) = submitted[s] /\ CountsFrom(0, xWritten[s])
      <4>1. Len(xWritten[s]) + Len(xQueue[s]) = submitted[s] /\ CountsFrom(0, xWritten[s])
        BY <2>3 DEF DemuxInv, DemuxOrderInv
      <4>. QED  BY <2>1, <3>1, <4>1, EmptySeq, LenProperties
    <3>. QED  BY <2>1, <3>2, LenProperties DEF CountsFrom
  <2>. QED  BY <2>2, <2>3
<1>2. Demux!ReleasesAll
  BY DEF DemuxInv, DemuxHeldInv, Demux!ReleasesAll
<1>. QED  BY <1>1, <1>2 DEF Demux!EveryFrameDemuxed

LEMMA EncodeStarts ==
  ASSUME ePc # "send", eQueue = <<>>, count = 0, eWritten = <<>>, ~overtaken
  PROVE  EncodeQueueInv /\ EncodeWrittenInv /\ Len(eQueue) = 0 /\ Len(eWritten) = 0
<1>1. Len(eQueue) = 0 /\ Len(eWritten) = 0
  OBVIOUS
<1>2. EncodeDone = 0
  BY <1>1 DEF EncodeDone, EncodeSent
<1>. QED  BY <1>1, <1>2 DEF EncodeQueueInv, EncodeWrittenInv, EncodeHanded

(* What the encoder hands out is the frame that comes next or, once, the   *)
(* one after it.                                                           *)
LEMMA EncodeHandsOut ==
  ASSUME EncodeInv, ePc = "receive", eStyle = "video", Encode!PacketReady,
         NEW k \in 1..2, Encode!HandsOut(k), UNCHANGED <<ePc, image, count>>
  PROVE  LET x == image[eQueue[k]] IN
           /\ eQueue' \in Seq(Encode!Buffers) /\ Len(eQueue') = Len(eQueue) - 1
           /\ overtaken' \in BOOLEAN /\ x \in 1..count
           /\ \A h \in EncodeHanded : h < x \/ h = x + 1
           /\ EncodeHanded' = EncodeHanded \cup {x} /\ EncodeQueueInv'
<1>. DEFINE n == Len(eQueue)
            c == EncodeDone
            x == image[eQueue[k]]
<1>1. /\ eQueue \in Seq(Encode!Buffers) /\ n \in Nat /\ count \in Nat /\ overtaken \in BOOLEAN
      /\ image \in [Encode!Buffers -> Nat] /\ c = count - n /\ c \in Nat
      /\ overtaken => c >= 1
      /\ \A i \in 1..n : image[eQueue[i]] = IF overtaken /\ i = 1 THEN c ELSE c + i
  BY LenProperties
     DEF EncodeInv, EncodeTypeInv, EncodeOrderInv, EncodeQueueInv, EncodeDone, EncodeSent
<1>2. /\ k \in 1..n /\ (k = 1 \/ (k = 2 /\ ~overtaken))
      /\ k = 1 => ~overtaken'
      /\ k = 2 => overtaken'
  <2>1. eQueue # <<>>
    <3>1. Len(eQueue) > eDelay => Len(eQueue) # 0
      BY <1>1, CodecAssumption DEF EncodeInv, EncodeTypeInv
    <3>. QED  BY <1>1, <3>1, EmptySeq DEF Encode!PacketReady
  <2>2. n >= 1
    BY <1>1, <2>1, EmptySeq
  <2>3. k \in 1..n /\ (k = 1 \/ (k = 2 /\ ~overtaken))
    BY <1>1, <2>2 DEF Encode!HandsOut
  <2>4. overtaken' = (k = 2)
    BY DEF Encode!HandsOut
  <2>5. k = 1 => k # 2
    OBVIOUS
  <2>. QED  BY <2>3, <2>4, <2>5, Zenon
<1>3. /\ eQueue' \in Seq(Encode!Buffers) /\ Len(eQueue') = n - 1
      /\ \A i \in 1..n - 1 : eQueue'[i] = IF i < k THEN eQueue[i] ELSE eQueue[i + 1]
  <2>1. Removed(Encode!Buffers, eQueue, k, eQueue')
    <3>1. eQueue' = SubSeq(eQueue, 1, k - 1) \o SubSeq(eQueue, k + 1, Len(eQueue))
      BY DEF Encode!HandsOut, Encode!RemoveAt
    <3>. QED  BY <1>1, <1>2, <3>1, RemovedAt
  <2>. QED  BY <2>1 DEF Removed
<1>4. EncodeDone' = c + 1
  <2>1. EncodeDone' = count - Len(eQueue')
    BY DEF EncodeDone, EncodeSent
  <2>. QED  BY <1>1, <1>3, <2>1
<1>5. (overtaken => x = c) /\ (~overtaken => x = c + k) /\ x \in 1..count
  BY <1>1, <1>2
<1>10. overtaken' \in BOOLEAN
  BY DEF Encode!HandsOut
<1>6. /\ EncodeHanded = IF overtaken THEN (1..c - 1) \cup {c + 1} ELSE 1..c
      /\ EncodeHanded' = IF overtaken' THEN (1..(c + 1) - 1) \cup {(c + 1) + 1} ELSE 1..c + 1
  BY <1>4 DEF EncodeHanded
<1>. HIDE DEF c, n, x
<1>7. EncodeHanded' = EncodeHanded \cup {x} /\ \A h \in EncodeHanded : h < x \/ h = x + 1
  <2>1. CASE overtaken
    <3>1. x = c /\ ~overtaken'
      BY <1>2, <1>5, <2>1, Zenon
    <3>. QED  BY <1>1, <1>6, <2>1, <3>1
  <2>2. CASE ~overtaken /\ k = 1
    <3>1. x = c + 1 /\ ~overtaken'
      BY <1>2, <1>5, <2>2, Zenon
    <3>. QED  BY <1>1, <1>6, <2>2, <3>1
  <2>3. CASE ~overtaken /\ k = 2
    <3>1. x = c + 2 /\ overtaken'
      BY <1>2, <1>5, <2>3, Zenon
    <3>. QED  BY <1>1, <1>6, <2>3, <3>1
  <2>. QED  BY <1>2, <2>1, <2>2, <2>3
<1>8. \A i \in 1..n - 1 :
        image[eQueue'[i]] = IF overtaken' /\ i = 1 THEN c + 1 ELSE c + 1 + i
  <2>. SUFFICES ASSUME NEW i \in 1..n - 1
                PROVE  image[eQueue'[i]] = IF overtaken' /\ i = 1 THEN c + 1 ELSE c + 1 + i
    OBVIOUS
  <2>1. i \in 1..n /\ i + 1 \in 1..n /\ i + 1 # 1
    BY <1>1
  <2>2. image[eQueue[i]] = (IF overtaken /\ i = 1 THEN c ELSE c + i)
    BY <1>1, <2>1
  <2>4. image[eQueue[i + 1]] = c + (i + 1)
    BY <1>1, <2>1
  <2>5. CASE i < k
    <3>2. i = 1 /\ k = 2
      BY <2>5
    <3>1. i = 1 /\ k = 2 /\ ~overtaken /\ overtaken'
      <4>1. k # 1
        BY <3>2
      <4>. QED  BY <1>2, <3>2, <4>1, Zenon
    <3>. QED  BY <1>3, <2>2, <2>5, <3>1
  <2>6. CASE ~(i < k)
    <3>1. ~(overtaken' /\ i = 1)
      <4>1. i = 1 => k # 2
        BY <2>6
      <4>. QED  BY <1>2, <4>1, Zenon
    <3>2. eQueue'[i] = eQueue[i + 1]
      BY <1>3, <2>6
    <3>. QED  BY <1>1, <2>4, <3>1, <3>2
  <2>. QED  BY <2>5, <2>6
<1>9. EncodeQueueInv'
  <2>1. overtaken' => n - 1 >= 1
    <3>1. overtaken' => k # 1
      BY <1>2, Zenon
    <3>. QED  BY <1>1, <1>2, <3>1
  <2>. QED  BY <1>1, <1>3, <1>4, <1>8, <2>1 DEF EncodeQueueInv
<1>. QED  BY <1>3, <1>5, <1>7, <1>9, <1>10 DEF x, n

LEMMA EncodeInitially == Encode!Init => EncodeInv
<1>. SUFFICES ASSUME Encode!Init PROVE EncodeInv
  OBVIOUS
<1>1. EncodeTypeInv
  <2>1. buffer \in Encode!Buffers /\ image \in [Encode!Buffers -> Nat]
    BY CodecAssumption DEF Encode!Init, Encode!Buffers
  <2>2. eDelay \in 0..EncodeDelay /\ available \in Nat
    BY CodecAssumption DEF Encode!Init
  <2>3. eQueue \in Seq(Encode!Buffers) /\ eWritten \in Seq(Nat)
    BY EmptySeq DEF Encode!Init
  <2>. QED  BY <2>1, <2>2, <2>3 DEF Encode!Init, EncodeTypeInv
<1>2. EncodePhaseInv
  BY DEF Encode!Init, EncodePhaseInv
<1>4. EncodeOrderInv
  BY EncodeStarts DEF Encode!Init, EncodeOrderInv
<1>3. EncodeHeldInv
  <2>1. JpegAcquired(1) = {}
    BY DEF JpegAcquired, IfAfter
  <2>. QED  BY <2>1 DEF Encode!Init, EncodeHeldInv
<1>. QED  BY <1>1, <1>2, <1>3, <1>4 DEF EncodeInv

(* read_one_video_frame: what is held when a call fails is what its error  *)
(* path releases; a call that nobody checks acquires nothing.              *)
LEMMA JpegCallsAre ==
  ASSUME eStyle = "jpeg"
  PROVE  /\ Len(Encode!Calls) = 13
         /\ \A k \in 1..13 :
              /\ Encode!Calls[k].checked => Encode!Calls[k].undo = JpegAcquired(k)
              /\ ~Encode!Calls[k].checked => JpegAcquired(k + 1) = JpegAcquired(k)
              /\ JpegAcquired(k) \cup Encode!Calls[k].takes = JpegAcquired(k + 1)
<1>1. Len(Encode!ReadOneFrame) = 7 /\ Len(Encode!OpenJpeg) = 6
  BY DEF Encode!ReadOneFrame, Encode!OpenJpeg
<1>2. /\ Len(Encode!Calls) = 13
      /\ \A k \in 1..13 :
           Encode!Calls[k] = IF k <= 7 THEN Encode!ReadOneFrame[k] ELSE Encode!OpenJpeg[k - 7]
  BY <1>1 DEF Encode!Calls, Encode!ReadOneFrame, Encode!OpenJpeg
<1>. USE DEF Encode!Call, Encode!Unchecked, Encode!Files, Encode!Image, JpegAcquired, IfAfter
<1>3. ASSUME NEW k \in 1..7
      PROVE  LET c == Encode!ReadOneFrame[k] IN
               /\ c.checked => c.undo = JpegAcquired(k)
               /\ ~c.checked => JpegAcquired(k + 1) = JpegAcquired(k)
               /\ JpegAcquired(k) \cup c.takes = JpegAcquired(k + 1)
  <2>1. k \in {1, 2, 3, 4, 5, 6, 7}
    OBVIOUS
  <2>. QED  BY <2>1 DEF Encode!ReadOneFrame
<1>4. ASSUME NEW k \in 8..13
      PROVE  LET c == Encode!OpenJpeg[k - 7] IN
               /\ c.checked => c.undo = JpegAcquired(k)
               /\ ~c.checked => JpegAcquired(k + 1) = JpegAcquired(k)
               /\ JpegAcquired(k) \cup c.takes = JpegAcquired(k + 1)
  <2>1. k \in {8, 9, 10, 11, 12, 13}
    OBVIOUS
  <2>. QED  BY <2>1 DEF Encode!OpenJpeg
<1>5. ASSUME NEW k \in 1..13
      PROVE  k \in 1..7 \/ k \in 8..13
  OBVIOUS
<1>. QED  BY <1>2, <1>3, <1>4, <1>5

(* The calls before the first frame. *)
LEMMA EncodeSetupStep ==
  ASSUME EncodeInv, Encode!CallSucceeds \/ Encode!CallFails \/ Encode!SetupEnds
  PROVE  EncodeInv'
<1>. USE DEF Encode!frameVars, Encode!codecVars, Encode!Exit
<1>1. /\ EncodeTypeInv /\ EncodeOrderInv /\ EncodePhaseInv /\ EncodeHeldInv
      /\ UNCHANGED <<eStyle, available, count, buffer, image, eDelay, eQueue, eFlushed,
                     overtaken, eWritten>>
      /\ ePc = "setup" /\ eStep \in Nat
      /\ eQueue = <<>> /\ count = 0 /\ eWritten = <<>> /\ ~eFlushed /\ ~overtaken
  BY DEF EncodeInv, EncodeTypeInv, EncodeOrderInv, EncodePhaseInv,
         Encode!CallSucceeds, Encode!CallFails, Encode!SetupEnds
<1>2. /\ eStep' \in Nat /\ broken' \in BOOLEAN /\ ePc' \in {"setup", "frame", "packet", "exit"}
      /\ ePc' = "frame" => eStyle = "video"
      /\ ePc' = "packet" => eStyle = "jpeg"
      /\ ePc' = "exit" => eStatus' = 1
  <2>1. eStyle \in {"video", "jpeg"} /\ broken \in BOOLEAN
    BY <1>1 DEF EncodeTypeInv
  <2>2. CASE Encode!CallSucceeds
    BY <1>1, <2>1, <2>2 DEF Encode!CallSucceeds
  <2>3. CASE Encode!CallFails
    <3>1. CASE Encode!Calls[eStep].checked
      <4>1. ePc' = "exit" /\ eStatus' = 1 /\ eStep' = eStep /\ broken' = broken
        BY <2>3, <3>1 DEF Encode!CallFails
      <4>. QED  BY <1>1, <2>1, <4>1
    <3>2. CASE ~Encode!Calls[eStep].checked
      <4>1. ePc' = ePc /\ eStep' = eStep + 1 /\ broken' = TRUE
        BY <2>3, <3>2 DEF Encode!CallFails
      <4>. QED  BY <1>1, <4>1
    <3>. QED  BY <3>1, <3>2
  <2>4. CASE Encode!SetupEnds
    BY <1>1, <2>1, <2>4 DEF Encode!SetupEnds
  <2>. QED  BY <2>2, <2>3, <2>4
<1>3. EncodeTypeInv'
  BY <1>1, <1>2 DEF EncodeTypeInv
<1>4. EncodeOrderInv' /\ EncodePhaseInv'
  <2>1. EncodePhaseInv' /\ 0 <= eDelay
    BY <1>1, <1>2 DEF EncodeTypeInv, EncodePhaseInv
  <2>2. ePc' # "send" /\ eQueue' = <<>> /\ count' = 0 /\ eWritten' = <<>> /\ ~overtaken'
    BY <1>1, <1>2
  <2>3. EncodeQueueInv' /\ EncodeWrittenInv' /\ Len(eQueue') = 0 /\ Len(eWritten') = 0
    <3>1. Len(eQueue') = 0 /\ Len(eWritten') = 0
      BY <2>2
    <3>2. EncodeDone' = 0
      BY <2>2, <3>1 DEF EncodeDone, EncodeSent
    <3>. QED  BY <2>2, <3>1, <3>2 DEF EncodeQueueInv, EncodeWrittenInv, EncodeHanded
  <2>4. EncodeOrderInv'
    BY <1>1, <2>1, <2>2, <2>3 DEF EncodeOrderInv
  <2>. QED  BY <2>1, <2>4
<1>5. EncodeHeldInv'
  <2>. SUFFICES ASSUME eStyle = "jpeg" PROVE EncodeHeldInv'
    BY <1>1 DEF EncodeHeldInv
  <2>1. eStep \in 1..14 /\ eHeld = JpegAcquired(eStep)
    BY <1>1 DEF EncodeHeldInv
  <2>5. Len(Encode!Calls) = 13
    BY JpegCallsAre
  <2>2. CASE Encode!CallSucceeds
    <3>1. eStep \in 1..13
      BY <2>1, <2>2, <2>5 DEF Encode!CallSucceeds
    <3>2. eHeld \cup Encode!Calls[eStep].takes = JpegAcquired(eStep + 1)
      BY <2>1, <3>1, JpegCallsAre
    <3>3. ePc' = "setup" /\ eHeld' = JpegAcquired(eStep') /\ eStep' = eStep + 1
      BY <1>1, <2>2, <3>2 DEF Encode!CallSucceeds
    <3>. QED  BY <2>1, <3>1, <3>3 DEF EncodeHeldInv
  <2>3. CASE Encode!CallFails
    <3>1. eStep \in 1..13
      BY <2>1, <2>3, <2>5 DEF Encode!CallFails
    <3>2. CASE Encode!Calls[eStep].checked
      <4>1. ePc' = "exit" /\ eHeld' = eHeld \ Encode!Calls[eStep].undo
        BY <2>3, <3>2 DEF Encode!CallFails
      <4>2. eHeld' = {}
        BY <2>1, <3>1, <3>2, <4>1, JpegCallsAre
      <4>. QED  BY <4>1, <4>2 DEF EncodeHeldInv
    <3>3. CASE ~Encode!Calls[eStep].checked
      <4>1. ePc' = "setup" /\ eHeld' = eHeld /\ eStep' = eStep + 1
        BY <1>1, <2>3, <3>3 DEF Encode!CallFails
      <4>2. JpegAcquired(eStep + 1) = JpegAcquired(eStep)
        BY <3>1, <3>3, JpegCallsAre
      <4>. QED  BY <2>1, <3>1, <4>1, <4>2 DEF EncodeHeldInv
    <3>. QED  BY <3>2, <3>3
  <2>4. CASE Encode!SetupEnds
    <3>1. eStep = 14
      BY <2>1, <2>4, <2>5 DEF Encode!SetupEnds
    <3>2. ePc' = "packet" /\ eHeld' = eHeld
      BY <2>4 DEF Encode!SetupEnds
    <3>. QED  BY <2>1, <3>1, <3>2 DEF EncodeHeldInv
  <2>. QED  BY <2>2, <2>3, <2>4
<1>. QED  BY <1>3, <1>4, <1>5 DEF EncodeInv

(* A buffer that the encoder does not refer to exists whenever one is      *)
(* needed.                                                                 *)
LEMMA EncodeWritable ==
  ASSUME EncodeInv, ePc = "frame"
  PROVE  /\ Encode!Writable \in Encode!Buffers
         /\ \A k \in 1..Len(eQueue) : eQueue[k] # Encode!Writable
<1>. DEFINE n == Len(eQueue)
<1>1. /\ eQueue \in Seq(Encode!Buffers) /\ buffer \in Encode!Buffers
      /\ eDelay \in 0..EncodeDelay /\ n <= eDelay /\ EncodeDelay \in Nat
  BY CodecAssumption DEF EncodeInv, EncodeTypeInv, EncodeOrderInv
<1>2. n \in Nat /\ DOMAIN eQueue = 1..n
  BY <1>1, LenProperties
<1>3. Encode!Referred = {eQueue[k] : k \in 1..n}
  BY <1>2 DEF Encode!Referred
<1>4. Cardinality(Encode!Referred) <= EncodeDelay
  <2>1. [k \in 1..n |-> eQueue[k]] \in Surjection(1..n, Encode!Referred)
    BY <1>3 DEF Surjection
  <2>2. Cardinality(Encode!Referred) <= n
    BY <1>2, <2>1, FS_SurjCardinalityBound DEF ExistsSurjection
  <2>3. Cardinality(Encode!Referred) \in Nat
    <3>1. IsFiniteSet(1..n)
      BY <1>2, FS_Interval
    <3>. QED  BY <2>1, <3>1, FS_Surjection, FS_CardinalityType
  <2>. QED  BY <1>1, <1>2, <2>2, <2>3
<1>5. \E b \in Encode!Buffers : b \notin Encode!Referred
  <2>. SUFFICES ASSUME Encode!Buffers \subseteq Encode!Referred PROVE FALSE
    OBVIOUS
  <2>1. IsFiniteSet(Encode!Referred)
    <3>1. IsFiniteSet(1..n) /\ [k \in 1..n |-> eQueue[k]] \in Surjection(1..n, Encode!Referred)
      BY <1>2, <1>3, FS_Interval DEF Surjection
    <3>. QED  BY <3>1, FS_Surjection
  <2>2. Cardinality(Encode!Buffers) = EncodeDelay + 2
    <3>1. EncodeDelay + 1 \in Int /\ ~(0 > EncodeDelay + 1)
      BY <1>1
    <3>2. Cardinality(0..EncodeDelay + 1) = EncodeDelay + 1 - 0 + 1
      BY <3>1, FS_Interval
    <3>. QED  BY <1>1, <3>2 DEF Encode!Buffers
  <2>. QED  BY <1>1, <1>4, <2>1, <2>2, CardinalityGrows
<1>6. Encode!Writable \in Encode!Buffers /\ Encode!Writable \notin Encode!Referred
  BY <1>1, <1>5 DEF Encode!Writable
<1>. QED  BY <1>3, <1>6

(* The steps that send nothing and hand nothing out. *)
LEMMA EncodeStays ==
  ASSUME ePc # "send", ePc' # "send", EncodeQueueInv, EncodeWrittenInv,
         UNCHANGED <<image, count, eQueue, overtaken, eWritten, broken>>
  PROVE  EncodeQueueInv' /\ EncodeWrittenInv'
BY DEF EncodeQueueInv, EncodeWrittenInv, EncodeHanded, EncodeDone, EncodeSent

(* encode_video's rounds. *)
LEMMA EncodeFrameStep ==
  ASSUME EncodeInv,
         Encode!FillFrame \/ Encode!NotWritable \/ Encode!ShortRead \/ Encode!AllFramesSent
  PROVE  EncodeInv'
<1>. USE DEF Encode!frameVars, Encode!codecVars, Encode!Exit
<1>1. /\ EncodeTypeInv /\ EncodeOrderInv /\ EncodePhaseInv /\ EncodeHeldInv
      /\ UNCHANGED <<eStyle, eStep, available, eDelay, eQueue, overtaken, eWritten, broken>>
      /\ ePc = "frame" /\ eStyle = "video" /\ count \in Nat /\ image \in [Encode!Buffers -> Nat]
      /\ eQueue \in Seq(Encode!Buffers)
  <2>1. /\ EncodeTypeInv /\ EncodeOrderInv /\ EncodePhaseInv /\ EncodeHeldInv
    BY DEF EncodeInv
  <2>2. /\ UNCHANGED <<eStyle, eStep, available, eDelay, eQueue, overtaken, eWritten, broken>>
        /\ ePc = "frame"
    BY DEF Encode!FillFrame, Encode!NotWritable, Encode!ShortRead, Encode!AllFramesSent
  <2>. QED  BY <2>1, <2>2 DEF EncodeTypeInv, EncodePhaseInv
<1>2. EncodeHeldInv'
  BY <1>1 DEF EncodeHeldInv
<1>3. CASE Encode!FillFrame
  <2>. DEFINE b == Encode!Writable
  <2>1. b \in Encode!Buffers /\ \A k \in 1..Len(eQueue) : eQueue[k] # b
    BY <1>1, EncodeWritable
  <2>2. /\ buffer' = b /\ image' = [image EXCEPT ![b] = count + 1]
        /\ count' = count + 1 /\ ePc' = "send" /\ UNCHANGED <<eFlushed, eStatus>>
    BY <1>3 DEF Encode!FillFrame
  <2>. HIDE DEF b
  <2>3. EncodeTypeInv' /\ EncodePhaseInv'
    BY <1>1, <2>1, <2>2 DEF EncodeTypeInv, EncodePhaseInv
  <2>4. \A k \in 1..Len(eQueue) : image'[eQueue[k]] = image[eQueue[k]]
    <3>1. \A k \in 1..Len(eQueue) : eQueue[k] \in Encode!Buffers
      BY <1>1, ElementOfSeq
    <3>. QED  BY <1>1, <2>1, <2>2, <3>1
  <2>5. EncodeOrderInv'
    <3>1. EncodeSent' = EncodeSent
      BY <1>1, <2>2 DEF EncodeSent
    <3>2. EncodeDone' = EncodeDone /\ EncodeHanded' = EncodeHanded
      BY <1>1, <3>1 DEF EncodeDone, EncodeHanded
    <3>3. EncodeQueueInv' /\ EncodeWrittenInv'
      BY <1>1, <2>4, <3>2 DEF EncodeOrderInv, EncodeQueueInv, EncodeWrittenInv
    <3>4. \A k \in 1..Len(eWritten) : eWritten[k] \in 1..count + 1
      BY <1>1 DEF EncodeOrderInv
    <3>. QED  BY <1>1, <2>1, <2>2, <3>3, <3>4 DEF EncodeOrderInv
  <2>. QED  BY <1>2, <2>3, <2>5 DEF EncodeInv
<1>4. CASE Encode!NotWritable \/ Encode!ShortRead
  <2>1. ePc' = "exit" /\ eStatus' = 1 /\ UNCHANGED <<buffer, image, count, eFlushed>>
    BY <1>4 DEF Encode!NotWritable, Encode!ShortRead
  <2>2. EncodeTypeInv' /\ EncodePhaseInv'
    BY <1>1, <2>1 DEF EncodeTypeInv, EncodePhaseInv
  <2>3. EncodeOrderInv'
    BY <1>1, <2>1 DEF EncodeOrderInv
  <2>. QED  BY <1>2, <2>2, <2>3 DEF EncodeInv
<1>5. CASE Encode!AllFramesSent
  <2>1. EncodeTypeInv' /\ EncodePhaseInv'
    BY <1>1, <1>5 DEF Encode!AllFramesSent, EncodeTypeInv, EncodePhaseInv
  <2>2. UNCHANGED <<count, image>> /\ ePc' = "receive"
    BY <1>5 DEF Encode!AllFramesSent
  <2>3. EncodeOrderInv'
    BY <1>1, <2>2, EncodeStays DEF EncodeOrderInv
  <2>. QED  BY <1>2, <2>1, <2>3 DEF EncodeInv
<1>. QED  BY <1>3, <1>4, <1>5

(* encode and the end; read_one_video_frame's only packet. *)
LEMMA EncodeOneJpeg == EncodeInv /\ Encode!OneJpeg => EncodeInv'
<1>. SUFFICES ASSUME EncodeInv, Encode!OneJpeg PROVE EncodeInv'
  OBVIOUS
<1>1. /\ EncodeTypeInv /\ EncodeOrderInv /\ EncodePhaseInv /\ EncodeHeldInv
      /\ UNCHANGED <<eStyle, eStep, available, count, buffer, image, eDelay, eFlushed, broken,
                     eQueue, overtaken>>
      /\ ePc = "packet" /\ ePc' = "exit"
  BY DEF EncodeInv, Encode!OneJpeg, Encode!frameVars, Encode!codecVars, Encode!Exit
<1>2. eStyle = "jpeg" /\ eWritten = <<>> /\ eHeld = JpegAcquired(14)
  BY <1>1 DEF EncodeTypeInv, EncodePhaseInv, EncodeOrderInv, EncodeHeldInv
<1>3. eHeld' = {}
  BY <1>2 DEF Encode!OneJpeg, JpegAcquired, IfAfter, Encode!Image, Encode!Files
<1>4. eWritten' \in Seq(Nat)
  <2>1. eWritten' \in {<<>>, <<1>>}
    BY <1>2 DEF Encode!OneJpeg
  <2>2. <<>> \in Seq(Nat) /\ <<1>> \in Seq(Nat)
    OBVIOUS
  <2>. QED  BY <2>1, <2>2
<1>. QED  BY <1>1, <1>2, <1>3, <1>4
          DEF EncodeInv, EncodeTypeInv, EncodePhaseInv, EncodeOrderInv, EncodeHeldInv

LEMMA EncodePacketStep ==
  ASSUME EncodeInv,
         \/ Encode!Send \/ Encode!Receive \/ Encode!PacketLost
         \/ Encode!ReceiveFails \/ Encode!NothingReady
  PROVE  EncodeInv'
<1>. USE DEF Encode!frameVars, Encode!codecVars, Encode!Exit
<1>1. /\ EncodeTypeInv /\ EncodeOrderInv /\ EncodePhaseInv /\ EncodeHeldInv
      /\ UNCHANGED <<eStyle, eStep, available, count, buffer, image, eDelay, eFlushed>>
      /\ ePc \in {"send", "receive"} /\ eStyle = "video"
      /\ eQueue \in Seq(Encode!Buffers) /\ eWritten \in Seq(Nat)
      /\ count \in Nat /\ buffer \in Encode!Buffers /\ image \in [Encode!Buffers -> Nat]
      /\ Len(eQueue) \in Nat /\ Len(eWritten) \in Nat /\ EncodeHeldInv'
  <2>1. /\ EncodeTypeInv /\ EncodeOrderInv /\ EncodePhaseInv /\ EncodeHeldInv
    BY DEF EncodeInv
  <2>2. /\ UNCHANGED <<eStyle, eStep, available, count, buffer, image, eDelay, eFlushed>>
        /\ ePc \in {"send", "receive"}
    BY DEF Encode!Send, Encode!Receive, Encode!PacketLost, Encode!ReceiveFails, Encode!NothingReady
  <2>3. eQueue \in Seq(Encode!Buffers) /\ eWritten \in Seq(Nat)
    BY <2>1 DEF EncodeTypeInv
  <2>4. count \in Nat /\ buffer \in Encode!Buffers /\ image \in [Encode!Buffers -> Nat]
    BY <2>1 DEF EncodeTypeInv
  <2>5. eStyle = "video"
    BY <2>1, <2>2 DEF EncodeTypeInv, EncodePhaseInv
  <2>. QED  BY <2>1, <2>2, <2>3, <2>4, <2>5, LenProperties DEF EncodeHeldInv
<1>2. EncodeQueueInv /\ EncodeWrittenInv
  BY <1>1 DEF EncodeOrderInv
<1>4. ASSUME ePc' = "exit", eStatus' = 1, UNCHANGED <<eQueue, overtaken, eWritten, broken>>
      PROVE  EncodeInv'
  <2>1. EncodeTypeInv' /\ EncodePhaseInv'
    BY <1>1, <1>4 DEF EncodeTypeInv, EncodePhaseInv
  <2>2. EncodeOrderInv'
    BY <1>1, <1>4 DEF EncodeOrderInv
  <2>. QED  BY <1>1, <2>1, <2>2 DEF EncodeInv
<1>5. CASE Encode!Send
  <2>1. CASE Encode!Exit(1) /\ UNCHANGED eQueue
    BY <1>4, <1>5, <2>1 DEF Encode!Send
  <2>2. CASE eQueue' = Append(eQueue, buffer) /\ ePc' = "receive" /\ UNCHANGED eStatus
    <3>1. ePc = "send" /\ UNCHANGED <<eWritten, overtaken, broken>>
      BY <1>5 DEF Encode!Send
    <3>2. /\ eQueue' \in Seq(Encode!Buffers) /\ Len(eQueue') = Len(eQueue) + 1
          /\ \A k \in 1..Len(eQueue) : eQueue'[k] = eQueue[k]
          /\ eQueue'[Len(eQueue) + 1] = buffer
      BY <1>1, <2>2, AppendProperties
    <3>3. EncodeTypeInv' /\ EncodePhaseInv'
      BY <1>1, <2>2, <3>1, <3>2 DEF EncodeTypeInv, EncodePhaseInv
    <3>4. EncodeDone' = EncodeDone /\ EncodeHanded' = EncodeHanded
      <4>1. EncodeDone = count - 1 - Len(eQueue) /\ EncodeDone' = count - Len(eQueue')
        BY <1>1, <2>2, <3>1 DEF EncodeDone, EncodeSent
      <4>2. EncodeDone' = EncodeDone
        BY <1>1, <3>2, <4>1
      <4>. QED  BY <3>1, <4>2 DEF EncodeHanded
    <3>5. EncodeQueueInv'
      <4>1. /\ image[buffer] = count /\ EncodeDone = count - 1 - Len(eQueue)
        BY <1>1, <3>1 DEF EncodeOrderInv, EncodeDone, EncodeSent
      <4>2. ASSUME NEW k \in 1..Len(eQueue')
            PROVE  image[eQueue'[k]] = IF overtaken /\ k = 1 THEN EncodeDone ELSE EncodeDone + k
        <5>1. CASE k \in 1..Len(eQueue)
          BY <1>2, <3>2, <5>1 DEF EncodeQueueInv
        <5>2. CASE k \notin 1..Len(eQueue)
          <6>1. k = Len(eQueue) + 1
            BY <1>1, <3>2, <5>2
          <6>2. count = EncodeDone + k /\ ~(overtaken /\ k = 1)
            BY <1>1, <1>2, <4>1, <6>1 DEF EncodeQueueInv
          <6>. QED  BY <3>2, <4>1, <6>1, <6>2
        <5>. QED  BY <5>1, <5>2
      <4>3. overtaken => Len(eQueue') >= 1
        BY <1>1, <3>2
      <4>. QED  BY <1>1, <1>2, <3>1, <3>4, <4>2, <4>3 DEF EncodeQueueInv
    <3>6. EncodeWrittenInv'
      BY <1>2, <3>1, <3>4 DEF EncodeWrittenInv
    <3>7. EncodeOrderInv'
      BY <1>1, <2>2, <3>1, <3>5, <3>6 DEF EncodeOrderInv
    <3>. QED  BY <1>1, <3>3, <3>7 DEF EncodeInv
  <2>. QED  BY <1>5, <2>1, <2>2 DEF Encode!Send
<1>6. CASE Encode!Receive \/ Encode!PacketLost
  <2>1. PICK k \in 1..2 :
          /\ Encode!HandsOut(k)
          /\ \/ eWritten' = Append(eWritten, image[eQueue[k]]) /\ broken' = broken
             \/ eWritten' = eWritten /\ broken' = TRUE
    BY <1>6 DEF Encode!Receive, Encode!PacketLost
  <2>2. ePc = "receive" /\ ePc' = "receive" /\ eStatus' = eStatus /\ Encode!PacketReady
    BY <1>6 DEF Encode!Receive, Encode!PacketLost
  <2>3. PICK x : x = image[eQueue[k]]
    OBVIOUS
  <2>4. /\ eQueue' \in Seq(Encode!Buffers) /\ Len(eQueue') = Len(eQueue) - 1
        /\ overtaken' \in BOOLEAN /\ x \in 1..count
        /\ \A h \in EncodeHanded : h < x \/ h = x + 1
        /\ EncodeHanded' = EncodeHanded \cup {x} /\ EncodeQueueInv'
    BY <1>1, <2>1, <2>2, <2>3, EncodeHandsOut
  <2>5. EncodePhaseInv'
    BY <1>1, <2>2 DEF EncodePhaseInv
  <2>6. /\ \A j \in 1..Len(eWritten) : eWritten[j] \in 1..count /\ eWritten[j] \in EncodeHanded
        /\ \A i, j \in 1..Len(eWritten) :
             i < j => eWritten[i] < eWritten[j] \/ eWritten[i] = eWritten[j] + 1
    BY <1>1, <1>2 DEF EncodeOrderInv, EncodeWrittenInv
  <2>7. CASE eWritten' = eWritten /\ broken' = TRUE
    <3>1. EncodeWrittenInv'
      BY <2>4, <2>6, <2>7 DEF EncodeWrittenInv
    <3>2. EncodeTypeInv'
      BY <1>1, <2>2, <2>4, <2>7 DEF EncodeTypeInv
    <3>3. EncodeOrderInv'
      BY <1>1, <2>2, <2>4, <2>6, <2>7, <3>1 DEF EncodeOrderInv
    <3>. QED  BY <1>1, <2>5, <3>2, <3>3 DEF EncodeInv
  <2>8. CASE eWritten' = Append(eWritten, x) /\ broken' = broken
    <3>. DEFINE n == Len(eWritten)
    <3>1. /\ eWritten' \in Seq(Nat) /\ Len(eWritten') = n + 1
          /\ \A j \in 1..n : eWritten'[j] = eWritten[j]
          /\ eWritten'[n + 1] = x /\ n \in Nat /\ x \in Nat
      <4>1. x \in Nat
        BY <1>1, <2>4
      <4>. QED  BY <1>1, <2>8, <4>1, AppendProperties
    <3>. HIDE DEF n
    <3>2. ASSUME NEW j \in 1..n + 1
          PROVE  \/ j \in 1..n /\ eWritten'[j] = eWritten[j]
                 \/ j = n + 1 /\ eWritten'[j] = x
      <4>1. j \in 1..n \/ j = n + 1
        BY <3>1
      <4>. QED  BY <3>1, <4>1
    <3>3. /\ \A j \in 1..n : eWritten[j] \in 1..count /\ eWritten[j] \in EncodeHanded
          /\ \A i, j \in 1..n :
               i < j => eWritten[i] < eWritten[j] \/ eWritten[i] = eWritten[j] + 1
      BY <2>6 DEF n
    <3>4. \A j \in 1..n + 1 : eWritten'[j] \in 1..count /\ eWritten'[j] \in EncodeHanded'
      BY <2>4, <3>2, <3>3
    <3>5. ASSUME NEW i \in 1..n + 1, NEW j \in 1..n + 1, i < j
          PROVE  eWritten'[i] < eWritten'[j] \/ eWritten'[i] = eWritten'[j] + 1
      <4>1. i \in 1..n /\ eWritten'[i] = eWritten[i]
        <5>1. i # n + 1
          BY <3>1, <3>5
        <5>. QED  BY <3>2, <5>1
      <4>2. CASE j \in 1..n /\ eWritten'[j] = eWritten[j]
        BY <3>3, <3>5, <4>1, <4>2
      <4>3. CASE j = n + 1 /\ eWritten'[j] = x
        BY <2>4, <3>3, <4>1, <4>3
      <4>. QED  BY <3>2, <4>2, <4>3
    <3>6. ASSUME ~broken
          PROVE  EncodeHanded' \subseteq {eWritten'[j] : j \in 1..n + 1}
      <4>1. EncodeHanded \subseteq {eWritten[j] : j \in 1..n}
        BY <1>2, <3>6 DEF EncodeWrittenInv, n
      <4>2. \A j \in 1..n : j \in 1..n + 1 /\ eWritten'[j] = eWritten[j]
        BY <3>1
      <4>3. n + 1 \in 1..n + 1
        BY <3>1
      <4>. QED  BY <2>4, <3>1, <4>1, <4>2, <4>3
    <3>7. EncodeWrittenInv'
      BY <2>8, <3>1, <3>4, <3>6 DEF EncodeWrittenInv
    <3>8. EncodeTypeInv'
      BY <1>1, <2>2, <2>4, <2>8, <3>1 DEF EncodeTypeInv
    <3>9. EncodeOrderInv'
      BY <1>1, <2>2, <2>4, <3>1, <3>4, <3>5, <3>7 DEF EncodeOrderInv
    <3>. QED  BY <1>1, <2>5, <3>8, <3>9 DEF EncodeInv
  <2>. QED  BY <2>1, <2>3, <2>7, <2>8
<1>8. CASE Encode!ReceiveFails
  BY <1>4, <1>8 DEF Encode!ReceiveFails
<1>7. CASE Encode!NothingReady
  <2>1. ePc = "receive" /\ UNCHANGED <<eQueue, overtaken, eWritten, broken>> /\ ~Encode!PacketReady
    BY <1>7 DEF Encode!NothingReady
  <2>2. CASE eFlushed
    <3>1. ePc' = "exit" /\ eQueue = <<>>
      BY <1>7, <2>1, <2>2 DEF Encode!NothingReady, Encode!PacketReady
    <3>2. EncodeTypeInv' /\ EncodePhaseInv'
      BY <1>1, <2>1, <2>2, <3>1 DEF EncodeTypeInv, EncodePhaseInv
    <3>3. EncodeQueueInv' /\ EncodeWrittenInv'
      BY <1>1, <1>2, <2>1, <3>1, EncodeStays
    <3>4. EncodeOrderInv'
      BY <1>1, <2>1, <3>1, <3>3 DEF EncodeOrderInv
    <3>. QED  BY <1>1, <3>2, <3>4 DEF EncodeInv
  <2>3. CASE ~eFlushed
    <3>1. ePc' = "frame" /\ Len(eQueue) <= eDelay
      <4>1. ePc' = "frame" /\ ~(Len(eQueue) > eDelay)
        BY <1>7, <2>1, <2>3 DEF Encode!NothingReady, Encode!PacketReady
      <4>2. eDelay \in 0..EncodeDelay /\ EncodeDelay \in Nat
        BY <1>1, CodecAssumption DEF EncodeTypeInv
      <4>. QED  BY <1>1, <4>1, <4>2
    <3>2. EncodeTypeInv' /\ EncodePhaseInv'
      BY <1>1, <2>1, <2>3, <3>1 DEF EncodeTypeInv, EncodePhaseInv
    <3>3. EncodeQueueInv' /\ EncodeWrittenInv'
      BY <1>1, <1>2, <2>1, <3>1, EncodeStays
    <3>4. EncodeOrderInv'
      BY <1>1, <2>1, <3>1, <3>3 DEF EncodeOrderInv
    <3>. QED  BY <1>1, <3>2, <3>4 DEF EncodeInv
  <2>. QED  BY <2>2, <2>3
<1>. QED  BY <1>5, <1>6, <1>7, <1>8

LEMMA EncodeStep == EncodeInv /\ [Encode!Next]_encodeVars => EncodeInv'
<1>. SUFFICES ASSUME EncodeInv, [Encode!Next]_encodeVars PROVE EncodeInv'
  OBVIOUS
<1>1. CASE UNCHANGED encodeVars
  <2>1. EncodeQueueInv' = EncodeQueueInv /\ EncodeWrittenInv' = EncodeWrittenInv
    <3>1. EncodeDone' = EncodeDone /\ EncodeHanded' = EncodeHanded
      BY <1>1 DEF encodeVars, EncodeHanded, EncodeDone, EncodeSent
    <3>. QED  BY <1>1, <3>1 DEF encodeVars, EncodeQueueInv, EncodeWrittenInv
  <2>2. EncodeOrderInv'
    BY <1>1, <2>1 DEF encodeVars, EncodeInv, EncodeOrderInv
  <2>. QED
    BY <1>1, <2>2 DEF encodeVars, EncodeInv, EncodeTypeInv, EncodePhaseInv, EncodeHeldInv
<1>2. CASE Encode!Next
  BY <1>2, EncodeSetupStep, EncodeFrameStep, EncodeOneJpeg, EncodePacketStep DEF Encode!Next
<1>. QED  BY <1>1, <1>2

LEMMA EncodeSaves == EncodeInv => Encode!EveryFrameEncoded /\ Encode!ReleasesAll
<1>. SUFFICES ASSUME EncodeInv PROVE Encode!EveryFrameEncoded /\ Encode!ReleasesAll
  OBVIOUS
<1>1. DOMAIN eWritten = 1..Len(eWritten)
  BY LenProperties DEF EncodeInv, EncodeTypeInv
<1>2. ASSUME eStyle = "video"
      PROVE  /\ \A k \in DOMAIN eWritten : eWritten[k] \in 1..count
             /\ \A j, k \in DOMAIN eWritten :
                  j < k => eWritten[j] < eWritten[k] \/ eWritten[j] = eWritten[k] + 1
  BY <1>1, <1>2 DEF EncodeInv, EncodeOrderInv
<1>3. ASSUME eStyle = "video", ePc = "exit", eStatus = 0, ~broken
      PROVE  {eWritten[k] : k \in DOMAIN eWritten} = 1..Frames
  <2>1. eQueue = <<>> /\ count = Frames /\ EncodeQueueInv /\ EncodeWrittenInv /\ count \in Nat
    BY <1>3 DEF EncodeInv, EncodeTypeInv, EncodePhaseInv, EncodeOrderInv
  <2>2. Len(eQueue) = 0
    BY <2>1
  <2>3. EncodeDone = Frames /\ ~overtaken
    BY <1>3, <2>1, <2>2 DEF EncodeQueueInv, EncodeDone, EncodeSent
  <2>4. EncodeHanded = 1..Frames
    BY <2>3 DEF EncodeHanded
  <2>. QED  BY <1>1, <1>3, <2>1, <2>4 DEF EncodeWrittenInv
<1>4. Encode!ReleasesAll
  BY DEF EncodeInv, EncodeHeldInv, Encode!ReleasesAll
<1>. QED  BY <1>2, <1>3, <1>4 DEF Encode!EveryFrameEncoded

-----------------------------------------------------------------------------
(* The least and the greatest element of a set of numbers.                 *)
LEMMA LeastExists ==
  ASSUME NEW S \in SUBSET Nat, S # {} PROVE \E n \in S : \A m \in S : n <= m
<1>1. \E n \in S : \A m \in S : ~ (<<m, n>> \in OpToRel(<, Nat))
  BY WFMin, NatLessThanWellFounded
<1>2. ASSUME NEW n \in S, NEW m \in S, ~ (<<m, n>> \in OpToRel(<, Nat)) PROVE n <= m
  BY <1>2 DEF OpToRel
<1>. QED  BY <1>1, <1>2

LEMMA GreatestExists ==
  ASSUME NEW n \in Nat, NEW S \in SUBSET (0..n), S # {} PROVE \E i \in S : \A j \in S : j <= i
<1>. DEFINE T == {m \in Nat : n - m \in S}
<1>1. T # {}
  <2>1. PICK i \in S : TRUE
    OBVIOUS
  <2>2. n - i \in T
    BY <2>1
  <2>. QED  BY <2>2
<1>2. PICK m \in T : \A l \in T : m <= l
  BY <1>1, LeastExists
<1>3. ASSUME NEW j \in S PROVE j <= n - m
  <2>1. j \in 0..n
    OBVIOUS
  <2>2. n - j \in Nat /\ n - (n - j) = j
    BY <2>1
  <2>3. n - j \in T
    BY <2>2
  <2>4. m <= n - j
    BY <1>2, <2>3
  <2>. QED  BY <2>1, <2>4
<1>. QED  BY <1>2, <1>3

(* A definition by recursion is good if the argument gets smaller: from x  *)
(* in D, unless it is in stop, the function goes on with go[x] and does    *)
(* g[x] with what it gets.                                                 *)
IsRecursion(D, T, stop, base, go, g, m, B) ==
  /\ stop \in SUBSET D /\ base \in [D -> T] /\ go \in [D -> D] /\ g \in [D -> [T -> T]]
  /\ B \in Nat /\ m \in [D -> 0..B]
  /\ \A x \in D \ stop : m[go[x]] < m[x]

LEMMA RecursionExists ==
  ASSUME NEW D, NEW T, NEW stop, NEW base, NEW go, NEW g, NEW m, NEW B,
         IsRecursion(D, T, stop, base, go, g, m, B)
  PROVE  \E f \in [D -> T] : \A x \in D : f[x] = IF x \in stop THEN base[x] ELSE g[x][f[go[x]]]
<1>0. /\ stop \in SUBSET D /\ base \in [D -> T] /\ go \in [D -> D] /\ g \in [D -> [T -> T]]
      /\ B \in Nat /\ m \in [D -> 0..B]
      /\ \A x \in D \ stop : m[go[x]] < m[x]
  BY DEF IsRecursion
<1>. DEFINE Rec(f, x) == IF x \in stop THEN base[x] ELSE g[x][f[go[x]]]
            Good(M) == \E f \in [D -> T] : \A x \in D : m[x] < M => f[x] = Rec(f, x)
            Bad == {M \in Nat : ~Good(M)}
<1>1. Bad \in SUBSET Nat /\ \A M \in Nat : M \in Bad \/ Good(M)
  OBVIOUS
<1>2. \A M \in Bad : ~Good(M)
  OBVIOUS
<1>. HIDE DEF Bad, Good
<1>3. \A x \in D : m[x] \in Nat /\ m[x] < B + 1
  BY <1>0
<1>4. Good(0)
  <2>1. \A x \in D : ~(m[x] < 0)
    BY <1>3
  <2>. HIDE DEF Rec
  <2>. QED  BY <1>0, <2>1, Zenon DEF Good
<1>5. ASSUME NEW M \in Nat \ {0}, Good(M - 1) PROVE Good(M)
  <2>1. PICK f \in [D -> T] : \A x \in D : m[x] < M - 1 => f[x] = Rec(f, x)
    BY <1>5 DEF Good
  <2>. DEFINE f2 == [x \in D |-> Rec(f, x)]
  <2>2. f2 \in [D -> T]
    BY <1>0
  <2>3. ASSUME NEW x \in D, m[x] < M PROVE f2[x] = Rec(f2, x)
    <3>1. CASE x \in stop
      BY <3>1
    <3>2. CASE x \notin stop
      <4>1. go[x] \in D /\ m[go[x]] < M - 1
        BY <1>0, <1>3, <2>3, <3>2
      <4>2. f[go[x]] = f2[go[x]]
        BY <2>1, <4>1
      <4>. QED  BY <3>2, <4>2
    <3>. QED  BY <3>1, <3>2
  <2>. HIDE DEF f2, Rec
  <2>. QED  BY <2>2, <2>3 DEF Good
<1>6. Bad = {}
  <2>. SUFFICES ASSUME Bad # {} PROVE FALSE
    OBVIOUS
  <2>1. PICK M \in Bad : \A L \in Bad : M <= L
    BY <1>1, LeastExists
  <2>2. M \in Nat \ {0} /\ M - 1 \in Nat /\ ~(M <= M - 1)
    BY <1>1, <1>2, <1>4
  <2>. QED  BY <1>1, <1>2, <1>5, <2>1, <2>2
<1>7. Good(B + 1)
  BY <1>0, <1>1, <1>6
<1>. QED  BY <1>3, <1>7 DEF Good

(* A loop: the function is called again with go[x], as long as x is in     *)
(* goes.  What holds at every call and gives Q at the last one gives Q.    *)
IsLoop(D, T, goes, out, go, m, B) ==
  /\ goes \in SUBSET D /\ out \in [D -> T] /\ go \in [D -> D]
  /\ B \in Nat /\ m \in [D -> 0..B]
  /\ \A x \in goes : m[go[x]] < m[x]

Loops(f, D, goes, out, go) == \A x \in D : f[x] = IF x \in goes THEN f[go[x]] ELSE out[x]

LEMMA LoopExists ==
  ASSUME NEW D, NEW T, NEW goes, NEW out, NEW go, NEW m, NEW B,
         IsLoop(D, T, goes, out, go, m, B)
  PROVE  \E f \in [D -> T] : Loops(f, D, goes, out, go)
<1>. DEFINE g == [x \in D |-> [t \in T |-> t]]
            stop == D \ goes
<1>1. go \in [D -> D] /\ goes \in SUBSET D
  BY DEF IsLoop
<1>2. IsRecursion(D, T, stop, out, go, g, m, B)
  BY DEF IsLoop, IsRecursion
<1>3. \A x \in D, t \in T : g[x][t] = t
  OBVIOUS
<1>. HIDE DEF g
<1>4. PICK f \in [D -> T] : \A x \in D : f[x] = IF x \in stop THEN out[x] ELSE g[x][f[go[x]]]
  <2>. HIDE DEF stop
  <2>. QED  BY <1>2, RecursionExists
<1>5. \A x \in D : f[go[x]] \in T
  BY <1>1
<1>. QED  BY <1>3, <1>4, <1>5 DEF Loops

Carries(D, goes, out, go, P, Q) ==
  /\ P \in SUBSET D
  /\ \A x \in P \cap goes : go[x] \in P
  /\ \A x \in P \ goes : out[x] \in Q

LEMMA LoopRule ==
  ASSUME NEW D, NEW T, NEW goes, NEW out, NEW go, NEW m, NEW B,
         IsLoop(D, T, goes, out, go, m, B),
         NEW f, Loops(f, D, goes, out, go),
         NEW P, NEW Q, Carries(D, goes, out, go, P, Q)
  PROVE  \A x \in P : f[x] \in Q
<1>. DEFINE Bad == {M \in Nat : \E x \in P : m[x] = M /\ f[x] \notin Q}
<1>0. /\ m \in [D -> 0..B] /\ B \in Nat /\ P \in SUBSET D
      /\ \A x \in goes : m[go[x]] < m[x]
  BY DEF IsLoop, Carries
<1>1. Bad = {}
  <2>. SUFFICES ASSUME Bad # {} PROVE FALSE
    OBVIOUS
  <2>1. PICK M \in Bad : \A L \in Bad : M <= L
    BY LeastExists
  <2>2. PICK x \in P : m[x] = M /\ f[x] \notin Q
    OBVIOUS
  <2>3. x \in goes
    BY <1>0, <2>2 DEF Loops, Carries
  <2>4. go[x] \in P /\ f[go[x]] \notin Q /\ m[go[x]] \in Nat /\ m[x] \in Nat
    BY <1>0, <2>2, <2>3 DEF Loops, Carries
  <2>5. m[go[x]] \in Bad
    BY <2>4
  <2>6. m[go[x]] < m[x]
    BY <1>0, <2>3
  <2>. QED  BY <2>1, <2>2, <2>4, <2>5, <2>6
<1>2. \A x \in P : m[x] \in Nat
  BY <1>0
<1>. QED  BY <1>1, <1>2

-----------------------------------------------------------------------------
(* ArrayMinHeap.  HeapArrays(n) are the arrays of n numbers.               *)
HeapArrays(n) == [0..n - 1 -> Numbers]

LEMMA EndIs == ASSUME NEW n \in Nat, NEW h \in HeapArrays(n) PROVE Object!End(h) = n - 1
<1>1. DOMAIN h = 0..n - 1
  BY DEF HeapArrays
<1>2. Cardinality(0..n - 1) = n
  BY FS_Interval
<1>3. Object!Cardinality(DOMAIN h) = Cardinality(DOMAIN h)
  BY DEF Object!Cardinality, Cardinality
<1>. QED  BY <1>1, <1>2, <1>3 DEF Object!End

LEMMA FatherIs ==
  ASSUME NEW k \in Nat
  PROVE  /\ Object!Father(k) \in Nat /\ Object!Father(k) <= k
         /\ k # 0 => /\ Object!Father(k) < k
                     /\ k = 2 * Object!Father(k) + 1 \/ k = 2 * Object!Father(k) + 2
         /\ k = 0 => Object!Father(k) = 0
BY DEF Object!Father

(* Both loops swap: an array keeps its numbers.                            *)
LEMMA SwappedIs ==
  ASSUME NEW n \in Nat, NEW h \in HeapArrays(n), NEW i \in 0..n - 1, NEW j \in 0..n - 1
  PROVE  /\ Object!Swapped(h, i, j) \in HeapArrays(n)
         /\ \A k \in 0..n - 1 :
              Object!Swapped(h, i, j)[k] = IF k = i THEN h[j] ELSE IF k = j THEN h[i] ELSE h[k]
BY DEF HeapArrays, Object!Swapped

(* Where the number v is.                                                  *)
Places(h, v) == {k \in DOMAIN h : h[k] = v}

LEMMA CountIs ==
  ASSUME NEW n \in Nat, NEW h \in HeapArrays(n)
  PROVE  /\ Object!Count(h) \in [Numbers -> Nat]
         /\ \A v \in Numbers : /\ IsFiniteSet(Places(h, v))
                               /\ Object!Count(h)[v] = Cardinality(Places(h, v))
<1>1. IsFiniteSet(0..n - 1) /\ DOMAIN h = 0..n - 1
  BY FS_Interval DEF HeapArrays
<1>2. ASSUME NEW v \in Numbers
      PROVE  /\ IsFiniteSet(Places(h, v)) /\ Cardinality(Places(h, v)) \in Nat
             /\ Object!Count(h)[v] = Cardinality(Places(h, v))
  <2>1. IsFiniteSet(Places(h, v))
    BY <1>1, FS_Subset DEF Places
  <2>2. Object!Cardinality(Places(h, v)) = Cardinality(Places(h, v))
    BY DEF Object!Cardinality, Cardinality
  <2>. QED  BY <2>1, <2>2, FS_CardinalityType DEF Object!Count, Places
<1>. QED  BY <1>2 DEF Object!Count

LEMMA SwappedCounts ==
  ASSUME NEW n \in Nat, NEW h \in HeapArrays(n), NEW i \in 0..n - 1, NEW j \in 0..n - 1
  PROVE  Object!Count(Object!Swapped(h, i, j)) = Object!Count(h)
<1>. DEFINE g == Object!Swapped(h, i, j)
            other == [k \in 0..n - 1 |-> IF k = i THEN j ELSE IF k = j THEN i ELSE k]
<1>1. g \in HeapArrays(n) /\ DOMAIN h = 0..n - 1 /\ DOMAIN g = 0..n - 1
  BY SwappedIs DEF HeapArrays
<1>2. other \in [0..n - 1 -> 0..n - 1]
  OBVIOUS
<1>3. \A k \in 0..n - 1 : other[other[k]] = k /\ g[other[k]] = h[k] /\ h[other[k]] = g[k]
  <2>1. \A k \in 0..n - 1 : g[k] = IF k = i THEN h[j] ELSE IF k = j THEN h[i] ELSE h[k]
    BY SwappedIs
  <2>2. \A k \in 0..n - 1 : other[k] = IF k = i THEN j ELSE IF k = j THEN i ELSE k
    OBVIOUS
  <2>. HIDE DEF g, other
  <2>. QED  BY <1>2, <2>1, <2>2
<1>. HIDE DEF g, other
<1>4. ASSUME NEW v \in Numbers PROVE Cardinality(Places(g, v)) = Cardinality(Places(h, v))
  <2>. DEFINE f == [k \in Places(h, v) |-> other[k]]
  <2>1. f \in [Places(h, v) -> Places(g, v)]
    BY <1>1, <1>2, <1>3 DEF Places
  <2>2. \A k, l \in Places(h, v) : f[k] = f[l] => k = l
    BY <1>1, <1>3 DEF Places
  <2>3. \A k \in Places(g, v) : other[k] \in Places(h, v) /\ f[other[k]] = k
    BY <1>1, <1>2, <1>3 DEF Places
  <2>4. f \in Bijection(Places(h, v), Places(g, v))
    <3>. HIDE DEF f
    <3>. QED  BY <2>1, <2>2, <2>3 DEF Bijection, Injection, Surjection, IsInjective
  <2>. QED  BY <1>1, <2>4, CountIs, FS_Bijection DEF ExistsBijection
<1>5. Object!Count(g) \in [Numbers -> Nat] /\ Object!Count(h) \in [Numbers -> Nat]
  BY <1>1, CountIs
<1>6. \A v \in Numbers : Object!Count(g)[v] = Object!Count(h)[v]
  BY <1>1, <1>4, CountIs
<1>. QED  BY <1>5, <1>6 DEF g

(* The heap from place i on, and a heap but for the numbers around j.      *)
HeapFrom(h, i, n) ==
  \A k \in 1..n - 1 : Object!Father(k) >= i => h[Object!Father(k)] <= h[k]

HeapBut(h, i, j, n) ==
  /\ \A k \in 1..n - 1 :
       Object!Father(k) >= i /\ Object!Father(k) # j => h[Object!Father(k)] <= h[k]
  /\ \A k \in 1..n - 1 :
       Object!Father(k) = j /\ j # 0 /\ Object!Father(j) >= i => h[Object!Father(j)] <= h[k]

HeapUnder(h, j, n) ==
  /\ \A k \in 1..n - 1 : k # j => h[Object!Father(k)] <= h[k]
  /\ \A k \in 1..n - 1 : Object!Father(k) = j /\ j # 0 => h[Object!Father(j)] <= h[k]

LEMMA RiseStep ==
  ASSUME NEW n \in Nat, NEW h \in HeapArrays(n), NEW j \in 0..n - 1, HeapUnder(h, j, n),
         NEW f, f = Object!Father(j), h[j] < h[f]
  PROVE  j # 0 /\ f \in 0..j - 1 /\ HeapUnder(Object!Swapped(h, j, f), f, n)
<1>. DEFINE g == Object!Swapped(h, j, f)
<1>1. \A k \in 0..n - 1 : h[k] \in Int
  BY ObjectsAssumption DEF HeapArrays
<1>2. j # 0 /\ f \in 0..n - 1 /\ f < j
  BY <1>1, FatherIs
<1>3. \A k \in 0..n - 1 : g[k] = IF k = j THEN h[f] ELSE IF k = f THEN h[j] ELSE h[k]
  <2>1. f \in 0..n - 1
    BY <1>2
  <2>. QED  BY <2>1, SwappedIs
<1>4. \A k \in 1..n - 1 : Object!Father(k) \in 0..n - 1 /\ Object!Father(k) < k
  BY FatherIs
<1>. HIDE DEF g
<1>5. h[j] < h[f] /\ f = Object!Father(j) /\ (f # 0 => h[Object!Father(f)] <= h[f])
  BY <1>2 DEF HeapUnder
<1>6. ASSUME NEW k \in 1..n - 1, k # f PROVE g[Object!Father(k)] <= g[k]
  <2>1. CASE k = j
    <3>1. g[f] = h[j] /\ g[j] = h[f]
      BY <1>2, <1>3
    <3>2. h[j] \in Int /\ h[f] \in Int /\ h[j] < h[f]
      BY <1>1, <1>2, <1>5
    <3>3. Object!Father(k) = f
      BY <1>5, <2>1
    <3>4. g[Object!Father(k)] = h[j] /\ g[k] = h[f]
      BY <2>1, <3>1, <3>3
    <3>. QED  BY <3>2, <3>4
  <2>2. CASE k # j /\ Object!Father(k) = j
    <3>1. h[Object!Father(j)] <= h[k]
      BY <1>2, <2>2 DEF HeapUnder
    <3>2. g[j] = h[f] /\ g[k] = h[k]
      BY <1>2, <1>3, <1>6, <2>2
    <3>. QED  BY <1>5, <2>2, <3>1, <3>2
  <2>3. CASE k # j /\ Object!Father(k) = f
    BY <1>1, <1>2, <1>3, <1>5, <2>3 DEF HeapUnder
  <2>4. CASE k # j /\ Object!Father(k) \notin {j, f}
    BY <1>1, <1>2, <1>3, <1>4, <1>6, <2>4 DEF HeapUnder
  <2>. QED  BY <2>1, <2>2, <2>3, <2>4
<1>7. ASSUME NEW k \in 1..n - 1, Object!Father(k) = f, f # 0 PROVE g[Object!Father(f)] <= g[k]
  <2>1. f \in 1..n - 1
    BY <1>2, <1>7
  <2>2. Object!Father(f) \in 0..n - 1 /\ Object!Father(f) < f
    BY <1>4, <2>1
  <2>3. g[Object!Father(f)] = h[Object!Father(f)] /\ h[Object!Father(f)] <= h[f]
    BY <1>2, <1>3, <1>5, <1>7, <2>2
  <2>4. CASE k = j
    BY <1>2, <1>3, <2>3, <2>4
  <2>5. CASE k # j
    <3>1. h[f] <= h[k] /\ g[k] = h[k]
      BY <1>3, <1>4, <1>7, <2>5 DEF HeapUnder
    <3>. QED  BY <1>1, <1>2, <2>2, <2>3, <3>1
  <2>. QED  BY <2>4, <2>5
<1>. QED  BY <1>2, <1>6, <1>7 DEF HeapUnder, g

(* Smaller picks a child that is not greater than the other one.           *)
SmallerIs(h, j, n) ==
  LET c == Object!Smaller(h, j)
  IN  /\ c \in 1..n - 1 /\ Object!Father(c) = j
      /\ \A k \in 1..n - 1 : Object!Father(k) = j => h[c] <= h[k]

LEMMA SmallerChild ==
  ASSUME NEW n \in Nat, NEW h \in HeapArrays(n), NEW j \in 0..n - 1, 2 * j + 1 <= n - 1
  PROVE  SmallerIs(h, j, n)
<1>1. \A k \in 0..n - 1 : h[k] \in Int
  BY ObjectsAssumption DEF HeapArrays
<1>2. Object!Father(2 * j + 1) = j /\ Object!Father(2 * j + 2) = j
  BY DEF Object!Father
<1>3. \A k \in 1..n - 1 : Object!Father(k) = j => k = 2 * j + 1 \/ k = 2 * j + 2
  BY FatherIs
<1>4. Object!End(h) = n - 1
  BY EndIs
<1>. QED  BY <1>1, <1>2, <1>3, <1>4 DEF Object!Smaller, SmallerIs

LEMMA SinkStep ==
  ASSUME NEW n \in Nat, NEW h \in HeapArrays(n), NEW i \in Nat, NEW j \in i..n - 1,
         HeapBut(h, i, j, n), NEW c, SmallerIs(h, j, n), c = Object!Smaller(h, j), h[c] < h[j]
  PROVE  c \in i..n - 1 /\ j < c /\ HeapBut(Object!Swapped(h, j, c), i, c, n)
<1>. DEFINE g == Object!Swapped(h, j, c)
<1>1. \A k \in 0..n - 1 : h[k] \in Int
  BY ObjectsAssumption DEF HeapArrays
<1>2. /\ c \in 1..n - 1 /\ Object!Father(c) = j /\ j \in 0..n - 1
      /\ \A k \in 1..n - 1 : Object!Father(k) = j => h[c] <= h[k]
  BY DEF SmallerIs
<1>3. j < c
  BY <1>2, FatherIs
<1>4. \A k \in 0..n - 1 : g[k] = IF k = j THEN h[c] ELSE IF k = c THEN h[j] ELSE h[k]
  <2>1. c \in 0..n - 1 /\ j \in 0..n - 1
    BY <1>2
  <2>. QED  BY <2>1, SwappedIs
<1>5. \A k \in 1..n - 1 : Object!Father(k) \in 0..n - 1 /\ Object!Father(k) < k
  BY FatherIs
<1>. HIDE DEF g
<1>6. ASSUME NEW k \in 1..n - 1, Object!Father(k) >= i, Object!Father(k) # c
      PROVE  g[Object!Father(k)] <= g[k]
  <2>1. CASE Object!Father(k) = j
    BY <1>1, <1>2, <1>3, <1>4, <1>5, <2>1
  <2>2. CASE k = j
    <3>1. g[j] = h[c] /\ g[Object!Father(j)] = h[Object!Father(j)] /\ j # 0
      BY <1>4, <1>5, <1>6, <2>2
    <3>2. h[Object!Father(j)] <= h[c]
      BY <1>2, <1>6, <2>2, <3>1 DEF HeapBut
    <3>. QED  BY <2>2, <3>1, <3>2
  <2>3. CASE Object!Father(k) # j /\ k # j
    <3>1. k # c
      BY <1>2, <2>3
    <3>2. g[k] = h[k] /\ g[Object!Father(k)] = h[Object!Father(k)]
      BY <1>4, <1>5, <1>6, <2>3, <3>1
    <3>. QED  BY <1>6, <2>3, <3>2 DEF HeapBut
  <2>. QED  BY <2>1, <2>2, <2>3
<1>7. ASSUME NEW k \in 1..n - 1, Object!Father(k) = c PROVE g[Object!Father(c)] <= g[k]
  <2>1. k # j /\ k # c
    BY <1>3, <1>5, <1>7
  <2>2. g[k] = h[k] /\ g[Object!Father(c)] = h[c]
    BY <1>2, <1>4, <2>1
  <2>3. h[c] <= h[k]
    BY <1>2, <1>3, <1>7 DEF HeapBut
  <2>. QED  BY <2>2, <2>3
<1>. QED  BY <1>2, <1>3, <1>6, <1>7 DEF HeapBut, g

(* The calls of the two loops: an array of n numbers and a place in it.    *)
HeapCalls(n) == HeapArrays(n) \X (0..n - 1)

LEMMA CallsAre ==
  ASSUME NEW n \in Nat, NEW h \in HeapArrays(n) PROVE Object!Calls(h) = HeapCalls(n)
<1>1. DOMAIN h = 0..n - 1
  BY DEF HeapArrays
<1>. QED  BY <1>1 DEF Object!Calls, HeapCalls, HeapArrays

(* HeapifyUp as a loop.                                                    *)
Rises(x) == x[1][x[2]] < x[1][Object!Father(x[2])]
RiseCall(x) == <<Object!Swapped(x[1], x[2], Object!Father(x[2])), Object!Father(x[2])>>
UpStep(C, f) == [x \in C |-> IF Rises(x) THEN f[RiseCall(x)] ELSE x[1]]
Upwards(C) == CHOOSE f : f = UpStep(C, f)

LEMMA HeapifyUpIsUpwards ==
  ASSUME NEW h, NEW i PROVE Object!HeapifyUp(h, i) = Upwards(Object!Calls(h))[<<h, i>>]
BY DEF Object!HeapifyUp, Upwards, UpStep, Rises, RiseCall

(* HeapifyDown as a loop.                                                  *)
Sinks(x) ==
  2 * x[2] + 1 <= Object!End(x[1]) /\ x[1][Object!Smaller(x[1], x[2])] < x[1][x[2]]
SinkCall(x) == <<Object!Swapped(x[1], x[2], Object!Smaller(x[1], x[2])), Object!Smaller(x[1], x[2])>>
DownStep(C, f) == [x \in C |-> IF Sinks(x) THEN f[SinkCall(x)] ELSE x[1]]
Downwards(C) == CHOOSE f : f = DownStep(C, f)

LEMMA HeapifyDownIsDownwards ==
  ASSUME NEW h, NEW i PROVE Object!HeapifyDown(h, i) = Downwards(Object!Calls(h))[<<h, i>>]
BY DEF Object!HeapifyDown, Downwards, DownStep, Sinks, SinkCall

(* A heap of the numbers that h has.                                       *)
HeapOf(h, i, n) ==
  {g \in HeapArrays(n) : Object!Count(g) = Object!Count(h) /\ HeapFrom(g, i, n)}

(* From an array that is a heap but for the number at i, HeapifyUp makes a *)
(* heap of the same numbers.                                               *)
LEMMA HeapifyUpIs ==
  ASSUME NEW n \in Nat, NEW h \in HeapArrays(n), NEW i \in 0..n - 1, HeapUnder(h, i, n)
  PROVE  Object!HeapifyUp(h, i) \in HeapOf(h, 0, n)
<1>. DEFINE C == HeapCalls(n)
            goes == {x \in C : Rises(x)}
            out == [x \in C |-> x[1]]
            go == [x \in C |-> IF Rises(x) THEN RiseCall(x) ELSE x]
            m == [x \in C |-> x[2]]
            P == {x \in C : HeapUnder(x[1], x[2], n) /\ Object!Count(x[1]) = Object!Count(h)}
            Q == HeapOf(h, 0, n)
            S(f) == UpStep(C, f)
            up == Upwards(C)
<1>1. \A x \in C : x[1] \in HeapArrays(n) /\ x[2] \in 0..n - 1 /\ x = <<x[1], x[2]>>
  BY DEF HeapCalls
<1>2. \A g \in HeapArrays(n), j \in 0..n - 1 : <<g, j>> \in C
  BY DEF HeapCalls
<1>3. \A g \in HeapArrays(n), k \in 0..n - 1 : g[k] \in Int
  BY ObjectsAssumption DEF HeapArrays
<1>4. ASSUME NEW x \in C, Rises(x)
      PROVE  /\ RiseCall(x) \in C /\ RiseCall(x)[2] < x[2]
             /\ RiseCall(x)[1] = Object!Swapped(x[1], x[2], Object!Father(x[2]))
             /\ RiseCall(x)[2] = Object!Father(x[2])
  <2>. PICK g, j, f : g = x[1] /\ j = x[2] /\ f = Object!Father(j)
    OBVIOUS
  <2>1. g \in HeapArrays(n) /\ j \in 0..n - 1 /\ g[j] < g[f]
    BY <1>1, <1>4 DEF Rises
  <2>2. f \in 0..n - 1 /\ f < j
    BY <1>3, <2>1, FatherIs
  <2>3. Object!Swapped(g, j, f) \in HeapArrays(n)
    BY <2>1, <2>2, SwappedIs
  <2>4. RiseCall(x) = <<Object!Swapped(g, j, f), f>>
    BY DEF RiseCall
  <2>. QED  BY <1>2, <2>2, <2>3, <2>4
<1>. HIDE DEF C
<1>5. IsLoop(C, HeapArrays(n), goes, out, go, m, n)
  <2>1. out \in [C -> HeapArrays(n)] /\ m \in [C -> 0..n] /\ go \in [C -> C]
    BY <1>1, <1>4
  <2>2. \A x \in goes : m[go[x]] < m[x]
    BY <1>1, <1>4
  <2>. QED  BY <2>1, <2>2 DEF IsLoop
<1>6. up = S(up)
  <2>. HIDE DEF goes, out, go, m
  <2>1. PICK f \in [C -> HeapArrays(n)] : Loops(f, C, goes, out, go)
    BY <1>5, LoopExists
  <2>2. \A x \in C : f[x] = IF Rises(x) THEN f[RiseCall(x)] ELSE x[1]
    BY <2>1 DEF Loops, goes, out, go
  <2>3. f = S(f)
    BY <2>2 DEF UpStep
  <2>4. up = CHOOSE f2 : f2 = S(f2)
    BY DEF Upwards
  <2>. HIDE DEF S, up
  <2>. QED  BY <2>3, <2>4
<1>7. Loops(up, C, goes, out, go)
  <2>. HIDE DEF up
  <2>1. \A x \in C : up[x] = IF Rises(x) THEN up[RiseCall(x)] ELSE x[1]
    BY <1>6 DEF UpStep
  <2>. QED  BY <2>1 DEF Loops
<1>8. \A x \in P \cap goes : go[x] \in P
  <2>. SUFFICES ASSUME NEW x \in C, Rises(x), x \in P PROVE go[x] \in P
    OBVIOUS
  <2>. PICK g, j, f : g = x[1] /\ j = x[2] /\ f = Object!Father(j)
    OBVIOUS
  <2>1. g \in HeapArrays(n) /\ j \in 0..n - 1 /\ g[j] < g[f] /\ HeapUnder(g, j, n)
    BY <1>1 DEF Rises
  <2>2. f \in 0..j - 1 /\ HeapUnder(Object!Swapped(g, j, f), f, n)
    BY <2>1, RiseStep
  <2>3. f \in 0..n - 1
    BY <2>1, <2>2
  <2>4. Object!Count(Object!Swapped(g, j, f)) = Object!Count(g)
    BY <2>1, <2>3, SwappedCounts
  <2>5. go[x] = RiseCall(x) /\ go[x] \in C
    BY <1>4
  <2>6. go[x][1] = Object!Swapped(g, j, f) /\ go[x][2] = f
    BY <1>4, <2>5
  <2>. HIDE DEF go
  <2>. QED  BY <2>2, <2>4, <2>5, <2>6
<1>9. \A x \in P \ goes : out[x] \in Q
  <2>. SUFFICES ASSUME NEW x \in C, ~Rises(x), x \in P PROVE x[1] \in Q
    OBVIOUS
  <2>. PICK g, j, f : g = x[1] /\ j = x[2] /\ f = Object!Father(j)
    OBVIOUS
  <2>1. g \in HeapArrays(n) /\ j \in 0..n - 1 /\ ~(g[j] < g[f]) /\ HeapUnder(g, j, n)
    BY <1>1 DEF Rises
  <2>2. f \in 0..n - 1
    BY <2>1, FatherIs
  <2>3. g[f] <= g[j]
    BY <1>3, <2>1, <2>2
  <2>4. HeapFrom(g, 0, n)
    BY <2>1, <2>3 DEF HeapUnder, HeapFrom
  <2>. QED  BY <2>1, <2>4 DEF HeapOf
<1>10. <<h, i>> \in P
  BY <1>2
<1>11. \A x \in P : up[x] \in Q
  <2>. HIDE DEF goes, out, go, m, up, Q
  <2>1. P \in SUBSET C
    OBVIOUS
  <2>. HIDE DEF P
  <2>2. Carries(C, goes, out, go, P, Q)
    BY <1>8, <1>9, <2>1 DEF Carries
  <2>. QED  BY <1>5, <1>7, <2>2, LoopRule
<1>. QED  BY <1>10, <1>11, CallsAre, HeapifyUpIsUpwards DEF C

(* From an array that is a heap below i, HeapifyDown makes one from i on.  *)
LEMMA HeapifyDownIs ==
  ASSUME NEW n \in Nat, NEW h \in HeapArrays(n), NEW i \in 0..n - 1, HeapFrom(h, i + 1, n)
  PROVE  Object!HeapifyDown(h, i) \in HeapOf(h, i, n)
<1>. DEFINE C == HeapCalls(n)
            goes == {x \in C : Sinks(x)}
            out == [x \in C |-> x[1]]
            go == [x \in C |-> IF Sinks(x) THEN SinkCall(x) ELSE x]
            m == [x \in C |-> n - x[2]]
            P == {x \in C : /\ x[2] >= i /\ HeapBut(x[1], i, x[2], n)
                            /\ Object!Count(x[1]) = Object!Count(h)}
            Q == HeapOf(h, i, n)
            S(f) == DownStep(C, f)
            down == Downwards(C)
<1>1. \A x \in C : x[1] \in HeapArrays(n) /\ x[2] \in 0..n - 1 /\ x = <<x[1], x[2]>>
  BY DEF HeapCalls
<1>2. \A g \in HeapArrays(n), j \in 0..n - 1 : <<g, j>> \in C
  BY DEF HeapCalls
<1>3. \A g \in HeapArrays(n), k \in 0..n - 1 : g[k] \in Int
  BY ObjectsAssumption DEF HeapArrays
<1>4. ASSUME NEW x \in C, Sinks(x)
      PROVE  /\ SinkCall(x) \in C /\ SinkCall(x)[2] > x[2]
             /\ SinkCall(x)[1] = Object!Swapped(x[1], x[2], Object!Smaller(x[1], x[2]))
             /\ SinkCall(x)[2] = Object!Smaller(x[1], x[2])
             /\ SmallerIs(x[1], x[2], n)
  <2>. PICK g, j, c : g = x[1] /\ j = x[2] /\ c = Object!Smaller(g, j)
    OBVIOUS
  <2>1. g \in HeapArrays(n) /\ j \in 0..n - 1
    BY <1>1
  <2>2. 2 * j + 1 <= n - 1
    BY <1>4, <2>1, EndIs DEF Sinks
  <2>3. SmallerIs(g, j, n)
    BY <2>1, <2>2, SmallerChild
  <2>4. c \in 0..n - 1 /\ j < c
    <3>1. c \in 1..n - 1 /\ Object!Father(c) = j
      BY <2>3 DEF SmallerIs
    <3>2. c \in Nat /\ c # 0
      BY <3>1
    <3>3. j < c
      BY <3>1, <3>2, FatherIs
    <3>4. c \in 0..n - 1
      BY <3>1
    <3>. QED  BY <3>3, <3>4
  <2>5. Object!Swapped(g, j, c) \in HeapArrays(n)
    <3>1. c \in 0..n - 1 /\ j \in 0..n - 1 /\ g \in HeapArrays(n)
      BY <2>1, <2>4
    <3>. QED  BY <3>1, SwappedIs
  <2>6. SinkCall(x) = <<Object!Swapped(g, j, c), c>>
    BY DEF SinkCall
  <2>. QED  BY <1>2, <2>1, <2>3, <2>4, <2>5, <2>6
<1>. HIDE DEF C
<1>5. IsLoop(C, HeapArrays(n), goes, out, go, m, n)
  <2>1. out \in [C -> HeapArrays(n)] /\ m \in [C -> 0..n] /\ go \in [C -> C]
    BY <1>1, <1>4
  <2>2. ASSUME NEW x \in C, Sinks(x) PROVE m[go[x]] < m[x]
    <3>1. x[2] \in 0..n - 1 /\ SinkCall(x) \in C /\ SinkCall(x)[2] \in 0..n - 1 /\ SinkCall(x)[2] > x[2]
      BY <1>1, <1>4, <2>2
    <3>2. go[x] = SinkCall(x) /\ m[SinkCall(x)] = n - SinkCall(x)[2] /\ m[x] = n - x[2]
      BY <2>2, <3>1
    <3>. HIDE DEF go, m
    <3>. QED  BY <3>1, <3>2
  <2>. QED  BY <2>1, <2>2 DEF IsLoop
<1>6. down = S(down)
  <2>. HIDE DEF goes, out, go, m
  <2>1. PICK f \in [C -> HeapArrays(n)] : Loops(f, C, goes, out, go)
    BY <1>5, LoopExists
  <2>2. \A x \in C : f[x] = IF Sinks(x) THEN f[SinkCall(x)] ELSE x[1]
    BY <2>1 DEF Loops, goes, out, go
  <2>3. f = S(f)
    BY <2>2 DEF DownStep
  <2>4. down = CHOOSE f2 : f2 = S(f2)
    BY DEF Downwards
  <2>. HIDE DEF S, down
  <2>. QED  BY <2>3, <2>4
<1>7. Loops(down, C, goes, out, go)
  <2>. HIDE DEF down
  <2>1. \A x \in C : down[x] = IF Sinks(x) THEN down[SinkCall(x)] ELSE x[1]
    BY <1>6 DEF DownStep
  <2>. QED  BY <2>1 DEF Loops
<1>8. \A x \in P \cap goes : go[x] \in P
  <2>. SUFFICES ASSUME NEW x \in C, Sinks(x), x \in P PROVE go[x] \in P
    OBVIOUS
  <2>. PICK g, j, c : g = x[1] /\ j = x[2] /\ c = Object!Smaller(g, j)
    OBVIOUS
  <2>1. g \in HeapArrays(n) /\ j \in i..n - 1 /\ g[c] < g[j] /\ HeapBut(g, i, j, n)
    BY <1>1 DEF Sinks
  <2>2. SmallerIs(g, j, n) /\ i \in Nat
    BY <1>4
  <2>3. c \in i..n - 1 /\ HeapBut(Object!Swapped(g, j, c), i, c, n)
    BY <2>1, <2>2, SinkStep
  <2>4. c \in 0..n - 1 /\ j \in 0..n - 1 /\ c >= i
    BY <2>1, <2>3
  <2>5. Object!Count(Object!Swapped(g, j, c)) = Object!Count(g)
    BY <2>1, <2>4, SwappedCounts
  <2>6. go[x] = SinkCall(x) /\ go[x] \in C
    BY <1>4
  <2>7. go[x][1] = Object!Swapped(g, j, c) /\ go[x][2] = c
    BY <1>4, <2>6
  <2>. HIDE DEF go
  <2>. QED  BY <2>3, <2>4, <2>5, <2>6, <2>7
<1>9. \A x \in P \ goes : out[x] \in Q
  <2>. SUFFICES ASSUME NEW x \in C, ~Sinks(x), x \in P PROVE x[1] \in Q
    OBVIOUS
  <2>. PICK g, j : g = x[1] /\ j = x[2]
    OBVIOUS
  <2>1. g \in HeapArrays(n) /\ j \in i..n - 1 /\ j \in 0..n - 1 /\ HeapBut(g, i, j, n)
    BY <1>1
  <2>2. ASSUME NEW k \in 1..n - 1, Object!Father(k) = j PROVE g[j] <= g[k]
    <3>1. 2 * j + 1 <= n - 1
      BY <2>2, FatherIs
    <3>. PICK c : c = Object!Smaller(g, j)
      OBVIOUS
    <3>2. SmallerIs(g, j, n)
      BY <2>1, <3>1, SmallerChild
    <3>3. c \in 0..n - 1 /\ g[c] <= g[k]
      BY <2>2, <3>2 DEF SmallerIs
    <3>4. ~(g[c] < g[j])
      BY <2>1, <3>1, EndIs DEF Sinks
    <3>. QED  BY <1>3, <2>1, <3>3, <3>4
  <2>3. HeapFrom(g, i, n)
    BY <2>1, <2>2 DEF HeapBut, HeapFrom
  <2>. QED  BY <2>1, <2>3 DEF HeapOf
<1>10. <<h, i>> \in P
  <2>1. HeapBut(h, i, i, n)
    BY FatherIs DEF HeapFrom, HeapBut
  <2>. QED  BY <1>2, <2>1
<1>11. \A x \in P : down[x] \in Q
  <2>. HIDE DEF goes, out, go, m, down, Q
  <2>1. P \in SUBSET C
    OBVIOUS
  <2>. HIDE DEF P
  <2>2. Carries(C, goes, out, go, P, Q)
    BY <1>8, <1>9, <2>1 DEF Carries
  <2>. QED  BY <1>5, <1>7, <2>2, LoopRule
<1>. QED  BY <1>10, <1>11, CallsAre, HeapifyDownIsDownwards DEF C

(* The constructor. *)
BuildStep(h, f) ==
  [i \in 0..Object!End(h) + 1 |->
     IF i > Object!Father(Object!End(h)) THEN h ELSE Object!HeapifyDown(f[i + 1], i)]
Building(h) == CHOOSE f : f = BuildStep(h, f)

LEMMA BuildIsBuilding ==
  ASSUME NEW h PROVE Object!Build(h) = IF Object!End(h) < 0 THEN h ELSE Building(h)[0]
BY DEF Object!Build, Building, BuildStep

(* A table of arrays that are built from the end on. *)
Builds(w, h, n, last) ==
  \A i \in 0..n :
    /\ i > last => w[i] = h
    /\ i <= last /\ w[i + 1] \in HeapOf(h, i + 1, n) => w[i] = Object!HeapifyDown(w[i + 1], i)

IsLast(h, n, last) ==
  last \in 0..n - 1 /\ \A i \in 0..n : i > last => h \in HeapOf(h, i, n)

LEMMA BuildsHeaps ==
  ASSUME NEW n \in Nat, NEW h \in HeapArrays(n), NEW last, IsLast(h, n, last),
         NEW w, Builds(w, h, n, last)
  PROVE  \A i \in 0..n : w[i] \in HeapOf(h, i, n)
<1>. DEFINE Bad == {m \in 0..n : w[n - m] \notin HeapOf(h, n - m, n)}
<1>0. last \in 0..n - 1 /\ n \in 0..n /\ \A i \in 0..n : i > last => h \in HeapOf(h, i, n)
  BY DEF IsLast
<1>1. ASSUME NEW i \in 0..last, w[i + 1] \in HeapOf(h, i + 1, n) PROVE w[i] \in HeapOf(h, i, n)
  <2>1. i \in 0..n - 1 /\ i \in 0..n /\ i <= last
    BY <1>0
  <2>. PICK g : g = w[i + 1]
    OBVIOUS
  <2>2. w[i] = Object!HeapifyDown(g, i)
    BY <1>1, <2>1 DEF Builds
  <2>3. g \in HeapArrays(n) /\ HeapFrom(g, i + 1, n) /\ Object!Count(g) = Object!Count(h)
    BY <1>1 DEF HeapOf
  <2>4. Object!HeapifyDown(g, i) \in HeapOf(g, i, n)
    BY <2>1, <2>3, HeapifyDownIs
  <2>. QED  BY <2>2, <2>3, <2>4 DEF HeapOf
<1>2. Bad = {}
  <2>. SUFFICES ASSUME Bad # {} PROVE FALSE
    OBVIOUS
  <2>1. PICK m \in Bad : \A l \in Bad : m <= l
    <3>1. Bad \in SUBSET Nat
      OBVIOUS
    <3>. HIDE DEF Bad
    <3>. QED  BY <3>1, LeastExists
  <2>. PICK i : i = n - m
    OBVIOUS
  <2>2. m \in 0..n /\ i \in 0..n /\ w[i] \notin HeapOf(h, i, n)
    OBVIOUS
  <2>3. i <= last
    BY <1>0, <2>2 DEF Builds
  <2>4. m - 1 \in 0..n /\ n - (m - 1) = i + 1 /\ ~(m <= m - 1) /\ i \in 0..last
    BY <1>0, <2>2, <2>3
  <2>5. w[i + 1] \in HeapOf(h, i + 1, n)
    BY <2>1, <2>4
  <2>. QED  BY <1>1, <2>2, <2>4, <2>5
<1>. QED
  <2>1. ASSUME NEW i \in 0..n PROVE w[i] \in HeapOf(h, i, n)
    <3>1. n - i \in 0..n /\ n - (n - i) = i
      OBVIOUS
    <3>. QED  BY <1>2, <3>1
  <2>. QED  BY <2>1

(* The constructor makes a heap of any array.                              *)
LEMMA BuildIs ==
  ASSUME NEW n \in Nat, NEW h \in HeapArrays(n) PROVE Object!Build(h) \in HeapOf(h, 0, n)
<1>1. CASE n = 0
  BY <1>1, EndIs, BuildIsBuilding DEF HeapOf, HeapFrom
<1>2. CASE n # 0
  <2>. DEFINE last == Object!Father(n - 1)
              stop == {i \in 0..n : i > last}
              base == [i \in 0..n |-> h]
              go == [i \in 0..n |-> IF i > last THEN i ELSE i + 1]
              R(i, a) == IF i <= last /\ a \in HeapOf(h, i + 1, n) THEN Object!HeapifyDown(a, i) ELSE a
              g == [i \in 0..n |-> [a \in HeapArrays(n) |-> R(i, a)]]
              m == [i \in 0..n |-> n - i]
              S(f) == BuildStep(h, f)
              b == Building(h)
  <2>1. last \in 0..n - 1 /\ \A k \in 1..n - 1 : Object!Father(k) <= last
    BY <1>2 DEF Object!Father
  <2>2. \A f : S(f) = [i \in 0..n |-> IF i > last THEN h ELSE Object!HeapifyDown(f[i + 1], i)]
    BY EndIs DEF BuildStep
  <2>. HIDE DEF last
  <2>3. IsLast(h, n, last)
    <3>1. ASSUME NEW i \in 0..n, i > last PROVE h \in HeapOf(h, i, n)
      <4>1. \A k \in 1..n - 1 : ~(Object!Father(k) >= i)
        BY <2>1, <3>1, FatherIs
      <4>. QED  BY <4>1 DEF HeapOf, HeapFrom
    <3>. QED  BY <2>1, <3>1 DEF IsLast
  <2>4. ASSUME NEW i \in 0..n, NEW a \in HeapArrays(n) PROVE R(i, a) \in HeapArrays(n)
    <3>1. CASE i <= last /\ a \in HeapOf(h, i + 1, n)
      <4>1. i \in 0..n - 1 /\ HeapFrom(a, i + 1, n)
        BY <2>1, <3>1 DEF HeapOf
      <4>. QED  BY <3>1, <4>1, HeapifyDownIs DEF HeapOf
    <3>. QED  BY <3>1
  <2>. HIDE DEF R
  <2>5. PICK f \in [0..n -> HeapArrays(n)] :
          \A i \in 0..n : f[i] = IF i \in stop THEN base[i] ELSE g[i][f[go[i]]]
    <3>1. stop \in SUBSET (0..n) /\ base \in [0..n -> HeapArrays(n)] /\ m \in [0..n -> 0..n]
      OBVIOUS
    <3>2. go \in [0..n -> 0..n]
      BY <2>1
    <3>3. g \in [0..n -> [HeapArrays(n) -> HeapArrays(n)]]
      BY <2>4
    <3>4. \A i \in (0..n) \ stop : m[go[i]] < m[i]
      BY <2>1
    <3>. HIDE DEF stop, base, go, g, m
    <3>. PICK D, T : D = 0..n /\ T = HeapArrays(n)
      OBVIOUS
    <3>5. IsRecursion(D, T, stop, base, go, g, m, n)
      BY <3>1, <3>2, <3>3, <3>4 DEF IsRecursion
    <3>6. \E f \in [D -> T] : \A i \in D : f[i] = IF i \in stop THEN base[i] ELSE g[i][f[go[i]]]
      BY <3>5, RecursionExists
    <3>. QED  BY <3>6
  <2>6. \A i \in 0..n : i > last => f[i] = h
    BY <2>5
  <2>7. ASSUME NEW i \in 0..n, i <= last PROVE f[i] = R(i, f[i + 1]) /\ i + 1 \in 0..n
    <3>1. i \notin stop /\ go[i] = i + 1 /\ i + 1 \in 0..n
      BY <2>1, <2>7
    <3>2. f[i + 1] \in HeapArrays(n)
      BY <3>1
    <3>3. g[i][f[i + 1]] = R(i, f[i + 1])
      BY <3>2
    <3>. HIDE DEF stop, go, g
    <3>. QED  BY <2>5, <3>1, <3>3
  <2>8. Builds(f, h, n, last)
    BY <2>6, <2>7 DEF Builds, R
  <2>9. \A i \in 0..n : f[i] \in HeapOf(h, i, n)
    BY <2>3, <2>8, BuildsHeaps
  <2>10. f = S(f)
    <3>1. \A i \in 0..n : f[i] = IF i > last THEN h ELSE Object!HeapifyDown(f[i + 1], i)
      BY <2>1, <2>6, <2>7, <2>9 DEF R
    <3>. HIDE DEF S
    <3>. QED  BY <2>2, <3>1
  <2>11. b = CHOOSE f2 : f2 = S(f2)
    BY DEF Building
  <2>. HIDE DEF S, b
  <2>12. b = S(b)
    BY <2>10, <2>11
  <2>13. Builds(b, h, n, last)
    <3>1. \A i \in 0..n : b[i] = IF i > last THEN h ELSE Object!HeapifyDown(b[i + 1], i)
      BY <2>2, <2>12
    <3>. QED  BY <2>1, <3>1 DEF Builds
  <2>14. b[0] \in HeapOf(h, 0, n)
    BY <2>3, <2>13, BuildsHeaps
  <2>15. Object!Build(h) = b[0]
    BY <1>2, EndIs, BuildIsBuilding DEF b
  <2>. QED  BY <2>14, <2>15
<1>. QED  BY <1>1, <1>2

LEMMA MinIs ==
  ASSUME NEW S \in SUBSET Int, NEW x \in S, \A y \in S : x <= y PROVE Object!Min(S) = x
<1>. DEFINE P(z) == z \in S /\ \A y \in S : z <= y
<1>0. \A z \in S : z \in Int
  OBVIOUS
<1>1. ASSUME NEW z, P(z) PROVE z = x
  <2>1. z \in Int /\ x \in Int
    BY <1>0, <1>1
  <2>. QED  BY <1>1, <2>1
<1>2. Object!Min(S) = CHOOSE z : P(z)
  BY DEF Object!Min
<1>3. P(x)
  BY <1>0
<1>. HIDE DEF P
<1>. QED  BY <1>1, <1>2, <1>3

LEMMA MaxIs ==
  ASSUME NEW S \in SUBSET Int, NEW x \in S, \A y \in S : y <= x PROVE Object!Max(S) = x
<1>. DEFINE P(z) == z \in S /\ \A y \in S : z >= y
<1>0. \A z \in S : z \in Int
  OBVIOUS
<1>1. ASSUME NEW z, P(z) PROVE z = x
  <2>1. z \in Int /\ x \in Int
    BY <1>0, <1>1
  <2>. QED  BY <1>1, <2>1
<1>2. Object!Max(S) = CHOOSE z : P(z)
  BY DEF Object!Max
<1>3. P(x)
  BY <1>0
<1>. HIDE DEF P
<1>. QED  BY <1>1, <1>2, <1>3

(* The root is the least number. *)
LEMMA RootIsLeast ==
  ASSUME NEW n \in Nat \ {0}, NEW h \in HeapArrays(n), HeapFrom(h, 0, n)
  PROVE  Object!Least(Object!Count(h)) = h[0]
<1>. DEFINE c == Object!Count(h)
            S == {v \in DOMAIN c : c[v] > 0}
            Bad == {k \in 0..n - 1 : ~(h[0] <= h[k])}
<1>1. \A k \in 0..n - 1 : h[k] \in Numbers /\ h[k] \in Int
  BY ObjectsAssumption DEF HeapArrays
<1>2. Bad = {}
  <2>. SUFFICES ASSUME Bad # {} PROVE FALSE
    OBVIOUS
  <2>1. PICK k \in Bad : \A l \in Bad : k <= l
    <3>1. Bad \in SUBSET Nat
      OBVIOUS
    <3>. HIDE DEF Bad
    <3>. QED  BY <3>1, LeastExists
  <2>2. k \in 1..n - 1 /\ ~(h[0] <= h[k])
    BY <1>1
  <2>. PICK f : f = Object!Father(k)
    OBVIOUS
  <2>3. f \in 0..n - 1 /\ f < k
    BY <2>2, FatherIs
  <2>4. h[f] <= h[k]
    BY <2>2, <2>3 DEF HeapFrom
  <2>5. h[0] <= h[f]
    BY <2>1, <2>2, <2>3
  <2>. QED  BY <1>1, <2>2, <2>3, <2>4, <2>5
<1>3. 0 \in 0..n - 1 /\ DOMAIN h = 0..n - 1
  BY DEF HeapArrays
<1>4. c \in [Numbers -> Nat] /\ \A v \in Numbers : IsFiniteSet(Places(h, v)) /\ c[v] = Cardinality(Places(h, v))
  BY CountIs
<1>. HIDE DEF c
<1>5. c[h[0]] > 0
  <2>1. 0 \in Places(h, h[0])
    BY <1>3 DEF Places
  <2>2. Places(h, h[0]) # {}
    BY <2>1
  <2>3. Cardinality(Places(h, h[0])) # 0
    BY <1>1, <1>3, <1>4, <2>2, FS_EmptySet
  <2>. QED  BY <1>1, <1>3, <1>4, <2>3
<1>6. ASSUME NEW v \in S PROVE h[0] <= v
  <2>1. v \in Numbers /\ c[v] > 0
    BY <1>4
  <2>2. Places(h, v) # {}
    BY <1>4, <2>1, FS_EmptySet
  <2>3. PICK k \in 0..n - 1 : h[k] = v
    BY <1>3, <2>2 DEF Places
  <2>. QED  BY <1>2, <2>3
<1>7. S \in SUBSET Int /\ h[0] \in S
  BY <1>1, <1>3, <1>4, <1>5, ObjectsAssumption
<1>8. Object!Least(c) = Object!Min(S)
  BY DEF Object!Least
<1>. HIDE DEF S
<1>. QED  BY <1>6, <1>7, <1>8, MinIs DEF c

(* What add and remove hand to the loops.                                  *)
LEMMA PushedIs ==
  ASSUME NEW n \in Nat, NEW h \in HeapArrays(n), NEW v \in Numbers, HeapFrom(h, 0, n)
  PROVE  /\ Object!Pushed(h, v) \in HeapArrays(n + 1)
         /\ HeapUnder(Object!Pushed(h, v), n, n + 1)
         /\ Object!Count(Object!Pushed(h, v)) = [Object!Count(h) EXCEPT ![v] = @ + 1]
<1>. DEFINE g == Object!Pushed(h, v)
<1>1. g = [k \in 0..n |-> IF k = n THEN v ELSE h[k]]
  <2>1. Object!End(h) = n - 1
    BY EndIs
  <2>. QED  BY <2>1 DEF Object!Pushed
<1>2. g \in HeapArrays(n + 1) /\ \A k \in 0..n : g[k] = IF k = n THEN v ELSE h[k]
  BY <1>1 DEF HeapArrays
<1>3. DOMAIN g = 0..n /\ DOMAIN h = 0..n - 1
  BY <1>1 DEF HeapArrays
<1>. HIDE DEF g
<1>4. HeapUnder(g, n, n + 1)
  <2>1. ASSUME NEW k \in 1..n, k # n PROVE g[Object!Father(k)] <= g[k]
    <3>1. Object!Father(k) \in 0..n - 1 /\ k \in 1..n - 1 /\ Object!Father(k) >= 0
      BY <2>1, FatherIs
    <3>. QED  BY <1>2, <3>1 DEF HeapFrom
  <2>2. \A k \in 1..n : Object!Father(k) # n
    BY FatherIs
  <2>. QED  BY <2>1, <2>2 DEF HeapUnder
<1>5. /\ Object!Count(g) \in [Numbers -> Nat] /\ Object!Count(h) \in [Numbers -> Nat]
      /\ \A w \in Numbers : /\ IsFiniteSet(Places(g, w)) /\ Object!Count(g)[w] = Cardinality(Places(g, w))
                            /\ IsFiniteSet(Places(h, w)) /\ Object!Count(h)[w] = Cardinality(Places(h, w))
  BY <1>2, CountIs
<1>6. ASSUME NEW w \in Numbers
      PROVE Object!Count(g)[w] = IF w = v THEN Object!Count(h)[w] + 1 ELSE Object!Count(h)[w]
  <2>1. CASE w = v
    <3>1. Places(g, w) = Places(h, w) \cup {n} /\ n \notin Places(h, w)
      BY <1>2, <1>3, <2>1 DEF Places
    <3>. QED  BY <1>5, <2>1, <3>1, FS_AddElement
  <2>2. CASE w # v
    <3>1. Places(g, w) = Places(h, w)
      BY <1>2, <1>3, <2>2 DEF Places
    <3>. QED  BY <1>5, <2>2, <3>1
  <2>. QED  BY <2>1, <2>2
<1>. QED  BY <1>2, <1>4, <1>5, <1>6 DEF g

LEMMA PoppedIs ==
  ASSUME NEW n \in Nat \ {0}, NEW h \in HeapArrays(n), HeapFrom(h, 0, n)
  PROVE  LET g == Object!Popped([h EXCEPT ![0] = h[n - 1]])
         IN  /\ g \in HeapArrays(n - 1) /\ HeapFrom(g, 1, n - 1)
             /\ Object!Count(g) = [Object!Count(h) EXCEPT ![h[0]] = @ - 1]
<1>. DEFINE g == Object!Popped([h EXCEPT ![0] = h[n - 1]])
<1>0. h \in [0..n - 1 -> Numbers] /\ 0 \in 0..n - 1 /\ n - 1 \in 0..n - 1
  BY DEF HeapArrays
<1>1. /\ g \in [0..n - 2 -> Numbers]
      /\ \A k \in 0..n - 2 : g[k] = IF k = 0 THEN h[n - 1] ELSE h[k]
  <2>. DEFINE e == [h EXCEPT ![0] = h[n - 1]]
  <2>1. e \in HeapArrays(n) /\ n - 1 - 1 = n - 2
    BY <1>0 DEF HeapArrays
  <2>2. \A k \in 0..n - 2 : e[k] = IF k = 0 THEN h[n - 1] ELSE h[k]
    BY <1>0
  <2>3. \A k \in 0..n - 2 : e[k] \in Numbers
    BY <1>0, <2>2
  <2>. HIDE DEF e
  <2>4. Object!Popped(e) = [k \in 0..n - 2 |-> e[k]]
    BY <2>1, EndIs DEF Object!Popped
  <2>5. g = Object!Popped(e)
    BY DEF e
  <2>. HIDE DEF g
  <2>. QED  BY <2>2, <2>3, <2>4, <2>5
<1>2. g \in HeapArrays(n - 1) /\ \A k \in 0..n - 2 : g[k] = IF k = 0 THEN h[n - 1] ELSE h[k]
  <2>1. n - 1 - 1 = n - 2
    OBVIOUS
  <2>. QED  BY <1>1, <2>1 DEF HeapArrays
<1>3. DOMAIN g = 0..n - 2 /\ DOMAIN h = 0..n - 1 /\ h[0] \in Numbers /\ n - 1 \in Nat
  <2>. HIDE DEF g
  <2>. QED  BY <1>0, <1>1
<1>. HIDE DEF g
<1>4. HeapFrom(g, 1, n - 1)
  <2>1. ASSUME NEW k \in 1..n - 2, Object!Father(k) >= 1 PROVE g[Object!Father(k)] <= g[k]
    <3>1. Object!Father(k) \in 1..n - 2 /\ k \in 1..n - 1 /\ Object!Father(k) >= 0
      BY <2>1, FatherIs
    <3>. QED  BY <1>2, <3>1 DEF HeapFrom
  <2>. QED  BY <2>1 DEF HeapFrom
<1>5. /\ Object!Count(g) \in [Numbers -> Nat] /\ Object!Count(h) \in [Numbers -> Nat]
      /\ \A w \in Numbers : /\ IsFiniteSet(Places(g, w)) /\ Object!Count(g)[w] = Cardinality(Places(g, w))
                            /\ IsFiniteSet(Places(h, w)) /\ Object!Count(h)[w] = Cardinality(Places(h, w))
  BY <1>2, <1>3, CountIs
<1>6. ASSUME NEW w \in Numbers PROVE Cardinality(Places(g, w)) = Cardinality(Places(h, w) \ {0})
  <2>. DEFINE f == [k \in Places(g, w) |-> IF k = 0 THEN n - 1 ELSE k]
  <2>0. \A k \in Places(g, w) : k \in 0..n - 2 /\ g[k] = w
    BY <1>3 DEF Places
  <2>1. \A k \in Places(g, w) : f[k] \in 1..n - 1 /\ h[f[k]] = w
    <3>. SUFFICES ASSUME NEW k \in Places(g, w) PROVE f[k] \in 1..n - 1 /\ h[f[k]] = w
      OBVIOUS
    <3>1. CASE k = 0
      BY <1>2, <2>0, <3>1
    <3>2. CASE k # 0
      BY <1>2, <2>0, <3>2
    <3>. QED  BY <3>1, <3>2
  <2>2. f \in [Places(g, w) -> Places(h, w) \ {0}]
    <3>1. ASSUME NEW k \in Places(g, w) PROVE f[k] \in Places(h, w) \ {0}
      <4>. HIDE DEF f
      <4>. QED  BY <1>3, <2>1 DEF Places
    <3>. QED  BY <3>1
  <2>3. \A k, l \in Places(g, w) : f[k] = f[l] => k = l
    BY <1>3 DEF Places
  <2>4. ASSUME NEW k \in Places(h, w) \ {0} PROVE \E l \in Places(g, w) : f[l] = k
    <3>1. k \in 1..n - 1 /\ h[k] = w
      BY <1>3 DEF Places
    <3>2. CASE k = n - 1 /\ n - 1 > 0
      <4>2. 0 \in 0..n - 2 /\ g[0] = w
        BY <1>2, <3>1, <3>2
      <4>. QED  BY <1>3, <3>2, <4>2 DEF Places
    <3>3. CASE k # n - 1
      <4>1. k \in 0..n - 2 /\ g[k] = w /\ k # 0
        BY <1>2, <3>1, <3>3
      <4>. QED  BY <1>3, <4>1 DEF Places
    <3>. QED  BY <3>1, <3>2, <3>3
  <2>5. f \in Bijection(Places(g, w), Places(h, w) \ {0})
    <3>. HIDE DEF f
    <3>. QED  BY <2>2, <2>3, <2>4 DEF Bijection, Injection, Surjection, IsInjective
  <2>. QED  BY <1>5, <2>5, FS_Bijection DEF ExistsBijection
<1>7. ASSUME NEW w \in Numbers
      PROVE Object!Count(g)[w] = IF w = h[0] THEN Object!Count(h)[w] - 1 ELSE Object!Count(h)[w]
  <2>1. CASE w = h[0]
    <3>1. 0 \in Places(h, w)
      BY <1>3, <2>1 DEF Places
    <3>2. Cardinality(Places(h, w) \ {0}) = Cardinality(Places(h, w)) - 1
      BY <1>5, <3>1, FS_RemoveElement
    <3>. QED  BY <1>5, <1>6, <2>1, <3>2
  <2>2. CASE w # h[0]
    <3>1. Places(h, w) \ {0} = Places(h, w)
      BY <2>2 DEF Places
    <3>. QED  BY <1>5, <1>6, <2>2, <3>1
  <2>. QED  BY <2>1, <2>2
<1>8. Object!Count(g) = [Object!Count(h) EXCEPT ![h[0]] = @ - 1]
  BY <1>3, <1>5, <1>7
<1>. QED  BY <1>2, <1>4, <1>8 DEF g

(* The invariant of ArrayMinHeap.                                          *)
IsHeap(h, bag, n) == h \in HeapArrays(n) /\ HeapFrom(h, 0, n) /\ bag = Object!Count(h)

HeapInv == class = "heap" => \E n \in 0..MaxHeld : IsHeap(heap, ideal, n)

LEMMA PeekIs ==
  ASSUME NEW n \in Nat, NEW h, NEW bag, IsHeap(h, bag, n), Object!Peek(h, bag)
  PROVE  returned' = expected'
<1>1. Object!End(h) = n - 1
  BY EndIs DEF IsHeap
<1>2. CASE n = 0
  BY <1>1, <1>2 DEF Object!Peek, Object!Answer
<1>3. CASE n # 0
  <2>1. Object!Least(bag) = h[0]
    BY <1>3, RootIsLeast DEF IsHeap
  <2>. QED  BY <1>1, <1>3, <2>1 DEF Object!Peek, Object!Answer
<1>. QED  BY <1>2, <1>3

LEMMA HeapAddStep ==
  ASSUME HeapInv, NEW v \in Numbers, Object!HeapAdd(v) PROVE HeapInv' /\ returned' = expected'
<1>. USE ObjectsAssumption
<1>1. PICK n \in 0..MaxHeld : IsHeap(heap, ideal, n)
  BY DEF HeapInv, Object!HeapAdd
<1>2. heap \in HeapArrays(n) /\ HeapFrom(heap, 0, n) /\ ideal = Object!Count(heap) /\ n \in Nat
  BY <1>1 DEF IsHeap
<1>3. Object!End(heap) + 1 = n /\ n < MaxHeld
  BY <1>2, EndIs DEF Object!HeapAdd
<1>. PICK h : h = Object!Pushed(heap, v)
  OBVIOUS
<1>4. h \in HeapArrays(n + 1) /\ HeapUnder(h, n, n + 1) /\ Object!Count(h) = [ideal EXCEPT ![v] = @ + 1]
  BY <1>2, PushedIs
<1>5. n + 1 \in 0..MaxHeld /\ n \in 0..n + 1 - 1 /\ n + 1 \in Nat
  BY <1>2, <1>3
<1>. PICK m : m = n + 1
  OBVIOUS
<1>6. Object!HeapifyUp(h, n) \in HeapOf(h, 0, m)
  BY <1>4, <1>5, HeapifyUpIs
<1>7. heap' = Object!HeapifyUp(h, n) /\ ideal' = Object!Count(h)
  BY <1>3, <1>4 DEF Object!HeapAdd
<1>8. IsHeap(heap', ideal', m)
  BY <1>6, <1>7 DEF IsHeap, HeapOf
<1>9. Object!Peek(heap', ideal')
  BY DEF Object!HeapAdd
<1>. QED  BY <1>5, <1>8, <1>9, PeekIs DEF HeapInv

LEMMA HeapRemoveStep ==
  ASSUME HeapInv, Object!HeapRemove PROVE HeapInv' /\ returned' = expected'
<1>. USE ObjectsAssumption
<1>1. PICK n \in 0..MaxHeld : IsHeap(heap, ideal, n)
  BY DEF HeapInv, Object!HeapRemove
<1>2. heap \in HeapArrays(n) /\ HeapFrom(heap, 0, n) /\ ideal = Object!Count(heap) /\ n \in Nat
  BY <1>1 DEF IsHeap
<1>3. Object!End(heap) = n - 1 /\ n \in Nat \ {0}
  BY <1>2, EndIs DEF Object!HeapRemove
<1>. PICK h, m : h = Object!Popped([heap EXCEPT ![0] = heap[n - 1]]) /\ m = n - 1
  OBVIOUS
<1>4. m \in 0..MaxHeld /\ m \in Nat
  BY <1>3
<1>5. h \in HeapArrays(m) /\ HeapFrom(h, 1, m) /\ Object!Count(h) = [ideal EXCEPT ![heap[0]] = @ - 1]
  BY <1>2, <1>3, PoppedIs
<1>6. Object!Least(ideal) = heap[0]
  BY <1>2, <1>3, RootIsLeast
<1>7. /\ heap' = IF Object!End(h) < 0 THEN h ELSE Object!HeapifyDown(h, 0)
      /\ ideal' = Object!Count(h) /\ Object!Peek(heap', ideal')
  BY <1>3, <1>5, <1>6 DEF Object!HeapRemove
<1>8. Object!End(h) = m - 1
  BY <1>4, <1>5, EndIs
<1>9. IsHeap(heap', ideal', m)
  <2>1. CASE m = 0
    BY <1>5, <1>7, <1>8, <2>1 DEF IsHeap, HeapFrom
  <2>2. CASE m # 0
    <3>1. 0 \in 0..m - 1 /\ 0 + 1 = 1
      BY <1>4, <2>2
    <3>2. Object!HeapifyDown(h, 0) \in HeapOf(h, 0, m)
      BY <1>4, <1>5, <3>1, HeapifyDownIs
    <3>3. heap' = Object!HeapifyDown(h, 0)
      BY <1>4, <1>7, <1>8, <2>2
    <3>. QED  BY <1>7, <3>2, <3>3 DEF IsHeap, HeapOf
  <2>. QED  BY <2>1, <2>2
<1>. QED  BY <1>4, <1>7, <1>9, PeekIs DEF HeapInv

LEMMA HeapInit ==
  ASSUME Object!Init PROVE HeapInv /\ returned = expected
<1>1. PICK k \in (IF class = "heap" THEN 0..MaxHeld ELSE {0}) : \E data \in [0..k - 1 -> Numbers] :
        /\ heap = Object!Build(data)
        /\ ideal = CASE class = "heap" -> Object!Count(data)
                     [] class = "list" -> <<>>
                     [] OTHER -> {}
  BY DEF Object!Init
<1>2. ASSUME class = "heap" PROVE \E n \in 0..MaxHeld : IsHeap(heap, ideal, n)
  <2>1. k \in 0..MaxHeld /\ k \in Nat
    BY <1>2, ObjectsAssumption
  <2>2. PICK data \in HeapArrays(k) : heap = Object!Build(data) /\ ideal = Object!Count(data)
    BY <1>1, <1>2 DEF HeapArrays
  <2>3. heap \in HeapOf(data, 0, k)
    BY <2>1, <2>2, BuildIs
  <2>. QED  BY <2>1, <2>2, <2>3 DEF IsHeap, HeapOf
<1>. QED  BY <1>2 DEF HeapInv, Object!Init

(* MyCalendar2.                                                            *)
Hours(i) == i[1]..i[2] - 1

(* An interval is not empty, and the hours of the intervals are taken.     *)
CalendarInv ==
  class = "calendar" =>
    /\ \A i \in booked : i[1] \in Int /\ i[2] \in Int /\ i[1] < i[2]
    /\ ideal = UNION {Hours(i) : i \in booked}

LEMMA BookStep ==
  ASSUME CalendarInv, NEW s \in Int, NEW e \in Int, s < e, Object!Book(s, e)
  PROVE  CalendarInv' /\ returned' = expected'
<1>. DEFINE free == \A i \in booked : ~(i[1] < e /\ s < i[2])
<1>1. /\ class = "calendar" /\ class' = class
      /\ booked' = IF free THEN booked \cup {<<s, e>>} ELSE booked
      /\ returned' = Object!Bool(free) /\ expected' = Object!Bool(ideal \cap (s..e - 1) = {})
      /\ ideal' = IF expected' = 1 THEN ideal \cup (s..e - 1) ELSE ideal
  BY DEF Object!Book, Object!Answer
<1>2. /\ \A i \in booked : i[1] \in Int /\ i[2] \in Int /\ i[1] < i[2]
      /\ ideal = UNION {Hours(i) : i \in booked}
  BY <1>1 DEF CalendarInv
<1>3. ASSUME NEW i \in booked, i[1] < e, s < i[2] PROVE ideal \cap (s..e - 1) # {}
  <2>. DEFINE x == IF i[1] < s THEN s ELSE i[1]
  <2>1. i[1] \in Int /\ i[2] \in Int /\ i[1] < i[2]
    BY <1>2
  <2>2. x \in s..e - 1 /\ x \in Hours(i)
    BY <1>3, <2>1 DEF Hours
  <2>. HIDE DEF x
  <2>. QED  BY <1>2, <2>2
<1>4. ASSUME NEW x \in ideal \cap (s..e - 1) PROVE ~free
  <2>1. PICK i \in booked : x \in Hours(i)
    BY <1>2
  <2>2. i[1] \in Int /\ i[2] \in Int
    BY <1>2
  <2>3. i[1] < e /\ s < i[2]
    BY <2>1, <2>2 DEF Hours
  <2>. QED  BY <2>3
<1>5. free <=> ideal \cap (s..e - 1) = {}
  BY <1>3, <1>4
<1>6. returned' = expected'
  BY <1>1, <1>5 DEF Object!Bool
<1>7. CASE free
  <2>1. booked' = booked \cup {<<s, e>>} /\ ideal' = ideal \cup (s..e - 1)
    BY <1>1, <1>5, <1>7 DEF Object!Bool
  <2>2. Hours(<<s, e>>) = s..e - 1
    BY DEF Hours
  <2>3. ideal' = UNION {Hours(i) : i \in booked'}
    BY <1>2, <2>1, <2>2
  <2>4. \A i \in booked' : i[1] \in Int /\ i[2] \in Int /\ i[1] < i[2]
    BY <1>2, <2>1
  <2>. QED  BY <1>6, <2>3, <2>4 DEF CalendarInv
<1>8. CASE ~free
  <2>1. booked' = booked /\ ideal' = ideal
    BY <1>1, <1>5, <1>8 DEF Object!Bool
  <2>. QED  BY <1>1, <1>2, <1>6, <2>1 DEF CalendarInv
<1>. QED  BY <1>7, <1>8

-----------------------------------------------------------------------------
(* MyLinkedList: path[k] is the node that k steps lead to.                 *)
IsPath(nx, vl, id, path) ==
  LET L == Len(id)
  IN  /\ path \in [0..L -> 0..MaxHeld] /\ path[0] = 0
      /\ \A k, l \in 0..L : path[k] = path[l] => k = l
      /\ DOMAIN nx = {path[k] : k \in 0..L} /\ DOMAIN vl = DOMAIN nx
      /\ \A k \in 0..L - 1 : nx[path[k]] = path[k + 1]
      /\ nx[path[L]] = Object!None
      /\ \A k \in 1..L : vl[path[k]] = id[k]

ListInv ==
  class = "list" =>
    ideal \in Seq(Numbers) /\ \E path : IsPath(linked, val, ideal, path)

WalkStep(k, f) ==
  [i \in 0..k |-> IF i = 0 THEN 0
                  ELSE IF f[i - 1] = Object!None THEN Object!None ELSE linked[f[i - 1]]]
Walk(k) == CHOOSE f : f = WalkStep(k, f)

LEMMA NodeIsWalk == ASSUME NEW k PROVE Object!Node(k) = Walk(k)[k]
BY DEF Object!Node, Walk, WalkStep

(* The walk follows the path, and then finds null.                         *)
LEMMA NodeIs ==
  ASSUME ideal \in Seq(Numbers), NEW path, IsPath(linked, val, ideal, path), NEW k \in Nat
  PROVE  Object!Node(k) = IF k <= Len(ideal) THEN path[k] ELSE Object!None
<1>. DEFINE f == [i \in 0..k |-> IF i <= Len(ideal) THEN path[i] ELSE Object!None]
            S(g) == WalkStep(k, g)
            w == Walk(k)
            Bad == {i \in 0..k : w[i] # f[i]}
<1>1. /\ Len(ideal) \in Nat /\ path \in [0..Len(ideal) -> 0..MaxHeld] /\ path[0] = 0
      /\ \A i \in 0..Len(ideal) - 1 : linked[path[i]] = path[i + 1]
      /\ linked[path[Len(ideal)]] = Object!None
  BY DEF IsPath
<1>2. \A i \in 0..Len(ideal) : path[i] # Object!None
  BY <1>1, ObjectsAssumption DEF Object!None
<1>3. \A i \in 0..k : f[i] = IF i <= Len(ideal) THEN path[i] ELSE Object!None
  OBVIOUS
<1>. HIDE DEF f
<1>4. ASSUME NEW i \in 1..k
      PROVE  f[i] = IF f[i - 1] = Object!None THEN Object!None ELSE linked[f[i - 1]]
  <2>1. i - 1 \in 0..k /\ i \in 0..k
    OBVIOUS
  <2>2. CASE i <= Len(ideal)
    <3>1. f[i] = path[i] /\ f[i - 1] = path[i - 1] /\ i - 1 \in 0..Len(ideal) - 1 /\ i - 1 + 1 = i
      BY <1>1, <1>3, <2>1, <2>2
    <3>. QED  BY <1>1, <1>2, <3>1
  <2>3. CASE i = Len(ideal) + 1
    <3>1. f[i] = Object!None /\ f[i - 1] = path[Len(ideal)]
      BY <1>1, <1>3, <2>1, <2>3
    <3>. QED  BY <1>1, <1>2, <3>1
  <2>4. CASE i > Len(ideal) + 1
    <3>1. f[i] = Object!None /\ f[i - 1] = Object!None
      BY <1>1, <1>3, <2>1, <2>4
    <3>. QED  BY <3>1
  <2>. QED  BY <1>1, <2>2, <2>3, <2>4
<1>5. f[0] = 0
  BY <1>1, <1>3
<1>6. f = S(f)
  <2>1. \A i \in 0..k : f[i] = IF i = 0 THEN 0 ELSE IF f[i - 1] = Object!None THEN Object!None ELSE linked[f[i - 1]]
    BY <1>4, <1>5
  <2>2. f = [i \in 0..k |-> f[i]]
    BY DEF f
  <2>. QED  BY <2>1, <2>2 DEF WalkStep
<1>7. w = CHOOSE g : g = S(g)
  BY DEF Walk
<1>. HIDE DEF S, w
<1>8. w = S(w)
  BY <1>6, <1>7
<1>9. \A i \in 0..k : w[i] = IF i = 0 THEN 0 ELSE IF w[i - 1] = Object!None THEN Object!None ELSE linked[w[i - 1]]
  BY <1>8 DEF S, WalkStep
<1>10. Bad = {}
  <2>. SUFFICES ASSUME Bad # {} PROVE FALSE
    OBVIOUS
  <2>1. PICK i \in Bad : \A l \in Bad : i <= l
    <3>1. Bad \in SUBSET Nat
      OBVIOUS
    <3>. HIDE DEF Bad
    <3>. QED  BY <3>1, LeastExists
  <2>2. i \in 1..k /\ i - 1 \in 0..k /\ ~(i <= i - 1) /\ w[i] # f[i]
    BY <1>5, <1>9
  <2>3. w[i - 1] = f[i - 1]
    BY <2>1, <2>2
  <2>. QED  BY <1>4, <1>9, <2>2, <2>3
<1>11. w[k] = f[k]
  BY <1>10
<1>. QED  BY <1>3, <1>11, NodeIsWalk DEF w

(* t is s with v behind the first i elements, or without the i-th one.     *)
Inserted(s, i, v, t) ==
  /\ t \in Seq(Numbers) /\ Len(t) = Len(s) + 1
  /\ \A k \in 1..Len(t) : t[k] = IF k <= i THEN s[k] ELSE IF k = i + 1 THEN v ELSE s[k - 1]

(* A node more, and a node less, in the path.                              *)
LEMMA InsertStep ==
  ASSUME NEW id \in Seq(Numbers), NEW path, IsPath(linked, val, id, path),
         NEW i \in 0..Len(id), NEW v \in Numbers, NEW t, Inserted(id, i, v, t),
         Object!InsertAfter(path[i], v)
  PROVE  \E w : IsPath(linked', val', t, w)
<1>. PICK L : L = Len(id)
  OBVIOUS
<1>1. L \in Nat /\ i \in 0..L /\ path \in [0..L -> 0..MaxHeld] /\ path[0] = 0
  BY DEF IsPath
<1>2. \A k, l \in 0..L : path[k] = path[l] => k = l
  BY DEF IsPath
<1>3. DOMAIN linked = {path[k] : k \in 0..L} /\ DOMAIN val = DOMAIN linked
  BY DEF IsPath
<1>4. (\A k \in 0..L - 1 : linked[path[k]] = path[k + 1]) /\ linked[path[L]] = Object!None
  BY DEF IsPath
<1>5. \A k \in 1..L : val[path[k]] = id[k]
  BY DEF IsPath
<1>6. PICK new \in (1..MaxHeld) \ DOMAIN linked :
        /\ linked' = [q \in DOMAIN linked \cup {new} |->
                        IF q = path[i] THEN new ELSE IF q = new THEN linked[path[i]] ELSE linked[q]]
        /\ val' = [q \in DOMAIN val \cup {new} |-> IF q = new THEN v ELSE val[q]]
  BY DEF Object!InsertAfter
<1>7. \A k \in 0..L : path[k] \in DOMAIN linked /\ path[k] # new
  BY <1>1, <1>3, <1>6
<1>8. /\ DOMAIN linked' = DOMAIN linked \cup {new} /\ DOMAIN val' = DOMAIN linked'
      /\ linked'[path[i]] = new /\ linked'[new] = linked[path[i]] /\ val'[new] = v
  BY <1>1, <1>3, <1>6, <1>7
<1>9. ASSUME NEW k \in 0..L
      PROVE  val'[path[k]] = val[path[k]] /\ (k # i => linked'[path[k]] = linked[path[k]])
  <2>1. path[k] \in DOMAIN linked /\ path[k] # new /\ (k # i => path[k] # path[i])
    BY <1>1, <1>2, <1>7
  <2>. QED  BY <1>3, <1>6, <2>1
<1>10. Len(t) = L + 1 /\ \A k \in 1..L + 1 : t[k] = IF k <= i THEN id[k] ELSE IF k = i + 1 THEN v ELSE id[k - 1]
  BY DEF Inserted
<1>. DEFINE w == [k \in 0..L + 1 |-> IF k <= i THEN path[k] ELSE IF k = i + 1 THEN new ELSE path[k - 1]]
<1>11. \A k \in 0..L + 1 : /\ k <= i => w[k] = path[k] /\ k \in 0..L
                           /\ k = i + 1 => w[k] = new
                           /\ k > i + 1 => w[k] = path[k - 1] /\ k - 1 \in 0..L /\ k - 1 > i
                           /\ k <= i \/ k = i + 1 \/ k > i + 1
  BY <1>1
<1>12. w \in [0..L + 1 -> 0..MaxHeld]
  BY <1>1, <1>6, ObjectsAssumption
<1>. HIDE DEF w
<1>13. w[0] = 0
  BY <1>1, <1>11
<1>14. ASSUME NEW k \in 0..L + 1, NEW l \in 0..L + 1, w[k] = w[l] PROVE k = l
  <2>1. CASE k <= i
    BY <1>1, <1>2, <1>7, <1>11, <1>14, <2>1
  <2>2. CASE k = i + 1
    BY <1>1, <1>2, <1>7, <1>11, <1>14, <2>2
  <2>3. CASE k > i + 1
    BY <1>1, <1>2, <1>7, <1>11, <1>14, <2>3
  <2>. QED  BY <1>11, <2>1, <2>2, <2>3
<1>15. DOMAIN linked' = {w[k] : k \in 0..L + 1}
  <2>1. ASSUME NEW k \in 0..L PROVE \E l \in 0..L + 1 : w[l] = path[k]
    <3>1. CASE k <= i
      <4>1. k \in 0..L + 1
        BY <1>1
      <4>. QED  BY <1>11, <3>1, <4>1
    <3>2. CASE k > i
      <4>1. k + 1 \in 0..L + 1 /\ k + 1 > i + 1 /\ k + 1 - 1 = k
        BY <1>1, <3>2
      <4>2. w[k + 1] = path[k + 1 - 1]
        BY <1>11, <4>1
      <4>. QED  BY <4>1, <4>2
    <3>. QED  BY <1>1, <3>1, <3>2
  <2>2. w[i + 1] = new /\ i + 1 \in 0..L + 1
    BY <1>1, <1>11
  <2>3. ASSUME NEW l \in 0..L + 1 PROVE w[l] \in DOMAIN linked \cup {new}
    BY <1>7, <1>11
  <2>4. ASSUME NEW q \in DOMAIN linked PROVE \E l \in 0..L + 1 : w[l] = q
    <3>1. PICK k \in 0..L : q = path[k]
      BY <1>3
    <3>. QED  BY <2>1, <3>1
  <2>5. DOMAIN linked' = DOMAIN linked \cup {new}
    BY <1>8
  <2>6. \A q \in DOMAIN linked \cup {new} : \E l \in 0..L + 1 : w[l] = q
    BY <2>2, <2>4
  <2>. QED  BY <2>3, <2>5, <2>6
<1>16. ASSUME NEW k \in 0..L PROVE linked'[w[k]] = w[k + 1]
  <2>0. k \in 0..L + 1 /\ k + 1 \in 0..L + 1
    BY <1>1
  <2>1. CASE k < i
    <3>1. w[k] = path[k] /\ w[k + 1] = path[k + 1] /\ k \in 0..L - 1 /\ k # i
      BY <1>1, <1>11, <2>0, <2>1
    <3>. QED  BY <1>4, <1>9, <3>1
  <2>2. CASE k = i
    BY <1>1, <1>8, <1>11, <2>0, <2>2
  <2>3. CASE k = i + 1
    <3>1. w[k] = new /\ w[k + 1] = path[k] /\ i \in 0..L - 1 /\ k = i + 1
      BY <1>1, <1>11, <2>0, <2>3
    <3>. QED  BY <1>4, <1>8, <3>1
  <2>4. CASE k > i + 1
    <3>1. w[k] = path[k - 1] /\ w[k + 1] = path[k] /\ k - 1 \in 0..L - 1 /\ k - 1 \in 0..L /\ k - 1 + 1 = k /\ k - 1 # i
      BY <1>1, <1>11, <2>0, <2>4
    <3>. QED  BY <1>4, <1>9, <3>1
  <2>. QED  BY <1>1, <2>1, <2>2, <2>3, <2>4
<1>17. linked'[w[L + 1]] = Object!None
  <2>0. L + 1 \in 0..L + 1 /\ L \in 0..L
    BY <1>1
  <2>1. CASE i = L
    BY <1>1, <1>4, <1>8, <1>11, <2>0, <2>1
  <2>2. CASE i # L
    <3>1. w[L + 1] = path[L]
      BY <1>1, <1>11, <2>0, <2>2
    <3>. QED  BY <1>4, <1>9, <2>0, <2>2, <3>1
  <2>. QED  BY <2>1, <2>2
<1>18. ASSUME NEW k \in 1..L + 1 PROVE val'[w[k]] = t[k]
  <2>0. k \in 0..L + 1
    BY <1>1
  <2>1. CASE k <= i
    <3>1. w[k] = path[k] /\ k \in 0..L /\ k \in 1..L /\ t[k] = id[k]
      BY <1>1, <1>10, <1>11, <2>0, <2>1
    <3>. QED  BY <1>5, <1>9, <3>1
  <2>2. CASE k = i + 1
    <3>1. w[k] = new /\ t[k] = v
      BY <1>1, <1>10, <1>11, <2>0, <2>2
    <3>. QED  BY <1>8, <3>1
  <2>3. CASE k > i + 1
    <3>1. w[k] = path[k - 1] /\ k - 1 \in 1..L /\ k - 1 \in 0..L /\ t[k] = id[k - 1]
      BY <1>1, <1>10, <1>11, <2>0, <2>3
    <3>. QED  BY <1>5, <1>9, <3>1
  <2>. QED  BY <1>1, <2>1, <2>2, <2>3
<1>19. \A k \in 0..Len(t) - 1 : linked'[w[k]] = w[k + 1]
  <2>1. Len(t) - 1 = L
    BY <1>1, <1>10
  <2>. QED  BY <1>16, <2>1
<1>20. IsPath(linked', val', t, w)
  BY <1>8, <1>10, <1>12, <1>13, <1>14, <1>15, <1>17, <1>18, <1>19 DEF IsPath
<1>. QED  BY <1>20

LEMMA UnlinkStep ==
  ASSUME NEW id \in Seq(Numbers), NEW path, IsPath(linked, val, id, path),
         NEW i \in 1..Len(id), NEW t, Removed(Numbers, id, i, t),
         Object!Unlink(path[i - 1], path[i])
  PROVE  \E w : IsPath(linked', val', t, w)
<1>. PICK L : L = Len(id)
  OBVIOUS
<1>1. L \in Nat \ {0} /\ i \in 1..L /\ path \in [0..L -> 0..MaxHeld] /\ path[0] = 0
  BY DEF IsPath
<1>2. \A k, l \in 0..L : path[k] = path[l] => k = l
  BY DEF IsPath
<1>3. DOMAIN linked = {path[k] : k \in 0..L} /\ DOMAIN val = DOMAIN linked
  BY DEF IsPath
<1>4. (\A k \in 0..L - 1 : linked[path[k]] = path[k + 1]) /\ linked[path[L]] = Object!None
  BY DEF IsPath
<1>5. \A k \in 1..L : val[path[k]] = id[k]
  BY DEF IsPath
<1>6. /\ linked' = [q \in DOMAIN linked \ {path[i]} |->
                      IF q = path[i - 1] THEN linked[path[i]] ELSE linked[q]]
      /\ val' = [q \in DOMAIN val \ {path[i]} |-> val[q]]
  BY DEF Object!Unlink
<1>7. i \in 0..L /\ i - 1 \in 0..L /\ i - 1 # i
  BY <1>1
<1>8. ASSUME NEW k \in 0..L, k # i PROVE path[k] \in DOMAIN linked \ {path[i]}
  BY <1>2, <1>3, <1>7, <1>8
<1>9. /\ DOMAIN linked' = DOMAIN linked \ {path[i]} /\ DOMAIN val' = DOMAIN linked'
      /\ linked'[path[i - 1]] = linked[path[i]]
  BY <1>3, <1>6, <1>7, <1>8
<1>10. ASSUME NEW k \in 0..L, k # i
       PROVE  val'[path[k]] = val[path[k]] /\ (k # i - 1 => linked'[path[k]] = linked[path[k]])
  <2>1. k # i - 1 => path[k] # path[i - 1]
    BY <1>2, <1>7
  <2>. QED  BY <1>3, <1>6, <1>8, <1>10, <2>1
<1>11. Len(t) = L - 1 /\ \A k \in 1..L - 1 : t[k] = IF k < i THEN id[k] ELSE id[k + 1]
  BY DEF Removed
<1>. DEFINE w == [k \in 0..L - 1 |-> IF k < i THEN path[k] ELSE path[k + 1]]
<1>12. \A k \in 0..L - 1 : /\ k < i => w[k] = path[k] /\ k \in 0..L /\ k # i
                           /\ ~(k < i) => w[k] = path[k + 1] /\ k + 1 \in 0..L /\ k + 1 > i /\ k + 1 # i
  BY <1>1
<1>13. w \in [0..L - 1 -> 0..MaxHeld]
  BY <1>1
<1>. HIDE DEF w
<1>14. w[0] = 0
  BY <1>1, <1>12
<1>15. ASSUME NEW k \in 0..L - 1, NEW l \in 0..L - 1, w[k] = w[l] PROVE k = l
  <2>1. CASE k < i
    BY <1>1, <1>2, <1>12, <1>15, <2>1
  <2>2. CASE ~(k < i)
    BY <1>1, <1>2, <1>12, <1>15, <2>2
  <2>. QED  BY <2>1, <2>2
<1>16. DOMAIN linked' = {w[k] : k \in 0..L - 1}
  <2>1. ASSUME NEW k \in 0..L, k # i PROVE \E l \in 0..L - 1 : w[l] = path[k]
    <3>1. CASE k < i
      <4>1. k \in 0..L - 1
        BY <1>1, <3>1
      <4>. QED  BY <1>12, <3>1, <4>1
    <3>2. CASE k > i
      <4>1. k - 1 \in 0..L - 1 /\ ~(k - 1 < i) /\ k - 1 + 1 = k
        BY <1>1, <3>2
      <4>. QED  BY <1>12, <4>1
    <3>. QED  BY <1>1, <2>1, <3>1, <3>2
  <2>0. \A k \in 0..L : k # i => \E l \in 0..L - 1 : w[l] = path[k]
    BY <2>1
  <2>2. ASSUME NEW l \in 0..L - 1 PROVE w[l] \in DOMAIN linked \ {path[i]}
    BY <1>8, <1>12
  <2>3. ASSUME NEW q \in DOMAIN linked \ {path[i]} PROVE \E l \in 0..L - 1 : w[l] = q
    <3>1. PICK k \in 0..L : q = path[k]
      BY <1>3
    <3>2. k # i
      BY <3>1
    <3>3. PICK l \in 0..L - 1 : w[l] = path[k]
      BY <2>0, <3>1, <3>2
    <3>. QED  BY <3>1, <3>3
  <2>4. DOMAIN linked \ {path[i]} = {w[k] : k \in 0..L - 1}
    <3>. PICK D : D = DOMAIN linked \ {path[i]}
      OBVIOUS
    <3>. QED  BY <2>2, <2>3
  <2>. QED  BY <1>9, <2>4
<1>17. ASSUME NEW k \in 0..L - 2 PROVE linked'[w[k]] = w[k + 1]
  <2>0. k \in 0..L - 1 /\ k + 1 \in 0..L - 1
    BY <1>1
  <2>1. CASE k < i - 1
    <3>1. w[k] = path[k] /\ w[k + 1] = path[k + 1] /\ k \in 0..L - 1 /\ k \in 0..L /\ k # i /\ k # i - 1
      BY <1>1, <1>12, <2>0, <2>1
    <3>. QED  BY <1>4, <1>10, <3>1
  <2>2. CASE k = i - 1
    <3>1. w[k] = path[i - 1] /\ w[k + 1] = path[i + 1] /\ i \in 0..L - 1
      BY <1>1, <1>12, <2>0, <2>2
    <3>. QED  BY <1>4, <1>9, <3>1
  <2>3. CASE k >= i
    <3>1. /\ w[k] = path[k + 1] /\ w[k + 1] = path[k + 1 + 1] /\ k + 1 \in 0..L - 1 /\ k + 1 \in 0..L
          /\ k + 1 # i /\ k + 1 # i - 1
      BY <1>1, <1>12, <2>0, <2>3
    <3>. QED  BY <1>4, <1>10, <3>1
  <2>. QED  BY <1>1, <2>1, <2>2, <2>3
<1>18. linked'[w[L - 1]] = Object!None
  <2>0. L - 1 \in 0..L - 1 /\ L \in 0..L
    BY <1>1
  <2>1. CASE i = L
    <3>1. w[L - 1] = path[i - 1]
      BY <1>1, <1>12, <2>0, <2>1
    <3>. QED  BY <1>4, <1>9, <2>1, <3>1
  <2>2. CASE i # L
    <3>1. w[L - 1] = path[L - 1 + 1] /\ L - 1 + 1 = L /\ L # i - 1
      BY <1>1, <1>12, <2>0, <2>2
    <3>. QED  BY <1>4, <1>10, <2>0, <2>2, <3>1
  <2>. QED  BY <2>1, <2>2
<1>19. ASSUME NEW k \in 1..L - 1 PROVE val'[w[k]] = t[k]
  <2>0. k \in 0..L - 1
    BY <1>1
  <2>1. CASE k < i
    <3>1. w[k] = path[k] /\ k \in 0..L /\ k # i /\ k \in 1..L /\ t[k] = id[k]
      BY <1>1, <1>11, <1>12, <2>0, <2>1
    <3>. QED  BY <1>5, <1>10, <3>1
  <2>2. CASE ~(k < i)
    <3>1. w[k] = path[k + 1] /\ k + 1 \in 0..L /\ k + 1 # i /\ k + 1 \in 1..L /\ t[k] = id[k + 1]
      BY <1>1, <1>11, <1>12, <2>0, <2>2
    <3>. QED  BY <1>5, <1>10, <3>1
  <2>. QED  BY <2>1, <2>2
<1>20. \A k \in 0..Len(t) - 1 : linked'[w[k]] = w[k + 1]
  <2>1. Len(t) - 1 = L - 2
    BY <1>1, <1>11
  <2>. QED  BY <1>17, <2>1
<1>21. IsPath(linked', val', t, w)
  BY <1>9, <1>11, <1>13, <1>14, <1>15, <1>16, <1>18, <1>19, <1>20 DEF IsPath
<1>. QED  BY <1>21

LEMMA InsertedAt ==
  ASSUME NEW s \in Seq(Numbers), NEW i \in 0..Len(s), NEW v \in Numbers
  PROVE  Inserted(s, i, v, Object!InsertAt(s, i + 1, v))
<1>. PICK a, b, c, d, t : /\ a = SubSeq(s, 1, i) /\ b = SubSeq(s, i + 1, Len(s)) /\ c = <<v>>
                          /\ d = a \o c /\ t = d \o b
  OBVIOUS
<1>1. Object!InsertAt(s, i + 1, v) = t
  <2>. PICK j : j = i + 1
    OBVIOUS
  <2>1. j - 1 = i
    OBVIOUS
  <2>2. Object!InsertAt(s, j, v) = SubSeq(s, 1, j - 1) \o <<v>> \o SubSeq(s, j, Len(s))
    BY Zenon DEF Object!InsertAt
  <2>. QED  BY <2>1, <2>2
<1>2. a \in Seq(Numbers) /\ Len(a) = i /\ \A k \in 1..i : a[k] = s[k]
  BY PrefixIs
<1>3. b \in Seq(Numbers) /\ Len(b) = Len(s) - i /\ \A k \in 1..Len(s) - i : b[k] = s[i + k]
  BY SuffixIs
<1>4. c \in Seq(Numbers) /\ Len(c) = 1 /\ c[1] = v
  OBVIOUS
<1>5. d \in Seq(Numbers) /\ Len(d) = i + 1 /\ \A k \in 1..i + 1 : d[k] = IF k <= i THEN a[k] ELSE c[k - i]
  <2>1. /\ d \in Seq(Numbers) /\ Len(d) = Len(a) + Len(c)
        /\ \A k \in 1..Len(a) + Len(c) : d[k] = IF k <= Len(a) THEN a[k] ELSE c[k - Len(a)]
    BY <1>2, <1>4, ConcatProperties
  <2>. QED  BY <1>2, <1>4, <2>1
<1>6. /\ t \in Seq(Numbers) /\ Len(t) = i + 1 + (Len(s) - i)
      /\ \A k \in 1..i + 1 + (Len(s) - i) : t[k] = IF k <= i + 1 THEN d[k] ELSE b[k - (i + 1)]
  <2>1. /\ t \in Seq(Numbers) /\ Len(t) = Len(d) + Len(b)
        /\ \A k \in 1..Len(d) + Len(b) : t[k] = IF k <= Len(d) THEN d[k] ELSE b[k - Len(d)]
    <3>1. d \in Seq(Numbers) /\ b \in Seq(Numbers)
      BY <1>3, <1>5
    <3>2. IsConcat(Numbers, t, d, b)
      BY <3>1, ConcatIs
    <3>. QED  BY <3>2 DEF IsConcat
  <2>. QED  BY <1>3, <1>5, <2>1
<1>7. Len(s) \in Nat /\ i + 1 + (Len(s) - i) = Len(s) + 1
  BY LenProperties
<1>8. ASSUME NEW k \in 1..Len(s) + 1
      PROVE  t[k] = IF k <= i THEN s[k] ELSE IF k = i + 1 THEN v ELSE s[k - 1]
  <2>0. t[k] = IF k <= i + 1 THEN d[k] ELSE b[k - (i + 1)]
    BY <1>6, <1>7
  <2>1. CASE k <= i
    <3>1. k \in 1..i + 1 /\ k \in 1..i /\ k <= i + 1
      BY <2>1
    <3>. QED  BY <1>2, <1>5, <2>0, <2>1, <3>1
  <2>2. CASE k = i + 1
    <3>1. k \in 1..i + 1 /\ ~(k <= i) /\ k <= i + 1 /\ k - i = 1
      BY <2>2
    <3>. QED  BY <1>4, <1>5, <2>0, <2>2, <3>1
  <2>3. CASE k > i + 1
    <3>1. ~(k <= i) /\ ~(k <= i + 1) /\ k # i + 1 /\ k - (i + 1) \in 1..Len(s) - i /\ i + (k - (i + 1)) = k - 1
      BY <1>7, <2>3
    <3>2. t[k] = b[k - (i + 1)]
      BY <2>0, <3>1
    <3>3. b[k - (i + 1)] = s[i + (k - (i + 1))]
      BY <1>3, <3>1
    <3>. QED  BY <3>1, <3>2, <3>3
  <2>4. k <= i \/ k = i + 1 \/ k > i + 1
    BY <1>7
  <2>. QED  BY <2>1, <2>2, <2>3, <2>4
<1>. QED  BY <1>1, <1>6, <1>7, <1>8 DEF Inserted

(* The calls of MyLinkedList.                                              *)
LEMMA GetStep ==
  ASSUME ListInv, NEW i \in Nat, Object!Get(i) PROVE ListInv' /\ returned' = expected'
<1>1. class = "list" /\ class' = class /\ UNCHANGED <<linked, val, ideal>>
  BY DEF Object!Get, Object!ListKeeps, Object!listVars
<1>2. PICK path : ideal \in Seq(Numbers) /\ IsPath(linked, val, ideal, path)
  BY <1>1 DEF ListInv
<1>. PICK p : p = Object!Node(i + 1)
  OBVIOUS
<1>3. p = IF i + 1 <= Len(ideal) THEN path[i + 1] ELSE Object!None
  BY <1>2, NodeIs
<1>4. \A k \in 1..Len(ideal) : val[path[k]] = ideal[k] /\ path[k] # Object!None
  BY <1>2, ObjectsAssumption DEF IsPath, Object!None
<1>5. /\ returned' = IF p = Object!None THEN Object!None ELSE val[p]
      /\ expected' = IF i < Len(ideal) THEN ideal[i + 1] ELSE Object!None
  BY DEF Object!Get, Object!Answer
<1>6. Len(ideal) \in Nat
  BY <1>2
<1>7. returned' = expected'
  BY <1>3, <1>4, <1>5, <1>6
<1>. QED  BY <1>1, <1>2, <1>7 DEF ListInv

LEMMA AddAtHeadStep ==
  ASSUME ListInv, NEW v \in Numbers, Object!AddAtHead(v) PROVE ListInv' /\ UNCHANGED <<returned, expected>>
<1>1. /\ class = "list" /\ class' = class /\ UNCHANGED <<returned, expected>>
      /\ Object!InsertAfter(0, v) /\ ideal' = <<v>> \o ideal
  BY DEF Object!AddAtHead, Object!ListKeeps
<1>2. PICK path : ideal \in Seq(Numbers) /\ IsPath(linked, val, ideal, path)
  BY <1>1 DEF ListInv
<1>3. Inserted(ideal, 0, v, ideal')
  BY <1>1, <1>2 DEF Inserted
<1>4. path[0] = 0 /\ 0 \in 0..Len(ideal)
  BY <1>2 DEF IsPath
<1>5. \E w : IsPath(linked', val', ideal', w)
  BY <1>1, <1>2, <1>3, <1>4, InsertStep
<1>. QED  BY <1>1, <1>3, <1>5 DEF ListInv, Inserted

LEMMA AddAtTailStep ==
  ASSUME ListInv, NEW v \in Numbers, Object!AddAtTail(v) PROVE ListInv' /\ UNCHANGED <<returned, expected>>
<1>1. /\ class = "list" /\ class' = class /\ UNCHANGED <<returned, expected>>
      /\ ideal' = Append(ideal, v)
  BY DEF Object!AddAtTail, Object!ListKeeps
<1>2. PICK path : ideal \in Seq(Numbers) /\ IsPath(linked, val, ideal, path)
  BY <1>1 DEF ListInv
<1>3. PICK p \in DOMAIN linked : linked[p] = Object!None /\ Object!InsertAfter(p, v)
  BY DEF Object!AddAtTail
<1>. PICK L : L = Len(ideal)
  OBVIOUS
<1>4. Inserted(ideal, L, v, ideal') /\ L \in 0..Len(ideal) /\ L \in Nat
  BY <1>1, <1>2 DEF Inserted
<1>5. p = path[L]
  <2>1. PICK k \in 0..L : p = path[k]
    BY <1>2 DEF IsPath
  <2>2. k # L => path[k + 1] # Object!None /\ linked[path[k]] = path[k + 1]
    <3>1. /\ path \in [0..L -> 0..MaxHeld] /\ L \in Nat
          /\ \A l \in 0..L - 1 : linked[path[l]] = path[l + 1]
      BY <1>2, <1>4 DEF IsPath
    <3>2. k # L => k \in 0..L - 1 /\ k + 1 \in 0..L
      BY <3>1
    <3>3. \A l \in 0..L : path[l] >= 0
      BY <3>1
    <3>4. Object!None = -1
      BY DEF Object!None
    <3>. QED  BY <3>1, <3>2, <3>3, <3>4
  <2>. QED  BY <1>3, <2>1, <2>2
<1>6. \E w : IsPath(linked', val', ideal', w)
  BY <1>2, <1>3, <1>4, <1>5, InsertStep
<1>. QED  BY <1>1, <1>4, <1>6 DEF ListInv, Inserted

LEMMA AddAtIndexStep ==
  ASSUME ListInv, NEW i \in Nat, NEW v \in Numbers, Object!AddAtIndex(i, v)
  PROVE  ListInv' /\ UNCHANGED <<returned, expected>>
<1>. PICK p : p = Object!Node(i)
  OBVIOUS
<1>1. /\ class = "list" /\ class' = class /\ UNCHANGED <<returned, expected>>
      /\ IF p = Object!None THEN UNCHANGED <<linked, val>> ELSE Object!InsertAfter(p, v)
      /\ ideal' = IF i > Len(ideal) THEN ideal ELSE Object!InsertAt(ideal, i + 1, v)
  BY DEF Object!AddAtIndex, Object!ListKeeps, Object!listVars
<1>2. PICK path : ideal \in Seq(Numbers) /\ IsPath(linked, val, ideal, path)
  BY <1>1 DEF ListInv
<1>3. p = IF i <= Len(ideal) THEN path[i] ELSE Object!None
  BY <1>2, NodeIs
<1>4. \A k \in 0..Len(ideal) : path[k] # Object!None
  BY <1>2, ObjectsAssumption DEF IsPath, Object!None
<1>5. CASE i <= Len(ideal)
  <2>1. i \in 0..Len(ideal) /\ p = path[i] /\ p # Object!None
    BY <1>2, <1>3, <1>4, <1>5
  <2>2. Object!InsertAfter(path[i], v) /\ ideal' = Object!InsertAt(ideal, i + 1, v)
    BY <1>1, <1>2, <1>5, <2>1
  <2>3. Inserted(ideal, i, v, ideal')
    BY <1>2, <2>1, <2>2, InsertedAt
  <2>4. \E w : IsPath(linked', val', ideal', w)
    BY <1>2, <2>1, <2>2, <2>3, InsertStep
  <2>. QED  BY <1>1, <2>3, <2>4 DEF ListInv, Inserted
<1>6. CASE ~(i <= Len(ideal))
  <2>1. i > Len(ideal) /\ p = Object!None
    BY <1>2, <1>3, <1>6
  <2>. QED  BY <1>1, <1>2, <2>1 DEF ListInv
<1>. QED  BY <1>5, <1>6

LEMMA DeleteAtIndexStep ==
  ASSUME ListInv, NEW i \in Nat, Object!DeleteAtIndex(i)
  PROVE  ListInv' /\ UNCHANGED <<returned, expected>>
<1>. PICK p : p = Object!Node(i + 1)
  OBVIOUS
<1>1. /\ class = "list" /\ class' = class /\ UNCHANGED <<returned, expected>>
      /\ IF p = Object!None THEN UNCHANGED <<linked, val>> ELSE Object!Unlink(Object!Node(i), p)
      /\ ideal' = IF i < Len(ideal) THEN Object!RemoveAt(ideal, i + 1) ELSE ideal
  BY DEF Object!DeleteAtIndex, Object!ListKeeps, Object!listVars
<1>2. PICK path : ideal \in Seq(Numbers) /\ IsPath(linked, val, ideal, path)
  BY <1>1 DEF ListInv
<1>3. /\ p = IF i + 1 <= Len(ideal) THEN path[i + 1] ELSE Object!None
      /\ Object!Node(i) = IF i <= Len(ideal) THEN path[i] ELSE Object!None
  BY <1>2, NodeIs
<1>4. \A k \in 0..Len(ideal) : path[k] # Object!None
  BY <1>2, ObjectsAssumption DEF IsPath, Object!None
<1>5. CASE i < Len(ideal)
  <2>. PICK j : j = i + 1
    OBVIOUS
  <2>1. j \in 1..Len(ideal) /\ j \in 0..Len(ideal) /\ j - 1 = i
    BY <1>2, <1>5
  <2>2. p = path[j] /\ p # Object!None /\ Object!Node(i) = path[j - 1]
    BY <1>2, <1>3, <1>4, <1>5, <2>1
  <2>3. /\ Object!Unlink(path[j - 1], path[j])
        /\ ideal' = SubSeq(ideal, 1, j - 1) \o SubSeq(ideal, j + 1, Len(ideal))
    BY <1>1, <1>5, <2>2 DEF Object!RemoveAt
  <2>4. Removed(Numbers, ideal, j, ideal')
    BY <1>2, <2>1, <2>3, RemovedAt
  <2>5. \E w : IsPath(linked', val', ideal', w)
    BY <1>2, <2>1, <2>3, <2>4, UnlinkStep
  <2>. QED  BY <1>1, <2>4, <2>5 DEF ListInv, Removed
<1>6. CASE ~(i < Len(ideal))
  <2>1. p = Object!None
    BY <1>2, <1>3, <1>6
  <2>. QED  BY <1>1, <1>2, <1>6, <2>1 DEF ListInv
<1>. QED  BY <1>5, <1>6

LEMMA ListInit == ASSUME Object!Init PROVE ListInv
<1>1. ASSUME class = "list" PROVE ideal = <<>>
  <2>1. PICK k : \E data \in [0..k - 1 -> Numbers] :
          ideal = CASE class = "heap" -> Object!Count(data)
                    [] class = "list" -> <<>>
                    [] OTHER -> {}
    BY DEF Object!Init
  <2>. QED  BY <1>1, <2>1
<1>2. linked = [p \in {0} |-> Object!None] /\ val = [p \in {0} |-> Object!None]
  BY DEF Object!Init
<1>3. ASSUME class = "list" PROVE IsPath(linked, val, ideal, [k \in 0..0 |-> 0])
  <2>1. ideal = <<>> /\ Len(ideal) = 0
    BY <1>1, <1>3
  <2>. QED  BY <1>2, <2>1, ObjectsAssumption DEF IsPath
<1>. QED  BY <1>1, <1>3 DEF ListInv

-----------------------------------------------------------------------------
(* ExamRoom.                                                               *)
Gap(S, p, q) == p \in S /\ q \in S /\ p < q /\ \A x \in S : ~(p < x /\ x < q)

Pairs == (0..size - 1) \X (0..size - 1)

(* The queue has every gap between two of the seats S. *)
HasGaps(S, q) == q \in [Pairs -> Nat] /\ \A a, b \in S : Gap(S, a, b) => q[<<a, b>>] > 0

RoomInv ==
  class = "room" =>
    /\ size \in Nat /\ seats \in SUBSET (0..size - 1) /\ ideal = seats
    /\ HasGaps(seats, pq)

Apart(s, t) == IF s < t THEN t - s ELSE s - t

(* The distance is that of some seat, and of no seat is it less.           *)
LEMMA DistanceIs ==
  ASSUME NEW S \in SUBSET Nat, S # {}, NEW t \in Nat, NEW d, d = Object!Distance(t, S)
  PROVE  /\ d \in Nat /\ \A x \in S : d <= Apart(t, x)
         /\ \E x \in S : d = Apart(t, x)
<1>. DEFINE A == {Apart(t, x) : x \in S}
<1>1. \A x \in S : Apart(t, x) \in Nat
  BY DEF Apart
<1>2. A \in SUBSET Nat /\ A # {} /\ A \in SUBSET Int
  <2>1. A \in SUBSET Nat
    BY <1>1
  <2>2. A # {}
    OBVIOUS
  <2>. QED  BY <2>1, <2>2
<1>. HIDE DEF A
<1>3. PICK m \in A : \A l \in A : m <= l
  BY <1>2, LeastExists
<1>4. Object!Min(A) = m
  BY <1>2, <1>3, MinIs
<1>5. d = Object!Min(A)
  BY DEF Object!Distance, A, Apart
<1>. QED  BY <1>2, <1>3, <1>4, <1>5 DEF A

Dist(t) == Object!Distance(t, seats)

(* s is the best seat: no other is better, and on its left none as good.   *)
LEMMA BestIs ==
  ASSUME NEW s \in 0..size - 1, size \in Nat,
         \A t \in 0..size - 1 : Dist(t) <= Dist(s),
         \A t \in 0..size - 1 : t < s => ~(Dist(s) <= Dist(t))
  PROVE  Object!BestSeat(seats) = s
<1>. DEFINE B == {r \in 0..size - 1 : \A t \in 0..size - 1 : Dist(t) <= Dist(r)}
<1>1. B \in SUBSET Int /\ s \in B
  OBVIOUS
<1>2. ASSUME NEW r \in B PROVE s <= r
  <2>1. r \in 0..size - 1 /\ Dist(s) <= Dist(r)
    OBVIOUS
  <2>. QED  BY <2>1
<1>3. Object!BestSeat(seats) = Object!Min(B)
  BY DEF Object!BestSeat, Dist
<1>. HIDE DEF B
<1>. QED  BY <1>1, <1>2, <1>3, MinIs

(* A free seat between two taken ones is in a gap.                         *)
LEMMA Neighbours ==
  ASSUME NEW n \in Nat, NEW S \in SUBSET (0..n), NEW t \in (0..n) \ S,
         \E x \in S : x < t, \E x \in S : t < x
  PROVE  \E a, b \in S : a < t /\ t < b /\ Gap(S, a, b)
<1>. DEFINE L == {x \in S : x < t}
            G == {x \in S : t < x}
<1>1. PICK a \in L : \A x \in L : x <= a
  <2>1. L \in SUBSET (0..n) /\ L # {}
    OBVIOUS
  <2>. HIDE DEF L
  <2>2. \E a \in L : \A x \in L : x <= a
    BY <2>1, GreatestExists
  <2>. QED  BY <2>2
<1>2. PICK b \in G : \A x \in G : b <= x
  <2>1. G \in SUBSET (0..n) /\ G # {}
    OBVIOUS
  <2>. HIDE DEF G
  <2>2. G \in SUBSET Nat
    BY <2>1
  <2>3. \E b \in G : \A x \in G : b <= x
    BY <2>1, <2>2, LeastExists
  <2>. QED  BY <2>3
<1>3. a \in S /\ b \in S /\ a < t /\ t < b
  BY <1>1, <1>2
<1>4. ASSUME NEW x \in S, a < x, x < b PROVE FALSE
  <2>1. x \in 0..n /\ x # t /\ a \in 0..n /\ b \in 0..n
    BY <1>3
  <2>2. CASE x < t
    BY <1>1, <1>4, <2>1, <2>2
  <2>3. CASE t < x
    BY <1>2, <1>4, <2>1, <2>3
  <2>. QED  BY <2>1, <2>2, <2>3
<1>5. a < b
  BY <1>3
<1>. QED  BY <1>3, <1>4, <1>5 DEF Gap

LEMMA GapIs ==
  ASSUME NEW n \in Nat, seats \in SUBSET (0..n), NEW a \in 0..n, NEW b \in 0..n
  PROVE  Object!IsGap(<<a, b>>) <=> Gap(seats, a, b)
<1>1. seats \cap (a + 1 .. b - 1) = {} <=> \A x \in seats : ~(a < x /\ x < b)
  OBVIOUS
<1>. QED  BY <1>1 DEF Object!IsGap, Gap

(* The ends of the taken seats, and when there is a free one. *)
LEMMA EndsAre ==
  ASSUME NEW n \in Nat, seats \in SUBSET (0..n - 1), seats # {}
  PROVE  /\ Object!Leftmost \in seats /\ \A x \in seats : Object!Leftmost <= x
         /\ Object!Rightmost \in seats /\ \A x \in seats : x <= Object!Rightmost
<1>1. PICK l \in seats : \A x \in seats : l <= x
  BY LeastExists
<1>2. PICK r \in seats : \A x \in seats : x <= r
  <2>1. n - 1 \in Nat
    OBVIOUS
  <2>. QED  BY <2>1, GreatestExists
<1>3. Object!Leftmost = l
  BY <1>1, MinIs DEF Object!Leftmost
<1>4. Object!Rightmost = r
  BY <1>2, MaxIs DEF Object!Rightmost
<1>. QED  BY <1>1, <1>2, <1>3, <1>4

LEMMA SeatsCount ==
  ASSUME NEW n \in Nat, seats \in SUBSET (0..n - 1)
  PROVE  /\ Object!Cardinality(seats) < n => \E t \in 0..n - 1 : t \notin seats
         /\ Object!Cardinality(seats) = 1 => \E x : seats = {x}
         /\ Object!Cardinality(seats) >= 2 => seats # {} /\ Object!Leftmost < Object!Rightmost
         /\ Object!Cardinality({}) = 0
<1>1. Object!Cardinality(seats) = Cardinality(seats) /\ Object!Cardinality({}) = Cardinality({})
  BY DEF Object!Cardinality, Cardinality
<1>2. IsFiniteSet(0..n - 1) /\ Cardinality(0..n - 1) = n
  BY FS_Interval
<1>3. IsFiniteSet(seats) /\ Cardinality({}) = 0
  BY <1>2, FS_Subset, FS_EmptySet
<1>4. ASSUME Cardinality(seats) < n PROVE \E t \in 0..n - 1 : t \notin seats
  <2>1. seats # 0..n - 1
    BY <1>2, <1>4
  <2>. QED  BY <2>1
<1>5. Cardinality(seats) = 1 => \E x : seats = {x}
  BY <1>3, FS_Singleton
<1>6. ASSUME Cardinality(seats) >= 2 PROVE seats # {} /\ Object!Leftmost < Object!Rightmost
  <2>1. seats # {}
    BY <1>3, <1>6
  <2>2. /\ Object!Leftmost \in seats /\ \A x \in seats : Object!Leftmost <= x
        /\ Object!Rightmost \in seats /\ \A x \in seats : x <= Object!Rightmost
    BY <2>1, EndsAre
  <2>. PICK l, r : l = Object!Leftmost /\ r = Object!Rightmost
    OBVIOUS
  <2>3. l \in Int /\ r \in Int /\ l <= r
    BY <2>2
  <2>4. CASE l = r
    <3>1. \A x \in seats : x = l
      <4>1. \A x \in seats : x \in Int /\ l <= x /\ x <= r
        BY <2>2
      <4>. QED  BY <2>3, <2>4, <4>1
    <3>2. seats = {l}
      BY <2>2, <3>1
    <3>3. Cardinality({l}) = 1
      BY FS_Singleton
    <3>. QED  BY <1>6, <3>2, <3>3
  <2>. QED  BY <2>1, <2>3, <2>4
<1>. QED  BY <1>1, <1>3, <1>4, <1>5, <1>6

(* The queue after a push, and after a pop.                                *)
LEMMA PushIs ==
  ASSUME NEW q \in [Pairs -> Nat], NEW x
  PROVE  /\ Object!Push(q, x) \in [Pairs -> Nat]
         /\ \A y \in Pairs : q[y] > 0 => Object!Push(q, x)[y] > 0
         /\ x \in Pairs => Object!Push(q, x)[x] > 0
<1>. DEFINE g == Object!Push(q, x)
<1>1. g = [q EXCEPT ![x] = q[x] + 1]
  BY DEF Object!Push
<1>2. ASSUME NEW y \in Pairs PROVE g[y] \in Nat /\ g[y] = IF y = x THEN q[x] + 1 ELSE q[y]
  BY <1>1, <1>2
<1>3. g \in [Pairs -> Nat]
  <2>1. g = [y \in Pairs |-> g[y]]
    BY <1>1
  <2>. HIDE DEF g
  <2>. QED  BY <1>2, <2>1
<1>. HIDE DEF g
<1>4. \A y \in Pairs : q[y] \in Nat
  OBVIOUS
<1>. QED  BY <1>2, <1>3, <1>4 DEF g

LEMMA DropIs ==
  ASSUME NEW q \in [Pairs -> Nat], NEW x \in Pairs, q[x] > 0
  PROVE  /\ Object!Drop(q, x) \in [Pairs -> Nat]
         /\ \A y \in Pairs : y # x => Object!Drop(q, x)[y] = q[y]
<1>1. q[x] - 1 \in Nat
  OBVIOUS
<1>. QED  BY <1>1 DEF Object!Drop

(* What is known in a step of the room. *)
Room(n) == n = size /\ n \in Nat /\ seats \in SUBSET (0..n - 1) /\ ideal = seats /\ HasGaps(seats, pq)

LEMMA TopIs ==
  ASSUME NEW n, Room(n), NEW p \in Object!Tops
  PROVE  /\ p \in Pairs /\ pq[p] > 0
         /\ \A q \in Pairs : pq[q] > 0 => ~Object!Below(p, q)
BY DEF Object!Tops, Object!Queued, Room, HasGaps

LEMMA DropStaleStep ==
  ASSUME RoomInv, Object!DropStale PROVE RoomInv' /\ UNCHANGED <<returned, expected>>
<1>1. /\ class = "room" /\ UNCHANGED <<class, size, seats, ideal, returned, expected>>
  BY DEF Object!DropStale, Object!MaySeat
<1>2. Room(size)
  BY <1>1 DEF RoomInv, Room
<1>3. PICK p \in Object!Tops : ~Object!IsGap(p) /\ pq' = Object!Drop(pq, p)
  BY DEF Object!DropStale
<1>4. p \in Pairs /\ pq[p] > 0
  BY <1>2, TopIs
<1>5. pq \in [Pairs -> Nat] /\ size \in Nat /\ seats \in SUBSET (0..size - 1)
  BY <1>2 DEF Room, HasGaps
<1>6. pq' \in [Pairs -> Nat] /\ \A y \in Pairs : y # p => pq'[y] = pq[y]
  BY <1>3, <1>4, <1>5, DropIs
<1>7. ASSUME NEW a \in seats, NEW b \in seats, Gap(seats, a, b) PROVE pq'[<<a, b>>] > 0
  <2>1. a \in 0..size - 1 /\ b \in 0..size - 1 /\ size - 1 \in Nat
    BY <1>5
  <2>2. Object!IsGap(<<a, b>>)
    BY <1>5, <1>7, <2>1, GapIs
  <2>3. <<a, b>> # p /\ <<a, b>> \in Pairs /\ pq[<<a, b>>] > 0
    BY <1>2, <1>3, <1>7, <2>1, <2>2 DEF Room, HasGaps, Pairs
  <2>. QED  BY <1>6, <2>3
<1>8. HasGaps(seats, pq')
  BY <1>6, <1>7 DEF HasGaps
<1>. QED  BY <1>1, <1>2, <1>8 DEF RoomInv, Room, HasGaps, Pairs

(* With a new seat s the queue has every gap if it has the new ones.       *)
LEMMA SeatKeeps ==
  ASSUME NEW n, Room(n), NEW s \in 0..n - 1, s \notin seats, NEW q \in [Pairs -> Nat],
         \A a, b \in seats : Gap(seats, a, b) /\ ~(a < s /\ s < b) => q[<<a, b>>] > 0,
         \A a \in seats : Gap(seats \cup {s}, a, s) => q[<<a, s>>] > 0,
         \A b \in seats : Gap(seats \cup {s}, s, b) => q[<<s, b>>] > 0
  PROVE  HasGaps(seats \cup {s}, q)
<1>. SUFFICES ASSUME NEW a \in seats \cup {s}, NEW b \in seats \cup {s}, Gap(seats \cup {s}, a, b)
              PROVE  q[<<a, b>>] > 0
  BY DEF HasGaps
<1>1. ~(a = s /\ b = s)
  BY DEF Gap, Room
<1>2. CASE a = s
  BY <1>1, <1>2
<1>3. CASE b = s
  BY <1>1, <1>3
<1>4. CASE a # s /\ b # s
  BY <1>4 DEF Gap
<1>. QED  BY <1>2, <1>3, <1>4

LEMMA LeaveStep ==
  ASSUME RoomInv, NEW p \in seats, Object!Leave(p) PROVE RoomInv' /\ UNCHANGED <<returned, expected>>
<1>. DEFINE L == {x \in seats : x < p}
            G == {x \in seats : x > p}
<1>1. /\ class = "room" /\ UNCHANGED <<class, size, returned, expected>>
      /\ seats' = seats \ {p} /\ ideal' = ideal \ {p}
      /\ pq' = IF p \in {Object!Leftmost, Object!Rightmost} THEN pq
               ELSE Object!Push(pq, <<Object!Max(L), Object!Min(G)>>)
  BY DEF Object!Leave
<1>2. Room(size)
  BY <1>1 DEF RoomInv, Room
<1>3. pq \in [Pairs -> Nat] /\ size \in Nat /\ seats \in SUBSET (0..size - 1) /\ p \in Int
  BY <1>2 DEF Room, HasGaps
<1>. HIDE DEF L, G
<1>4. pq' \in [Pairs -> Nat] /\ \A y \in Pairs : pq[y] > 0 => pq'[y] > 0
  BY <1>1, <1>3, PushIs
<1>5. ASSUME NEW a \in seats \ {p}, NEW b \in seats \ {p}, Gap(seats \ {p}, a, b) PROVE pq'[<<a, b>>] > 0
  <2>1. <<a, b>> \in Pairs /\ a \in Int /\ b \in Int /\ a < b
    BY <1>3, <1>5 DEF Pairs, Gap
  <2>2. CASE ~(a < p /\ p < b)
    <3>1. Gap(seats, a, b)
      BY <1>5, <2>2 DEF Gap
    <3>. QED  BY <1>2, <1>4, <2>1, <3>1 DEF Room, HasGaps
  <2>3. CASE a < p /\ p < b
    <3>1. Object!Max(L) = a
      <4>0. \A x \in seats : x \in Int
        BY <1>3
      <4>1. L \in SUBSET Int /\ a \in L
        BY <2>3, <4>0 DEF L
      <4>2. ASSUME NEW x \in L PROVE x <= a
        <5>1. x \in seats \ {p} /\ x \in Int /\ x < b
          BY <1>3, <2>1, <2>3 DEF L
        <5>2. ~(a < x)
          BY <1>5, <5>1 DEF Gap
        <5>. QED  BY <2>1, <5>1, <5>2
      <4>. QED  BY <4>1, <4>2, MaxIs
    <3>2. Object!Min(G) = b
      <4>0. \A x \in seats : x \in Int
        BY <1>3
      <4>1. G \in SUBSET Int /\ b \in G
        BY <1>3, <2>1, <2>3, <4>0 DEF G
      <4>2. ASSUME NEW x \in G PROVE b <= x
        <5>1. x \in seats \ {p} /\ x \in Int /\ a < x
          BY <1>3, <2>1, <2>3 DEF G
        <5>2. ~(x < b)
          BY <1>5, <5>1 DEF Gap
        <5>. QED  BY <2>1, <5>1, <5>2
      <4>. QED  BY <4>1, <4>2, MinIs
    <3>3. p \notin {Object!Leftmost, Object!Rightmost}
      <4>1. Object!Leftmost \in seats /\ Object!Leftmost <= a /\ Object!Rightmost \in seats /\ b <= Object!Rightmost
        BY <1>3, EndsAre
      <4>. QED  BY <1>3, <2>1, <2>3, <4>1
    <3>4. pq' = Object!Push(pq, <<a, b>>)
      BY <1>1, <3>1, <3>2, <3>3
    <3>. QED  BY <1>3, <2>1, <3>4, PushIs
  <2>. QED  BY <2>2, <2>3
<1>6. HasGaps(seats', pq')
  BY <1>1, <1>4, <1>5 DEF HasGaps
<1>. QED  BY <1>1, <1>2, <1>3, <1>6 DEF RoomInv, Room, HasGaps, Pairs

LEMMA RoomInit == ASSUME Object!Init PROVE RoomInv
<1>. SUFFICES ASSUME class = "room" PROVE size \in Nat /\ seats = {} /\ ideal = {} /\ pq \in [Pairs -> Nat]
  BY DEF RoomInv, HasGaps
<1>1. size \in Nat /\ seats = {}
  BY ObjectsAssumption DEF Object!Init
<1>2. ideal = {}
  <2>1. PICK k : \E data \in [0..k - 1 -> Numbers] :
          ideal = CASE class = "heap" -> Object!Count(data)
                    [] class = "list" -> <<>>
                    [] OTHER -> {}
    BY DEF Object!Init
  <2>. QED  BY <2>1
<1>3. pq = [p \in Pairs |-> 0]
  BY DEF Object!Init, Pairs
<1>. QED  BY <1>1, <1>2, <1>3

(* seat is right to choose s, and leaves the queue q. *)
Chosen(s, q) ==
  /\ s \in 0..size - 1 /\ s \notin seats
  /\ Object!BestSeat(seats) = s /\ HasGaps(seats \cup {s}, q)

(* A best seat is free when one is.                                        *)
LEMMA BestIsFree ==
  ASSUME NEW n, Room(n), seats # {}, Object!Cardinality(seats) < n,
         NEW s \in 0..n - 1, \A t \in 0..n - 1 : Dist(t) <= Dist(s)
  PROVE  s \notin seats
<1>1. n \in Nat /\ seats \in SUBSET (0..n - 1) /\ seats \in SUBSET Nat
  BY DEF Room
<1>2. PICK t \in 0..n - 1 : t \notin seats
  BY <1>1, SeatsCount
<1>. PICK d, e : d = Dist(t) /\ e = Dist(s)
  OBVIOUS
<1>3. d \in Nat /\ d # 0
  <2>1. t \in Nat
    OBVIOUS
  <2>2. d \in Nat /\ \E x \in seats : d = Apart(t, x)
    BY <1>1, <2>1, DistanceIs DEF Dist
  <2>3. \A x \in seats : Apart(t, x) # 0
    BY <1>1, <1>2 DEF Apart
  <2>. QED  BY <2>2, <2>3
<1>4. e \in Nat /\ (s \in seats => e <= Apart(s, s))
  <2>1. s \in Nat
    OBVIOUS
  <2>. QED  BY <1>1, <2>1, DistanceIs DEF Dist
<1>5. Apart(s, s) = 0
  BY DEF Apart
<1>. QED  BY <1>3, <1>4, <1>5

(* The distances of the seats beyond the ends.                             *)
LEMMA EndDistances ==
  ASSUME NEW n, Room(n), seats # {}, NEW t \in 0..n - 1, NEW d, d = Dist(t),
         NEW l, NEW r, l = Object!Leftmost, r = Object!Rightmost
  PROVE  /\ d \in Nat /\ l \in seats /\ r \in seats /\ l \in 0..n - 1 /\ r \in 0..n - 1 /\ n \in Nat
         /\ t < l => d <= l - t
         /\ t > r => d <= t - r
         /\ t = 0 => d = l
         /\ t = n - 1 => d = n - 1 - r
<1>1. n \in Nat /\ seats \in SUBSET (0..n - 1) /\ seats \in SUBSET Nat /\ t \in Nat
  BY DEF Room
<1>2. l \in seats /\ r \in seats /\ \A x \in seats : l <= x /\ x <= r
  BY <1>1, EndsAre
<1>3. d \in Nat /\ (\A x \in seats : d <= Apart(t, x)) /\ \E x \in seats : d = Apart(t, x)
  <2>1. d = Object!Distance(t, seats)
    BY DEF Dist
  <2>. PICK S : S = seats
    OBVIOUS
  <2>2. S \in SUBSET Nat /\ S # {} /\ d = Object!Distance(t, S) /\ t \in Nat
    BY <1>1, <2>1
  <2>3. d \in Nat /\ \A x \in S : d <= Apart(t, x)
    BY <2>2, DistanceIs
  <2>4. \E x \in S : d = Apart(t, x)
    BY <2>2, DistanceIs
  <2>. QED  BY <2>3, <2>4
<1>4. PICK x \in seats : d = Apart(t, x)
  BY <1>3
<1>5. l \in 0..n - 1 /\ r \in 0..n - 1 /\ x \in 0..n - 1
  BY <1>1, <1>2
<1>6. d <= Apart(t, l) /\ d <= Apart(t, r) /\ l <= x /\ x <= r
  BY <1>2, <1>3
<1>. QED  BY <1>1, <1>2, <1>3, <1>4, <1>5, <1>6 DEF Apart

(* The seat at an end is best if it is no worse than those between the ends. *)
LEMMA SeatEnd ==
  ASSUME NEW n, Room(n), seats # {}, Object!Cardinality(seats) < n,
         NEW l, NEW r, l = Object!Leftmost, r = Object!Rightmost, NEW h \in Nat,
         \A t \in l..r : Dist(t) <= h,
         h < n - 1 - r \/ h <= l,
         Object!SeatAtEnd(l, n - 1 - r)
  PROVE  \E s, q : Chosen(s, q) /\ Object!SeatAt(s, q)
<1>1. n \in Nat /\ n = size /\ seats \in SUBSET (0..n - 1) /\ pq \in [Pairs -> Nat]
  BY DEF Room, HasGaps
<1>2. l \in seats /\ r \in seats /\ \A x \in seats : l <= x /\ x <= r
  BY <1>1, EndsAre
<1>3. l \in 0..n - 1 /\ r \in 0..n - 1 /\ l <= r
  BY <1>1, <1>2
<1>4. \A t \in 0..n - 1 : /\ Dist(t) \in Nat /\ (t < l => Dist(t) <= l - t) /\ (t > r => Dist(t) <= t - r)
                          /\ (t = 0 => Dist(t) = l) /\ (t = n - 1 => Dist(t) = n - 1 - r)
  BY EndDistances
<1>5. \A t \in 0..n - 1 : t < l \/ t > r \/ t \in l..r
  BY <1>3
<1>6. \A a, b \in seats : Gap(seats, a, b) => <<a, b>> \in Pairs /\ pq[<<a, b>>] > 0
  BY <1>1 DEF Room, HasGaps, Pairs
<1>7. CASE n - 1 - r > l
  <2>. PICK s, z : s = n - 1 /\ z = <<r, s>>
    OBVIOUS
  <2>. PICK q : q = Object!Push(pq, z)
    OBVIOUS
  <2>1. Object!SeatAt(s, q)
    BY <1>1, <1>7 DEF Object!SeatAtEnd
  <2>2. s \in 0..n - 1 /\ Dist(s) = n - 1 - r /\ <<r, s>> \in Pairs
    BY <1>1, <1>3, <1>4 DEF Pairs
  <2>3. ASSUME NEW t \in 0..n - 1 PROVE Dist(t) <= Dist(s) /\ (t < s => ~(Dist(s) <= Dist(t)))
    <3>. PICK d, e : d = Dist(t) /\ e = Dist(s)
      OBVIOUS
    <3>1. d \in Nat /\ e = n - 1 - r /\ (t < l => d <= l - t) /\ (t > r => d <= t - r) /\ (t \in l..r => d <= h)
      BY <1>4, <2>2
    <3>2. h < n - 1 - r
      BY <1>3, <1>7
    <3>3. d <= e /\ (t < s => ~(e <= d))
      BY <1>1, <1>3, <1>5, <1>7, <3>1, <3>2
    <3>. QED  BY <3>3
  <2>4. s \notin seats
    BY <2>2, <2>3, BestIsFree
  <2>5. Object!BestSeat(seats) = s
    BY <1>1, <2>2, <2>3, BestIs
  <2>6. q \in [Pairs -> Nat] /\ (\A y \in Pairs : pq[y] > 0 => q[y] > 0) /\ q[<<r, s>>] > 0
    <3>. PICK o : o = pq
      OBVIOUS
    <3>1. o \in [Pairs -> Nat] /\ q = Object!Push(o, z) /\ z \in Pairs
      BY <1>1, <2>2
    <3>2. q \in [Pairs -> Nat] /\ (\A y \in Pairs : o[y] > 0 => q[y] > 0) /\ q[z] > 0
      BY <3>1, PushIs
    <3>. QED  BY <3>2
  <2>7. \A a \in seats : Gap(seats \cup {s}, a, s) => a = r
    <3>1. \A a \in seats : a \in Int /\ a <= r /\ r < s
      BY <1>1, <1>2, <1>3, <2>2, <2>4
    <3>2. r \in Int /\ s \in Int
      BY <1>3, <2>2
    <3>. QED  BY <1>2, <3>1, <3>2 DEF Gap
  <2>8. \A b \in seats : ~Gap(seats \cup {s}, s, b)
    BY <1>1 DEF Gap
  <2>9. HasGaps(seats \cup {s}, q)
    BY <1>6, <2>2, <2>4, <2>6, <2>7, <2>8, SeatKeeps
  <2>. QED  BY <1>1, <2>1, <2>2, <2>4, <2>5, <2>9 DEF Chosen
<1>8. CASE ~(n - 1 - r > l)
  <2>. PICK s, z : s = 0 /\ z = <<s, l>>
    OBVIOUS
  <2>. PICK q : q = Object!Push(pq, z)
    OBVIOUS
  <2>1. Object!SeatAt(s, q)
    BY <1>1, <1>8 DEF Object!SeatAtEnd
  <2>2. s \in 0..n - 1 /\ Dist(s) = l /\ <<s, l>> \in Pairs
    BY <1>1, <1>3, <1>4 DEF Pairs
  <2>3. ASSUME NEW t \in 0..n - 1 PROVE Dist(t) <= Dist(s) /\ (t < s => ~(Dist(s) <= Dist(t)))
    <3>. PICK d, e : d = Dist(t) /\ e = Dist(s)
      OBVIOUS
    <3>1. d \in Nat /\ (t < l => d <= l - t) /\ (t > r => d <= t - r) /\ (t \in l..r => d <= h)
      BY <1>4
    <3>4. e = l
      BY <2>2
    <3>2. h <= l
      <4>1. h < n - 1 - r => h <= l
        BY <1>1, <1>3, <1>8
      <4>. QED  BY <4>1
    <3>3. d <= e /\ ~(t < s)
      BY <1>1, <1>3, <1>5, <1>8, <3>1, <3>2, <3>4
    <3>. QED  BY <3>3
  <2>4. s \notin seats
    BY <2>2, <2>3, BestIsFree
  <2>5. Object!BestSeat(seats) = s
    BY <1>1, <2>2, <2>3, BestIs
  <2>6. q \in [Pairs -> Nat] /\ (\A y \in Pairs : pq[y] > 0 => q[y] > 0) /\ q[<<s, l>>] > 0
    <3>. PICK o : o = pq
      OBVIOUS
    <3>1. o \in [Pairs -> Nat] /\ q = Object!Push(o, z) /\ z \in Pairs
      BY <1>1, <2>2
    <3>2. q \in [Pairs -> Nat] /\ (\A y \in Pairs : o[y] > 0 => q[y] > 0) /\ q[z] > 0
      BY <3>1, PushIs
    <3>. QED  BY <3>2
  <2>7. \A b \in seats : Gap(seats \cup {s}, s, b) => b = l
    <3>1. \A b \in seats : b \in Int /\ l <= b /\ s < l
      BY <1>1, <1>2, <1>3, <2>2, <2>4
    <3>2. l \in Int /\ s \in Int
      BY <1>3, <2>2
    <3>. QED  BY <1>2, <3>1, <3>2 DEF Gap
  <2>8. \A a \in seats : ~Gap(seats \cup {s}, a, s)
    BY <1>1 DEF Gap
  <2>9. HasGaps(seats \cup {s}, q)
    BY <1>6, <2>2, <2>4, <2>6, <2>7, <2>8, SeatKeeps
  <2>. QED  BY <1>1, <2>1, <2>2, <2>4, <2>5, <2>9 DEF Chosen
<1>. QED  BY <1>7, <1>8

(* No seat between the ends is farther from the others than half the       *)
(* widest gap, and none left of that gap's middle as far.                  *)
LEMMA InnerBounds ==
  ASSUME NEW n, Room(n), seats # {}, NEW p \in Object!Tops, Object!IsGap(p),
         NEW i, NEW j, NEW h, i = p[1] /\ j = p[2] /\ h = Object!Half(p),
         NEW t \in Object!Leftmost..Object!Rightmost, NEW d, d = Dist(t)
  PROVE  /\ h \in Nat /\ h = (j - i) \div 2 /\ i \in seats /\ j \in seats /\ i < j /\ i \in 0..n - 1 /\ j \in 0..n - 1
         /\ d \in Nat /\ d <= h
         /\ h >= 1 /\ t < i + h => ~(h <= d)
<1>1. n \in Nat /\ n = size /\ seats \in SUBSET (0..n - 1) /\ seats \in SUBSET Nat /\ n - 1 \in Nat
  <2>1. n \in Nat /\ n = size /\ seats \in SUBSET (0..n - 1)
    BY DEF Room
  <2>. PICK x \in seats : TRUE
    OBVIOUS
  <2>2. n - 1 \in Nat
    <3>1. x \in 0..n - 1
      BY <2>1
    <3>. QED  BY <2>1, <3>1
  <2>. QED  BY <2>1, <2>2
<1>2. i \in seats /\ j \in seats /\ i < j
  BY DEF Object!IsGap
<1>3. i \in 0..n - 1 /\ j \in 0..n - 1 /\ h = (j - i) \div 2
  BY <1>1, <1>2 DEF Object!Half
<1>4. h \in Nat
  BY <1>2, <1>3
<1>. PICK l, r : l = Object!Leftmost /\ r = Object!Rightmost
  OBVIOUS
<1>5. l \in seats /\ r \in seats /\ t \in l..r
  BY <1>1, EndsAre
<1>6. t \in 0..n - 1 /\ l \in 0..n - 1 /\ r \in 0..n - 1
  BY <1>1, <1>5
<1>7. d \in Nat /\ \A x \in seats : d <= Apart(t, x)
  <2>. PICK S : S = seats
    OBVIOUS
  <2>1. S \in SUBSET Nat /\ S # {} /\ t \in Nat /\ d = Object!Distance(t, S)
    BY <1>1, <1>6 DEF Dist
  <2>2. d \in Nat /\ \A x \in S : d <= Apart(t, x)
    BY <2>1, DistanceIs
  <2>. QED  BY <2>2
<1>8. CASE t \in seats
  <2>1. d <= 0
    BY <1>6, <1>7, <1>8 DEF Apart
  <2>. QED  BY <1>1, <1>2, <1>3, <1>4, <1>7, <2>1
<1>9. CASE t \notin seats
  <2>1. l < t /\ t < r
    BY <1>5, <1>6, <1>9
  <2>2. PICK a \in seats, b \in seats : a < t /\ t < b /\ Gap(seats, a, b)
    <3>. PICK S, m : S = seats /\ m = n - 1
      OBVIOUS
    <3>1. m \in Nat /\ S \in SUBSET (0..m) /\ t \in (0..m) \ S /\ (\E x \in S : x < t) /\ \E x \in S : t < x
      BY <1>1, <1>5, <1>6, <1>9, <2>1
    <3>2. \E a, b \in S : a < t /\ t < b /\ Gap(S, a, b)
      BY <3>1, Neighbours
    <3>. QED  BY <3>2
  <2>3. a \in 0..n - 1 /\ b \in 0..n - 1 /\ d <= t - a /\ d <= b - t
    BY <1>1, <1>6, <1>7, <2>2 DEF Apart
  <2>4. <<a, b>> \in Pairs /\ pq[<<a, b>>] > 0
    BY <1>1, <2>2, <2>3 DEF Room, HasGaps, Pairs
  <2>5. ~Object!Below(p, <<a, b>>)
    BY <2>4, TopIs
  <2>6. (b - a) \div 2 <= h /\ ((b - a) \div 2 = h => i <= a)
    <3>1. Object!Half(<<a, b>>) = (b - a) \div 2 /\ <<a, b>>[1] = a
      BY DEF Object!Half
    <3>2. ~(h < (b - a) \div 2) /\ ~(h = (b - a) \div 2 /\ i > a)
      BY <2>5, <3>1 DEF Object!Below
    <3>3. (b - a) \div 2 \in Int
      BY <2>3
    <3>. QED  BY <1>3, <1>4, <2>3, <3>2, <3>3
  <2>7. d <= (b - a) \div 2
    BY <1>6, <1>7, <2>3
  <2>8. d <= h
    <3>1. (b - a) \div 2 \in Int
      BY <2>3
    <3>. QED  BY <1>4, <1>7, <2>6, <2>7, <3>1
  <2>9. ASSUME t < i + h, h <= d PROVE FALSE
    <3>1. (b - a) \div 2 \in Int
      BY <2>3
    <3>2. i <= a
      BY <1>4, <1>7, <2>6, <2>7, <2>9, <3>1
    <3>. QED  BY <1>3, <1>4, <1>6, <1>7, <2>3, <2>9, <3>2
  <2>. QED  BY <1>2, <1>3, <1>4, <1>7, <2>8, <2>9
<1>. QED  BY <1>8, <1>9

(* Otherwise the middle of the widest gap is.                              *)
LEMMA MiddleSeat ==
  ASSUME NEW n, Room(n), seats # {}, Object!Cardinality(seats) < n,
         NEW p \in Object!Tops, Object!IsGap(p),
         NEW i, NEW j, NEW h, NEW s, i = p[1] /\ j = p[2] /\ h = Object!Half(p) /\ s = i + h,
         ~(h < n - 1 - Object!Rightmost), ~(h <= Object!Leftmost)
  PROVE  Chosen(s, Object!Push(Object!Push(Object!Drop(pq, p), <<i, s>>), <<s, j>>))
<1>1. n \in Nat /\ n = size /\ seats \in SUBSET (0..n - 1) /\ seats \in SUBSET Nat /\ pq \in [Pairs -> Nat]
  BY DEF Room, HasGaps
<1>. PICK l, r : l = Object!Leftmost /\ r = Object!Rightmost
  OBVIOUS
<1>2. l \in seats /\ r \in seats /\ \A x \in seats : l <= x /\ x <= r
  BY <1>1, EndsAre
<1>3. l \in 0..n - 1 /\ r \in 0..n - 1 /\ l <= r
  BY <1>1, <1>2
<1>4. \A t \in l..r : Dist(t) \in Nat /\ Dist(t) <= h /\ (h >= 1 /\ t < i + h => ~(h <= Dist(t)))
  BY InnerBounds
<1>5. h \in Nat /\ h = (j - i) \div 2 /\ i \in seats /\ j \in seats /\ i < j /\ i \in 0..n - 1 /\ j \in 0..n - 1
  <2>1. l \in Object!Leftmost..Object!Rightmost
    BY <1>3
  <2>. QED  BY <2>1, InnerBounds
<1>6. h >= 1 /\ h > l /\ n - 1 - r <= h
  BY <1>1, <1>3, <1>5
<1>7. i < s /\ s < j /\ s \in 0..n - 1 /\ s \in l..r /\ s - i = h /\ j - s >= h
  <2>1. l <= i /\ j <= r
    BY <1>2, <1>5
  <2>. QED  BY <1>1, <1>3, <1>5, <1>6, <2>1
<1>8. \A x \in seats : ~(i < x /\ x < j)
  BY <1>1, <1>5 DEF Object!IsGap
<1>9. Dist(s) = h
  <2>. PICK S, d : S = seats /\ d = Dist(s)
    OBVIOUS
  <2>1. S \in SUBSET Nat /\ S # {} /\ s \in Nat /\ d = Object!Distance(s, S)
    BY <1>1, <1>7 DEF Dist
  <2>2. PICK x \in S : d = Apart(s, x)
    BY <2>1, DistanceIs
  <2>3. x \in Int /\ ~(i < x /\ x < j)
    BY <1>8, <2>1
  <2>4. h <= d
    BY <1>5, <1>7, <2>2, <2>3 DEF Apart
  <2>5. d \in Nat /\ d <= h
    BY <1>4, <1>7
  <2>. QED  BY <1>5, <2>4, <2>5
<1>10. \A t \in 0..n - 1 : Dist(t) \in Nat /\ (t < l => Dist(t) <= l - t) /\ (t > r => Dist(t) <= t - r)
  BY EndDistances
<1>11. ASSUME NEW t \in 0..n - 1 PROVE Dist(t) <= Dist(s) /\ (t < s => ~(Dist(s) <= Dist(t)))
  <2>. PICK d, e : d = Dist(t) /\ e = Dist(s)
    OBVIOUS
  <2>1. d \in Nat /\ (t < l => d <= l - t) /\ (t > r => d <= t - r)
    BY <1>10
  <2>2. t \in l..r => d <= h /\ (t < s => ~(h <= d))
    BY <1>4, <1>6
  <2>3. d <= h /\ (t < s => ~(h <= d))
    <3>1. CASE t < l
      BY <1>3, <1>5, <1>6, <2>1, <3>1
    <3>2. CASE t > r
      BY <1>1, <1>3, <1>5, <1>6, <1>7, <2>1, <3>2
    <3>3. CASE t \in l..r
      BY <2>2, <3>3
    <3>. QED  BY <1>3, <3>1, <3>2, <3>3
  <2>. QED  BY <1>9, <2>3
<1>12. s \notin seats
  BY <1>7, <1>8
<1>13. Object!BestSeat(seats) = s
  BY <1>1, <1>7, <1>11, BestIs
<1>. PICK y, z : y = <<i, s>> /\ z = <<s, j>>
  OBVIOUS
<1>. PICK o, o1 : o = Object!Drop(pq, p) /\ o1 = Object!Push(o, y)
  OBVIOUS
<1>. PICK q : q = Object!Push(o1, z)
  OBVIOUS
<1>14. p \in Pairs /\ pq[p] > 0 /\ y \in Pairs /\ z \in Pairs /\ p = <<i, j>>
  <2>1. p \in Pairs /\ pq[p] > 0
    BY TopIs
  <2>. QED  BY <1>1, <1>5, <1>7, <2>1 DEF Pairs
<1>15. o \in [Pairs -> Nat] /\ \A x \in Pairs : x # p => o[x] = pq[x]
  BY <1>1, <1>14, DropIs
<1>16. o1 \in [Pairs -> Nat] /\ (\A x \in Pairs : o[x] > 0 => o1[x] > 0) /\ o1[y] > 0
  BY <1>14, <1>15, PushIs
<1>17. q \in [Pairs -> Nat] /\ (\A x \in Pairs : o1[x] > 0 => q[x] > 0) /\ q[z] > 0
  BY <1>14, <1>16, PushIs
<1>18. ASSUME NEW a \in seats, NEW b \in seats, Gap(seats, a, b), ~(a < s /\ s < b) PROVE q[<<a, b>>] > 0
  <2>1. <<a, b>> \in Pairs /\ pq[<<a, b>>] > 0
    BY <1>1, <1>18 DEF Room, HasGaps, Pairs
  <2>2. <<a, b>> # p
    BY <1>7, <1>14, <1>18
  <2>3. o[<<a, b>>] > 0
    BY <1>15, <2>1, <2>2
  <2>. QED  BY <1>16, <1>17, <2>1, <2>3
<1>19. ASSUME NEW a \in seats, Gap(seats \cup {s}, a, s) PROVE q[<<a, s>>] > 0
  <2>1. a \in Int /\ a < s /\ ~(a < i /\ i < s)
    BY <1>1, <1>5, <1>19 DEF Gap
  <2>2. ~(i < a /\ a < j)
    BY <1>8
  <2>3. a = i
    BY <1>5, <1>7, <2>1, <2>2
  <2>. QED  BY <1>14, <1>16, <1>17, <2>3
<1>20. ASSUME NEW b \in seats, Gap(seats \cup {s}, s, b) PROVE q[<<s, b>>] > 0
  <2>1. b \in Int /\ s < b /\ ~(s < j /\ j < b)
    BY <1>1, <1>5, <1>20 DEF Gap
  <2>2. ~(i < b /\ b < j)
    BY <1>8
  <2>3. b = j
    BY <1>5, <1>7, <2>1, <2>2
  <2>. QED  BY <1>17, <2>3
<1>21. HasGaps(seats \cup {s}, q)
  <2>1. q \in [Pairs -> Nat] /\ s \in 0..n - 1 /\ s \notin seats
    BY <1>7, <1>12, <1>17
  <2>2. \A a, b \in seats : Gap(seats, a, b) /\ ~(a < s /\ s < b) => q[<<a, b>>] > 0
    BY <1>18
  <2>3. \A a \in seats : Gap(seats \cup {s}, a, s) => q[<<a, s>>] > 0
    BY <1>19
  <2>4. \A b \in seats : Gap(seats \cup {s}, s, b) => q[<<s, b>>] > 0
    BY <1>20
  <2>. QED  BY <2>1, <2>2, <2>3, <2>4, SeatKeeps
<1>22. Chosen(s, q)
  BY <1>1, <1>7, <1>12, <1>13, <1>21 DEF Chosen
<1>. QED  BY <1>22

LEMMA SeatStep ==
  ASSUME RoomInv, Object!Seat PROVE RoomInv' /\ returned' = expected'
<1>1. /\ class = "room" /\ Object!Cardinality(seats) < size
      /\ Object!SeatStudent(IF seats = {} THEN 0 ELSE Object!Leftmost,
                            IF seats = {} THEN 0 ELSE size - 1 - Object!Rightmost)
      /\ expected' = Object!BestSeat(ideal) /\ ideal' = ideal \cup {Object!BestSeat(ideal)}
      /\ UNCHANGED <<class, size>>
  BY DEF Object!Seat, Object!MaySeat
<1>2. Room(size)
  BY <1>1 DEF RoomInv, Room
<1>3. size \in Nat /\ seats \in SUBSET (0..size - 1) /\ seats \in SUBSET Nat /\ ideal = seats /\ pq \in [Pairs -> Nat]
  BY <1>2 DEF Room, HasGaps
<1>. PICK n : n = size
  OBVIOUS
<1>4. \E s, q : Chosen(s, q) /\ Object!SeatAt(s, q)
  <2>1. CASE seats = {}
    <3>1. Object!SeatAt(0, pq)
      <4>1. Object!Cardinality(seats) = 0
        BY <1>3, <2>1, SeatsCount
      <4>. QED  BY <1>1, <2>1, <4>1 DEF Object!SeatStudent
    <3>2. \A t \in 0..size - 1 : Dist(t) = 0
      BY <2>1 DEF Dist, Object!Distance
    <3>3. 0 \in 0..size - 1
      <4>1. Object!Cardinality(seats) = 0
        BY <1>3, <2>1, SeatsCount
      <4>. QED  BY <1>1, <1>3, <4>1
    <3>4. Object!BestSeat(seats) = 0
      <4>. PICK s : s = 0
        OBVIOUS
      <4>1. s \in 0..size - 1 /\ (\A t \in 0..size - 1 : Dist(t) <= Dist(s))
            /\ \A t \in 0..size - 1 : t < s => ~(Dist(s) <= Dist(t))
        BY <3>2, <3>3
      <4>. QED  BY <1>3, <4>1, BestIs
    <3>5. HasGaps(seats \cup {0}, pq)
      BY <1>3, <2>1 DEF HasGaps, Gap
    <3>. QED  BY <2>1, <3>1, <3>3, <3>4, <3>5 DEF Chosen
  <2>2. CASE seats # {}
    <3>. PICK l, r : l = Object!Leftmost /\ r = Object!Rightmost
      OBVIOUS
    <3>1. l \in seats /\ r \in seats /\ \A x \in seats : l <= x /\ x <= r
      BY <1>3, <2>2, EndsAre
    <3>2. Object!SeatStudent(l, n - 1 - r)
      BY <1>1, <2>2
    <3>3. Room(n) /\ Object!Cardinality(seats) < n
      BY <1>1, <1>2
    <3>4. CASE Object!Cardinality(seats) = 1 /\ Object!SeatAtEnd(l, n - 1 - r)
      <4>1. PICK x : seats = {x}
        BY <1>3, <3>4, SeatsCount
      <4>2. l = x /\ r = x /\ x \in Nat /\ x \in 0..n - 1
        BY <1>3, <3>1, <4>1
      <4>3. \A t \in l..r : Dist(t) <= 0
        <5>. SUFFICES ASSUME NEW t \in l..r PROVE Dist(t) <= 0
          OBVIOUS
        <5>1. t = x
          BY <4>2
        <5>. PICK S, d : S = seats /\ d = Dist(t)
          OBVIOUS
        <5>2. S \in SUBSET Nat /\ S # {} /\ t \in Nat /\ d = Object!Distance(t, S)
          BY <1>3, <2>2, <4>2, <5>1 DEF Dist
        <5>3. \A y \in S : d <= Apart(t, y)
          BY <5>2, DistanceIs
        <5>4. d <= 0
          BY <4>1, <4>2, <5>1, <5>3 DEF Apart
        <5>. QED  BY <5>4
      <4>. PICK h : h = 0
        OBVIOUS
      <4>4. h \in Nat /\ (h < n - 1 - r \/ h <= l) /\ \A t \in l..r : Dist(t) <= h
        BY <4>2, <4>3
      <4>. QED  BY <2>2, <3>3, <3>4, <4>4, SeatEnd
    <3>5. CASE \E p \in Object!Tops :
                 /\ Object!IsGap(p)
                 /\ IF Object!Half(p) < n - 1 - r \/ Object!Half(p) <= l
                      THEN Object!SeatAtEnd(l, n - 1 - r)
                      ELSE Object!SeatAt(p[1] + Object!Half(p),
                             Object!Push(Object!Push(Object!Drop(pq, p), <<p[1], p[1] + Object!Half(p)>>),
                                         <<p[1] + Object!Half(p), p[2]>>))
      <4>1. PICK p \in Object!Tops :
                 /\ Object!IsGap(p)
                 /\ IF Object!Half(p) < n - 1 - r \/ Object!Half(p) <= l
                      THEN Object!SeatAtEnd(l, n - 1 - r)
                      ELSE Object!SeatAt(p[1] + Object!Half(p),
                             Object!Push(Object!Push(Object!Drop(pq, p), <<p[1], p[1] + Object!Half(p)>>),
                                         <<p[1] + Object!Half(p), p[2]>>))
        BY <3>5
      <4>. PICK i, j, h : i = p[1] /\ j = p[2] /\ h = Object!Half(p)
        OBVIOUS
      <4>2. CASE h < n - 1 - r \/ h <= l
        <5>1. Object!SeatAtEnd(l, n - 1 - r)
          BY <4>1, <4>2
        <5>2. \A t \in l..r : Dist(t) <= h
          BY <2>2, <3>3, <4>1, InnerBounds
        <5>3. h \in Nat
          <6>1. l \in Object!Leftmost..Object!Rightmost
            BY <1>3, <3>1
          <6>. QED  BY <2>2, <3>3, <4>1, <6>1, InnerBounds
        <5>. QED  BY <2>2, <3>3, <4>2, <5>1, <5>2, <5>3, SeatEnd
      <4>3. CASE ~(h < n - 1 - r \/ h <= l)
        <5>. PICK s : s = i + h
          OBVIOUS
        <5>. PICK q : q = Object!Push(Object!Push(Object!Drop(pq, p), <<i, s>>), <<s, j>>)
          OBVIOUS
        <5>1. Object!SeatAt(s, q)
          BY <4>1, <4>3
        <5>2. Chosen(s, q)
          BY <2>2, <3>3, <4>1, <4>3, MiddleSeat
        <5>. QED  BY <5>1, <5>2
      <4>. QED  BY <4>2, <4>3
    <3>. QED  BY <2>2, <3>2, <3>4, <3>5 DEF Object!SeatStudent
  <2>. QED  BY <2>1, <2>2
<1>5. PICK s, q : Chosen(s, q) /\ Object!SeatAt(s, q)
  BY <1>4
<1>6. seats' = seats \cup {s} /\ pq' = q /\ returned' = s /\ Object!BestSeat(seats) = s /\ s \in 0..size - 1
      /\ HasGaps(seats \cup {s}, q)
  BY <1>5 DEF Object!SeatAt, Chosen
<1>7. expected' = s /\ ideal' = seats'
  BY <1>1, <1>3, <1>6
<1>8. HasGaps(seats', pq') /\ seats' \in SUBSET (0..size - 1)
  BY <1>3, <1>6
<1>. QED  BY <1>1, <1>3, <1>6, <1>7, <1>8 DEF RoomInv, HasGaps, Pairs

-----------------------------------------------------------------------------
(* All classes together: an object has one class, and the invariants of    *)
(* the others are true of it.                                              *)
(* Only an empty list ends the program. *)
CrashInv == class = "crashed" => ideal = <<>>

ObjectInv == returned = expected /\ CrashInv /\ HeapInv /\ ListInv /\ CalendarInv /\ RoomInv

LEMMA ObjectInitially == Object!Init => ObjectInv
<1>. SUFFICES ASSUME Object!Init PROVE ObjectInv
  OBVIOUS
<1>1. CalendarInv
  <2>1. PICK k : \E data \in [0..k - 1 -> Numbers] :
          ideal = CASE class = "heap" -> Object!Count(data)
                    [] class = "list" -> <<>>
                    [] OTHER -> {}
    BY DEF Object!Init
  <2>2. class = "calendar" => ideal = {} /\ booked = {}
    BY <2>1 DEF Object!Init
  <2>. QED  BY <2>2 DEF CalendarInv
<1>2. CrashInv
  BY DEF Object!Init, CrashInv
<1>. QED  BY <1>1, <1>2, HeapInit, ListInit, RoomInit DEF ObjectInv

(* A step that keeps the class, and of another class than C, keeps the     *)
(* invariant of C.                                                         *)
OthersStand ==
  /\ class # "heap" /\ class' # "heap" => HeapInv'
  /\ class # "list" /\ class' # "list" => ListInv'
  /\ class # "calendar" /\ class' # "calendar" => CalendarInv'
  /\ class # "room" /\ class' # "room" => RoomInv'
  /\ class' # "crashed" => CrashInv'

LEMMA OthersDo == OthersStand
BY DEF OthersStand, CrashInv, HeapInv, ListInv, CalendarInv, RoomInv

LEMMA ObjectStep == ObjectInv /\ [Object!Next]_objectVars => ObjectInv'
<1>. SUFFICES ASSUME ObjectInv, [Object!Next]_objectVars PROVE ObjectInv'
  OBVIOUS
<1>1. returned = expected /\ CrashInv /\ HeapInv /\ ListInv /\ CalendarInv /\ RoomInv
  BY DEF ObjectInv
<1>2. OthersStand
  BY OthersDo
<1>3. CASE UNCHANGED objectVars
  <2>1. HeapInv'
    BY <1>1, <1>3 DEF HeapInv, objectVars, IsHeap
  <2>2. ListInv'
    BY <1>1, <1>3 DEF ListInv, objectVars
  <2>3. CalendarInv'
    BY <1>1, <1>3 DEF CalendarInv, objectVars
  <2>4. RoomInv'
    BY <1>1, <1>3 DEF RoomInv, HasGaps, Pairs, objectVars
  <2>5. CrashInv'
    BY <1>1, <1>3 DEF CrashInv, objectVars
  <2>. QED  BY <1>1, <1>3, <2>1, <2>2, <2>3, <2>4, <2>5 DEF ObjectInv, objectVars
<1>4. ASSUME NEW v \in Numbers, Object!HeapAdd(v) PROVE ObjectInv'
  <2>1. class = "heap" /\ class' = class
    BY <1>4 DEF Object!HeapAdd
  <2>2. HeapInv' /\ returned' = expected'
    BY <1>1, <1>4, HeapAddStep
  <2>. QED  BY <1>2, <2>1, <2>2 DEF OthersStand, ObjectInv
<1>5. CASE Object!HeapRemove
  <2>1. class = "heap" /\ class' = class
    BY <1>5 DEF Object!HeapRemove
  <2>2. HeapInv' /\ returned' = expected'
    BY <1>1, <1>5, HeapRemoveStep
  <2>. QED  BY <1>2, <2>1, <2>2 DEF OthersStand, ObjectInv
<1>6. ASSUME class = "list" /\ class' = class /\ ListInv' /\ returned' = expected' PROVE ObjectInv'
  BY <1>2, <1>6 DEF OthersStand, ObjectInv
<1>7. ASSUME NEW v \in Numbers, Object!AddAtHead(v) \/ Object!AddAtTail(v) PROVE ObjectInv'
  <2>1. class = "list" /\ class' = class
    BY <1>7 DEF Object!AddAtHead, Object!AddAtTail, Object!ListKeeps
  <2>2. ListInv' /\ UNCHANGED <<returned, expected>>
    BY <1>1, <1>7, AddAtHeadStep, AddAtTailStep
  <2>. QED  BY <1>1, <1>6, <2>1, <2>2
<1>8. ASSUME NEW i \in Object!Index, Object!Get(i) \/ Object!DeleteAtIndex(i) PROVE ObjectInv'
  <2>1. class = "list" /\ class' = class
    BY <1>8 DEF Object!Get, Object!DeleteAtIndex, Object!ListKeeps
  <2>2. i \in Nat
    BY ObjectsAssumption DEF Object!Index
  <2>3. ListInv' /\ returned' = expected'
    BY <1>1, <1>8, <2>2, GetStep, DeleteAtIndexStep
  <2>. QED  BY <1>1, <1>6, <2>1, <2>3
<1>9. ASSUME NEW i \in Object!Index, NEW v \in Numbers, Object!AddAtIndex(i, v) PROVE ObjectInv'
  <2>1. class = "list" /\ class' = class
    BY <1>9 DEF Object!AddAtIndex, Object!ListKeeps
  <2>2. i \in Nat
    BY ObjectsAssumption DEF Object!Index
  <2>3. ListInv' /\ returned' = expected'
    BY <1>1, <1>9, <2>2, AddAtIndexStep
  <2>. QED  BY <1>1, <1>6, <2>1, <2>3
<1>10. ASSUME NEW i \in Object!Index, Object!DeleteCrashes(i) PROVE ObjectInv'
  <2>1. /\ class = "list" /\ class' = "crashed" /\ UNCHANGED <<ideal, returned, expected>>
        /\ linked[0] = Object!None
    BY <1>10 DEF Object!DeleteCrashes, Object!FollowsNull
  <2>2. PICK path : ideal \in Seq(Numbers) /\ IsPath(linked, val, ideal, path)
    BY <1>1, <2>1 DEF ListInv
  <2>. PICK m : m = Len(ideal)
    OBVIOUS
  <2>3. m \in Nat
    BY <2>2, LenProperties
  <2>4. m # 0 => path[1] \in 0..MaxHeld /\ linked[0] = path[1]
    BY <2>2, <2>3 DEF IsPath
  <2>5. m = 0
    BY <2>1, <2>4, ObjectsAssumption DEF Object!None
  <2>6. ideal = <<>>
    BY <2>2, <2>5, EmptySeq
  <2>. QED  BY <1>1, <2>1, <2>6 DEF ObjectInv, CrashInv, HeapInv, ListInv, CalendarInv, RoomInv
<1>11. ASSUME NEW s \in 0..MaxHour, NEW e \in 1..MaxHour, s < e, Object!Book(s, e) PROVE ObjectInv'
  <2>1. class = "calendar" /\ class' = class
    BY <1>11 DEF Object!Book
  <2>2. s \in Int /\ e \in Int
    BY ObjectsAssumption
  <2>3. CalendarInv' /\ returned' = expected'
    BY <1>1, <1>11, <2>2, BookStep
  <2>. QED  BY <1>2, <2>1, <2>3 DEF OthersStand, ObjectInv
<1>12. ASSUME class = "room" /\ class' = class /\ RoomInv' /\ returned' = expected' PROVE ObjectInv'
  BY <1>2, <1>12 DEF OthersStand, ObjectInv
<1>13. CASE Object!DropStale
  <2>1. class = "room" /\ class' = class
    BY <1>13 DEF Object!DropStale, Object!MaySeat
  <2>2. RoomInv' /\ UNCHANGED <<returned, expected>>
    BY <1>1, <1>13, DropStaleStep
  <2>. QED  BY <1>1, <1>12, <2>1, <2>2
<1>14. CASE Object!Seat
  <2>1. class = "room" /\ class' = class
    BY <1>14 DEF Object!Seat, Object!MaySeat
  <2>2. RoomInv' /\ returned' = expected'
    BY <1>1, <1>14, SeatStep
  <2>. QED  BY <1>12, <2>1, <2>2
<1>15. ASSUME NEW p \in seats, Object!Leave(p) PROVE ObjectInv'
  <2>1. class = "room" /\ class' = class
    BY <1>15 DEF Object!Leave
  <2>2. RoomInv' /\ UNCHANGED <<returned, expected>>
    BY <1>1, <1>15, LeaveStep
  <2>. QED  BY <1>1, <1>12, <2>1, <2>2
<1>16. CASE Object!Crashed
  <2>1. UNCHANGED objectVars
    BY <1>16 DEF Object!Crashed, Object!vars, Object!listVars, Object!roomVars, objectVars
  <2>. QED  BY <1>3, <2>1
<1>. QED
  BY <1>3, <1>4, <1>5, <1>7, <1>8, <1>9, <1>10, <1>11, <1>13, <1>14, <1>15, <1>16 DEF Object!Next

LEMMA ObjectAnswers == ObjectInv => Object!ObjectsAgree
<1>. SUFFICES ASSUME ObjectInv PROVE Object!ObjectsAgree
  OBVIOUS
<1>1. ASSUME class = "heap" PROVE ideal = Object!Count(heap)
  BY <1>1 DEF ObjectInv, HeapInv, IsHeap
<1>2. ASSUME class = "list"
      PROVE  /\ \A k \in 0..Len(ideal) : Object!Node(k) # Object!None
             /\ Object!Node(Len(ideal) + 1) = Object!None
             /\ \A k \in 1..Len(ideal) : val[Object!Node(k)] = ideal[k]
  <2>1. PICK path : ideal \in Seq(Numbers) /\ IsPath(linked, val, ideal, path)
    BY <1>2 DEF ObjectInv, ListInv
  <2>. PICK m : m = Len(ideal)
    OBVIOUS
  <2>2. m \in Nat
    BY <2>1, LenProperties
  <2>3. \A k \in Nat : Object!Node(k) = IF k <= m THEN path[k] ELSE Object!None
    BY <2>1, NodeIs
  <2>4. \A k \in 0..m : Object!Node(k) = path[k]
    BY <2>2, <2>3
  <2>5. Object!Node(m + 1) = Object!None
    BY <2>2, <2>3
  <2>6. (\A k \in 0..m : path[k] # Object!None) /\ \A k \in 1..m : val[path[k]] = ideal[k]
    <3>1. path \in [0..m -> 0..MaxHeld] /\ \A k \in 1..m : val[path[k]] = ideal[k]
      BY <2>1 DEF IsPath
    <3>2. \A k \in 0..m : path[k] >= 0
      BY <3>1
    <3>3. Object!None = -1
      BY DEF Object!None
    <3>. QED  BY <3>1, <3>2, <3>3
  <2>. QED  BY <2>2, <2>4, <2>5, <2>6
<1>3. ASSUME class = "calendar" PROVE ideal = UNION {i[1]..i[2] - 1 : i \in booked}
  BY <1>3 DEF ObjectInv, CalendarInv, Hours
<1>4. ASSUME class = "room"
      PROVE  /\ ideal = seats
             /\ \A p, q \in seats : p < q /\ Object!IsGap(<<p, q>>) => <<p, q>> \in Object!Queued
  <2>1. size \in Nat /\ seats \in SUBSET (0..size - 1) /\ ideal = seats /\ HasGaps(seats, pq)
    BY <1>4 DEF ObjectInv, RoomInv
  <2>2. ASSUME NEW p \in seats, NEW q \in seats, Object!IsGap(<<p, q>>) PROVE <<p, q>> \in Object!Queued
    <3>1. p \in 0..size - 1 /\ q \in 0..size - 1 /\ size - 1 \in Nat
      BY <2>1
    <3>2. Gap(seats, p, q)
      BY <2>1, <2>2, <3>1, GapIs
    <3>3. <<p, q>> \in Pairs /\ pq[<<p, q>>] > 0 /\ pq \in [Pairs -> Nat]
      BY <2>1, <3>1, <3>2 DEF HasGaps, Pairs
    <3>. QED  BY <3>3 DEF Object!Queued
  <2>. QED  BY <2>1, <2>2
<1>. QED  BY <1>1, <1>2, <1>3, <1>4 DEF ObjectInv, CrashInv, Object!ObjectsAgree

-----------------------------------------------------------------------------
(* All programs together: what one of them does, the others do not see.    *)
SamplesInv ==
  /\ SlotInv /\ PullerInv /\ DecodeInv /\ DecodeWrittenInv /\ DemuxInv /\ EncodeInv /\ ObjectInv

LEMMA SamplesAlways == FairSpec => []SamplesInv
<1>1. Init => SamplesInv
  BY SlotInitially, PullerInitially, DecodeInitially, DecodeWrittenInitially,
     DemuxInitially, EncodeInitially, ObjectInitially
     DEF Init, SamplesInv
<1>2. SamplesInv /\ [Next]_vars => SamplesInv'
  <2>. SUFFICES ASSUME SamplesInv, [Next]_vars PROVE SamplesInv'
    OBVIOUS
  <2>1. /\ [Slot!Next]_slotVars /\ [Puller!Next]_pullerVars /\ [Decode!Next]_decodeVars
        /\ [Demux!Next]_demuxVars /\ [Encode!Next]_encodeVars /\ [Object!Next]_objectVars
    <3>1. CASE UNCHANGED vars
      BY <3>1 DEF vars
    <3>2. CASE Ended
      BY <3>2 DEF Ended, vars
    <3>3. CASE InSlot(Slot!Next)
      BY <3>3 DEF InSlot
    <3>4. CASE InPuller(Puller!Next)
      BY <3>4 DEF InPuller
    <3>5. CASE InDecode(Decode!Next)
      BY <3>5 DEF InDecode
    <3>6. CASE InDemux(Demux!Next)
      BY <3>6 DEF InDemux
    <3>7. CASE InEncode(Encode!Next)
      BY <3>7 DEF InEncode
    <3>8. CASE InObject(Object!Next)
      BY <3>8 DEF InObject
    <3>. QED  BY <3>1, <3>2, <3>3, <3>4, <3>5, <3>6, <3>7, <3>8 DEF Next
  <2>. QED
    BY <2>1, SlotStep, PullerStep, DecodeStep, DecodeWrittenStep, DemuxStep, EncodeStep,
       ObjectStep DEF SamplesInv
<1>. QED  BY <1>1, <1>2, PTL DEF FairSpec

(* Single notifications are enough on both conditions of the slots, for    *)
(* any numbers of threads and slots (5_producer_consumer.cpp:41, 61).      *)
THEOREM SlotWakeups == FairSpec => []WakeupsSuffice
<1>1. SamplesInv => WakeupsSuffice
  <2>. SUFFICES ASSUME SlotWakeInv PROVE Slot!WakeupsSuffice
    BY DEF SamplesInv, SlotInv, WakeupsSuffice
  <2>1. /\ SlotCallers(Producers) = {p \in Producers : Slot!Calls(p)}
        /\ SlotCallers(Consumers) = {c \in Consumers : Slot!Calls(c)}
        /\ SlotSleepers(Producers) = Slot!OnSlotFull
        /\ SlotSleepers(Consumers) = Slot!OnSlotEmpty
    BY DEF SlotSleepers, SlotCallers, Slot!OnSlotFull, Slot!OnSlotEmpty
  <2>2. /\ Slot!OnSlotFull # {} => Len(slots) + Cardinality(SlotCallers(Producers)) >= Capacity
        /\ Slot!OnSlotEmpty # {} => Len(slots) <= Cardinality(SlotCallers(Consumers))
    BY <2>1 DEF SlotWakeInv
  <2>3. ASSUME NEW S PROVE Slot!Cardinality(S) = Cardinality(S)
    BY DEF Slot!Cardinality, Cardinality
  <2>. QED  BY <2>1, <2>2, <2>3, Zenon DEF Slot!WakeupsSuffice
<1>. QED  BY <1>1, SamplesAlways, PTL

(* The puller's frames reach main in order, the newest one that it has not *)
(* taken is always there, and what it has taken it shows, unless a         *)
(* reference could not be made (pull_ipc.cpp:108-123, 419-479).            *)
THEOREM NewestFrameWaits == FairSpec => []NewestWaits
<1>1. SamplesInv => NewestWaits
  BY DEF SamplesInv, PullerInv, PullerTypeInv, PullerFrameInv, NewestWaits, Puller!NewestWaits
<1>. QED  BY <1>1, SamplesAlways, PTL

(* Nothing is freed that the decoding thread still uses, and main returns  *)
(* with nothing held (pull_ipc.cpp:154-376, 492-523).                      *)
THEOREM NothingFreedEarly == FairSpec => []ContextsOutliveDecoder
<1>1. SamplesInv => ContextsOutliveDecoder
  BY DEF SamplesInv, PullerInv, PullerTypeInv, PullerPhaseInv, PullerHeldInv, PullerInLoop,
         ContextsOutliveDecoder, Puller!ContextsOutliveDecoder, Puller!Codec, Acquired, IfAfter
<1>. QED  BY <1>1, SamplesAlways, PTL

(* No frame gets through a codec program twice or out of the order that    *)
(* its codec gives it, and all of them do when the program reports success *)
(* and no read, write or decoding failed unnoticed; for any lengths of     *)
(* file, packet, buffer and delay (decode_video.c:153-187,                 *)
(* decode_audio.c:195-242, demux_decode.c:99-129, encode_video.c:54-76).   *)
THEOREM FramesGetThrough == FairSpec => []EveryFrameWritten
<1>1. SamplesInv => EveryFrameWritten
  BY DecodeSaves, DemuxSaves, EncodeSaves DEF SamplesInv, EveryFrameWritten
<1>. QED  BY <1>1, SamplesAlways, PTL

(* Whichever call fails, the demultiplexer and the JPEG encoder, and they  *)
(* alone, end with nothing held (demux_decode.c:387-400;                   *)
(* read_one_video_frame.c:27-307).                                         *)
THEOREM EverythingReleased == FairSpec => []ReleasesAll
<1>1. SamplesInv => ReleasesAll
  BY DemuxSaves, EncodeSaves DEF SamplesInv, ReleasesAll
<1>. QED  BY <1>1, SamplesAlways, PTL

(* Whatever was called before, a heap, a list, a calendar and an exam room *)
(* of any size hold and answer what they should, and the room's queue, for *)
(* all the gaps in it that are none any more, lacks none; only             *)
(* deleteAtIndex ends the program, and only when the list is empty         *)
(* (min_heap_array_impl.cpp:4-108, 707.cpp:13-84, 729.cpp:52-65,           *)
(* 855.cpp:32-72).                                                         *)
THEOREM ObjectsAlwaysAgree == FairSpec => []ObjectsAgree
<1>1. SamplesInv => ObjectsAgree
  BY ObjectAnswers DEF SamplesInv, ObjectsAgree
<1>. QED  BY <1>1, SamplesAlways, PTL
==============================================================================
