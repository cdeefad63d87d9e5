-------------------------- MODULE ProducerConsumer ---------------------------
(***************************************************************************)
(* cpp/thread/5_producer_consumer.cpp: producers and consumers with fixed  *)
(* quotas share a Slot, a stack of bounded capacity guarded by a mutex and *)
(* two condition variables.  g_counter counts every number that is in a    *)
(* slot; its mutex is only ever taken inside the Slot's.                   *)
(*                                                                         *)
(* produce and consume hold the mutex from their first line to their last, *)
(* notification included, so a call is one step unless it has to sleep;    *)
(* being woken leads to another attempt.                                   *)
(***************************************************************************)
EXTENDS Integers, Sequences, FiniteSets

CONSTANTS Producers, Consumers,   \* the threads
          Quota,                  \* [thread -> Nat]: calls each one makes
          Capacity,               \* the number of slots
          Values                  \* what distrib(engine) may return

Threads == Producers \cup Consumers

VARIABLES slots,      \* slots[0..size-1]; the last element is the newest
          g_counter,  \* [Values -> Nat]: 0 for a number that is not a key
          left,       \* calls each thread has still to make
          state       \* [Threads -> "running" | "waiting" | "joined"]

vars == <<slots, g_counter, left, state>>

Init ==
  /\ slots = <<>>
  /\ g_counter = [v \in Values |-> 0]
  /\ left = Quota
  /\ state = [t \in Threads |-> "running"]

(* Producers sleep on slot_full, consumers on slot_empty. *)
OnSlotFull  == {p \in Producers : state[p] = "waiting"}
OnSlotEmpty == {c \in Consumers : state[c] = "waiting"}

(* t's call ends with notify_one on the condition the sleepers wait for. *)
FinishCall(t, sleepers) ==
  /\ left' = [left EXCEPT ![t] = @ - 1]
  /\ \/ sleepers = {} /\ UNCHANGED state
     \/ \E s \in sleepers : state' = [state EXCEPT ![s] = "running"]

Calls(t) == state[t] = "running" /\ left[t] > 0

(* Mutant of Produce: consumers are only notified of the first number. *)
ProduceNotifyFirst(p) ==
  /\ Calls(p)
  /\ Len(slots) < Capacity
  /\ \E v \in Values :
       /\ slots' = Append(slots, v)
       /\ g_counter' = [g_counter EXCEPT ![v] = @ + 1]
  /\ FinishCall(p, IF slots = <<>> THEN OnSlotEmpty ELSE {})

Produce(p) ==
  /\ Calls(p)
  /\ Len(slots) < Capacity
  /\ \E v \in Values :
       /\ slots' = Append(slots, v)
       /\ g_counter' = [g_counter EXCEPT ![v] = @ + 1]
  /\ FinishCall(p, OnSlotEmpty)

ProducerSleeps(p) ==
  /\ Calls(p)
  /\ Len(slots) >= Capacity
  /\ state' = [state EXCEPT ![p] = "waiting"]
  /\ UNCHANGED <<slots, g_counter, left>>

(* Mutant of Consume: the number is read from the wrong slot. *)
ConsumeOldest(c) ==
  /\ Calls(c)
  /\ slots # <<>>
  /\ LET v == slots[1] IN
       /\ slots' = SubSeq(slots, 1, Len(slots) - 1)
       /\ g_counter' = [g_counter EXCEPT ![v] = @ - 1]
  /\ FinishCall(c, OnSlotFull)

(* slots[--size]; a count of 0 takes the number out of the map. *)
Consume(c) ==
  /\ Calls(c)
  /\ slots # <<>>
  /\ LET v == slots[Len(slots)] IN
       /\ slots' = SubSeq(slots, 1, Len(slots) - 1)
       /\ g_counter' = [g_counter EXCEPT ![v] = @ - 1]
  /\ FinishCall(c, OnSlotFull)

ConsumerSleeps(c) ==
  /\ Calls(c)
  /\ slots = <<>>
  /\ state' = [state EXCEPT ![c] = "waiting"]
  /\ UNCHANGED <<slots, g_counter, left>>

WakeSpuriously(t) ==
  /\ state[t] = "waiting"
  /\ state' = [state EXCEPT ![t] = "running"]
  /\ UNCHANGED <<slots, g_counter, left>>

(* The thread's function returns and main joins it. *)
Join(t) ==
  /\ state[t] = "running" /\ left[t] = 0
  /\ state' = [state EXCEPT ![t] = "joined"]
  /\ UNCHANGED <<slots, g_counter, left>>

AllJoined == \A t \in Threads : state[t] = "joined"

Terminated == AllJoined /\ UNCHANGED vars

Next ==
  \/ \E p \in Producers : Produce(p) \/ ProducerSleeps(p)
  \/ \E c \in Consumers : Consume(c) \/ ConsumerSleeps(c)
  \/ \E t \in Threads : WakeSpuriously(t) \/ Join(t)
  \/ Terminated

Spec == Init /\ [][Next]_vars

(* A thread that can complete its call again and again does so in the end; *)
(* a wake-up without a notification cannot be counted on.                  *)
FairSpec ==
  /\ Spec
  /\ \A p \in Producers : SF_vars(Produce(p)) /\ WF_vars(ProducerSleeps(p))
  /\ \A c \in Consumers : SF_vars(Consume(c)) /\ WF_vars(ConsumerSleeps(c))
  /\ \A t \in Threads : WF_vars(Join(t))

-----------------------------------------------------------------------------
(* notify_one is enough: while a producer sleeps, every free slot is       *)
(* spoken for by a producer that is awake, and while a consumer sleeps,    *)
(* every number by a consumer that is awake (lines 41, 61).                *)
WakeupsSuffice ==
  /\ OnSlotFull # {} =>
       Len(slots) + Cardinality({p \in Producers : Calls(p)}) >= Capacity
  /\ OnSlotEmpty # {} =>
       Len(slots) <= Cardinality({c \in Consumers : Calls(c)})

(* With quotas that add up (main: 4+5+7 numbers produced, 4+3+4+5          *)
(* consumed) every thread ends, and main finds g_counter empty (lines      *)
(* 92-101).                                                                *)
EveryoneJoins == <>(AllJoined /\ \A v \in Values : g_counter[v] = 0)
==============================================================================
