------------------------------- MODULE TimeWheel ------------------------------
(***************************************************************************)
(* time_wheel of chapter11_timer/time_wheel_timer.h under every sequence   *)
(* of legal calls: N slots, each an unordered doubly linked list of        *)
(* timers, and a current slot that advances by one with every tick.  A     *)
(* timer waits in its slot for as many further turns as its rotation says. *)
(* Only the links and the arithmetic decide when a timer fires; the wheel  *)
(* implements TimerQueue with the number of ticks as its clock.            *)
(***************************************************************************)
EXTENDS Naturals, FiniteSets

CONSTANTS Timers,      \* the tw_timer objects
          Null,        \* nullptr
          N,           \* the number of slots (60 in the code)
          SI,          \* the slot interval (1 in the code)
          MaxTimeout,  \* bound of add_timer's argument
          MaxTicks     \* bound of the number of ticks

VARIABLES slots,     \* the first timer of each slot, or Null
          cur_slot,
          prev, next, rotation, time_slot,  \* the fields of the timers
          live,      \* the timers that exist
          tmp,       \* tick's local variable
          ticking,   \* a tick is running
          ticks,     \* history: how many ticks have ended
          due        \* history: the tick each timer is to fire in

fields == <<prev, next, rotation, time_slot>>
vars == <<slots, cur_slot, fields, live, tmp, ticking, ticks, due>>

Init ==
  /\ slots = [s \in 0..N-1 |-> Null]
  /\ cur_slot = 0
  /\ prev = [t \in Timers |-> Null]
  /\ next = [t \in Timers |-> Null]
  /\ rotation = [t \in Timers |-> 0]
  /\ time_slot = [t \in Timers |-> 0]
  /\ live = {}
  /\ tmp = Null
  /\ ticking = FALSE
  /\ ticks = 0
  /\ due = [t \in Timers |-> 0]

(* A timeout below the slot interval counts as one tick, any other one is  *)
(* rounded down.                                                           *)
TicksOf(timeout) == IF timeout < SI THEN 1 ELSE timeout \div SI

(* Mutant of Turns: whole turns are rounded up. *)
TurnsRoundedUp(k) == (k + N - 1) \div N

Turns(k) == k \div N

(* Mutant of Unlink: the timer behind t keeps its link to t. *)
UnlinkHalf(t, s) ==
  IF t = slots[s]
    THEN /\ slots' = [slots EXCEPT ![s] = next[t]]
         /\ prev' = [u \in Timers |-> IF u \in {t, next[t]} THEN Null ELSE prev[u]]
         /\ next' = [next EXCEPT ![t] = Null]
    ELSE /\ next' = [next EXCEPT ![prev[t]] = next[t], ![t] = Null]
         /\ prev' = [prev EXCEPT ![t] = Null]
         /\ UNCHANGED slots

(* Taking t out of the list of slot s, as del_timer and tick both do it. *)
Unlink(t, s) ==
  IF t = slots[s]
    THEN /\ slots' = [slots EXCEPT ![s] = next[t]]
         /\ prev' = [u \in Timers |-> IF u \in {t, next[t]} THEN Null ELSE prev[u]]
         /\ next' = [next EXCEPT ![t] = Null]
    ELSE /\ next' = [next EXCEPT ![prev[t]] = next[t], ![t] = Null]
         /\ prev' = [u \in Timers |-> IF u = t THEN Null
                                      ELSE IF u = next[t] THEN prev[t] ELSE prev[u]]
         /\ UNCHANGED slots

(* add_timer: a new timer becomes the first of its slot. *)
Add(t, timeout) ==
  LET k  == TicksOf(timeout)
      ts == (cur_slot + (k % N)) % N
      first == slots[ts]
  IN  /\ ~ticking
      /\ t \notin live
      /\ live' = live \cup {t}
      /\ rotation' = [rotation EXCEPT ![t] = Turns(k)]
      /\ time_slot' = [time_slot EXCEPT ![t] = ts]
      /\ slots' = [slots EXCEPT ![ts] = t]
      /\ next' = [next EXCEPT ![t] = first]
      /\ prev' = [u \in Timers |-> IF u = t THEN Null
                                   ELSE IF u = first THEN t ELSE prev[u]]
      /\ due' = [due EXCEPT ![t] = ticks + k]
      /\ UNCHANGED <<cur_slot, tmp, ticking, ticks>>

Delete(t) ==
  /\ ~ticking
  /\ t \in live
  /\ Unlink(t, time_slot[t])
  /\ live' = live \ {t}
  /\ UNCHANGED <<cur_slot, rotation, time_slot, tmp, ticking, ticks, due>>

TickBegin ==
  /\ ~ticking
  /\ ticks < MaxTicks
  /\ ticking' = TRUE
  /\ tmp' = slots[cur_slot]
  /\ UNCHANGED <<slots, cur_slot, fields, live, ticks, due>>

(* A timer with turns left loses one and is passed. *)
TickPass ==
  /\ ticking /\ tmp # Null
  /\ rotation[tmp] > 0
  /\ rotation' = [rotation EXCEPT ![tmp] = @ - 1]
  /\ tmp' = next[tmp]
  /\ UNCHANGED <<slots, cur_slot, prev, next, time_slot, live, ticking, ticks, due>>

(* Mutant of TickFire: after a timer that was not the first of its slot    *)
(* the walk ends.                                                          *)
TickFireLast ==
  /\ ticking /\ tmp # Null
  /\ rotation[tmp] = 0
  /\ Unlink(tmp, cur_slot)
  /\ live' = live \ {tmp}
  /\ tmp' = IF tmp = slots[cur_slot] THEN next[tmp] ELSE Null
  /\ UNCHANGED <<cur_slot, rotation, time_slot, ticking, ticks, due>>

(* The callback is called, then the timer is unlinked and deleted. *)
TickFire ==
  /\ ticking /\ tmp # Null
  /\ rotation[tmp] = 0
  /\ Unlink(tmp, cur_slot)
  /\ live' = live \ {tmp}
  /\ tmp' = next[tmp]
  /\ UNCHANGED <<cur_slot, rotation, time_slot, ticking, ticks, due>>

TickEnd ==
  /\ ticking /\ tmp = Null
  /\ cur_slot' = (cur_slot + 1) % N
  /\ ticking' = FALSE
  /\ ticks' = ticks + 1
  /\ UNCHANGED <<slots, fields, live, tmp, due>>

Next ==
  \/ \E t \in Timers, timeout \in 0..MaxTimeout : Add(t, timeout)
  \/ \E t \in Timers : Delete(t)
  \/ TickBegin \/ TickPass \/ TickFire \/ TickEnd

Spec == Init /\ [][Next]_vars

-----------------------------------------------------------------------------
(* The timers of a slot, by following next n times at most. *)
InSlot(s) ==
  LET reach[n \in 0..Cardinality(Timers)] ==
        IF n = 0 THEN {slots[s]} \ {Null}
        ELSE reach[n - 1] \cup ({next[t] : t \in reach[n - 1]} \ {Null})
  IN  reach[Cardinality(Timers)]

(* Every timer that exists is in the list of its time_slot and in no other *)
(* one, the links mirror each other, and nothing deleted is linked: what   *)
(* del_timer needs, which finds the list by time_slot and the neighbours   *)
(* by the links (time_wheel_timer.h:76-88).                                *)
WheelIntact ==
  /\ \A s \in 0..N-1 : InSlot(s) = {t \in live : time_slot[t] = s}
  /\ \A t \in live :
       /\ next[t] # Null => prev[next[t]] = t
       /\ IF slots[time_slot[t]] = t THEN prev[t] = Null ELSE next[prev[t]] = t

(* A timer fires in the tick that comes after as many ticks as its timeout *)
(* is worth (time_wheel_timer.h:51-60), whatever the position of the wheel *)
(* when it was added: the wheel implements the abstract timer queue.       *)
Queue == INSTANCE TimerQueue WITH
           None <- Null, pending <- live,
           cur <- IF ticking THEN ticks ELSE Null

WheelImplementsQueue == Queue!Spec
==============================================================================
