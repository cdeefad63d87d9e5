--------------------------- MODULE SortedTimerList ---------------------------
(***************************************************************************)
(* sorted_timer_list of chapter11_timer/ascending_linkedlist_timer_impl.h: *)
(* a doubly linked list of timers in ascending order of expiry.  A list is *)
(* a record of the two end pointers and of the fields of every util_timer; *)
(* each member function is an operator from a list to the list it leaves   *)
(* behind, pointer assignment by pointer assignment.                       *)
(***************************************************************************)
EXTENDS Naturals, FiniteSets

CONSTANTS Timers,    \* the util_timer objects
          Null       \* nullptr

ASSUME NullAssumption == Null \notin Timers

(* The list of the constructor; the fields of timers not created yet are   *)
(* given some value.                                                       *)
EmptyList ==
  [head |-> Null, tail |-> Null,
   prev |-> [t \in Timers |-> Null],
   next |-> [t \in Timers |-> Null],
   expire |-> [t \in Timers |-> 0]]

(* new util_timer followed by the assignment of expire. *)
NewTimer(L, t, e) ==
  [L EXCEPT !.prev[t] = Null, !.next[t] = Null, !.expire[t] = e]

SetExpire(L, t, e) == [L EXCEPT !.expire[t] = e]

(* The loop of the private add_timer: the last node from h on whose        *)
(* successor is not before t.                                              *)
InsertionPoint(L, t, h) ==
  LET walk[p \in Timers] ==
        IF L.next[p] # Null /\ L.expire[t] > L.expire[L.next[p]]
          THEN walk[L.next[p]]
          ELSE p
  IN  walk[h]

(* The private add_timer: somewhere after h, which is not after t. *)
AddAfter(L, t, h) ==
  LET p == InsertionPoint(L, t, h)
      s == L.next[p]
  IN  IF s # Null
        THEN [L EXCEPT !.next[p] = t, !.prev[t] = p, !.next[t] = s, !.prev[s] = t]
        ELSE [L EXCEPT !.next[p] = t, !.prev[t] = p, !.next[t] = Null, !.tail = t]

AddTimer(L, t) ==
  IF L.head = Null THEN [L EXCEPT !.head = t, !.tail = t]
  ELSE IF L.expire[t] < L.expire[L.head]
         THEN [L EXCEPT !.next[t] = L.head, !.prev[L.head] = t, !.head = t]
         ELSE AddAfter(L, t, L.head)

(* Mutant of AdjustTimer: a timer that must move stays where it is. *)
AdjustTimerNever(L, t) == L

(* adjust_timer, after the caller has raised t's expiry. *)
AdjustTimer(L, t) ==
  LET s == L.next[t]
      p == L.prev[t]
  IN  IF s = Null THEN L
      ELSE IF L.expire[t] < L.expire[s] THEN L
      ELSE IF t = L.head
             THEN AddAfter([L EXCEPT !.head = s, !.prev[s] = Null, !.next[t] = Null], t, s)
             ELSE AddAfter([L EXCEPT !.next[p] = s, !.prev[s] = p], t, s)

(* What is left of a timer that was deleted holds nothing. *)
Freed(L, t) == [L EXCEPT !.prev[t] = Null, !.next[t] = Null, !.expire[t] = 0]

(* Mutant of Unlink: the case of the tail is missing its assignment. *)
UnlinkKeepTail(L, t) ==
  LET s == L.next[t]
      p == L.prev[t]
  IN  IF t = L.head /\ t = L.tail THEN [L EXCEPT !.head = Null, !.tail = Null]
      ELSE IF t = L.head THEN [L EXCEPT !.head = s, !.prev[s] = Null]
      ELSE IF t = L.tail THEN [L EXCEPT !.next[p] = Null]
      ELSE [L EXCEPT !.next[p] = s, !.prev[s] = p]

(* The four cases of del_timer. *)
Unlink(L, t) ==
  LET s == L.next[t]
      p == L.prev[t]
  IN  IF t = L.head /\ t = L.tail THEN [L EXCEPT !.head = Null, !.tail = Null]
      ELSE IF t = L.head THEN [L EXCEPT !.head = s, !.prev[s] = Null]
      ELSE IF t = L.tail THEN [L EXCEPT !.tail = p, !.next[p] = Null]
      ELSE [L EXCEPT !.next[p] = s, !.prev[s] = p]

DelTimer(L, t) == Freed(Unlink(L, t), t)

(* One round of tick's loop, after the callback: the head goes.  A tail    *)
(* that goes with it stays behind as a dangling pointer.                   *)
PopHead(L) ==
  LET s == L.next[L.head]
  IN  IF s = Null THEN Freed([L EXCEPT !.head = Null], L.head)
                  ELSE Freed([L EXCEPT !.head = s, !.prev[s] = Null], L.head)

(* Mutant of HeadIsDue: the comparison with the expiry is strict. *)
HeadIsLate(L, cur) == L.head # Null /\ cur > L.expire[L.head]

(* tick's loop goes on. *)
HeadIsDue(L, cur) == L.head # Null /\ cur >= L.expire[L.head]

-----------------------------------------------------------------------------
(* What a list looks like from outside.  A node's position is the number   *)
(* of nodes in front of it, following prev.                                *)
Linked(L) ==
  LET reach[n \in 0..Cardinality(Timers)] ==
        IF n = 0 THEN {L.head} \ {Null}
        ELSE reach[n - 1] \cup ({L.next[t] : t \in reach[n - 1]} \ {Null})
  IN  reach[Cardinality(Timers)]

(* prev and next mirror each other over the nodes of the list, the ends    *)
(* are where head and tail say, and nothing is linked twice.               *)
WellLinked(L) ==
  L.head # Null =>
    /\ L.prev[L.head] = Null
    /\ L.tail \in Linked(L) /\ L.next[L.tail] = Null
    /\ \A t \in Linked(L) :
         /\ L.next[t] # Null => L.prev[L.next[t]] = t
         /\ L.prev[t] # Null => L.next[L.prev[t]] = t
         /\ t # L.tail => L.next[t] # Null

Ascending(L) ==
  \A t \in Linked(L) : L.next[t] # Null => L.expire[t] <= L.expire[L.next[t]]
==============================================================================
