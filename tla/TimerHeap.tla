------------------------------- MODULE TimerHeap ------------------------------
(***************************************************************************)
(* time_heap of chapter11_timer/min_heap_timer.h under every sequence of   *)
(* legal calls: a binary heap of timer pointers in an array that doubles   *)
(* when it is full.  del_timer only clears the callback; such a timer      *)
(* stays in the heap until it reaches the top.                             *)
(***************************************************************************)
EXTENDS Naturals

CONSTANTS Timers,      \* the heap_timer objects
          Null,        \* nullptr
          Capacities,  \* the capacities a heap is constructed with
          MaxTime      \* bound of the clock and of every expiry

VARIABLES array,     \* the cells, from 0 to capacity - 1
          capacity, cur_size,
          expire,    \* the expiry of each timer
          armed,     \* the timers with a callback
          now,       \* what time(NULL) returns
          tmp, cur   \* tick's local variables; cur is Null outside tick

vars == <<array, capacity, cur_size, expire, armed, now, tmp, cur>>

(* In the operators below A is an array, e the expiries, n the size. *)
Cells(A, n) == {A[i] : i \in 0..n-1}

(* resize: twice the cells, the first n copied. *)
Resized(A, n) == [i \in 0..2 * capacity - 1 |-> IF i < n THEN A[i] ELSE Null]

(* The child that percolate_down compares with, for the hole at i.         *)
Child(A, e, n, i) ==
  LET left == 2 * i + 1
  IN  IF left < n - 1 /\ e[A[left + 1]] < e[A[left]] THEN left + 1 ELSE left

(* Mutant of PercolateDown: one level only. *)
PercolateDownOnce(A, e, n, h) ==
  IF 2 * h + 1 <= n - 1 /\ e[A[2 * h + 1]] < e[A[h]]
    THEN [A EXCEPT ![h] = A[2 * h + 1], ![2 * h + 1] = A[h]]
    ELSE A

(* sift[i] is the array when the loop goes on with the hole at i.  What it *)
(* reads below i nobody has written yet.                                   *)
PercolateDown(A, e, n, h) ==
  LET sift[i \in DOMAIN A] ==
        LET child == Child(A, e, n, i)
        IN  IF 2 * i + 1 <= n - 1 /\ e[A[child]] < e[A[h]]
              THEN [sift[child] EXCEPT ![i] = A[child]]
              ELSE [A EXCEPT ![i] = A[h]]
  IN  sift[h]

(* The second constructor: built[i] is the array after percolate_down(i),  *)
(* the calls starting at the last inner node.                              *)
Heapify(A, e, n) ==
  LET built[i \in 0..n] ==
        IF i > (n - 1) \div 2 THEN A ELSE PercolateDown(built[i + 1], e, n, i)
  IN  built[0]

(* Mutant of Raise: the hole stays where it is. *)
RaiseNot(A, e, t, h) == [A EXCEPT ![h] = t]

(* add_timer's loop: raise[i] is the array when t goes up from the hole i. *)
Raise(A, e, t, h) ==
  LET raise[i \in 0..h] ==
        LET parent == (i - 1) \div 2
        IN  IF i > 0 /\ ~(e[A[parent]] <= e[t])
              THEN [raise[parent] EXCEPT ![i] = A[parent]]
              ELSE [A EXCEPT ![i] = t]
  IN  raise[h]

(* Arrays of n distinct timers. *)
InitArrays(n) ==
  {A \in [0..n-1 -> Timers] : \A i, j \in 0..n-1 : A[i] = A[j] => i = j}

(* The two constructors: an empty heap, or one built from given timers. *)
Init ==
  /\ now = 0
  /\ tmp = Null /\ cur = Null
  /\ capacity \in Capacities
  /\ cur_size \in 0..capacity
  /\ \E A \in InitArrays(cur_size) :
       /\ armed = Cells(A, cur_size)
       /\ expire \in {e \in [Timers -> 0..MaxTime] : \A t \in Timers \ armed : e[t] = 0}
       /\ LET padded == [i \in 0..capacity-1 |-> IF i < cur_size THEN A[i] ELSE Null]
          IN  array = IF cur_size = 0 THEN padded ELSE Heapify(padded, expire, cur_size)

(* The timers of the heap, deleted ones included. *)
Members == Cells(array, cur_size)

-----------------------------------------------------------------------------
Advance ==
  /\ now < MaxTime
  /\ now' = now + 1
  /\ UNCHANGED <<array, capacity, cur_size, expire, armed, tmp, cur>>

(* new heap_timer(delay), the assignment of its callback, and add_timer. *)
Add(t, delay) ==
  LET full == cur_size >= capacity
  IN  /\ cur = Null
      /\ t \notin Members
      /\ now + delay <= MaxTime
      /\ expire' = [expire EXCEPT ![t] = now + delay]
      /\ capacity' = IF full THEN 2 * capacity ELSE capacity
      /\ array' = Raise(IF full THEN Resized(array, cur_size) ELSE array, expire', t, cur_size)
      /\ cur_size' = cur_size + 1
      /\ armed' = armed \cup {t}
      /\ UNCHANGED <<now, tmp, cur>>

Delete(t) ==
  /\ cur = Null
  /\ t \in Members
  /\ armed' = armed \ {t}
  /\ UNCHANGED <<array, capacity, cur_size, expire, now, tmp, cur>>

(* pop_timer: the first timer is deleted, the last one takes its place and *)
(* goes down.  The cell the last one leaves is not read again before it is *)
(* written and is cleared here, as is what is left of the deleted timer;   *)
(* a heap that becomes empty keeps the pointer just deleted in cell 0.     *)
PopTimer ==
  LET n == cur_size - 1
      A == PercolateDown([array EXCEPT ![0] = array[n]], expire, n, 0)
  IN  /\ array' = IF n = 0 THEN A ELSE [A EXCEPT ![n] = Null]
      /\ cur_size' = n
      /\ armed' = armed \ {array[0]}
      /\ expire' = [expire EXCEPT ![array[0]] = 0]
      /\ UNCHANGED capacity

(* A caller may pop without a tick, whatever top() is due. *)
Pop ==
  /\ cur = Null
  /\ cur_size > 0
  /\ PopTimer
  /\ UNCHANGED <<now, tmp, cur>>

TickBegin ==
  /\ cur = Null
  /\ tmp' = array[0]
  /\ cur' = now
  /\ UNCHANGED <<array, capacity, cur_size, expire, armed, now>>

(* The condition under which tick's loop goes round. *)
Due == cur_size > 0 /\ tmp # Null /\ expire[tmp] <= cur

(* One round: the callback, unless del_timer cleared it, and pop_timer. *)
TickRound ==
  /\ cur # Null
  /\ Due
  /\ PopTimer
  /\ tmp' = array'[0]
  /\ UNCHANGED <<now, cur>>

TickEnd ==
  /\ cur # Null
  /\ ~Due
  /\ cur' = Null
  /\ tmp' = Null
  /\ UNCHANGED <<array, capacity, cur_size, expire, armed, now>>

Next ==
  \/ Advance
  \/ \E t \in Timers, delay \in 0..MaxTime : Add(t, delay)
  \/ \E t \in Timers : Delete(t)
  \/ Pop \/ TickBegin \/ TickRound \/ TickEnd

Spec == Init /\ [][Next]_vars

-----------------------------------------------------------------------------
(* No timer is in two cells, none is lost by a resize, an armed timer is   *)
(* in the heap, and no parent is later than its child: what tick needs to  *)
(* stop at the first timer that is not due (min_heap_timer.h:120-128).     *)
HeapOrdered ==
  /\ cur_size <= capacity
  /\ \A i, j \in 0..cur_size-1 : array[i] = array[j] => i = j
  /\ armed \subseteq Members /\ Null \notin Members
  /\ \A i \in 1..cur_size-1 : expire[array[(i - 1) \div 2]] <= expire[array[i]]

(* With the deleted timers left out, the heap implements the abstract      *)
(* timer queue: a callback is made in the order of the expiries, in the    *)
(* first tick that is not too early, and never after del_timer             *)
(* (min_heap_timer.h:90-97, 114-130).  pop_timer called from outside is a  *)
(* deletion of the first timer.                                            *)
Queue == INSTANCE TimerQueue WITH
           None <- Null, pending <- armed,
           due <- [t \in Timers |-> IF t \in armed THEN expire[t] ELSE 0]

HeapImplementsQueue == Queue!Spec
==============================================================================
