------------------------------ MODULE Collections -----------------------------
(***************************************************************************)
(* Four classes of algorithm/, each under every sequence of legal calls:   *)
(* ArrayMinHeap (src/heap/min_heap_array_impl.cpp), MyLinkedList           *)
(* (leetcode/linked_list/707.cpp), MyCalendar2 (leetcode/set/729.cpp) and  *)
(* ExamRoom (leetcode/simulation/855.cpp).  The variable class says which. *)
(*                                                                         *)
(* ideal is what the object should hold by now and expected what the last  *)
(* call should have returned, both from the problem it solves; the other   *)
(* variables follow the code.                                              *)
(***************************************************************************)
EXTENDS Integers, Sequences, FiniteSets, SequencesExt, FiniteSetsExt, Functions

CONSTANTS Numbers,         \* integers that a heap or a list holds
          MaxLen,          \* bound: elements of a heap or a list
          MaxTime,         \* bound: the calendar's times are 0..MaxTime
          Rooms,           \* sizes of exam rooms
          MaxIntervals     \* bound: intervals in ExamRoom's queue

VARIABLES
  class,
  heap,                    \* ArrayMinHeap: the array, from 0 on
  next, val,               \* MyLinkedList: the nodes; head is node 0
  booked,                  \* MyCalendar2: the intervals
  size, seats,             \* ExamRoom: n and the taken seats
  pq,                      \*   how often each interval is in the queue
  seating,                 \*   a call of seat is in its loop
  ideal, returned, expected

listVars == <<next, val>>
roomVars == <<size, seats, pq, seating>>
vars == <<class, heap, listVars, booked, roomVars, ideal, returned, expected>>

None == -1

Answer(is, should) == returned' = is /\ expected' = should

-----------------------------------------------------------------------------
(* ArrayMinHeap; ideal says how often it holds each number. *)
End(h) == Cardinality(DOMAIN h) - 1
Swapped(h, i, j) == [h EXCEPT ![i] = h[j], ![j] = h[i]]
Pushed(h, v) == [i \in 0..End(h) + 1 |-> IF i = End(h) + 1 THEN v ELSE h[i]]
Popped(h) == [i \in 0..End(h) - 1 |-> h[i]]

(* The division of C++: (0 - 1) / 2 is 0. *)
Father(i) == IF i = 0 THEN 0 ELSE (i - 1) \div 2

(* The arguments of the recursive calls: an array like h, a place in it.   *)
Calls(h) == [DOMAIN h -> Numbers] \X DOMAIN h

HeapifyUp(h, i) ==
  LET up[x \in Calls(h)] ==
        LET g == x[1]
            j == x[2]
        IN  IF g[j] < g[Father(j)] THEN up[<<Swapped(g, j, Father(j)), Father(j)>>] ELSE g
  IN  up[<<h, i>>]

(* Mutant of Smaller: the left child in any case. *)
LeftChild(h, i) == 2 * i + 1

Smaller(h, i) ==
  IF 2 * i + 2 <= End(h) /\ h[2 * i + 2] < h[2 * i + 1] THEN 2 * i + 2 ELSE 2 * i + 1

HeapifyDown(h, i) ==
  LET down[x \in Calls(h)] ==
        LET g == x[1]
            j == x[2]
        IN  IF 2 * j + 1 <= End(g) /\ g[Smaller(g, j)] < g[j]
              THEN down[<<Swapped(g, j, Smaller(g, j)), Smaller(g, j)>>]
              ELSE g
  IN  down[<<h, i>>]

(* The constructor: from the last inner node up to the root. *)
Build(h) ==
  LET built[i \in 0..End(h) + 1] ==
        IF i > Father(End(h)) THEN h ELSE HeapifyDown(built[i + 1], i)
  IN  IF End(h) < 0 THEN h ELSE built[0]

Count(h) == [v \in Numbers |-> Cardinality({i \in DOMAIN h : h[i] = v})]

Least(bag) == Min({v \in DOMAIN bag : bag[v] > 0})

(* peek throws when the heap is empty. *)
Peek(h, bag) ==
  IF End(h) < 0 THEN Answer(None, None) ELSE Answer(h[0], Least(bag))

HeapAdd(v) ==
  /\ class = "heap" /\ End(heap) + 1 < MaxLen
  /\ heap' = HeapifyUp(Pushed(heap, v), End(heap) + 1)
  /\ ideal' = [ideal EXCEPT ![v] = @ + 1]
  /\ Peek(heap', ideal')
  /\ UNCHANGED <<class, listVars, booked, roomVars>>

HeapRemove ==
  /\ class = "heap" /\ End(heap) >= 0
  /\ LET left == Popped([heap EXCEPT ![0] = heap[End(heap)]]) IN
       heap' = IF End(left) < 0 THEN left ELSE HeapifyDown(left, 0)
  /\ ideal' = [ideal EXCEPT ![Least(ideal)] = @ - 1]
  /\ Peek(heap', ideal')
  /\ UNCHANGED <<class, listVars, booked, roomVars>>

-----------------------------------------------------------------------------
(* MyLinkedList: nodes behind a dummy head; None is null and ideal the     *)
(* sequence of the values.                                                 *)

(* The node that k steps from head lead to. *)
Node(k) ==
  LET node[i \in 0..k] ==
        IF i = 0 THEN 0 ELSE IF node[i - 1] = None THEN None ELSE next[node[i - 1]]
  IN  node[k]

Index == 0..MaxLen + 1

(* new Node behind p, at an address that is not in use. *)
InsertAfter(p, v) ==
  \E new \in (1..MaxLen) \ DOMAIN next :
    /\ next' = [q \in DOMAIN next \cup {new} |->
                  IF q = p THEN new ELSE IF q = new THEN next[p] ELSE next[q]]
    /\ val' = [q \in DOMAIN val \cup {new} |-> IF q = new THEN v ELSE val[q]]

ListKeeps == class = "list" /\ UNCHANGED <<class, heap, booked, roomVars>>

Get(index) ==
  /\ ListKeeps
  /\ LET p == Node(index + 1) IN
       Answer(IF p = None THEN None ELSE val[p],
              IF index < Len(ideal) THEN ideal[index + 1] ELSE None)
  /\ UNCHANGED <<listVars, ideal>>

AddAtHead(v) ==
  /\ ListKeeps /\ Len(ideal) < MaxLen
  /\ InsertAfter(0, v)
  /\ ideal' = <<v>> \o ideal
  /\ UNCHANGED <<returned, expected>>

AddAtTail(v) ==
  /\ ListKeeps /\ Len(ideal) < MaxLen
  /\ \E p \in DOMAIN next : next[p] = None /\ InsertAfter(p, v)
  /\ ideal' = Append(ideal, v)
  /\ UNCHANGED <<returned, expected>>

(* An index beyond the end is refused. *)
AddAtIndex(index, v) ==
  /\ ListKeeps /\ Len(ideal) < MaxLen
  /\ IF Node(index) = None THEN UNCHANGED listVars ELSE InsertAfter(Node(index), v)
  /\ ideal' = IF index > Len(ideal) THEN ideal ELSE InsertAt(ideal, index + 1, v)
  /\ UNCHANGED <<returned, expected>>

Unlink(prev, p) ==
  /\ next' = [q \in DOMAIN next \ {p} |-> IF q = prev THEN next[p] ELSE next[q]]
  /\ val' = [q \in DOMAIN val \ {p} |-> val[q]]

(* The walk to index looks at every node but the first one before it goes  *)
(* on from it.                                                             *)
FollowsNull(index) == index > 0 /\ next[0] = None

(* Mutant of DeleteAtIndex: the walk stops a node early. *)
DeleteBefore(index) ==
  /\ ListKeeps /\ ~FollowsNull(index)
  /\ LET p == Node(index + 1) IN
       IF p = None \/ next[p] = None THEN UNCHANGED listVars ELSE Unlink(Node(index), p)
  /\ ideal' = IF index < Len(ideal) THEN RemoveAt(ideal, index + 1) ELSE ideal
  /\ UNCHANGED <<returned, expected>>

DeleteAtIndex(index) ==
  /\ ListKeeps /\ ~FollowsNull(index)
  /\ LET p == Node(index + 1) IN
       IF p = None THEN UNCHANGED listVars ELSE Unlink(Node(index), p)
  /\ ideal' = IF index < Len(ideal) THEN RemoveAt(ideal, index + 1) ELSE ideal
  /\ UNCHANGED <<returned, expected>>

DeleteCrashes(index) ==
  /\ class = "list" /\ FollowsNull(index)
  /\ class' = "crashed"
  /\ UNCHANGED <<heap, listVars, booked, roomVars, ideal, returned, expected>>

-----------------------------------------------------------------------------
(* MyCalendar2: ideal is the set of the hours that are taken. *)
Bool(b) == IF b THEN 1 ELSE 0

Book(start, end) ==
  /\ class = "calendar"
  /\ LET free == \A i \in booked : ~(i[1] < end /\ start < i[2]) IN
       /\ booked' = IF free THEN booked \cup {<<start, end>>} ELSE booked
       /\ Answer(Bool(free), Bool(ideal \cap (start..end - 1) = {}))
  /\ ideal' = IF expected' = 1 THEN ideal \cup (start..end - 1) ELSE ideal
  /\ UNCHANGED <<class, heap, listVars, roomVars>>

-----------------------------------------------------------------------------
(* ExamRoom: pq has the gaps between neighbours, widest half first, and    *)
(* gaps that are none any more, which seat drops when they come to the top.*)
(* ideal is the set of the taken seats.                                    *)
Half(p) == (p[2] - p[1]) \div 2

Below(p, q) == Half(p) < Half(q) \/ (Half(p) = Half(q) /\ p[1] > q[1])   \* Comp

Queued == {p \in DOMAIN pq : pq[p] > 0}

(* Comp does not order gaps of the same half and left end. *)
Tops == {p \in Queued : \A q \in Queued : ~Below(p, q)}

Push(q, p) == [q EXCEPT ![p] = @ + 1]
Drop(q, p) == [q EXCEPT ![p] = @ - 1]

Leftmost  == Min(seats)
Rightmost == Max(seats)

(* Mutant of IsGap: a gap in which somebody sits is still one. *)
IsTaken(p) == {p[1], p[2]} \subseteq seats

IsGap(p) ==
  /\ {p[1], p[2]} \subseteq seats /\ p[1] < p[2]
  /\ seats \cap (p[1] + 1 .. p[2] - 1) = {}

(* seat may be called while a seat is free. *)
MaySeat == class = "room" /\ Cardinality(seats) < size

Intervals(q) == FoldFunction(+, 0, q)

(* The loop of seat drops an interval that is no gap, and goes on. *)
DropStale ==
  /\ MaySeat
  /\ Cardinality(seats) >= 2
  /\ \E p \in Tops : ~IsGap(p) /\ pq' = Drop(pq, p)
  /\ seating' = TRUE
  /\ UNCHANGED <<class, heap, listVars, booked, size, seats, ideal, returned, expected>>

SeatAt(s, q) == seats' = seats \cup {s} /\ pq' = q /\ returned' = s

SeatAtEnd(left, right) ==
  IF right > left THEN SeatAt(size - 1, Push(pq, <<Rightmost, size - 1>>))
  ELSE SeatAt(0, Push(pq, <<0, Leftmost>>))

SeatStudent(left, right) ==
  \/ seats = {} /\ SeatAt(0, pq)
  \/ Cardinality(seats) = 1 /\ SeatAtEnd(left, right)
  \/ /\ Cardinality(seats) >= 2
     /\ \E p \in Tops :
          LET s == p[1] + Half(p)
          IN  /\ IsGap(p)
              /\ IF Half(p) < right \/ Half(p) <= left
                   THEN SeatAtEnd(left, right)
                   ELSE SeatAt(s, Push(Push(Drop(pq, p), <<p[1], s>>), <<s, p[2]>>))

(* The problem: as far from the others as possible, on the left of these.  *)
Distance(s, taken) == IF taken = {} THEN 0 ELSE Min({IF s < t THEN t - s ELSE s - t : t \in taken})
BestSeat(taken) ==
  Min({s \in 0..size - 1 : \A t \in 0..size - 1 : Distance(t, taken) <= Distance(s, taken)})

Seat ==
  /\ MaySeat
  /\ SeatStudent(IF seats = {} THEN 0 ELSE Leftmost, IF seats = {} THEN 0 ELSE size - 1 - Rightmost)
  /\ Intervals(pq') <= MaxIntervals
  /\ seating' = FALSE
  /\ expected' = BestSeat(ideal) /\ ideal' = ideal \cup {BestSeat(ideal)}
  /\ UNCHANGED <<class, heap, listVars, booked, size>>

Leave(p) ==
  /\ class = "room" /\ ~seating /\ p \in seats
  /\ pq' = IF p \in {Leftmost, Rightmost} THEN pq
           ELSE Push(pq, <<Max({s \in seats : s < p}), Min({s \in seats : s > p})>>)
  /\ Intervals(pq') <= MaxIntervals
  /\ seats' = seats \ {p} /\ ideal' = ideal \ {p}
  /\ UNCHANGED <<class, heap, listVars, booked, size, seating, returned, expected>>

-----------------------------------------------------------------------------
(* The heap is built from any array. *)
Init ==
  /\ class \in {"heap", "list", "calendar", "room"}
  /\ next = [p \in {0} |-> None] /\ val = [p \in {0} |-> None]
  /\ booked = {} /\ seats = {} /\ seating = FALSE
  /\ size \in (IF class = "room" THEN Rooms ELSE {0})
  /\ pq = [p \in (0..size - 1) \X (0..size - 1) |-> 0]
  /\ returned = None /\ expected = None
  /\ \E k \in (IF class = "heap" THEN 0..MaxLen ELSE {0}) : \E data \in [0..k - 1 -> Numbers] :
       /\ heap = Build(data)
       /\ ideal = CASE class = "heap" -> Count(data)
                    [] class = "list" -> <<>>
                    [] OTHER -> {}

Crashed == class = "crashed" /\ UNCHANGED vars

Next ==
  \/ \E v \in Numbers : HeapAdd(v) \/ AddAtHead(v) \/ AddAtTail(v)
  \/ HeapRemove
  \/ \E i \in Index : Get(i) \/ DeleteAtIndex(i) \/ DeleteCrashes(i)
  \/ \E i \in Index, v \in Numbers : AddAtIndex(i, v)
  \/ \E s \in 0..MaxTime, e \in 1..MaxTime : s < e /\ Book(s, e)
  \/ DropStale \/ Seat
  \/ \E p \in seats : Leave(p)
  \/ Crashed

Spec == Init /\ [][Next]_vars

-----------------------------------------------------------------------------
(* Every object holds what it should and answers as it should, whatever    *)
(* was called before (min_heap_array_impl.cpp:4-108, 707.cpp:13-84,        *)
(* 729.cpp:52-65, 855.cpp:32-72), and ExamRoom's queue, for all that it    *)
(* deletes late, lacks no gap; with one exception, which no document of    *)
(* the repository makes: deleteAtIndex with an index above 0 ends the      *)
(* program if the list is empty, and only then (707.cpp:72).               *)
ObjectsAgree ==
  /\ returned = expected
  /\ class = "crashed" => ideal = <<>>
  /\ class = "heap" => ideal = Count(heap)
  /\ class = "list" =>
       /\ \A k \in 0..Len(ideal) : Node(k) # None
       /\ Node(Len(ideal) + 1) = None
       /\ \A k \in 1..Len(ideal) : val[Node(k)] = ideal[k]
  /\ class = "calendar" => ideal = UNION {i[1]..i[2] - 1 : i \in booked}
  /\ class = "room" =>
       /\ ideal = seats
       /\ \A p, q \in seats : p < q /\ IsGap(<<p, q>>) => <<p, q>> \in Queued
==============================================================================
