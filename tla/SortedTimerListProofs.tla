------------------------ MODULE SortedTimerListProofs -------------------------
(***************************************************************************)
(* Proofs about sorted_timer_list and the server built on it, for any      *)
(* number of timers, clients and descriptors.                              *)
(*                                                                         *)
(* The first part is about the functions of the list: IsList says which    *)
(* sequence of timers the pointers spell, and each member function is      *)
(* shown to do to that sequence what it should (insert in order, move      *)
(* back, remove).  The second part is about a list under any legal calls   *)
(* (TimerListUse): it stays intact and implements the abstract queue.  The *)
(* third part is IdleServer: NoStaleEvent, about the events of a batch and *)
(* the descriptors that the batch closes and reuses, AlarmNeverLost, about *)
(* the chain alarm, signal, pipe, edge, event, timeout, alarm, and, with   *)
(* the first part, TimersMatchConnections and TickIsExact.                 *)
(***************************************************************************)
EXTENDS MCTimers, WellFoundedInduction, FiniteSetTheorems, FunctionTheorems, TLAPS

-----------------------------------------------------------------------------
(* The lists the functions work on. *)
ListType ==
  [head : Timers \cup {Null}, tail : Timers \cup {Null},
   prev : [Timers -> Timers \cup {Null}], next : [Timers -> Timers \cup {Null}],
   expire : [Timers -> Nat]]

(* q is the list's n nodes from head to tail. *)
IsList(L, q, n) ==
  /\ q \in [1..n -> Timers]
  /\ \A i, j \in 1..n : q[i] = q[j] => i = j
  /\ L.head = IF n = 0 THEN Null ELSE q[1]
  /\ n > 0 => L.tail = q[n]
  /\ \A i \in 1..n : /\ L.prev[q[i]] = IF i = 1 THEN Null ELSE q[i - 1]
                     /\ L.next[q[i]] = IF i = n THEN Null ELSE q[i + 1]

Nodes(q, n) == {q[i] : i \in 1..n}

Sorted(L, q, n) == \A i, j \in 1..n : i <= j => L.expire[q[i]] <= L.expire[q[j]]

(* q with t behind its first k elements, and without its k-th. *)
Inserted(q, n, k, t) == [i \in 1..n + 1 |-> IF i <= k THEN q[i] ELSE IF i = k + 1 THEN t ELSE q[i - 1]]

Removed(q, n, k) == [i \in 1..n - 1 |-> IF i < k THEN q[i] ELSE q[i + 1]]

-----------------------------------------------------------------------------
LEMMA InsertedIs ==
  ASSUME NEW n \in Nat, NEW q \in [1..n -> Timers], NEW k \in 0..n, NEW t \in Timers \ Nodes(q, n),
         \A i, j \in 1..n : q[i] = q[j] => i = j
  PROVE  LET r == Inserted(q, n, k, t)
         IN  /\ r \in [1..n + 1 -> Timers] /\ Nodes(r, n + 1) = Nodes(q, n) \cup {t}
             /\ \A i, j \in 1..n + 1 : r[i] = r[j] => i = j
             /\ \A i \in 1..k : r[i] = q[i]
             /\ r[k + 1] = t
             /\ \A i \in k + 2..n + 1 : r[i] = q[i - 1]
<1>. DEFINE r == Inserted(q, n, k, t)
<1>1. r \in [1..n + 1 -> Timers]
  BY DEF Inserted
<1>2. /\ \A i \in 1..k : i \in 1..n /\ r[i] = q[i]
      /\ r[k + 1] = t
      /\ \A i \in k + 2..n + 1 : i - 1 \in k + 1..n /\ r[i] = q[i - 1]
  BY DEF Inserted
<1>3. \A i \in 1..n + 1 : i \in 1..k \/ i = k + 1 \/ i \in k + 2..n + 1
  OBVIOUS
<1>. HIDE DEF r
<1>4. \A i, j \in 1..n + 1 : r[i] = r[j] => i = j
  <2>. SUFFICES ASSUME NEW i \in 1..n + 1, NEW j \in 1..n + 1, r[i] = r[j] PROVE i = j
    OBVIOUS
  <2>1. \A m \in 1..n : q[m] # t
    BY DEF Nodes
  <2>2. CASE i \in 1..k
    BY <1>2, <1>3, <2>1, <2>2
  <2>3. CASE i = k + 1
    BY <1>2, <1>3, <2>1, <2>3
  <2>4. CASE i \in k + 2..n + 1
    BY <1>2, <1>3, <2>1, <2>4
  <2>. QED  BY <1>3, <2>2, <2>3, <2>4
<1>5. Nodes(r, n + 1) \subseteq Nodes(q, n) \cup {t}
  BY <1>2, <1>3 DEF Nodes
<1>6. \A i \in 1..n : \E j \in 1..n + 1 : r[j] = q[i]
  <2>. SUFFICES ASSUME NEW i \in 1..n PROVE \E j \in 1..n + 1 : r[j] = q[i]
    OBVIOUS
  <2>1. CASE i <= k
    <3>. i \in 1..k /\ i \in 1..n + 1
      BY <2>1
    <3>. QED  BY <1>2
  <2>2. CASE i > k
    <3>. i + 1 \in k + 2..n + 1 /\ i + 1 \in 1..n + 1 /\ (i + 1) - 1 = i
      BY <2>2
    <3>. QED  BY <1>2
  <2>. QED  BY <2>1, <2>2
<1>7. k + 1 \in 1..n + 1
  OBVIOUS
<1>8. Nodes(q, n) \cup {t} \subseteq Nodes(r, n + 1)
  BY SMTT(30), <1>2, <1>6, <1>7 DEF Nodes
<1>. QED  BY <1>1, <1>2, <1>4, <1>5, <1>8 DEF r

LEMMA RemovedIs ==
  ASSUME NEW n \in Nat, NEW q \in [1..n -> Timers], NEW k \in 1..n,
         \A i, j \in 1..n : q[i] = q[j] => i = j
  PROVE  LET r == Removed(q, n, k)
         IN  /\ r \in [1..n - 1 -> Timers] /\ Nodes(r, n - 1) = Nodes(q, n) \ {q[k]}
             /\ \A i, j \in 1..n - 1 : r[i] = r[j] => i = j
             /\ \A i \in 1..k - 1 : r[i] = q[i]
             /\ \A i \in k..n - 1 : r[i] = q[i + 1]
<1>. DEFINE r == Removed(q, n, k)
<1>1. r \in [1..n - 1 -> Timers]
  BY DEF Removed
<1>2. /\ \A i \in 1..k - 1 : i \in 1..n /\ r[i] = q[i]
      /\ \A i \in k..n - 1 : i + 1 \in k + 1..n /\ i + 1 \in 1..n /\ r[i] = q[i + 1]
  BY DEF Removed
<1>3. \A i \in 1..n - 1 : i \in 1..k - 1 \/ i \in k..n - 1
  OBVIOUS
<1>. HIDE DEF r
<1>4. \A i, j \in 1..n - 1 : r[i] = r[j] => i = j
  BY <1>2, <1>3
<1>5. Nodes(r, n - 1) \subseteq Nodes(q, n) \ {q[k]}
  BY <1>2, <1>3 DEF Nodes
<1>6. \A i \in 1..n : i # k => \E j \in 1..n - 1 : r[j] = q[i]
  <2>. SUFFICES ASSUME NEW i \in 1..n, i # k PROVE \E j \in 1..n - 1 : r[j] = q[i]
    OBVIOUS
  <2>1. CASE i < k
    <3>. i \in 1..k - 1 /\ i \in 1..n - 1
      BY <2>1
    <3>. QED  BY <1>2
  <2>2. CASE i > k
    <3>. i - 1 \in k..n - 1 /\ i - 1 \in 1..n - 1 /\ (i - 1) + 1 = i
      BY <2>2
    <3>. QED  BY <1>2
  <2>. QED  BY <2>1, <2>2
<1>7. Nodes(q, n) \ {q[k]} \subseteq Nodes(r, n - 1)
  BY <1>6 DEF Nodes
<1>. QED  BY <1>1, <1>2, <1>4, <1>5, <1>7 DEF r

(* A list has no more nodes than there are timers. *)
LEMMA ListFits ==
  ASSUME IsFiniteSet(Timers), NEW n \in Nat, NEW q \in [1..n -> Timers],
         \A i, j \in 1..n : q[i] = q[j] => i = j
  PROVE  n <= Cardinality(Timers) /\ Cardinality(Timers) \in Nat
<1>1. q \in Injection(1..n, Timers)
  BY DEF Injection, IsInjective
<1>2. Cardinality(1..n) = n
  BY FS_Interval
<1>. QED  BY <1>1, <1>2, FS_Injection, FS_CardinalityType

-----------------------------------------------------------------------------
(* The end of the private add_timer: t is linked behind the node p. *)
LinkBehind(L, t, p) ==
  LET s == L.next[p]
  IN  IF s # Null
        THEN [L EXCEPT !.next[p] = t, !.prev[t] = p, !.next[t] = s, !.prev[s] = t]
        ELSE [L EXCEPT !.next[p] = t, !.prev[t] = p, !.next[t] = Null, !.tail = t]

(* One assignment to a pointer. *)
LEMMA NextAssigned ==
  ASSUME NEW L \in ListType, NEW x \in Timers, NEW y \in Timers \cup {Null}
  PROVE  LET M == [L EXCEPT !.next[x] = y]
         IN  /\ M \in ListType /\ M.head = L.head /\ M.tail = L.tail
             /\ M.prev = L.prev /\ M.next = [L.next EXCEPT ![x] = y] /\ M.expire = L.expire
BY DEF ListType

LEMMA PrevAssigned ==
  ASSUME NEW L \in ListType, NEW x \in Timers, NEW y \in Timers \cup {Null}
  PROVE  LET M == [L EXCEPT !.prev[x] = y]
         IN  /\ M \in ListType /\ M.head = L.head /\ M.tail = L.tail
             /\ M.prev = [L.prev EXCEPT ![x] = y] /\ M.next = L.next /\ M.expire = L.expire
BY DEF ListType

LEMMA LinkBehindIs ==
  ASSUME NEW L \in ListType, NEW n \in Nat, NEW q, IsList(L, q, n), NEW k \in 1..n,
         NEW t \in Timers \ Nodes(q, n)
  PROVE  LET M == LinkBehind(L, t, q[k])
         IN  /\ M \in ListType /\ M.expire = L.expire
             /\ \A x \in Timers \ {q[k], t} : M.next[x] = L.next[x]
             /\ IsList(M, Inserted(q, n, k, t), n + 1)
<1>. DEFINE p == q[k]
            s == L.next[p]
            M == LinkBehind(L, t, p)
            r == Inserted(q, n, k, t)
<1>. USE NullAssumption
<1>1. /\ q \in [1..n -> Timers] /\ p \in Timers /\ t # p /\ p # Null /\ t # Null
      /\ \A i \in 1..n : q[i] \in Timers /\ q[i] # t /\ q[i] # Null /\ (q[i] = p => i = k)
  BY DEF IsList, Nodes
<1>2. s = IF k = n THEN Null ELSE q[k + 1]
  BY DEF IsList
<1>3. /\ r \in [1..n + 1 -> Timers] /\ \A i, j \in 1..n + 1 : r[i] = r[j] => i = j
      /\ \A i \in 1..k : r[i] = q[i]
      /\ r[k + 1] = t
      /\ \A i \in k + 2..n + 1 : r[i] = q[i - 1]
  <2>1. q \in [1..n -> Timers] /\ k \in 0..n /\ \A i, j \in 1..n : q[i] = q[j] => i = j
    BY DEF IsList
  <2>. QED  BY SMTT(30), <2>1, InsertedIs
<1>. HIDE DEF r, s, p
<1>4. CASE k = n
  <2>1. M = [L EXCEPT !.next[p] = t, !.prev[t] = p, !.next[t] = Null, !.tail = t]
    BY <1>2, <1>4 DEF LinkBehind, s
  <2>2. /\ M \in ListType /\ M.expire = L.expire /\ M.head = L.head /\ M.tail = t
        /\ M.next[p] = t /\ M.next[t] = Null /\ M.prev[t] = p
        /\ \A x \in Timers \ {p, t} : M.next[x] = L.next[x]
        /\ \A x \in Timers \ {t} : M.prev[x] = L.prev[x]
    <3>. DEFINE A1 == [L EXCEPT !.next[p] = t]
                A2 == [A1 EXCEPT !.prev[t] = p]
                A3 == [A2 EXCEPT !.next[t] = Null]
    <3>1. M = [A3 EXCEPT !.tail = t]
      BY <2>1
    <3>2. A1 \in ListType /\ A2 \in ListType /\ A3 \in ListType
      BY <1>1, NextAssigned, PrevAssigned
    <3>3. /\ A3.next = [[L.next EXCEPT ![p] = t] EXCEPT ![t] = Null] /\ A3.prev = [L.prev EXCEPT ![t] = p]
          /\ A3.head = L.head /\ A3.expire = L.expire
      BY <1>1, <3>2, NextAssigned, PrevAssigned
    <3>. HIDE DEF A3
    <3>4. /\ M \in ListType /\ M.expire = L.expire /\ M.head = L.head /\ M.tail = t
          /\ M.next = A3.next /\ M.prev = A3.prev
      BY <3>1, <3>2, <3>3 DEF ListType
    <3>5. L.next \in [Timers -> Timers \cup {Null}] /\ L.prev \in [Timers -> Timers \cup {Null}]
      BY DEF ListType
    <3>. QED  BY <1>1, <3>3, <3>4, <3>5
  <2>. HIDE DEF M
  <2>3. ASSUME NEW i \in 1..n + 1
        PROVE  /\ M.prev[r[i]] = IF i = 1 THEN Null ELSE r[i - 1]
               /\ M.next[r[i]] = IF i = n + 1 THEN Null ELSE r[i + 1]
    <3>1. CASE i = n + 1
      <4>. r[i] = t /\ r[i - 1] = p /\ i # 1
        BY <1>3, <1>4, <3>1 DEF p
      <4>. QED  BY <2>2, <3>1
    <3>2. CASE i = n
      <4>1. r[i] = p /\ r[i + 1] = t /\ i # n + 1 /\ M.next[p] = t
        BY <1>3, <1>4, <2>2, <3>2 DEF p
      <4>2. M.prev[p] = L.prev[p] /\ L.prev[p] = IF i = 1 THEN Null ELSE q[i - 1]
        BY <1>1, <1>4, <2>2, <3>2 DEF IsList, p
      <4>3. i # 1 => r[i - 1] = q[i - 1]
        BY <1>3, <1>4, <3>2
      <4>. QED  BY <4>1, <4>2, <4>3
    <3>3. CASE i < n
      <4>1. r[i] = q[i] /\ r[i + 1] = q[i + 1] /\ i # n + 1 /\ (i # 1 => r[i - 1] = q[i - 1]) /\ i \in 1..n
        BY <1>3, <1>4, <3>3
      <4>2. M.prev[q[i]] = L.prev[q[i]] /\ M.next[q[i]] = L.next[q[i]]
        BY <1>1, <1>4, <2>2, <3>3, <4>1
      <4>. QED  BY <3>3, <4>1, <4>2 DEF IsList
    <3>. QED  BY <3>1, <3>2, <3>3
  <2>4. M.head = r[1] /\ M.tail = r[n + 1]
    BY <1>3, <1>4, <2>2 DEF IsList
  <2>. QED  BY <1>3, <2>2, <2>3, <2>4 DEF IsList, M, r, p
<1>5. CASE k < n
  <2>0. s \in Timers /\ s # t /\ s # p /\ s # Null /\ s = q[k + 1] /\ k + 1 \in 1..n
    BY <1>1, <1>2, <1>5
  <2>1. M = [L EXCEPT !.next[p] = t, !.prev[t] = p, !.next[t] = s, !.prev[s] = t]
    BY <1>2, <2>0 DEF LinkBehind, s
  <2>2. /\ M \in ListType /\ M.expire = L.expire /\ M.head = L.head /\ M.tail = L.tail
        /\ M.next[p] = t /\ M.next[t] = s /\ M.prev[t] = p /\ M.prev[s] = t
        /\ \A x \in Timers \ {p, t} : M.next[x] = L.next[x]
        /\ \A x \in Timers \ {s, t} : M.prev[x] = L.prev[x]
    <3>. DEFINE A1 == [L EXCEPT !.next[p] = t]
                A2 == [A1 EXCEPT !.prev[t] = p]
                A3 == [A2 EXCEPT !.next[t] = s]
                A4 == [A3 EXCEPT !.prev[s] = t]
    <3>1. M = A4
      BY <2>1
    <3>2. A1 \in ListType /\ A2 \in ListType /\ A3 \in ListType /\ A4 \in ListType
      BY <1>1, <2>0, NextAssigned, PrevAssigned
    <3>3. /\ A4.next = [[L.next EXCEPT ![p] = t] EXCEPT ![t] = s]
          /\ A4.prev = [[L.prev EXCEPT ![t] = p] EXCEPT ![s] = t]
          /\ A4.head = L.head /\ A4.tail = L.tail /\ A4.expire = L.expire
      BY <1>1, <2>0, <3>2, NextAssigned, PrevAssigned
    <3>. HIDE DEF A4
    <3>4. L.next \in [Timers -> Timers \cup {Null}] /\ L.prev \in [Timers -> Timers \cup {Null}]
      BY DEF ListType
    <3>. QED  BY <1>1, <2>0, <3>1, <3>2, <3>3, <3>4
  <2>. HIDE DEF M
  <2>3. ASSUME NEW i \in 1..n + 1
        PROVE  /\ M.prev[r[i]] = IF i = 1 THEN Null ELSE r[i - 1]
               /\ M.next[r[i]] = IF i = n + 1 THEN Null ELSE r[i + 1]
    <3>1. CASE i < k
      <4>1. r[i] = q[i] /\ r[i + 1] = q[i + 1] /\ i # n + 1 /\ (i # 1 => r[i - 1] = q[i - 1]) /\ i \in 1..n
        BY <1>3, <3>1
      <4>2. M.prev[q[i]] = L.prev[q[i]] /\ M.next[q[i]] = L.next[q[i]]
        <5>1. q[i] # p /\ q[i] # t /\ q[i] # s /\ q[i] \in Timers
          BY <1>1, <2>0, <3>1, <4>1 DEF IsList
        <5>. QED  BY <2>2, <5>1
      <4>3. i # n
        BY <1>5, <3>1
      <4>. QED  BY <4>1, <4>2, <4>3 DEF IsList
    <3>2. CASE i = k
      <4>1. r[i] = p /\ r[i + 1] = t /\ i # n + 1 /\ (i # 1 => r[i - 1] = q[i - 1]) /\ i \in 1..n
        BY <1>3, <3>2 DEF p
      <4>2. M.prev[p] = L.prev[p] /\ L.prev[p] = IF i = 1 THEN Null ELSE q[i - 1]
        BY <1>1, <2>0, <2>2, <3>2 DEF IsList, p
      <4>. QED  BY <2>2, <4>1, <4>2
    <3>3. CASE i = k + 1
      <4>1. r[i] = t /\ r[i - 1] = p /\ i # 1 /\ i # n + 1 /\ r[i + 1] = s
        BY <1>3, <1>5, <2>0, <3>3 DEF p
      <4>. QED  BY <2>2, <4>1
    <3>4. CASE i = k + 2
      <4>1. r[i] = s /\ r[i - 1] = t /\ i # 1 /\ (i # n + 1 => r[i + 1] = q[i])
        BY <1>3, <1>5, <2>0, <3>4
      <4>2. M.prev[s] = t /\ M.next[s] = L.next[s]
        BY <2>0, <2>2
      <4>3. L.next[s] = IF i = n + 1 THEN Null ELSE q[i]
        BY <2>0, <3>4 DEF IsList
      <4>. QED  BY <4>1, <4>2, <4>3
    <3>5. CASE i > k + 2
      <4>1. r[i] = q[i - 1] /\ r[i - 1] = q[i - 2] /\ i # 1 /\ (i # n + 1 => r[i + 1] = q[i])
            /\ i - 1 \in 1..n /\ i - 1 # 1
        BY <1>3, <1>5, <3>5
      <4>2. M.prev[q[i - 1]] = L.prev[q[i - 1]] /\ M.next[q[i - 1]] = L.next[q[i - 1]]
        <5>1. q[i - 1] # p /\ q[i - 1] # t /\ q[i - 1] # s /\ q[i - 1] \in Timers
          BY <1>1, <2>0, <3>5, <4>1 DEF IsList
        <5>. QED  BY <2>2, <5>1
      <4>3. L.prev[q[i - 1]] = q[i - 2] /\ L.next[q[i - 1]] = IF i = n + 1 THEN Null ELSE q[i]
        <5>1. i - 1 - 1 = i - 2 /\ i - 1 + 1 = i /\ (i - 1 = n <=> i = n + 1)
          OBVIOUS
        <5>. QED  BY <4>1, <5>1 DEF IsList
      <4>. QED  BY <4>1, <4>2, <4>3
    <3>. QED  BY <3>1, <3>2, <3>3, <3>4, <3>5
  <2>4. M.head = r[1] /\ M.tail = r[n + 1]
    <3>1. 1 \in 1..k /\ n + 1 \in k + 2..n + 1 /\ n + 1 - 1 = n /\ n # 0 /\ n > 0
      BY <1>5
    <3>. QED  BY <1>3, <2>2, <3>1 DEF IsList
  <2>. QED  BY <1>3, <2>2, <2>3, <2>4 DEF IsList, M, r, p
<1>. QED  BY <1>4, <1>5

(* t becomes the head, as in add_timer. *)
LinkFirst(L, t) == [L EXCEPT !.next[t] = L.head, !.prev[L.head] = t, !.head = t]

LEMMA LinkFirstIs ==
  ASSUME NEW L \in ListType, NEW n \in Nat \ {0}, NEW q, IsList(L, q, n), NEW t \in Timers \ Nodes(q, n),
         L.prev[t] = Null
  PROVE  LET M == LinkFirst(L, t)
         IN  /\ M \in ListType /\ M.expire = L.expire
             /\ \A x \in Timers \ {t} : M.next[x] = L.next[x]
             /\ IsList(M, Inserted(q, n, 0, t), n + 1)
<1>. DEFINE s == L.head
            M == LinkFirst(L, t)
            r == Inserted(q, n, 0, t)
<1>. USE NullAssumption
<1>1. /\ q \in [1..n -> Timers] /\ s = q[1] /\ s \in Timers /\ t # s /\ s # Null /\ t # Null
      /\ \A i \in 1..n : q[i] \in Timers /\ q[i] # t /\ q[i] # Null /\ (q[i] = s => i = 1)
  BY DEF IsList, Nodes
<1>3. /\ r \in [1..n + 1 -> Timers] /\ \A i, j \in 1..n + 1 : r[i] = r[j] => i = j
      /\ r[1] = t
      /\ \A i \in 2..n + 1 : r[i] = q[i - 1]
  BY SMTT(30), <1>1, InsertedIs DEF IsList
<1>. HIDE DEF r, s
<1>2. /\ M \in ListType /\ M.expire = L.expire /\ M.head = t /\ M.tail = L.tail
      /\ M.next[t] = s /\ M.prev[t] = Null /\ M.prev[s] = t
      /\ \A x \in Timers \ {t} : M.next[x] = L.next[x]
      /\ \A x \in Timers \ {s, t} : M.prev[x] = L.prev[x]
  <2>. DEFINE A == [L EXCEPT !.next[t] = s]
              B == [A EXCEPT !.prev[s] = t]
  <2>1. A \in ListType /\ A.head = L.head /\ A.tail = L.tail /\ A.expire = L.expire
        /\ A.prev = L.prev /\ A.next = [L.next EXCEPT ![t] = s]
    BY <1>1, NextAssigned
  <2>. HIDE DEF A
  <2>2. B \in ListType /\ B.tail = L.tail /\ B.expire = L.expire
        /\ B.prev = [L.prev EXCEPT ![s] = t] /\ B.next = [L.next EXCEPT ![t] = s]
    BY <1>1, <2>1, PrevAssigned
  <2>3. M = [B EXCEPT !.head = t]
    BY DEF LinkFirst, s, A
  <2>. HIDE DEF B, M
  <2>4. M \in ListType /\ M.expire = L.expire /\ M.head = t /\ M.tail = L.tail
        /\ M.prev = [L.prev EXCEPT ![s] = t] /\ M.next = [L.next EXCEPT ![t] = s]
    BY <1>1, <2>2, <2>3 DEF ListType
  <2>. QED  BY <1>1, <2>4 DEF ListType
<1>. HIDE DEF M
<1>4. ASSUME NEW i \in 1..n + 1
      PROVE  /\ M.prev[r[i]] = IF i = 1 THEN Null ELSE r[i - 1]
             /\ M.next[r[i]] = IF i = n + 1 THEN Null ELSE r[i + 1]
  <2>1. CASE i = 1
    BY <1>1, <1>2, <1>3, <2>1
  <2>2. CASE i = 2
    <3>1. r[i] = s /\ r[i - 1] = t /\ (i # n + 1 => r[i + 1] = q[2])
      BY <1>1, <1>3, <2>2
    <3>2. M.next[s] = L.next[s] /\ L.next[s] = IF n = 1 THEN Null ELSE q[2]
      BY <1>1, <1>2 DEF IsList
    <3>. QED  BY <1>2, <2>2, <3>1, <3>2
  <2>3. CASE i > 2
    <3>1. r[i] = q[i - 1] /\ r[i - 1] = q[i - 2] /\ i # 1 /\ (i # n + 1 => r[i + 1] = q[i])
          /\ i - 1 \in 1..n /\ i - 1 # 1
      BY <1>3, <2>3
    <3>2. M.prev[q[i - 1]] = L.prev[q[i - 1]] /\ M.next[q[i - 1]] = L.next[q[i - 1]]
      BY <1>1, <1>2, <3>1
    <3>3. L.prev[q[i - 1]] = q[i - 2] /\ L.next[q[i - 1]] = IF i = n + 1 THEN Null ELSE q[i]
      <4>1. i - 1 - 1 = i - 2 /\ i - 1 + 1 = i /\ (i - 1 = n <=> i = n + 1)
        OBVIOUS
      <4>2. /\ L.prev[q[i - 1]] = IF i - 1 = 1 THEN Null ELSE q[i - 1 - 1]
            /\ L.next[q[i - 1]] = IF i - 1 = n THEN Null ELSE q[i - 1 + 1]
        <5>. DEFINE m == i - 1
        <5>1. m \in 1..n
          BY <3>1
        <5>. HIDE DEF m
        <5>2. /\ L.prev[q[m]] = IF m = 1 THEN Null ELSE q[m - 1]
              /\ L.next[q[m]] = IF m = n THEN Null ELSE q[m + 1]
          BY <5>1 DEF IsList
        <5>. QED  BY <5>2 DEF m
      <4>. QED  BY <3>1, <4>1, <4>2
    <3>. QED  BY <3>1, <3>2, <3>3
  <2>. QED  BY <2>1, <2>2, <2>3
<1>5. M.tail = r[n + 1]
  <2>1. n + 1 \in 2..n + 1 /\ n + 1 - 1 = n /\ n > 0
    OBVIOUS
  <2>. QED  BY <1>2, <1>3, <2>1 DEF IsList
<1>. QED  BY <1>2, <1>3, <1>4, <1>5 DEF IsList, M, r, s

-----------------------------------------------------------------------------
(* What taking the k-th node out has to do to the pointers. *)
LEMMA RemovedList ==
  ASSUME NEW L, NEW M, NEW n \in Nat, NEW q, IsList(L, q, n), NEW k \in 1..n,
         M.head = IF k = 1 THEN L.next[q[1]] ELSE L.head,
         n > 1 => M.tail = IF k = n THEN q[n - 1] ELSE L.tail,
         \A i \in 1..n : /\ i # k /\ i # k - 1 => M.next[q[i]] = L.next[q[i]]
                         /\ i # k /\ i # k + 1 => M.prev[q[i]] = L.prev[q[i]],
         k > 1 => M.next[q[k - 1]] = L.next[q[k]],
         k < n => M.prev[q[k + 1]] = L.prev[q[k]]
  PROVE  IsList(M, Removed(q, n, k), n - 1)
<1>. DEFINE r == Removed(q, n, k)
            m == n - 1
<1>0. q \in [1..n -> Timers] /\ \A i, j \in 1..n : q[i] = q[j] => i = j
  BY DEF IsList
<1>1. /\ r \in [1..m -> Timers] /\ \A i, j \in 1..m : r[i] = r[j] => i = j
      /\ \A i \in 1..k - 1 : r[i] = q[i]
      /\ \A i \in k..m : r[i] = q[i + 1]
  <2>1. /\ Removed(q, n, k) \in [1..n - 1 -> Timers]
        /\ \A i, j \in 1..n - 1 : Removed(q, n, k)[i] = Removed(q, n, k)[j] => i = j
    BY <1>0, RemovedIs
  <2>2. /\ \A i \in 1..k - 1 : Removed(q, n, k)[i] = q[i]
        /\ \A i \in k..n - 1 : Removed(q, n, k)[i] = q[i + 1]
    BY <1>0 DEF Removed
  <2>. QED  BY <2>1, <2>2
<1>2. \A i \in 1..n : /\ L.prev[q[i]] = IF i = 1 THEN Null ELSE q[i - 1]
                      /\ L.next[q[i]] = IF i = n THEN Null ELSE q[i + 1]
  BY DEF IsList
<1>. HIDE DEF r
<1>3. ASSUME NEW i \in 1..m
      PROVE  /\ M.prev[r[i]] = IF i = 1 THEN Null ELSE r[i - 1]
             /\ M.next[r[i]] = IF i = m THEN Null ELSE r[i + 1]
  <2>1. CASE i < k - 1
    <3>1. r[i] = q[i] /\ i \in 1..n /\ i # k /\ i # k - 1 /\ i # k + 1 /\ i # m /\ i # n
          /\ r[i + 1] = q[i + 1] /\ (i # 1 => r[i - 1] = q[i - 1])
      BY <1>1, <2>1
    <3>. QED  BY <1>2, <3>1
  <2>2. CASE i = k - 1
    <3>1. /\ r[i] = q[i] /\ i \in 1..n /\ i # k /\ i # k + 1 /\ (i # 1 => r[i - 1] = q[i - 1])
          /\ k > 1 /\ k - 1 = i /\ (i # m => r[i + 1] = q[k + 1]) /\ (i = m <=> k = n)
      BY <1>1, <2>2
    <3>. QED  BY <1>2, <3>1
  <2>3. CASE i = k
    <3>1. /\ r[i] = q[k + 1] /\ k + 1 \in 1..n /\ k < n /\ (i # 1 => r[i - 1] = q[k - 1])
          /\ k + 1 # k /\ k + 1 # k - 1 /\ (i # m => r[i + 1] = q[k + 1 + 1]) /\ (i = m <=> k + 1 = n)
      BY <1>1, <2>3
    <3>. QED  BY <1>2, <2>3, <3>1
  <2>4. CASE i > k
    <3>1. /\ r[i] = q[i + 1] /\ i + 1 \in 1..n /\ i # 1 /\ r[i - 1] = q[i] /\ i + 1 - 1 = i /\ i + 1 # 1
          /\ i + 1 # k /\ i + 1 # k - 1 /\ i + 1 # k + 1 /\ (i # m => r[i + 1] = q[i + 1 + 1])
          /\ (i = m <=> i + 1 = n)
      BY <1>1, <2>4
    <3>. QED  BY <1>2, <3>1
  <2>. QED  BY <2>1, <2>2, <2>3, <2>4
<1>4. M.head = IF m = 0 THEN Null ELSE r[1]
  <2>1. CASE k = 1
    BY <1>1, <1>2, <2>1
  <2>2. CASE k > 1
    BY <1>1, <2>2 DEF IsList
  <2>. QED  BY <2>1, <2>2
<1>5. m > 0 => M.tail = r[m]
  BY <1>1 DEF IsList
<1>. QED  BY <1>1, <1>3, <1>4, <1>5 DEF IsList, r

(* A node that is not linked can be freed. *)
LEMMA FreedIs ==
  ASSUME NEW L \in ListType, NEW t \in Timers
  PROVE  LET M == Freed(L, t)
         IN  /\ M \in ListType /\ M.next[t] = Null /\ M.expire[t] = 0
             /\ \A x \in Timers \ {t} : M.next[x] = L.next[x] /\ M.prev[x] = L.prev[x]
                                        /\ M.expire[x] = L.expire[x]
             /\ \A n \in Nat : \A q : IsList(L, q, n) /\ t \notin Nodes(q, n) => IsList(M, q, n)
<1>. DEFINE M == Freed(L, t)
            B == [L EXCEPT !.prev[t] = Null]
            A == [B EXCEPT !.next[t] = Null]
<1>0. B \in ListType /\ B.head = L.head /\ B.tail = L.tail /\ B.expire = L.expire
      /\ B.prev = [L.prev EXCEPT ![t] = Null] /\ B.next = L.next
  BY PrevAssigned
<1>. HIDE DEF B
<1>1. A \in ListType /\ A.head = L.head /\ A.tail = L.tail /\ A.expire = L.expire
      /\ A.prev = [L.prev EXCEPT ![t] = Null] /\ A.next = [L.next EXCEPT ![t] = Null]
  BY <1>0, NextAssigned
<1>2. M = [A EXCEPT !.expire[t] = 0]
  BY DEF Freed, B
<1>. HIDE DEF A
<1>3. M \in ListType /\ M.head = L.head /\ M.tail = L.tail /\ M.expire = [L.expire EXCEPT ![t] = 0]
      /\ M.prev = [L.prev EXCEPT ![t] = Null] /\ M.next = [L.next EXCEPT ![t] = Null]
  BY <1>1, <1>2 DEF ListType
<1>. HIDE DEF M
<1>4. /\ M.next[t] = Null /\ M.expire[t] = 0
      /\ \A x \in Timers \ {t} : M.next[x] = L.next[x] /\ M.prev[x] = L.prev[x]
                                 /\ M.expire[x] = L.expire[x]
  BY <1>3 DEF ListType
<1>5. ASSUME NEW n \in Nat, NEW q, IsList(L, q, n), t \notin Nodes(q, n) PROVE IsList(M, q, n)
  <2>1. \A i \in 1..n : q[i] \in Timers \ {t}
    BY <1>5 DEF IsList, Nodes
  <2>. QED  BY <1>3, <1>4, <1>5, <2>1 DEF IsList
<1>. QED  BY <1>3, <1>4, <1>5 DEF M

(* The four cases of del_timer. *)
LEMMA UnlinkIs ==
  ASSUME NEW L \in ListType, NEW n \in Nat, NEW q, IsList(L, q, n), NEW k \in 1..n
  PROVE  LET M == Unlink(L, q[k])
         IN  /\ M \in ListType /\ M.expire = L.expire
             /\ \A x \in Timers \ Nodes(q, n) : M.next[x] = L.next[x]
             /\ IsList(M, Removed(q, n, k), n - 1)
<1>. DEFINE t == q[k]
            s == L.next[t]
            p == L.prev[t]
            M == Unlink(L, t)
<1>. USE NullAssumption
<1>0. /\ q \in [1..n -> Timers] /\ L.head = q[1] /\ L.tail = q[n] /\ t \in Timers
      /\ \A i, j \in 1..n : q[i] = q[j] => i = j
  <2>1. n # 0 /\ n > 0
    OBVIOUS
  <2>2. q \in [1..n -> Timers] /\ \A i, j \in 1..n : q[i] = q[j] => i = j
    BY DEF IsList
  <2>3. L.head = q[1] /\ L.tail = q[n]
    BY <2>1 DEF IsList
  <2>. QED  BY <2>2, <2>3
<1>1. /\ q \in [1..n -> Timers] /\ L.head = q[1] /\ L.tail = q[n] /\ t \in Timers
      /\ \A i, j \in 1..n : q[i] = q[j] => i = j
      /\ (t = L.head <=> k = 1) /\ (t = L.tail <=> k = n)
  BY <1>0
<1>2. /\ k < n => s = q[k + 1] /\ s \in Timers /\ k + 1 \in 1..n
      /\ k = n => s = Null
      /\ k > 1 => p = q[k - 1] /\ p \in Timers /\ p \in Nodes(q, n) /\ k - 1 \in 1..n
      /\ k = 1 => p = Null
  BY <1>1 DEF IsList, Nodes
<1>3. L.next[q[1]] = IF n = 1 THEN Null ELSE q[2]
  BY <1>1 DEF IsList
<1>. HIDE DEF t, s, p
<1>4. CASE k = 1 /\ k = n
  <2>1. M = [L EXCEPT !.head = Null, !.tail = Null]
    BY <1>1, <1>4 DEF Unlink, s, p
  <2>2. M \in ListType /\ M.expire = L.expire /\ M.next = L.next /\ M.head = Null
    BY <2>1 DEF ListType
  <2>3. IsList(M, Removed(q, n, k), n - 1)
    BY <1>3, <1>4, <2>2, RemovedList DEF t
  <2>. QED  BY <2>2, <2>3 DEF M, t
<1>5. CASE k = 1 /\ k # n
  <2>1. M = [[L EXCEPT !.prev[s] = Null] EXCEPT !.head = s]
    BY <1>1, <1>5 DEF Unlink, s, p, ListType
  <2>. DEFINE A == [L EXCEPT !.prev[s] = Null]
  <2>2. s = q[2] /\ s \in Timers /\ k < n
    BY <1>2, <1>5
  <2>3. A \in ListType /\ A.tail = L.tail /\ A.expire = L.expire /\ A.next = L.next
        /\ A.prev = [L.prev EXCEPT ![s] = Null]
    BY <2>2, PrevAssigned
  <2>. HIDE DEF A
  <2>4. M \in ListType /\ M.expire = L.expire /\ M.next = L.next /\ M.head = s /\ M.tail = L.tail
        /\ M.prev = [L.prev EXCEPT ![s] = Null]
    BY <2>1, <2>2, <2>3 DEF ListType, A
  <2>. HIDE DEF M
  <2>5. /\ M.prev[s] = Null
        /\ \A x \in Timers \ {s} : M.prev[x] = L.prev[x]
    BY <2>2, <2>4 DEF ListType
  <2>6. \A i \in 1..n : i # k + 1 => q[i] \in Timers \ {s}
    BY <1>1, <1>2, <2>2, <1>5
  <2>7. L.prev[q[k]] = Null
    BY <1>2, <1>5 DEF p, t
  <2>8. IsList(M, Removed(q, n, k), n - 1)
    <3>1. M.head = IF k = 1 THEN L.next[q[1]] ELSE L.head
      BY <1>5, <2>4 DEF s, t
    <3>2. \A i \in 1..n : /\ i # k /\ i # k - 1 => M.next[q[i]] = L.next[q[i]]
                          /\ i # k /\ i # k + 1 => M.prev[q[i]] = L.prev[q[i]]
      BY <2>4, <2>5, <2>6
    <3>3. k < n => M.prev[q[k + 1]] = L.prev[q[k]]
      BY <1>2, <2>5, <2>7
    <3>4. ~(k > 1) /\ (n > 1 => M.tail = IF k = n THEN q[n - 1] ELSE L.tail)
      BY <1>5, <2>4
    <3>. QED  BY <3>1, <3>2, <3>3, <3>4, RemovedList
  <2>. QED  BY <2>4, <2>8 DEF M, t
<1>6. CASE k # 1 /\ k = n
  <2>1. M = [[L EXCEPT !.tail = p] EXCEPT !.next[p] = Null]
    BY <1>1, <1>6 DEF Unlink, s, p
  <2>. DEFINE A == [L EXCEPT !.tail = p]
  <2>2. p = q[k - 1] /\ p \in Timers /\ k > 1
    BY <1>2, <1>6
  <2>3. A \in ListType /\ A.tail = p /\ A.head = L.head /\ A.expire = L.expire /\ A.next = L.next /\ A.prev = L.prev
    BY <2>2 DEF ListType
  <2>. HIDE DEF A
  <2>4. M \in ListType /\ M.expire = L.expire /\ M.prev = L.prev /\ M.head = L.head /\ M.tail = p
        /\ M.next = [L.next EXCEPT ![p] = Null]
    <3>1. M = [A EXCEPT !.next[p] = Null]
      BY <2>1 DEF A
    <3>. HIDE DEF M
    <3>2. [A EXCEPT !.next[p] = Null] \in ListType
          /\ [A EXCEPT !.next[p] = Null].next = [A.next EXCEPT ![p] = Null]
      BY <2>2, <2>3, NextAssigned
    <3>. QED  BY <2>2, <2>3, <3>1, NextAssigned
  <2>. HIDE DEF M
  <2>5. /\ M.next[p] = Null
        /\ \A x \in Timers \ {p} : M.next[x] = L.next[x]
    BY <2>2, <2>4 DEF ListType
  <2>6. \A i \in 1..n : i # k - 1 => q[i] \in Timers \ {p}
    BY <1>1, <1>2, <2>2
  <2>7. L.next[q[k]] = Null
    BY <1>2, <1>6 DEF s, t
  <2>8. IsList(M, Removed(q, n, k), n - 1)
    <3>1. M.head = IF k = 1 THEN L.next[q[1]] ELSE L.head
      BY <1>6, <2>4
    <3>2. \A i \in 1..n : /\ i # k /\ i # k - 1 => M.next[q[i]] = L.next[q[i]]
                          /\ i # k /\ i # k + 1 => M.prev[q[i]] = L.prev[q[i]]
      BY <2>4, <2>5, <2>6
    <3>3. k > 1 => M.next[q[k - 1]] = L.next[q[k]]
      BY <1>2, <2>5, <2>7
    <3>4. ~(k < n) /\ (n > 1 => M.tail = IF k = n THEN q[n - 1] ELSE L.tail)
      BY <1>2, <1>6, <2>4
    <3>. QED  BY <3>1, <3>2, <3>3, <3>4, RemovedList
  <2>9. \A x \in Timers \ Nodes(q, n) : M.next[x] = L.next[x]
    BY <1>2, <2>2, <2>5
  <2>. QED  BY <2>4, <2>8, <2>9 DEF M, t
<1>7. CASE k # 1 /\ k # n
  <2>1. M = [[L EXCEPT !.next[p] = s] EXCEPT !.prev[s] = p]
    BY <1>1, <1>7 DEF Unlink, s, p
  <2>2. p = q[k - 1] /\ p \in Timers /\ k > 1 /\ s = q[k + 1] /\ s \in Timers /\ k < n
    BY <1>2, <1>7
  <2>. DEFINE A == [L EXCEPT !.next[p] = s]
  <2>3. A \in ListType /\ A.head = L.head /\ A.tail = L.tail /\ A.expire = L.expire
        /\ A.next = [L.next EXCEPT ![p] = s] /\ A.prev = L.prev
    BY <2>2, NextAssigned
  <2>. HIDE DEF A
  <2>4. M \in ListType /\ M.expire = L.expire /\ M.head = L.head /\ M.tail = L.tail
        /\ M.next = [L.next EXCEPT ![p] = s] /\ M.prev = [L.prev EXCEPT ![s] = p]
    <3>1. M = [A EXCEPT !.prev[s] = p]
      BY <2>1 DEF A
    <3>. HIDE DEF M
    <3>. QED  BY <2>2, <2>3, <3>1, PrevAssigned
  <2>. HIDE DEF M
  <2>5. /\ M.next[p] = s /\ M.prev[s] = p
        /\ \A x \in Timers \ {p} : M.next[x] = L.next[x]
        /\ \A x \in Timers \ {s} : M.prev[x] = L.prev[x]
    BY <2>2, <2>4 DEF ListType
  <2>6. /\ \A i \in 1..n : i # k - 1 => q[i] \in Timers \ {p}
        /\ \A i \in 1..n : i # k + 1 => q[i] \in Timers \ {s}
    BY <1>1, <1>2, <2>2
  <2>7. L.next[q[k]] = s /\ L.prev[q[k]] = p
    BY DEF s, p, t
  <2>8. IsList(M, Removed(q, n, k), n - 1)
    <3>1. M.head = IF k = 1 THEN L.next[q[1]] ELSE L.head
      BY <1>7, <2>4
    <3>2. \A i \in 1..n : /\ i # k /\ i # k - 1 => M.next[q[i]] = L.next[q[i]]
                          /\ i # k /\ i # k + 1 => M.prev[q[i]] = L.prev[q[i]]
      BY <2>5, <2>6
    <3>3. /\ k > 1 => M.next[q[k - 1]] = L.next[q[k]]
          /\ k < n => M.prev[q[k + 1]] = L.prev[q[k]]
      BY <2>2, <2>5, <2>7
    <3>4. n > 1 => M.tail = IF k = n THEN q[n - 1] ELSE L.tail
      BY <1>7, <2>4
    <3>. QED  BY <3>1, <3>2, <3>3, <3>4, RemovedList
  <2>9. \A x \in Timers \ Nodes(q, n) : M.next[x] = L.next[x]
    BY <1>2, <2>2, <2>5
  <2>. QED  BY <2>4, <2>8, <2>9 DEF M, t
<1>. QED  BY <1>4, <1>5, <1>6, <1>7

-----------------------------------------------------------------------------
(* Induction over the nodes goes by least and greatest elements. *)
LEMMA LeastExists ==
  ASSUME NEW S \in SUBSET Nat, S # {} PROVE \E n \in S : \A m \in S : n <= m
<1>1. \E n \in S : \A m \in S : ~ (<<m, n>> \in OpToRel(<, Nat))
  BY WFMin, NatLessThanWellFounded
<1>2. ASSUME NEW n \in S, NEW m \in S, ~ (<<m, n>> \in OpToRel(<, Nat)) PROVE n <= m
  BY <1>2 DEF OpToRel
<1>. QED  BY <1>1, <1>2

LEMMA GreatestExists ==
  ASSUME NEW n \in Nat, NEW S \in SUBSET (1..n), S # {} PROVE \E i \in S : \A j \in S : j <= i
<1>. DEFINE T == {m \in Nat : n - m \in S}
<1>1. T # {}
  <2>1. PICK i \in S : TRUE
    OBVIOUS
  <2>2. n - i \in T
    BY <2>1
  <2>. QED  BY <2>2
<1>2. PICK m \in T : \A l \in T : m <= l
  BY <1>1, LeastExists
<1>3. ASSUME NEW j \in S PROVE j <= n - m
  <2>1. j \in 1..n
    OBVIOUS
  <2>2. n - j \in Nat /\ n - (n - j) = j
    BY <2>1
  <2>3. n - j \in T
    BY <2>2
  <2>4. m <= n - j
    BY <1>2, <2>3
  <2>. QED  BY <2>1, <2>4
<1>. QED  BY <1>2, <1>3

(* The loop of the private add_timer stops at the first node whose         *)
(* successor is not before t.                                              *)
Stops(L, t, q, n, i) == i = n \/ L.expire[t] <= L.expire[q[i + 1]]

Stop(L, t, q, n, j) ==
  CHOOSE k \in j..n : Stops(L, t, q, n, k) /\ \A m \in j..k - 1 : ~Stops(L, t, q, n, m)

LEMMA StopIs ==
  ASSUME NEW L, NEW t, NEW q, NEW n \in Nat, NEW j \in 1..n
  PROVE  /\ Stop(L, t, q, n, j) \in j..n
         /\ Stops(L, t, q, n, Stop(L, t, q, n, j))
         /\ \A m \in j..Stop(L, t, q, n, j) - 1 : ~Stops(L, t, q, n, m)
<1>. DEFINE S == {k \in j..n : Stops(L, t, q, n, k)}
<1>1. n \in S
  BY DEF Stops
<1>0. S \in SUBSET Nat
  OBVIOUS
<1>2. PICK k \in S : \A m \in S : k <= m
  <2>. HIDE DEF S
  <2>. QED  BY <1>0, <1>1, LeastExists
<1>3. k \in j..n /\ Stops(L, t, q, n, k) /\ \A m \in j..k - 1 : ~Stops(L, t, q, n, m)
  <2>1. k \in j..n /\ Stops(L, t, q, n, k)
    OBVIOUS
  <2>2. ASSUME NEW m \in j..k - 1, Stops(L, t, q, n, m) PROVE FALSE
    <3>1. m \in S
      BY <2>1, <2>2
    <3>. QED  BY <1>2, <2>1, <3>1
  <2>. QED  BY <2>1, <2>2
<1>4. \E l \in j..n : Stops(L, t, q, n, l) /\ \A m \in j..l - 1 : ~Stops(L, t, q, n, m)
  BY <1>3
<1>. QED  BY <1>4, Zenon DEF Stop

LEMMA StopNext ==
  ASSUME NEW L, NEW t, NEW q, NEW n \in Nat, NEW j \in 1..n
  PROVE  /\ Stops(L, t, q, n, j) => Stop(L, t, q, n, j) = j
         /\ ~Stops(L, t, q, n, j) => j + 1 \in 1..n /\ Stop(L, t, q, n, j) = Stop(L, t, q, n, j + 1)
<1>. DEFINE k == Stop(L, t, q, n, j)
            l == Stop(L, t, q, n, j + 1)
<1>1. k \in j..n /\ Stops(L, t, q, n, k) /\ \A m \in j..k - 1 : ~Stops(L, t, q, n, m)
  BY StopIs
<1>. HIDE DEF k, l
<1>2. CASE Stops(L, t, q, n, j)
  <2>1. ~(j \in j..k - 1)
    BY <1>1, <1>2
  <2>. QED  BY <1>1, <1>2, <2>1 DEF k
<1>3. CASE ~Stops(L, t, q, n, j)
  <2>1. j # n
    BY <1>3 DEF Stops
  <2>2. j + 1 \in 1..n
    BY <2>1
  <2>3. l \in j + 1..n /\ Stops(L, t, q, n, l) /\ \A m \in j + 1..l - 1 : ~Stops(L, t, q, n, m)
    BY <2>2, StopIs DEF l
  <2>4. k # j
    BY <1>1, <1>3
  <2>5. ~(k < l) /\ ~(l < k)
    BY <1>1, <2>3, <2>4
  <2>. QED  BY <1>1, <1>3, <2>2, <2>3, <2>5 DEF k, l
<1>. QED  BY <1>2, <1>3

Walk(L, t) ==
  CHOOSE walk : walk = [p \in Timers |->
                          IF L.next[p] # Null /\ L.expire[t] > L.expire[L.next[p]]
                            THEN walk[L.next[p]]
                            ELSE p]

LEMMA WalkIsInsertionPoint ==
  ASSUME NEW L, NEW t, NEW h PROVE InsertionPoint(L, t, h) = Walk(L, t)[h]
BY DEF InsertionPoint, Walk

LEMMA WalkIs ==
  ASSUME NEW L \in ListType, NEW n \in Nat, NEW q, IsList(L, q, n), NEW t \in Timers,
         \A x \in Timers : L.next[x] = Null \/ L.next[x] \in Nodes(q, n)
  PROVE  Walk(L, t) = [p \in Timers |->
                         IF L.next[p] # Null /\ L.expire[t] > L.expire[L.next[p]]
                           THEN Walk(L, t)[L.next[p]]
                           ELSE p]
<1>. DEFINE Goes(p) == L.next[p] # Null /\ L.expire[t] > L.expire[L.next[p]]
            F(j) == Stop(L, t, q, n, j)
            pos(x) == CHOOSE i \in 1..n : q[i] = x
            g == [p \in Timers |-> IF Goes(p) THEN q[F(pos(L.next[p]))] ELSE p]
<1>. USE NullAssumption
<1>1. q \in [1..n -> Timers] /\ \A i, j \in 1..n : q[i] = q[j] => i = j
  BY DEF IsList
<1>2. ASSUME NEW i \in 1..n PROVE pos(q[i]) = i
  BY <1>1
<1>3. ASSUME NEW i \in 1..n
      PROVE  /\ Goes(q[i]) <=> ~Stops(L, t, q, n, i)
             /\ Goes(q[i]) => i + 1 \in 1..n /\ L.next[q[i]] = q[i + 1]
  <2>1. q[i] \in Timers /\ L.next[q[i]] = IF i = n THEN Null ELSE q[i + 1]
    BY <1>1 DEF IsList
  <2>2. CASE i = n
    BY <2>1, <2>2 DEF Stops
  <2>3. CASE i # n
    <3>1. i + 1 \in 1..n
      BY <2>3
    <3>2. q[i + 1] \in Timers /\ L.next[q[i]] = q[i + 1] /\ q[i + 1] # Null
      BY <1>1, <2>1, <2>3, <3>1
    <3>3. L.expire[t] \in Nat /\ L.expire[q[i + 1]] \in Nat
      BY <3>2 DEF ListType
    <3>. QED  BY <2>3, <3>1, <3>2, <3>3 DEF Stops
  <2>. QED  BY <2>2, <2>3
<1>. HIDE DEF Goes, F, pos
<1>4. ASSUME NEW i \in 1..n PROVE g[q[i]] = q[F(i)]
  <2>1. q[i] \in Timers
    BY <1>1
  <2>2. CASE Goes(q[i])
    <3>1. g[q[i]] = q[F(pos(L.next[q[i]]))]
      BY <2>1, <2>2
    <3>2. i + 1 \in 1..n /\ pos(L.next[q[i]]) = i + 1
      BY <1>2, <1>3, <2>2
    <3>3. F(i) = F(i + 1)
      BY <1>3, <2>2, StopNext DEF F
    <3>. QED  BY <3>1, <3>2, <3>3
  <2>3. CASE ~Goes(q[i])
    BY <1>3, <2>1, <2>3, StopNext DEF F
  <2>. QED  BY <2>2, <2>3
<1>5. ASSUME NEW p \in Timers PROVE g[p] = IF Goes(p) THEN g[L.next[p]] ELSE p
  <2>1. CASE Goes(p)
    <3>1. PICK i \in 1..n : L.next[p] = q[i]
      BY <2>1 DEF Nodes, Goes
    <3>2. g[p] = q[F(i)]
      BY <1>2, <2>1, <3>1
    <3>. QED  BY <1>4, <2>1, <3>1, <3>2
  <2>2. CASE ~Goes(p)
    BY <2>2
  <2>. QED  BY <2>1, <2>2
<1>. DEFINE G(w) == [p \in Timers |-> IF L.next[p] # Null /\ L.expire[t] > L.expire[L.next[p]]
                                        THEN w[L.next[p]] ELSE p]
<1>6. g = G(g)
  BY <1>5 DEF Goes
<1>. HIDE DEF g
<1>7. \E w : w = G(w)
  BY <1>6
<1>8. Walk(L, t) = CHOOSE w : w = G(w)
  BY DEF Walk
<1>. HIDE DEF G
<1>9. Walk(L, t) = G(Walk(L, t))
  BY <1>7, <1>8
<1>. QED  BY <1>9 DEF G

LEMMA InsertionPointIs ==
  ASSUME NEW L \in ListType, NEW n \in Nat, NEW q, IsList(L, q, n), NEW t \in Timers,
         \A x \in Timers : L.next[x] = Null \/ L.next[x] \in Nodes(q, n), NEW j \in 1..n
  PROVE  \E k \in j..n : /\ InsertionPoint(L, t, q[j]) = q[k]
                         /\ \A i \in j + 1..k : L.expire[q[i]] < L.expire[t]
                         /\ k < n => L.expire[t] <= L.expire[q[k + 1]]
<1>. DEFINE W == Walk(L, t)
            F(i) == Stop(L, t, q, n, i)
            B == {i \in 1..n : W[q[i]] # q[F(i)]}
<1>. USE NullAssumption
<1>1. q \in [1..n -> Timers]
  BY DEF IsList
<1>2. \A p \in Timers : W[p] = IF L.next[p] # Null /\ L.expire[t] > L.expire[L.next[p]]
                                 THEN W[L.next[p]] ELSE p
  <2>1. W = [p \in Timers |-> IF L.next[p] # Null /\ L.expire[t] > L.expire[L.next[p]]
                                THEN W[L.next[p]] ELSE p]
    BY WalkIs
  <2>. HIDE DEF W
  <2>. QED  BY <2>1
<1>. HIDE DEF W, F
<1>3. ASSUME NEW i \in 1..n
      PROVE  /\ i = n => L.next[q[i]] = Null
             /\ i # n => /\ L.next[q[i]] = q[i + 1] /\ q[i + 1] # Null
                         /\ L.expire[q[i + 1]] \in Nat /\ L.expire[t] \in Nat
  <2>1. CASE i = n
    BY <2>1 DEF IsList
  <2>2. CASE i # n
    <3>1. i + 1 \in 1..n
      BY <2>2
    <3>. QED  BY <1>1, <2>2, <3>1 DEF IsList, ListType
  <2>. QED  BY <2>1, <2>2
<1>4. B = {}
  <2>. SUFFICES ASSUME B # {} PROVE FALSE
    OBVIOUS
  <2>1. PICK i \in B : \A m \in B : m <= i
    BY GreatestExists
  <2>2. i \in 1..n /\ q[i] \in Timers /\ W[q[i]] # q[F(i)]
    BY <1>1, <2>1
  <2>3. CASE Stops(L, t, q, n, i)
    <3>1. F(i) = i
      BY <2>2, <2>3, StopNext DEF F
    <3>2. ~(L.next[q[i]] # Null /\ L.expire[t] > L.expire[L.next[q[i]]])
      BY <1>3, <2>2, <2>3 DEF Stops
    <3>. QED  BY <1>2, <2>2, <3>1, <3>2
  <2>4. CASE ~Stops(L, t, q, n, i)
    <3>1. i + 1 \in 1..n /\ F(i) = F(i + 1)
      BY <2>2, <2>4, StopNext DEF F
    <3>2. L.next[q[i]] = q[i + 1] /\ L.next[q[i]] # Null /\ L.expire[t] > L.expire[L.next[q[i]]]
      BY <1>3, <2>2, <2>4 DEF Stops
    <3>3. i + 1 \notin B
      BY <2>1, <3>1
    <3>. QED  BY <1>2, <2>2, <3>1, <3>2, <3>3
  <2>. QED  BY <2>3, <2>4
<1>5. InsertionPoint(L, t, q[j]) = q[F(j)]
  BY <1>4, WalkIsInsertionPoint DEF W
<1>6. F(j) \in j..n /\ Stops(L, t, q, n, F(j)) /\ \A m \in j..F(j) - 1 : ~Stops(L, t, q, n, m)
  BY StopIs DEF F
<1>. DEFINE k == F(j)
<1>7. k \in j..n /\ Stops(L, t, q, n, k) /\ \A m \in j..k - 1 : ~Stops(L, t, q, n, m)
  BY <1>6
<1>. HIDE DEF k
<1>8. ASSUME NEW i \in j + 1..k PROVE L.expire[q[i]] < L.expire[t]
  <2>1. i - 1 \in j..k - 1 /\ i - 1 \in 1..n /\ i - 1 # n /\ i - 1 + 1 = i
    BY <1>7
  <2>2. ~(L.expire[t] <= L.expire[q[i]])
    BY <1>7, <2>1 DEF Stops
  <2>. QED  BY <1>3, <2>1, <2>2
<1>9. k < n => L.expire[t] <= L.expire[q[k + 1]]
  BY <1>7 DEF Stops
<1>. QED  BY <1>5, <1>7, <1>8, <1>9 DEF k

-----------------------------------------------------------------------------
(* Where the order allows a node to be put, and that taking one out keeps it. *)
LEMMA SortedInserted ==
  ASSUME NEW L \in ListType, NEW n \in Nat, NEW q \in [1..n -> Timers], NEW k \in 0..n, NEW t \in Timers,
         Sorted(L, q, n),
         k > 0 => L.expire[q[k]] <= L.expire[t],
         k < n => L.expire[t] <= L.expire[q[k + 1]]
  PROVE  Sorted(L, Inserted(q, n, k, t), n + 1)
<1>. DEFINE r == Inserted(q, n, k, t)
            e(i) == L.expire[q[i]]
            v == L.expire[t]
<1>1. /\ \A i \in 1..k : i \in 1..n /\ r[i] = q[i]
      /\ r[k + 1] = t
      /\ \A i \in k + 2..n + 1 : i - 1 \in k + 1..n /\ i - 1 \in 1..n /\ r[i] = q[i - 1]
  BY DEF Inserted
<1>2. v \in Nat /\ \A i \in 1..n : e(i) \in Nat
  BY DEF ListType
<1>3. \A i, j \in 1..n : i <= j => e(i) <= e(j)
  BY DEF Sorted
<1>. HIDE DEF e, v
<1>4. \A i \in 1..k : e(i) <= v
  <2>. SUFFICES ASSUME NEW i \in 1..k PROVE e(i) <= v
    OBVIOUS
  <2>1. k \in 1..n /\ i \in 1..n /\ k > 0
    OBVIOUS
  <2>2. e(i) <= e(k) /\ e(k) <= v
    BY <1>3, <2>1 DEF e, v
  <2>. QED  BY <1>2, <2>1, <2>2
<1>5. \A i \in k + 1..n : v <= e(i)
  <2>. SUFFICES ASSUME NEW i \in k + 1..n PROVE v <= e(i)
    OBVIOUS
  <2>1. k + 1 \in 1..n /\ i \in 1..n /\ k < n
    OBVIOUS
  <2>2. e(k + 1) <= e(i) /\ v <= e(k + 1)
    BY <1>3, <2>1 DEF e, v
  <2>. QED  BY <1>2, <2>1, <2>2
<1>. HIDE DEF r
<1>6. ASSUME NEW i \in 1..n + 1, NEW j \in 1..n + 1, i <= j PROVE L.expire[r[i]] <= L.expire[r[j]]
  <2>1. CASE i \in 1..k /\ j \in 1..k
    BY <1>1, <1>3, <1>6, <2>1 DEF e
  <2>2. CASE i \in 1..k /\ j = k + 1
    BY <1>1, <1>4, <2>2 DEF e, v
  <2>3. CASE i \in 1..k /\ j \in k + 2..n + 1
    <3>1. r[i] = q[i] /\ i \in 1..n /\ r[j] = q[j - 1] /\ j - 1 \in 1..n /\ i <= j - 1
      BY <1>1, <2>3
    <3>. QED  BY <1>3, <3>1 DEF e
  <2>4. CASE i = k + 1 /\ j = k + 1
    BY <1>1, <1>2, <2>4 DEF v
  <2>5. CASE i = k + 1 /\ j \in k + 2..n + 1
    BY <1>1, <1>5, <2>5 DEF e, v
  <2>6. CASE i \in k + 2..n + 1 /\ j \in k + 2..n + 1
    <3>1. r[i] = q[i - 1] /\ i - 1 \in 1..n /\ r[j] = q[j - 1] /\ j - 1 \in 1..n /\ i - 1 <= j - 1
      BY <1>1, <1>6, <2>6
    <3>. QED  BY <1>3, <3>1 DEF e
  <2>. QED  BY <1>6, <2>1, <2>2, <2>3, <2>4, <2>5, <2>6
<1>. QED  BY <1>6 DEF Sorted, r

(* The rest of the list is in order when one node's expiry has been raised. *)
SortedBut(L, q, n, k) == \A i, j \in 1..n : i <= j /\ i # k => L.expire[q[i]] <= L.expire[q[j]]

LEMMA SortedRemoved ==
  ASSUME NEW L \in ListType, NEW n \in Nat, NEW q \in [1..n -> Timers], NEW k \in 1..n,
         SortedBut(L, q, n, k)
  PROVE  Sorted(L, Removed(q, n, k), n - 1)
<1>. DEFINE r == Removed(q, n, k)
<1>1. \A i \in 1..n - 1 : \/ i < k /\ i \in 1..n /\ r[i] = q[i]
                          \/ i >= k /\ i + 1 \in 1..n /\ r[i] = q[i + 1]
  BY DEF Removed
<1>. HIDE DEF r
<1>2. ASSUME NEW i \in 1..n - 1, NEW j \in 1..n - 1, i <= j PROVE L.expire[r[i]] <= L.expire[r[j]]
  <2>1. CASE i < k /\ j < k
    BY <1>1, <1>2, <2>1 DEF SortedBut
  <2>2. CASE i < k /\ j >= k
    <3>1. r[i] = q[i] /\ i \in 1..n /\ r[j] = q[j + 1] /\ j + 1 \in 1..n /\ i <= j + 1 /\ i # k
      BY <1>1, <1>2, <2>2
    <3>. QED  BY <3>1 DEF SortedBut
  <2>3. CASE i >= k
    <3>1. r[i] = q[i + 1] /\ i + 1 \in 1..n /\ r[j] = q[j + 1] /\ j + 1 \in 1..n /\ i + 1 <= j + 1 /\ i + 1 # k
      BY <1>1, <1>2, <2>3
    <3>. QED  BY <3>1 DEF SortedBut
  <2>. QED  BY <2>1, <2>2, <2>3
<1>. QED  BY <1>2 DEF Sorted, r

(* A list in order with the nodes of S. *)
Links(L, n, S) ==
  L \in ListType /\ \E q : IsList(L, q, n) /\ Nodes(q, n) = S /\ Sorted(L, q, n)

(* A list of n timers that t may be put into. *)
TakesIn(L, q, n, t) ==
  /\ L \in ListType /\ n \in Nat /\ IsList(L, q, n) /\ Sorted(L, q, n)
  /\ t \in Timers \ Nodes(q, n)
  /\ \A x \in Timers : L.next[x] = Null \/ L.next[x] \in Nodes(q, n)

(* M is that list with t in it. *)
Takes(M, L, q, n, t) ==
  /\ Links(M, n + 1, Nodes(q, n) \cup {t}) /\ M.expire = L.expire
  /\ \A x \in Timers \ (Nodes(q, n) \cup {t}) : M.next[x] = L.next[x]

LEMMA AddAfterIs ==
  ASSUME NEW L, NEW q, NEW n, NEW t, TakesIn(L, q, n, t),
         NEW j, j \in 1..n /\ L.expire[q[j]] <= L.expire[t]
  PROVE  Takes(AddAfter(L, t, q[j]), L, q, n, t)
<1>0. /\ L \in ListType /\ n \in Nat /\ IsList(L, q, n) /\ Sorted(L, q, n)
      /\ t \in Timers \ Nodes(q, n) /\ j \in 1..n
      /\ \A x \in Timers : L.next[x] = Null \/ L.next[x] \in Nodes(q, n)
  BY DEF TakesIn
<1>. DEFINE M == AddAfter(L, t, q[j])
<1>1. PICK k \in j..n : /\ InsertionPoint(L, t, q[j]) = q[k]
                        /\ \A i \in j + 1..k : L.expire[q[i]] < L.expire[t]
                        /\ k < n => L.expire[t] <= L.expire[q[k + 1]]
  BY <1>0, InsertionPointIs
<1>2. M = LinkBehind(L, t, q[k])
  BY <1>1 DEF AddAfter, LinkBehind
<1>. DEFINE r == Inserted(q, n, k, t)
<1>3. q \in [1..n -> Timers] /\ \A i, l \in 1..n : q[i] = q[l] => i = l
  BY <1>0 DEF IsList
<1>. HIDE DEF M
<1>4. /\ M \in ListType /\ M.expire = L.expire /\ IsList(M, r, n + 1)
      /\ \A x \in Timers \ {q[k], t} : M.next[x] = L.next[x]
  BY <1>0, <1>2, LinkBehindIs
<1>5. Nodes(r, n + 1) = Nodes(q, n) \cup {t}
  BY <1>0, <1>3, InsertedIs
<1>6. L.expire[q[k]] <= L.expire[t]
  <2>1. L.expire[q[k]] \in Nat /\ L.expire[t] \in Nat
    BY <1>0, <1>1, <1>3 DEF ListType
  <2>2. CASE k = j
    BY <1>0, <2>2
  <2>3. CASE k > j
    BY <1>0, <1>1, <2>1, <2>3
  <2>. QED  BY <1>0, <2>2, <2>3
<1>7. Sorted(L, r, n + 1)
  <2>1. /\ L \in ListType /\ n \in Nat /\ q \in [1..n -> Timers] /\ k \in 0..n /\ t \in Timers
        /\ Sorted(L, q, n) /\ (k > 0 => L.expire[q[k]] <= L.expire[t])
        /\ (k < n => L.expire[t] <= L.expire[q[k + 1]])
    BY <1>0, <1>1, <1>3, <1>6
  <2>. QED  BY ONLY <2>1, SortedInserted
<1>8. Sorted(M, r, n + 1)
  BY <1>0, <1>4, <1>7 DEF Sorted
<1>9. q[k] \in Nodes(q, n)
  BY <1>0, <1>1 DEF Nodes
<1>10. Links(M, n + 1, Nodes(q, n) \cup {t})
  BY <1>0, <1>4, <1>5, <1>8 DEF Links
<1>. QED  BY <1>0, <1>4, <1>9, <1>10 DEF M, Takes

-----------------------------------------------------------------------------
(* A list in order that links exactly the timers of S; the others point    *)
(* nowhere, as new timers do and what is left of deleted ones.             *)
ListOf(L, S) ==
  /\ \E n \in Nat : Links(L, n, S)
  /\ \A x \in Timers \ S : L.next[x] = Null

LEMMA EmptyListIs == ListOf(EmptyList, {})
<1>1. EmptyList \in ListType
  BY DEF EmptyList, ListType
<1>2. [i \in 1..0 |-> Null] \in [1..0 -> Timers]
  OBVIOUS
<1>3. IsList(EmptyList, [i \in 1..0 |-> Null], 0) /\ Sorted(EmptyList, [i \in 1..0 |-> Null], 0)
      /\ Nodes([i \in 1..0 |-> Null], 0) = {}
  BY <1>2 DEF EmptyList, IsList, Sorted, Nodes
<1>. QED  BY <1>1, <1>3 DEF ListOf, Links, EmptyList

(* A new timer has no links. *)
LEMMA NewTimerIs ==
  ASSUME NEW L, NEW S, ListOf(L, S), NEW t \in Timers \ S, NEW e \in Nat
  PROVE  LET M == NewTimer(L, t, e)
         IN  ListOf(M, S) /\ M.expire = [L.expire EXCEPT ![t] = e] /\ M.prev[t] = Null
<1>. DEFINE M == NewTimer(L, t, e)
<1>. SUFFICES ListOf(M, S) /\ M.expire = [L.expire EXCEPT ![t] = e] /\ M.prev[t] = Null
  OBVIOUS
<1>1. PICK n \in Nat : Links(L, n, S)
  BY DEF ListOf
<1>2. PICK q : IsList(L, q, n) /\ Nodes(q, n) = S /\ Sorted(L, q, n)
  BY <1>1 DEF Links
<1>3. L \in ListType /\ q \in [1..n -> Timers]
  BY <1>1, <1>2 DEF Links, IsList
<1>4. \A i \in 1..n : q[i] \in Timers \ {t}
  BY <1>2, <1>3 DEF Nodes
<1>5. /\ M \in ListType /\ M.expire = [L.expire EXCEPT ![t] = e] /\ M.head = L.head /\ M.tail = L.tail
      /\ M.prev = [L.prev EXCEPT ![t] = Null] /\ M.next = [L.next EXCEPT ![t] = Null]
  <2>. DEFINE B == [L EXCEPT !.prev[t] = Null]
              A == [B EXCEPT !.next[t] = Null]
  <2>1. B \in ListType /\ B.head = L.head /\ B.tail = L.tail /\ B.expire = L.expire
        /\ B.prev = [L.prev EXCEPT ![t] = Null] /\ B.next = L.next
    BY <1>3, PrevAssigned
  <2>. HIDE DEF B
  <2>2. A \in ListType /\ A.head = L.head /\ A.tail = L.tail /\ A.expire = L.expire
        /\ A.prev = [L.prev EXCEPT ![t] = Null] /\ A.next = [L.next EXCEPT ![t] = Null]
    BY <2>1, NextAssigned
  <2>3. M = [A EXCEPT !.expire[t] = e]
    BY DEF NewTimer, B
  <2>. HIDE DEF A
  <2>. QED  BY <2>2, <2>3 DEF ListType
<1>. HIDE DEF M
<1>6. /\ M.expire[t] = e /\ M.prev[t] = Null /\ M.next[t] = Null
      /\ \A x \in Timers \ {t} : M.expire[x] = L.expire[x] /\ M.prev[x] = L.prev[x] /\ M.next[x] = L.next[x]
  BY <1>3, <1>5 DEF ListType
<1>7. IsList(M, q, n)
  <2>1. \A i \in 1..n : M.prev[q[i]] = L.prev[q[i]] /\ M.next[q[i]] = L.next[q[i]]
    BY <1>4, <1>6
  <2>2. M.head = L.head /\ M.tail = L.tail
    BY <1>5
  <2>. QED  BY <1>2, <2>1, <2>2 DEF IsList
<1>8. Sorted(M, q, n)
  BY <1>2, <1>4, <1>6 DEF Sorted
<1>9. \A x \in Timers \ S : M.next[x] = Null
  BY <1>6 DEF ListOf
<1>. QED  BY <1>2, <1>5, <1>6, <1>7, <1>8, <1>9 DEF ListOf, Links

(* The successor of a node is a node. *)
LEMMA NextIsNode ==
  ASSUME NEW L, NEW n \in Nat, NEW q, IsList(L, q, n), NEW x \in Nodes(q, n)
  PROVE  L.next[x] = Null \/ L.next[x] \in Nodes(q, n)
<1>1. PICK i \in 1..n : x = q[i]
  BY DEF Nodes
<1>2. CASE i = n
  BY <1>1, <1>2 DEF IsList
<1>3. CASE i # n
  <2>1. i + 1 \in 1..n /\ L.next[x] = q[i + 1]
    BY <1>1, <1>3 DEF IsList
  <2>. QED  BY <2>1 DEF Nodes
<1>. QED  BY <1>2, <1>3

(* add_timer, for a timer that is not linked. *)
LEMMA AddTimerIs ==
  ASSUME NEW L, NEW S, ListOf(L, S), NEW t \in Timers \ S, L.prev[t] = Null
  PROVE  ListOf(AddTimer(L, t), S \cup {t}) /\ AddTimer(L, t).expire = L.expire
<1>. USE NullAssumption
<1>. DEFINE M == AddTimer(L, t)
<1>1. PICK n \in Nat : Links(L, n, S)
  BY DEF ListOf
<1>2. PICK q : IsList(L, q, n) /\ Nodes(q, n) = S /\ Sorted(L, q, n)
  BY <1>1 DEF Links
<1>3. /\ L \in ListType /\ q \in [1..n -> Timers] /\ \A i, j \in 1..n : q[i] = q[j] => i = j
      /\ t \in Timers \ Nodes(q, n) /\ L.next[t] = Null
  BY <1>1, <1>2 DEF Links, IsList, ListOf
<1>4. \A x \in Timers : L.next[x] = Null \/ L.next[x] \in Nodes(q, n)
  BY <1>2, NextIsNode DEF ListOf
<1>5. CASE n = 0
  <2>1. L.head = Null /\ S = {}
    BY <1>2, <1>5 DEF IsList, Nodes
  <2>2. M = [L EXCEPT !.head = t, !.tail = t]
    BY <2>1 DEF AddTimer
  <2>3. M \in ListType /\ M.head = t /\ M.tail = t /\ M.expire = L.expire /\ M.prev = L.prev /\ M.next = L.next
    BY <1>3, <2>2 DEF ListType
  <2>. DEFINE r == [i \in 1..1 |-> t]
  <2>4. r \in [1..1 -> Timers] /\ r[1] = t /\ Nodes(r, 1) = {t}
    BY DEF Nodes
  <2>. HIDE DEF r, M
  <2>5. IsList(M, r, 1)
    BY <1>3, <2>3, <2>4 DEF IsList
  <2>6. Sorted(M, r, 1)
    <3>1. M.expire[t] \in Nat
      BY <2>3 DEF ListType
    <3>. QED  BY <2>4, <3>1 DEF Sorted
  <2>7. Links(M, 1, S \cup {t})
    BY <2>1, <2>3, <2>4, <2>5, <2>6 DEF Links
  <2>. QED  BY <2>3, <2>7 DEF ListOf, M
<1>6. CASE n # 0 /\ L.expire[t] < L.expire[L.head]
  <2>1. L.head = q[1] /\ L.head \in Timers /\ n \in Nat \ {0} /\ n + 1 \in Nat
    BY <1>2, <1>3, <1>6 DEF IsList
  <2>2. M = LinkFirst(L, t)
    BY <1>6, <2>1 DEF AddTimer, LinkFirst
  <2>. DEFINE r == Inserted(q, n, 0, t)
  <2>. HIDE DEF M
  <2>3. /\ M \in ListType /\ M.expire = L.expire /\ IsList(M, r, n + 1)
        /\ \A x \in Timers \ {t} : M.next[x] = L.next[x]
    BY <1>2, <1>3, <2>1, <2>2, LinkFirstIs
  <2>4. Nodes(r, n + 1) = S \cup {t}
    BY <1>2, <1>3, InsertedIs
  <2>5. L.expire[t] <= L.expire[q[0 + 1]]
    BY <1>3, <1>6, <2>1 DEF ListType
  <2>6. Sorted(M, r, n + 1)
    <3>1. 0 \in 0..n /\ ~(0 > 0)
      OBVIOUS
    <3>2. Sorted(L, r, n + 1)
      BY <1>2, <1>3, <2>5, <3>1, SortedInserted
    <3>. QED  BY <2>3, <3>2 DEF Sorted
  <2>7. Links(M, n + 1, S \cup {t})
    BY <2>3, <2>4, <2>6 DEF Links
  <2>. QED  BY <2>1, <2>3, <2>7 DEF ListOf, M
<1>7. CASE n # 0 /\ ~(L.expire[t] < L.expire[L.head])
  <2>1. L.head = q[1] /\ L.head \in Timers /\ 1 \in 1..n /\ n + 1 \in Nat
    BY <1>2, <1>3, <1>7 DEF IsList
  <2>2. M = AddAfter(L, t, q[1])
    BY <1>7, <2>1 DEF AddTimer
  <2>3. L.expire[q[1]] <= L.expire[t]
    BY <1>3, <1>7, <2>1 DEF ListType
  <2>. HIDE DEF M
  <2>4. /\ Links(M, n + 1, S \cup {t}) /\ M.expire = L.expire
        /\ \A x \in Timers \ (S \cup {t}) : M.next[x] = L.next[x]
    <3>1. L \in ListType /\ IsList(L, q, n) /\ Sorted(L, q, n) /\ t \in Timers \ Nodes(q, n)
      BY <1>2, <1>3
    <3>2. /\ Links(AddAfter(L, t, q[1]), n + 1, Nodes(q, n) \cup {t})
          /\ AddAfter(L, t, q[1]).expire = L.expire
          /\ \A x \in Timers \ (Nodes(q, n) \cup {t}) : AddAfter(L, t, q[1]).next[x] = L.next[x]
      <4>1. TakesIn(L, q, n, t)
        BY <1>2, <1>3, <1>4 DEF TakesIn, Links, ListOf
      <4>2. 1 \in 1..n /\ L.expire[q[1]] <= L.expire[t]
        BY <2>1, <2>3, <3>1
      <4>3. Takes(AddAfter(L, t, q[1]), L, q, n, t)
        BY <4>1, <4>2, AddAfterIs, Zenon
      <4>. QED  BY <4>3 DEF Takes
    <3>. QED  BY <1>2, <2>2, <3>2
  <2>. QED  BY <2>1, <2>4 DEF ListOf, M
<1>. QED  BY <1>5, <1>6, <1>7

(* adjust_timer: a node whose expiry was raised moves behind those that    *)
(* are now before it.                                                      *)
LEMMA MovedIs ==
  ASSUME NEW L \in ListType, NEW n \in Nat, NEW q, IsList(L, q, n), NEW k \in 1..n,
         SortedBut(L, q, n, k), \A x \in Timers \ Nodes(q, n) : L.next[x] = Null
  PROVE  LET M == AdjustTimer(L, q[k])
         IN  /\ Links(M, n, Nodes(q, n)) /\ M.expire = L.expire
             /\ \A x \in Timers \ Nodes(q, n) : M.next[x] = Null
<1>. USE NullAssumption
<1>. DEFINE t == q[k]
            s == L.next[t]
            p == L.prev[t]
            M == AdjustTimer(L, t)
<1>1. /\ q \in [1..n -> Timers] /\ t \in Timers /\ t \in Nodes(q, n)
      /\ \A i, j \in 1..n : q[i] = q[j] => i = j
  BY DEF IsList, Nodes
<1>2. \A i \in 1..n : L.expire[q[i]] \in Nat
  BY <1>1 DEF ListType
<1>3. ASSUME Sorted(L, q, n), M = L
      PROVE  /\ Links(M, n, Nodes(q, n)) /\ M.expire = L.expire
             /\ \A x \in Timers \ Nodes(q, n) : M.next[x] = Null
  BY <1>3 DEF Links
<1>4. CASE k = n
  <2>1. s = Null
    BY <1>4 DEF IsList
  <2>2. M = L
    BY <2>1 DEF AdjustTimer
  <2>3. Sorted(L, q, n)
    BY <1>2, <1>4 DEF Sorted, SortedBut
  <2>. QED  BY <1>3, <2>2, <2>3
<1>5. ASSUME k # n
      PROVE  k + 1 \in 1..n /\ s = q[k + 1] /\ s \in Timers /\ s # Null /\ s # t /\ k < n /\ k \in 1..n - 1
  <2>1. k + 1 \in 1..n /\ k + 1 # k /\ k < n /\ k \in 1..n - 1
    BY <1>5
  <2>. QED  BY <1>1, <1>5, <2>1 DEF IsList
<1>6. CASE k # n /\ L.expire[t] < L.expire[s]
  <2>1. M = L
    BY <1>5, <1>6 DEF AdjustTimer
  <2>2. Sorted(L, q, n)
    <3>1. ASSUME NEW j \in 1..n, k <= j PROVE L.expire[q[k]] <= L.expire[q[j]]
      <4>1. CASE j = k
        BY <1>2, <4>1
      <4>2. CASE j # k
        <5>1. L.expire[q[k + 1]] <= L.expire[q[j]]
          BY <1>5, <1>6, <3>1, <4>2 DEF SortedBut
        <5>. QED  BY <1>2, <1>5, <1>6, <5>1
      <4>. QED  BY <4>1, <4>2
    <3>. QED  BY <3>1 DEF Sorted, SortedBut
  <2>. QED  BY <1>3, <2>1, <2>2
<1>7. CASE k # n /\ ~(L.expire[t] < L.expire[s])
  <2>. DEFINE D == IF t = L.head THEN [L EXCEPT !.head = s, !.prev[s] = Null, !.next[t] = Null]
                                 ELSE [L EXCEPT !.next[p] = s, !.prev[s] = p]
              U == Unlink(L, t)
              r == Removed(q, n, k)
  <2>1. M = AddAfter(D, t, s)
    BY <1>5, <1>7 DEF AdjustTimer
  <2>2. L.head = q[1] /\ L.tail = q[n] /\ (t = L.head <=> k = 1) /\ t # L.tail
    <3>1. n # 0 /\ n > 0 /\ 1 \in 1..n /\ n \in 1..n
      OBVIOUS
    <3>2. L.head = q[1] /\ L.tail = q[n]
      BY <3>1 DEF IsList
    <3>. QED  BY <1>1, <1>7, <3>1, <3>2
  <2>3. /\ U \in ListType /\ U.expire = L.expire /\ IsList(U, r, n - 1)
        /\ \A x \in Timers \ Nodes(q, n) : U.next[x] = L.next[x]
    BY UnlinkIs
  <2>4. /\ r \in [1..n - 1 -> Timers] /\ Nodes(r, n - 1) = Nodes(q, n) \ {t}
        /\ \A i \in 1..n - 1 : r[i] # t
        /\ s = r[k]
    <3>1. r \in [1..n - 1 -> Timers] /\ Nodes(r, n - 1) = Nodes(q, n) \ {t}
      BY <1>1, RemovedIs
    <3>2. r[k] = q[k + 1]
      BY <1>5, <1>7 DEF Removed
    <3>3. \A i \in 1..n - 1 : r[i] # t
      <4>. HIDE DEF r
      <4>. QED  BY <3>1 DEF Nodes
    <3>. QED  BY <1>5, <1>7, <3>1, <3>2, <3>3
  <2>5. /\ D \in ListType /\ D.expire = L.expire /\ IsList(D, r, n - 1)
        /\ \A x \in Timers \ Nodes(q, n) : D.next[x] = Null
        /\ D.next[t] = Null \/ D.next[t] \in Nodes(r, n - 1)
    <3>. HIDE DEF r
    <3>1. CASE k = 1
      <4>1. U = [L EXCEPT !.head = s, !.prev[s] = Null]
        BY <2>2, <3>1 DEF Unlink
      <4>2. D = [U EXCEPT !.next[t] = Null]
        BY <2>2, <3>1, <4>1
      <4>. HIDE DEF U, D
      <4>3. /\ D \in ListType /\ D.head = U.head /\ D.tail = U.tail /\ D.expire = U.expire
            /\ D.prev = U.prev /\ D.next = [U.next EXCEPT ![t] = Null]
        BY <1>1, <2>3, <4>2, NextAssigned
      <4>4. D.next[t] = Null /\ \A x \in Timers \ {t} : D.next[x] = U.next[x]
        BY <1>1, <2>3, <4>3 DEF ListType
      <4>5. IsList(D, r, n - 1)
        <5>1. \A i \in 1..n - 1 : r[i] \in Timers \ {t}
          BY <2>4
        <5>. QED  BY <2>3, <4>3, <4>4, <5>1 DEF IsList
      <4>. QED  BY <2>3, <4>3, <4>4, <4>5
    <3>2. CASE k # 1
      <4>1. D = U
        BY <2>2, <3>2 DEF Unlink
      <4>2. p = q[k - 1] /\ p \in Timers /\ p # t
        <5>1. k - 1 \in 1..n /\ k - 1 # k
          BY <3>2
        <5>. QED  BY <1>1, <3>2, <5>1 DEF IsList
      <4>3. D = [[L EXCEPT !.next[p] = s] EXCEPT !.prev[s] = p]
        BY <2>2, <3>2
      <4>. DEFINE A == [L EXCEPT !.next[p] = s]
      <4>4. A \in ListType /\ A.next = [L.next EXCEPT ![p] = s]
        BY <1>5, <1>7, <4>2, NextAssigned
      <4>. HIDE DEF A
      <4>5. D.next = A.next
        <5>1. D = [A EXCEPT !.prev[s] = p]
          BY <4>3 DEF A
        <5>. HIDE DEF D
        <5>. QED  BY <1>5, <1>7, <4>2, <4>4, <5>1, PrevAssigned
      <4>. HIDE DEF D, U
      <4>6. D.next[t] = s
        BY <1>1, <4>2, <4>4, <4>5 DEF ListType
      <4>7. s \in Nodes(r, n - 1)
        BY <1>5, <1>7, <2>4 DEF Nodes
      <4>. QED  BY <2>3, <4>1, <4>6, <4>7
    <3>. QED  BY <3>1, <3>2
  <2>6. Sorted(L, r, n - 1)
    BY <1>1, SortedRemoved
  <2>. HIDE DEF D, U, r, M
  <2>7. Sorted(D, r, n - 1)
    BY <2>5, <2>6 DEF Sorted
  <2>8. \A x \in Timers : D.next[x] = Null \/ D.next[x] \in Nodes(r, n - 1)
    <3>1. n - 1 \in Nat
      OBVIOUS
    <3>2. \A x \in Nodes(r, n - 1) : D.next[x] = Null \/ D.next[x] \in Nodes(r, n - 1)
      BY <2>5, <3>1, NextIsNode
    <3>. QED  BY <2>4, <2>5, <3>2
  <2>9. /\ Links(M, n - 1 + 1, Nodes(r, n - 1) \cup {t}) /\ M.expire = D.expire
        /\ \A x \in Timers \ (Nodes(r, n - 1) \cup {t}) : M.next[x] = D.next[x]
    <3>1. n - 1 \in Nat /\ k \in 1..n - 1 /\ t \in Timers \ Nodes(r, n - 1)
      BY <1>1, <1>5, <1>7, <2>4
    <3>2. D.expire[r[k]] <= D.expire[t]
      BY <1>2, <1>5, <1>7, <2>4, <2>5
    <3>3. /\ Links(AddAfter(D, t, r[k]), n - 1 + 1, Nodes(r, n - 1) \cup {t})
          /\ AddAfter(D, t, r[k]).expire = D.expire
          /\ \A x \in Timers \ (Nodes(r, n - 1) \cup {t}) : AddAfter(D, t, r[k]).next[x] = D.next[x]
      <4>. DEFINE m == n - 1
                  T == t
      <4>1. TakesIn(D, r, m, T) /\ (k \in 1..m /\ D.expire[r[k]] <= D.expire[T])
        BY <2>5, <2>7, <2>8, <3>1, <3>2 DEF TakesIn
      <4>. HIDE DEF m, T
      <4>2. /\ Links(AddAfter(D, T, r[k]), m + 1, Nodes(r, m) \cup {T})
            /\ AddAfter(D, T, r[k]).expire = D.expire
            /\ \A x \in Timers \ (Nodes(r, m) \cup {T}) : AddAfter(D, T, r[k]).next[x] = D.next[x]
        <5>1. Takes(AddAfter(D, T, r[k]), D, r, m, T)
          BY <4>1, AddAfterIs, Zenon
        <5>. QED  BY <5>1 DEF Takes
      <4>. QED  BY <4>2 DEF m, T
    <3>. QED  BY <2>1, <2>4, <3>3
  <2>10. Nodes(r, n - 1) \cup {t} = Nodes(q, n) /\ n - 1 + 1 = n
    BY <1>1, <2>4
  <2>. QED  BY <2>5, <2>9, <2>10 DEF M
<1>. QED  BY <1>4, <1>6, <1>7

LEMMA AdjustTimerIs ==
  ASSUME NEW L, NEW S, ListOf(L, S), NEW t \in S, NEW e \in Nat, L.expire[t] <= e
  PROVE  LET M == AdjustTimer(SetExpire(L, t, e), t)
         IN  ListOf(M, S) /\ M.expire = [L.expire EXCEPT ![t] = e]
<1>. DEFINE Later == SetExpire(L, t, e)
<1>1. PICK n \in Nat : Links(L, n, S)
  BY DEF ListOf
<1>2. PICK q : IsList(L, q, n) /\ Nodes(q, n) = S /\ Sorted(L, q, n)
  BY <1>1 DEF Links
<1>3. L \in ListType /\ q \in [1..n -> Timers] /\ \A i, j \in 1..n : q[i] = q[j] => i = j
  BY <1>1, <1>2 DEF Links, IsList
<1>4. PICK k \in 1..n : t = q[k]
  BY <1>2 DEF Nodes
<1>5. /\ Later \in ListType /\ Later.head = L.head /\ Later.tail = L.tail /\ Later.prev = L.prev /\ Later.next = L.next
      /\ Later.expire = [L.expire EXCEPT ![t] = e]
  BY <1>3 DEF SetExpire, ListType
<1>. HIDE DEF Later
<1>6. IsList(Later, q, n)
  BY <1>2, <1>5 DEF IsList
<1>7. SortedBut(Later, q, n, k)
  <2>. SUFFICES ASSUME NEW i \in 1..n, NEW j \in 1..n, i <= j, i # k
                PROVE  Later.expire[q[i]] <= Later.expire[q[j]]
    BY DEF SortedBut
  <2>1. /\ L.expire[q[i]] <= L.expire[q[j]] /\ q[i] # t /\ q[i] \in Timers /\ q[j] \in Timers /\ t \in Timers
        /\ L.expire \in [Timers -> Nat]
    BY <1>2, <1>3, <1>4 DEF Sorted, ListType
  <2>2. Later.expire[q[i]] = L.expire[q[i]]
    BY <1>5, <2>1
  <2>3. Later.expire[q[j]] = IF q[j] = t THEN e ELSE L.expire[q[j]]
    BY <1>5, <2>1
  <2>. QED  BY <2>1, <2>2, <2>3
<1>8. \A x \in Timers \ Nodes(q, n) : Later.next[x] = Null
  BY <1>2, <1>5 DEF ListOf
<1>9. /\ Links(AdjustTimer(Later, q[k]), n, Nodes(q, n)) /\ AdjustTimer(Later, q[k]).expire = Later.expire
      /\ \A x \in Timers \ Nodes(q, n) : AdjustTimer(Later, q[k]).next[x] = Null
  BY <1>5, <1>6, <1>7, <1>8, MovedIs
<1>. QED  BY <1>2, <1>4, <1>5, <1>9 DEF ListOf, Later

(* del_timer and the delete that ends it. *)
LEMMA DelTimerIs ==
  ASSUME NEW L, NEW S, ListOf(L, S), NEW t \in S
  PROVE  ListOf(DelTimer(L, t), S \ {t}) /\ \A x \in Timers \ {t} : DelTimer(L, t).expire[x] = L.expire[x]
<1>. DEFINE U == Unlink(L, t)
            M == DelTimer(L, t)
<1>1. PICK n \in Nat : Links(L, n, S)
  BY DEF ListOf
<1>2. PICK q : IsList(L, q, n) /\ Nodes(q, n) = S /\ Sorted(L, q, n)
  BY <1>1 DEF Links
<1>3. L \in ListType /\ q \in [1..n -> Timers] /\ \A i, j \in 1..n : q[i] = q[j] => i = j
  BY <1>1, <1>2 DEF Links, IsList
<1>4. PICK k \in 1..n : t = q[k]
  BY <1>2 DEF Nodes
<1>. DEFINE r == Removed(q, n, k)
<1>5. /\ U \in ListType /\ U.expire = L.expire /\ IsList(U, r, n - 1)
      /\ \A x \in Timers \ S : U.next[x] = L.next[x]
  BY <1>2, <1>3, <1>4, UnlinkIs
<1>6. r \in [1..n - 1 -> Timers] /\ Nodes(r, n - 1) = S \ {t} /\ t \in Timers /\ n - 1 \in Nat
  BY <1>2, <1>3, <1>4, RemovedIs
<1>7. Sorted(L, r, n - 1)
  <2>1. SortedBut(L, q, n, k)
    BY <1>2 DEF Sorted, SortedBut
  <2>. QED  BY <1>3, <2>1, SortedRemoved
<1>8. M = Freed(U, t)
  BY DEF DelTimer
<1>. HIDE DEF U, M, r
<1>9. /\ M \in ListType /\ M.next[t] = Null
      /\ \A x \in Timers \ {t} : M.next[x] = U.next[x] /\ M.expire[x] = U.expire[x]
      /\ IsList(M, r, n - 1)
  BY <1>5, <1>6, <1>8, FreedIs
<1>10. Sorted(M, r, n - 1)
  <2>1. \A i \in 1..n - 1 : r[i] \in Timers \ {t}
    BY <1>6 DEF Nodes
  <2>. QED  BY <1>5, <1>7, <1>9, <2>1 DEF Sorted
<1>11. \A x \in Timers \ (S \ {t}) : M.next[x] = Null
  BY <1>5, <1>9 DEF ListOf
<1>12. Links(M, n - 1, S \ {t})
  BY <1>6, <1>9, <1>10 DEF Links
<1>. QED  BY <1>5, <1>6, <1>9, <1>11, <1>12 DEF ListOf, M

(* The head is linked, and nothing is due before it. *)
LEMMA HeadIs ==
  ASSUME NEW L, NEW S, ListOf(L, S)
  PROVE  /\ L \in ListType
         /\ L.head = Null => S = {}
         /\ L.head # Null => L.head \in S /\ \A x \in S : L.expire[L.head] <= L.expire[x]
<1>. USE NullAssumption
<1>1. PICK n \in Nat : Links(L, n, S)
  BY DEF ListOf
<1>2. PICK q : IsList(L, q, n) /\ Nodes(q, n) = S /\ Sorted(L, q, n)
  BY <1>1 DEF Links
<1>3. L \in ListType /\ q \in [1..n -> Timers]
  BY <1>1, <1>2 DEF Links, IsList
<1>4. CASE n = 0
  BY <1>2, <1>3, <1>4 DEF IsList, Nodes
<1>5. CASE n # 0
  <2>1. 1 \in 1..n /\ \A i \in 1..n : 1 <= i
    BY <1>5
  <2>2. L.head = q[1] /\ L.head # Null
    BY <1>2, <1>3, <1>5, <2>1 DEF IsList
  <2>. QED  BY <1>2, <1>3, <2>1, <2>2 DEF Nodes, Sorted
<1>. QED  BY <1>4, <1>5

(* A round of tick. *)
LEMMA PopHeadIs ==
  ASSUME NEW L, NEW S, ListOf(L, S), L.head # Null
  PROVE  /\ ListOf(PopHead(L), S \ {L.head})
         /\ \A x \in Timers \ {L.head} : PopHead(L).expire[x] = L.expire[x]
<1>. USE NullAssumption
<1>. DEFINE t == L.head
            s == L.next[t]
            U == IF s = Null THEN [L EXCEPT !.head = Null] ELSE [L EXCEPT !.head = s, !.prev[s] = Null]
            M == PopHead(L)
<1>1. PICK n \in Nat : Links(L, n, S)
  BY DEF ListOf
<1>2. PICK q : IsList(L, q, n) /\ Nodes(q, n) = S /\ Sorted(L, q, n)
  BY <1>1 DEF Links
<1>3. L \in ListType /\ q \in [1..n -> Timers] /\ \A i, j \in 1..n : q[i] = q[j] => i = j
  BY <1>1, <1>2 DEF Links, IsList
<1>4. n # 0 /\ n > 0 /\ 1 \in 1..n /\ t = q[1] /\ t \in Timers /\ n - 1 \in Nat /\ L.tail = q[n]
  <2>1. n # 0
    BY <1>2 DEF IsList
  <2>2. n > 0 /\ 1 \in 1..n /\ n - 1 \in Nat
    BY <2>1
  <2>. QED  BY <1>2, <1>3, <2>1, <2>2 DEF IsList
<1>. DEFINE r == Removed(q, n, 1)
<1>5. /\ U \in ListType /\ U.expire = L.expire /\ IsList(U, r, n - 1)
      /\ \A x \in Timers \ S : U.next[x] = L.next[x]
  <2>1. CASE n = 1
    <3>1. s = Null
      BY <1>2, <1>4, <2>1 DEF IsList
    <3>2. U = [L EXCEPT !.head = Null]
      BY <3>1
    <3>. HIDE DEF U
    <3>3. U \in ListType /\ U.head = Null /\ U.expire = L.expire /\ U.next = L.next
      BY <1>3, <3>2 DEF ListType
    <3>4. U.head = IF 1 = 1 THEN L.next[q[1]] ELSE L.head
      BY <1>4, <3>1, <3>3
    <3>5. ~(n > 1) /\ ~(1 < n) /\ ~(1 > 1) /\ \A i \in 1..n : i = 1
      BY <2>1
    <3>6. IsList(U, r, n - 1)
      BY <1>2, <1>4, <3>4, <3>5, RemovedList
    <3>. QED  BY <3>3, <3>6
  <2>2. CASE n # 1
    <3>1. s # Null /\ t = L.head /\ t # L.tail
      <4>1. 2 \in 1..n /\ n \in 1..n
        BY <1>4, <2>2
      <4>2. s = q[2]
        BY <1>2, <1>4, <2>2, <4>1 DEF IsList
      <4>. QED  BY <1>3, <1>4, <2>2, <4>1, <4>2
    <3>2. U = Unlink(L, t)
      BY <3>1 DEF Unlink
    <3>. HIDE DEF U
    <3>3. U = Unlink(L, q[1])
      BY <1>4, <3>2
    <3>. HIDE DEF t, s
    <3>4. /\ Unlink(L, q[1]) \in ListType /\ Unlink(L, q[1]).expire = L.expire
          /\ \A x \in Timers \ Nodes(q, n) : Unlink(L, q[1]).next[x] = L.next[x]
          /\ IsList(Unlink(L, q[1]), Removed(q, n, 1), n - 1)
      BY <1>2, <1>3, <1>4, UnlinkIs
    <3>. QED  BY <1>2, <3>3, <3>4
  <2>. QED  BY <2>1, <2>2
<1>6. r \in [1..n - 1 -> Timers] /\ Nodes(r, n - 1) = S \ {t}
  BY <1>2, <1>3, <1>4, RemovedIs
<1>7. Sorted(L, r, n - 1)
  <2>1. SortedBut(L, q, n, 1)
    BY <1>2 DEF Sorted, SortedBut
  <2>. QED  BY <1>3, <1>4, <2>1, SortedRemoved
<1>8. M = Freed(U, t)
  BY DEF PopHead
<1>. HIDE DEF U, M, r
<1>9. /\ M \in ListType /\ M.next[t] = Null
      /\ \A x \in Timers \ {t} : M.next[x] = U.next[x] /\ M.expire[x] = U.expire[x]
      /\ IsList(M, r, n - 1)
  BY <1>4, <1>5, <1>6, <1>8, FreedIs
<1>10. Sorted(M, r, n - 1)
  <2>1. \A i \in 1..n - 1 : r[i] \in Timers \ {t}
    BY <1>6 DEF Nodes
  <2>. QED  BY <1>5, <1>7, <1>9, <2>1 DEF Sorted
<1>11. \A x \in Timers \ (S \ {t}) : M.next[x] = Null
  BY <1>5, <1>9 DEF ListOf
<1>12. Links(M, n - 1, S \ {t})
  BY <1>6, <1>9, <1>10 DEF Links
<1>. QED  BY <1>4, <1>5, <1>9, <1>11, <1>12 DEF ListOf, M

(* The clock moves: expiries change, but not their order. *)
LEMMA AgedIs ==
  ASSUME NEW L, NEW S, ListOf(L, S), NEW e \in [Timers -> Nat],
         \A x, y \in Timers : L.expire[x] <= L.expire[y] => e[x] <= e[y]
  PROVE  ListOf([L EXCEPT !.expire = e], S)
<1>. DEFINE M == [L EXCEPT !.expire = e]
<1>1. PICK n \in Nat : Links(L, n, S)
  BY DEF ListOf
<1>2. PICK q : IsList(L, q, n) /\ Nodes(q, n) = S /\ Sorted(L, q, n)
  BY <1>1 DEF Links
<1>3. L \in ListType /\ q \in [1..n -> Timers]
  BY <1>1, <1>2 DEF Links, IsList
<1>4. /\ M \in ListType /\ M.head = L.head /\ M.tail = L.tail /\ M.prev = L.prev /\ M.next = L.next
      /\ M.expire = e
  BY <1>3 DEF ListType
<1>. HIDE DEF M
<1>5. IsList(M, q, n) /\ Sorted(M, q, n)
  BY <1>2, <1>3, <1>4 DEF IsList, Sorted
<1>. QED  BY <1>2, <1>4, <1>5 DEF ListOf, Links, M

-----------------------------------------------------------------------------
(* What a list looks like from outside. *)
Reach(L) ==
  CHOOSE reach : reach = [n \in 0..Cardinality(Timers) |->
                            IF n = 0 THEN {L.head} \ {Null}
                            ELSE reach[n - 1] \cup ({L.next[t] : t \in reach[n - 1]} \ {Null})]

LEMMA LinkedIsReach == ASSUME NEW L PROVE Linked(L) = Reach(L)[Cardinality(Timers)]
BY DEF Linked, Reach

LEMMA LinkedIs ==
  ASSUME IsFiniteSet(Timers), NEW L, NEW n \in Nat, NEW q, IsList(L, q, n)
  PROVE  Linked(L) = Nodes(q, n)
<1>. USE NullAssumption
<1>. DEFINE C == Cardinality(Timers)
            First(m) == {q[i] : i \in {k \in 1..n : k <= m + 1}}
            G(f) == [m \in 0..C |-> IF m = 0 THEN {L.head} \ {Null}
                                    ELSE f[m - 1] \cup ({L.next[t] : t \in f[m - 1]} \ {Null})]
            g == [m \in 0..C |-> First(m)]
<1>1. q \in [1..n -> Timers] /\ \A i, j \in 1..n : q[i] = q[j] => i = j
  BY DEF IsList
<1>2. n <= C /\ C \in Nat
  BY <1>1, ListFits
<1>. HIDE DEF C
<1>3. First(0) = {L.head} \ {Null}
  <2>1. CASE n = 0
    BY <2>1 DEF IsList
  <2>2. CASE n # 0
    <3>1. 1 \in 1..n /\ L.head = q[1] /\ q[1] \in Timers /\ q[1] # Null
      BY <1>1, <2>2 DEF IsList
    <3>2. {k \in 1..n : k <= 0 + 1} = {1}
      BY <3>1
    <3>. QED  BY <3>1, <3>2
  <2>. QED  BY <2>1, <2>2
<1>4. ASSUME NEW m \in Nat
      PROVE  First(m + 1) = First(m) \cup ({L.next[t] : t \in First(m)} \ {Null})
  <2>1. ASSUME NEW i \in 1..n
        PROVE  L.next[q[i]] = IF i = n THEN Null ELSE q[i + 1]
    BY DEF IsList
  <2>2. ASSUME NEW x \in First(m + 1) PROVE x \in First(m) \cup ({L.next[t] : t \in First(m)} \ {Null})
    <3>1. PICK i \in 1..n : i <= m + 1 + 1 /\ x = q[i]
      OBVIOUS
    <3>2. CASE i <= m + 1
      BY <3>1, <3>2
    <3>3. CASE i > m + 1
      <4>1. i - 1 \in 1..n /\ i - 1 <= m + 1 /\ i - 1 # n /\ i - 1 + 1 = i
        BY <3>1, <3>3
      <4>2. L.next[q[i - 1]] = x /\ x # Null /\ q[i - 1] \in First(m)
        BY <1>1, <2>1, <3>1, <4>1
      <4>. QED  BY <4>2
    <3>. QED  BY <3>2, <3>3
  <2>3. ASSUME NEW x \in First(m) \cup ({L.next[t] : t \in First(m)} \ {Null}) PROVE x \in First(m + 1)
    <3>1. CASE x \in First(m)
      BY <3>1
    <3>2. CASE x \notin First(m)
      <4>1. PICK i \in 1..n : i <= m + 1 /\ x = L.next[q[i]] /\ x # Null
        BY <3>2
      <4>2. i + 1 \in 1..n /\ i + 1 <= m + 1 + 1 /\ x = q[i + 1]
        BY <2>1, <4>1
      <4>. QED  BY <4>2
    <3>. QED  BY <3>1, <3>2
  <2>. QED  BY <2>2, <2>3
<1>. HIDE DEF First
<1>5. g = G(g)
  <2>1. ASSUME NEW m \in 0..C, m # 0
        PROVE  g[m] = g[m - 1] \cup ({L.next[t] : t \in g[m - 1]} \ {Null})
    <3>1. m - 1 \in Nat /\ m - 1 \in 0..C /\ m - 1 + 1 = m
      BY <1>2, <2>1
    <3>. QED  BY <1>4, <3>1
  <2>. QED  BY <1>2, <1>3, <2>1
<1>. DEFINE R == Reach(L)
<1>6. R = G(R)
  <2>1. \E f : f = G(f)
    <3>. HIDE DEF g
    <3>. QED  BY <1>5
  <2>2. R = CHOOSE f : f = G(f)
    BY DEF Reach, C
  <2>. HIDE DEF G, R
  <2>. QED  BY <2>1, <2>2
<1>7. /\ R[0] = First(0)
      /\ \A m \in 0..C : m # 0 => R[m] = R[m - 1] \cup ({L.next[t] : t \in R[m - 1]} \ {Null})
  <2>. HIDE DEF R, g
  <2>1. \A m \in 0..C : R[m] = IF m = 0 THEN {L.head} \ {Null}
                                ELSE R[m - 1] \cup ({L.next[t] : t \in R[m - 1]} \ {Null})
    <3>1. R = [m \in 0..C |-> IF m = 0 THEN {L.head} \ {Null}
                               ELSE R[m - 1] \cup ({L.next[t] : t \in R[m - 1]} \ {Null})]
      BY Zenon, <1>6 DEF G
    <3>. QED  BY <3>1
  <2>2. 0 \in 0..C
    BY <1>2
  <2>3. R[0] = First(0)
    BY <1>3, <2>1, <2>2
  <2>. QED  BY <2>1, <2>3
<1>. HIDE DEF R, G, g
<1>. DEFINE B == {m \in 0..C : R[m] # First(m)}
<1>8. B = {}
  <2>. SUFFICES ASSUME B # {} PROVE FALSE
    OBVIOUS
  <2>1. B \in SUBSET Nat
    BY <1>2
  <2>2. PICK m \in B : \A l \in B : m <= l
    BY <2>1, LeastExists
  <2>3. m \in 0..C /\ R[m] # First(m) /\ m # 0
    BY <1>7, <2>2
  <2>4. m - 1 \in Nat /\ m - 1 \in 0..C /\ m - 1 + 1 = m /\ ~(m <= m - 1)
    BY <1>2, <2>3
  <2>5. R[m - 1] = First(m - 1)
    BY <2>2, <2>4
  <2>. QED  BY <1>4, <1>7, <2>3, <2>4, <2>5
<1>9. R[C] = First(C)
  BY <1>2, <1>8
<1>10. First(C) = Nodes(q, n)
  <2>1. {k \in 1..n : k <= C + 1} = 1..n
    BY <1>2
  <2>. QED  BY <2>1 DEF First, Nodes
<1>. QED  BY <1>9, <1>10, LinkedIsReach DEF R, C

LEMMA ListFacts ==
  ASSUME IsFiniteSet(Timers), NEW L, NEW S, ListOf(L, S)
  PROVE  WellLinked(L) /\ Linked(L) = S /\ Ascending(L)
<1>. USE NullAssumption
<1>1. PICK n \in Nat : Links(L, n, S)
  BY DEF ListOf
<1>2. PICK q : IsList(L, q, n) /\ Nodes(q, n) = S /\ Sorted(L, q, n)
  BY <1>1 DEF Links
<1>3. Linked(L) = S
  BY <1>2, LinkedIs
<1>0. Ascending(L)
  <2>1. ASSUME NEW i \in 1..n, L.next[q[i]] # Null
        PROVE  L.expire[q[i]] <= L.expire[L.next[q[i]]]
    <3>1. i # n /\ L.next[q[i]] = q[i + 1]
      BY <1>2, <2>1 DEF IsList
    <3>2. i + 1 \in 1..n /\ i <= i + 1
      BY <3>1
    <3>. QED  BY <1>2, <3>1, <3>2 DEF Sorted
  <2>. QED  BY <1>2, <1>3, <2>1 DEF Ascending, Nodes
<1>. SUFFICES ASSUME L.head # Null
              PROVE  /\ L.prev[L.head] = Null
                     /\ L.tail \in S /\ L.next[L.tail] = Null
                     /\ \A t \in S : /\ L.next[t] # Null => L.prev[L.next[t]] = t
                                     /\ L.prev[t] # Null => L.next[L.prev[t]] = t
                                     /\ t # L.tail => L.next[t] # Null
  BY <1>0, <1>3 DEF WellLinked
<1>4. n # 0
  BY <1>2 DEF IsList
<1>5. n > 0 /\ 1 \in 1..n /\ n \in 1..n
  BY <1>4
<1>6. q \in [1..n -> Timers] /\ L.head = q[1] /\ L.tail = q[n]
  BY <1>2, <1>4, <1>5 DEF IsList
<1>7. L.prev[q[1]] = Null /\ L.next[q[n]] = Null
  BY <1>2, <1>5 DEF IsList
<1>8. ASSUME NEW i \in 1..n
      PROVE  /\ L.next[q[i]] # Null => L.prev[L.next[q[i]]] = q[i]
             /\ L.prev[q[i]] # Null => L.next[L.prev[q[i]]] = q[i]
             /\ q[i] # L.tail => L.next[q[i]] # Null
  <2>1. ASSUME i # n PROVE L.next[q[i]] = q[i + 1] /\ L.prev[q[i + 1]] = q[i] /\ q[i + 1] # Null
    <3>1. i + 1 \in 1..n /\ i + 1 # 1 /\ i + 1 - 1 = i
      BY <2>1
    <3>. QED  BY <1>2, <1>6, <2>1, <3>1 DEF IsList
  <2>2. ASSUME i # 1 PROVE L.prev[q[i]] = q[i - 1] /\ L.next[q[i - 1]] = q[i]
    <3>1. i - 1 \in 1..n /\ i - 1 # n /\ i - 1 + 1 = i
      BY <2>2
    <3>. QED  BY <1>2, <2>2, <3>1 DEF IsList
  <2>. QED  BY <1>6, <1>7, <2>1, <2>2
<1>. QED  BY <1>2, <1>5, <1>6, <1>7, <1>8 DEF Nodes

-----------------------------------------------------------------------------
(* A list under any legal calls. *)
UseInv ==
  /\ ListOf(lst, inUse) /\ inUse \subseteq Timers
  /\ now \in Nat /\ cur \in Nat \cup {Null}

LEMMA UseInitially == UseInit => UseInv /\ Queue!Init
<1>. SUFFICES ASSUME UseInit PROVE UseInv /\ Queue!Init
  OBVIOUS
<1>1. ListOf(lst, inUse)
  BY EmptyListIs DEF UseInit
<1>. QED  BY <1>1 DEF UseInit, UseInv, Queue!Init, EmptyList

(* Every call keeps the list a list, and is one of the abstract queue's    *)
(* operations or a step that the queue does not see.                       *)
LEMMA UseStep == UseInv /\ [UseNext]_useVars => UseInv' /\ [Queue!Next]_(Queue!vars)
<1>. SUFFICES ASSUME UseInv, [UseNext]_useVars PROVE UseInv' /\ [Queue!Next]_(Queue!vars)
  OBVIOUS
<1>. USE UseAssumption
<1>0. lst \in ListType /\ ListOf(lst, inUse) /\ inUse \subseteq Timers
  BY HeadIs DEF UseInv
<1>1. ASSUME NEW t \in Timers, NEW e \in 0..MaxTime, Add(t, e)
      PROVE  UseInv' /\ Queue!Add(t)
  <2>. DEFINE M == NewTimer(lst, t, e)
  <2>1. ListOf(M, inUse) /\ M.expire = [lst.expire EXCEPT ![t] = e] /\ M.prev[t] = Null
    BY <1>0, <1>1, NewTimerIs DEF Add
  <2>. HIDE DEF M
  <2>2. ListOf(AddTimer(M, t), inUse \cup {t}) /\ AddTimer(M, t).expire = M.expire
    BY <1>1, <2>1, AddTimerIs DEF Add
  <2>3. lst' = AddTimer(M, t)
    BY <1>1 DEF Add, M
  <2>4. lst'.expire[t] = e /\ \A s \in Timers \ {t} : lst'.expire[s] = lst.expire[s]
    BY <1>0, <2>1, <2>2, <2>3 DEF ListType
  <2>. QED  BY <1>0, <1>1, <2>2, <2>3, <2>4 DEF UseInv, Add, Queue!Add
<1>2. ASSUME NEW t \in Timers, NEW e \in 0..MaxTime, Extend(t, e)
      PROVE  UseInv' /\ Queue!Adjust(t)
  <2>1. lst.expire[t] \in Nat /\ lst.expire[t] <= e
    BY <1>0, <1>2 DEF Extend, ListType
  <2>2. ListOf(lst', inUse) /\ lst'.expire = [lst.expire EXCEPT ![t] = e]
    BY <1>0, <1>2, <2>1, AdjustTimerIs DEF Extend
  <2>3. lst'.expire[t] = e /\ \A s \in Timers \ {t} : lst'.expire[s] = lst.expire[s]
    BY <1>0, <2>2 DEF ListType
  <2>. QED  BY <1>0, <1>2, <2>1, <2>2, <2>3 DEF UseInv, Extend, Queue!Adjust
<1>3. ASSUME NEW t \in Timers, Delete(t) PROVE UseInv' /\ Queue!Delete(t)
  <2>1. ListOf(lst', inUse \ {t}) /\ \A x \in Timers \ {t} : lst'.expire[x] = lst.expire[x]
    BY <1>0, <1>3, DelTimerIs DEF Delete
  <2>. QED  BY <1>0, <1>3, <2>1 DEF UseInv, Delete, Queue!Delete
<1>4. ASSUME Fire PROVE UseInv' /\ Queue!Fire(lst.head) /\ lst.head \in Timers
  <2>1. lst.head # Null /\ cur >= lst.expire[lst.head] /\ cur # Null
    BY <1>4 DEF Fire, HeadIsDue
  <2>2. lst.head \in inUse /\ \A x \in inUse : lst.expire[lst.head] <= lst.expire[x]
    BY <1>0, <2>1, HeadIs
  <2>3. /\ ListOf(lst', inUse \ {lst.head})
        /\ \A x \in Timers \ {lst.head} : lst'.expire[x] = lst.expire[x]
    BY <1>0, <1>4, <2>1, PopHeadIs DEF Fire
  <2>4. lst.expire[lst.head] \in Nat /\ cur \in Nat
    BY <1>0, <2>1, <2>2 DEF ListType, UseInv
  <2>. QED  BY <1>0, <1>4, <2>1, <2>2, <2>3, <2>4 DEF UseInv, Fire, Queue!Fire
<1>5. ASSUME EndTick PROVE UseInv' /\ Queue!EndTick
  <2>1. ASSUME NEW s \in inUse PROVE lst.expire[s] > cur
    <3>1. lst.head # Null /\ lst.head \in inUse /\ lst.expire[lst.head] <= lst.expire[s]
      BY <1>0, HeadIs
    <3>2. lst.expire[lst.head] \in Nat /\ lst.expire[s] \in Nat /\ cur \in Nat
      BY <1>0, <1>5, <3>1 DEF ListType, UseInv, EndTick
    <3>. QED  BY <1>5, <3>1, <3>2 DEF EndTick, HeadIsDue
  <2>. QED  BY <1>5, <2>1 DEF UseInv, EndTick, Queue!EndTick
<1>6. ASSUME BeginTick PROVE UseInv' /\ Queue!BeginTick
  BY <1>6 DEF UseInv, BeginTick, Queue!BeginTick
<1>7. ASSUME ClockMoves \/ UNCHANGED useVars PROVE UseInv' /\ UNCHANGED Queue!vars
  BY <1>7 DEF UseInv, ClockMoves, useVars, Queue!vars
<1>. QED  BY <1>1, <1>2, <1>3, <1>4, <1>5, <1>6, <1>7 DEF UseNext, Queue!Next

LEMMA UseInvariance == UseSpec => []UseInv
BY UseInitially, UseStep, PTL DEF UseSpec

(* A behaviour of the four programs is a behaviour of each.                *)
LEMMA RunsOneProgram == TimersSpec => Spec /\ UseSpec /\ Wheel!Spec /\ Heap!Spec
<1>1. TimersInit => Init /\ UseInit /\ Wheel!Init /\ Heap!Init
  BY DEF TimersInit
<1>2. [TimersNext]_allVars => [Next]_vars
  BY DEF TimersNext, ServerStep, allVars
<1>3. [TimersNext]_allVars => [UseNext]_useVars
  BY DEF TimersNext, allVars
<1>4. [TimersNext]_allVars => [Wheel!Next]_(Wheel!vars)
  BY DEF TimersNext, allVars, wheelVars, Wheel!vars, Wheel!fields
<1>5. [TimersNext]_allVars => [Heap!Next]_(Heap!vars)
  BY DEF TimersNext, allVars, heapVars, Heap!vars
<1>. QED  BY <1>1, <1>2, <1>3, <1>4, <1>5, PTL DEF TimersSpec, Spec, UseSpec, Wheel!Spec, Heap!Spec

(* Whatever is called in whatever order, prev, next, head and tail agree,  *)
(* nothing deleted is linked, nothing alive is lost, and the expiries      *)
(* ascend (ascending_linkedlist_timer_impl.h:46-153).                      *)
LEMMA ListStaysIntact == UseSpec => []ListIntact
<1>1. UseInv => ListIntact
  BY ListFacts, UseAssumption DEF UseInv, ListIntact
<1>. QED  BY <1>1, UseInvariance, PTL

(* The list is a timer queue: exactly what is due fires, the earliest      *)
(* first (ascending_linkedlist_timer_impl.h:110-134).                      *)
LEMMA ListIsQueue == UseSpec => ImplementsTimerQueue
BY UseInitially, UseStep, UseInvariance, PTL DEF UseSpec, ImplementsTimerQueue, Queue!Spec

-----------------------------------------------------------------------------
TypeInv ==
  /\ peer \in [Clients -> {"new", "open", "closed", "reset"}]
  /\ unread \in [Clients -> Nat] /\ backlog \subseteq Clients
  /\ conn \in [FDs -> Clients \cup {Null}]
  /\ alarm \in Nat \cup {Null} /\ timeout \in BOOLEAN

(* A client has one place: it is new, or in the listen queue, or has one   *)
(* descriptor, or had one.                                                 *)
PlaceInv ==
  /\ \A f, g \in FDs : conn[f] # Null /\ conn[f] = conn[g] => f = g
  /\ \A c \in Clients : c \in backlog \/ peer[c] = "new" => \A f \in FDs : conn[f] # c
  /\ \A c \in backlog : peer[c] # "new"

LoopInv ==
  /\ pc \in {"wait", "tick"} => batch = {}
  /\ pc = "tick" => timeout

IInv == TypeInv /\ PlaceInv /\ LoopInv /\ NoStaleEvent /\ AlarmNeverLost

-----------------------------------------------------------------------------
(* Lowest picks an element of its argument: POSIX's lowest free number. *)
LEMMA LowestIsIn ==
  ASSUME NEW S \in SUBSET Nat, S # {} PROVE Lowest(S) \in S
BY LeastExists DEF Lowest

LEMMA Initially == Init => IInv
<1>. SUFFICES ASSUME Init PROVE IInv
  OBVIOUS
<1>. USE FDsAssumption DEF Init
<1>1. TypeInv
  BY DEF TypeInv
<1>2. PlaceInv
  BY DEF PlaceInv
<1>3. LoopInv /\ NoStaleEvent /\ AlarmNeverLost
  BY DEF LoopInv, NoStaleEvent, AlarmNeverLost
<1>. QED  BY <1>1, <1>2, <1>3 DEF IInv

(* Peers only add input, so that what was reported stays readable. *)
LEMMA EnvironmentStep == IInv /\ pc \notin {"stopped", "lost"} /\ Environment => IInv'
<1>. SUFFICES ASSUME IInv, pc \notin {"stopped", "lost"}, Environment PROVE IInv'
  OBVIOUS
<1>. USE FDsAssumption DEF IInv, timerVars, loopVars, kernelVars
<1>1. ASSUME NEW c \in Clients, Connect(c) \/ Send(c) \/ Leave(c),
             UNCHANGED <<alarm, pipe, timerVars, loopVars, quiet>>
      PROVE  IInv'
  <2>. USE <1>1
  <2>1. /\ UNCHANGED <<conn, alarm, pipe, pc, batch, timeout>> /\ edge \subseteq edge'
    BY DEF Connect, Send, Leave, EdgeOn
  <2>2. TypeInv'
    <3>1. CASE Connect(c)
      BY <2>1, <3>1 DEF Connect, TypeInv
    <3>2. CASE Send(c)
      BY <2>1, <3>2 DEF Send, TypeInv
    <3>3. CASE Leave(c)
      BY <2>1, <3>3 DEF Leave, TypeInv
    <3>. QED  BY <3>1, <3>2, <3>3
  <2>3. PlaceInv'
    BY <2>1 DEF Connect, Send, Leave, TypeInv, PlaceInv
  <2>4. ASSUME NEW d \in Clients, unread[d] > 0 \/ peer[d] # "open"
        PROVE  unread'[d] > 0 \/ peer'[d] # "open" \/ (d = c /\ peer[d] = "new")
    BY <2>4 DEF Connect, Send, Leave, TypeInv
  <2>5. NoStaleEvent'
    <3>. SUFFICES ASSUME NEW f \in batch \cap FDs PROVE Readable(f)'
      BY <2>1 DEF NoStaleEvent, Readable
    <3>1. conn[f] # Null /\ conn[f] \in Clients /\ Readable(f)
      BY DEF NoStaleEvent, TypeInv
    <3>2. peer[conn[f]] # "new"
      BY <3>1 DEF PlaceInv
    <3>. QED  BY <2>1, <2>4, <3>1, <3>2 DEF Readable
  <2>6. LoopInv' /\ AlarmNeverLost'
    BY <2>1 DEF LoopInv, AlarmNeverLost
  <2>. QED  BY <2>2, <2>3, <2>5, <2>6
<1>2. CASE Advance
  <2>1. UNCHANGED <<peer, unread, backlog, conn, edge, pipe, pc, batch, timeout>>
    BY <1>2 DEF Advance
  <2>2. alarm' \in Nat \cup {Null} /\ (alarm # Null => alarm' # Null)
    BY <1>2 DEF Advance, TypeInv
  <2>. QED  BY <2>1, <2>2 DEF TypeInv, PlaceInv, LoopInv, NoStaleEvent, Readable, AlarmNeverLost
<1>3. ASSUME NEW sig \in {"ALRM", "TERM"}, Signal(sig) PROVE IInv'
  <2>1. UNCHANGED <<peer, unread, backlog, conn, pc, batch, timeout>>
    BY <1>3 DEF Signal
  <2>2. TypeInv' /\ PlaceInv' /\ LoopInv' /\ NoStaleEvent'
    BY <1>3, <2>1 DEF Signal, TypeInv, PlaceInv, LoopInv, NoStaleEvent, Readable
  <2>3. AlarmNeverLost'
    BY <1>3, <2>1 DEF Signal, AlarmNeverLost
  <2>. QED  BY <2>2, <2>3
<1>. QED  BY <1>1, <1>2, <1>3 DEF Environment

-----------------------------------------------------------------------------
(* The events of a batch are live when they are reported ... *)
LEMMA WaitStep == IInv /\ Wait => IInv'
<1>. SUFFICES ASSUME IInv, Wait PROVE IInv'
  OBVIOUS
<1>. USE FDsAssumption DEF IInv, Wait
<1>1. TypeInv' /\ PlaceInv' /\ LoopInv'
  BY DEF TypeInv, PlaceInv, LoopInv
<1>2. \A f \in FDs : f \in batch' => Readable(f)
  BY DEF Ready
<1>3. NoStaleEvent'
  BY <1>2 DEF NoStaleEvent, Readable
<1>4. AlarmNeverLost'
  <2>1. pipe # {} /\ pipefd0 \in edge => pipefd0 \in batch'
    BY DEF Ready
  <2>. QED  BY <2>1 DEF AlarmNeverLost, LoopInv
<1>. QED  BY <1>1, <1>3, <1>4

(* ... and a descriptor that is reused is not among them. *)
LEMMA ListenStep == IInv /\ HandleListen => IInv'
<1>. SUFFICES ASSUME IInv, HandleListen PROVE IInv'
  OBVIOUS
<1>. USE FDsAssumption DEF IInv
<1>. DEFINE f == Lowest(FDs \ Open)
<1>1. f \in FDs /\ conn[f] = Null
  <2>1. f \in FDs \ Open
    BY LowestIsIn DEF HandleListen
  <2>. QED  BY <2>1 DEF Open
<1>. HIDE DEF f
<1>2. PICK c \in backlog :
        /\ backlog' = backlog \ {c} /\ conn' = [conn EXCEPT ![f] = c] /\ edge \subseteq edge'
  BY DEF HandleListen, f
<1>3. /\ pc = "handle" /\ batch' = batch \ {listenfd}
      /\ UNCHANGED <<peer, unread, alarm, pipe, pc, timeout>>
  BY DEF HandleListen
<1>4. conn'[f] = c /\ \A g \in FDs \ {f} : conn'[g] = conn[g]
  BY <1>1, <1>2 DEF TypeInv
<1>5. TypeInv'
  BY <1>1, <1>2, <1>3 DEF TypeInv
<1>6. PlaceInv'
  BY <1>1, <1>2, <1>3, <1>4 DEF PlaceInv, TypeInv
<1>7. LoopInv' /\ AlarmNeverLost'
  BY <1>2, <1>3 DEF LoopInv, AlarmNeverLost
<1>8. NoStaleEvent'
  BY <1>1, <1>3, <1>4 DEF NoStaleEvent, Readable
<1>. QED  BY <1>5, <1>6, <1>7, <1>8

(* cb_func takes the input of one connection away, and nobody else's. *)
LEMMA Closing ==
  ASSUME TypeInv, PlaceInv, NEW f, CloseFD(f), UNCHANGED <<peer, backlog, alarm, timeout>>
  PROVE  /\ TypeInv' /\ PlaceInv'
         /\ f \in FDs => \A g \in FDs \ {f} : Readable(g) => Readable(g)'
<1>. USE DEF CloseFD
<1>1. TypeInv'
  BY DEF TypeInv
<1>2. \A g \in FDs : conn'[g] = IF g = f THEN Null ELSE conn[g]
  BY DEF TypeInv
<1>3. PlaceInv'
  BY <1>2, FDsAssumption DEF PlaceInv
<1>4. ASSUME f \in FDs, NEW g \in FDs \ {f}, Readable(g) PROVE Readable(g)'
  <2>1. conn[g] # Null /\ conn[g] \in Clients /\ conn[g] # conn[f] /\ conn'[g] = conn[g]
    BY <1>2, <1>4 DEF Readable, TypeInv, PlaceInv
  <2>2. unread'[conn[g]] = unread[conn[g]]
    BY <2>1 DEF TypeInv
  <2>. QED  BY <1>4, <2>1, <2>2 DEF Readable
<1>. QED  BY <1>1, <1>3, <1>4

LEMMA ConnectionStep ==
  ASSUME IInv, NEW f \in FDs, HandleData(f) \/ HandleEnd(f) PROVE IInv'
<1>. USE FDsAssumption DEF IInv
<1>1. /\ pc = "handle" /\ f \in batch /\ batch' = batch \ {f}
      /\ UNCHANGED <<peer, backlog, alarm, pipe, pc, timeout>>
      /\ edge \ {f} \subseteq edge'
  BY DEF HandleData, HandleEnd, CloseFD
<1>2. LoopInv' /\ AlarmNeverLost'
  BY <1>1 DEF LoopInv, AlarmNeverLost
<1>3. TypeInv' /\ PlaceInv' /\ \A g \in FDs \ {f} : Readable(g) => Readable(g)'
  <2>1. CASE HandleEnd(f)
    BY <1>1, <2>1, Closing DEF HandleEnd
  <2>2. CASE HandleData(f)
    <3>1. conn[f] # Null /\ conn[f] \in Clients
      BY <1>1 DEF NoStaleEvent, TypeInv
    <3>2. UNCHANGED conn /\ unread[conn[f]] > 0 /\ unread' = [unread EXCEPT ![conn[f]] = @ - 1]
      BY <2>2 DEF HandleData
    <3>3. TypeInv' /\ PlaceInv'
      BY <1>1, <3>1, <3>2 DEF TypeInv, PlaceInv
    <3>4. \A g \in FDs \ {f} : Readable(g) => Readable(g)'
      BY <1>1, <3>1, <3>2 DEF TypeInv, PlaceInv, Readable
    <3>. QED  BY <3>3, <3>4
  <2>. QED  BY <2>1, <2>2
<1>4. NoStaleEvent'
  BY <1>1, <1>3 DEF NoStaleEvent, Readable
<1>. QED  BY <1>2, <1>3, <1>4

(* The signals and the timers; tick runs when the batch has been handled. *)
LEMMA TimerStep ==
  IInv /\ (HandleListenFails \/ HandleSignals \/ BatchDone \/ TickFire \/ TickEnd) => IInv'
<1>. SUFFICES ASSUME IInv, HandleListenFails \/ HandleSignals \/ BatchDone \/ TickFire \/ TickEnd
              PROVE  IInv'
  OBVIOUS
<1>. USE FDsAssumption DEF IInv, kernelVars, timerVars, loopVars
<1>1. CASE TickFire
  <2>1. pc = "tick" /\ batch = {} /\ timeout /\ UNCHANGED <<peer, backlog, alarm, timeout, pc, batch>>
    BY <1>1 DEF TickFire, LoopInv
  <2>2. TypeInv' /\ PlaceInv'
    BY <1>1, <2>1, Closing DEF TickFire
  <2>. QED  BY <2>1, <2>2 DEF LoopInv, NoStaleEvent, AlarmNeverLost
<1>2. CASE HandleListenFails \/ BatchDone
  <2>1. UNCHANGED <<peer, unread, backlog, conn, edge, alarm, pipe, batch, timeout>>
    BY <1>2 DEF HandleListenFails, BatchDone
  <2>2. LoopInv' /\ pc = "handle"
    BY <1>2, <2>1 DEF HandleListenFails, BatchDone, LoopInv
  <2>. QED  BY <2>1, <2>2 DEF TypeInv, PlaceInv, NoStaleEvent, Readable, AlarmNeverLost
<1>3. CASE HandleSignals
  <2>1. UNCHANGED <<peer, unread, backlog, conn, alarm, pc>> /\ batch' \subseteq batch /\ pc = "handle"
    BY <1>3 DEF HandleSignals
  <2>2. timeout' \in BOOLEAN /\ (timeout \/ "ALRM" \in pipe => timeout')
    BY <1>3 DEF HandleSignals, TypeInv
  <2>. QED  BY <2>1, <2>2 DEF TypeInv, PlaceInv, LoopInv, NoStaleEvent, Readable, AlarmNeverLost
<1>4. CASE TickEnd
  <2>1. /\ UNCHANGED <<peer, unread, backlog, conn, batch>>
        /\ alarm' = 1 /\ timeout' = FALSE /\ pc' # "tick" /\ batch = {}
    BY <1>4 DEF TickEnd, LoopInv
  <2>2. TypeInv' /\ PlaceInv'
    BY <2>1 DEF TypeInv, PlaceInv
  <2>3. AlarmNeverLost'
    BY <2>1 DEF AlarmNeverLost
  <2>. QED  BY <2>1, <2>2, <2>3 DEF LoopInv, NoStaleEvent
<1>. QED  BY <1>1, <1>2, <1>3, <1>4

LEMMA Inductive == IInv /\ [Next]_vars => IInv'
<1>. SUFFICES ASSUME IInv, [Next]_vars PROVE IInv'
  OBVIOUS
<1>1. CASE UNCHANGED vars
  BY <1>1 DEF vars, kernelVars, loopVars, IInv, TypeInv, PlaceInv, LoopInv, NoStaleEvent,
              Readable, AlarmNeverLost
<1>2. CASE pc \notin {"stopped", "lost"} /\ Environment
  BY <1>2, EnvironmentStep
<1>3. CASE Server
  BY <1>3, WaitStep, ListenStep, ConnectionStep, TimerStep DEF Server
<1>. QED  BY <1>1, <1>2, <1>3 DEF Next

LEMMA Invariance == Spec => []IInv
BY Initially, Inductive, PTL DEF Spec

(* No event of a batch is about a descriptor that an earlier event of the  *)
(* batch closed or reused (close_nonactivity_connection.cpp:128-206).      *)
THEOREM EventsAreFresh == TimersSpec => []NoStaleEvent
<1>1. IInv => NoStaleEvent
  BY DEF IInv
<1>. QED  BY <1>1, Invariance, RunsOneProgram, PTL

(* The alarm is set, or its signal is on the way, or the loop has noted it *)
(* (close_nonactivity_connection.cpp:66-72, 151-181).                      *)
THEOREM AlarmIsKept == TimersSpec => []AlarmNeverLost
<1>1. IInv => AlarmNeverLost
  BY DEF IInv
<1>. QED  BY <1>1, Invariance, RunsOneProgram, PTL

-----------------------------------------------------------------------------
(* The timers.  Nothing else would be inductive: the callbacks go through  *)
(* timerFD, the handlers through userTimer, and tick through the list's    *)
(* order, each trusting that the other two agree with it.                  *)
TimerInv ==
  /\ ListOf(list, live) /\ live \subseteq Timers
  /\ userTimer \in [FDs -> Timers \cup {Null}] /\ timerFD \in [Timers -> FDs \cup {Null}]
  /\ \A f \in Open : userTimer[f] \in live /\ timerFD[userTimer[f]] = f
  /\ \A t \in live : timerFD[t] \in Open /\ userTimer[timerFD[t]] = t

(* What a timer has left and how long its connection has been quiet add up. *)
ClockInv ==
  /\ quiet \in [FDs -> 0..Lifetime]
  /\ \A f \in Open : list.expire[userTimer[f]] = Lifetime - quiet[f]

Timed == TimerInv /\ ClockInv

LEMMA InitiallyTimed == Init => Timed
<1>. SUFFICES ASSUME Init PROVE Timed
  OBVIOUS
<1>. USE FDsAssumption, LifetimeAssumption DEF Init
<1>1. Open = {}
  BY DEF Open
<1>2. ListOf(list, live)
  BY EmptyListIs
<1>3. TimerInv
  BY <1>1, <1>2 DEF TimerInv
<1>4. ClockInv
  BY <1>1 DEF ClockInv
<1>. QED  BY <1>3, <1>4 DEF Timed

LEMMA TimersStay == Timed /\ UNCHANGED <<conn, timerVars, quiet>> => Timed'
BY DEF Timed, TimerInv, ClockInv, timerVars, Open

(* TIMESLOT seconds pass for the timers and for the connections alike. *)
LEMMA AdvanceTimed == Timed /\ Advance => Timed'
<1>. SUFFICES ASSUME Timed, Advance PROVE Timed'
  OBVIOUS
<1>. USE LifetimeAssumption
<1>. DEFINE e == [t \in Timers |-> Max0(list.expire[t])]
<1>1. /\ UNCHANGED <<conn, live, userTimer, timerFD>>
      /\ list' = [list EXCEPT !.expire = e]
      /\ quiet' = [f \in FDs |-> IF f \in Open /\ quiet[f] < Lifetime THEN quiet[f] + 1 ELSE quiet[f]]
  BY DEF Advance, kernelVars
<1>2. ListOf(list, live) /\ list \in ListType
  BY HeadIs DEF Timed, TimerInv
<1>3. list.expire \in [Timers -> Nat]
  BY <1>2 DEF ListType
<1>4. /\ e \in [Timers -> Nat]
      /\ \A x, y \in Timers : list.expire[x] <= list.expire[y] => e[x] <= e[y]
  BY <1>3 DEF Max0
<1>5. list'.expire = e
  BY <1>1, <1>2 DEF ListType
<1>6. \A t \in Timers : e[t] = Max0(list.expire[t])
  OBVIOUS
<1>. HIDE DEF e
<1>7. ListOf(list', live')
  BY <1>1, <1>2, <1>4, AgedIs
<1>8. TimerInv'
  BY <1>1, <1>7 DEF Timed, TimerInv, Open
<1>9. ClockInv'
  <2>1. quiet' \in [FDs -> 0..Lifetime]
    BY <1>1 DEF Timed, ClockInv
  <2>2. ASSUME NEW f \in Open PROVE list'.expire[userTimer'[f]] = Lifetime - quiet'[f]
    <3>1. f \in FDs /\ userTimer[f] \in Timers /\ userTimer'[f] = userTimer[f]
      BY <1>1 DEF Timed, TimerInv, Open
    <3>2. quiet[f] \in 0..Lifetime /\ list.expire[userTimer[f]] = Lifetime - quiet[f]
      BY <3>1 DEF Timed, ClockInv
    <3>3. quiet'[f] = IF quiet[f] < Lifetime THEN quiet[f] + 1 ELSE quiet[f]
      BY <1>1, <3>1
    <3>. QED  BY <1>5, <1>6, <3>1, <3>2, <3>3 DEF Max0
  <2>. QED  BY <1>1, <2>1, <2>2 DEF ClockInv, Open
<1>. QED  BY <1>8, <1>9 DEF Timed

(* A connection gets a timer of its own, in its place in the list. *)
LEMMA ListenTimed == TypeInv /\ Timed /\ HandleListen => Timed'
<1>. SUFFICES ASSUME TypeInv, Timed, HandleListen PROVE Timed'
  OBVIOUS
<1>. USE FDsAssumption, LifetimeAssumption
<1>. DEFINE f == Lowest(FDs \ Open)
<1>1. f \in FDs \ Open
  BY LowestIsIn DEF HandleListen
<1>. HIDE DEF f
<1>2. PICK c \in backlog, t \in Timers \ live :
        /\ conn' = [conn EXCEPT ![f] = c]
        /\ live' = live \cup {t}
        /\ timerFD' = [timerFD EXCEPT ![t] = f]
        /\ userTimer' = [userTimer EXCEPT ![f] = t]
        /\ list' = AddTimer(NewTimer(list, t, Lifetime), t)
        /\ quiet' = [quiet EXCEPT ![f] = 0]
  BY DEF HandleListen, f
<1>. DEFINE Fresh == NewTimer(list, t, Lifetime)
<1>3. ListOf(list, live) /\ list \in ListType
  BY HeadIs DEF Timed, TimerInv
<1>4. ListOf(Fresh, live) /\ Fresh.expire = [list.expire EXCEPT ![t] = Lifetime] /\ Fresh.prev[t] = Null
  BY <1>3, NewTimerIs
<1>. HIDE DEF Fresh
<1>5. ListOf(list', live') /\ list'.expire = Fresh.expire
  BY <1>2, <1>4, AddTimerIs DEF Fresh
<1>6. list'.expire[t] = Lifetime /\ \A x \in Timers \ {t} : list'.expire[x] = list.expire[x]
  BY <1>3, <1>4, <1>5 DEF ListType
<1>7. Open' \subseteq Open \cup {f}
  BY <1>1, <1>2 DEF TypeInv, Open
<1>8. f \in Open' /\ Open \subseteq Open'
  <2>1. c # Null
    BY DEF TypeInv, HandleListen
  <2>. QED  BY <1>1, <1>2, <2>1 DEF TypeInv, Open
<1>9. TimerInv'
  BY <1>1, <1>2, <1>5, <1>7, <1>8 DEF Timed, TimerInv, Open
<1>10. ClockInv'
  <2>1. quiet' \in [FDs -> 0..Lifetime]
    BY <1>1, <1>2 DEF Timed, ClockInv
  <2>2. ASSUME NEW g \in Open' PROVE list'.expire[userTimer'[g]] = Lifetime - quiet'[g]
    <3>1. CASE g = f
      BY <1>1, <1>2, <1>6, <3>1 DEF Timed, TimerInv, ClockInv
    <3>2. CASE g # f
      <4>1. g \in Open /\ g \in FDs /\ userTimer[g] \in Timers \ {t}
        BY <1>2, <1>7, <3>2 DEF Timed, TimerInv, Open
      <4>. QED  BY <1>1, <1>2, <1>6, <3>2, <4>1 DEF Timed, TimerInv, ClockInv
    <3>. QED  BY <3>1, <3>2
  <2>. QED  BY <2>1, <2>2 DEF ClockInv
<1>. QED  BY <1>9, <1>10 DEF Timed

(* Data puts the timer off; nobody else's moves. *)
LEMMA DataTimed ==
  ASSUME TypeInv, NoStaleEvent, Timed, NEW f \in FDs, HandleData(f) PROVE Timed'
<1>. USE LifetimeAssumption
<1>. DEFINE t == userTimer[f]
<1>1. /\ UNCHANGED <<conn, live, userTimer, timerFD>>
      /\ list' = AdjustTimer(SetExpire(list, t, Lifetime), t)
      /\ quiet' = [quiet EXCEPT ![f] = 0]
      /\ f \in batch
  BY DEF HandleData
<1>2. f \in Open
  BY <1>1 DEF NoStaleEvent, Open
<1>3. ListOf(list, live) /\ list \in ListType
  BY HeadIs DEF Timed, TimerInv
<1>4. t \in live /\ t \in Timers /\ list.expire[t] <= Lifetime
  BY <1>2 DEF Timed, TimerInv, ClockInv
<1>. HIDE DEF t
<1>5. ListOf(list', live) /\ list'.expire = [list.expire EXCEPT ![t] = Lifetime]
  BY <1>1, <1>3, <1>4, AdjustTimerIs
<1>6. list'.expire[t] = Lifetime /\ \A x \in Timers \ {t} : list'.expire[x] = list.expire[x]
  BY <1>3, <1>4, <1>5 DEF ListType
<1>7. TimerInv'
  BY <1>1, <1>5 DEF Timed, TimerInv, Open
<1>8. quiet' \in [FDs -> 0..Lifetime]
  BY <1>1 DEF Timed, ClockInv
<1>9. ASSUME NEW g \in Open PROVE list'.expire[userTimer[g]] = Lifetime - quiet'[g]
  <2>1. g \in FDs /\ (g # f => userTimer[g] \in Timers \ {t})
    BY <1>2 DEF Timed, TimerInv, Open, t
  <2>. QED  BY <1>1, <1>6, <2>1 DEF Timed, ClockInv, t
<1>. QED  BY <1>1, <1>7, <1>8, <1>9 DEF Timed, ClockInv, Open

(* A connection goes together with its timer, whoever of recv and tick     *)
(* takes the first step.                                                   *)
LEMMA ClosingTimed ==
  ASSUME TypeInv, Timed, NEW f \in Open, NEW t, t = userTimer[f], CloseFD(f),
         ListOf(list', live \ {t}), \A x \in Timers \ {t} : list'.expire[x] = list.expire[x],
         live' = live \ {t}, timerFD' = [timerFD EXCEPT ![t] = Null], UNCHANGED userTimer
  PROVE  Timed'
<1>. USE FDsAssumption, LifetimeAssumption
<1>1. Open' = Open \ {f}
  BY DEF CloseFD, TypeInv, Open
<1>2. f \in FDs /\ t \in live /\ timerFD[t] = f
  BY DEF Timed, TimerInv, Open
<1>3. \A g \in Open \ {f} : userTimer[g] \in live \ {t}
  BY <1>2 DEF Timed, TimerInv
<1>4. \A x \in live \ {t} : timerFD[x] # f
  BY <1>2 DEF Timed, TimerInv
<1>5. TimerInv'
  BY <1>1, <1>2, <1>3, <1>4 DEF Timed, TimerInv, Open
<1>6. quiet' \in [FDs -> 0..Lifetime] /\ \A g \in FDs \ {f} : quiet'[g] = quiet[g]
  BY <1>2 DEF Timed, ClockInv, CloseFD
<1>7. ASSUME NEW g \in Open' PROVE list'.expire[userTimer'[g]] = Lifetime - quiet'[g]
  <2>1. g \in Open /\ g \in FDs \ {f} /\ userTimer[g] \in Timers \ {t}
    BY <1>1, <1>3 DEF Timed, TimerInv, Open
  <2>. QED  BY <1>6, <2>1 DEF Timed, ClockInv
<1>. QED  BY <1>5, <1>6, <1>7 DEF Timed, ClockInv

LEMMA EndTimed ==
  ASSUME TypeInv, NoStaleEvent, Timed, NEW f \in FDs, HandleEnd(f) PROVE Timed'
<1>1. f \in Open
  BY DEF HandleEnd, NoStaleEvent, Open
<1>2. userTimer[f] \in live
  BY <1>1 DEF Timed, TimerInv
<1>3. /\ ListOf(list', live \ {userTimer[f]})
      /\ \A x \in Timers \ {userTimer[f]} : list'.expire[x] = list.expire[x]
  BY <1>2, DelTimerIs DEF HandleEnd, Timed, TimerInv
<1>. QED  BY <1>1, <1>3, ClosingTimed DEF HandleEnd

(* What tick closes is the head's connection, which is due. *)
LEMMA FireTimed ==
  ASSUME TypeInv, Timed, TickFire
  PROVE  /\ Timed'
         /\ timerFD[list.head] \in Open /\ quiet[timerFD[list.head]] = Lifetime
         /\ Open' = Open \ {timerFD[list.head]}
<1>. USE FDsAssumption, LifetimeAssumption
<1>. DEFINE f == timerFD[list.head]
<1>1. list.head # Null /\ 0 >= list.expire[list.head]
  BY DEF TickFire, HeadIsDue
<1>2. ListOf(list, live) /\ list.head \in live
  BY <1>1, HeadIs DEF Timed, TimerInv
<1>3. f \in Open /\ userTimer[f] = list.head
  BY <1>2 DEF Timed, TimerInv
<1>4. f \in FDs /\ quiet[f] = Lifetime
  <2>1. f \in FDs /\ list.expire[list.head] = Lifetime - quiet[f]
    BY <1>3 DEF Timed, ClockInv, Open
  <2>2. quiet[f] \in 0..Lifetime
    BY <2>1 DEF Timed, ClockInv
  <2>. QED  BY <1>1, <2>1, <2>2
<1>5. /\ ListOf(list', live \ {list.head})
      /\ \A x \in Timers \ {list.head} : list'.expire[x] = list.expire[x]
  BY <1>1, <1>2, PopHeadIs DEF TickFire
<1>6. /\ CloseFD(f) /\ live' = live \ {list.head} /\ timerFD' = [timerFD EXCEPT ![list.head] = Null]
      /\ UNCHANGED userTimer
  BY DEF TickFire
<1>. HIDE DEF f
<1>7. Timed'
  BY <1>3, <1>5, <1>6, ClosingTimed
<1>8. Open' = Open \ {f}
  BY <1>4, <1>6 DEF CloseFD, TypeInv, Open
<1>. QED  BY <1>3, <1>4, <1>7, <1>8 DEF f

LEMMA TimedStep == IInv /\ Timed /\ [Next]_vars => Timed'
<1>. SUFFICES ASSUME IInv, Timed, [Next]_vars PROVE Timed'
  OBVIOUS
<1>. USE DEF IInv
<1>1. CASE UNCHANGED vars
  BY <1>1, TimersStay DEF vars, kernelVars
<1>2. CASE Environment
  <2>1. ASSUME NEW c \in Clients, Connect(c) \/ Send(c) \/ Leave(c), UNCHANGED <<timerVars, quiet>>
        PROVE  Timed'
    BY <2>1, TimersStay DEF Connect, Send, Leave
  <2>2. ASSUME NEW sig \in {"ALRM", "TERM"}, Signal(sig) PROVE Timed'
    BY <2>2, TimersStay DEF Signal
  <2>. QED  BY <1>2, <2>1, <2>2, AdvanceTimed DEF Environment
<1>3. CASE Server
  <2>1. CASE Wait \/ HandleListenFails \/ HandleSignals \/ BatchDone \/ TickEnd
    BY <2>1, TimersStay DEF Wait, HandleListenFails, HandleSignals, BatchDone, TickEnd, kernelVars
  <2>. QED  BY <1>3, <2>1, ListenTimed, DataTimed, EndTimed, FireTimed DEF Server
<1>. QED  BY <1>1, <1>2, <1>3 DEF Next

LEMMA TimedInvariance == Spec => [](IInv /\ Timed)
BY InitiallyTimed, TimedStep, Invariance, PTL DEF Spec

(* Connections and timers are in step, and the list links exactly the      *)
(* timers that exist: no callback ever gets a descriptor that was closed   *)
(* or reused (close_nonactivity_connection.cpp:75-80, 136-146, 183-193).   *)
THEOREM TimersAreInStep == TimersSpec => []TimersMatchConnections
<1>1. Timed => TimersMatchConnections
  BY ListFacts, TimersAssumption DEF Timed, TimerInv, TimersMatchConnections
<1>. QED  BY <1>1, TimedInvariance, RunsOneProgram, PTL

(* tick closes the connections that have been quiet for Lifetime, all of   *)
(* them and no other (close_nonactivity_connection.cpp:70-80,              *)
(* ascending_linkedlist_timer_impl.h:121-133).                             *)
THEOREM TicksAreExact == TimersSpec => TickIsExact
<1>. DEFINE A == pc = "tick" =>
                   /\ \A f \in FDs : (f \in Open /\ f \notin Open') => quiet[f] >= Lifetime
                   /\ pc' # "tick" => \A f \in Open : quiet[f] < Lifetime
<1>. USE LifetimeAssumption
<1>1. ASSUME IInv, Timed, Next, pc = "tick" PROVE A
  <2>1. CASE TickFire
    <3>1. pc' = pc
      BY <2>1 DEF TickFire, loopVars
    <3>2. /\ quiet[timerFD[list.head]] = Lifetime
          /\ Open' = Open \ {timerFD[list.head]}
      BY <1>1, <2>1, FireTimed DEF IInv
    <3>. QED  BY <1>1, <3>1, <3>2
  <2>2. CASE TickEnd
    <3>1. Open' = Open
      BY <2>2 DEF TickEnd, kernelVars, Open
    <3>2. ASSUME NEW f \in Open PROVE quiet[f] < Lifetime
      <4>1. ListOf(list, live) /\ list \in ListType /\ userTimer[f] \in live /\ live \subseteq Timers
        BY <1>1, HeadIs DEF Timed, TimerInv
      <4>2. list.head # Null /\ list.head \in live /\ list.expire[list.head] <= list.expire[userTimer[f]]
        BY <4>1, HeadIs
      <4>3. ~(0 >= list.expire[list.head])
        BY <2>2, <4>2 DEF TickEnd, HeadIsDue
      <4>4. list.expire[userTimer[f]] \in Nat /\ list.expire[list.head] \in Nat
        BY <4>1, <4>2 DEF ListType
      <4>5. quiet[f] \in 0..Lifetime /\ list.expire[userTimer[f]] = Lifetime - quiet[f]
        BY <1>1 DEF Timed, ClockInv, Open
      <4>. QED  BY <4>2, <4>3, <4>4, <4>5
    <3>. QED  BY <3>1, <3>2
  <2>3. CASE Environment
    <3>1. UNCHANGED <<conn, pc>>
      BY <2>3 DEF Environment, Connect, Send, Leave, Advance, Signal, loopVars, kernelVars
    <3>. QED  BY <3>1 DEF Open
  <2>. QED
    BY <1>1, <2>1, <2>2, <2>3
       DEF Next, Server, Wait, HandleListen, HandleListenFails, HandleSignals, HandleData, HandleEnd, BatchDone
<1>2. IInv /\ Timed /\ [Next]_vars => [A]_vars
  BY <1>1
<1>. QED  BY <1>2, TimedInvariance, RunsOneProgram, PTL DEF Spec, TickIsExact
=============================================================================
