------------------------- MODULE TimerContainerProofs -------------------------
(***************************************************************************)
(* Proofs about time_wheel and time_heap, for any number of timers, any    *)
(* number of slots, any slot interval and any capacity: whatever is called *)
(* in whatever order, the lists of the slots stay intact and the array a   *)
(* heap, and both implement the abstract timer queue.  Of the wheel, the   *)
(* first part is about a slot's list, given by its first timer and the     *)
(* functions prev and next, the second about the arithmetic of slots and   *)
(* rotations, the third is the invariant.  Of the heap, the first part     *)
(* shows that the recursive functions of the model exist, the next three   *)
(* what percolate_down, the second constructor and the loop of add_timer   *)
(* leave in the array, and the last is the invariant.  The end joins this  *)
(* with what SortedTimerListProofs shows of the list.                      *)
(***************************************************************************)
EXTENDS SortedTimerListProofs

(* What the proofs need of the constants. *)
LEMMA WheelFacts ==
  /\ IsFiniteSet(Timers) /\ Null \notin Timers /\ Null \notin Nat
  /\ N \in Nat \ {0} /\ SI \in Nat \ {0} /\ MaxTimeout \in Nat
BY TimersAssumption, FDsAssumption, NullAssumption, WheelAssumption

-----------------------------------------------------------------------------
(* The links of one slot.  q is its n timers, from the first one f on,     *)
(* spelt by the functions p (prev) and x (next).                           *)
IsChain(f, p, x, q, n) ==
  /\ q \in [1..n -> Timers]
  /\ \A i, j \in 1..n : q[i] = q[j] => i = j
  /\ f = IF n = 0 THEN Null ELSE q[1]
  /\ \A i \in 1..n : /\ p[q[i]] = IF i = 1 THEN Null ELSE q[i - 1]
                     /\ x[q[i]] = IF i = n THEN Null ELSE q[i + 1]

(* q with t in front. *)
Pushed(q, n, t) == [i \in 1..n + 1 |-> IF i = 1 THEN t ELSE q[i - 1]]

(* The links that a step leaves alone spell what they spelt. *)
LEMMA ChainKept ==
  ASSUME NEW n \in Nat, NEW f, NEW p, NEW x, NEW q, IsChain(f, p, x, q, n), NEW p2, NEW x2,
         \A u \in Nodes(q, n) : p2[u] = p[u] /\ x2[u] = x[u]
  PROVE  IsChain(f, p2, x2, q, n)
BY DEF IsChain, Nodes

(* add_timer at the front. *)
LEMMA ChainPushed ==
  ASSUME NEW n \in Nat, NEW f, NEW p, NEW x, NEW q, IsChain(f, p, x, q, n),
         NEW t \in Timers \ Nodes(q, n), NEW p2, NEW x2,
         \A u \in Timers : /\ p2[u] = IF u = t THEN Null ELSE IF u = f THEN t ELSE p[u]
                           /\ x2[u] = IF u = t THEN f ELSE x[u]
  PROVE  IsChain(t, p2, x2, Pushed(q, n, t), n + 1) /\ Nodes(Pushed(q, n, t), n + 1) = Nodes(q, n) \cup {t}
<1>. USE WheelFacts
<1>. DEFINE r == Pushed(q, n, t)
<1>1. /\ q \in [1..n -> Timers] /\ \A i, j \in 1..n : q[i] = q[j] => i = j
      /\ f = IF n = 0 THEN Null ELSE q[1]
      /\ \A i \in 1..n : q[i] # t /\ q[i] \in Timers
  BY DEF IsChain, Nodes
<1>2. r \in [1..n + 1 -> Timers] /\ r[1] = t /\ \A i \in 1..n : i + 1 \in 1..n + 1 /\ r[i + 1] = q[i]
  BY <1>1 DEF Pushed
<1>3. \A i \in 1..n + 1 : i = 1 \/ (i - 1 \in 1..n /\ i - 1 + 1 = i /\ r[i] = q[i - 1])
  BY DEF Pushed
<1>. HIDE DEF r
<1>4. \A i, j \in 1..n + 1 : r[i] = r[j] => i = j
  BY <1>1, <1>2, <1>3
<1>5. ASSUME NEW i \in 1..n + 1
      PROVE  /\ p2[r[i]] = IF i = 1 THEN Null ELSE r[i - 1]
             /\ x2[r[i]] = IF i = n + 1 THEN Null ELSE r[i + 1]
  <2>1. CASE i = 1
    <3>1. p2[r[i]] = Null /\ x2[r[i]] = f
      BY <1>2, <2>1
    <3>2. f = IF i = n + 1 THEN Null ELSE r[i + 1]
      <4>1. CASE n = 0
        BY <1>1, <2>1, <4>1
      <4>2. CASE n # 0
        <5>1. 1 \in 1..n /\ r[1 + 1] = q[1]
          BY <1>2, <4>2
        <5>. QED  BY <1>1, <2>1, <4>2, <5>1
      <4>. QED  BY <4>1, <4>2
    <3>. QED  BY <2>1, <3>1, <3>2
  <2>2. CASE i # 1
    <3>. DEFINE m == i - 1
    <3>1. m \in 1..n /\ m + 1 = i /\ r[i] = q[m] /\ r[i] # t /\ r[i] \in Timers /\ n # 0
      BY <1>1, <1>3, <2>2
    <3>. HIDE DEF m
    <3>2. /\ p[q[m]] = IF m = 1 THEN Null ELSE q[m - 1]
          /\ x[q[m]] = IF m = n THEN Null ELSE q[m + 1]
      BY <3>1 DEF IsChain
    <3>3. x2[r[i]] = x[q[m]]
      BY <3>1
    <3>4. x[q[m]] = IF i = n + 1 THEN Null ELSE r[i + 1]
      <4>1. CASE m = n
        BY <3>1, <3>2, <4>1
      <4>2. CASE m # n
        <5>1. m + 1 \in 1..n /\ r[m + 1 + 1] = q[m + 1]
          BY <1>2, <3>1, <4>2
        <5>. QED  BY <3>1, <3>2, <4>2, <5>1
      <4>. QED  BY <4>1, <4>2
    <3>5. p2[r[i]] = r[m]
      <4>1. CASE m = 1
        <5>1. f = q[m]
          BY <1>1, <3>1, <4>1
        <5>. QED  BY <1>2, <3>1, <4>1, <5>1
      <4>2. CASE m # 1
        <5>1. 1 \in 1..n /\ f = q[1] /\ q[m] # f
          BY <1>1, <3>1, <4>2
        <5>2. m - 1 \in 1..n /\ r[m - 1 + 1] = q[m - 1] /\ m - 1 + 1 = m
          BY <1>2, <3>1, <4>2
        <5>. QED  BY <3>1, <3>2, <4>2, <5>1, <5>2
      <4>. QED  BY <4>1, <4>2
    <3>. QED  BY <2>2, <3>1, <3>3, <3>4, <3>5
  <2>. QED  BY <2>1, <2>2
<1>6. IsChain(t, p2, x2, r, n + 1)
  BY <1>2, <1>4, <1>5 DEF IsChain
<1>7. Nodes(r, n + 1) = Nodes(q, n) \cup {t}
  <2>. DEFINE D == Nodes(r, n + 1)
  <2>1. D \subseteq Nodes(q, n) \cup {t}
    BY <1>2, <1>3 DEF Nodes
  <2>2. \A i \in 1..n : q[i] \in D
    BY <1>2 DEF Nodes
  <2>3. 1 \in 1..n + 1
    OBVIOUS
  <2>4. t \in D
    BY <1>2, <2>3 DEF Nodes
  <2>. HIDE DEF D
  <2>5. Nodes(q, n) \subseteq D
    BY <2>2 DEF Nodes
  <2>6. D = Nodes(q, n) \cup {t}
    BY <2>1, <2>4, <2>5
  <2>. QED  BY <2>6 DEF D
<1>. QED  BY <1>6, <1>7 DEF r

(* del_timer and tick take a timer out, wherever it is. *)
LEMMA ChainRemoved ==
  ASSUME NEW n \in Nat, NEW f, NEW p, NEW x, NEW q, IsChain(f, p, x, q, n), NEW k \in 1..n,
         NEW p2, NEW x2,
         LET t == q[k]
         IN  \A u \in Timers : /\ p2[u] = IF u = t THEN Null ELSE IF u = x[t] THEN p[t] ELSE p[u]
                               /\ x2[u] = IF u = t THEN Null ELSE IF u = p[t] THEN x[t] ELSE x[u]
  PROVE  /\ IsChain(IF k = 1 THEN x[q[k]] ELSE f, p2, x2, Removed(q, n, k), n - 1)
         /\ Nodes(Removed(q, n, k), n - 1) = Nodes(q, n) \ {q[k]}
<1>. USE WheelFacts
<1>. DEFINE t == q[k]
            r == Removed(q, n, k)
<1>1. /\ q \in [1..n -> Timers] /\ \A i, j \in 1..n : q[i] = q[j] => i = j
      /\ n # 0 /\ f = q[1] /\ t \in Timers
  BY DEF IsChain
<1>2. /\ r \in [1..n - 1 -> Timers] /\ Nodes(r, n - 1) = Nodes(q, n) \ {t}
      /\ \A i, j \in 1..n - 1 : r[i] = r[j] => i = j
      /\ \A i \in 1..k - 1 : r[i] = q[i]
      /\ \A i \in k..n - 1 : r[i] = q[i + 1]
  BY <1>1, RemovedIs, SMTT(30)
<1>. HIDE DEF r
<1>3. /\ p[t] = IF k = 1 THEN Null ELSE q[k - 1]
      /\ x[t] = IF k = n THEN Null ELSE q[k + 1]
  BY DEF IsChain
<1>4. ASSUME NEW i \in 1..n, i # k
      PROVE  /\ p2[q[i]] = IF i = 1 THEN Null
                           ELSE IF i = k + 1 THEN IF k = 1 THEN Null ELSE q[k - 1]
                           ELSE q[i - 1]
             /\ x2[q[i]] = IF i = n THEN Null
                           ELSE IF i = k - 1 THEN IF k = n THEN Null ELSE q[k + 1]
                           ELSE q[i + 1]
  <2>1. /\ q[i] \in Timers /\ q[i] # t
        /\ p[q[i]] = IF i = 1 THEN Null ELSE q[i - 1]
        /\ x[q[i]] = IF i = n THEN Null ELSE q[i + 1]
    BY <1>1, <1>4 DEF IsChain
  <2>2. q[i] = x[t] <=> i = k + 1
    <3>1. CASE k = n
      BY <1>3, <2>1, <3>1
    <3>2. CASE k # n
      <4>1. k + 1 \in 1..n
        BY <3>2
      <4>. QED  BY <1>1, <1>3, <3>2, <4>1
    <3>. QED  BY <3>1, <3>2
  <2>3. q[i] = p[t] <=> i = k - 1
    <3>1. CASE k = 1
      BY <1>3, <2>1, <3>1
    <3>2. CASE k # 1
      <4>1. k - 1 \in 1..n
        BY <3>2
      <4>. QED  BY <1>1, <1>3, <3>2, <4>1
    <3>. QED  BY <3>1, <3>2
  <2>4. /\ p2[q[i]] = IF i = k + 1 THEN p[t] ELSE p[q[i]]
        /\ x2[q[i]] = IF i = k - 1 THEN x[t] ELSE x[q[i]]
    BY <2>1, <2>2, <2>3
  <2>. QED  BY <1>3, <2>1, <2>4
<1>5. ASSUME NEW i \in 1..n - 1
      PROVE  /\ p2[r[i]] = IF i = 1 THEN Null ELSE r[i - 1]
             /\ x2[r[i]] = IF i = n - 1 THEN Null ELSE r[i + 1]
  <2>1. CASE i < k
    <3>1. r[i] = q[i] /\ i \in 1..n /\ i # k /\ i # k + 1
      BY <1>2, <2>1
    <3>2. i # 1 => i - 1 \in 1..k - 1 /\ r[i - 1] = q[i - 1]
      BY <1>2, <2>1
    <3>3. i # n - 1 => r[i + 1] = IF i + 1 < k THEN q[i + 1] ELSE q[i + 1 + 1]
      <4>. SUFFICES ASSUME i # n - 1 PROVE r[i + 1] = IF i + 1 < k THEN q[i + 1] ELSE q[i + 1 + 1]
        OBVIOUS
      <4>1. CASE i + 1 < k
        BY <1>2, <4>1
      <4>2. CASE i + 1 >= k
        <5>. i + 1 \in k..n - 1
          BY <4>2
        <5>. QED  BY <1>2, <4>2
      <4>. QED  BY <4>1, <4>2
    <3>4. /\ p2[q[i]] = IF i = 1 THEN Null ELSE q[i - 1]
          /\ x2[q[i]] = IF i = n THEN Null
                        ELSE IF i = k - 1 THEN IF k = n THEN Null ELSE q[k + 1]
                        ELSE q[i + 1]
      BY <1>4, <3>1
    <3>5. x2[q[i]] = IF i = n - 1 THEN Null ELSE r[i + 1]
      <4>1. CASE i = k - 1
        <5>1. i + 1 = k /\ i # n /\ (i = n - 1 <=> k = n)
          BY <4>1
        <5>. QED  BY <3>3, <3>4, <4>1, <5>1
      <4>2. CASE i # k - 1
        <5>1. i + 1 < k /\ i # n /\ i # n - 1
          BY <2>1, <4>2
        <5>. QED  BY <3>3, <3>4, <4>2, <5>1
      <4>. QED  BY <4>1, <4>2
    <3>. QED  BY <3>1, <3>2, <3>4, <3>5
  <2>2. CASE i >= k
    <3>. DEFINE m == i + 1
    <3>1. m \in 1..n /\ m # k /\ m # k - 1 /\ m # 1 /\ m - 1 = i /\ r[i] = q[m] /\ (i = n - 1 <=> m = n)
      <4>1. i \in k..n - 1
        BY <2>2
      <4>. QED  BY <1>2, <2>2, <4>1
    <3>2. i # n - 1 => r[i + 1] = q[m + 1]
      <4>. SUFFICES ASSUME i # n - 1 PROVE r[i + 1] = q[i + 1 + 1]
        OBVIOUS
      <4>. i + 1 \in k..n - 1
        BY <2>2
      <4>. QED  BY <1>2
    <3>. HIDE DEF m
    <3>3. /\ p2[q[m]] = IF m = k + 1 THEN IF k = 1 THEN Null ELSE q[k - 1] ELSE q[m - 1]
          /\ x2[q[m]] = IF m = n THEN Null ELSE q[m + 1]
      BY <1>4, <3>1
    <3>4. p2[q[m]] = IF i = 1 THEN Null ELSE r[i - 1]
      <4>1. CASE i = k
        <5>1. m = k + 1
          BY <3>1, <4>1
        <5>2. k # 1 => k - 1 \in 1..k - 1 /\ r[k - 1] = q[k - 1]
          BY <1>2
        <5>. QED  BY <3>3, <4>1, <5>1, <5>2
      <4>2. CASE i # k
        <5>1. i - 1 \in k..n - 1 /\ i - 1 + 1 = i /\ i # 1 /\ m # k + 1
          BY <2>2, <3>1, <4>2
        <5>2. r[i - 1] = q[i]
          BY <1>2, <5>1
        <5>. QED  BY <3>1, <3>3, <5>1, <5>2
      <4>. QED  BY <4>1, <4>2
    <3>. QED  BY <3>1, <3>2, <3>3, <3>4
  <2>. QED  BY <2>1, <2>2
<1>6. (IF k = 1 THEN x[t] ELSE f) = IF n - 1 = 0 THEN Null ELSE r[1]
  <2>1. CASE k = 1
    <3>1. CASE n = 1
      BY <1>3, <2>1, <3>1
    <3>2. CASE n # 1
      <4>1. 1 \in k..n - 1
        BY <2>1, <3>2
      <4>. QED  BY <1>2, <1>3, <2>1, <3>2, <4>1
    <3>. QED  BY <3>1, <3>2
  <2>2. CASE k # 1
    <3>1. 1 \in 1..k - 1 /\ n - 1 # 0
      BY <2>2
    <3>. QED  BY <1>1, <1>2, <2>2, <3>1
  <2>. QED  BY <2>1, <2>2
<1>. QED  BY <1>2, <1>5, <1>6 DEF IsChain, r

-----------------------------------------------------------------------------
(* Slots and rotations: how many ticks the wheel turns from slot c to s. *)
AheadOf(c, s) == IF s >= c THEN s - c ELSE s - c + N

LEMMA DivMod ==
  ASSUME NEW k \in Nat
  PROVE  k \div N \in Nat /\ k % N \in 0..N - 1 /\ k = (k \div N) * N + (k % N)
BY WheelFacts

LEMMA Wraps ==
  ASSUME NEW c \in 0..N - 1, NEW m \in 0..N - 1
  PROVE  (c + m) % N \in 0..N - 1 /\ AheadOf(c, (c + m) % N) = m
<1>. USE WheelFacts
<1>1. CASE c + m < N
  <2>1. (c + m) % N = c + m
    BY <1>1
  <2>. QED  BY <1>1, <2>1 DEF AheadOf
<1>2. CASE c + m >= N
  <2>1. (c + m) % N = c + m - N
    BY <1>2
  <2>. QED  BY <1>2, <2>1 DEF AheadOf
<1>. QED  BY <1>1, <1>2

LEMMA Turned ==
  ASSUME NEW c \in 0..N - 1, NEW s \in 0..N - 1
  PROVE  /\ (c + 1) % N \in 0..N - 1
         /\ AheadOf((c + 1) % N, s) = IF s = c THEN N - 1 ELSE AheadOf(c, s) - 1
<1>. USE WheelFacts
<1>1. CASE c + 1 < N
  <2>1. (c + 1) % N = c + 1
    BY <1>1
  <2>. QED  BY <1>1, <2>1 DEF AheadOf
<1>2. CASE c + 1 = N
  <2>1. (c + 1) % N = 0
    BY <1>2
  <2>. QED  BY <1>2, <2>1 DEF AheadOf
<1>. QED  BY <1>1, <1>2

LEMMA Products ==
  ASSUME NEW r \in Nat
  PROVE  /\ r * N \in Nat /\ 0 * N = 0
         /\ r > 0 => (r - 1) * N + N = r * N
BY WheelFacts

-----------------------------------------------------------------------------
(* The invariant.  Every slot's list holds the timers of that slot, and    *)
(* what a timer still has to wait is its rotation times the number of      *)
(* slots plus the way to its slot; but while a tick walks its slot, the    *)
(* timers it has passed have lost a rotation already.                      *)
WheelType ==
  /\ slots \in [0..N-1 -> Timers \cup {Null}] /\ cur_slot \in 0..N-1
  /\ prev \in [Timers -> Timers \cup {Null}] /\ next \in [Timers -> Timers \cup {Null}]
  /\ rotation \in [Timers -> Nat] /\ time_slot \in [Timers -> 0..N-1]
  /\ inWheel \subseteq Timers /\ tmp \in Timers \cup {Null} /\ ticking \in BOOLEAN
  /\ ticks \in Nat /\ due \in [Timers -> Nat]

Holds(s, q, n) ==
  IsChain(slots[s], prev, next, q, n) /\ Nodes(q, n) = {t \in inWheel : time_slot[t] = s}

ChainsInv == \A s \in 0..N-1 : \E n \in Nat : \E q : Holds(s, q, n)

(* The walk has passed the first k - 1 of the current slot's n timers. *)
Walking(q, n, k) ==
  /\ Holds(cur_slot, q, n) /\ k \in 1..n + 1
  /\ tmp = IF k = n + 1 THEN Null ELSE q[k]
  /\ \A i \in 1..n : due[q[i]] = ticks + rotation[q[i]] * N + (IF i < k THEN N ELSE 0)

WalkInv == ticking => \E n \in Nat, k \in Nat : \E q : Walking(q, n, k)

TimeInv ==
  \A t \in inWheel : ~ticking \/ time_slot[t] # cur_slot =>
    due[t] = ticks + rotation[t] * N + AheadOf(cur_slot, time_slot[t])

WheelInv == WheelType /\ ChainsInv /\ WalkInv /\ TimeInv

LEMMA WheelInitially == Wheel!Init => WheelInv /\ Wheel!Queue!Init
<1>. SUFFICES ASSUME Wheel!Init PROVE WheelInv /\ Wheel!Queue!Init
  OBVIOUS
<1>. USE WheelFacts DEF Wheel!Init
<1>1. WheelType
  <2>. 0 \in 0..N - 1 /\ 0 \in Nat
    OBVIOUS
  <2>. QED  BY DEF WheelType
<1>2. ChainsInv
  <2>. SUFFICES ASSUME NEW s \in 0..N-1 PROVE \E n \in Nat : \E q : Holds(s, q, n)
    BY DEF ChainsInv
  <2>1. [i \in 1..0 |-> Null] \in [1..0 -> Timers] /\ Nodes([i \in 1..0 |-> Null], 0) = {}
    BY DEF Nodes
  <2>2. Holds(s, [i \in 1..0 |-> Null], 0)
    BY <2>1 DEF Holds, IsChain
  <2>. QED  BY <2>2
<1>3. WalkInv /\ TimeInv
  BY DEF WalkInv, TimeInv
<1>4. Wheel!Queue!Init
  BY DEF Wheel!Queue!Init
<1>. QED  BY <1>1, <1>2, <1>3, <1>4 DEF WheelInv

-----------------------------------------------------------------------------
(* add_timer. *)
LEMMA TicksAreNat == ASSUME NEW wait \in 0..MaxTimeout PROVE Wheel!TicksOf(wait) \in Nat
BY WheelFacts DEF Wheel!TicksOf

LEMMA AddStep ==
  ASSUME WheelInv, NEW t \in Timers, NEW wait \in 0..MaxTimeout, Wheel!Add(t, wait)
  PROVE  WheelInv' /\ Wheel!Queue!Add(t)
<1>. USE WheelFacts
<1>. DEFINE k == Wheel!TicksOf(wait)
            ts == (cur_slot + (k % N)) % N
            first == slots[ts]
<1>0. WheelType /\ ChainsInv /\ WalkInv /\ TimeInv
  BY DEF WheelInv
<1>1. k \in Nat /\ k % N \in 0..N - 1 /\ Wheel!Turns(k) \in Nat /\ k = Wheel!Turns(k) * N + (k % N)
  BY TicksAreNat, DivMod DEF Wheel!Turns
<1>2. cur_slot \in 0..N - 1 /\ t \notin inWheel /\ ~ticking
  BY <1>0 DEF WheelType, Wheel!Add
<1>3. ts \in 0..N - 1 /\ AheadOf(cur_slot, ts) = k % N
  BY <1>1, <1>2, Wraps
<1>4. /\ inWheel' = inWheel \cup {t} /\ rotation' = [rotation EXCEPT ![t] = Wheel!Turns(k)]
      /\ time_slot' = [time_slot EXCEPT ![t] = ts] /\ slots' = [slots EXCEPT ![ts] = t]
      /\ next' = [next EXCEPT ![t] = first]
      /\ prev' = [u \in Timers |-> IF u = t THEN Null ELSE IF u = first THEN t ELSE prev[u]]
      /\ due' = [due EXCEPT ![t] = ticks + k]
      /\ UNCHANGED <<cur_slot, tmp, ticking, ticks>>
  BY DEF Wheel!Add
<1>. HIDE DEF k, ts, first
<1>5. first \in Timers \cup {Null} /\ first = slots[ts]
  BY <1>0, <1>3 DEF WheelType, first
<1>6. WheelType'
  <2>1. ticks + k \in Nat
    BY <1>0, <1>1 DEF WheelType
  <2>2. slots' \in [0..N-1 -> Timers \cup {Null}] /\ cur_slot' \in 0..N-1
    BY <1>0, <1>3, <1>4 DEF WheelType
  <2>3. prev' \in [Timers -> Timers \cup {Null}] /\ next' \in [Timers -> Timers \cup {Null}]
    BY <1>0, <1>4, <1>5 DEF WheelType
  <2>4. rotation' \in [Timers -> Nat] /\ time_slot' \in [Timers -> 0..N-1]
    BY <1>0, <1>1, <1>3, <1>4 DEF WheelType
  <2>5. /\ inWheel' \subseteq Timers /\ tmp' \in Timers \cup {Null} /\ ticking' \in BOOLEAN
        /\ ticks' \in Nat /\ due' \in [Timers -> Nat]
    BY <1>0, <1>4, <2>1 DEF WheelType
  <2>. QED  BY <2>2, <2>3, <2>4, <2>5 DEF WheelType
<1>7. \A u \in Timers : /\ prev'[u] = IF u = t THEN Null ELSE IF u = first THEN t ELSE prev[u]
                        /\ next'[u] = IF u = t THEN first ELSE next[u]
                        /\ u # t => time_slot'[u] = time_slot[u]
  BY <1>0, <1>4 DEF WheelType
<1>8. time_slot'[t] = ts /\ slots'[ts] = t /\ \A s \in 0..N-1 : s # ts => slots'[s] = slots[s]
  BY <1>0, <1>3, <1>4 DEF WheelType
<1>9. PICK n \in Nat : \E q : Holds(ts, q, n)
  BY <1>0, <1>3 DEF ChainsInv
<1>10. PICK q : Holds(ts, q, n)
  BY <1>9
<1>11. /\ IsChain(first, prev, next, q, n) /\ Nodes(q, n) = {u \in inWheel : time_slot[u] = ts}
       /\ t \notin Nodes(q, n)
  BY <1>2, <1>5, <1>10 DEF Holds
<1>12. first = Null \/ first \in Nodes(q, n)
  <2>1. n # 0 => 1 \in 1..n
    OBVIOUS
  <2>. QED  BY <1>11, <2>1 DEF IsChain, Nodes
<1>13. ChainsInv'
  <2>. SUFFICES ASSUME NEW s \in 0..N-1 PROVE \E n2 \in Nat : \E q2 : Holds(s, q2, n2)'
    BY DEF ChainsInv
  <2>1. CASE s = ts
    <3>1. /\ IsChain(t, prev', next', Pushed(q, n, t), n + 1)
          /\ Nodes(Pushed(q, n, t), n + 1) = Nodes(q, n) \cup {t}
      BY <1>7, <1>11, ChainPushed
    <3>2. {u \in inWheel' : time_slot'[u] = ts} = Nodes(q, n) \cup {t}
      BY <1>0, <1>2, <1>4, <1>7, <1>8, <1>11 DEF WheelType
    <3>3. Holds(s, Pushed(q, n, t), n + 1)'
      BY <1>8, <2>1, <3>1, <3>2 DEF Holds
    <3>. QED  BY <3>3
  <2>2. CASE s # ts
    <3>1. PICK n2 \in Nat : \E q2 : Holds(s, q2, n2)
      BY <1>0 DEF ChainsInv
    <3>2. PICK q2 : Holds(s, q2, n2)
      BY <3>1
    <3>3. IsChain(slots[s], prev, next, q2, n2) /\ Nodes(q2, n2) = {u \in inWheel : time_slot[u] = s}
      BY <3>2 DEF Holds
    <3>4. \A u \in Nodes(q2, n2) : u \in Timers /\ u # t /\ u # first
      BY <1>0, <1>2, <1>11, <1>12, <2>2, <3>3 DEF WheelType
    <3>5. IsChain(slots[s], prev', next', q2, n2)
      BY <1>7, <3>3, <3>4, ChainKept
    <3>6. {u \in inWheel' : time_slot'[u] = s} = Nodes(q2, n2)
      BY <1>0, <1>2, <1>4, <1>7, <1>8, <2>2, <3>3 DEF WheelType
    <3>7. Holds(s, q2, n2)'
      BY <1>8, <2>2, <3>5, <3>6 DEF Holds
    <3>. QED  BY <3>7
  <2>. QED  BY <2>1, <2>2
<1>14. TimeInv'
  <2>. SUFFICES ASSUME NEW u \in inWheel'
                PROVE  due'[u] = ticks + rotation'[u] * N + AheadOf(cur_slot, time_slot'[u])
    BY <1>4 DEF TimeInv
  <2>1. CASE u = t
    <3>1. due'[u] = ticks + k /\ rotation'[u] = Wheel!Turns(k) /\ time_slot'[u] = ts
      BY <1>0, <1>4, <1>8, <2>1 DEF WheelType
    <3>2. Wheel!Turns(k) * N \in Nat /\ ticks \in Nat
      BY <1>0, <1>1, Products DEF WheelType
    <3>. QED  BY <1>1, <1>3, <3>1, <3>2
  <2>2. CASE u # t
    <3>1. u \in inWheel /\ u \in Timers
      BY <1>0, <1>4, <2>2 DEF WheelType
    <3>2. due'[u] = due[u] /\ rotation'[u] = rotation[u] /\ time_slot'[u] = time_slot[u]
      BY <1>0, <1>4, <1>7, <2>2, <3>1 DEF WheelType
    <3>. QED  BY <1>0, <1>2, <3>1, <3>2 DEF TimeInv
  <2>. QED  BY <2>1, <2>2
<1>15. WalkInv'
  BY <1>2, <1>4 DEF WalkInv
<1>16. Wheel!Queue!Add(t)
  <2>1. due'[t] \in Nat /\ \A s \in inWheel : due'[s] = due[s]
    BY <1>0, <1>1, <1>2, <1>4 DEF WheelType
  <2>. QED  BY <1>2, <1>4, <2>1 DEF Wheel!Queue!Add
<1>. QED  BY <1>6, <1>13, <1>14, <1>15, <1>16 DEF WheelInv


-----------------------------------------------------------------------------
(* Taking the k-th timer of a slot out of its list, as del_timer and tick  *)
(* do it: no other list changes.                                           *)
LEMMA UnlinkStep ==
  ASSUME WheelType, ChainsInv, NEW s \in 0..N-1, NEW n \in Nat, NEW q, Holds(s, q, n),
         NEW k \in 1..n, Wheel!Unlink(q[k], s), inWheel' = inWheel \ {q[k]}, time_slot' = time_slot
  PROVE  /\ slots' \in [0..N-1 -> Timers \cup {Null}]
         /\ prev' \in [Timers -> Timers \cup {Null}] /\ next' \in [Timers -> Timers \cup {Null}]
         /\ ChainsInv' /\ Holds(s, Removed(q, n, k), n - 1)'
<1>. USE WheelFacts
<1>. DEFINE t == q[k]
<1>1. /\ IsChain(slots[s], prev, next, q, n)
      /\ Nodes(q, n) = {u \in inWheel : time_slot[u] = s}
  BY DEF Holds
<1>2. /\ q \in [1..n -> Timers] /\ \A i, j \in 1..n : q[i] = q[j] => i = j
      /\ n # 0 /\ slots[s] = q[1] /\ t \in Timers /\ 1 \in 1..n
  BY <1>1 DEF IsChain
<1>3. /\ prev[t] = IF k = 1 THEN Null ELSE q[k - 1]
      /\ next[t] = IF k = n THEN Null ELSE q[k + 1]
      /\ k # 1 => k - 1 \in 1..n
      /\ k # n => k + 1 \in 1..n
  BY <1>1 DEF IsChain
<1>4. t \in Nodes(q, n) /\ prev[t] \in Nodes(q, n) \cup {Null} /\ next[t] \in Nodes(q, n) \cup {Null}
  BY <1>3 DEF Nodes
<1>5. t = slots[s] <=> k = 1
  BY <1>2
<1>6. prev[t] \in Timers \cup {Null} /\ next[t] \in Timers \cup {Null} /\ (k # 1 => prev[t] \in Timers)
  BY <1>2, <1>3
<1>7. /\ prev \in [Timers -> Timers \cup {Null}] /\ next \in [Timers -> Timers \cup {Null}]
      /\ slots \in [0..N-1 -> Timers \cup {Null}]
  BY DEF WheelType
<1>8. /\ slots' = IF k = 1 THEN [slots EXCEPT ![s] = next[t]] ELSE slots
      /\ prev' = [u \in Timers |-> IF u = t THEN Null ELSE IF u = next[t] THEN prev[t] ELSE prev[u]]
      /\ next' \in [Timers -> Timers \cup {Null}]
      /\ \A u \in Timers : next'[u] = IF u = t THEN Null ELSE IF u = prev[t] THEN next[t] ELSE next[u]
  <2>1. CASE k = 1
    <3>1. prev[t] = Null
      BY <1>3, <2>1
    <3>2. /\ slots' = [slots EXCEPT ![s] = next[t]]
          /\ prev' = [u \in Timers |-> IF u \in {t, next[t]} THEN Null ELSE prev[u]]
          /\ next' = [next EXCEPT ![t] = Null]
      BY <1>5, <2>1 DEF Wheel!Unlink
    <3>3. prev' = [u \in Timers |-> IF u = t THEN Null ELSE IF u = next[t] THEN prev[t] ELSE prev[u]]
      BY <3>1, <3>2
    <3>4. /\ next' \in [Timers -> Timers \cup {Null}]
          /\ \A u \in Timers : next'[u] = IF u = t THEN Null ELSE next[u]
      BY <1>7, <3>2
    <3>. QED  BY <2>1, <3>1, <3>2, <3>3, <3>4
  <2>2. CASE k # 1
    <3>1. /\ next' = [next EXCEPT ![prev[t]] = next[t], ![t] = Null]
          /\ prev' = [u \in Timers |-> IF u = t THEN Null
                                       ELSE IF u = next[t] THEN prev[t] ELSE prev[u]]
          /\ slots' = slots
      BY <1>5, <2>2 DEF Wheel!Unlink
    <3>2. /\ next' \in [Timers -> Timers \cup {Null}]
          /\ \A u \in Timers : next'[u] = IF u = t THEN Null ELSE IF u = prev[t] THEN next[t] ELSE next[u]
      BY <1>6, <1>7, <2>2, <3>1
    <3>. QED  BY <2>2, <3>1, <3>2
  <2>. QED  BY <2>1, <2>2
<1>. HIDE DEF t
<1>9. /\ slots' \in [0..N-1 -> Timers \cup {Null}]
      /\ prev' \in [Timers -> Timers \cup {Null}]
      /\ \A u \in Timers : prev'[u] = IF u = t THEN Null ELSE IF u = next[t] THEN prev[t] ELSE prev[u]
  BY <1>6, <1>7, <1>8
<1>10. slots'[s] = IF k = 1 THEN next[t] ELSE slots[s]
  BY <1>7, <1>8
<1>11. /\ IsChain(IF k = 1 THEN next[q[k]] ELSE slots[s], prev', next', Removed(q, n, k), n - 1)
       /\ Nodes(Removed(q, n, k), n - 1) = Nodes(q, n) \ {q[k]}
  <2>. \A u \in Timers :
         /\ prev'[u] = IF u = q[k] THEN Null ELSE IF u = next[q[k]] THEN prev[q[k]] ELSE prev[u]
         /\ next'[u] = IF u = q[k] THEN Null ELSE IF u = prev[q[k]] THEN next[q[k]] ELSE next[u]
    BY <1>8, <1>9 DEF t
  <2>. QED  BY <1>1, ChainRemoved
<1>12. {u \in inWheel' : time_slot'[u] = s} = Nodes(q, n) \ {q[k]}
  BY <1>1
<1>13. Holds(s, Removed(q, n, k), n - 1)'
  BY <1>10, <1>11, <1>12 DEF Holds, t
<1>14. ChainsInv'
  <2>. SUFFICES ASSUME NEW s2 \in 0..N-1 PROVE \E n2 \in Nat : \E q2 : Holds(s2, q2, n2)'
    BY DEF ChainsInv
  <2>1. CASE s2 = s
    <3>. n - 1 \in Nat
      BY <1>2
    <3>. QED  BY <1>13, <2>1
  <2>2. CASE s2 # s
    <3>1. PICK n2 \in Nat : \E q2 : Holds(s2, q2, n2)
      BY DEF ChainsInv
    <3>2. PICK q2 : Holds(s2, q2, n2)
      BY <3>1
    <3>3. IsChain(slots[s2], prev, next, q2, n2) /\ Nodes(q2, n2) = {u \in inWheel : time_slot[u] = s2}
      BY <3>2 DEF Holds
    <3>4. \A u \in Nodes(q2, n2) : u \in Timers /\ u # t /\ u # prev[t] /\ u # next[t]
      <4>1. \A u \in Nodes(q2, n2) : u \in Timers /\ u # Null /\ u \notin Nodes(q, n)
        BY <1>1, <2>2, <3>3 DEF WheelType
      <4>. QED  BY <1>4, <4>1 DEF t
    <3>5. \A u \in Nodes(q2, n2) : prev'[u] = prev[u] /\ next'[u] = next[u]
      BY <1>8, <1>9, <3>4
    <3>6. IsChain(slots[s2], prev', next', q2, n2)
      BY <3>3, <3>5, ChainKept
    <3>7. {u \in inWheel' : time_slot'[u] = s2} = Nodes(q2, n2)
      BY <3>3, <3>4 DEF t
    <3>8. slots'[s2] = slots[s2]
      BY <1>7, <1>8, <2>2
    <3>9. Holds(s2, q2, n2)'
      BY <3>6, <3>7, <3>8 DEF Holds
    <3>. QED  BY <3>9
  <2>. QED  BY <2>1, <2>2
<1>. QED  BY <1>8, <1>9, <1>13, <1>14

(* del_timer: the slot it finds the timer's list by is the timer's own. *)
LEMMA DeleteStep ==
  ASSUME WheelInv, NEW t \in Timers, Wheel!Delete(t)
  PROVE  WheelInv' /\ Wheel!Queue!Delete(t)
<1>. USE WheelFacts
<1>0. WheelType /\ ChainsInv /\ WalkInv /\ TimeInv
  BY DEF WheelInv
<1>. DEFINE s == time_slot[t]
<1>1. /\ ~ticking /\ t \in inWheel /\ Wheel!Unlink(t, s) /\ inWheel' = inWheel \ {t}
      /\ UNCHANGED <<cur_slot, rotation, time_slot, tmp, ticking, ticks, due>>
  BY DEF Wheel!Delete
<1>2. s \in 0..N-1
  BY <1>0 DEF WheelType
<1>. HIDE DEF s
<1>3. PICK n \in Nat : \E q : Holds(s, q, n)
  BY <1>0, <1>2 DEF ChainsInv
<1>4. PICK q : Holds(s, q, n)
  BY <1>3
<1>5. PICK k \in 1..n : q[k] = t
  BY <1>1, <1>4 DEF Holds, Nodes, s
<1>6. /\ slots' \in [0..N-1 -> Timers \cup {Null}] /\ prev' \in [Timers -> Timers \cup {Null}]
      /\ next' \in [Timers -> Timers \cup {Null}] /\ ChainsInv'
  BY <1>0, <1>1, <1>2, <1>4, <1>5, UnlinkStep
<1>7. WheelType'
  BY <1>0, <1>1, <1>6 DEF WheelType
<1>8. WalkInv' /\ TimeInv'
  BY <1>0, <1>1 DEF WalkInv, TimeInv
<1>9. Wheel!Queue!Delete(t)
  BY <1>1 DEF Wheel!Queue!Delete
<1>. QED  BY <1>6, <1>7, <1>8, <1>9 DEF WheelInv

-----------------------------------------------------------------------------
(* tick.  While it runs no timer that exists is overdue, and once it has   *)
(* walked the whole slot none is due either.                               *)
LEMMA WhatIsLeft ==
  ASSUME WheelType, TimeInv, ticking, NEW n \in Nat, NEW k \in Nat, NEW q, Walking(q, n, k)
  PROVE  /\ \A u \in inWheel : due[u] >= ticks
         /\ k = n + 1 => \A u \in inWheel : due[u] > ticks
<1>. USE WheelFacts
<1>. SUFFICES ASSUME NEW u \in inWheel
              PROVE  due[u] >= ticks /\ (k = n + 1 => due[u] > ticks)
  OBVIOUS
<1>1. /\ u \in Timers /\ ticks \in Nat /\ rotation[u] \in Nat /\ rotation[u] * N \in Nat
      /\ cur_slot \in 0..N - 1 /\ time_slot[u] \in 0..N - 1
  BY Products DEF WheelType
<1>2. CASE time_slot[u] = cur_slot
  <2>1. PICK i \in 1..n : q[i] = u
    BY <1>2 DEF Walking, Holds, Nodes
  <2>2. due[u] = ticks + rotation[u] * N + (IF i < k THEN N ELSE 0)
    BY <2>1 DEF Walking
  <2>3. ASSUME NEW w \in Nat PROVE ticks + w + 0 >= ticks /\ ticks + w + N > ticks
    BY <1>1
  <2>4. due[u] = ticks + rotation[u] * N + 0 \/ due[u] = ticks + rotation[u] * N + N
    BY <2>2
  <2>5. k = n + 1 => i < k
    OBVIOUS
  <2>6. ticks + rotation[u] * N + 0 >= ticks /\ ticks + rotation[u] * N + N > ticks
    BY <1>1, <2>3
  <2>. HIDE DEF AheadOf
  <2>. QED  BY <1>1, <2>2, <2>4, <2>5, <2>6
<1>3. CASE time_slot[u] # cur_slot
  <2>1. due[u] = ticks + rotation[u] * N + AheadOf(cur_slot, time_slot[u])
    BY <1>3 DEF TimeInv
  <2>2. AheadOf(cur_slot, time_slot[u]) \in Nat /\ AheadOf(cur_slot, time_slot[u]) > 0
    BY <1>1, <1>3 DEF AheadOf
  <2>. QED  BY <1>1, <2>1, <2>2
<1>. QED  BY <1>2, <1>3

LEMMA BeginStep ==
  ASSUME WheelInv, Wheel!TickBegin
  PROVE  WheelInv' /\ Wheel!Queue!BeginTick
<1>. USE WheelFacts
<1>0. WheelType /\ ChainsInv /\ WalkInv /\ TimeInv
  BY DEF WheelInv
<1>1. /\ ~ticking /\ ticking' = TRUE /\ tmp' = slots[cur_slot]
      /\ UNCHANGED <<slots, cur_slot, prev, next, rotation, time_slot, inWheel, ticks, due>>
  BY DEF Wheel!TickBegin, Wheel!fields
<1>2. WheelType'
  BY <1>0, <1>1 DEF WheelType
<1>3. ChainsInv' /\ TimeInv'
  BY <1>0, <1>1 DEF ChainsInv, Holds, TimeInv
<1>4. cur_slot \in 0..N - 1
  BY <1>0 DEF WheelType
<1>5. PICK n \in Nat : \E q : Holds(cur_slot, q, n)
  BY <1>0, <1>4 DEF ChainsInv
<1>6. PICK q : Holds(cur_slot, q, n)
  BY <1>5
<1>7. tmp' = IF 1 = n + 1 THEN Null ELSE q[1]
  BY <1>1, <1>6 DEF Holds, IsChain
<1>8. ASSUME NEW i \in 1..n
      PROVE  due[q[i]] = ticks + rotation[q[i]] * N + (IF i < 1 THEN N ELSE 0)
  <2>1. q[i] \in inWheel /\ time_slot[q[i]] = cur_slot
    BY <1>6 DEF Holds, Nodes
  <2>2. AheadOf(cur_slot, cur_slot) = 0
    BY <1>4 DEF AheadOf
  <2>. QED  BY <1>0, <1>1, <2>1, <2>2 DEF TimeInv
<1>9. Walking(q, n, 1)'
  BY <1>1, <1>6, <1>7, <1>8 DEF Walking, Holds
<1>10. WalkInv'
  BY <1>9 DEF WalkInv
<1>11. Wheel!Queue!BeginTick
  BY <1>0, <1>1 DEF Wheel!Queue!BeginTick, WheelType
<1>. QED  BY <1>2, <1>3, <1>10, <1>11 DEF WheelInv

(* Where the walk stands when it looks at a timer. *)
LEMMA Standing ==
  ASSUME NEW n \in Nat, NEW k \in Nat, NEW q, Walking(q, n, k), tmp # Null
  PROVE  /\ k \in 1..n /\ tmp = q[k] /\ tmp \in inWheel /\ time_slot[tmp] = cur_slot
         /\ next[tmp] = IF k = n THEN Null ELSE q[k + 1]
<1>1. k \in 1..n /\ tmp = q[k]
  BY DEF Walking
<1>. QED  BY <1>1 DEF Walking, Holds, Nodes, IsChain

LEMMA PassStep ==
  ASSUME WheelInv, Wheel!TickPass
  PROVE  WheelInv' /\ UNCHANGED Wheel!Queue!vars
<1>. USE WheelFacts
<1>0. WheelType /\ ChainsInv /\ WalkInv /\ TimeInv
  BY DEF WheelInv
<1>1. /\ ticking /\ tmp # Null /\ rotation[tmp] > 0
      /\ rotation' = [rotation EXCEPT ![tmp] = @ - 1] /\ tmp' = next[tmp]
      /\ UNCHANGED <<slots, cur_slot, prev, next, time_slot, inWheel, ticking, ticks, due>>
  BY DEF Wheel!TickPass
<1>2. /\ tmp \in Timers /\ rotation[tmp] \in Nat /\ rotation[tmp] - 1 \in Nat
      /\ rotation'[tmp] = rotation[tmp] - 1
      /\ \A u \in Timers \ {tmp} : rotation'[u] = rotation[u]
  BY <1>0, <1>1 DEF WheelType
<1>3. WheelType'
  <2>1. rotation' \in [Timers -> Nat] /\ tmp' \in Timers \cup {Null}
    BY <1>0, <1>1, <1>2 DEF WheelType
  <2>. QED  BY <1>0, <1>1, <2>1 DEF WheelType
<1>4. ChainsInv'
  BY <1>0, <1>1 DEF ChainsInv, Holds
<1>5. PICK n \in Nat, k \in Nat : \E q : Walking(q, n, k)
  BY <1>0, <1>1 DEF WalkInv
<1>6. PICK q : Walking(q, n, k)
  BY <1>5
<1>7. /\ k \in 1..n /\ tmp = q[k] /\ tmp \in inWheel /\ time_slot[tmp] = cur_slot
      /\ next[tmp] = IF k = n THEN Null ELSE q[k + 1]
  BY <1>1, <1>6, Standing
<1>8. ASSUME NEW i \in 1..n
      PROVE  due[q[i]] = ticks + rotation'[q[i]] * N + (IF i < k + 1 THEN N ELSE 0)
  <2>1. /\ q[i] \in Timers /\ (q[i] = q[k] => i = k)
        /\ due[q[i]] = ticks + rotation[q[i]] * N + (IF i < k THEN N ELSE 0)
    BY <1>6, <1>7 DEF Walking, Holds, IsChain
  <2>2. CASE i = k
    <3>1. (rotation[tmp] - 1) * N + N = rotation[tmp] * N
      BY <1>1, <1>2, Products
    <3>2. (rotation[tmp] - 1) * N \in Nat /\ ticks \in Nat
      BY <1>0, <1>2, Products DEF WheelType
    <3>3. q[i] = tmp /\ due[q[i]] = ticks + rotation[tmp] * N
      BY <1>7, <2>1, <2>2, <3>1, <3>2
    <3>. QED  BY <1>2, <1>7, <2>2, <3>1, <3>2, <3>3
  <2>3. CASE i # k
    <3>1. rotation'[q[i]] = rotation[q[i]] /\ (i < k <=> i < k + 1)
      BY <1>2, <1>7, <2>1, <2>3
    <3>. QED  BY <2>1, <3>1
  <2>. QED  BY <2>2, <2>3
<1>9. Walking(q, n, k + 1)'
  <2>1. Holds(cur_slot, q, n)'
    BY <1>1, <1>6 DEF Walking, Holds
  <2>2. k + 1 \in 1..n + 1 /\ tmp' = IF k + 1 = n + 1 THEN Null ELSE q[k + 1]
    BY <1>1, <1>7
  <2>. QED  BY <1>1, <1>8, <2>1, <2>2 DEF Walking
<1>10. WalkInv'
  <2>. k + 1 \in Nat
    OBVIOUS
  <2>. QED  BY <1>9 DEF WalkInv
<1>11. TimeInv'
  <2>. SUFFICES ASSUME NEW u \in inWheel, time_slot[u] # cur_slot
                PROVE  due[u] = ticks + rotation'[u] * N + AheadOf(cur_slot, time_slot[u])
    BY <1>1 DEF TimeInv
  <2>1. u \in Timers \ {tmp}
    BY <1>0, <1>7 DEF WheelType
  <2>. QED  BY <1>0, <1>2, <2>1 DEF TimeInv
<1>12. UNCHANGED Wheel!Queue!vars
  BY <1>1 DEF Wheel!Queue!vars
<1>. QED  BY <1>3, <1>4, <1>10, <1>11, <1>12 DEF WheelInv

(* A timer that fires is due in this very tick. *)
LEMMA FireStep ==
  ASSUME WheelInv, Wheel!TickFire
  PROVE  WheelInv' /\ Wheel!Queue!Fire(tmp) /\ tmp \in Timers
<1>. USE WheelFacts
<1>0. WheelType /\ ChainsInv /\ WalkInv /\ TimeInv
  BY DEF WheelInv
<1>1. /\ ticking /\ tmp # Null /\ rotation[tmp] = 0
      /\ Wheel!Unlink(tmp, cur_slot) /\ inWheel' = inWheel \ {tmp} /\ tmp' = next[tmp]
      /\ UNCHANGED <<cur_slot, rotation, time_slot, ticking, ticks, due>>
  BY DEF Wheel!TickFire
<1>2. PICK n \in Nat, k \in Nat : \E q : Walking(q, n, k)
  BY <1>0, <1>1 DEF WalkInv
<1>3. PICK q : Walking(q, n, k)
  BY <1>2
<1>4. /\ k \in 1..n /\ tmp = q[k] /\ tmp \in inWheel /\ time_slot[tmp] = cur_slot
      /\ next[tmp] = IF k = n THEN Null ELSE q[k + 1]
  BY <1>1, <1>3, Standing
<1>5. /\ Holds(cur_slot, q, n) /\ q \in [1..n -> Timers]
      /\ \A i, j \in 1..n : q[i] = q[j] => i = j
      /\ \A i \in 1..n : due[q[i]] = ticks + rotation[q[i]] * N + (IF i < k THEN N ELSE 0)
  BY <1>3 DEF Walking, Holds, IsChain
<1>. DEFINE r == Removed(q, n, k)
<1>6. cur_slot \in 0..N - 1 /\ tmp \in Timers
  BY <1>0, <1>4 DEF WheelType
<1>7. /\ slots' \in [0..N-1 -> Timers \cup {Null}] /\ prev' \in [Timers -> Timers \cup {Null}]
      /\ next' \in [Timers -> Timers \cup {Null}] /\ ChainsInv' /\ Holds(cur_slot, r, n - 1)'
  <2>1. Wheel!Unlink(q[k], cur_slot) /\ inWheel' = inWheel \ {q[k]} /\ time_slot' = time_slot
    BY <1>1, <1>4
  <2>2. slots' \in [0..N-1 -> Timers \cup {Null}] /\ prev' \in [Timers -> Timers \cup {Null}]
    BY <1>0, <1>4, <1>5, <1>6, <2>1, UnlinkStep
  <2>3. next' \in [Timers -> Timers \cup {Null}] /\ ChainsInv'
    BY <1>0, <1>4, <1>5, <1>6, <2>1, UnlinkStep
  <2>4. cur_slot' = cur_slot
    BY <1>1
  <2>5. IsChain(slots'[cur_slot], prev', next', r, n - 1)
    BY <1>0, <1>4, <1>5, <1>6, <2>1, UnlinkStep DEF Holds
  <2>6. Nodes(r, n - 1) = {u \in inWheel' : time_slot'[u] = cur_slot}
    BY <1>0, <1>4, <1>5, <1>6, <2>1, UnlinkStep DEF Holds
  <2>7. Holds(cur_slot, r, n - 1)'
    BY <2>4, <2>5, <2>6 DEF Holds
  <2>. QED  BY <2>2, <2>3, <2>7
<1>8. WheelType'
  <2>1. tmp' \in Timers \cup {Null}
    BY <1>0, <1>1, <1>6 DEF WheelType
  <2>2. inWheel' \subseteq Timers
    BY <1>0, <1>1 DEF WheelType
  <2>3. /\ slots' \in [0..N-1 -> Timers \cup {Null}] /\ prev' \in [Timers -> Timers \cup {Null}]
        /\ next' \in [Timers -> Timers \cup {Null}]
    BY <1>7
  <2>4. /\ cur_slot' \in 0..N-1 /\ rotation' \in [Timers -> Nat] /\ time_slot' \in [Timers -> 0..N-1]
        /\ ticking' \in BOOLEAN /\ ticks' \in Nat /\ due' \in [Timers -> Nat]
    BY <1>0, <1>1 DEF WheelType
  <2>. QED  BY <2>1, <2>2, <2>3, <2>4 DEF WheelType
<1>9. /\ \A i \in 1..k - 1 : r[i] = q[i]
      /\ \A i \in k..n - 1 : r[i] = q[i + 1]
  BY <1>4 DEF Removed
<1>. HIDE DEF r
<1>10. ASSUME NEW i \in 1..n - 1
       PROVE  due[r[i]] = ticks + rotation[r[i]] * N + (IF i < k THEN N ELSE 0)
  <2>1. CASE i < k
    <3>. i \in 1..k - 1 /\ i \in 1..n
      BY <1>4, <2>1
    <3>. QED  BY <1>5, <1>9
  <2>2. CASE i >= k
    <3>. i \in k..n - 1 /\ i + 1 \in 1..n /\ ~ (i + 1 < k) /\ ~ (i < k)
      BY <1>4, <2>2
    <3>. QED  BY <1>5, <1>9
  <2>. QED  BY <1>4, <2>1, <2>2
<1>11. tmp' = IF k = (n - 1) + 1 THEN Null ELSE r[k]
  <2>1. k # n => k \in k..n - 1
    BY <1>4
  <2>. QED  BY <1>1, <1>4, <1>9, <2>1
<1>12. WalkInv'
  <2>1. n - 1 \in Nat /\ k \in 1..(n - 1) + 1
    BY <1>4
  <2>2. Walking(r, n - 1, k)'
    BY <1>1, <1>7, <1>10, <1>11, <2>1 DEF Walking
  <2>. QED  BY <2>1, <2>2 DEF WalkInv
<1>13. TimeInv'
  BY <1>0, <1>1 DEF TimeInv
<1>14. Wheel!Queue!Fire(tmp)
  <2>1. due[tmp] = ticks
    <3>1. due[tmp] = ticks + 0 * N + 0 /\ 0 * N = 0 /\ ticks \in Nat
      <4>1. due[q[k]] = ticks + rotation[q[k]] * N + (IF k < k THEN N ELSE 0)
        BY <1>4, <1>5
      <4>. QED  BY <1>0, <1>1, <1>4, <4>1, Products DEF WheelType
    <3>. QED  BY <3>1
  <2>2. \A u \in inWheel : due[u] >= ticks
    BY <1>0, <1>1, <1>3, WhatIsLeft
  <2>3. /\ ticks # Null /\ ticks \in Nat
        /\ \A u \in inWheel : due[tmp] <= due[u]
    BY <1>0, <2>1, <2>2 DEF WheelType
  <2>. QED  BY <1>1, <1>4, <2>1, <2>3 DEF Wheel!Queue!Fire
<1>. QED  BY <1>6, <1>7, <1>8, <1>12, <1>13, <1>14 DEF WheelInv

LEMMA EndStep ==
  ASSUME WheelInv, Wheel!TickEnd
  PROVE  WheelInv' /\ Wheel!Queue!EndTick
<1>. USE WheelFacts
<1>0. WheelType /\ ChainsInv /\ WalkInv /\ TimeInv
  BY DEF WheelInv
<1>1. /\ ticking /\ tmp = Null /\ cur_slot' = (cur_slot + 1) % N
      /\ ticking' = FALSE /\ ticks' = ticks + 1
      /\ UNCHANGED <<slots, prev, next, rotation, time_slot, inWheel, tmp, due>>
  BY DEF Wheel!TickEnd, Wheel!fields
<1>2. cur_slot \in 0..N - 1 /\ ticks \in Nat
  BY <1>0 DEF WheelType
<1>3. cur_slot' \in 0..N - 1
  BY <1>1, <1>2, Turned
<1>4. WheelType'
  <2>. ticks' \in Nat
    BY <1>1, <1>2
  <2>. QED  BY <1>0, <1>1, <1>3 DEF WheelType
<1>5. ChainsInv' /\ WalkInv'
  BY <1>0, <1>1 DEF ChainsInv, Holds, WalkInv
<1>6. PICK n \in Nat, k \in Nat : \E q : Walking(q, n, k)
  BY <1>0, <1>1 DEF WalkInv
<1>7. PICK q : Walking(q, n, k)
  BY <1>6
<1>8. k = n + 1
  <2>1. \A i \in 1..n : q[i] \in Timers
    BY <1>7 DEF Walking, Holds, IsChain
  <2>2. k # n + 1 => k \in 1..n /\ tmp = q[k]
    BY <1>7 DEF Walking
  <2>. QED  BY <1>1, <2>1, <2>2
<1>9. TimeInv'
  <2>. SUFFICES ASSUME NEW u \in inWheel
                PROVE  due[u] = ticks' + rotation[u] * N + AheadOf(cur_slot', time_slot[u])
    BY <1>1 DEF TimeInv
  <2>1. u \in Timers /\ rotation[u] * N \in Nat /\ time_slot[u] \in 0..N - 1
    BY <1>0, Products DEF WheelType
  <2>2. AheadOf(cur_slot', time_slot[u]) =
          IF time_slot[u] = cur_slot THEN N - 1 ELSE AheadOf(cur_slot, time_slot[u]) - 1
    BY <1>1, <1>2, <2>1, Turned
  <2>3. CASE time_slot[u] = cur_slot
    <3>1. PICK i \in 1..n : q[i] = u
      BY <1>7, <2>3 DEF Walking, Holds, Nodes
    <3>2. due[u] = ticks + rotation[u] * N + N
      BY <1>7, <1>8, <3>1 DEF Walking
    <3>. QED  BY <1>1, <1>2, <2>1, <2>2, <2>3, <3>2
  <2>4. CASE time_slot[u] # cur_slot
    <3>1. due[u] = ticks + rotation[u] * N + AheadOf(cur_slot, time_slot[u])
      BY <1>0, <2>4 DEF TimeInv
    <3>2. AheadOf(cur_slot, time_slot[u]) \in Nat
      BY <1>2, <2>1 DEF AheadOf
    <3>. QED  BY <1>1, <1>2, <2>1, <2>2, <2>4, <3>1, <3>2
  <2>. QED  BY <2>3, <2>4
<1>10. Wheel!Queue!EndTick
  <2>1. \A u \in inWheel : due[u] > ticks
    BY <1>0, <1>1, <1>7, <1>8, WhatIsLeft
  <2>2. ticks # Null
    BY <1>2
  <2>. QED  BY <1>1, <2>1, <2>2 DEF Wheel!Queue!EndTick
<1>. QED  BY <1>4, <1>5, <1>9, <1>10 DEF WheelInv

LEMMA WheelStep ==
  ASSUME WheelInv, [Wheel!Next]_(Wheel!vars)
  PROVE  WheelInv' /\ [Wheel!Queue!Next]_(Wheel!Queue!vars)
<1>1. ASSUME NEW t \in Timers, NEW wait \in 0..MaxTimeout, Wheel!Add(t, wait)
      PROVE  WheelInv' /\ Wheel!Queue!Next
  BY <1>1, AddStep DEF Wheel!Queue!Next
<1>2. ASSUME NEW t \in Timers, Wheel!Delete(t) PROVE WheelInv' /\ Wheel!Queue!Next
  BY <1>2, DeleteStep DEF Wheel!Queue!Next
<1>3. CASE Wheel!TickBegin
  BY <1>3, BeginStep DEF Wheel!Queue!Next
<1>4. CASE Wheel!TickPass
  BY <1>4, PassStep
<1>5. CASE Wheel!TickFire
  BY <1>5, FireStep DEF Wheel!Queue!Next
<1>6. CASE Wheel!TickEnd
  BY <1>6, EndStep DEF Wheel!Queue!Next
<1>7. CASE UNCHANGED Wheel!vars
  <2>1. UNCHANGED <<slots, cur_slot, prev, next, rotation, time_slot, inWheel, tmp, ticking, ticks, due>>
    BY <1>7 DEF Wheel!vars, Wheel!fields
  <2>2. WheelType' /\ TimeInv' /\ UNCHANGED Wheel!Queue!vars
    BY <2>1 DEF WheelInv, WheelType, TimeInv, Wheel!Queue!vars
  <2>3. ASSUME NEW s, NEW q, NEW n PROVE Holds(s, q, n)' <=> Holds(s, q, n)
    BY <2>1 DEF Holds
  <2>4. ChainsInv'
    BY <2>3 DEF WheelInv, ChainsInv
  <2>5. ASSUME NEW n, NEW k, NEW q, Walking(q, n, k) PROVE Walking(q, n, k)'
    BY <2>1, <2>5 DEF Walking, Holds
  <2>6. WalkInv'
    BY <2>1, <2>5 DEF WheelInv, WalkInv
  <2>. QED  BY <2>2, <2>4, <2>6 DEF WheelInv
<1>. QED  BY <1>1, <1>2, <1>3, <1>4, <1>5, <1>6, <1>7 DEF Wheel!Next

(* Every behaviour of the wheel keeps the invariant. *)
LEMMA WheelInvHolds == Wheel!Spec => []WheelInv
<1>1. Wheel!Init => WheelInv
  BY WheelInitially
<1>2. WheelInv /\ [Wheel!Next]_(Wheel!vars) => WheelInv'
  BY WheelStep
<1>. QED  BY <1>1, <1>2, PTL DEF Wheel!Spec

(* time_wheel implements the timer queue: a timer fires in the tick its    *)
(* timeout says, whatever the position of the wheel when it was added, and *)
(* however many turns it had to wait (time_wheel_timer.h:42-144).          *)
LEMMA WheelIsQueue == Wheel!Spec => Wheel!WheelImplementsQueue
<1>1. Wheel!Init => Wheel!Queue!Init
  BY WheelInitially
<1>2. WheelInv /\ [Wheel!Next]_(Wheel!vars) => [Wheel!Queue!Next]_(Wheel!Queue!vars)
  BY WheelStep
<1>. QED  BY <1>1, <1>2, WheelInvHolds, PTL DEF Wheel!Spec, Wheel!Queue!Spec, Wheel!WheelImplementsQueue

-----------------------------------------------------------------------------
(* Cardinality is the same operator inside the instance and outside.       *)
LEMMA SameCardinality == Wheel!Cardinality(Timers) = Cardinality(Timers)
BY DEF Wheel!Cardinality, Cardinality

(* What InSlot finds is what the list holds: the next links, followed as   *)
(* often as there are timers, reach every timer of it.                     *)
SlotReach(s) ==
  CHOOSE reach : reach = [n \in 0..Cardinality(Timers) |->
                            IF n = 0 THEN {slots[s]} \ {Null}
                            ELSE reach[n - 1] \cup ({next[t] : t \in reach[n - 1]} \ {Null})]

LEMMA InSlotIsReach == ASSUME NEW s PROVE Wheel!InSlot(s) = SlotReach(s)[Cardinality(Timers)]
BY SameCardinality DEF Wheel!InSlot, SlotReach

LEMMA InSlotIs ==
  ASSUME NEW s, NEW n \in Nat, NEW q, IsChain(slots[s], prev, next, q, n)
  PROVE  Wheel!InSlot(s) = Nodes(q, n)
<1>. USE WheelFacts
<1>. DEFINE C == Cardinality(Timers)
            First(m) == {q[i] : i \in {k \in 1..n : k <= m + 1}}
            G(f) == [m \in 0..C |-> IF m = 0 THEN {slots[s]} \ {Null}
                                    ELSE f[m - 1] \cup ({next[t] : t \in f[m - 1]} \ {Null})]
            g == [m \in 0..C |-> First(m)]
<1>1. q \in [1..n -> Timers] /\ \A i, j \in 1..n : q[i] = q[j] => i = j
  BY DEF IsChain
<1>2. n <= C /\ C \in Nat
  BY <1>1, ListFits, WheelFacts
<1>. HIDE DEF C
<1>3. First(0) = {slots[s]} \ {Null}
  <2>1. CASE n = 0
    BY <2>1 DEF IsChain
  <2>2. CASE n # 0
    <3>1. 1 \in 1..n /\ slots[s] = q[1] /\ q[1] \in Timers /\ q[1] # Null
      BY <1>1, <2>2 DEF IsChain
    <3>2. {k \in 1..n : k <= 0 + 1} = {1}
      BY <3>1
    <3>. QED  BY <3>1, <3>2
  <2>. QED  BY <2>1, <2>2
<1>4. ASSUME NEW m \in Nat
      PROVE  First(m + 1) = First(m) \cup ({next[t] : t \in First(m)} \ {Null})
  <2>1. ASSUME NEW i \in 1..n
        PROVE  next[q[i]] = IF i = n THEN Null ELSE q[i + 1]
    BY DEF IsChain
  <2>2. ASSUME NEW x \in First(m + 1) PROVE x \in First(m) \cup ({next[t] : t \in First(m)} \ {Null})
    <3>1. PICK i \in 1..n : i <= m + 1 + 1 /\ x = q[i]
      OBVIOUS
    <3>2. CASE i <= m + 1
      BY <3>1, <3>2
    <3>3. CASE i > m + 1
      <4>1. i - 1 \in 1..n /\ i - 1 <= m + 1 /\ i - 1 # n /\ i - 1 + 1 = i
        BY <3>1, <3>3
      <4>2. next[q[i - 1]] = x /\ x # Null /\ q[i - 1] \in First(m)
        BY <1>1, <2>1, <3>1, <4>1
      <4>. QED  BY <4>2
    <3>. QED  BY <3>2, <3>3
  <2>3. ASSUME NEW x \in First(m) \cup ({next[t] : t \in First(m)} \ {Null}) PROVE x \in First(m + 1)
    <3>1. CASE x \in First(m)
      BY <3>1
    <3>2. CASE x \notin First(m)
      <4>1. PICK i \in 1..n : i <= m + 1 /\ x = next[q[i]] /\ x # Null
        BY <3>2
      <4>2. i + 1 \in 1..n /\ i + 1 <= m + 1 + 1 /\ x = q[i + 1]
        BY <2>1, <4>1
      <4>. QED  BY <4>2
    <3>. QED  BY <3>1, <3>2
  <2>. QED  BY <2>2, <2>3
<1>. HIDE DEF First
<1>5. g = G(g)
  <2>1. ASSUME NEW m \in 0..C, m # 0
        PROVE  g[m] = g[m - 1] \cup ({next[t] : t \in g[m - 1]} \ {Null})
    <3>1. m - 1 \in Nat /\ m - 1 \in 0..C /\ m - 1 + 1 = m
      BY <1>2, <2>1
    <3>. QED  BY <1>4, <3>1
  <2>. QED  BY <1>2, <1>3, <2>1
<1>. DEFINE R == SlotReach(s)
<1>6. R = G(R)
  <2>1. \E f : f = G(f)
    <3>. HIDE DEF g
    <3>. QED  BY <1>5
  <2>2. R = CHOOSE f : f = G(f)
    BY DEF SlotReach, C
  <2>. HIDE DEF G, R
  <2>. QED  BY <2>1, <2>2
<1>7. /\ R[0] = First(0)
      /\ \A m \in 0..C : m # 0 => R[m] = R[m - 1] \cup ({next[t] : t \in R[m - 1]} \ {Null})
  <2>. HIDE DEF R, g
  <2>1. \A m \in 0..C : R[m] = IF m = 0 THEN {slots[s]} \ {Null}
                                ELSE R[m - 1] \cup ({next[t] : t \in R[m - 1]} \ {Null})
    <3>1. R = [m \in 0..C |-> IF m = 0 THEN {slots[s]} \ {Null}
                               ELSE R[m - 1] \cup ({next[t] : t \in R[m - 1]} \ {Null})]
      BY Zenon, <1>6 DEF G
    <3>. QED  BY <3>1
  <2>2. 0 \in 0..C
    BY <1>2
  <2>3. R[0] = First(0)
    BY <1>3, <2>1, <2>2
  <2>. QED  BY <2>1, <2>3
<1>. HIDE DEF R, G, g
<1>. DEFINE B == {m \in 0..C : R[m] # First(m)}
<1>8. B = {}
  <2>. SUFFICES ASSUME B # {} PROVE FALSE
    OBVIOUS
  <2>1. B \in SUBSET Nat
    BY <1>2
  <2>2. PICK m \in B : \A l \in B : m <= l
    BY <2>1, LeastExists
  <2>3. m \in 0..C /\ R[m] # First(m) /\ m # 0
    BY <1>7, <2>2
  <2>4. m - 1 \in Nat /\ m - 1 \in 0..C /\ m - 1 + 1 = m /\ ~(m <= m - 1)
    BY <1>2, <2>3
  <2>5. R[m - 1] = First(m - 1)
    BY <2>2, <2>4
  <2>6. R[m] = First(m - 1) \cup ({next[t] : t \in First(m - 1)} \ {Null})
    BY <1>7, <2>3, <2>5
  <2>7. First(m) = First(m - 1) \cup ({next[t] : t \in First(m - 1)} \ {Null})
    BY <1>4, <2>4
  <2>. QED  BY <2>3, <2>6, <2>7
<1>9. R[C] = First(C)
  BY <1>2, <1>8
<1>10. First(C) = Nodes(q, n)
  <2>1. {k \in 1..n : k <= C + 1} = 1..n
    BY <1>2
  <2>. QED  BY <2>1 DEF First, Nodes
<1>. QED  BY <1>9, <1>10, InSlotIsReach DEF R, C

LEMMA WheelInvIntact == WheelInv => Wheel!WheelIntact
<1>. SUFFICES ASSUME WheelInv PROVE Wheel!WheelIntact
  OBVIOUS
<1>. USE WheelFacts
<1>0. WheelType /\ ChainsInv
  BY DEF WheelInv
<1>1. ASSUME NEW s \in 0..N-1 PROVE Wheel!InSlot(s) = {t \in inWheel : time_slot[t] = s}
  <2>1. PICK n \in Nat : \E q : Holds(s, q, n)
    BY <1>0, <1>1 DEF ChainsInv
  <2>2. PICK q : Holds(s, q, n)
    BY <2>1
  <2>3. IsChain(slots[s], prev, next, q, n) /\ Nodes(q, n) = {t \in inWheel : time_slot[t] = s}
    BY <2>2 DEF Holds
  <2>4. Wheel!InSlot(s) = Nodes(q, n)
    BY <2>3, InSlotIs
  <2>. QED  BY <2>3, <2>4
<1>2. ASSUME NEW t \in inWheel
      PROVE  /\ next[t] # Null => prev[next[t]] = t
             /\ IF slots[time_slot[t]] = t THEN prev[t] = Null ELSE next[prev[t]] = t
  <2>1. time_slot[t] \in 0..N-1 /\ t # Null
    BY <1>0 DEF WheelType
  <2>2. PICK n \in Nat : \E q : Holds(time_slot[t], q, n)
    BY <1>0, <2>1 DEF ChainsInv
  <2>3. PICK q : Holds(time_slot[t], q, n)
    BY <2>2
  <2>4. PICK i \in 1..n : q[i] = t
    BY <2>3 DEF Holds, Nodes
  <2>5. /\ q \in [1..n -> Timers] /\ \A m, j \in 1..n : q[m] = q[j] => m = j
        /\ 1 \in 1..n /\ slots[time_slot[t]] = q[1]
    BY <2>3, <2>4 DEF Holds, IsChain
  <2>6. \A m \in 1..n : /\ prev[q[m]] = IF m = 1 THEN Null ELSE q[m - 1]
                        /\ next[q[m]] = IF m = n THEN Null ELSE q[m + 1]
    BY <2>3 DEF Holds, IsChain
  <2>7. next[t] # Null => prev[next[t]] = t
    <3>. SUFFICES ASSUME i # n PROVE prev[q[i + 1]] = q[i] /\ next[t] = q[i + 1]
      BY <2>4, <2>6
    <3>1. i + 1 \in 1..n /\ i + 1 # 1 /\ i + 1 - 1 = i
      OBVIOUS
    <3>. QED  BY <2>4, <2>6, <3>1
  <2>8. IF slots[time_slot[t]] = t THEN prev[t] = Null ELSE next[prev[t]] = t
    <3>1. CASE i = 1
      BY <2>4, <2>5, <2>6, <3>1
    <3>2. CASE i # 1
      <4>1. i - 1 \in 1..n /\ i - 1 # n /\ i - 1 + 1 = i
        BY <3>2
      <4>2. prev[t] = q[i - 1] /\ next[q[i - 1]] = t /\ slots[time_slot[t]] # t
        BY <2>4, <2>5, <2>6, <3>2, <4>1
      <4>. QED  BY <4>2
    <3>. QED  BY <3>1, <3>2
  <2>. QED  BY <2>7, <2>8
<1>. QED  BY <1>1, <1>2 DEF Wheel!WheelIntact

(* The lists of the slots stay what del_timer needs, which finds the list  *)
(* by time_slot and the neighbours by the links: every timer that exists   *)
(* is in the list of its slot and in no other, and the links mirror each   *)
(* other (time_wheel_timer.h:76-139).                                      *)
LEMMA WheelStaysIntact == Wheel!Spec => []Wheel!WheelIntact
BY WheelInvHolds, WheelInvIntact, PTL

-----------------------------------------------------------------------------
(* The cells of a heap are a tree: the parent of cell j, and the order of  *)
(* the edges below cell k.                                                 *)
Parent(j) == (j - 1) \div 2

Ordered(A, e, n, k) == \A j \in 1..n - 1 : Parent(j) >= k => e[A[Parent(j)]] <= e[A[j]]

Segment(A, i, n) == {A[j] : j \in i..n - 1}

Distinct(A, i, n) == \A j, k \in i..n - 1 : A[j] = A[k] => j = k

(* An array of c cells, the first n of them in use. *)
IsArray(A, c, n) == A \in [0..c - 1 -> Timers \cup {Null}] /\ \A j \in 0..n - 1 : A[j] \in Timers

LEMMA ParentIs ==
  ASSUME NEW j \in Nat \ {0}
  PROVE  /\ Parent(j) \in Nat /\ Parent(j) < j
         /\ j = 2 * Parent(j) + 1 \/ j = 2 * Parent(j) + 2
BY DEF Parent

LEMMA ParentOf == ASSUME NEW i \in Nat PROVE Parent(2 * i + 1) = i /\ Parent(2 * i + 2) = i
BY DEF Parent

(* The child that percolate_down takes is the earlier one.                 *)
LEMMA ChildIs ==
  ASSUME NEW c \in Nat, NEW n \in 0..c, NEW A, IsArray(A, c, n), NEW e \in [Timers -> Nat],
         NEW i \in 0..n - 1, 2 * i + 1 <= n - 1
  PROVE  LET k == Heap!Child(A, e, n, i)
         IN  /\ k \in i + 1..n - 1 /\ Parent(k) = i
             /\ \A j \in 1..n - 1 : Parent(j) = i => e[A[k]] <= e[A[j]]
<1>. DEFINE k == Heap!Child(A, e, n, i)
            l == 2 * i + 1
<1>1. l \in i + 1..n - 1 /\ A[l] \in Timers /\ e[A[l]] \in Nat
  BY DEF IsArray
<1>2. CASE l < n - 1
  <2>1. l + 1 \in i + 1..n - 1 /\ l + 1 = 2 * i + 2 /\ e[A[l + 1]] \in Nat
    BY <1>1, <1>2 DEF IsArray
  <2>2. \A j \in 1..n - 1 : Parent(j) = i => j = l \/ j = l + 1
    BY ParentIs
  <2>3. k = IF e[A[l + 1]] < e[A[l]] THEN l + 1 ELSE l
    BY <1>2 DEF Heap!Child
  <2>. HIDE DEF l, k
  <2>4. Parent(l) = i /\ Parent(l + 1) = i
    BY ParentOf, <2>1 DEF l
  <2>. QED  BY <1>1, <2>1, <2>2, <2>3, <2>4 DEF k
<1>3. CASE ~(l < n - 1)
  <2>1. \A j \in 1..n - 1 : Parent(j) = i => j = l
    BY ParentIs, <1>3
  <2>2. k = l
    BY <1>3 DEF Heap!Child
  <2>3. Parent(l) = i
    BY ParentOf
  <2>. QED  BY <1>1, <2>1, <2>2, <2>3
<1>. QED  BY <1>2, <1>3

(* A function that calls itself further on exists: m measures how far the  *)
(* calls go on.                                                            *)
Descends(m, go, S) == \A i \in S : m[go[i]] < m[i]

Measures(m, K, B) == m \in [0..K -> Nat] /\ \A i \in 0..K : m[i] < B

IsDescent(K, T, stop, base, go, g, m, B) ==
  /\ K \in Nat /\ stop \in SUBSET (0..K)
  /\ base \in [0..K -> T] /\ go \in [0..K -> 0..K] /\ g \in [0..K -> [T -> T]]
  /\ B \in Nat /\ Measures(m, K, B)
  /\ Descends(m, go, (0..K) \ stop)

LEMMA DescentExists ==
  ASSUME NEW K, NEW T, NEW stop, NEW base, NEW go, NEW g, NEW m, NEW B,
         IsDescent(K, T, stop, base, go, g, m, B)
  PROVE  \E f \in [0..K -> T] :
           \A i \in 0..K : f[i] = IF i \in stop THEN base[i] ELSE g[i][f[go[i]]]
<1>0. /\ K \in Nat /\ stop \in SUBSET (0..K)
      /\ base \in [0..K -> T] /\ go \in [0..K -> 0..K] /\ g \in [0..K -> [T -> T]]
      /\ B \in Nat /\ m \in [0..K -> Nat] /\ \A i \in 0..K : m[i] < B
      /\ Descends(m, go, (0..K) \ stop)
  BY DEF IsDescent, Measures
<1>. DEFINE Rec(f, i) == IF i \in stop THEN base[i] ELSE g[i][f[go[i]]]
            Good(M) == \E f \in [0..K -> T] : \A i \in 0..K : m[i] < M => f[i] = Rec(f, i)
            Bad == {M \in Nat : ~Good(M)}
<1>1. Bad \in SUBSET Nat /\ \A M \in Nat : M \in Bad \/ Good(M)
  OBVIOUS
<1>2. \A M \in Bad : ~Good(M)
  OBVIOUS
<1>. HIDE DEF Bad, Good
<1>3. \A i \in 0..K : m[i] \in Nat /\ m[i] < B
  BY <1>0
<1>4. Good(0)
  <2>1. \A i \in 0..K : ~(m[i] < 0)
    BY <1>3
  <2>. HIDE DEF Rec
  <2>. QED  BY <1>0, <2>1, Zenon DEF Good
<1>5. ASSUME NEW M \in Nat \ {0}, Good(M - 1) PROVE Good(M)
  <2>1. PICK f \in [0..K -> T] : \A i \in 0..K : m[i] < M - 1 => f[i] = Rec(f, i)
    BY <1>5 DEF Good
  <2>. DEFINE f2 == [i \in 0..K |-> Rec(f, i)]
  <2>2. f2 \in [0..K -> T]
    BY <1>0
  <2>3. ASSUME NEW i \in 0..K, m[i] < M PROVE f2[i] = Rec(f2, i)
    <3>1. CASE i \in stop
      BY <3>1
    <3>2. CASE i \notin stop
      <4>1. go[i] \in 0..K /\ m[go[i]] < M - 1
        BY <1>0, <1>3, <2>3, <3>2 DEF Descends
      <4>2. f[go[i]] = f2[go[i]]
        BY <2>1, <4>1
      <4>. QED  BY <3>2, <4>2
    <3>. QED  BY <3>1, <3>2
  <2>. HIDE DEF f2, Rec
  <2>. QED  BY <2>2, <2>3 DEF Good
<1>6. Bad = {}
  <2>. SUFFICES ASSUME Bad # {} PROVE FALSE
    OBVIOUS
  <2>1. PICK M \in Bad : \A L \in Bad : M <= L
    BY <1>1, LeastExists
  <2>2. M \in Nat \ {0} /\ M - 1 \in Nat /\ ~(M <= M - 1)
    BY <1>1, <1>2, <1>4
  <2>. QED  BY <1>1, <1>2, <1>5, <2>1, <2>2
<1>7. Good(B)
  BY <1>0, <1>1, <1>6
<1>. QED  BY <1>3, <1>7 DEF Good

-----------------------------------------------------------------------------
(* percolate_down.  Sinks says that the timer t does not stay in cell i.   *)
Sinks(A, e, n, t, i) == 2 * i + 1 <= n - 1 /\ e[A[Heap!Child(A, e, n, i)]] < e[t]

Put(A, i, t) == [A EXCEPT ![i] = t]

SiftStep(A, e, n, t, f) ==
  [i \in DOMAIN A |->
     IF Sinks(A, e, n, t, i)
       THEN [f[Heap!Child(A, e, n, i)] EXCEPT ![i] = A[Heap!Child(A, e, n, i)]]
       ELSE [A EXCEPT ![i] = t]]

Sifting(A, e, n, t) == CHOOSE sift : sift = SiftStep(A, e, n, t, sift)

LEMMA PercolateDownIsSifting ==
  ASSUME NEW A, NEW e, NEW n, NEW h
  PROVE  Heap!PercolateDown(A, e, n, h) = Sifting(A, e, n, A[h])[h]
BY DEF Heap!PercolateDown, Sifting, SiftStep, Sinks

LEMMA SiftingIs ==
  ASSUME NEW c \in Nat \ {0}, NEW n \in 0..c, NEW A, IsArray(A, c, n), NEW e \in [Timers -> Nat],
         NEW t \in Timers, NEW i \in 0..c - 1
  PROVE  LET k == Heap!Child(A, e, n, i)
         IN  Sifting(A, e, n, t)[i] =
               IF Sinks(A, e, n, t, i) THEN Put(Sifting(A, e, n, t)[k], i, A[k]) ELSE Put(A, i, t)
<1>. DEFINE K == c - 1
            T == [0..K -> Timers \cup {Null}]
            stop == {j \in 0..K : ~Sinks(A, e, n, t, j)}
            base == [j \in 0..K |-> [A EXCEPT ![j] = t]]
            go == [j \in 0..K |-> IF j \in stop THEN j ELSE Heap!Child(A, e, n, j)]
            g == [j \in 0..K |-> [B \in T |-> [B EXCEPT ![j] = A[go[j]]]]]
            m == [j \in 0..K |-> c - j]
            S(f) == SiftStep(A, e, n, t, f)
<1>0. A \in T /\ K \in Nat /\ DOMAIN A = 0..K
  BY DEF IsArray
<1>1. ASSUME NEW j \in 0..K, j \notin stop
      PROVE  Heap!Child(A, e, n, j) \in 0..K /\ j < Heap!Child(A, e, n, j)
  <2>1. j \in 0..n - 1 /\ 2 * j + 1 <= n - 1
    BY <1>1 DEF Sinks
  <2>. QED  BY <2>1, ChildIs
<1>. HIDE DEF stop
<1>2. go \in [0..K -> 0..K]
  BY <1>1
<1>3. stop \in SUBSET (0..K)
  BY DEF stop
<1>4. base \in [0..K -> T]
  BY <1>0
<1>5. g \in [0..K -> [T -> T]]
  <2>1. \A j \in 0..K : A[go[j]] \in Timers \cup {Null}
    BY <1>0, <1>2
  <2>2. ASSUME NEW j \in 0..K, NEW B \in T PROVE [B EXCEPT ![j] = A[go[j]]] \in T
    <3>. HIDE DEF go
    <3>. QED  BY <2>1
  <2>. HIDE DEF go, T
  <2>. QED  BY <2>2
<1>6. Measures(m, K, c + 1)
  BY <1>0 DEF Measures
<1>7. Descends(m, go, (0..K) \ stop)
  BY <1>1 DEF Descends
<1>. HIDE DEF T
<1>8. PICK f \in [0..K -> T] : \A j \in 0..K : f[j] = IF j \in stop THEN base[j] ELSE g[j][f[go[j]]]
  <2>1. c + 1 \in Nat
    OBVIOUS
  <2>. HIDE DEF base, go, g, m, K
  <2>2. IsDescent(K, T, stop, base, go, g, m, c + 1)
    BY <1>0, <1>2, <1>3, <1>4, <1>5, <1>6, <1>7, <2>1 DEF IsDescent
  <2>. QED  BY <2>2, DescentExists
<1>9. f = S(f)
  <2>1. ASSUME NEW j \in 0..K PROVE f[j] = S(f)[j]
    <3>1. CASE j \in stop
      BY <1>0, <1>8, <3>1 DEF SiftStep, stop
    <3>2. CASE j \notin stop
      <4>1. f[go[j]] \in T /\ go[j] = Heap!Child(A, e, n, j)
        BY <1>1, <3>2
      <4>2. f[j] = [f[go[j]] EXCEPT ![j] = A[go[j]]]
        <5>. HIDE DEF go
        <5>. QED  BY <1>8, <3>2, <4>1
      <4>3. S(f)[j] = [f[Heap!Child(A, e, n, j)] EXCEPT ![j] = A[Heap!Child(A, e, n, j)]]
        BY <1>0, <3>2 DEF SiftStep, stop
      <4>. QED  BY <4>1, <4>2, <4>3
    <3>. QED  BY <3>1, <3>2
  <2>2. S(f) = [j \in 0..K |-> S(f)[j]]
    BY <1>0 DEF SiftStep
  <2>. HIDE DEF S, K
  <2>. QED  BY <2>1, <2>2
<1>10. Sifting(A, e, n, t) = CHOOSE w : w = S(w)
  BY DEF Sifting
<1>. HIDE DEF S
<1>11. Sifting(A, e, n, t) = S(Sifting(A, e, n, t))
  BY <1>9, <1>10
<1>. QED  BY <1>0, <1>11 DEF S, SiftStep, Put

(* What the loop does from the hole at i on: R is the array it leaves.     *)
Sunk(A, c, e, n, t, i, R) ==
  /\ IsArray(R, c, n)
  /\ \A j \in 0..c - 1 : j < i \/ j >= n \/ (j > i /\ Parent(j) < i) => R[j] = A[j]
  /\ Segment(R, i, n) = Segment(A, i + 1, n) \cup {t}
  /\ Distinct(A, i + 1, n) /\ t \notin Segment(A, i + 1, n) => Distinct(R, i, n)
  /\ R[i] = t \/ \E j \in i + 1..n - 1 : Parent(j) = i /\ R[i] = A[j]
  /\ Ordered(A, e, n, i + 1) => Ordered(R, e, n, i)

LEMMA SunkHere ==
  ASSUME NEW c \in Nat \ {0}, NEW n \in 0..c, NEW A, IsArray(A, c, n), NEW e \in [Timers -> Nat],
         NEW t \in Timers, NEW i \in 0..n - 1, ~Sinks(A, e, n, t, i)
  PROVE  Sunk(A, c, e, n, t, i, Put(A, i, t))
<1>. DEFINE R == Put(A, i, t)
<1>1. IsArray(R, c, n) /\ \A j \in 0..c - 1 : R[j] = IF j = i THEN t ELSE A[j]
  BY DEF IsArray, Put
<1>. HIDE DEF R
<1>2. i \in i..n - 1 /\ i \in 0..c - 1 /\ \A j \in i..n - 1 : j \in 0..c - 1 /\ (j = i \/ j \in i + 1..n - 1)
  OBVIOUS
<1>3. \A j \in i + 1..n - 1 : j \in i..n - 1 /\ j # i
  OBVIOUS
<1>4. Segment(R, i, n) = Segment(A, i + 1, n) \cup {t}
  BY <1>1, <1>2, <1>3 DEF Segment
<1>5. Distinct(A, i + 1, n) /\ t \notin Segment(A, i + 1, n) => Distinct(R, i, n)
  BY <1>1, <1>2, <1>3 DEF Segment, Distinct
<1>6. ASSUME Ordered(A, e, n, i + 1), NEW j \in 1..n - 1, Parent(j) >= i
      PROVE  e[R[Parent(j)]] <= e[R[j]]
  <2>1. /\ j \in 0..n - 1 /\ Parent(j) \in 0..n - 1 /\ Parent(j) < j
        /\ j = 2 * Parent(j) + 1 \/ j = 2 * Parent(j) + 2
    BY ParentIs
  <2>2. R[j] = A[j]
    BY <1>1, <1>6, <2>1
  <2>3. CASE Parent(j) = i
    <3>1. 2 * i + 1 <= n - 1
      BY <2>1, <2>3
    <3>. DEFINE k == Heap!Child(A, e, n, i)
    <3>2. k \in i + 1..n - 1 /\ e[A[k]] <= e[A[j]] /\ ~(e[A[k]] < e[t])
      BY <2>3, <3>1, ChildIs DEF Sinks
    <3>. HIDE DEF k
    <3>3. e[A[k]] \in Nat /\ e[A[j]] \in Nat /\ e[t] \in Nat
      <4>1. k \in 0..n - 1 /\ \A l \in 0..n - 1 : A[l] \in Timers
        BY <3>2 DEF IsArray
      <4>. QED  BY <2>1, <4>1
    <3>4. R[i] = t
      BY <1>1, <1>2
    <3>. QED  BY <2>2, <2>3, <3>2, <3>3, <3>4
  <2>4. CASE Parent(j) # i
    <3>1. Parent(j) >= i + 1 /\ R[Parent(j)] = A[Parent(j)]
      BY <1>1, <1>6, <2>1, <2>4
    <3>. QED  BY <1>6, <2>2, <3>1 DEF Ordered
  <2>. QED  BY <2>3, <2>4
<1>7. Ordered(A, e, n, i + 1) => Ordered(R, e, n, i)
  BY <1>6 DEF Ordered
<1>8. Sunk(A, c, e, n, t, i, R)
  BY <1>1, <1>2, <1>4, <1>5, <1>7 DEF Sunk
<1>. QED  BY <1>8 DEF R

LEMMA SunkThrough ==
  ASSUME NEW c \in Nat \ {0}, NEW n \in 0..c, NEW A, IsArray(A, c, n), NEW e \in [Timers -> Nat],
         NEW t \in Timers, NEW i \in 0..n - 1, Sinks(A, e, n, t, i),
         NEW S, Sunk(A, c, e, n, t, Heap!Child(A, e, n, i), S)
  PROVE  Sunk(A, c, e, n, t, i, Put(S, i, A[Heap!Child(A, e, n, i)]))
<1>. DEFINE k == Heap!Child(A, e, n, i)
            R == Put(S, i, A[k])
<1>1. /\ k \in i + 1..n - 1 /\ Parent(k) = i /\ e[A[k]] < e[t]
      /\ \A j \in 1..n - 1 : Parent(j) = i => e[A[k]] <= e[A[j]]
  BY ChildIs DEF Sinks
<1>. HIDE DEF k
<1>2. /\ IsArray(S, c, n)
      /\ \A j \in 0..c - 1 : j < k \/ j >= n \/ (j > k /\ Parent(j) < k) => S[j] = A[j]
      /\ Segment(S, k, n) = Segment(A, k + 1, n) \cup {t}
      /\ Distinct(A, k + 1, n) /\ t \notin Segment(A, k + 1, n) => Distinct(S, k, n)
      /\ S[k] = t \/ \E j \in k + 1..n - 1 : Parent(j) = k /\ S[k] = A[j]
      /\ Ordered(A, e, n, k + 1) => Ordered(S, e, n, k)
  BY DEF Sunk, k
<1>3. IsArray(R, c, n) /\ \A j \in 0..c - 1 : R[j] = IF j = i THEN A[k] ELSE S[j]
  BY <1>1, <1>2 DEF IsArray, Put
<1>. HIDE DEF R
<1>4. \A j \in i..n - 1 : j = i \/ j \in i + 1..k - 1 \/ j \in k..n - 1
  BY <1>1
<1>5. \A j \in i + 1..k - 1 : j \in 0..c - 1 /\ R[j] = A[j] /\ j \in i..n - 1 /\ j \in i + 1..n - 1
  BY <1>1, <1>2, <1>3
<1>6. \A j \in k..n - 1 : j \in 0..c - 1 /\ R[j] = S[j] /\ j \in i..n - 1 /\ j \in i + 1..n - 1
  BY <1>1, <1>3
<1>7. i \in i..n - 1 /\ R[i] = A[k]
  BY <1>3
<1>8. \A j \in i + 1..n - 1 : j = k \/ j \in i + 1..k - 1 \/ j \in k + 1..n - 1
  BY <1>1
<1>9. \A j \in k + 1..n - 1 : j \in i + 1..n - 1 /\ j # k
  BY <1>1
<1>10. Segment(R, i, n) = Segment(A, i + 1, n) \cup {t}
  <2>1. Segment(R, i, n) = {A[k]} \cup Segment(A, i + 1, k) \cup Segment(S, k, n)
    BY <1>4, <1>5, <1>6, <1>7 DEF Segment
  <2>2. Segment(A, i + 1, n) = {A[k]} \cup Segment(A, i + 1, k) \cup Segment(A, k + 1, n)
    BY <1>1, <1>5, <1>8, <1>9 DEF Segment
  <2>. QED  BY <1>2, <2>1, <2>2
<1>11. ASSUME Distinct(A, i + 1, n), t \notin Segment(A, i + 1, n) PROVE Distinct(R, i, n)
  <2>1. Distinct(S, k, n)
    BY <1>2, <1>9, <1>11 DEF Distinct, Segment
  <2>2. \A j \in k..n - 1 : S[j] = t \/ \E l \in k + 1..n - 1 : S[j] = A[l]
    BY <1>2 DEF Segment
  <2>3. \A j \in i..k - 1 : \E l \in i + 1..k : R[j] = A[l] /\ l = IF j = i THEN k ELSE j
    BY <1>1, <1>5, <1>7
  <2>4. \A j, l \in i..k - 1 : R[j] = R[l] => j = l
    BY <1>1, <1>11, <2>3 DEF Distinct
  <2>5. \A j \in i..k - 1, l \in k..n - 1 : R[j] # R[l]
    <3>. SUFFICES ASSUME NEW j \in i..k - 1, NEW l \in k..n - 1, R[j] = R[l] PROVE FALSE
      OBVIOUS
    <3>1. PICK q \in i + 1..k : R[j] = A[q]
      BY <2>3
    <3>2. q \in i + 1..n - 1
      BY <1>1
    <3>3. R[j] # t
      BY <1>11, <3>1, <3>2 DEF Segment
    <3>4. PICK r \in k + 1..n - 1 : R[l] = A[r]
      BY <1>6, <2>2, <3>3
    <3>5. r \in i + 1..n - 1 /\ q # r
      BY <1>1
    <3>. QED  BY <1>11, <3>1, <3>2, <3>4, <3>5 DEF Distinct
  <2>6. \A j \in i..n - 1 : j \in i..k - 1 \/ j \in k..n - 1
    BY <1>1
  <2>. QED  BY <1>6, <2>1, <2>4, <2>5, <2>6 DEF Distinct
<1>12. ASSUME Ordered(A, e, n, i + 1), NEW j \in 1..n - 1, Parent(j) >= i
       PROVE  e[R[Parent(j)]] <= e[R[j]]
  <2>1. /\ j \in 0..n - 1 /\ Parent(j) \in 0..n - 1 /\ Parent(j) < j
        /\ j \in 0..c - 1 /\ Parent(j) \in 0..c - 1
    BY ParentIs
  <2>2. Ordered(S, e, n, k)
    BY <1>1, <1>2, <1>12, ParentIs DEF Ordered
  <2>3. CASE Parent(j) = i
    <3>1. R[Parent(j)] = A[k] /\ e[A[k]] \in Nat /\ e[A[j]] \in Nat
      BY <1>1, <1>7, <2>1, <2>3 DEF IsArray
    <3>2. CASE j = k
      <4>1. R[j] = S[k]
        BY <1>6, <1>1, <3>2
      <4>2. CASE S[k] = t
        BY <1>1, <3>1, <4>1, <4>2
      <4>3. ASSUME NEW l \in k + 1..n - 1, Parent(l) = k, S[k] = A[l] PROVE e[A[k]] <= e[S[k]]
        <5>1. l \in 1..n - 1 /\ Parent(l) >= i + 1
          BY <1>1, <4>3
        <5>. QED  BY <1>12, <4>3, <5>1 DEF Ordered
      <4>4. e[A[k]] < e[t] => e[A[k]] <= e[t]
        BY <3>1 
      <4>. QED  BY <1>1, <1>2, <3>1, <4>1, <4>3, <4>4
    <3>3. CASE j # k
      <4>1. j < k \/ (j > k /\ Parent(j) < k)
        BY <1>1, <2>1, <2>3, <3>3
      <4>2. R[j] = A[j]
        BY <1>2, <1>3, <2>1, <2>3, <4>1
      <4>. QED  BY <1>1, <2>3, <3>1, <4>2
    <3>. QED  BY <3>2, <3>3
  <2>4. CASE Parent(j) > i /\ Parent(j) < k
    <3>1. j # k /\ j # i /\ Parent(j) # i
      BY <1>1, <2>1, <2>4
    <3>2. R[j] = A[j]
      <4>1. j < k \/ (j > k /\ Parent(j) < k)
        BY <1>1, <2>1, <2>4, <3>1
      <4>. QED  BY <1>2, <1>3, <2>1, <3>1, <4>1
    <3>3. R[Parent(j)] = A[Parent(j)] /\ Parent(j) >= i + 1
      BY <1>2, <1>3, <2>1, <2>4, <3>1
    <3>. QED  BY <1>12, <3>2, <3>3 DEF Ordered
  <2>5. CASE Parent(j) >= k
    <3>1. R[j] = S[j] /\ R[Parent(j)] = S[Parent(j)]
      BY <1>1, <1>3, <2>1, <2>5
    <3>. QED  BY <2>2, <2>5, <3>1 DEF Ordered
  <2>. QED  BY <1>1, <1>12, <2>1, <2>3, <2>4, <2>5
<1>13. Ordered(A, e, n, i + 1) => Ordered(R, e, n, i)
  BY <1>12 DEF Ordered
<1>14. \A j \in 0..c - 1 : j < i \/ j >= n \/ (j > i /\ Parent(j) < i) => R[j] = A[j]
  <2>. SUFFICES ASSUME NEW j \in 0..c - 1, j < i \/ j >= n \/ (j > i /\ Parent(j) < i) PROVE R[j] = A[j]
    OBVIOUS
  <2>1. j # i /\ j # k /\ (j \in Nat \ {0} => Parent(j) \in Nat)
    BY <1>1, ParentIs
  <2>2. j < k \/ j >= n \/ (j > k /\ Parent(j) < k)
    BY <1>1, <2>1
  <2>. QED  BY <1>2, <1>3, <2>1, <2>2
<1>15. \E j \in i + 1..n - 1 : Parent(j) = i /\ R[i] = A[j]
  BY <1>1, <1>7
<1>16. Sunk(A, c, e, n, t, i, R)
  BY <1>3, <1>10, <1>11, <1>13, <1>14, <1>15 DEF Sunk
<1>. QED  BY <1>16 DEF R, k

LEMMA SiftingSinks ==
  ASSUME NEW c \in Nat \ {0}, NEW n \in 0..c, NEW A, IsArray(A, c, n), NEW e \in [Timers -> Nat],
         NEW t \in Timers
  PROVE  \A i \in 0..n - 1 : Sunk(A, c, e, n, t, i, Sifting(A, e, n, t)[i])
<1>. DEFINE Bad == {m \in Nat : n - m \in 0..n - 1 /\ ~Sunk(A, c, e, n, t, n - m, Sifting(A, e, n, t)[n - m])}
<1>1. SUFFICES ASSUME Bad # {} PROVE FALSE
  <2>. SUFFICES ASSUME NEW i \in 0..n - 1, ~Sunk(A, c, e, n, t, i, Sifting(A, e, n, t)[i]) PROVE Bad # {}
    OBVIOUS
  <2>1. n - i \in Nat /\ n - (n - i) = i
    OBVIOUS
  <2>. QED  BY <2>1
<1>2. PICK m \in Bad : \A l \in Bad : m <= l
  <2>1. Bad \in SUBSET Nat
    OBVIOUS
  <2>. HIDE DEF Bad
  <2>. QED  BY <1>1, <2>1, LeastExists
<1>. DEFINE i == n - m
            k == Heap!Child(A, e, n, i)
<1>3. i \in 0..n - 1 /\ m \in Nat /\ m = n - i /\ ~Sunk(A, c, e, n, t, i, Sifting(A, e, n, t)[i]) /\ i \in 0..c - 1
  BY <1>2
<1>4. ASSUME NEW j \in i + 1..n - 1 PROVE Sunk(A, c, e, n, t, j, Sifting(A, e, n, t)[j])
  <2>1. n - j \in Nat /\ n - (n - j) = j /\ ~(m <= n - j) /\ j \in 0..n - 1
    BY <1>3
  <2>. QED  BY <1>2, <2>1
<1>. HIDE DEF Bad, i
<1>5. Sifting(A, e, n, t)[i] =
        IF Sinks(A, e, n, t, i) THEN Put(Sifting(A, e, n, t)[k], i, A[k]) ELSE Put(A, i, t)
  BY <1>3, SiftingIs
<1>. HIDE DEF k
<1>6. CASE Sinks(A, e, n, t, i)
  <2>1. k \in i + 1..n - 1
    BY <1>3, <1>6, ChildIs DEF Sinks, k
  <2>2. Sunk(A, c, e, n, t, k, Sifting(A, e, n, t)[k])
    BY <1>4, <2>1
  <2>3. Sunk(A, c, e, n, t, i, Put(Sifting(A, e, n, t)[k], i, A[k]))
    BY <1>3, <1>6, <2>2, SunkThrough DEF k
  <2>. QED  BY <1>3, <1>5, <1>6, <2>3
<1>7. CASE ~Sinks(A, e, n, t, i)
  BY <1>3, <1>5, <1>7, SunkHere
<1>. QED  BY <1>6, <1>7

(* percolate_down on the subtree of h: the timers stay the same ones, and  *)
(* the subtree becomes a heap when its children were heaps.                *)
LEMMA PercolateDownIs ==
  ASSUME NEW c \in Nat \ {0}, NEW n \in 0..c, NEW A, IsArray(A, c, n), NEW e \in [Timers -> Nat],
         NEW h \in 0..n - 1
  PROVE  LET R == Heap!PercolateDown(A, e, n, h)
         IN  /\ IsArray(R, c, n)
             /\ \A j \in n..c - 1 : R[j] = A[j]
             /\ Segment(R, 0, n) = Segment(A, 0, n)
             /\ Distinct(A, 0, n) => Distinct(R, 0, n)
             /\ Ordered(A, e, n, h + 1) => Ordered(R, e, n, h)
<1>. DEFINE t == A[h]
            R == Heap!PercolateDown(A, e, n, h)
<1>1. t \in Timers
  BY DEF IsArray
<1>2. R = Sifting(A, e, n, t)[h]
  BY PercolateDownIsSifting
<1>. HIDE DEF R
<1>3. Sunk(A, c, e, n, t, h, R)
  BY <1>1, <1>2, SiftingSinks
<1>4. /\ IsArray(R, c, n)
      /\ \A j \in 0..c - 1 : j < h \/ j >= n \/ (j > h /\ Parent(j) < h) => R[j] = A[j]
      /\ Segment(R, h, n) = Segment(A, h + 1, n) \cup {t}
      /\ Distinct(A, h + 1, n) /\ t \notin Segment(A, h + 1, n) => Distinct(R, h, n)
      /\ Ordered(A, e, n, h + 1) => Ordered(R, e, n, h)
  BY <1>3 DEF Sunk
<1>5. \A j \in 0..n - 1 : j \in 0..h - 1 \/ j \in h..n - 1
  OBVIOUS
<1>6. \A j \in 0..h - 1 : R[j] = A[j] /\ j \in 0..n - 1
  BY <1>4
<1>7. \A j \in h..n - 1 : j \in 0..n - 1
  OBVIOUS
<1>8. Segment(A, h, n) = Segment(A, h + 1, n) \cup {t}
  <2>1. \A j \in h..n - 1 : j = h \/ j \in h + 1..n - 1
    OBVIOUS
  <2>2. h \in h..n - 1 /\ \A j \in h + 1..n - 1 : j \in h..n - 1
    OBVIOUS
  <2>. QED  BY <2>1, <2>2 DEF Segment
<1>9. Segment(R, h, n) = Segment(A, h, n)
  BY <1>4, <1>8
<1>. HIDE DEF t
<1>10. Segment(R, 0, n) = Segment(A, 0, n)
  <2>1. Segment(R, 0, n) = Segment(R, 0, h) \cup Segment(R, h, n)
    BY <1>5, <1>6, <1>7 DEF Segment
  <2>2. Segment(A, 0, n) = Segment(A, 0, h) \cup Segment(A, h, n)
    BY <1>5, <1>6, <1>7 DEF Segment
  <2>3. Segment(R, 0, h) = Segment(A, 0, h)
    BY <1>6 DEF Segment
  <2>. QED  BY <1>9, <2>1, <2>2, <2>3
<1>11. ASSUME Distinct(A, 0, n) PROVE Distinct(R, 0, n)
  <2>1. Distinct(A, h + 1, n) /\ t \notin Segment(A, h + 1, n)
    <3>1. h \in 0..n - 1 /\ \A j \in h + 1..n - 1 : j \in 0..n - 1 /\ j # h
      OBVIOUS
    <3>. QED  BY <1>11, <3>1 DEF Distinct, Segment, t
  <2>2. Distinct(R, h, n)
    BY <1>4, <2>1
  <2>3. \A j \in 0..h - 1, k \in h..n - 1 : R[j] # R[k]
    <3>. SUFFICES ASSUME NEW j \in 0..h - 1, NEW k \in h..n - 1, R[j] = R[k] PROVE FALSE
      OBVIOUS
    <3>1. PICK l \in h..n - 1 : R[k] = A[l]
      BY <1>9 DEF Segment
    <3>2. j # l
      OBVIOUS
    <3>. QED  BY <1>6, <1>7, <1>11, <3>1, <3>2 DEF Distinct
  <2>4. \A j, k \in 0..h - 1 : R[j] = R[k] => j = k
    BY <1>6, <1>11 DEF Distinct
  <2>. QED  BY <1>5, <2>2, <2>3, <2>4 DEF Distinct
<1>12. \A j \in n..c - 1 : R[j] = A[j]
  BY <1>4
<1>. QED  BY <1>4, <1>10, <1>11, <1>12 DEF R

-----------------------------------------------------------------------------
(* The second constructor. *)
HeapifyStep(A, e, n, f) ==
  [i \in 0..n |-> IF i > (n - 1) \div 2 THEN A ELSE Heap!PercolateDown(f[i + 1], e, n, i)]

Building(A, e, n) == CHOOSE built : built = HeapifyStep(A, e, n, built)

LEMMA HeapifyIsBuilding == ASSUME NEW A, NEW e, NEW n PROVE Heap!Heapify(A, e, n) = Building(A, e, n)[0]
BY DEF Heap!Heapify, Building, HeapifyStep

LEMMA BuildingIs ==
  ASSUME NEW c \in Nat \ {0}, NEW n \in 1..c, NEW A, IsArray(A, c, n), NEW e \in [Timers -> Nat],
         NEW i \in 0..n
  PROVE  Building(A, e, n)[i] =
           IF i > (n - 1) \div 2 THEN A ELSE Heap!PercolateDown(Building(A, e, n)[i + 1], e, n, i)
<1>. DEFINE T == {B \in [0..c - 1 -> Timers \cup {Null}] : IsArray(B, c, n)}
            last == (n - 1) \div 2
            stop == {j \in 0..n : j > last}
            base == [j \in 0..n |-> A]
            go == [j \in 0..n |-> IF j \in stop THEN j ELSE j + 1]
            g == [j \in 0..n |-> [B \in T |-> IF j \in stop THEN B ELSE Heap!PercolateDown(B, e, n, j)]]
            m == [j \in 0..n |-> n - j]
            S(f) == HeapifyStep(A, e, n, f)
<1>1. last \in 0..n - 1
  OBVIOUS
<1>. HIDE DEF last
<1>2. A \in T /\ \A B \in T : IsArray(B, c, n)
  BY DEF IsArray
<1>3. \A B : IsArray(B, c, n) => B \in T
  BY DEF IsArray
<1>. HIDE DEF T
<1>4. \A j \in 0..n : j \notin stop => j \in 0..n - 1 /\ j + 1 \in 0..n
  BY <1>1
<1>5. stop \in SUBSET (0..n) /\ base \in [0..n -> T] /\ Measures(m, n, n + 1)
  BY <1>2 DEF Measures
<1>6. go \in [0..n -> 0..n]
  BY <1>4
<1>7. g \in [0..n -> [T -> T]]
  <2>1. ASSUME NEW j \in 0..n, NEW B \in T, j \notin stop PROVE Heap!PercolateDown(B, e, n, j) \in T
    BY <1>2, <1>3, <1>4, <2>1, PercolateDownIs
  <2>. HIDE DEF stop
  <2>. QED  BY <2>1
<1>8. Descends(m, go, (0..n) \ stop)
  BY <1>4 DEF Descends
<1>9. n \in Nat /\ n + 1 \in Nat
  OBVIOUS
<1>10. PICK f \in [0..n -> T] : \A j \in 0..n : f[j] = IF j \in stop THEN base[j] ELSE g[j][f[go[j]]]
  <2>. HIDE DEF stop, base, go, g, m
  <2>. DEFINE K == n
  <2>1. IsDescent(K, T, stop, base, go, g, m, n + 1)
    BY <1>5, <1>6, <1>7, <1>8, <1>9 DEF IsDescent
  <2>. HIDE DEF K
  <2>2. \E f \in [0..K -> T] : \A j \in 0..K : f[j] = IF j \in stop THEN base[j] ELSE g[j][f[go[j]]]
    BY <2>1, DescentExists
  <2>. QED  BY <2>2 DEF K
<1>11. f = S(f)
  <2>1. ASSUME NEW j \in 0..n PROVE f[j] = S(f)[j]
    <3>1. CASE j \in stop
      BY <1>10, <3>1 DEF HeapifyStep, last
    <3>2. CASE j \notin stop
      <4>1. go[j] = j + 1 /\ f[j + 1] \in T /\ j + 1 \in 0..n
        BY <1>4, <3>2
      <4>2. f[j] = Heap!PercolateDown(f[j + 1], e, n, j)
        <5>. HIDE DEF go, stop
        <5>. QED  BY <1>10, <3>2, <4>1
      <4>3. S(f)[j] = Heap!PercolateDown(f[j + 1], e, n, j)
        BY <3>2 DEF HeapifyStep, last
      <4>. QED  BY <4>2, <4>3
    <3>. QED  BY <3>1, <3>2
  <2>2. S(f) = [j \in 0..n |-> S(f)[j]]
    BY DEF HeapifyStep
  <2>. HIDE DEF S
  <2>. QED  BY <2>1, <2>2
<1>12. Building(A, e, n) = CHOOSE w : w = S(w)
  BY DEF Building
<1>. HIDE DEF S
<1>13. Building(A, e, n) = S(Building(A, e, n))
  BY <1>11, <1>12
<1>. QED  BY <1>13 DEF S, HeapifyStep

(* Whatever array it is given, it makes a heap of the same timers.         *)
LEMMA HeapifyIs ==
  ASSUME NEW c \in Nat \ {0}, NEW n \in 1..c, NEW A, IsArray(A, c, n), NEW e \in [Timers -> Nat]
  PROVE  LET R == Heap!Heapify(A, e, n)
         IN  /\ IsArray(R, c, n)
             /\ Segment(R, 0, n) = Segment(A, 0, n)
             /\ Distinct(A, 0, n) => Distinct(R, 0, n)
             /\ Ordered(R, e, n, 0)
<1>. DEFINE b == Building(A, e, n)
            last == (n - 1) \div 2
            Built(i) == /\ IsArray(b[i], c, n) /\ Segment(b[i], 0, n) = Segment(A, 0, n)
                        /\ Distinct(A, 0, n) => Distinct(b[i], 0, n)
                        /\ Ordered(b[i], e, n, i)
            Bad == {m \in 0..n : ~Built(n - m)}
<1>1. last \in 0..n - 1 /\ \A j \in 1..n - 1 : Parent(j) <= last
  BY DEF Parent
<1>2. \A i \in 0..n : b[i] = IF i > last THEN A ELSE Heap!PercolateDown(b[i + 1], e, n, i)
  BY BuildingIs
<1>. HIDE DEF b, last
<1>3. ASSUME NEW i \in 0..n, i > last PROVE Built(i)
  <2>1. Ordered(A, e, n, i)
    BY <1>1, <1>3, ParentIs DEF Ordered
  <2>. QED  BY <1>2, <1>3, <2>1
<1>4. ASSUME NEW i \in 0..n - 1, Built(i + 1), ~(i > last) PROVE Built(i)
  <2>1. b[i] = Heap!PercolateDown(b[i + 1], e, n, i)
    BY <1>2, <1>4
  <2>. QED  BY <1>4, <2>1, PercolateDownIs
<1>. HIDE DEF Built
<1>5. Bad = {}
  <2>. SUFFICES ASSUME Bad # {} PROVE FALSE
    OBVIOUS
  <2>1. PICK m \in Bad : \A l \in Bad : m <= l
    <3>1. Bad \in SUBSET Nat
      OBVIOUS
    <3>. HIDE DEF Bad
    <3>. QED  BY <3>1, LeastExists
  <2>2. m \in 0..n /\ ~Built(n - m) /\ n - m \in 0..n
    OBVIOUS
  <2>3. ~(n - m > last)
    BY <1>3, <2>2
  <2>4. n - m \in 0..n - 1 /\ m - 1 \in 0..n /\ n - (m - 1) = n - m + 1 /\ ~(m <= m - 1)
    BY <1>1, <2>2, <2>3
  <2>5. Built(n - m + 1)
    BY <2>1, <2>4
  <2>. QED  BY <1>4, <2>2, <2>3, <2>4, <2>5
<1>6. Built(0)
  <2>1. n \in 0..n /\ n - n = 0
    OBVIOUS
  <2>. QED  BY <1>5, <2>1
<1>. QED  BY <1>6, HeapifyIsBuilding DEF Built, b

-----------------------------------------------------------------------------
(* add_timer's loop.  Rises says that t does not stay in cell i.           *)
Rises(A, e, t, i) == i > 0 /\ ~(e[A[Parent(i)]] <= e[t])

RaiseStep(A, e, t, h, f) ==
  [i \in 0..h |-> IF Rises(A, e, t, i) THEN [f[Parent(i)] EXCEPT ![i] = A[Parent(i)]]
                                       ELSE [A EXCEPT ![i] = t]]

Rising(A, e, t, h) == CHOOSE raise : raise = RaiseStep(A, e, t, h, raise)

LEMMA RaiseIsRising ==
  ASSUME NEW A, NEW e, NEW t, NEW h PROVE Heap!Raise(A, e, t, h) = Rising(A, e, t, h)[h]
BY DEF Heap!Raise, Rising, RaiseStep, Rises, Parent

LEMMA RisingIs ==
  ASSUME NEW c \in Nat \ {0}, NEW h \in 0..c - 1, NEW A, IsArray(A, c, h), NEW e \in [Timers -> Nat],
         NEW t \in Timers, NEW i \in 0..h
  PROVE  Rising(A, e, t, h)[i] =
           IF Rises(A, e, t, i) THEN Put(Rising(A, e, t, h)[Parent(i)], i, A[Parent(i)]) ELSE Put(A, i, t)
<1>. DEFINE T == [0..c - 1 -> Timers \cup {Null}]
            stop == {j \in 0..h : ~Rises(A, e, t, j)}
            base == [j \in 0..h |-> Put(A, j, t)]
            go == [j \in 0..h |-> IF j \in stop THEN j ELSE Parent(j)]
            g == [j \in 0..h |-> [B \in T |-> Put(B, j, A[go[j]])]]
            m == [j \in 0..h |-> j]
            S(f) == RaiseStep(A, e, t, h, f)
<1>1. A \in T
  BY DEF IsArray
<1>2. \A j \in 0..h : j \notin stop => Parent(j) \in 0..h /\ Parent(j) < j
  BY ParentIs DEF Rises
<1>. HIDE DEF stop
<1>3. stop \in SUBSET (0..h)
  BY DEF stop
<1>4. go \in [0..h -> 0..h]
  BY <1>2
<1>5. base \in [0..h -> T]
  BY <1>1 DEF Put
<1>6. g \in [0..h -> [T -> T]]
  <2>1. \A j \in 0..h : A[go[j]] \in Timers \cup {Null}
    BY <1>1, <1>4
  <2>2. ASSUME NEW j \in 0..h, NEW B \in T PROVE Put(B, j, A[go[j]]) \in T
    <3>. HIDE DEF go
    <3>. QED  BY <2>1 DEF Put
  <2>. HIDE DEF go, T
  <2>. QED  BY <2>2
<1>7. h \in Nat /\ h + 1 \in Nat /\ Measures(m, h, h + 1)
  BY DEF Measures
<1>8. Descends(m, go, (0..h) \ stop)
  BY <1>2 DEF Descends
<1>. HIDE DEF T
<1>9. PICK f \in [0..h -> T] : \A j \in 0..h : f[j] = IF j \in stop THEN base[j] ELSE g[j][f[go[j]]]
  <2>. HIDE DEF base, go, g, m
  <2>. DEFINE K == h
  <2>1. IsDescent(K, T, stop, base, go, g, m, h + 1)
    BY <1>3, <1>4, <1>5, <1>6, <1>7, <1>8 DEF IsDescent
  <2>. HIDE DEF K
  <2>2. \E f \in [0..K -> T] : \A j \in 0..K : f[j] = IF j \in stop THEN base[j] ELSE g[j][f[go[j]]]
    BY <2>1, DescentExists
  <2>. QED  BY <2>2 DEF K
<1>10. f = S(f)
  <2>1. ASSUME NEW j \in 0..h PROVE f[j] = S(f)[j]
    <3>1. CASE j \in stop
      BY <1>9, <3>1 DEF RaiseStep, stop, Put
    <3>2. CASE j \notin stop
      <4>1. f[go[j]] \in T /\ go[j] = Parent(j)
        BY <1>2, <3>2
      <4>2. f[j] = Put(f[go[j]], j, A[go[j]])
        <5>. HIDE DEF go
        <5>. QED  BY <1>9, <3>2, <4>1
      <4>3. S(f)[j] = [f[Parent(j)] EXCEPT ![j] = A[Parent(j)]]
        BY <3>2 DEF RaiseStep, stop
      <4>. QED  BY <4>1, <4>2, <4>3 DEF Put
    <3>. QED  BY <3>1, <3>2
  <2>2. S(f) = [j \in 0..h |-> S(f)[j]]
    BY DEF RaiseStep
  <2>. HIDE DEF S
  <2>. QED  BY <2>1, <2>2
<1>11. Rising(A, e, t, h) = CHOOSE w : w = S(w)
  BY DEF Rising
<1>. HIDE DEF S
<1>12. Rising(A, e, t, h) = S(Rising(A, e, t, h))
  BY <1>10, <1>11
<1>. QED  BY <1>12 DEF S, RaiseStep, Put

(* What the loop does from the hole at i on, in a heap of h cells.         *)
Risen(A, c, e, h, t, i, R) ==
  /\ IsArray(R, c, i + 1)
  /\ \A j \in 0..c - 1 : j > i => R[j] = A[j]
  /\ Segment(R, 0, i + 1) = Segment(A, 0, i) \cup {t}
  /\ Distinct(R, 0, i + 1)
  /\ R[i] = t \/ (i > 0 /\ R[i] = A[Parent(i)])
  /\ \A j \in 0..i - 1 : e[R[j]] <= e[A[j]]
  /\ Ordered(R, e, i + 1, 0)

LEMMA RisenHere ==
  ASSUME NEW c \in Nat \ {0}, NEW h \in 0..c - 1, NEW A, IsArray(A, c, h), NEW e \in [Timers -> Nat],
         NEW t \in Timers, Distinct(A, 0, h), t \notin Segment(A, 0, h), Ordered(A, e, h, 0),
         NEW i \in 0..h, ~Rises(A, e, t, i)
  PROVE  Risen(A, c, e, h, t, i, Put(A, i, t))
<1>. DEFINE R == Put(A, i, t)
<1>1. /\ IsArray(R, c, i + 1) /\ R[i] = t
      /\ \A j \in 0..c - 1 : j # i => R[j] = A[j]
  BY DEF IsArray, Put
<1>. HIDE DEF R
<1>2. \A j \in 0..i - 1 : R[j] = A[j] /\ j \in 0..i /\ j \in 0..h - 1 /\ e[A[j]] \in Nat
  BY <1>1 DEF IsArray
<1>3. i + 1 - 1 = i /\ i \in 0..i /\ \A j \in 0..i : j = i \/ j \in 0..i - 1
  OBVIOUS
<1>4. Segment(R, 0, i + 1) = Segment(A, 0, i) \cup {t}
  BY <1>1, <1>2, <1>3 DEF Segment
<1>5. Distinct(R, 0, i + 1)
  BY <1>1, <1>2, <1>3 DEF Segment, Distinct
<1>6. ASSUME NEW j \in 1..i + 1 - 1 PROVE e[R[Parent(j)]] <= e[R[j]]
  <2>1. Parent(j) \in 0..i - 1 /\ Parent(j) < j
    BY ParentIs
  <2>2. CASE j = i
    BY <1>1, <1>2, <2>1, <2>2 DEF Rises
  <2>3. CASE j # i
    <3>1. j \in 0..i - 1 /\ j \in 1..h - 1 /\ Parent(j) >= 0
      BY <2>1, <2>3
    <3>. QED  BY <1>2, <2>1, <3>1 DEF Ordered
  <2>. QED  BY <2>2, <2>3
<1>7. \A j \in 0..i - 1 : e[R[j]] <= e[A[j]]
  BY <1>2
<1>8. \A j \in 0..c - 1 : j > i => R[j] = A[j]
  BY <1>1
<1>9. Risen(A, c, e, h, t, i, R)
  BY <1>1, <1>4, <1>5, <1>6, <1>7, <1>8 DEF Risen, Ordered
<1>. QED  BY <1>9 DEF R

LEMMA RisenThrough ==
  ASSUME NEW c \in Nat \ {0}, NEW h \in 0..c - 1, NEW A, IsArray(A, c, h), NEW e \in [Timers -> Nat],
         NEW t \in Timers, Distinct(A, 0, h), t \notin Segment(A, 0, h), Ordered(A, e, h, 0),
         NEW i \in 0..h, Rises(A, e, t, i), NEW S, Risen(A, c, e, h, t, Parent(i), S)
  PROVE  Risen(A, c, e, h, t, i, Put(S, i, A[Parent(i)]))
<1>1. PICK p \in 0..h - 1 : p = Parent(i) /\ p \in 0..i - 1 /\ i > 0 /\ ~(e[A[p]] <= e[t])
  BY ParentIs DEF Rises
<1>. DEFINE R == Put(S, i, A[p])
<1>2. /\ IsArray(S, c, p + 1)
      /\ \A j \in 0..c - 1 : j > p => S[j] = A[j]
      /\ Segment(S, 0, p + 1) = Segment(A, 0, p) \cup {t}
      /\ Distinct(S, 0, p + 1)
      /\ S[p] = t \/ (p > 0 /\ S[p] = A[Parent(p)])
      /\ \A j \in 0..p - 1 : e[S[j]] <= e[A[j]]
      /\ Ordered(S, e, p + 1, 0)
  BY <1>1 DEF Risen
<1>3. \A j \in 0..h - 1 : A[j] \in Timers /\ e[A[j]] \in Nat
  BY DEF IsArray
<1>4. R \in [0..c - 1 -> Timers \cup {Null}] /\ \A j \in 0..c - 1 : R[j] = IF j = i THEN A[p] ELSE S[j]
  BY <1>1, <1>2, <1>3 DEF IsArray, Put
<1>. HIDE DEF R
<1>5. \A j \in 0..p : /\ R[j] = S[j] /\ S[j] \in Timers /\ j \in 0..c - 1 /\ j \in 0..i
                      /\ j \in 0..p + 1 - 1
  BY <1>1, <1>2, <1>4 DEF IsArray
<1>6. \A j \in p + 1..i - 1 : R[j] = A[j] /\ j \in 0..h - 1 /\ j \in 0..i /\ j # p
  BY <1>1, <1>2, <1>4
<1>7. R[i] = A[p] /\ i \in 0..c - 1 /\ i \in 0..i
  BY <1>4
<1>8. \A j \in 0..i : j \in 0..p \/ j \in p + 1..i - 1 \/ j = i
  BY <1>1
<1>9. i + 1 - 1 = i /\ p + 1 - 1 = p
  BY <1>1
<1>10. IsArray(R, c, i + 1)
  <2>1. ASSUME NEW j \in 0..i PROVE R[j] \in Timers
    BY <1>1, <1>3, <1>5, <1>6, <1>7, <1>8
  <2>. QED  BY <1>4, <1>9, <2>1 DEF IsArray
<1>11. \A j \in 0..c - 1 : j > i => R[j] = A[j]
  BY <1>1, <1>2, <1>4
<1>12. \A j \in 0..p : S[j] = t \/ \E l \in 0..p - 1 : S[j] = A[l]
  <2>1. \A j \in 0..p : S[j] \in Segment(A, 0, p) \cup {t}
    BY <1>2, <1>9 DEF Segment
  <2>. QED  BY <2>1 DEF Segment
<1>13. Segment(R, 0, i + 1) = Segment(A, 0, i) \cup {t}
  <2>. DEFINE middle == {A[j] : j \in p + 1..i - 1}
  <2>1. Segment(R, 0, i + 1) = Segment(S, 0, p + 1) \cup middle \cup {A[p]}
    BY <1>5, <1>6, <1>7, <1>8, <1>9 DEF Segment
  <2>2. Segment(A, 0, i) = Segment(A, 0, p) \cup middle \cup {A[p]}
    <3>1. \A j \in 0..i - 1 : j \in 0..p - 1 \/ j \in p + 1..i - 1 \/ j = p
      BY <1>1
    <3>2. p \in 0..i - 1 /\ \A j \in 0..p - 1 : j \in 0..i - 1
      BY <1>1
    <3>3. \A j \in p + 1..i - 1 : j \in 0..i - 1
      BY <1>1
    <3>. QED  BY <3>1, <3>2, <3>3 DEF Segment
  <2>. QED  BY <1>2, <2>1, <2>2
<1>14. Distinct(R, 0, i + 1)
  <2>1. \A j, k \in 0..p : R[j] = R[k] => j = k
    BY <1>2, <1>5 DEF Distinct
  <2>2. \A j \in p + 1..i : \E l \in p..i - 1 : R[j] = A[l] /\ l = IF j = i THEN p ELSE j
    BY <1>1, <1>6, <1>7
  <2>3. \A l \in p..i - 1 : l \in 0..h - 1
    BY <1>1
  <2>4. \A j, k \in p + 1..i : R[j] = R[k] => j = k
    BY <2>2, <2>3 DEF Distinct
  <2>5. ASSUME NEW j \in 0..p, NEW k \in p + 1..i PROVE R[j] # R[k]
    <3>1. PICK l \in p..i - 1 : R[k] = A[l]
      BY <2>2
    <3>2. l \in 0..h - 1 /\ A[l] # t
      BY <2>3 DEF Segment
    <3>3. \A r \in 0..p - 1 : r \in 0..h - 1 /\ r # l
      BY <1>1
    <3>. QED  BY <1>5, <1>12, <3>1, <3>2, <3>3 DEF Distinct
  <2>6. \A j \in 0..i : j \in 0..p \/ j \in p + 1..i
    BY <1>1
  <2>. QED  BY <1>9, <2>1, <2>4, <2>5, <2>6 DEF Distinct
<1>15. e[S[p]] <= e[A[p]] /\ e[S[p]] \in Nat
  <2>1. CASE S[p] = t
    BY <1>1, <1>3, <2>1
  <2>2. CASE p > 0 /\ S[p] = A[Parent(p)]
    <3>1. p \in 1..h - 1 /\ Parent(p) >= 0 /\ Parent(p) \in 0..h - 1
      BY <1>1, <2>2, ParentIs
    <3>. QED  BY <1>3, <2>2, <3>1 DEF Ordered
  <2>. QED  BY <1>2, <2>1, <2>2
<1>16. \A j \in 0..i - 1 : e[R[j]] <= e[A[j]]
  <2>1. \A j \in 0..i - 1 : j \in 0..p - 1 \/ j \in p + 1..i - 1 \/ j = p
    BY <1>1
  <2>2. \A j \in 0..p - 1 : j \in 0..p
    BY <1>1
  <2>3. p \in 0..p
    BY <1>1
  <2>. QED  BY <1>2, <1>3, <1>5, <1>6, <1>15, <2>1, <2>2, <2>3
<1>17. ASSUME NEW j \in 1..i + 1 - 1 PROVE e[R[Parent(j)]] <= e[R[j]]
  <2>1. Parent(j) \in 0..i - 1 /\ Parent(j) < j /\ j \in 0..i /\ Parent(j) >= 0
    BY ParentIs
  <2>2. CASE j \in 0..p
    <3>1. j \in 1..p + 1 - 1 /\ Parent(j) \in 0..p
      BY <1>1, <2>1, <2>2
    <3>. QED  BY <1>2, <1>5, <2>1, <2>2, <3>1 DEF Ordered
  <2>3. CASE j \in p + 1..i - 1
    <3>1. j \in 1..h - 1 /\ Parent(j) \in 0..h - 1
      BY <1>1, <2>1, <2>3
    <3>2. e[A[Parent(j)]] <= e[A[j]]
      BY <2>1, <3>1 DEF Ordered
    <3>3. e[R[Parent(j)]] <= e[A[Parent(j)]]
      BY <1>16, <2>1
    <3>4. R[Parent(j)] \in Timers
      BY <1>9, <1>10, <2>1 DEF IsArray
    <3>. QED  BY <1>3, <1>6, <2>3, <3>1, <3>2, <3>3, <3>4
  <2>4. CASE j = i
    <3>1. Parent(j) = p /\ R[p] = S[p]
      BY <1>1, <1>5, <2>4
    <3>. QED  BY <1>7, <1>15, <2>4, <3>1
  <2>. QED  BY <1>8, <2>1, <2>2, <2>3, <2>4
<1>18. p \in Nat /\ R[i] = A[p]
  BY <1>1, <1>7
<1>19. Risen(A, c, e, h, t, i, R)
  BY <1>1, <1>10, <1>11, <1>13, <1>14, <1>16, <1>17, <1>18 DEF Risen, Ordered
<1>. QED  BY <1>1, <1>19 DEF R

(* In a heap of h cells, t goes where it belongs, and the rest is as       *)
(* before.                                                                 *)
LEMMA RaiseIs ==
  ASSUME NEW c \in Nat \ {0}, NEW h \in 0..c - 1, NEW A, IsArray(A, c, h), NEW e \in [Timers -> Nat],
         NEW t \in Timers, Distinct(A, 0, h), t \notin Segment(A, 0, h), Ordered(A, e, h, 0)
  PROVE  LET R == Heap!Raise(A, e, t, h)
         IN  /\ IsArray(R, c, h + 1)
             /\ Segment(R, 0, h + 1) = Segment(A, 0, h) \cup {t}
             /\ Distinct(R, 0, h + 1)
             /\ Ordered(R, e, h + 1, 0)
<1>. DEFINE b == Rising(A, e, t, h)
            Bad == {i \in 0..h : ~Risen(A, c, e, h, t, i, b[i])}
<1>1. \A i \in 0..h : b[i] = IF Rises(A, e, t, i) THEN Put(b[Parent(i)], i, A[Parent(i)]) ELSE Put(A, i, t)
  BY RisingIs
<1>. HIDE DEF b
<1>2. Bad = {}
  <2>. SUFFICES ASSUME Bad # {} PROVE FALSE
    OBVIOUS
  <2>1. PICK i \in Bad : \A l \in Bad : i <= l
    <3>1. Bad \in SUBSET Nat
      OBVIOUS
    <3>. HIDE DEF Bad
    <3>. QED  BY <3>1, LeastExists
  <2>2. i \in 0..h /\ ~Risen(A, c, e, h, t, i, b[i])
    OBVIOUS
  <2>3. CASE Rises(A, e, t, i)
    <3>1. Parent(i) \in 0..h /\ ~(i <= Parent(i))
      BY <2>2, <2>3, ParentIs DEF Rises
    <3>2. Risen(A, c, e, h, t, Parent(i), b[Parent(i)])
      BY <2>1, <3>1
    <3>. QED  BY <1>1, <2>2, <2>3, <3>2, RisenThrough
  <2>4. CASE ~Rises(A, e, t, i)
    BY <1>1, <2>2, <2>4, RisenHere
  <2>. QED  BY <2>3, <2>4
<1>3. Risen(A, c, e, h, t, h, b[h])
  BY <1>2
<1>. QED  BY <1>3, RaiseIsRising DEF Risen, b

-----------------------------------------------------------------------------
(* What is always true of the heap. *)
HeapInv ==
  /\ capacity \in Nat \ {0} /\ cur_size \in 0..capacity
  /\ IsArray(array, capacity, cur_size)
  /\ Distinct(array, 0, cur_size)
  /\ expire \in [Timers -> Nat]
  /\ armed \subseteq Segment(array, 0, cur_size)
  /\ heapNow \in Nat /\ heapCur \in Nat \cup {Null}
  /\ heapCur # Null => heapTmp = array[0]
  /\ Ordered(array, expire, cur_size, 0)

LEMMA HeapFacts == Null \notin Timers /\ Null \notin Nat /\ MaxTime \in Nat /\ Capacities \subseteq Nat \ {0}
BY NullAssumption, UseAssumption, HeapAssumption

(* The first timer is the earliest. *)
LEMMA FirstIsLeast ==
  ASSUME NEW c \in Nat \ {0}, NEW n \in 0..c, NEW A, IsArray(A, c, n), NEW e \in [Timers -> Nat],
         Ordered(A, e, n, 0)
  PROVE  \A i \in 0..n - 1 : e[A[0]] <= e[A[i]]
<1>. DEFINE Bad == {i \in 0..n - 1 : ~(e[A[0]] <= e[A[i]])}
<1>. SUFFICES ASSUME Bad # {} PROVE FALSE
  OBVIOUS
<1>1. PICK i \in Bad : \A l \in Bad : i <= l
  <2>1. Bad \in SUBSET Nat
    OBVIOUS
  <2>. HIDE DEF Bad
  <2>. QED  BY <2>1, LeastExists
<1>2. \A j \in 0..n - 1 : e[A[j]] \in Nat
  BY DEF IsArray
<1>3. i \in 1..n - 1 /\ 0 \in 0..n - 1 /\ ~(e[A[0]] <= e[A[i]])
  BY <1>2
<1>4. Parent(i) \in 0..n - 1 /\ ~(i <= Parent(i)) /\ Parent(i) >= 0
  BY <1>3, ParentIs
<1>5. e[A[0]] <= e[A[Parent(i)]]
  BY <1>1, <1>4
<1>6. e[A[Parent(i)]] <= e[A[i]]
  BY <1>3, <1>4 DEF Ordered
<1>7. e[A[0]] \in Nat /\ e[A[i]] \in Nat /\ e[A[Parent(i)]] \in Nat
  BY <1>2, <1>3, <1>4
<1>. QED  BY <1>3, <1>5, <1>6, <1>7

(* Order is about the timers in use only. *)
LEMMA OrderedKept ==
  ASSUME NEW n \in Nat, NEW A, NEW e, NEW k, Ordered(A, e, n, k), NEW B, NEW e2,
         \A j \in 0..n - 1 : B[j] = A[j] /\ e2[A[j]] = e[A[j]]
  PROVE  Ordered(B, e2, n, k)
<1>1. \A j \in 1..n - 1 : j \in 0..n - 1 /\ Parent(j) \in 0..n - 1
  BY ParentIs
<1>. QED  BY <1>1 DEF Ordered

LEMMA HeapInitially == Heap!Init => HeapInv /\ Heap!Queue!Init
<1>. SUFFICES ASSUME Heap!Init PROVE HeapInv /\ Heap!Queue!Init
  OBVIOUS
<1>. USE HeapFacts
<1>1. /\ capacity \in Nat \ {0} /\ cur_size \in 0..capacity
      /\ heapNow = 0 /\ heapTmp = Null /\ heapCur = Null
  BY DEF Heap!Init
<1>. DEFINE n == cur_size
<1>2. PICK A \in Heap!InitArrays(n) :
        /\ armed = Heap!Cells(A, n)
        /\ expire \in {e \in [Timers -> 0..MaxTime] : \A t \in Timers \ armed : e[t] = 0}
        /\ array = LET padded == [i \in 0..capacity - 1 |-> IF i < n THEN A[i] ELSE Null]
                   IN  IF n = 0 THEN padded ELSE Heap!Heapify(padded, expire, n)
  BY DEF Heap!Init
<1>. DEFINE P == [i \in 0..capacity - 1 |-> IF i < n THEN A[i] ELSE Null]
<1>3. A \in [0..n - 1 -> Timers] /\ \A i, j \in 0..n - 1 : A[i] = A[j] => i = j
  BY <1>2 DEF Heap!InitArrays
<1>4. IsArray(P, capacity, n) /\ \A i \in 0..n - 1 : P[i] = A[i]
  BY <1>1, <1>3 DEF IsArray
<1>5. expire \in [Timers -> Nat]
  BY <1>2
<1>6. Segment(P, 0, n) = armed
  BY <1>2, <1>4 DEF Segment, Heap!Cells
<1>7. Distinct(P, 0, n)
  BY <1>3, <1>4 DEF Distinct
<1>8. array = IF n = 0 THEN P ELSE Heap!Heapify(P, expire, n)
  BY <1>2
<1>. HIDE DEF P
<1>9. /\ IsArray(array, capacity, n) /\ Segment(array, 0, n) = armed /\ Distinct(array, 0, n)
      /\ Ordered(array, expire, n, 0)
  <2>1. CASE n = 0
    BY <1>4, <1>6, <1>7, <1>8, <2>1 DEF Ordered
  <2>2. CASE n # 0
    <3>1. n \in 1..capacity
      BY <1>1, <2>2
    <3>. QED  BY <1>1, <1>4, <1>5, <1>6, <1>7, <1>8, <2>2, <3>1, HeapifyIs
  <2>. QED  BY <2>1, <2>2
<1>10. HeapInv
  BY <1>1, <1>5, <1>9 DEF HeapInv
<1>11. armed \in SUBSET Timers
  BY <1>9, <1>1 DEF Segment, IsArray
<1>. QED  BY <1>1, <1>5, <1>10, <1>11 DEF Heap!Queue!Init

(* The expiries of the timers that the abstract queue holds. *)
HeapDue == [t \in Timers |-> IF t \in armed THEN expire[t] ELSE 0]

LEMMA HeapAddStep ==
  ASSUME HeapInv, NEW t \in Timers, NEW delay \in 0..MaxTime, Heap!Add(t, delay)
  PROVE  HeapInv' /\ Heap!Queue!Add(t)
<1>. USE HeapFacts
<1>. DEFINE n == cur_size
            A == IF n >= capacity THEN Heap!Resized(array, n) ELSE array
            due2 == heapNow + delay
<1>1. /\ heapCur = Null /\ t \notin Heap!Members
      /\ expire' = [expire EXCEPT ![t] = due2]
      /\ capacity' = IF n >= capacity THEN 2 * capacity ELSE capacity
      /\ array' = Heap!Raise(A, expire', t, n)
      /\ cur_size' = n + 1 /\ armed' = armed \cup {t}
      /\ heapNow' = heapNow /\ heapTmp' = heapTmp /\ heapCur' = heapCur
  BY DEF Heap!Add
<1>2. /\ capacity \in Nat \ {0} /\ n \in 0..capacity /\ IsArray(array, capacity, n)
      /\ Distinct(array, 0, n) /\ expire \in [Timers -> Nat] /\ armed \subseteq Segment(array, 0, n)
      /\ Ordered(array, expire, n, 0) /\ due2 \in Nat /\ heapNow \in Nat
  BY DEF HeapInv
<1>3. t \notin Segment(array, 0, n)
  BY <1>1 DEF Heap!Members, Heap!Cells, Segment
<1>4. capacity' \in Nat \ {0} /\ n \in 0..capacity' - 1 /\ n + 1 \in 0..capacity'
  BY <1>1, <1>2
<1>5. IsArray(A, capacity', n) /\ \A j \in 0..n - 1 : A[j] = array[j]
  <2>1. CASE n >= capacity
    <3>1. A = [i \in 0..2 * capacity - 1 |-> IF i < n THEN array[i] ELSE Null] /\ capacity' = 2 * capacity
      BY <1>1, <2>1 DEF Heap!Resized
    <3>2. \A j \in 0..n - 1 : j \in 0..2 * capacity - 1
      BY <1>2
    <3>3. \A j \in 0..n - 1 : A[j] = array[j] /\ array[j] \in Timers
      BY <1>2, <3>1, <3>2 DEF IsArray
    <3>4. A \in [0..2 * capacity - 1 -> Timers \cup {Null}]
      <4>1. \A i \in 0..2 * capacity - 1 : i < n => i \in 0..n - 1
        BY <1>2
      <4>. QED  BY <3>1, <3>3, <4>1
    <3>. HIDE DEF A
    <3>. QED  BY <3>1, <3>3, <3>4 DEF IsArray
  <2>2. CASE ~(n >= capacity)
    BY <1>1, <1>2, <2>2
  <2>. QED  BY <2>1, <2>2
<1>. HIDE DEF A, due2
<1>6. Segment(A, 0, n) = Segment(array, 0, n) /\ Distinct(A, 0, n)
  BY <1>2, <1>5 DEF Segment, Distinct
<1>7. expire' \in [Timers -> Nat] /\ expire'[t] = due2 /\ \A s \in Timers : s # t => expire'[s] = expire[s]
  BY <1>1, <1>2
<1>8. Ordered(A, expire', n, 0)
  <2>1. \A j \in 0..n - 1 : A[j] = array[j] /\ expire'[array[j]] = expire[array[j]]
    BY <1>2, <1>3, <1>5, <1>7 DEF IsArray, Segment
  <2>. QED  BY <1>2, <2>1, OrderedKept
<1>9. /\ IsArray(array', capacity', n + 1) /\ Segment(array', 0, n + 1) = Segment(array, 0, n) \cup {t}
      /\ Distinct(array', 0, n + 1) /\ Ordered(array', expire', n + 1, 0)
  <2>1. t \notin Segment(A, 0, n)
    BY <1>3, <1>6
  <2>. DEFINE R == Heap!Raise(A, expire', t, n)
              c == capacity'
              e == expire'
  <2>. HIDE DEF c, e
  <2>2. /\ c \in Nat \ {0} /\ n \in 0..c - 1 /\ IsArray(A, c, n) /\ e \in [Timers -> Nat]
        /\ Distinct(A, 0, n) /\ Ordered(A, e, n, 0)
    BY <1>4, <1>5, <1>6, <1>7, <1>8 DEF c, e
  <2>3. /\ IsArray(R, c, n + 1) /\ Segment(R, 0, n + 1) = Segment(A, 0, n) \cup {t}
        /\ Distinct(R, 0, n + 1) /\ Ordered(R, e, n + 1, 0)
    BY <2>1, <2>2, RaiseIs DEF e
  <2>. QED  BY <1>1, <1>6, <2>3 DEF c, e
<1>10. HeapInv'
  <2>2. armed' \subseteq Segment(array', 0, n + 1)
    BY <1>1, <1>2, <1>9
  <2>. QED  BY <1>1, <1>2, <1>4, <1>7, <1>9, <2>2 DEF HeapInv, IsArray, Distinct, Ordered, Segment
<1>11. Heap!Queue!Add(t)
  <2>1. t \notin armed
    BY <1>2, <1>3
  <2>2. HeapDue'[t] \in Nat
    BY <1>1, <1>2, <1>7 DEF HeapDue
  <2>3. \A s \in armed : s \in Timers
    BY <1>2 DEF Segment, IsArray
  <2>4. \A s \in armed : HeapDue'[s] = HeapDue[s]
    BY <1>1, <1>7, <2>1, <2>3 DEF HeapDue
  <2>. QED  BY <1>1, <2>1, <2>2, <2>4 DEF Heap!Queue!Add, HeapDue
<1>. QED  BY <1>10, <1>11

(* pop_timer: exactly the first timer leaves. *)
LEMMA PopTimerStep ==
  ASSUME HeapInv, cur_size > 0, Heap!PopTimer
  PROVE  /\ cur_size' = cur_size - 1 /\ capacity' = capacity
         /\ IsArray(array', capacity, cur_size - 1)
         /\ Segment(array', 0, cur_size - 1) = Segment(array, 0, cur_size) \ {array[0]}
         /\ Distinct(array', 0, cur_size - 1)
         /\ expire' \in [Timers -> Nat] /\ \A s \in Timers : s # array[0] => expire'[s] = expire[s]
         /\ Ordered(array', expire', cur_size - 1, 0)
         /\ armed' = armed \ {array[0]}
<1>. USE HeapFacts
<1>. DEFINE n == cur_size - 1
            B == [array EXCEPT ![0] = array[n]]
            A == Heap!PercolateDown(B, expire, n, 0)
<1>1. /\ array' = IF n = 0 THEN A ELSE [A EXCEPT ![n] = Null]
      /\ cur_size' = n /\ armed' = armed \ {array[0]}
      /\ expire' = [expire EXCEPT ![array[0]] = 0] /\ capacity' = capacity
  BY DEF Heap!PopTimer
<1>2. /\ capacity \in Nat \ {0} /\ n \in 0..capacity - 1 /\ cur_size = n + 1 /\ cur_size \in 0..capacity
      /\ IsArray(array, capacity, n + 1) /\ Distinct(array, 0, n + 1) /\ expire \in [Timers -> Nat]
      /\ Ordered(array, expire, n + 1, 0)
  BY DEF HeapInv
<1>. HIDE DEF n
<1>3. \A j \in 0..n : array[j] \in Timers /\ j \in 0..capacity - 1 /\ j \in 0..n + 1 - 1
  BY <1>2 DEF IsArray
<1>4. expire' \in [Timers -> Nat] /\ \A s \in Timers : s # array[0] => expire'[s] = expire[s]
  BY <1>1, <1>2
<1>5. CASE n = 0
  <2>1. IsArray(B, capacity, n) /\ 0 \in 0..capacity - 1
    BY <1>2, <1>3, <1>5 DEF IsArray
  <2>2. ~Sinks(B, expire, n, B[0], 0)
    BY <1>5 DEF Sinks
  <2>3. B[0] \in Timers
    BY <1>2, <1>3, <1>5 DEF IsArray
  <2>4. Sifting(B, expire, n, B[0])[0] = Put(B, 0, B[0])
    <3>1. n \in 0..capacity
      BY <1>2
    <3>. HIDE DEF B
    <3>. QED  BY <1>2, <2>1, <2>2, <2>3, <3>1, SiftingIs
  <2>5. A = Put(B, 0, B[0])
    BY <2>4, PercolateDownIsSifting
  <2>6. IsArray(array', capacity, n)
    BY <1>1, <1>5, <2>1, <2>3, <2>5 DEF IsArray, Put
  <2>7. Segment(array', 0, n) = {} /\ Segment(array, 0, n + 1) = {array[0]}
    BY <1>5 DEF Segment
  <2>8. Distinct(array', 0, n) /\ Ordered(array', expire', n, 0)
    BY <1>5 DEF Distinct, Ordered
  <2>. QED  BY <1>1, <1>2, <1>4, <2>6, <2>7, <2>8 DEF n
<1>6. CASE n # 0
  <2>1. 0 \in 0..n - 1 /\ n \in 0..capacity /\ n \in 0..n /\ 0 \in 0..n
    BY <1>2, <1>6
  <2>2. /\ IsArray(B, capacity, n) /\ B[0] = array[n]
        /\ \A j \in 0..capacity - 1 : j # 0 => B[j] = array[j]
    BY <1>2, <1>3, <2>1 DEF IsArray
  <2>. HIDE DEF B
  <2>3. \A j \in 1..n - 1 : B[j] = array[j] /\ j \in 0..n /\ j # 0 /\ j # n /\ j \in 0..n - 1
    BY <1>2, <1>3, <2>2
  <2>4. Segment(B, 0, n) = Segment(array, 0, n + 1) \ {array[0]}
    <3>1. \A j \in 0..n + 1 - 1 : j = 0 \/ j = n \/ j \in 1..n - 1
      BY <1>2
    <3>2. \A j \in 0..n - 1 : j = 0 \/ j \in 1..n - 1
      BY <1>2
    <3>3. Segment(array, 0, n + 1) = {array[j] : j \in 1..n - 1} \cup {array[0], array[n]}
      BY <1>3, <2>1, <2>3, <3>1 DEF Segment
    <3>4. Segment(B, 0, n) = {array[j] : j \in 1..n - 1} \cup {array[n]}
      BY <2>1, <2>2, <2>3, <3>2 DEF Segment
    <3>5. \A j \in 0..n : array[j] = array[0] => j = 0
      BY <1>2, <1>3, <2>1 DEF Distinct
    <3>6. array[0] \notin {array[j] : j \in 1..n - 1} \cup {array[n]}
      BY <1>6, <2>1, <2>3, <3>5
    <3>. QED  BY <3>3, <3>4, <3>6
  <2>5. Distinct(B, 0, n)
    <3>1. \A j \in 0..n - 1 : \E l \in 0..n : B[j] = array[l] /\ l = IF j = 0 THEN n ELSE j
      BY <1>2, <2>1, <2>2, <1>3
    <3>. QED  BY <1>2, <1>3, <3>1 DEF Distinct
  <2>6. Ordered(B, expire, n, 0 + 1)
    <3>1. ASSUME NEW j \in 1..n - 1, Parent(j) >= 1 PROVE expire[B[Parent(j)]] <= expire[B[j]]
      <4>1. Parent(j) \in 1..n - 1 /\ j \in 1..n + 1 - 1
        BY <1>2, <3>1, ParentIs
      <4>. QED  BY <1>2, <2>3, <4>1 DEF Ordered
    <3>. QED  BY <3>1 DEF Ordered
  <2>7. /\ IsArray(A, capacity, n) /\ Segment(A, 0, n) = Segment(B, 0, n) /\ Distinct(A, 0, n)
        /\ Ordered(A, expire, n, 0)
    BY <1>2, <2>1, <2>2, <2>5, <2>6, PercolateDownIs
  <2>. HIDE DEF A
  <2>8. /\ array' \in [0..capacity - 1 -> Timers \cup {Null}]
        /\ \A j \in 0..n - 1 : array'[j] = A[j] /\ A[j] \in Timers
    BY <1>1, <1>2, <1>6, <2>7 DEF IsArray
  <2>9. /\ IsArray(array', capacity, n) /\ Distinct(array', 0, n)
        /\ Segment(array', 0, n) = Segment(array, 0, n + 1) \ {array[0]}
    <3>1. \A j \in 0..n - 1 : array'[j] = A[j] /\ array'[j] \in Timers
      BY <2>8
    <3>2. Segment(array', 0, n) = Segment(A, 0, n)
      BY <3>1 DEF Segment
    <3>3. Distinct(array', 0, n)
      BY <2>7, <3>1 DEF Distinct
    <3>. QED  BY <2>4, <2>7, <2>8, <3>1, <3>2, <3>3 DEF IsArray
  <2>10. \A j \in 0..n - 1 : A[j] # array[0]
    BY <2>4, <2>7 DEF Segment
  <2>11. Ordered(array', expire', n, 0)
    <3>1. n \in Nat
      BY <1>2
    <3>2. \A j \in 0..n - 1 : array'[j] = A[j] /\ expire'[A[j]] = expire[A[j]]
      BY <1>4, <2>8, <2>10
    <3>. QED  BY <2>7, <3>1, <3>2, OrderedKept
  <2>. QED  BY <1>1, <1>2, <1>4, <2>9, <2>11 DEF n
<1>. QED  BY <1>5, <1>6

LEMMA HeapMembers ==
  ASSUME HeapInv
  PROVE  /\ armed \subseteq Timers
         /\ cur_size > 0 => /\ array[0] \in Timers /\ expire[array[0]] \in Nat
                            /\ \A s \in armed : expire[array[0]] <= expire[s]
         /\ cur_size = 0 => armed = {}
<1>1. /\ capacity \in Nat \ {0} /\ cur_size \in 0..capacity /\ IsArray(array, capacity, cur_size)
      /\ expire \in [Timers -> Nat] /\ armed \subseteq Segment(array, 0, cur_size)
      /\ Ordered(array, expire, cur_size, 0)
  BY DEF HeapInv
<1>2. \A s \in armed : s \in Timers /\ \E i \in 0..cur_size - 1 : s = array[i]
  BY <1>1 DEF Segment, IsArray
<1>3. \A i \in 0..cur_size - 1 : expire[array[0]] <= expire[array[i]]
  BY <1>1, FirstIsLeast
<1>4. cur_size > 0 => array[0] \in Timers /\ expire[array[0]] \in Nat
  <2>1. cur_size > 0 => 0 \in 0..cur_size - 1
    BY <1>1
  <2>. QED  BY <1>1, <2>1 DEF IsArray
<1>5. cur_size = 0 => armed = {}
  BY <1>2
<1>. QED  BY <1>2, <1>3, <1>4, <1>5

(* The first timer leaves, whether or not del_timer was called for it.     *)
LEMMA PopStep ==
  ASSUME HeapInv, cur_size > 0, Heap!PopTimer, UNCHANGED <<heapNow, heapCur>>,
         heapCur # Null => heapTmp' = array'[0]
  PROVE  /\ HeapInv'
         /\ IF array[0] \in armed
              THEN /\ armed' = armed \ {array[0]}
                   /\ \A s \in armed' : HeapDue'[s] = HeapDue[s]
              ELSE armed' = armed /\ HeapDue' = HeapDue
<1>1. /\ cur_size' = cur_size - 1 /\ capacity' = capacity
      /\ IsArray(array', capacity, cur_size - 1)
      /\ Segment(array', 0, cur_size - 1) = Segment(array, 0, cur_size) \ {array[0]}
      /\ Distinct(array', 0, cur_size - 1)
      /\ expire' \in [Timers -> Nat] /\ \A s \in Timers : s # array[0] => expire'[s] = expire[s]
      /\ Ordered(array', expire', cur_size - 1, 0)
      /\ armed' = armed \ {array[0]}
  BY PopTimerStep
<1>2. /\ capacity \in Nat \ {0} /\ cur_size \in 0..capacity /\ armed \subseteq Segment(array, 0, cur_size)
      /\ heapNow \in Nat /\ heapCur \in Nat \cup {Null}
  BY DEF HeapInv
<1>3. armed \subseteq Timers
  BY HeapMembers
<1>4. armed' \subseteq Segment(array', 0, cur_size - 1)
  BY <1>1, <1>2
<1>5. cur_size - 1 \in 0..capacity
  BY <1>2
<1>6. HeapInv'
  BY <1>1, <1>2, <1>4, <1>5 DEF HeapInv, IsArray, Distinct, Ordered, Segment
<1>7. \A s \in Timers : s # array[0] => HeapDue'[s] = HeapDue[s]
  BY <1>1 DEF HeapDue
<1>8. array[0] \notin armed => HeapDue' = HeapDue
  <2>. SUFFICES ASSUME array[0] \notin armed PROVE HeapDue' = HeapDue
    OBVIOUS
  <2>1. armed' = armed
    BY <1>1
  <2>2. \A s \in Timers : s \in armed => expire'[s] = expire[s]
    BY <1>1
  <2>. QED  BY <2>1, <2>2 DEF HeapDue
<1>. QED  BY <1>1, <1>3, <1>6, <1>7, <1>8

LEMMA HeapStep == HeapInv /\ [Heap!Next]_(Heap!vars) => HeapInv' /\ [Heap!Queue!Next]_(Heap!Queue!vars)
<1>. SUFFICES ASSUME HeapInv, [Heap!Next]_(Heap!vars) PROVE HeapInv' /\ [Heap!Queue!Next]_(Heap!Queue!vars)
  OBVIOUS
<1>. USE HeapFacts
<1>0. armed \subseteq Timers
  BY HeapMembers
<1>1. ASSUME Heap!Advance \/ UNCHANGED Heap!vars PROVE HeapInv' /\ UNCHANGED Heap!Queue!vars
  <2>1. /\ UNCHANGED <<array, capacity, cur_size, expire, armed, heapTmp, heapCur>>
        /\ heapNow' = heapNow \/ heapNow' = heapNow + 1
    BY <1>1 DEF Heap!Advance, Heap!vars
  <2>2. HeapInv'
    BY <2>1 DEF HeapInv, IsArray, Distinct, Ordered, Segment
  <2>. QED  BY <2>1, <2>2 DEF Heap!Queue!vars
<1>2. ASSUME NEW t \in Timers, NEW delay \in 0..MaxTime, Heap!Add(t, delay)
      PROVE  HeapInv' /\ Heap!Queue!Next
  BY <1>2, HeapAddStep DEF Heap!Queue!Next
<1>3. ASSUME NEW t \in Timers, Heap!Delete(t) PROVE HeapInv' /\ [Heap!Queue!Next]_(Heap!Queue!vars)
  <2>1. /\ heapCur = Null /\ armed' = armed \ {t}
        /\ UNCHANGED <<array, capacity, cur_size, expire, heapNow, heapTmp, heapCur>>
    BY <1>3 DEF Heap!Delete
  <2>2. HeapInv'
    BY <2>1 DEF HeapInv, IsArray, Distinct, Ordered, Segment
  <2>3. CASE t \in armed
    <3>1. \A s \in armed' : HeapDue'[s] = HeapDue[s]
      BY <1>0, <2>1 DEF HeapDue
    <3>2. Heap!Queue!Delete(t)
      BY <2>1, <2>3, <3>1 DEF Heap!Queue!Delete, HeapDue
    <3>. QED  BY <2>2, <3>2 DEF Heap!Queue!Next
  <2>4. CASE t \notin armed
    <3>1. armed' = armed
      BY <2>1, <2>4
    <3>. QED  BY <2>1, <2>2, <3>1 DEF Heap!Queue!vars
  <2>. QED  BY <2>3, <2>4
<1>4. ASSUME Heap!Pop PROVE HeapInv' /\ [Heap!Queue!Next]_(Heap!Queue!vars)
  <2>1. cur_size > 0 /\ Heap!PopTimer /\ heapCur = Null /\ UNCHANGED <<heapNow, heapTmp, heapCur>>
    BY <1>4 DEF Heap!Pop
  <2>2. /\ HeapInv'
        /\ IF array[0] \in armed
             THEN armed' = armed \ {array[0]} /\ \A s \in armed' : HeapDue'[s] = HeapDue[s]
             ELSE armed' = armed /\ HeapDue' = HeapDue
    BY <2>1, PopStep
  <2>3. CASE array[0] \in armed
    <3>0. PICK t \in Timers : t = array[0]
      BY <1>0, <2>3
    <3>1. Heap!Queue!Delete(t)
      BY <2>1, <2>2, <2>3, <3>0 DEF Heap!Queue!Delete, HeapDue
    <3>. QED  BY <2>2, <3>1 DEF Heap!Queue!Next
  <2>4. CASE array[0] \notin armed
    BY <2>1, <2>2, <2>4 DEF Heap!Queue!vars, HeapDue
  <2>. QED  BY <2>3, <2>4
<1>5. ASSUME Heap!TickBegin PROVE HeapInv' /\ Heap!Queue!BeginTick
  <2>1. /\ heapCur = Null /\ heapTmp' = array[0] /\ heapCur' = heapNow
        /\ UNCHANGED <<array, capacity, cur_size, expire, armed, heapNow>>
    BY <1>5 DEF Heap!TickBegin
  <2>2. HeapInv'
    BY <2>1 DEF HeapInv, IsArray, Distinct, Ordered, Segment
  <2>3. heapNow \in Nat
    BY DEF HeapInv
  <2>. QED  BY <2>1, <2>2, <2>3 DEF Heap!Queue!BeginTick
<1>6. ASSUME Heap!TickRound PROVE HeapInv' /\ [Heap!Queue!Next]_(Heap!Queue!vars)
  <2>1. /\ heapCur # Null /\ cur_size > 0 /\ heapTmp # Null /\ expire[heapTmp] <= heapCur
        /\ Heap!PopTimer /\ heapTmp' = array'[0] /\ UNCHANGED <<heapNow, heapCur>>
    BY <1>6 DEF Heap!TickRound, Heap!Due
  <2>2. /\ HeapInv'
        /\ IF array[0] \in armed
             THEN armed' = armed \ {array[0]} /\ \A s \in armed' : HeapDue'[s] = HeapDue[s]
             ELSE armed' = armed /\ HeapDue' = HeapDue
    BY <2>1, PopStep
  <2>3. CASE array[0] \in armed
    <3>1. heapTmp = array[0] /\ \A s \in armed : expire[array[0]] <= expire[s]
      BY <2>1, HeapMembers DEF HeapInv
    <3>2. HeapDue[array[0]] <= heapCur /\ \A s \in armed : HeapDue[array[0]] <= HeapDue[s]
      BY <1>0, <2>1, <2>3, <3>1 DEF HeapDue
    <3>0. PICK t \in Timers : t = array[0]
      BY <1>0, <2>3
    <3>3. Heap!Queue!Fire(t)
      BY <2>1, <2>2, <2>3, <3>2, <3>0 DEF Heap!Queue!Fire, HeapDue
    <3>. QED  BY <2>2, <3>3 DEF Heap!Queue!Next
  <2>4. CASE array[0] \notin armed
    BY <2>1, <2>2, <2>4 DEF Heap!Queue!vars, HeapDue
  <2>. QED  BY <2>3, <2>4
<1>7. ASSUME Heap!TickEnd PROVE HeapInv' /\ Heap!Queue!EndTick
  <2>1. /\ heapCur # Null /\ ~(cur_size > 0 /\ heapTmp # Null /\ expire[heapTmp] <= heapCur)
        /\ heapCur' = Null /\ heapTmp' = Null
        /\ UNCHANGED <<array, capacity, cur_size, expire, armed, heapNow>>
    BY <1>7 DEF Heap!TickEnd, Heap!Due
  <2>2. HeapInv'
    BY <2>1 DEF HeapInv, IsArray, Distinct, Ordered, Segment
  <2>3. heapTmp = array[0] /\ heapCur \in Nat /\ cur_size \in Nat /\ expire \in [Timers -> Nat]
    BY <2>1 DEF HeapInv
  <2>4. \A s \in armed : expire[s] > heapCur
    <3>1. CASE cur_size = 0
      BY <3>1, HeapMembers
    <3>2. CASE cur_size > 0
      <4>1. array[0] \in Timers /\ expire[array[0]] \in Nat /\ \A s \in armed : expire[array[0]] <= expire[s]
        BY <3>2, HeapMembers
      <4>2. expire[array[0]] > heapCur
        BY <2>1, <2>3, <3>2, <4>1
      <4>. QED  BY <1>0, <2>3, <4>1, <4>2
    <3>. QED  BY <2>3, <3>1, <3>2
  <2>5. \A s \in armed : HeapDue[s] > heapCur
    BY <1>0, <2>4 DEF HeapDue
  <2>. QED  BY <2>1, <2>2, <2>5 DEF Heap!Queue!EndTick, HeapDue
<1>. QED  BY <1>1, <1>2, <1>3, <1>4, <1>5, <1>6, <1>7 DEF Heap!Next, Heap!Queue!Next

LEMMA HeapInvHolds == Heap!Spec => []HeapInv
BY HeapInitially, HeapStep, PTL DEF Heap!Spec

(* What is due is called back, the earliest first, unless del_timer was    *)
(* called for it (min_heap_timer.h:90-137).                                *)
LEMMA HeapIsQueue == Heap!Spec => Heap!HeapImplementsQueue
BY HeapInitially, HeapStep, HeapInvHolds, PTL DEF Heap!Spec, Heap!HeapImplementsQueue, Heap!Queue!Spec

(* A heap without duplicates, through growth and lazy deletion             *)
(* (min_heap_timer.h:71-166).                                              *)
LEMMA HeapStaysOrdered == Heap!Spec => []Heap!HeapOrdered
<1>1. ASSUME HeapInv PROVE Heap!HeapOrdered
  <2>1. cur_size <= capacity /\ IsArray(array, capacity, cur_size) /\ cur_size \in Nat
    BY <1>1 DEF HeapInv
  <2>2. Heap!Members = Segment(array, 0, cur_size)
    BY DEF Heap!Members, Heap!Cells, Segment
  <2>3. Null \notin Segment(array, 0, cur_size)
    BY <2>1, HeapFacts DEF Segment, IsArray
  <2>4. \A i \in 1..cur_size - 1 : expire[array[(i - 1) \div 2]] <= expire[array[i]]
    <3>1. \A i \in 1..cur_size - 1 : Parent(i) >= 0
      BY ParentIs
    <3>. QED  BY <1>1, <3>1 DEF HeapInv, Ordered, Parent
  <2>. QED  BY <1>1, <2>1, <2>2, <2>3, <2>4 DEF Heap!HeapOrdered, HeapInv, Distinct
<1>. QED  BY <1>1, HeapInvHolds, PTL

-----------------------------------------------------------------------------
(* Links and order of list and wheel stay as their functions need them,    *)
(* and the heap stays a heap without duplicates, for any number of timers, *)
(* any number of slots, any slot interval, any capacity and any sequence   *)
(* of calls (ascending_linkedlist_timer_impl.h:46-153,                     *)
(* time_wheel_timer.h:76-139, min_heap_timer.h:71-166).                    *)
THEOREM ContainersStayIntact == TimersSpec => []ContainersIntact
<1>1. ListIntact /\ Wheel!WheelIntact /\ Heap!HeapOrdered => ContainersIntact
  BY DEF ContainersIntact
<1>. QED  BY <1>1, RunsOneProgram, ListStaysIntact, WheelStaysIntact, HeapStaysOrdered, PTL

(* All three are timer queues: a timer fires in the first tick that is not *)
(* too early, the earliest first, and never after its deletion             *)
(* (ascending_linkedlist_timer_impl.h:104-134, time_wheel_timer.h:42-144,  *)
(* min_heap_timer.h:90-137).                                               *)
THEOREM ContainersAreQueues == TimersSpec => ContainersImplementQueue
BY RunsOneProgram, ListIsQueue, WheelIsQueue, HeapIsQueue, PTL DEF ContainersImplementQueue
=============================================================================
