------------------------------ MODULE Algorithms ------------------------------
(***************************************************************************)
(* Sorting (algorithm/src/sort) and solutions of algorithm/leetcode, as    *)
(* operators that follow the code.  A behaviour picks a problem and an     *)
(* input, solves it, and has every solution's answer beside the one that   *)
(* the problem asks for.                                                   *)
(*                                                                         *)
(* Arrays of the code start at 0, sequences at 1: x[i] there is x[i + 1]   *)
(* here.                                                                   *)
(***************************************************************************)
EXTENDS Integers, Sequences, FiniteSets, SequencesExt, FiniteSetsExt, Functions

CONSTANTS Numbers, MaxLen,   \* arrays of numbers and their longest
          MaxDays,           \* days, shelf lives and apples of 1705
          GridSizes,         \* <<rows, columns>> of 1391
          Nodes,             \* sizes of the graphs of 913
          Letters, Texts,    \* the alphabet and the longest text of 438
          Depth              \* how deep brackets nest in a text to decode

VARIABLES problem, input, answers, wanted

vars == <<problem, input, answers, wanted>>

Seqs(S, max) == UNION {[1..k -> S] : k \in 1..max}
Ascending(s) == SortSeq(s, LAMBDA a, b : a < b)
Swapped(s, i, j) == [s EXCEPT ![i] = s[j], ![j] = s[i]]
Listing(S) == FoldSet(LAMBDA x, s : Append(s, x), <<>>, S)   \* in any order

-----------------------------------------------------------------------------
(* bubble_sort.cpp.  A round is a fold over the places it compares. *)
BubbleHead(arr) ==
  LET n == Len(arr)
      Step(s, j) == IF s[j] < s[j - 1] THEN Swapped(s, j, j - 1) ELSE s
      Round(s, i) == FoldLeft(Step, s, Reverse([k \in 1..n - i |-> i + k]))
  IN  FoldLeft(Round, arr, [i \in 1..n - 1 |-> i])

BubbleTail(arr) ==
  LET n == Len(arr)
      Step(s, j) == IF s[j] > s[j + 1] THEN Swapped(s, j, j + 1) ELSE s
      Round(s, i) == FoldLeft(Step, s, [j \in 1..n - i |-> j])
  IN  FoldLeft(Round, arr, [i \in 1..n - 1 |-> i])

(* merge_sort.cpp: a pair of equal numbers is taken from the right. *)
RECURSIVE Merge(_, _)
Merge(a, b) ==
  IF a = <<>> THEN b ELSE IF b = <<>> THEN a
  ELSE IF a[1] < b[1] THEN <<a[1]>> \o Merge(Tail(a), b) ELSE <<b[1]>> \o Merge(a, Tail(b))

RECURSIVE MergeSort(_)
MergeSort(arr) ==
  LET mid == (1 + Len(arr)) \div 2 IN
    IF Len(arr) < 2 THEN arr
    ELSE Merge(MergeSort(SubSeq(arr, 1, mid)), MergeSort(SubSeq(arr, mid + 1, Len(arr))))

(* Mutant of Partition: the pivot stays where it was put aside. *)
PartitionAside(arr, left, right) ==
  LET middle == (left + right - 2) \div 2 + 1
      Step(f, i) == IF f.s[i] < arr[middle]
                      THEN [s |-> Swapped(f.s, i, f.store), store |-> f.store + 1] ELSE f
  IN  FoldLeft(Step, [s |-> Swapped(arr, middle, right), store |-> left],
               [k \in 1..right - left |-> left + k - 1])

(* quick_sort.cpp: the array and the place of the pivot. *)
Partition(arr, left, right) ==
  LET middle == (left + right - 2) \div 2 + 1
      Step(f, i) == IF f.s[i] < arr[middle]
                      THEN [s |-> Swapped(f.s, i, f.store), store |-> f.store + 1] ELSE f
      done == FoldLeft(Step, [s |-> Swapped(arr, middle, right), store |-> left],
                       [k \in 1..right - left |-> left + k - 1])
  IN  [s |-> Swapped(done.s, right, done.store), store |-> done.store]

RECURSIVE QuickSort(_, _, _)
QuickSort(arr, left, right) ==
  IF left >= right THEN arr
  ELSE LET p == Partition(arr, left, right)
       IN  QuickSort(QuickSort(p.s, left, p.store - 1), p.store + 1, right)

-----------------------------------------------------------------------------
(* heap/215.cpp: a max-heap, and heapify_debug, the careful twin of        *)
(* heapify, in its place; it goes on with heapify.                         *)
RECURSIVE Heapify(_, _)
Heapify(s, i) ==
  LET larger == IF 2 * i + 1 <= Len(s) /\ s[2 * i + 1] > s[2 * i] THEN 2 * i + 1 ELSE 2 * i
  IN  IF 2 * i <= Len(s) /\ s[larger] > s[i] THEN Heapify(Swapped(s, i, larger), larger) ELSE s

HeapifyDebug(s, i) ==
  LET Over(c, t) == c <= Len(s) /\ s[c] > s[t]
      l == 2 * i
      idx == IF Over(l, i) THEN (IF Over(l + 1, l) THEN l + 1 ELSE l)
             ELSE IF Over(l + 1, i) THEN l + 1 ELSE 0
  IN  IF l > Len(s) \/ idx = 0 THEN s ELSE Heapify(Swapped(s, i, idx), idx)

PopFirst(s, k) ==
  IF Len(s) = 1 THEN <<>> ELSE Heapify(Front([s EXCEPT ![1] = Last(s)]), 1)

Parents(nums) == Reverse([i \in 1..Len(nums) \div 2 |-> i])

Popped(heap, k) == FoldLeft(PopFirst, heap, [i \in 1..k - 1 |-> i])[1]

FindKthLargest(nums, k) == Popped(FoldLeft(Heapify, nums, Parents(nums)), k)

FindKthLargestDebug(nums, k) == Popped(FoldLeft(HeapifyDebug, nums, Parents(nums)), k)

(* binary_search/287.cpp: n + 1 numbers of 1..n, one of them repeated.     *)
(* `_my' remembers what it has seen, `_overtime' counts, the last bisects. *)
FindDuplicateMy(nums) ==
  nums[Min({j \in DOMAIN nums : \E i \in 1..j - 1 : nums[i] = nums[j]})]

Counted(nums, x) == Cardinality({i \in DOMAIN nums : nums[i] <= x})
FindDuplicateOvertime(nums) == Min({i \in 1..Len(nums) - 1 : Counted(nums, i) > i})

RECURSIVE Bisect(_, _, _, _)
Bisect(nums, l, r, ans) ==
  LET mid == (l + r) \div 2 IN
    IF l > r THEN ans
    ELSE IF Counted(nums, mid) <= mid THEN Bisect(nums, mid + 1, r, ans)
    ELSE Bisect(nums, l, mid - 1, mid)

FindDuplicate(nums) == Bisect(nums, 1, Len(nums) - 1, -1)

-----------------------------------------------------------------------------
(* stack/739.cpp: how many days until it is warmer.  `_my' looks at the    *)
(* top before it loops, `_refine' does not; the stack's top is its head.   *)
TemperaturesBf(t) ==
  [i \in DOMAIN t |-> LET later == {j \in i + 1..Len(t) : t[j] > t[i]}
                      IN  IF later = {} THEN 0 ELSE Min(later) - i]

RECURSIVE PopColder(_, _, _)
PopColder(f, t, i) ==
  IF f.stack = <<>> \/ t[f.stack[1]] >= t[i] THEN f
  ELSE PopColder([ans |-> [f.ans EXCEPT ![f.stack[1]] = i - f.stack[1]], stack |-> Tail(f.stack)],
                 t, i)

Push(f, i) == [f EXCEPT !.stack = <<i>> \o @]

TemperaturesMy(t) ==
  LET Day(f, i) == IF f.stack = <<>> \/ t[i] <= t[f.stack[1]] THEN Push(f, i)
                   ELSE Push(PopColder(f, t, i), i)
  IN  FoldLeft(Day, [ans |-> [i \in DOMAIN t |-> 0], stack |-> <<>>], [i \in DOMAIN t |-> i]).ans

TemperaturesRefine(t) ==
  LET Day(f, i) == Push(PopColder(f, t, i), i)
  IN  FoldLeft(Day, [ans |-> [i \in DOMAIN t |-> 0], stack |-> <<>>], [i \in DOMAIN t |-> i]).ans

-----------------------------------------------------------------------------
(* bfs/1345.cpp: jumps to a neighbour or to an equal number, from the      *)
(* first to the last.  A level at a time: `minJumps' marks what it queues  *)
(* and what it has left, `_copilot' only the former; it goes through equal *)
(* numbers once.                                                           *)
Edge(arr, i, j) == i # j /\ (j = i - 1 \/ j = i + 1 \/ arr[i] = arr[j])

RECURSIVE Levels(_, _, _, _)
Levels(arr, level, queued, distance) ==
  LET n == Len(arr)
      at == IF n \in ToSet(level) THEN CHOOSE k \in DOMAIN level : level[k] = n ELSE Len(level) + 1
      Visit(f, node) ==
        LET found == Ascending(Listing({j \in 1..n : Edge(arr, node, j) /\ j \notin f.queued
                                                /\ j \notin f.visited}))
        IN  [visited |-> f.visited \cup {node}, queued |-> f.queued \cup ToSet(found),
             out |-> f.out \o found]
      after == FoldLeft(Visit, [visited |-> queued.visited, queued |-> queued.queued, out |-> <<>>],
                        SubSeq(level, 1, at - 1))
  IN  IF level = <<>> \/ at <= Len(level) THEN distance
      ELSE Levels(arr, after.out, [visited |-> after.visited, queued |-> after.queued], distance + 1)

MinJumps(arr) == Levels(arr, <<1>>, [visited |-> {}, queued |-> {}], 0)

RECURSIVE CopilotLevels(_, _, _, _, _)
CopilotLevels(arr, level, visited, cleared, distance) ==
  LET n == Len(arr)
      Visit(f, node) ==
        LET same  == IF arr[node] \in f.cleared THEN {} ELSE {j \in 1..n : arr[j] = arr[node]}
            found == (({node - 1, node + 1} \cap 1..n) \cup same) \ f.visited
        IN  [visited |-> f.visited \cup found, cleared |-> f.cleared \cup {arr[node]},
             out |-> f.out \o Listing(found)]
      after == FoldLeft(Visit, [visited |-> visited, cleared |-> cleared, out |-> <<>>], level)
  IN  IF n \in ToSet(level) THEN distance
      ELSE CopilotLevels(arr, after.out, after.visited, after.cleared, distance + 1)

MinJumpsCopilot(arr) ==
  IF Len(arr) <= 1 THEN 0 ELSE CopilotLevels(arr, <<1>>, {1}, {}, 0)

(* What the problem asks for: the least number of jumps. *)
RECURSIVE Within(_, _)
Within(arr, k) ==
  IF k = 0 THEN {1}
  ELSE LET near == Within(arr, k - 1)
       IN  near \cup {j \in DOMAIN arr : \E i \in near : Edge(arr, i, j)}

FewestJumps(arr) == Min({k \in 0..Len(arr) : Len(arr) \in Within(arr, k)})

-----------------------------------------------------------------------------
(* priority_queue/1705.cpp.  Days are numbered from 0.  pq is a bag of     *)
(* <<day of rot, count>>; what is eaten comes from the one that rots first *)
(* and, of those, is the smallest.                                         *)
Rotten(i, p) == p[1] <= i
Before(p, q) == p[1] < q[1] \/ (p[1] = q[1] /\ p[2] <= q[2])

(* The queue in its order; the pops from the top drop what is rotten.      *)
Enqueue(pq, p) == SelectSeq(pq, LAMBDA q : ~Before(p, q)) \o <<p>> \o SelectSeq(pq, LAMBDA q : Before(p, q))
Fresh(pq, i) == SelectSeq(pq, LAMBDA p : ~Rotten(i, p))

RECURSIVE EatRest(_, _, _)
EatRest(pq, i, ans) ==
  LET fresh == Fresh(pq, i) IN
    IF fresh = <<>> THEN ans
    ELSE LET num == Min({fresh[1][1] - i, fresh[1][2]})
         IN  EatRest(Tail(fresh), i + num, ans + num)

EatenApples(apples, days) ==
  LET Day(f, i) ==
        LET fresh == Fresh(f.pq, i)
            pq == IF apples[i + 1] > 0 THEN Enqueue(fresh, <<i + days[i + 1], apples[i + 1]>>) ELSE fresh
            top == pq[1]
        IN  IF pq = <<>> THEN [pq |-> pq, ans |-> f.ans]
            ELSE [pq |-> IF top[2] = 1 THEN Tail(pq) ELSE Enqueue(Tail(pq), <<top[1], top[2] - 1>>),
                  ans |-> f.ans + 1]
      year == FoldLeft(Day, [pq |-> <<>>, ans |-> 0], [k \in DOMAIN apples |-> k - 1])
  IN  EatRest(year.pq, Len(apples), year.ans)

(* eatenApples_my: remain[d] apples rot on day d, in a map that loses what *)
(* is rotten or eaten; a day at a time until nothing is left.              *)
RECURSIVE EatDaily(_, _, _, _, _)
EatDaily(apples, days, i, remain, ans) ==
  LET d      == i + days[i + 1]
      grown  == IF i < Len(apples) /\ apples[i + 1] > 0
                  THEN [e \in DOMAIN remain \cup {d} |->
                          (IF e \in DOMAIN remain THEN remain[e] ELSE 0) + (IF e = d THEN apples[i + 1] ELSE 0)]
                  ELSE remain
      fresh  == Restrict(grown, {e \in DOMAIN grown : i < e})
      first  == Min(DOMAIN fresh)
      eaten  == IF fresh[first] > 1 THEN [fresh EXCEPT ![first] = @ - 1]
                ELSE Restrict(fresh, DOMAIN fresh \ {first})
  IN  IF i >= Len(apples) /\ DOMAIN remain = {} THEN ans
      ELSE IF DOMAIN fresh = {} THEN EatDaily(apples, days, i + 1, fresh, ans)
      ELSE EatDaily(apples, days, i + 1, eaten, ans + 1)

EatenApplesMy(apples, days) == EatDaily(apples, days, 0, [e \in {} |-> 0], 0)

(* What the problem asks for: the best of all ways to eat one apple a day, *)
(* of a tree's crop that is not rotten, or none.                           *)
RECURSIVE BestDiet(_, _, _)
BestDiet(left, days, i) ==
  LET edible == {k \in DOMAIN left : left[k] > 0 /\ k - 1 <= i /\ i < k - 1 + days[k]}
  IN  IF i >= 2 * MaxDays THEN 0
      ELSE Max({BestDiet(left, days, i + 1)}
               \cup {1 + BestDiet([left EXCEPT ![k] = @ - 1], days, i + 1) : k \in edible})

-----------------------------------------------------------------------------
(* sliding_window/438.cpp: where an anagram of p starts in s, from 0 on.   *)
(* `findAnagrams' keeps only the letters of the window in its map, `_lo'   *)
(* a count for every letter.                                               *)
Count(s, c) == Cardinality({k \in DOMAIN s : s[k] = c})
CountsOf(s) == [c \in ToSet(s) |-> Count(s, c)]

IsValid(target, window) ==
  \A c \in DOMAIN window : c \in DOMAIN target /\ window[c] = target[c]

(* ++cnt[c], and --cnt[c] with an erase at 0. *)
More(cnt, c) == [e \in DOMAIN cnt \cup {c} |->
                   (IF e \in DOMAIN cnt THEN cnt[e] ELSE 0) + (IF e = c THEN 1 ELSE 0)]
Less(cnt, c) == [cnt EXCEPT ![c] = @ - 1]
Erased(cnt, c) == IF cnt[c] = 0 THEN Restrict(cnt, DOMAIN cnt \ {c}) ELSE cnt

FindAnagrams(s, p) ==
  LET m == Len(p)
      Note(f, i) == IF IsValid(CountsOf(p), f.window) THEN [f EXCEPT !.ans = @ \cup {i}] ELSE f
      Slide(f, i) == LET noted == Note(f, i)
                     IN  [noted EXCEPT !.window = Erased(More(Less(@, s[i + 1]), s[i + m + 1]), s[i + 1])]
      slid == FoldLeft(Slide, [window |-> CountsOf(SubSeq(s, 1, m)), ans |-> {}],
                       [k \in 1..Len(s) - m |-> k - 1])
  IN  IF m > Len(s) THEN {} ELSE Note(slid, Len(s) - m).ans

FindAnagramsLo(s, p) ==
  LET m == Len(p)
      pCount == [c \in Letters |-> Count(p, c)]
      Slide(f, i) == LET moved == [[f.count EXCEPT ![s[i + 1]] = @ - 1] EXCEPT ![s[i + m + 1]] = @ + 1]
                     IN  [count |-> moved, ans |-> f.ans \cup (IF moved = pCount THEN {i + 1} ELSE {})]
      first == [c \in Letters |-> Count(SubSeq(s, 1, m), c)]
  IN  IF Len(s) < m THEN {}
      ELSE FoldLeft(Slide, [count |-> first, ans |-> IF first = pCount THEN {0} ELSE {}],
                    [k \in 1..Len(s) - m |-> k - 1]).ans

Anagrams(s, p) ==
  {i \in 0..Len(s) - Len(p) : \A c \in Letters : Count(SubSeq(s, i + 1, i + Len(p)), c) = Count(p, c)}

-----------------------------------------------------------------------------
(* disjoint_set/1391.cpp: streets of six kinds in a grid of m * n cells,   *)
(* from the cell above left to the one below right.                        *)
Sides == << <<"L", "R">>, <<"U", "B">>, <<"L", "B">>, <<"R", "B">>, <<"L", "U">>, <<"U", "R">> >>

(* detectL, detectR, detectU and detectB: the cell's id behind that side,  *)
(* if there is one and its street leads here.                              *)
Beside(size, id, side) ==
  LET m == size[1]  n == size[2]  x == id \div n  y == id % n IN
    CASE side = "L" -> {k \in {id - 1} : y - 1 >= 0}
      [] side = "R" -> {k \in {id + 1} : y + 1 < n}
      [] side = "U" -> {k \in {id - n} : x - 1 >= 0}
      [] side = "B" -> {k \in {id + n} : x + 1 < m}

Accepts(side) ==
  CASE side = "L" -> {1, 4, 6} [] side = "R" -> {1, 3, 5} [] side = "U" -> {2, 3, 4} [] side = "B" -> {2, 5, 6}

Detected(size, grid, id, side) == {k \in Beside(size, id, side) : grid[k] \in Accepts(side)}

RECURSIVE FindRoot(_, _)
FindRoot(f, node) == IF f[node] = node THEN node ELSE FindRoot(f, f[node])

UnionNums(f, father, child) ==
  IF FindRoot(f, father) = FindRoot(f, child) THEN f
  ELSE [f EXCEPT ![FindRoot(f, child)] = FindRoot(f, father)]

HasValidPath(size, grid) ==
  LET ids == 0..size[1] * size[2] - 1
      Side(id, f, side) ==
        FoldLeft(LAMBDA g, k : UnionNums(g, k, id), f, Listing(Detected(size, grid, id, side)))
      Cell(f, id) == FoldLeft(LAMBDA g, side : Side(id, g, side), f, Sides[grid[id]])
      sets == FoldLeft(Cell, [id \in ids |-> id], [k \in 1..Cardinality(ids) |-> k - 1])
  IN  FindRoot(sets, 0) = FindRoot(sets, Cardinality(ids) - 1)

(* What the problem asks for: cells that a walk along the streets reaches, *)
(* through sides that both of two neighbours have.                         *)
Joined(size, grid, a, b) ==
  \E s \in ToSet(Sides[grid[a]]) : b \in Beside(size, a, s)
                                   /\ \E t \in ToSet(Sides[grid[b]]) : a \in Beside(size, b, t)

RECURSIVE Walked(_, _, _)
Walked(size, grid, cells) ==
  LET more == cells \cup {b \in DOMAIN grid : \E a \in cells : Joined(size, grid, a, b)}
  IN  IF more = cells THEN cells ELSE Walked(size, grid, more)

-----------------------------------------------------------------------------
(* dynamic_programming/913.cpp: the mouse starts at node 1 and wins in 0,  *)
(* the cat at 2 and never enters 0; a state is <<mouse, cat, turn>>.       *)
Draw == 0
MouseWin == 1
CatWin == 2
Turns == {"mouse", "cat"}
Other(turn) == IF turn = "mouse" THEN "cat" ELSE "mouse"
Winner(turn) == IF turn = "mouse" THEN MouseWin ELSE CatWin

States(g) == (DOMAIN g) \X ((DOMAIN g) \ {0}) \X Turns

Degree(g, s) ==
  IF s[3] = "mouse" THEN Cardinality(g[s[1]])
  ELSE Cardinality(g[s[2]]) - (IF s[2] \in g[0] THEN 1 ELSE 0)

PrevStates(g, s) ==
  IF Other(s[3]) = "mouse" THEN {<<m, s[2], "mouse">> : m \in g[s[1]]}
  ELSE {<<s[1], c, "cat">> : c \in g[s[2]] \ {0}}

(* Mutant of Decide: a player loses by one losing move. *)
DecideEarly(f, result, p) ==
  IF f.results[p] # Draw THEN f
  ELSE IF result = Winner(p[3])
    THEN [f EXCEPT !.results[p] = result, !.qu = Append(@, p)]
  ELSE [f EXCEPT !.degrees[p] = @ - 1, !.results[p] = Winner(Other(p[3])), !.qu = Append(@, p)]

(* What the result of a state means for one from which it is reached. *)
Decide(f, result, p) ==
  IF f.results[p] # Draw THEN f
  ELSE IF result = Winner(p[3])
    THEN [f EXCEPT !.results[p] = result, !.qu = Append(@, p)]
  ELSE IF f.degrees[p] # 1 THEN [f EXCEPT !.degrees[p] = @ - 1]
  ELSE [f EXCEPT !.degrees[p] = @ - 1, !.results[p] = Winner(Other(p[3])), !.qu = Append(@, p)]

RECURSIVE Retrograde(_, _)
Retrograde(g, f) ==
  IF f.qu = <<>> THEN f.results
  ELSE LET s == Head(f.qu)
           Step(e, p) == Decide(e, f.results[s], p)
       IN  Retrograde(g, FoldLeft(Step, [f EXCEPT !.qu = Tail(@)], Listing(PrevStates(g, s))))

CatMouseGame(g) ==
  LET known(s) == IF s[1] = 0 THEN MouseWin ELSE IF s[1] = s[2] THEN CatWin ELSE Draw
      results == [s \in States(g) |-> known(s)]
  IN  Retrograde(g, [results |-> results, degrees |-> [s \in States(g) |-> Degree(g, s)],
                     qu |-> Listing({s \in States(g) : results[s] # Draw})])[<<1, 2, "mouse">>]

(* What the problem asks for: who can force a win, a move at a time.       *)
Moves(g, s) ==
  IF s[3] = "mouse" THEN {<<m, s[2], "cat">> : m \in g[s[1]]}
  ELSE {<<s[1], c, "mouse">> : c \in g[s[2]] \ {0}}

RECURSIVE Forced(_, _, _)
Forced(g, turn, won) ==
  LET open == {s \in States(g) : s[1] # 0 /\ s[1] # s[2]}
      more == won \cup {s \in open : IF s[3] = turn THEN Moves(g, s) \cap won # {}
                                     ELSE Moves(g, s) \subseteq won}
  IN  IF more = won THEN won ELSE Forced(g, turn, more)

WhoWins(g) ==
  LET start == <<1, 2, "mouse">>
      holes == {s \in States(g) : s[1] = 0}
      caught == {s \in States(g) : s[1] = s[2]}
  IN  IF start \in Forced(g, "mouse", holes) THEN MouseWin
      ELSE IF start \in Forced(g, "cat", caught) THEN CatWin ELSE Draw

-----------------------------------------------------------------------------
(* simulation/1706.cpp: where the balls leave a box whose cells send them  *)
(* right (1) or left (-1), or None where one is stuck.                     *)
None == -1

RECURSIVE Fall(_, _, _)
Fall(grid, i, t) ==
  LET n == Len(grid[1])
      stuck == IF grid[i][t] = 1 THEN t = n \/ grid[i][t + 1] = -1 ELSE t = 1 \/ grid[i][t - 1] = 1
  IN  IF i > Len(grid) THEN t - 1 ELSE IF stuck THEN None
      ELSE Fall(grid, i + 1, t + grid[i][t])

FindBall(grid) == [j \in DOMAIN grid[1] |-> Fall(grid, 1, j)]

(* The neighbour that the ball would come to sends it the same way.        *)
FindBallLo(grid) ==
  LET n == Len(grid[1])
      Row(col, row) ==
        LET to == col + row[col] IN
          IF col = 0 \/ to < 1 \/ to > n \/ row[to] # row[col] THEN 0 ELSE to
  IN  [j \in 1..n |-> FoldLeft(LAMBDA col, row : IF col = 0 THEN 0 ELSE Row(col, row), j, grid) - 1]

-----------------------------------------------------------------------------
(* stack/decode_string.cpp: 3[a] stands for aaa.  A text is a sequence of  *)
(* tokens; `func' keeps the numbers and the letters on two stacks,         *)
(* `func_recursion' returns where it has come to.                          *)
Digits == <<"0", "1", "2", "3", "4", "5", "6", "7", "8", "9">>
Number(s) ==
  FoldLeft(LAMBDA k, c : 10 * k + (CHOOSE d \in 0..9 : Digits[d + 1] = c), 0, s)
Times(s, k) == FlattenSeq([i \in 1..k |-> s])
Opening(s, i) == Min({j \in i..Len(s) : s[j] = "["})

RECURSIVE Unstack(_, _, _, _)
Unstack(s, i, nums, chars) ==
  IF i > Len(s) THEN chars
  ELSE IF s[i] \in ToSet(Digits)
    THEN LET j == Opening(s, i)
         IN  Unstack(s, j, Append(nums, Number(SubSeq(s, i, j - 1))), chars)
  ELSE IF s[i] = "]"
    THEN LET open == Max({k \in DOMAIN chars : chars[k] = "["})
             again == Times(SubSeq(chars, open + 1, Len(chars)), Last(nums))
         IN  Unstack(s, i + 1, Front(nums), SubSeq(chars, 1, open - 1) \o again)
  ELSE Unstack(s, i + 1, nums, Append(chars, s[i]))

RECURSIVE FuncRecursion(_, _, _)
FuncRecursion(s, pos, ans) ==
  IF pos > Len(s) THEN [ans |-> ans, pos |-> pos]
  ELSE IF s[pos] \in ToSet(Digits)
    THEN LET j   == Opening(s, pos)
             res == FuncRecursion(s, j + 1, <<>>)
         IN  FuncRecursion(s, res.pos, ans \o Times(res.ans, Number(SubSeq(s, pos, j - 1))))
  ELSE IF s[pos] = "]" THEN [ans |-> ans, pos |-> pos + 1]
  ELSE FuncRecursion(s, pos + 1, Append(ans, s[pos]))

(* Texts with what they stand for; brackets are nested up to that depth.   *)
RECURSIVE Coded(_)
Coded(depth) ==
  LET letters == {[text |-> w, plain |-> w] : w \in {<<>>, <<"a">>, <<"b", "a">>}}
      Pack(c, digits) == [text |-> digits \o <<"[">> \o c.text \o <<"]">>,
                          plain |-> Times(c.plain, Number(digits))]
      Join(c, d) == [text |-> c.text \o d.text, plain |-> c.plain \o d.plain]
  IN  IF depth = 0 THEN letters
      ELSE letters \cup {Join(l, Join(Pack(c, digits), d)) : l \in letters, c \in Coded(depth - 1),
                           digits \in {<<"2">>, <<"1", "0">>}, d \in Coded(depth - 1)}

-----------------------------------------------------------------------------
(* The inputs that the problems allow. *)
Arrays == Seqs(Numbers, MaxLen)

Repeating(k) ==   \* of k + 1 numbers, one more than once
  {s \in [1..k + 1 -> 1..k] :
     Cardinality({x \in 1..k : Cardinality({i \in DOMAIN s : s[i] = x}) > 1}) = 1}

Crops ==   \* <<apples, days>>; none of the one exactly if none of the other
  UNION {{c \in [1..k -> 0..MaxDays] \X [1..k -> 0..MaxDays] :
            \A i \in 1..k : c[1][i] = 0 <=> c[2][i] = 0} : k \in 1..MaxDays}

Grids == UNION {{size} \X [0..size[1] * size[2] - 1 -> 1..6] : size \in GridSizes}

GraphsOf(k) ==   \* undirected, and either player can always move
  {g \in {[i \in 0..k - 1 |-> {j \in 0..k - 1 : {i, j} \in edges}] :
            edges \in SUBSET kSubset(2, 0..k - 1)} :
     g[0] # {} /\ \A i \in 1..k - 1 : g[i] \ {0} # {}}

Init ==
  /\ answers = {} /\ wanted = 0
  /\ \/ problem \in {"sort", "temperatures", "jumps"} /\ input \in Arrays
     \/ problem = "kth" /\ \E s \in Arrays : \E k \in 1..Len(s) : input = <<s, k>>
     \/ problem = "duplicate" /\ \E k \in 1..MaxLen - 1 : input \in Repeating(k)
     \/ problem = "apples" /\ input \in Crops
     \/ problem = "anagrams" /\ input \in Seqs(Letters, Texts) \X Seqs(Letters, Texts - 1)
     \/ problem = "path" /\ input \in Grids
     \/ problem = "balls" /\ \E r, c \in 1..3 : input \in [1..r -> [1..c -> {1, -1}]]
     \/ problem = "decode" /\ input \in Coded(Depth)
     \/ problem = "game" /\ \E k \in Nodes : input \in GraphsOf(k)

Solve(which, found, should) ==
  /\ problem = which /\ answers = {}
  /\ answers' = found /\ wanted' = should
  /\ UNCHANGED <<problem, input>>

Solved == answers # {} /\ UNCHANGED vars

Next ==
  \/ Solved
  \/ Solve("sort", {BubbleHead(input), BubbleTail(input), MergeSort(input),
                    QuickSort(input, 1, Len(input))}, Ascending(input))
  \/ Solve("kth", {FindKthLargest(input[1], input[2]), FindKthLargestDebug(input[1], input[2])},
           Reverse(Ascending(input[1]))[input[2]])
  \/ Solve("duplicate", {FindDuplicateMy(input), FindDuplicateOvertime(input), FindDuplicate(input)},
           CHOOSE x \in ToSet(input) : Cardinality({i \in DOMAIN input : input[i] = x}) > 1)
  \/ Solve("temperatures", {TemperaturesMy(input), TemperaturesRefine(input)}, TemperaturesBf(input))
  \/ Solve("jumps", {MinJumps(input), MinJumpsCopilot(input)}, FewestJumps(input))
  \/ Solve("apples", {EatenApples(input[1], input[2]), EatenApplesMy(input[1], input[2])},
           BestDiet(input[1], input[2], 0))
  \/ Solve("anagrams", {FindAnagrams(input[1], input[2]), FindAnagramsLo(input[1], input[2])},
           Anagrams(input[1], input[2]))
  \/ Solve("path", {HasValidPath(input[1], input[2])},
           Cardinality(DOMAIN input[2]) - 1 \in Walked(input[1], input[2], {0}))
  \/ Solve("balls", {FindBall(input)}, FindBallLo(input))
  \/ Solve("decode", {Unstack(input.text, 1, <<>>, <<>>), FuncRecursion(input.text, 1, <<>>).ans},
           input.plain)
  \/ Solve("game", {CatMouseGame(input)}, WhoWins(input))

Spec == Init /\ [][Next]_vars

-----------------------------------------------------------------------------
(* Every solution of a problem gives the answer that the problem asks for, *)
(* and so the same as the others (bubble_sort.cpp:26-50,                   *)
(* merge_sort.cpp:5-36, quick_sort.cpp:49-77, and the LeetCode solutions   *)
(* 215, 287, 438, 739, 913, 1345, 1391, 1705, 1706 and decode_string).     *)
AnswersMatch == answers # {} => answers = {wanted}
==============================================================================
