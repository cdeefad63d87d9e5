---------------------------- MODULE TimerListUse -----------------------------
(***************************************************************************)
(* A sorted_timer_list under every sequence of legal calls: timers are     *)
(* created and added, put off, deleted, and fired by ticks, while the      *)
(* clock advances.  The list implements TimerQueue.                        *)
(***************************************************************************)
EXTENDS SortedTimerList

CONSTANTS MaxTime    \* bound of the clock and of every expiry

ASSUME UseAssumption == IsFiniteSet(Timers) /\ MaxTime \in Nat /\ Null \notin Nat

VARIABLES lst,       \* the sorted_timer_list
          inUse,     \* the timers that exist
          now,       \* what time(NULL) returns
          cur        \* the local variable cur of a running tick, or Null

useVars == <<lst, inUse, now, cur>>

UseInit ==
  /\ lst = EmptyList
  /\ inUse = {}
  /\ now = 0
  /\ cur = Null

ClockMoves ==
  /\ now < MaxTime
  /\ now' = now + 1
  /\ UNCHANGED <<lst, inUse, cur>>

Add(t, e) ==
  /\ cur = Null
  /\ t \notin inUse
  /\ inUse' = inUse \cup {t}
  /\ lst' = AddTimer(NewTimer(lst, t, e), t)
  /\ UNCHANGED <<now, cur>>

(* adjust_timer only handles the case of a later expiry. *)
Extend(t, e) ==
  /\ cur = Null
  /\ t \in inUse /\ e >= lst.expire[t]
  /\ lst' = AdjustTimer(SetExpire(lst, t, e), t)
  /\ UNCHANGED <<inUse, now, cur>>

Delete(t) ==
  /\ cur = Null
  /\ t \in inUse
  /\ inUse' = inUse \ {t}
  /\ lst' = DelTimer(lst, t)
  /\ UNCHANGED <<now, cur>>

(* tick reads the clock once, and not at all when the list is empty. *)
BeginTick ==
  /\ cur = Null
  /\ lst.head # Null
  /\ cur' = now
  /\ UNCHANGED <<lst, inUse, now>>

Fire ==
  /\ cur # Null
  /\ HeadIsDue(lst, cur)
  /\ inUse' = inUse \ {lst.head}
  /\ lst' = PopHead(lst)
  /\ UNCHANGED <<now, cur>>

EndTick ==
  /\ cur # Null
  /\ ~HeadIsDue(lst, cur)
  /\ cur' = Null
  /\ UNCHANGED <<lst, inUse, now>>

UseNext ==
  \/ ClockMoves
  \/ \E t \in Timers, e \in 0..MaxTime : Add(t, e) \/ Extend(t, e)
  \/ \E t \in Timers : Delete(t)
  \/ BeginTick \/ Fire \/ EndTick

UseSpec == UseInit /\ [][UseNext]_useVars

-----------------------------------------------------------------------------
(* The pointers are consistent, the list holds exactly the timers that     *)
(* exist (nothing deleted is linked, nothing alive is lost), and it is     *)
(* ascending, which tick relies on to stop early                           *)
(* (ascending_linkedlist_timer_impl.h:46-153, :122).                       *)
ListIntact == WellLinked(lst) /\ Linked(lst) = inUse /\ Ascending(lst)

(* What is due fires, the earliest first, in the first tick that is not    *)
(* too early, and nothing after its deletion                               *)
(* (ascending_linkedlist_timer_impl.h:104-125): the list implements the    *)
(* abstract timer queue.                                                   *)
Queue == INSTANCE TimerQueue WITH
           None <- Null, pending <- inUse, due <- lst.expire

ImplementsTimerQueue == Queue!Spec
==============================================================================
