------------------------------- MODULE MCTimers ------------------------------
(***************************************************************************)
(* chapter11_timer, one program per behaviour: the server that closes      *)
(* inactive connections (IdleServer), a sorted_timer_list under every      *)
(* sequence of legal calls (TimerListUse), and a time_wheel and a          *)
(* time_heap likewise (TimeWheel, TimerHeap).  The variable use says which *)
(* one a behaviour is about; the variables of the others keep still.       *)
(***************************************************************************)
EXTENDS IdleServer, TimerListUse

CONSTANTS N, SI, MaxTimeout, MaxTicks,
          ServerTimers,   \* bound: the timers the server gets from new
          WheelTimers,    \* bound: the timers the wheel gets from new
          Capacities      \* the capacities of new heaps

(* The slots are an array that is never empty, SI divides a timeout.       *)
ASSUME WheelAssumption == N \in Nat \ {0} /\ SI \in Nat \ {0} /\ MaxTimeout \in Nat

(* Doubling grows every heap but one of capacity 0.                        *)
ASSUME HeapAssumption == Capacities \subseteq Nat \ {0}

VARIABLES use
VARIABLES slots, cur_slot, prev, next, rotation, time_slot, inWheel, tmp, ticking, ticks, due
VARIABLES array, capacity, cur_size, expire, armed, heapNow, heapTmp, heapCur

Wheel == INSTANCE TimeWheel WITH live <- inWheel

Heap == INSTANCE TimerHeap WITH now <- heapNow, tmp <- heapTmp, cur <- heapCur

wheelVars == <<slots, cur_slot, prev, next, rotation, time_slot, inWheel, tmp, ticking, ticks, due>>
heapVars == <<array, capacity, cur_size, expire, armed, heapNow, heapTmp, heapCur>>
allVars == <<use, vars, useVars, wheelVars, heapVars>>

TimersInit ==
  /\ use \in {"server", "list", "wheel", "heap"}
  /\ Init /\ UseInit /\ Wheel!Init /\ Heap!Init
  /\ use # "heap" => cur_size = 0 /\ \A c \in Capacities : capacity <= c

(* A step of the server.  Which timer new returns makes no difference.     *)
ServerStep(A) == use = "server" /\ A /\ live' \subseteq ServerTimers

TimersNext ==
  \/ ServerStep(Next) /\ UNCHANGED <<use, useVars, wheelVars, heapVars>>
  \/ use = "list" /\ UseNext /\ UNCHANGED <<use, vars, wheelVars, heapVars>>
  \/ /\ use = "wheel" /\ Wheel!Next /\ inWheel' \subseteq WheelTimers
     /\ UNCHANGED <<use, vars, useVars, heapVars>>
  \/ use = "heap" /\ Heap!Next /\ UNCHANGED <<use, vars, useVars, wheelVars>>

(* Time passes, a due alarm is delivered, and the server's thread runs.    *)
(* Peers do nothing they need not do; nobody sends SIGTERM.                *)
TimersSpec ==
  /\ TimersInit /\ [][TimersNext]_allVars
  /\ WF_vars(ServerStep(pc \notin {"stopped", "lost"} /\ Server))
  /\ WF_vars(ServerStep(pc \notin {"stopped", "lost"} /\ Advance))
  /\ WF_vars(ServerStep(Signal("ALRM")))

-----------------------------------------------------------------------------
(* In any position a timer is added, moved or deleted, links and order of  *)
(* list and wheel stay as their functions need them: every timer that      *)
(* exists is linked where it should be, and nothing that was deleted is.   *)
(* The heap stays ordered and without duplicates through growth and lazy   *)
(* deletion (ascending_linkedlist_timer_impl.h:46-153,                     *)
(* time_wheel_timer.h:76-139, min_heap_timer.h:71-166).                    *)
ContainersIntact == ListIntact /\ Wheel!WheelIntact /\ Heap!HeapOrdered

(* All three implement the abstract timer queue: what is due fires, the    *)
(* earliest first, in the first tick that is not too early, and nothing    *)
(* after its deletion (ascending_linkedlist_timer_impl.h:104-125,          *)
(* time_wheel_timer.h:51-60, :102-139, min_heap_timer.h:90-137).           *)
ContainersImplementQueue ==
  ImplementsTimerQueue /\ Wheel!WheelImplementsQueue /\ Heap!HeapImplementsQueue
==============================================================================
