------------------------------ MODULE TaskQueue ------------------------------
(***************************************************************************)
(* What a thread pool promises its callers, with no thread in sight: the   *)
(* tasks it accepts are started one by one in the order of acceptance,     *)
(* each exactly once, and every started task finishes.  After Close        *)
(* nothing more is accepted, and the pool is Ended only when everything    *)
(* accepted has finished.  ThreadPool implements this specification.       *)
(***************************************************************************)
EXTENDS Naturals, Sequences

CONSTANT Tasks

VARIABLES accepted,   \* the tasks accepted so far, in order
          started,    \* how many of them have been handed to a worker
          finished,   \* the set of tasks whose execution has returned
          phase       \* "open", then "closed", then "ended"

vars == <<accepted, started, finished, phase>>

Init ==
  /\ accepted = <<>>
  /\ started = 0
  /\ finished = {}
  /\ phase = "open"

(* A caller hands over a task that was never handed over before. *)
Submit(t) ==
  /\ phase = "open"
  /\ \A i \in 1..Len(accepted) : accepted[i] # t
  /\ accepted' = Append(accepted, t)
  /\ UNCHANGED <<started, finished, phase>>

(* The oldest accepted task that has not been started is started. *)
Start ==
  /\ started < Len(accepted)
  /\ phase # "ended"
  /\ started' = started + 1
  /\ UNCHANGED <<accepted, finished, phase>>

(* A started task returns, at most once. *)
Finish(t) ==
  /\ \E i \in 1..started : accepted[i] = t
  /\ t \notin finished
  /\ phase # "ended"
  /\ finished' = finished \cup {t}
  /\ UNCHANGED <<accepted, started, phase>>

Close ==
  /\ phase = "open"
  /\ phase' = "closed"
  /\ UNCHANGED <<accepted, started, finished>>

(* The pool is over only when every task it accepted has finished. *)
End ==
  /\ phase = "closed"
  /\ started = Len(accepted)
  /\ \A i \in 1..Len(accepted) : accepted[i] \in finished
  /\ phase' = "ended"
  /\ UNCHANGED <<accepted, started, finished>>

Next ==
  \/ \E t \in Tasks : Submit(t) \/ Finish(t)
  \/ Start
  \/ Close
  \/ End

Spec == Init /\ [][Next]_vars
==============================================================================
