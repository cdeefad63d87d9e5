----------------------------- MODULE TimerQueue ------------------------------
(***************************************************************************)
(* What the timer containers of linux_server_programming/chapter11_timer   *)
(* promise: a pending timer fires in the first tick whose time is not      *)
(* before its expiry, earlier expiries first, and never otherwise; a tick  *)
(* ends only when nothing that is due is left.  Callers add, adjust and    *)
(* delete between ticks only, so that whatever leaves the container in a   *)
(* tick has fired.                                                         *)
(***************************************************************************)
EXTENDS Naturals

CONSTANTS Timers,    \* the timer objects
          None       \* no tick is running

VARIABLES pending,   \* the timers in the container
          due,       \* the expiry of each timer
          cur        \* the time the running tick works with, or None

vars == <<pending, due, cur>>

Init ==
  /\ pending \in SUBSET Timers
  /\ due \in [Timers -> Nat]
  /\ cur = None

Add(t) ==
  /\ cur = None
  /\ t \notin pending
  /\ pending' = pending \cup {t}
  /\ due'[t] \in Nat
  /\ \A s \in pending : due'[s] = due[s]
  /\ UNCHANGED cur

(* A timer is only ever put off. *)
Adjust(t) ==
  /\ cur = None
  /\ t \in pending
  /\ due'[t] \in Nat /\ due'[t] >= due[t]
  /\ \A s \in pending \ {t} : due'[s] = due[s]
  /\ UNCHANGED <<pending, cur>>

Delete(t) ==
  /\ cur = None
  /\ t \in pending
  /\ pending' = pending \ {t}
  /\ \A s \in pending' : due'[s] = due[s]
  /\ UNCHANGED cur

BeginTick ==
  /\ cur = None
  /\ cur' \in Nat
  /\ UNCHANGED <<pending, due>>

Fire(t) ==
  /\ cur # None
  /\ t \in pending
  /\ due[t] <= cur
  /\ \A s \in pending : due[t] <= due[s]
  /\ pending' = pending \ {t}
  /\ \A s \in pending' : due'[s] = due[s]
  /\ UNCHANGED cur

EndTick ==
  /\ cur # None
  /\ \A s \in pending : due[s] > cur
  /\ cur' = None
  /\ UNCHANGED <<pending, due>>

Next ==
  \/ \E t \in Timers : Add(t) \/ Adjust(t) \/ Delete(t) \/ Fire(t)
  \/ BeginTick
  \/ EndTick

Spec == Init /\ [][Next]_vars
==============================================================================
