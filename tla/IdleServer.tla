----------------------------- MODULE IdleServer ------------------------------
(***************************************************************************)
(* chapter11_timer/close_nonactivity_connection.cpp: one thread serves     *)
(* clients through an edge-triggered epoll and closes the connections that *)
(* have been quiet for 3 * TIMESLOT.  Signals arrive through a socket pair *)
(* (unified event source); SIGALRM makes the loop call tick on a           *)
(* sorted_timer_list, which is composed in from SortedTimerList.           *)
(*                                                                         *)
(* The unit of time is TIMESLOT.  Expiries are kept relative to the clock: *)
(* list.expire[t] is the time left, 0 standing for "due".  The server only *)
(* ever compares a fresh expiry with others, so how long ago a timer       *)
(* became due makes no difference.                                         *)
(***************************************************************************)
EXTENDS SortedTimerList

CONSTANTS Clients,   \* remote peers, each connecting once
          FDs,       \* the descriptors the process may still open
          listenfd,  \* the listening socket's descriptor
          pipefd0,   \* the descriptor of pipefd[0], the end that is read
          Lifetime,  \* 3 * TIMESLOT in units of TIMESLOT
          MaxSent    \* bound: chunks (recv of 63 bytes) a client sends

ASSUME LifetimeAssumption == Lifetime \in Nat \ {0}

ASSUME FDsAssumption ==
  /\ FDs \subseteq Nat /\ IsFiniteSet(FDs) /\ Null \notin Nat \cup Clients
  /\ listenfd \in Nat \ FDs /\ pipefd0 \in Nat \ FDs /\ listenfd # pipefd0

ASSUME TimersAssumption == IsFiniteSet(Timers) /\ Cardinality(Timers) >= Cardinality(FDs)

VARIABLES
  \* the environment and the kernel
  peer,        \* [Clients -> "new" | "open" | "closed" | "reset"]
  sent,        \* chunks each client has sent
  unread,      \* chunks in each socket's receive queue
  backlog,     \* clients in the listen queue
  conn,        \* [FDs -> Clients \cup {Null}]: the sockets that are open
  edge,        \* descriptors with an edge epoll_wait has not reported
  alarm,       \* time left until SIGALRM, or Null when no alarm is set
  pipe,        \* signals sent into pipefd[1] and not yet received
  \* the server
  list,        \* timer_list
  live,        \* the util_timer objects that exist
  userTimer,   \* [FDs -> Timers \cup {Null}]: users[fd].timer
  timerFD,     \* [Timers -> FDs \cup {Null}]: user_data->sockfd of a timer
  pc,          \* "wait", "handle", "tick", "stopped", "lost"
  batch,       \* the events of this epoll_wait still to be handled
  timeout, stopServer,
  quiet        \* history: time since data was last handled, up to Lifetime

kernelVars == <<peer, sent, unread, backlog, conn, edge>>
timerVars  == <<list, live, userTimer, timerFD>>
loopVars   == <<pc, batch, timeout, stopServer>>
vars == <<kernelVars, alarm, pipe, timerVars, loopVars, quiet>>

Open == {f \in FDs : conn[f] # Null}

Lowest(S) == CHOOSE n \in S : \A m \in S : n <= m

Readable(f) == conn[f] # Null /\ (unread[conn[f]] > 0 \/ peer[conn[f]] # "open")

Ready(ev) ==
  CASE ev = listenfd -> backlog # {}
    [] ev = pipefd0  -> pipe # {}
    [] OTHER         -> Readable(ev)

Init ==
  /\ peer = [c \in Clients |-> "new"]
  /\ sent = [c \in Clients |-> 0]
  /\ unread = [c \in Clients |-> 0]
  /\ backlog = {}
  /\ conn = [f \in FDs |-> Null]
  /\ edge = {}
  /\ alarm = 1
  /\ pipe = {}
  /\ list = EmptyList
  /\ live = {}
  /\ userTimer = [f \in FDs |-> Null]
  /\ timerFD = [t \in Timers |-> Null]
  /\ pc = "wait"
  /\ batch = {}
  /\ timeout = FALSE
  /\ stopServer = FALSE
  /\ quiet = [f \in FDs |-> 0]

-----------------------------------------------------------------------------
(* The environment. *)
EdgeOn(c) == edge' = edge \cup {f \in FDs : conn[f] = c}

Connect(c) ==
  /\ peer[c] = "new"
  /\ peer' = [peer EXCEPT ![c] = "open"]
  /\ backlog' = backlog \cup {c}
  /\ edge' = edge \cup {listenfd}
  /\ UNCHANGED <<sent, unread, conn>>

Send(c) ==
  /\ peer[c] = "open" /\ sent[c] < MaxSent
  /\ sent' = [sent EXCEPT ![c] = @ + 1]
  /\ unread' = [unread EXCEPT ![c] = @ + 1]
  /\ EdgeOn(c)
  /\ UNCHANGED <<peer, backlog, conn>>

(* An orderly close leaves the queued data readable, an abort does not. *)
Leave(c) ==
  /\ peer[c] = "open"
  /\ \/ peer' = [peer EXCEPT ![c] = "closed"] /\ UNCHANGED unread
     \/ peer' = [peer EXCEPT ![c] = "reset"] /\ unread' = [unread EXCEPT ![c] = 0]
  /\ sent' = [sent EXCEPT ![c] = 0]
  /\ EdgeOn(c)
  /\ UNCHANGED <<backlog, conn>>

(* TIMESLOT seconds pass.  The pending alarm is due before more time does, *)
(* and tick, which reads the clock once, does not see the clock move.      *)
Max0(n) == IF n = 0 THEN 0 ELSE n - 1

Advance ==
  /\ alarm # 0
  /\ pc # "tick"
  /\ alarm' = IF alarm = Null THEN Null ELSE alarm - 1
  /\ list' = [list EXCEPT !.expire = [t \in Timers |-> Max0(@[t])]]
  /\ quiet' = [f \in FDs |-> IF f \in Open /\ quiet[f] < Lifetime
                               THEN quiet[f] + 1 ELSE quiet[f]]
  /\ UNCHANGED <<kernelVars, pipe, live, userTimer, timerFD, loopVars>>

(* sig_handler writes the signal's number into the pipe. *)
Signal(sig) ==
  /\ \/ sig = "ALRM" /\ alarm = 0 /\ alarm' = Null
     \/ sig = "TERM" /\ UNCHANGED alarm
  /\ pc \notin {"stopped", "lost"}
  /\ pipe' = pipe \cup {sig}
  /\ edge' = edge \cup {pipefd0}
  /\ UNCHANGED <<peer, sent, unread, backlog, conn, timerVars, loopVars, quiet>>

Environment ==
  \/ /\ \E c \in Clients : Connect(c) \/ Send(c) \/ Leave(c)
     /\ UNCHANGED <<alarm, pipe, timerVars, loopVars, quiet>>
  \/ Advance
  \/ \E sig \in {"ALRM", "TERM"} : Signal(sig)

-----------------------------------------------------------------------------
(* The event loop.                                                         *)
Wait ==
  /\ pc = "wait"
  /\ batch' = {ev \in edge : Ready(ev)}
  /\ batch' # {}
  /\ edge' = {}
  /\ pc' = "handle"
  /\ UNCHANGED <<peer, sent, unread, backlog, conn, alarm, pipe, timerVars,
                 timeout, stopServer, quiet>>

(* One accept per event of the listening socket: a new timer, its expiry   *)
(* and its links to the user data.                                         *)
HandleListen ==
  /\ pc = "handle" /\ listenfd \in batch
  /\ FDs \ Open # {}
  /\ \E c \in backlog, t \in Timers \ live :
       LET f == Lowest(FDs \ Open) IN
         /\ backlog' = backlog \ {c}
         /\ conn' = [conn EXCEPT ![f] = c]
         /\ edge' = IF unread[c] > 0 \/ peer[c] # "open" THEN edge \cup {f} ELSE edge
         /\ live' = live \cup {t}
         /\ timerFD' = [timerFD EXCEPT ![t] = f]
         /\ userTimer' = [userTimer EXCEPT ![f] = t]
         /\ list' = AddTimer(NewTimer(list, t, Lifetime), t)
         /\ quiet' = [quiet EXCEPT ![f] = 0]
  /\ batch' = batch \ {listenfd}
  /\ UNCHANGED <<peer, sent, unread, alarm, pipe, pc, timeout, stopServer>>

(* accept may fail (EMFILE, ENFILE, ENOBUFS), its result is not checked,   *)
(* and users[-1] is written, in front of the array.                        *)
HandleListenFails ==
  /\ pc = "handle" /\ listenfd \in batch
  /\ pc' = "lost"
  /\ UNCHANGED <<kernelVars, alarm, pipe, timerVars, batch, timeout, stopServer, quiet>>

HandleSignals ==
  /\ pc = "handle" /\ pipefd0 \in batch
  /\ timeout' = (timeout \/ "ALRM" \in pipe)
  /\ stopServer' = (stopServer \/ "TERM" \in pipe)
  /\ pipe' = {}
  /\ batch' = batch \ {pipefd0}
  /\ UNCHANGED <<kernelVars, alarm, timerVars, pc, quiet>>

(* cb_func: the socket leaves the epoll and is closed; what was queued on  *)
(* it is gone.                                                             *)
CloseFD(f) ==
  /\ conn' = [conn EXCEPT ![f] = Null]
  /\ edge' = edge \ {f}
  /\ unread' = [unread EXCEPT ![conn[f]] = 0]
  /\ quiet' = [quiet EXCEPT ![f] = 0]

(* Mutant of HandleData: the timer's expiry is raised but not its place. *)
HandleDataNoAdjust(f) ==
  /\ pc = "handle" /\ f \in batch
  /\ unread[conn[f]] > 0
  /\ unread' = [unread EXCEPT ![conn[f]] = @ - 1]
  /\ list' = SetExpire(list, userTimer[f], Lifetime)
  /\ quiet' = [quiet EXCEPT ![f] = 0]
  /\ batch' = batch \ {f}
  /\ UNCHANGED <<peer, sent, backlog, conn, edge, alarm, pipe, live, userTimer,
                 timerFD, pc, timeout, stopServer>>

(* One recv per event: data puts the connection's timer off. *)
HandleData(f) ==
  /\ pc = "handle" /\ f \in batch
  /\ unread[conn[f]] > 0
  /\ unread' = [unread EXCEPT ![conn[f]] = @ - 1]
  /\ LET t == userTimer[f] IN list' = AdjustTimer(SetExpire(list, t, Lifetime), t)
  /\ quiet' = [quiet EXCEPT ![f] = 0]
  /\ batch' = batch \ {f}
  /\ UNCHANGED <<peer, sent, backlog, conn, edge, alarm, pipe, live, userTimer,
                 timerFD, pc, timeout, stopServer>>

(* Mutant of HandleEnd: the connection is closed, its timer stays. *)
HandleEndKeepTimer(f) ==
  /\ pc = "handle" /\ f \in batch
  /\ unread[conn[f]] = 0
  /\ CloseFD(f)
  /\ batch' = batch \ {f}
  /\ UNCHANGED <<peer, sent, backlog, alarm, pipe, list, live, userTimer,
                 timerFD, pc, timeout, stopServer>>

(* recv reports the end or an error: cb_func, then del_timer. *)
HandleEnd(f) ==
  /\ pc = "handle" /\ f \in batch
  /\ unread[conn[f]] = 0
  /\ CloseFD(f)
  /\ list' = DelTimer(list, userTimer[f])
  /\ live' = live \ {userTimer[f]}
  /\ timerFD' = [timerFD EXCEPT ![userTimer[f]] = Null]
  /\ batch' = batch \ {f}
  /\ UNCHANGED <<peer, sent, backlog, alarm, pipe, userTimer,
                 pc, timeout, stopServer>>

(* Mutant of BatchDone: the timers are handled as soon as the signal is     *)
(* seen, before the rest of the batch.                                     *)
BatchInterrupted ==
  /\ pc = "handle" /\ (batch = {} \/ timeout)
  /\ pc' = IF timeout THEN "tick" ELSE IF stopServer THEN "stopped" ELSE "wait"
  /\ UNCHANGED <<kernelVars, alarm, pipe, timerVars, batch, timeout, stopServer, quiet>>

(* After the batch: timers last, then the loop's condition. *)
BatchDone ==
  /\ pc = "handle" /\ batch = {}
  /\ pc' = IF timeout THEN "tick" ELSE IF stopServer THEN "stopped" ELSE "wait"
  /\ UNCHANGED <<kernelVars, alarm, pipe, timerVars, batch, timeout, stopServer, quiet>>

(* One round of tick: cb_func of the head's user, then the head goes. *)
TickFire ==
  /\ pc = "tick"
  /\ HeadIsDue(list, 0)
  /\ CloseFD(timerFD[list.head])
  /\ live' = live \ {list.head}
  /\ list' = PopHead(list)
  /\ timerFD' = [timerFD EXCEPT ![list.head] = Null]
  /\ UNCHANGED <<peer, sent, backlog, alarm, pipe, userTimer, loopVars>>

(* Mutant of TickEnd: the alarm is not set again. *)
TickEndNoAlarm ==
  /\ pc = "tick"
  /\ ~HeadIsDue(list, 0)
  /\ timeout' = FALSE
  /\ pc' = IF stopServer THEN "stopped" ELSE "wait"
  /\ UNCHANGED <<kernelVars, alarm, pipe, timerVars, batch, stopServer, quiet>>

(* The end of timer_handler: one alarm gives one SIGALRM. *)
TickEnd ==
  /\ pc = "tick"
  /\ ~HeadIsDue(list, 0)
  /\ alarm' = 1
  /\ timeout' = FALSE
  /\ pc' = IF stopServer THEN "stopped" ELSE "wait"
  /\ UNCHANGED <<kernelVars, pipe, timerVars, batch, stopServer, quiet>>

Server ==
  \/ Wait \/ HandleListen \/ HandleListenFails \/ HandleSignals
  \/ \E f \in FDs : HandleData(f) \/ HandleEnd(f)
  \/ BatchDone \/ TickFire \/ TickEnd

Next == pc \notin {"stopped", "lost"} /\ (Environment \/ Server)

Spec == Init /\ [][Next]_vars

-----------------------------------------------------------------------------
(* Every open connection has exactly one timer, the two refer to each      *)
(* other, every other timer has been freed, and the list links exactly the *)
(* timers that exist: no callback ever gets a closed or reused descriptor, *)
(* although closing, timing out and accepting happen in one batch          *)
(* (close_nonactivity_connection.cpp:136-146, :183-193, :75-80).           *)
TimersMatchConnections ==
  /\ \A f \in Open : userTimer[f] \in live /\ timerFD[userTimer[f]] = f
  /\ \A t \in live : timerFD[t] \in Open /\ userTimer[timerFD[t]] = t
  /\ WellLinked(list) /\ Linked(list) = live

(* An event that epoll_wait reported is never about a descriptor that was  *)
(* closed, or closed and reused, by an earlier event of the same batch     *)
(* (lines 128-206): its socket is open and there is input.                 *)
NoStaleEvent == \A f \in batch \cap FDs : conn[f] # Null /\ Readable(f)

(* tick closes a connection only after Lifetime without data, and leaves   *)
(* none that is due: what "non-active connection" means at line 70-80 and  *)
(* ascending_linkedlist_timer_impl.h:121-133.                              *)
TickIsExact ==
  [][ pc = "tick" =>
        /\ \A f \in FDs : (f \in Open /\ f \notin Open') => quiet[f] >= Lifetime
        /\ pc' # "tick" => \A f \in Open : quiet[f] < Lifetime ]_vars

(* SIGALRM keeps coming (lines 66-72): as long as the server runs, an      *)
(* alarm is set, or its signal is on the way to the loop with an edge to   *)
(* announce it, or the loop has noted the timeout.                         *)
AlarmNeverLost ==
  pc \notin {"stopped", "lost"} =>
    \/ alarm # Null
    \/ "ALRM" \in pipe /\ (pipefd0 \in edge \/ pipefd0 \in batch)
    \/ timeout

(* A connection whose peer has left is closed in the end, even if the one  *)
(* recv per event stops short of the end of file: the timer gets it.       *)
DeadConnectionsClosed ==
  \A f \in FDs, c \in Clients :
    (conn[f] = c /\ peer[c] \in {"closed", "reset"})
      ~> (conn[f] # c \/ pc \in {"stopped", "lost"})
==============================================================================
