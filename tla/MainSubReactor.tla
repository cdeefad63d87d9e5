--------------------------- MODULE MainSubReactor ----------------------------
(***************************************************************************)
(* The echo server of 30days_make_cpp_server/5_main_sub_reactor.  The main *)
(* thread runs the main reactor: it accepts connections, hands each to the *)
(* sub-reactor with index fd % Reactors, and echoes lines of standard      *)
(* input to every connection.  Each sub-reactor runs in a pool thread: it  *)
(* echoes what its clients send and deletes a connection at end of file.   *)
(* All sockets are registered edge-triggered.                              *)
(*                                                                         *)
(* A client, its socket, its Connection and its Channel are created once,  *)
(* so the client's name stands for all of them; file descriptors are       *)
(* reused.  The map Server::connections and the delete callbacks are       *)
(* shared by the threads without a lock: where two threads are about to    *)
(* touch the map and one of them writes, the process may be lost.          *)
(***************************************************************************)
EXTENDS Naturals, FiniteSets

CONSTANTS Clients,   \* remote peers, each connecting at most once
          FDs,       \* the descriptors the process may still open
          Cores,     \* what hardware_concurrency() may return; 0 is legal
          MaxSent,   \* bound: chunks a client sends before it closes
          MaxLines,  \* bound: lines typed on standard input
          None       \* no client

ASSUME CoresAssumption == Cores \subseteq Nat /\ IsFiniteSet(Cores)

ASSUME FDsAssumption == FDs \subseteq Nat /\ IsFiniteSet(FDs)

ASSUME NoneAssumption == None \notin Clients \cup FDs

VARIABLES
  \* the kernel
  peer,         \* [Clients -> "new" | "open" | "closed"]: the remote end
  sent,         \* chunks each client has sent
  unread,       \* chunks in each socket's receive queue
  reset,        \* [Clients -> "no" | "pending" | "seen"]: connection reset
  backlog,      \* clients in the listen queue
  fd,           \* the descriptor of each client's socket, or None
  edge,         \* client sockets with an unreported edge
  listenEdge,   \* the listening socket has an unreported edge
  lines,        \* lines readable on standard input
  typed,        \* lines typed so far
  stdinEdge,    \* standard input has an unreported edge
  \* the server's objects
  size,         \* the number of sub-reactors and of pool threads
  connections,  \* [FDs -> Clients \cup {None}]: Server::connections
  alive,        \* Connections that exist, their Channels being registered
  hasCallback,  \* Connections whose deleteConnectionCallback is set
  lost,         \* how the process was lost, or "no"
  \* the main thread
  mpc, mbatch, mconn, mfd, acceptFailed,
  \* the sub-reactor threads
  spc, sbatch, sconn

kernelVars == <<peer, sent, unread, reset, backlog, fd, edge, listenEdge>>
stdinVars  == <<lines, typed, stdinEdge>>
serverVars == <<size, connections, alive, hasCallback>>
mainVars   == <<mpc, mbatch, mconn, mfd, acceptFailed>>
subVars    == <<spc, sbatch, sconn>>
vars == <<kernelVars, stdinVars, serverVars, lost, mainVars, subVars>>

Subs == UNION {0..(n - 1) : n \in Cores \ {0}}

OpenFDs == {fd[c] : c \in Clients} \ {None}

Lowest(S) == CHOOSE n \in S : \A m \in S : n <= m

(* The sub-reactor of a descriptor: idx in handleNewConnection. *)
ReactorOf(f) == f % size

(* read() would return something other than EAGAIN. *)
Readable(c) == unread[c] > 0 \/ peer[c] = "closed" \/ reset[c] # "no"

Init ==
  /\ peer = [c \in Clients |-> "new"]
  /\ sent = [c \in Clients |-> 0]
  /\ unread = [c \in Clients |-> 0]
  /\ reset = [c \in Clients |-> "no"]
  /\ backlog = {}
  /\ fd = [c \in Clients |-> None]
  /\ edge = {} /\ listenEdge = FALSE
  /\ lines = 0 /\ typed = 0 /\ stdinEdge = FALSE
  /\ connections = [f \in FDs |-> None]
  /\ alive = {} /\ hasCallback = {}
  /\ mpc = "wait" /\ mbatch = {} /\ mconn = None /\ mfd = None
  /\ acceptFailed = FALSE
  /\ spc = [r \in Subs |-> "wait"]
  /\ sbatch = [r \in Subs |-> {}]
  /\ sconn = [r \in Subs |-> None]
  /\ size \in Cores /\ lost = "no"

(* The process ends, or its behaviour is undefined from here on: nothing   *)
(* of its state or of its peers is kept.                                   *)
Lose(how) ==
  /\ peer' = [c \in Clients |-> "new"]
  /\ sent' = [c \in Clients |-> 0]
  /\ unread' = [c \in Clients |-> 0]
  /\ reset' = [c \in Clients |-> "no"]
  /\ backlog' = {}
  /\ fd' = [c \in Clients |-> None]
  /\ edge' = {} /\ listenEdge' = FALSE
  /\ lines' = 0 /\ typed' = 0 /\ stdinEdge' = FALSE
  /\ connections' = [f \in FDs |-> None]
  /\ alive' = {} /\ hasCallback' = {}
  /\ mpc' = "wait" /\ mbatch' = {} /\ mconn' = None /\ mfd' = None
  /\ acceptFailed' = FALSE
  /\ spc' = [r \in Subs |-> "wait"]
  /\ sbatch' = [r \in Subs |-> {}]
  /\ sconn' = [r \in Subs |-> None]
  /\ lost' = how /\ UNCHANGED size

-----------------------------------------------------------------------------
(* The environment: peers and the terminal.  An arrival raises an edge on  *)
(* a registered socket.                                                    *)
RaiseEdge(c) == edge' = IF c \in alive THEN edge \cup {c} ELSE edge

Connect(c) ==
  /\ peer[c] = "new"
  /\ peer' = [peer EXCEPT ![c] = "open"]
  /\ backlog' = backlog \cup {c}
  /\ listenEdge' = TRUE
  /\ UNCHANGED <<sent, unread, reset, fd, edge>>

Send(c) ==
  /\ peer[c] = "open" /\ sent[c] < MaxSent
  /\ sent' = [sent EXCEPT ![c] = @ + 1]
  /\ unread' = [unread EXCEPT ![c] = @ + 1]
  /\ RaiseEdge(c)
  /\ UNCHANGED <<peer, reset, backlog, fd, listenEdge>>

Close(c) ==
  /\ peer[c] = "open"
  /\ peer' = [peer EXCEPT ![c] = "closed"]
  /\ sent' = [sent EXCEPT ![c] = 0]
  /\ RaiseEdge(c)
  /\ UNCHANGED <<unread, reset, backlog, fd, listenEdge>>

(* An abortive close discards what was not read yet. *)
Abort(c) ==
  /\ peer[c] = "open"
  /\ peer' = [peer EXCEPT ![c] = "closed"]
  /\ reset' = [reset EXCEPT ![c] = "pending"]
  /\ unread' = [unread EXCEPT ![c] = 0]
  /\ sent' = [sent EXCEPT ![c] = 0]
  /\ RaiseEdge(c)
  /\ UNCHANGED <<backlog, fd, listenEdge>>

TypeLine ==
  /\ typed < MaxLines
  /\ typed' = typed + 1
  /\ lines' = lines + 1
  /\ stdinEdge' = TRUE

Environment ==
  \/ /\ \E c \in Clients : Connect(c) \/ Send(c) \/ Close(c) \/ Abort(c)
     /\ UNCHANGED <<stdinVars, serverVars, lost, mainVars, subVars>>
  \/ /\ TypeLine
     /\ UNCHANGED <<kernelVars, serverVars, lost, mainVars, subVars>>

(* ::write on c's socket, its result being ignored.  Writing to a peer     *)
(* that has gone may provoke a reset.                                      *)
WriteTo(c) ==
  /\ reset[c] = "no"
  /\ \/ UNCHANGED <<unread, reset, edge>>
     \/ /\ peer[c] = "closed"
        /\ reset' = [reset EXCEPT ![c] = "pending"]
        /\ unread' = [unread EXCEPT ![c] = 0]
        /\ RaiseEdge(c)

(* Writing after the reset raises SIGPIPE, which nobody handles. *)
BrokenPipe(c) == reset[c] # "no"

-----------------------------------------------------------------------------
(* The main thread.  epoll_wait reports the sockets that are ready; the    *)
(* order in which they are handled does not matter to the code.            *)
MWait ==
  /\ mpc = "wait"
  /\ mbatch' = (IF listenEdge /\ backlog # {} THEN {"listen"} ELSE {})
               \cup (IF stdinEdge /\ lines > 0 THEN {"stdin"} ELSE {})
  /\ mbatch' # {}
  /\ mpc' = "dispatch"
  /\ listenEdge' = FALSE /\ stdinEdge' = FALSE
  /\ UNCHANGED <<peer, sent, unread, reset, backlog, fd, edge, lines, typed,
                 serverVars, lost, mconn, mfd, acceptFailed, subVars>>

MDispatch ==
  /\ mpc = "dispatch"
  /\ \/ /\ mbatch = {}
        /\ mpc' = "wait"
        /\ UNCHANGED mbatch
     \/ \E ch \in mbatch :
          /\ mbatch' = mbatch \ {ch}
          /\ mpc' = IF ch = "listen" THEN "accept" ELSE "stdin"
  /\ UNCHANGED <<kernelVars, stdinVars, serverVars, lost, mconn, mfd, acceptFailed, subVars>>

(* One round of acceptConnection's loop.  accept fails with EAGAIN when    *)
(* the queue is empty and may fail otherwise (EMFILE, ENFILE, ENOBUFS);    *)
(* both give a null ClientSocket, which ends the loop.                     *)
MAccept ==
  /\ mpc = "accept"
  /\ \/ /\ \/ backlog = {} /\ acceptFailed' = FALSE
           \/ backlog # {} /\ acceptFailed' = TRUE
        /\ mpc' = "dispatch"
        /\ UNCHANGED <<backlog, fd, mconn>>
     \/ /\ FDs \ OpenFDs # {}
        /\ \E c \in backlog :
             /\ backlog' = backlog \ {c}
             /\ fd' = [fd EXCEPT ![c] = Lowest(FDs \ OpenFDs)]
             /\ mconn' = c
        /\ mpc' = "register"
        /\ UNCHANGED acceptFailed
  /\ UNCHANGED <<peer, sent, unread, reset, edge, listenEdge, stdinVars,
                 serverVars, lost, mbatch, mfd, subVars>>

(* The Connection's constructor ends with enableReading: the Channel is in *)
(* the sub-reactor's epoll at once, and input that is there is an edge.    *)
MRegister ==
  /\ mpc = "register"
  /\ size # 0
  /\ alive' = alive \cup {mconn}
  /\ edge' = IF Readable(mconn) THEN edge \cup {mconn} ELSE edge
  /\ mpc' = "store"
  /\ UNCHANGED <<peer, sent, unread, reset, backlog, fd, listenEdge, stdinVars,
                 size, connections, hasCallback, lost, mbatch, mconn, mfd, acceptFailed, subVars>>

MStore ==
  /\ mpc = "store"
  /\ connections' = [connections EXCEPT ![fd[mconn]] = mconn]
  /\ mpc' = "callback"
  /\ UNCHANGED <<kernelVars, stdinVars, size, alive, hasCallback, lost,
                 mbatch, mconn, mfd, acceptFailed, subVars>>

(* Mutant of MSetCallback: accept once per event, as 4_hello_class does. *)
MSetCallbackAcceptOnce ==
  /\ mpc = "callback"
  /\ hasCallback' = hasCallback \cup {mconn}
  /\ mpc' = "dispatch"
  /\ mconn' = None
  /\ UNCHANGED <<kernelVars, stdinVars, size, connections, alive, lost,
                 mbatch, mfd, acceptFailed, subVars>>

MSetCallback ==
  /\ mpc = "callback"
  /\ hasCallback' = hasCallback \cup {mconn}
  /\ mpc' = "accept"
  /\ mconn' = None
  /\ UNCHANGED <<kernelVars, stdinVars, size, connections, alive, lost,
                 mbatch, mfd, acceptFailed, subVars>>

(* echoAll: one read of standard input, which on a terminal gives one      *)
(* line, then the iteration over the map.                                  *)
Stored == {f \in FDs : connections[f] # None}

MReadLine ==
  /\ mpc = "stdin"
  /\ lines' = lines - 1
  /\ IF Stored = {}
       THEN mpc' = "dispatch" /\ UNCHANGED mfd
       ELSE mpc' = "load" /\ mfd' = Lowest(Stored)
  /\ UNCHANGED <<kernelVars, typed, stdinEdge, serverVars, lost,
                 mbatch, mconn, acceptFailed, subVars>>

MLoad ==
  /\ mpc = "load"
  /\ connections[mfd] # None
  /\ mconn' = connections[mfd]
  /\ mpc' = "write"
  /\ UNCHANGED <<kernelVars, stdinVars, serverVars, lost, mbatch, mfd, acceptFailed, subVars>>

MWrite ==
  /\ mpc = "write"
  /\ mconn \in alive
  /\ WriteTo(mconn)
  /\ mpc' = "next"
  /\ UNCHANGED <<peer, sent, backlog, fd, listenEdge, stdinVars, serverVars, lost,
                 mbatch, mconn, mfd, acceptFailed, subVars>>

MNext ==
  /\ mpc = "next"
  /\ connections[mfd] = mconn
  /\ LET later == {f \in Stored : f > mfd}
     IN  IF later = {}
           THEN mpc' = "dispatch" /\ mfd' = None
           ELSE mpc' = "load" /\ mfd' = Lowest(later)
  /\ mconn' = None
  /\ UNCHANGED <<kernelVars, stdinVars, serverVars, lost, mbatch, acceptFailed, subVars>>

(* What ends the main thread's luck: no sub-reactor to choose from         *)
(* (fd % 0), an iterator whose node was erased, a Connection that was      *)
(* deleted under the iteration, a peer that is gone.                       *)
MLose ==
  \/ mpc = "register" /\ size = 0 /\ Lose("sigfpe")
  \/ mpc = "load" /\ connections[mfd] = None /\ Lose("dangling")
  \/ mpc = "write" /\ mconn \notin alive /\ Lose("dangling")
  \/ mpc = "write" /\ mconn \in alive /\ BrokenPipe(mconn) /\ Lose("sigpipe")
  \/ mpc = "next" /\ connections[mfd] # mconn /\ Lose("dangling")

MainStep ==
  \/ MWait \/ MDispatch
  \/ MAccept \/ MRegister \/ MStore \/ MSetCallback
  \/ MReadLine \/ MLoad \/ MWrite \/ MNext
  \/ MLose

-----------------------------------------------------------------------------
(* A sub-reactor thread.  epoll_wait(-1) reports the ready sockets of this *)
(* reactor, dropping edges whose input is gone.                            *)
EdgesOf(r) == {c \in edge : ReactorOf(fd[c]) = r}

SWait(r) ==
  /\ r < size
  /\ spc[r] = "wait"
  /\ \E c \in EdgesOf(r) : Readable(c)
  /\ sbatch' = [sbatch EXCEPT ![r] = {c \in EdgesOf(r) : Readable(c)}]
  /\ edge' = edge \ EdgesOf(r)
  /\ spc' = [spc EXCEPT ![r] = "dispatch"]
  /\ UNCHANGED <<peer, sent, unread, reset, backlog, fd, listenEdge, stdinVars,
                 serverVars, lost, mainVars, sconn>>

SDispatch(r) ==
  /\ spc[r] = "dispatch"
  /\ \/ /\ sbatch[r] = {}
        /\ spc' = [spc EXCEPT ![r] = "wait"]
        /\ UNCHANGED <<sbatch, sconn>>
     \/ \E c \in sbatch[r] :
          /\ sbatch' = [sbatch EXCEPT ![r] = @ \ {c}]
          /\ sconn' = [sconn EXCEPT ![r] = c]
          /\ spc' = [spc EXCEPT ![r] = "read"]
  /\ UNCHANGED <<kernelVars, stdinVars, serverVars, lost, mainVars>>

(* Mutant of SReadData: one read per event, as with level triggering. *)
SReadDataOnce(r) ==
  /\ spc[r] = "read"
  /\ LET c == sconn[r] IN
       /\ unread[c] > 0
       /\ unread' = [unread EXCEPT ![c] = @ - 1]
  /\ spc' = [spc EXCEPT ![r] = "dispatch"]
  /\ sconn' = [sconn EXCEPT ![r] = None]
  /\ UNCHANGED <<peer, sent, reset, backlog, fd, edge, listenEdge, stdinVars,
                 serverVars, lost, mainVars, sbatch>>

(* One round of echo's loop; each outcome of ::read is an action.          *)
SReadData(r) ==
  /\ spc[r] = "read"
  /\ LET c == sconn[r] IN
       /\ reset[c] # "pending"
       /\ unread[c] > 0
       /\ unread' = [unread EXCEPT ![c] = @ - 1]
  /\ spc' = [spc EXCEPT ![r] = "write"]
  /\ UNCHANGED <<peer, sent, reset, backlog, fd, edge, listenEdge, stdinVars,
                 serverVars, lost, mainVars, sbatch, sconn>>

SWrite(r) ==
  /\ spc[r] = "write"
  /\ WriteTo(sconn[r])
  /\ spc' = [spc EXCEPT ![r] = "read"]
  /\ UNCHANGED <<peer, sent, backlog, fd, listenEdge, stdinVars, serverVars,
                 lost, mainVars, sbatch, sconn>>

(* ECONNRESET is reported once and matches no branch: the loop goes on. *)
SReadError(r) ==
  /\ spc[r] = "read"
  /\ reset[sconn[r]] = "pending"
  /\ reset' = [reset EXCEPT ![sconn[r]] = "seen"]
  /\ UNCHANGED <<peer, sent, unread, backlog, fd, edge, listenEdge, stdinVars,
                 serverVars, lost, mainVars, subVars>>

SReadAgain(r) ==
  /\ spc[r] = "read"
  /\ ~Readable(sconn[r])
  /\ spc' = [spc EXCEPT ![r] = "dispatch"]
  /\ sconn' = [sconn EXCEPT ![r] = None]
  /\ UNCHANGED <<kernelVars, stdinVars, serverVars, lost, mainVars, sbatch>>

(* End of file: deleteConnectionCallback(socket) is called. *)
EndOfFile(r) ==
  /\ spc[r] = "read"
  /\ LET c == sconn[r] IN reset[c] # "pending" /\ unread[c] = 0 /\ Readable(c)

SReadEnd(r) ==
  /\ EndOfFile(r)
  /\ sconn[r] \in hasCallback
  /\ spc' = [spc EXCEPT ![r] = "lookup"]
  /\ UNCHANGED <<kernelVars, stdinVars, serverVars, lost, mainVars, sbatch, sconn>>

(* A write to a peer that is gone, or a call of an empty std::function,    *)
(* whose exception nobody catches.                                         *)
SLose(r) ==
  \/ spc[r] = "write" /\ BrokenPipe(sconn[r]) /\ Lose("sigpipe")
  \/ EndOfFile(r) /\ sconn[r] \notin hasCallback /\ Lose("badcall")

(* handleDeleteConnection, line by line: look up, erase, delete.           *)
SLookup(r) ==
  /\ spc[r] = "lookup"
  /\ sconn' = [sconn EXCEPT ![r] = connections[fd[@]]]
  /\ spc' = [spc EXCEPT ![r] = "erase"]
  /\ UNCHANGED <<kernelVars, stdinVars, serverVars, lost, mainVars, sbatch>>

(* Mutant of SErase: erase is forgotten. *)
SEraseNothing(r) ==
  /\ spc[r] = "erase"
  /\ spc' = [spc EXCEPT ![r] = "delete"]
  /\ UNCHANGED <<kernelVars, stdinVars, serverVars, lost, mainVars, sbatch, sconn>>

SErase(r) ==
  /\ spc[r] = "erase"
  /\ connections' = [connections EXCEPT ![fd[sconn[r]]] = None]
  /\ spc' = [spc EXCEPT ![r] = "delete"]
  /\ UNCHANGED <<kernelVars, stdinVars, size, alive, hasCallback, lost, mainVars,
                 sbatch, sconn>>

(* Mutant of SDelete: echo goes on reading after the deletion. *)
SDeleteNoBreak(r) ==
  /\ spc[r] = "delete"
  /\ alive' = alive \ {sconn[r]}
  /\ edge' = edge \ {sconn[r]}
  /\ fd' = [fd EXCEPT ![sconn[r]] = None]
  /\ spc' = [spc EXCEPT ![r] = "read"]
  /\ hasCallback' = hasCallback \ {sconn[r]}
  /\ unread' = [unread EXCEPT ![sconn[r]] = 0]
  /\ UNCHANGED <<peer, sent, reset, backlog, listenEdge, stdinVars,
                 size, connections, lost, mainVars, sbatch, sconn>>

(* Mutant of SDelete: the Connection's destructor forgets the socket. *)
SDeleteLeak(r) ==
  /\ spc[r] = "delete"
  /\ alive' = alive \ {sconn[r]}
  /\ edge' = edge \ {sconn[r]}
  /\ spc' = [spc EXCEPT ![r] = "dispatch"]
  /\ sconn' = [sconn EXCEPT ![r] = None]
  /\ hasCallback' = hasCallback \ {sconn[r]}
  /\ unread' = [unread EXCEPT ![sconn[r]] = 0]
  /\ UNCHANGED <<peer, sent, reset, backlog, fd, listenEdge, stdinVars,
                 size, connections, lost, mainVars, sbatch>>

(* The destructor deletes the Channel and closes the descriptor, which     *)
(* removes it from the epoll; echo then breaks out of its loop.            *)
SDelete(r) ==
  /\ spc[r] = "delete"
  /\ alive' = alive \ {sconn[r]}
  /\ edge' = edge \ {sconn[r]}
  /\ fd' = [fd EXCEPT ![sconn[r]] = None]
  /\ spc' = [spc EXCEPT ![r] = "dispatch"]
  /\ sconn' = [sconn EXCEPT ![r] = None]
  /\ hasCallback' = hasCallback \ {sconn[r]}
  /\ unread' = [unread EXCEPT ![sconn[r]] = 0]
  /\ UNCHANGED <<peer, sent, reset, backlog, listenEdge, stdinVars,
                 size, connections, lost, mainVars, sbatch>>

SubStep(r) ==
  \/ SWait(r) \/ SDispatch(r)
  \/ SReadData(r) \/ SWrite(r) \/ SReadError(r) \/ SReadAgain(r) \/ SReadEnd(r)
  \/ SLookup(r) \/ SErase(r) \/ SDelete(r)
  \/ SLose(r)

-----------------------------------------------------------------------------
(* Two threads about to access the map, at least one of them to change it: *)
(* a data race, after which the process state is lost.  operator[] of a    *)
(* key that is present only reads.                                         *)
MainReads   == mpc \in {"stdin", "load", "next"}
MainChanges == mpc = "store"
SubReads(r)   == spc[r] = "lookup"
SubChanges(r) == spc[r] = "erase"

MapRace ==
  \E r \in Subs :
    \/ SubChanges(r) /\ (MainReads \/ MainChanges)
    \/ SubReads(r) /\ MainChanges
    \/ SubChanges(r) /\ \E q \in Subs \ {r} : SubReads(q) \/ SubChanges(q)

RaceOutcome == MapRace /\ Lose("race")

Next ==
  /\ lost = "no"
  /\ \/ Environment
     \/ MainStep
     \/ \E r \in Subs : SubStep(r)
     \/ RaceOutcome

Spec == Init /\ [][Next]_vars

(* Every server thread that can go on does; peers and the terminal are not *)
(* obliged to do anything.                                                 *)
FairSpec ==
  /\ Spec
  /\ WF_vars(lost = "no" /\ MainStep)
  /\ \A r \in Subs : WF_vars(lost = "no" /\ SubStep(r))

-----------------------------------------------------------------------------
(* Edge-triggered accepting (Acceptor.cpp:28-41): a client in the listen   *)
(* queue always has an edge pending or the accept loop ahead of it, unless *)
(* accept failed otherwise than with EAGAIN, which strands the queue until *)
(* the next client arrives.                                                *)
NoStrandedConnection ==
  (lost = "no" /\ backlog # {} /\ ~acceptFailed) =>
    listenEdge \/ "listen" \in mbatch \/ mpc \in {"accept", "register", "store", "callback"}

(* Edge-triggered reading (Connection.cpp:24-44, Channel.cpp:22): input on *)
(* a registered socket always has an edge pending, is reported, or is in   *)
(* front of an echo loop that has not seen EAGAIN yet.                     *)
NoStrandedInput ==
  lost = "no" =>
    \A c \in alive : Readable(c) =>
      \/ c \in edge
      \/ \E r \in Subs : c \in sbatch[r] \/ sconn[r] = c

(* A sub-reactor never touches a Channel or Connection that was deleted,   *)
(* and only those whose descriptor it is in charge of, although epoll      *)
(* hands out raw pointers and descriptors are reused at once               *)
(* (Epoll.cpp:69, EventLoop.cpp:20-22, Connection.cpp:34-35).              *)
NoDanglingDispatch ==
  lost = "no" =>
    \A r \in Subs :
      \A c \in (sbatch[r] \cup {sconn[r]}) \ {None} :
        c \in alive /\ fd[c] # None /\ ReactorOf(fd[c]) = r

(* The map and the live connections agree, whatever descriptors were       *)
(* reused: an entry leads to a live connection on that descriptor, and a   *)
(* live connection is in the map except while it is being set up or torn   *)
(* down (Server.cpp:47-57).                                                *)
MapMatchesSockets ==
  lost = "no" =>
    /\ \A f \in Stored : connections[f] \in alive /\ fd[connections[f]] = f
    /\ \A c \in alive :
         \/ connections[fd[c]] = c
         \/ mconn = c /\ mpc = "store"
         \/ \E r \in Subs : sconn[r] = c /\ spc[r] = "delete"

(* A client that has gone is noticed and its descriptor is closed          *)
(* (Server.cpp:57), unless the process is lost.                            *)
DisconnectReleases ==
  \A c \in Clients :
    (peer[c] = "closed" /\ fd[c] # None) ~> (fd[c] = None \/ lost # "no")

(* Server.cpp:57 and Connection.cpp:33: a descriptor is released through   *)
(* the delete callback, so whenever echo reaches end of file the callback  *)
(* is there to be called.                                                  *)
DeleteCallbackSet == lost # "badcall"
==============================================================================
