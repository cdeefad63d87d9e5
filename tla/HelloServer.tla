----------------------------- MODULE HelloServer -----------------------------
(***************************************************************************)
(* 30days_make_cpp_server/4_hello_class: one EventLoop waits for edges and *)
(* hands a copy of each channel's callback to its thread pool, so that     *)
(* accepting, echoing and echoAll (a line typed at the server) run on the  *)
(* pool's threads, several of them at a time and without locks.            *)
(*                                                                         *)
(* A Connection is named by its client; a queued echo holds a pointer to   *)
(* it and the number of its descriptor, which the next connection may get. *)
(* When the code runs into undefined behaviour, into an exception that     *)
(* nothing catches or into SIGPIPE, the server is lost and the model stops.*)
(***************************************************************************)
EXTENDS Naturals, FiniteSets, Sequences

CONSTANTS Clients,   \* remote peers, each connecting at most once
          FDs,       \* numbers of descriptors
          Workers,   \* the pool's threads
          MaxSent,   \* bound: messages of a client
          MaxLines,  \* bound: lines typed at the server
          Resetting, \* bound: clients that may reset their connection
          None

Listener == "listener"
Stdin    == "stdin"
Accept   == [run |-> "accept", conn |-> None, fd |-> None]
EchoAll  == [run |-> "echoAll", conn |-> None, fd |-> None]
NoTask   == [run |-> "none", conn |-> None, fd |-> None]

VARIABLES
  peer, sent, unread,   \* the clients, and what the sockets hold of theirs
  err,                  \* a reset connection's error: "no", "reset", "pipe" or "seen"
  backlog,              \* the listen queue
  lines,                \* lines typed and not read
  fd,                   \* each connection's descriptor, None when closed
  edges,                \* channels that epoll_wait would report
  batch,                \* what getActiveChannels returned and is not handled yet
  tasks,                \* the pool's queue
  wpc, wtask,           \* what each worker is doing
  deleted,              \* Connections that were deleted
  connections,          \* the Server's map
  hasCallback,          \* Connections with a deleteConnectionCallback
  lost

peerVars == <<peer, sent, unread, err>>
connVars == <<deleted, connections, hasCallback>>
vars == <<peerVars, backlog, lines, fd, edges, batch, tasks, wpc, wtask, connVars, lost>>

Init ==
  /\ peer = [c \in Clients |-> "new"] /\ sent = [c \in Clients |-> 0]
  /\ unread = [c \in Clients |-> 0] /\ err = [c \in Clients |-> "no"]
  /\ backlog = <<>> /\ lines = 0
  /\ fd = [c \in Clients |-> None]
  /\ edges = {} /\ batch = {} /\ tasks = <<>>
  /\ wpc = [w \in Workers |-> "idle"] /\ wtask = [w \in Workers |-> NoTask]
  /\ deleted = {} /\ connections = {} /\ hasCallback = {}
  /\ lost = "no"

Open(c) == fd[c] # None
Ended(c) == peer[c] \in {"shut", "gone"}
Lose(how) == lost' = how

-----------------------------------------------------------------------------
(* The clients and the terminal.  A connection in the listen queue may     *)
(* already receive; what arrives at an accepted one is an edge.  One that  *)
(* is reset while open reports ECONNRESET, one that was shut down by its   *)
(* client before that EPIPE.                                               *)
Connect(c) ==
  /\ peer[c] = "new"
  /\ peer' = [peer EXCEPT ![c] = "open"]
  /\ backlog' = Append(backlog, c)
  /\ edges' = edges \cup {Listener}
  /\ UNCHANGED <<sent, unread, err, lines>>

Say(c) ==
  /\ peer[c] = "open" /\ sent[c] < MaxSent
  /\ sent' = [sent EXCEPT ![c] = @ + 1]
  /\ unread' = [unread EXCEPT ![c] = @ + 1]
  /\ edges' = IF Open(c) THEN edges \cup {c} ELSE edges
  /\ UNCHANGED <<peer, err, backlog, lines>>

Shut(c) ==
  /\ peer[c] = "open"
  /\ peer' = [peer EXCEPT ![c] = "shut"]
  /\ edges' = IF Open(c) THEN edges \cup {c} ELSE edges
  /\ UNCHANGED <<sent, unread, err, backlog, lines>>

Reset(c) ==
  /\ c \in Resetting /\ peer[c] \in {"open", "shut"} /\ c \notin deleted
  /\ peer' = [peer EXCEPT ![c] = "gone"]
  /\ err' = [err EXCEPT ![c] = IF peer[c] = "shut" THEN "pipe" ELSE "reset"]
  /\ edges' = IF Open(c) THEN edges \cup {c} ELSE edges
  /\ UNCHANGED <<sent, unread, backlog, lines>>

Type ==
  /\ lines < MaxLines
  /\ lines' = lines + 1
  /\ edges' = edges \cup {Stdin}
  /\ UNCHANGED <<peerVars, backlog>>

Environment ==
  /\ Type \/ \E c \in Clients : Connect(c) \/ Say(c) \/ Shut(c) \/ Reset(c)
  /\ UNCHANGED <<fd, batch, tasks, wpc, wtask, connVars, lost>>

-----------------------------------------------------------------------------
(* EventLoop::loop.                                                        *)
GetActiveChannels ==
  /\ batch = {} /\ edges # {}
  /\ batch' = edges /\ edges' = {}
  /\ UNCHANGED <<peerVars, backlog, lines, fd, tasks, wpc, wtask, connVars, lost>>

Callback(ch) ==
  CASE ch = Listener -> Accept
    [] ch = Stdin    -> EchoAll
    [] OTHER         -> [run |-> "echo", conn |-> ch, fd |-> fd[ch]]

(* A worker may have deleted the channel in the meantime. *)
HandleEvent(ch) ==
  /\ ch \in batch
  /\ batch' = batch \ {ch}
  /\ IF ch \in deleted
       THEN Lose("deleted channel") /\ UNCHANGED tasks
       ELSE tasks' = Append(tasks, Callback(ch)) /\ UNCHANGED lost
  /\ UNCHANGED <<peerVars, backlog, lines, fd, edges, wpc, wtask, connVars>>

-----------------------------------------------------------------------------
(* The pool's threads.                                                     *)
Take(w) ==
  /\ wpc[w] = "idle" /\ tasks # <<>>
  /\ wtask' = [wtask EXCEPT ![w] = Head(tasks)]
  /\ wpc' = [wpc EXCEPT ![w] = Head(tasks).run]
  /\ tasks' = Tail(tasks)
  /\ UNCHANGED <<peerVars, backlog, lines, fd, edges, batch, connVars, lost>>

Goto(w, pc) == wpc' = [wpc EXCEPT ![w] = pc]
Finish(w) == Goto(w, "idle") /\ wtask' = [wtask EXCEPT ![w] = NoTask]

(* ServerSocket::accept and the constructor of Connection, which adds its  *)
(* channel to epoll; accept takes one connection.                          *)
Construct(w, c) ==
  /\ \E f \in FDs : /\ \A d \in Clients : fd[d] # f
                    /\ \A g \in FDs : g < f => \E d \in Clients : fd[d] = g
                    /\ fd' = [fd EXCEPT ![c] = f]
  /\ edges' = IF unread[c] > 0 \/ Ended(c) THEN edges \cup {c} ELSE edges
  /\ wtask' = [wtask EXCEPT ![w].conn = c]
  /\ Goto(w, "insert")

(* Mutant of AcceptConnection: it goes on for the rest of the queue, as    *)
(* 5_main_sub_reactor's does (the rest is served by a later edge).         *)
AcceptConnections(w) ==
  /\ wpc[w] = "accept" /\ backlog # <<>>
  /\ Construct(w, Head(backlog))
  /\ backlog' = <<>>
  /\ UNCHANGED <<peerVars, lines, batch, tasks, deleted, connections, hasCallback, lost>>

AcceptConnection(w) ==
  /\ wpc[w] = "accept" /\ backlog # <<>>
  /\ Construct(w, Head(backlog))
  /\ backlog' = Tail(backlog)
  /\ UNCHANGED <<peerVars, lines, batch, tasks, deleted, connections, hasCallback, lost>>

(* An accept that fails throws, whatever the reason: no free descriptor,   *)
(* or no connection (the listening socket does not block).                 *)
AcceptFails(w) ==
  /\ wpc[w] = "accept"
  /\ Lose("accept failed")
  /\ UNCHANGED <<peerVars, backlog, lines, fd, edges, batch, tasks, wpc, wtask, connVars>>

(* Server::handleNewConnection1: the map first, the callback after it; the *)
(* connection may be deleted between its registration and either.          *)
Insert(w) ==
  /\ wpc[w] = "insert"
  /\ connections' = connections \cup {wtask[w].conn}
  /\ Goto(w, "setCallback")
  /\ UNCHANGED <<peerVars, backlog, lines, fd, edges, batch, tasks, wtask, deleted, hasCallback, lost>>

SetCallback(w) ==
  /\ wpc[w] = "setCallback"
  /\ hasCallback' = hasCallback \cup {wtask[w].conn}
  /\ Finish(w)
  /\ UNCHANGED <<peerVars, backlog, lines, fd, edges, batch, tasks, deleted, connections, lost>>

-----------------------------------------------------------------------------
(* Connection::echo reads whichever connection has the descriptor now.     *)
At(w, c) == wpc[w] = "echo" /\ fd[c] = wtask[w].fd

(* What is written to the connections of cs, whose result is ignored.  One *)
(* that was reset refuses, with SIGPIPE unless its error was still to be   *)
(* fetched and is not EPIPE.                                               *)
WriteTo(cs) ==
  /\ err' = [c \in Clients |-> IF c \in cs /\ err[c] = "reset" THEN "seen" ELSE err[c]]
  /\ IF \E c \in cs : err[c] \in {"pipe", "seen"} THEN Lose("SIGPIPE") ELSE UNCHANGED lost

(* Mutant of ReadData: one read per event, as with level triggering. *)
ReadDataOnce(w, c) ==
  /\ At(w, c) /\ unread[c] > 0
  /\ unread' = [unread EXCEPT ![c] = @ - 1]
  /\ WriteTo({c})
  /\ Finish(w)
  /\ UNCHANGED <<peer, sent, backlog, lines, fd, edges, batch, tasks, connVars>>

(* A read may return one message or more of them, which are echoed; the    *)
(* loop reads again.                                                       *)
ReadData(w, c) ==
  /\ At(w, c) /\ unread[c] > 0
  /\ \E n \in 1..unread[c] : unread' = [unread EXCEPT ![c] = @ - n]
  /\ WriteTo({c})
  /\ UNCHANGED <<peer, sent, backlog, lines, fd, edges, batch, tasks, wpc, wtask, connVars>>

ReadNothing(w, c) ==
  /\ At(w, c) /\ unread[c] = 0 /\ ~Ended(c)
  /\ Finish(w)
  /\ UNCHANGED <<peerVars, backlog, lines, fd, edges, batch, tasks, connVars, lost>>

(* An error that no branch of the loop is for: it reads again. *)
ReadError(w, c) ==
  /\ At(w, c) /\ unread[c] = 0 /\ err[c] = "reset"
  /\ err' = [err EXCEPT ![c] = "seen"]
  /\ UNCHANGED <<peer, sent, unread, backlog, lines, fd, edges, batch, tasks, wpc, wtask,
                 connVars, lost>>

(* The callback is looked up in the Connection that the task was made for. *)
ReadEnd(w, c) ==
  /\ At(w, c) /\ unread[c] = 0 /\ Ended(c) /\ err[c] # "reset"
  /\ IF wtask[w].conn \in deleted
       THEN Lose("deleted connection") /\ UNCHANGED wpc
       ELSE IF wtask[w].conn \notin hasCallback
         THEN Lose("no callback") /\ UNCHANGED wpc
         ELSE Goto(w, "delete") /\ UNCHANGED lost
  /\ UNCHANGED <<peerVars, backlog, lines, fd, edges, batch, tasks, wtask, connVars>>

(* The descriptor is closed and not used again: read fails with EBADF,     *)
(* which no branch of the loop is for, and the worker reads for ever.      *)
Spinning(w) == wpc[w] = "echo" /\ \A c \in Clients : fd[c] # wtask[w].fd

(* Server::handleDeleteConnection, the destructors of Connection and of    *)
(* the socket: the descriptor is closed, and epoll forgets it.             *)
DeleteConnection(w) ==
  LET c == wtask[w].conn
  IN  /\ wpc[w] = "delete"
      /\ IF c \in deleted
           THEN /\ Lose("deleted twice")
                /\ UNCHANGED <<fd, edges, deleted, connections, wpc, wtask>>
           ELSE /\ connections' = connections \ {c}
                /\ deleted' = deleted \cup {c}
                /\ fd' = [fd EXCEPT ![c] = None]
                /\ edges' = edges \ {c}
                /\ Finish(w)
                /\ UNCHANGED lost
      /\ UNCHANGED <<peerVars, backlog, lines, batch, tasks, hasCallback>>

(* Server::echoAll takes one line and writes it to every connection. *)
EchoLine(w) ==
  /\ wpc[w] = "echoAll" /\ lines > 0
  /\ lines' = lines - 1
  /\ WriteTo(connections)
  /\ Finish(w)
  /\ UNCHANGED <<peer, sent, unread, backlog, fd, edges, batch, tasks, connVars>>

(* Two workers use the map at the same time and one of them changes it.    *)
(* This may go well, by the actions above, or not.                         *)
MapRace(w, v) ==
  /\ w # v
  /\ wpc[w] \in {"insert", "delete"} /\ wpc[v] \in {"insert", "delete", "echoAll"}
  /\ Lose("map race")
  /\ UNCHANGED <<peerVars, backlog, lines, fd, edges, batch, tasks, wpc, wtask, connVars>>

-----------------------------------------------------------------------------
Worker(w) ==
  \/ Take(w) \/ AcceptConnection(w) \/ AcceptFails(w) \/ Insert(w) \/ SetCallback(w)
  \/ \E c \in Clients : \/ ReadData(w, c) \/ ReadNothing(w, c)
                        \/ ReadError(w, c) \/ ReadEnd(w, c)
  \/ DeleteConnection(w) \/ EchoLine(w)
  \/ \E v \in Workers : MapRace(w, v)

Loop == GetActiveChannels \/ \E ch \in Clients \cup {Listener, Stdin} : HandleEvent(ch)

Next ==
  /\ lost = "no"
  /\ Environment \/ Loop \/ \E w \in Workers : Worker(w)

Spec == Init /\ [][Next]_vars

-----------------------------------------------------------------------------
(* Properties. *)

Tasks == {tasks[k] : k \in DOMAIN tasks} \cup {wtask[w] : w \in Workers}

(* As long as the server is not lost, input that a connection has not read *)
(* yet is on its way to a worker or has one: an edge, an event of the      *)
(* batch, a queued echo, or an echo that has not seen EAGAIN.  The edges   *)
(* come once, the echoes run on any thread and the queue outlives the      *)
(* connections (Channel.cpp:9-18, Connection.cpp:24-48).                   *)
NoStrandedInput ==
  lost = "no" =>
    \A c \in Clients :
      Open(c) /\ (unread[c] > 0 \/ Ended(c)) =>
        \/ c \in edges \cup batch
        \/ \E t \in Tasks : t.run = "echo" /\ t.fd = fd[c]

(* Every accept that was handed to the pool finds a connection: accept     *)
(* throws if there is none, and nothing catches what a task throws         *)
(* (ServerSocket.cpp:54-59, ThreadPool.cpp:27, Acceptor.cpp:26-35).        *)
AcceptFinds ==
  Len(backlog) >= Cardinality({w \in Workers : wpc[w] = "accept"})
                  + Cardinality({k \in DOMAIN tasks : tasks[k].run = "accept"})
                  + (IF Listener \in batch THEN 1 ELSE 0)
                  + (IF Listener \in edges THEN 1 ELSE 0)
==============================================================================
