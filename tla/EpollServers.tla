---------------------------- MODULE EpollServers -----------------------------
(***************************************************************************)
(* The single-threaded epoll servers of the repository.  They share one    *)
(* loop - wait, accept once or read - and differ in what style says:       *)
(*   "lt", "et"   lt() and et() of chapter9_io_multiplexing/LT_ET_test.cpp;*)
(*   "tcp_udp"    process_tcp_udp_simultaneously.cpp of the same chapter,  *)
(*                which also echoes datagrams;                             *)
(*   "epoll"      30days_make_cpp_server/3_epoll/server.cpp;               *)
(*   "class"      30days_make_cpp_server/4_hello_class/server.cpp.         *)
(* All listening sockets are edge-triggered, and so are the connections    *)
(* except those of "lt".                                                   *)
(***************************************************************************)
EXTENDS Naturals, FiniteSets

CONSTANTS Clients,        \* remote peers, each connecting at most once
          MaxSent,        \* bound: chunks a client sends
          MaxDatagrams,   \* bound: datagrams sent to a "tcp_udp" server
          None            \* no client

VARIABLES style,
  \* the kernel
  peer,         \* [Clients -> "new" | "open" | "closed"]: the remote end
  sent,         \* chunks each client has sent
  unread,       \* chunks in each socket's receive queue
  err,          \* a reset connection's error: "no", "reset", "pipe" or "seen"
  backlog,      \* clients in the listen queue
  open,         \* clients whose connection the server has open
  edge,         \* what has an unreported edge
  datagrams, arrived,  \* datagrams that wait, and that were ever sent
  \* the server
  pc, batch,    \* the events returned by epoll_wait and not handled yet
  conn,         \* the connection being read
  lost          \* the process was ended by SIGPIPE or by a failed accept

kernelVars == <<peer, sent, unread, err, backlog, open, edge, datagrams, arrived>>
vars == <<style, kernelVars, pc, batch, conn, lost>>

Styles == {"lt", "et", "tcp_udp", "epoll", "class"}

(* How the five servers' loops differ: whether connections are level-      *)
(* triggered; whether data is echoed; whether one read follows another     *)
(* after data and after the end of the stream (et and tcp_udp have no      *)
(* break there, and read the descriptor they have closed); what follows an *)
(* error other than EAGAIN: "close", "again" where no branch is for it, or *)
(* "leave" the connection open; and whether a failed accept ends the       *)
(* server, by errif or an exception, or is not even looked at.             *)
lt      == [level |-> TRUE,  echo |-> FALSE, more |-> FALSE, rereads |-> FALSE,
            error |-> "close", fatal |-> FALSE]
et      == [level |-> FALSE, echo |-> FALSE, more |-> TRUE,  rereads |-> TRUE,
            error |-> "close", fatal |-> FALSE]
tcp_udp == [level |-> FALSE, echo |-> TRUE,  more |-> TRUE,  rereads |-> TRUE,
            error |-> "close", fatal |-> FALSE]
epoll   == [level |-> FALSE, echo |-> TRUE,  more |-> TRUE,  rereads |-> FALSE,
            error |-> "again", fatal |-> TRUE]
class   == [level |-> FALSE, echo |-> TRUE,  more |-> TRUE,  rereads |-> FALSE,
            error |-> "leave", fatal |-> TRUE]

Loop == CASE style = "lt"      -> lt
          [] style = "et"      -> et
          [] style = "tcp_udp" -> tcp_udp
          [] style = "epoll"   -> epoll
          [] OTHER             -> class

Init ==
  /\ style \in Styles
  /\ peer = [c \in Clients |-> "new"]
  /\ sent = [c \in Clients |-> 0] /\ unread = [c \in Clients |-> 0]
  /\ err = [c \in Clients |-> "no"]
  /\ backlog = {} /\ open = {} /\ edge = {}
  /\ datagrams = 0 /\ arrived = 0
  /\ pc = "wait" /\ batch = {} /\ conn = None /\ lost = FALSE

-----------------------------------------------------------------------------
(* Peers.  An arrival raises an edge on a registered socket. *)
Raised(c) == IF c \in open THEN edge \cup {c} ELSE edge

Connect(c) ==
  /\ peer[c] = "new"
  /\ peer' = [peer EXCEPT ![c] = "open"]
  /\ backlog' = backlog \cup {c}
  /\ edge' = edge \cup {"listen"}
  /\ UNCHANGED <<sent, unread, err, open, datagrams, arrived>>

Send(c) ==
  /\ peer[c] = "open" /\ sent[c] < MaxSent
  /\ sent' = [sent EXCEPT ![c] = @ + 1]
  /\ unread' = [unread EXCEPT ![c] = @ + 1]
  /\ edge' = Raised(c)
  /\ UNCHANGED <<peer, err, backlog, open, datagrams, arrived>>

Close(c) ==
  /\ peer[c] = "open"
  /\ peer' = [peer EXCEPT ![c] = "closed"]
  /\ err' \in {err, [err EXCEPT ![c] = "reset"]}
  /\ edge' = Raised(c)
  /\ UNCHANGED <<sent, unread, backlog, open, datagrams, arrived>>

(* A peer that has closed answers what it is sent with a reset. *)
Reset(c) ==
  /\ peer[c] = "closed" /\ err[c] = "no" /\ c \in open \cup backlog
  /\ err' = [err EXCEPT ![c] = "pipe"]
  /\ edge' = Raised(c)
  /\ UNCHANGED <<peer, sent, unread, backlog, open, datagrams, arrived>>

SendDatagram ==
  /\ style = "tcp_udp" /\ arrived < MaxDatagrams
  /\ arrived' = arrived + 1
  /\ datagrams' = datagrams + 1
  /\ edge' = edge \cup {"udp"}
  /\ UNCHANGED <<peer, sent, unread, err, backlog, open>>

Environment ==
  /\ SendDatagram \/ \E c \in Clients : Connect(c) \/ Send(c) \/ Close(c) \/ Reset(c)
  /\ UNCHANGED <<style, pc, batch, conn, lost>>

-----------------------------------------------------------------------------
(* read() would return something other than EAGAIN. *)
Readable(c) == unread[c] > 0 \/ peer[c] = "closed"

(* What epoll_wait reports: an edge whose cause is still there, or, level- *)
(* triggered, whatever is readable.                                        *)
Reported ==
  {c \in open : Readable(c) /\ (c \in edge \/ Loop.level)}
  \cup (IF backlog # {} THEN {"listen"} \cap edge ELSE {})
  \cup (IF datagrams > 0 THEN {"udp"} \cap edge ELSE {})

Wait ==
  /\ pc = "wait"
  /\ batch' = Reported /\ batch' # {}
  /\ edge' = {}
  /\ pc' = "dispatch"
  /\ UNCHANGED <<style, peer, sent, unread, err, backlog, open, datagrams, arrived, conn, lost>>

BatchDone ==
  /\ pc = "dispatch" /\ batch = {}
  /\ pc' = "wait"
  /\ UNCHANGED <<style, kernelVars, batch, conn, lost>>

(* One accept per event.  What a connection has received before it is      *)
(* registered is an edge.                                                  *)
AcceptOne(c) ==
  /\ pc = "dispatch" /\ "listen" \in batch
  /\ batch' = batch \ {"listen"}
  /\ c \in backlog /\ backlog' = backlog \ {c}
  /\ open' = open \cup {c}
  /\ edge' = IF Readable(c) THEN edge \cup {c} ELSE edge
  /\ UNCHANGED <<style, peer, sent, unread, err, datagrams, arrived, pc, conn, lost>>

(* accept finds no free descriptor.  The connection stays in the listen    *)
(* queue; registering descriptor -1 has no effect.                         *)
AcceptFails ==
  /\ pc = "dispatch" /\ "listen" \in batch
  /\ batch' = batch \ {"listen"}
  /\ lost' = Loop.fatal
  /\ UNCHANGED <<style, kernelVars, pc, conn>>

(* One recvfrom and one sendto per event. *)
EchoDatagram ==
  /\ pc = "dispatch" /\ "udp" \in batch
  /\ batch' = batch \ {"udp"}
  /\ datagrams' = datagrams - 1
  /\ UNCHANGED <<style, peer, sent, unread, err, backlog, open, edge, arrived, pc, conn, lost>>

BeginRead(c) ==
  /\ pc = "dispatch" /\ c \in batch
  /\ batch' = batch \ {c}
  /\ conn' = c
  /\ pc' = "read"
  /\ UNCHANGED <<style, kernelVars, lost>>

(* Mutant of AfterData: the edge-triggered loops read once. *)
AfterDataOnce == "dispatch"

AfterData == IF Loop.more THEN "read" ELSE "dispatch"
AfterEnd  == IF Loop.rereads THEN "read" ELSE "dispatch"

Leave(next) ==
  /\ pc' = next
  /\ conn' = IF next = "read" THEN conn ELSE None

(* The echo of what was read, its result being ignored.  A connection that *)
(* was reset refuses, with SIGPIPE unless its error was still to be        *)
(* fetched and is not EPIPE.                                               *)
Echo ==
  /\ err' = [err EXCEPT ![conn] = IF @ = "reset" THEN "seen" ELSE @]
  /\ lost' = (err[conn] \in {"pipe", "seen"})

ReadData ==
  /\ pc = "read" /\ conn \in open /\ unread[conn] > 0
  /\ unread' = [unread EXCEPT ![conn] = @ - 1]
  /\ IF Loop.echo THEN Echo ELSE UNCHANGED <<err, lost>>
  /\ Leave(AfterData)
  /\ UNCHANGED <<style, peer, sent, backlog, open, edge, datagrams, arrived, batch>>

ReadAgain ==
  /\ pc = "read" /\ conn \in open /\ ~Readable(conn)
  /\ Leave("dispatch")
  /\ UNCHANGED <<style, kernelVars, batch, lost>>

CloseConn ==
  /\ open' = open \ {conn}
  /\ edge' = edge \ {conn}

AtEnd == pc = "read" /\ conn \in open /\ unread[conn] = 0 /\ peer[conn] = "closed"

(* A connection that was shut down before it was reset shows only its end. *)
ReadEnd ==
  /\ AtEnd /\ err[conn] # "reset"
  /\ CloseConn
  /\ Leave(AfterEnd)
  /\ UNCHANGED <<style, peer, sent, unread, err, backlog, datagrams, arrived, batch, lost>>

ReadError ==
  /\ AtEnd /\ err[conn] = "reset"
  /\ err' = [err EXCEPT ![conn] = "seen"]
  /\ IF Loop.error = "close" THEN CloseConn ELSE UNCHANGED <<open, edge>>
  /\ Leave(IF Loop.error = "again" THEN "read" ELSE "dispatch")
  /\ UNCHANGED <<style, peer, sent, unread, backlog, datagrams, arrived, batch, lost>>

(* Reading the descriptor just closed: EBADF, a second close that fails,   *)
(* and break.                                                              *)
ReadClosed ==
  /\ pc = "read" /\ conn \notin open
  /\ Leave("dispatch")
  /\ UNCHANGED <<style, kernelVars, batch, lost>>

Server ==
  \/ Wait \/ BatchDone \/ AcceptFails \/ EchoDatagram
  \/ \E c \in Clients : AcceptOne(c) \/ BeginRead(c)
  \/ ReadData \/ ReadAgain \/ ReadEnd \/ ReadError \/ ReadClosed

Next == ~lost /\ (Environment \/ Server)

Spec == Init /\ [][Next]_vars

(* The server's only thread goes on whenever epoll_wait returns. *)
FairSpec == Spec /\ WF_vars(~lost /\ Server)

-----------------------------------------------------------------------------
(* Edge-triggered or not, the loop never forgets input: data of an open    *)
(* connection is behind an edge, in the batch, or with the loop that reads *)
(* it, also when it arrives between epoll_wait and the last read, and so   *)
(* is the end of the stream, except a reset connection's that the server   *)
(* of 4_hello_class has left open (LT_ET_test.cpp:97-114, 4_hello_class/   *)
(* server.cpp:36-43).  And the loop never calls for nothing: what an event *)
(* of the batch reports is still there when its turn comes, so that accept *)
(* and recvfrom find what they were called for - errif lets EAGAIN pass,   *)
(* and a descriptor of -1 would be registered (3_epoll/server.cpp:62-70,   *)
(* process_tcp_udp_simultaneously.cpp:80-96).                              *)
Known(c) == Loop.level \/ c \in edge \/ c \in batch \/ (c = conn /\ pc = "read")

Abandoned(c) == style = "class" /\ err[c] = "seen" /\ unread[c] = 0

EventsCoverInput ==
  /\ \A c \in open : Readable(c) => Known(c) \/ Abandoned(c)
  /\ \A c \in batch \cap Clients : c \in open /\ Readable(c)
  /\ "listen" \in batch => backlog # {}
  /\ "udp" \in batch => datagrams > 0

(* Whatever a connected client sends is read, and its connection is closed *)
(* after it has left (LT_ET_test.cpp:68-79, 97-114; 3_epoll/server.cpp:    *)
(* 75-92), with data and the end of the stream behind one edge, and with   *)
(* arrivals between epoll_wait and the last read.  The exception is the    *)
(* server of 4_hello_class, which never closes a connection that was reset *)
(* while open; and an echo or a failed accept may end the process.         *)
InputIsServed ==
  \A c \in Clients :
    (c \in open /\ Readable(c))
      ~> (c \notin open \/ ~Readable(c) \/ lost \/ (style = "class" /\ err[c] \in {"reset", "seen"}))
==============================================================================
