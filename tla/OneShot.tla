------------------------------- MODULE OneShot -------------------------------
(***************************************************************************)
(* chapter9_io_multiplexing/epolloneshot_test.cpp: the main thread starts  *)
(* a worker thread for every event; EPOLLONESHOT keeps a connection from   *)
(* being reported again until its worker has read everything and re-armed  *)
(* it.  The worker's argument is a structure on the main thread's stack,   *)
(* which the next event overwrites whether or not the worker has read it.  *)
(***************************************************************************)
EXTENDS Naturals, FiniteSets

CONSTANTS Clients,      \* remote peers, each connecting at most once
          Workers,      \* the threads that may be created
          MaxSent,      \* bound: chunks a client sends
          None

VARIABLES
  \* the kernel
  peer,         \* [Clients -> "new" | "open" | "closed"]: the remote end
  sent, unread, \* chunks a client has sent, chunks in the receive queue
  backlog,      \* clients in the listen queue
  open,         \* clients whose connection the server has open
  armed,        \* connections epoll_wait may report
  edge,         \* what has an unreported edge
  \* the main thread
  pc, batch,
  sockfd,       \* fds_for_new_worker.sockfd
  unserved,     \* history: connections whose thread could not be created
  \* the workers
  wpc,          \* "none", "start", "read" or "done"
  serves,       \* the worker's local sockfd
  meant         \* history: the connection a worker was created for

kernelVars == <<peer, sent, unread, backlog, open, armed, edge>>
mainVars   == <<pc, batch, sockfd, unserved>>
workerVars == <<wpc, serves, meant>>
vars == <<kernelVars, mainVars, workerVars>>

Init ==
  /\ peer = [c \in Clients |-> "new"]
  /\ sent = [c \in Clients |-> 0] /\ unread = [c \in Clients |-> 0]
  /\ backlog = {} /\ open = {} /\ armed = {} /\ edge = {}
  /\ pc = "wait" /\ batch = {} /\ sockfd = None /\ unserved = {}
  /\ wpc = [w \in Workers |-> "none"]
  /\ serves = [w \in Workers |-> None]
  /\ meant = [w \in Workers |-> None]

-----------------------------------------------------------------------------
Connect(c) ==
  /\ peer[c] = "new"
  /\ peer' = [peer EXCEPT ![c] = "open"]
  /\ backlog' = backlog \cup {c}
  /\ edge' = edge \cup {"listen"}
  /\ UNCHANGED <<sent, unread, open, armed>>

Send(c) ==
  /\ peer[c] = "open" /\ sent[c] < MaxSent
  /\ sent' = [sent EXCEPT ![c] = @ + 1]
  /\ unread' = [unread EXCEPT ![c] = @ + 1]
  /\ edge' = edge \cup ({c} \cap armed)
  /\ UNCHANGED <<peer, backlog, open, armed>>

(* A reset is no different: recv reports an error, which has no branch of  *)
(* its own, and the next recv the end.                                     *)
Close(c) ==
  /\ peer[c] = "open"
  /\ peer' = [peer EXCEPT ![c] = "closed"]
  /\ edge' = edge \cup ({c} \cap armed)
  /\ UNCHANGED <<sent, unread, backlog, open, armed>>

Environment ==
  /\ \E c \in Clients : Connect(c) \/ Send(c) \/ Close(c)
  /\ UNCHANGED <<mainVars, workerVars>>

Readable(c) == unread[c] > 0 \/ peer[c] = "closed"

-----------------------------------------------------------------------------
(* Mutant of Wait: the connections are registered without EPOLLONESHOT. *)
WaitWithoutOneShot ==
  /\ pc = "wait"
  /\ batch' = {c \in edge \cap armed : Readable(c)}
              \cup (IF backlog # {} THEN {"listen"} \cap edge ELSE {})
  /\ batch' # {}
  /\ edge' = edge \ (armed \cup {"listen"})
  /\ pc' = "dispatch"
  /\ UNCHANGED <<peer, sent, unread, backlog, open, armed, sockfd, unserved, workerVars>>

(* epoll_wait reports a connection once and disarms it. *)
Wait ==
  /\ pc = "wait"
  /\ batch' = {c \in edge \cap armed : Readable(c)}
              \cup (IF backlog # {} THEN {"listen"} \cap edge ELSE {})
  /\ batch' # {}
  /\ edge' = edge \ (armed \cup {"listen"})
  /\ armed' = armed \ batch'
  /\ pc' = "dispatch"
  /\ UNCHANGED <<peer, sent, unread, backlog, open, sockfd, unserved, workerVars>>

BatchDone ==
  /\ pc = "dispatch" /\ batch = {}
  /\ pc' = "wait"
  /\ UNCHANGED <<kernelVars, batch, sockfd, unserved, workerVars>>

Arm(c) ==
  /\ armed' = armed \cup {c}
  /\ edge' = IF Readable(c) THEN edge \cup {c} ELSE edge \ {c}

AcceptOne(c) ==
  /\ pc = "dispatch" /\ "listen" \in batch
  /\ batch' = batch \ {"listen"}
  /\ c \in backlog /\ backlog' = backlog \ {c}
  /\ open' = open \cup {c}
  /\ Arm(c)
  /\ UNCHANGED <<peer, sent, unread, pc, sockfd, unserved, workerVars>>

(* accept finds no free descriptor; registering -1 has no effect. *)
AcceptFails ==
  /\ pc = "dispatch" /\ "listen" \in batch
  /\ batch' = batch \ {"listen"}
  /\ UNCHANGED <<kernelVars, pc, sockfd, unserved, workerVars>>

(* The structure is filled in and pthread_create is called. *)
CreateWorker(c, w) ==
  /\ pc = "dispatch" /\ c \in batch
  /\ batch' = batch \ {c}
  /\ wpc[w] = "none"
  /\ wpc' = [wpc EXCEPT ![w] = "start"]
  /\ sockfd' = c
  /\ meant' = [meant EXCEPT ![w] = c]
  /\ UNCHANGED <<kernelVars, pc, unserved, serves>>

(* pthread_create fails, which nobody looks at: the structure was filled   *)
(* in, and the connection has no thread and stays disarmed.                *)
CreateFails(c) ==
  /\ pc = "dispatch" /\ c \in batch
  /\ batch' = batch \ {c}
  /\ sockfd' = c
  /\ unserved' = unserved \cup {c}
  /\ UNCHANGED <<kernelVars, pc, workerVars>>

Main ==
  \/ Wait \/ BatchDone \/ AcceptFails
  \/ \E c \in Clients : AcceptOne(c) \/ CreateFails(c) \/ \E w \in Workers : CreateWorker(c, w)

-----------------------------------------------------------------------------
(* The worker copies its argument. *)
Start(w) ==
  /\ wpc[w] = "start"
  /\ serves' = [serves EXCEPT ![w] = sockfd]
  /\ wpc' = [wpc EXCEPT ![w] = "read"]
  /\ UNCHANGED <<kernelVars, mainVars, meant>>

WorkerAt(w) == wpc[w] = "read" /\ serves[w] \in open

Finish(w) ==
  /\ wpc' = [wpc EXCEPT ![w] = "done"]
  /\ UNCHANGED <<mainVars, serves, meant>>

RecvData(w) ==
  /\ WorkerAt(w) /\ unread[serves[w]] > 0
  /\ unread' = [unread EXCEPT ![serves[w]] = @ - 1]
  /\ UNCHANGED <<peer, sent, backlog, open, armed, edge, mainVars, workerVars>>

(* EAGAIN, which may be out of date already when reset_oneshot re-arms the *)
(* connection: EPOLL_CTL_MOD looks for what has arrived since.             *)
RecvAgain(w) ==
  /\ WorkerAt(w) /\ ~Readable(serves[w])
  /\ wpc' = [wpc EXCEPT ![w] = "rearm"]
  /\ UNCHANGED <<kernelVars, mainVars, serves, meant>>

Rearm(w) ==
  /\ wpc[w] = "rearm"
  /\ IF serves[w] \in open THEN Arm(serves[w]) ELSE UNCHANGED <<armed, edge>>
  /\ Finish(w)
  /\ UNCHANGED <<peer, sent, unread, backlog, open>>

RecvEnd(w) ==
  /\ WorkerAt(w) /\ unread[serves[w]] = 0 /\ peer[serves[w]] = "closed"
  /\ open' = open \ {serves[w]}
  /\ armed' = armed \ {serves[w]}
  /\ edge' = edge \ {serves[w]}
  /\ Finish(w)
  /\ UNCHANGED <<peer, sent, unread, backlog>>

(* A worker whose descriptor another worker has closed gets EBADF for ever *)
(* (WorkerAt is false): it takes no further step.                          *)
Worker(w) == Start(w) \/ RecvData(w) \/ RecvAgain(w) \/ Rearm(w) \/ RecvEnd(w)

Next == Environment \/ Main \/ \E w \in Workers : Worker(w)

Spec == Init /\ [][Next]_vars

-----------------------------------------------------------------------------
(* Some worker did not get the connection it was created for. *)
Mistaken == \E w \in Workers : serves[w] \notin {None, meant[w]}

Serving(c) == {w \in Workers : serves[w] = c /\ wpc[w] \in {"read", "rearm"}}

(* What EPOLLONESHOT is for (epolloneshot_test.cpp:43-51, 60-78): as long  *)
(* as every worker got its own argument, a connection has one worker at a  *)
(* time, is not armed while it has one, and is not left with input that    *)
(* nobody will be told of - although EAGAIN may be out of date when the    *)
(* connection is re-armed.  Only a connection whose thread could not be    *)
(* created (epolloneshot_test.cpp:136) is left with nobody and nothing.    *)
Concerned(c) ==
  Cardinality({w \in Workers : (meant[w] = c /\ wpc[w] = "start") \/ w \in Serving(c)})
  + (IF c \in batch THEN 1 ELSE 0) + (IF c \in armed THEN 1 ELSE 0)

OneShotProtocol ==
  Mistaken \/ \A c \in open :
    /\ Concerned(c) = IF c \in unserved THEN 0 ELSE 1
    /\ (c \in armed /\ Readable(c)) => c \in edge

(* epolloneshot_test.cpp:135: the new thread serves the connection it is   *)
(* started for.                                                            *)
ServesItsOwn == ~Mistaken
==============================================================================
