----------------------------- MODULE MCIoServers -----------------------------
(***************************************************************************)
(* The servers that multiplex connections with poll or epoll: the chat     *)
(* room (ChatRoom), the single-threaded epoll servers (EpollServers), the  *)
(* EPOLLONESHOT server (OneShot) and the reactor with a pool (HelloServer).*)
(* The variable server says which one a behaviour runs; the others keep    *)
(* still.                                                                  *)
(***************************************************************************)
EXTENDS Naturals, FiniteSets

CONSTANTS ChatClients, ChatFDs, USER_LIMIT, ChatSent,
          EpollClients, EpollSent, MaxDatagrams,
          ShotClients, ShotWorkers, ShotSent,
          HelloClients, HelloFDs, HelloWorkers, HelloSent, MaxLines,
          Resetting,
          None

(* Clients, descriptors and what stands for something else are told apart. *)
ASSUME ChatAssumption == None \notin ChatClients \cup ChatFDs /\ USER_LIMIT \in Nat
ASSUME EpollAssumption ==
  EpollClients \cap {None, "listen", "udp"} = {} /\ None \notin {"listen", "udp"}
ASSUME ShotAssumption ==
  None \notin ShotClients /\ "listen" \notin ShotClients /\ IsFiniteSet(ShotWorkers)
ASSUME HelloAssumption ==
  /\ None \notin HelloClients \cup HelloFDs
  /\ "listener" \notin HelloClients /\ "stdin" \notin HelloClients
  /\ IsFiniteSet(HelloWorkers)

VARIABLES server
VARIABLES cPeer, cSent, cUnread, cErr, cBacklog, cFd, fds, listening, users,
          user_counter, i, cPc, cKiller, ready, cLate, owed
VARIABLES style, ePeer, eSent, eUnread, eErr, eBacklog, eOpen, eEdge,
          datagrams, arrived, ePc, eBatch, conn, eLost
VARIABLES oPeer, oSent, oUnread, oBacklog, oOpen, armed, oEdge, oPc, oBatch,
          sockfd, unserved, oWpc, serves, meant
VARIABLES hPeer, hSent, hUnread, hErr, hBacklog, lines, hFd, edges, hBatch, tasks,
          hWpc, wtask, deleted, connections, hasCallback, hLost

Chat == INSTANCE ChatRoom WITH
  Clients <- ChatClients, FDs <- ChatFDs, MaxSent <- ChatSent,
  peer <- cPeer, sent <- cSent, unread <- cUnread, err <- cErr,
  backlog <- cBacklog, fd <- cFd, pc <- cPc, killer <- cKiller,
  late <- cLate

Epoll == INSTANCE EpollServers WITH
  Clients <- EpollClients, MaxSent <- EpollSent,
  peer <- ePeer, sent <- eSent, unread <- eUnread, err <- eErr,
  backlog <- eBacklog, open <- eOpen, edge <- eEdge,
  pc <- ePc, batch <- eBatch, lost <- eLost

Shot == INSTANCE OneShot WITH
  Clients <- ShotClients, Workers <- ShotWorkers, MaxSent <- ShotSent,
  peer <- oPeer, sent <- oSent, unread <- oUnread, backlog <- oBacklog,
  open <- oOpen, edge <- oEdge, pc <- oPc, batch <- oBatch, wpc <- oWpc

Hello == INSTANCE HelloServer WITH
  Clients <- HelloClients, FDs <- HelloFDs, Workers <- HelloWorkers,
  MaxSent <- HelloSent,
  peer <- hPeer, sent <- hSent, unread <- hUnread, err <- hErr, backlog <- hBacklog,
  fd <- hFd, batch <- hBatch, wpc <- hWpc, lost <- hLost

chatVars  == <<cPeer, cSent, cUnread, cErr, cBacklog, cFd, fds, listening,
               users, user_counter, i, cPc, cKiller, ready, cLate, owed>>
epollVars == <<style, ePeer, eSent, eUnread, eErr, eBacklog, eOpen, eEdge,
               datagrams, arrived, ePc, eBatch, conn, eLost>>
shotVars  == <<oPeer, oSent, oUnread, oBacklog, oOpen, armed, oEdge, oPc,
               oBatch, sockfd, unserved, oWpc, serves, meant>>
helloVars == <<hPeer, hSent, hUnread, hErr, hBacklog, lines, hFd, edges, hBatch,
               tasks, hWpc, wtask, deleted, connections, hasCallback, hLost>>
vars == <<server, chatVars, epollVars, shotVars, helloVars>>

Init ==
  /\ server \in {"chat", "epoll", "oneshot", "hello"}
  /\ Chat!Init /\ Epoll!Init /\ Shot!Init /\ Hello!Init
  /\ server # "epoll" => style = "lt"    \* a server that is not run has one style

Next ==
  \/ server = "chat"    /\ Chat!Next  /\ UNCHANGED <<server, epollVars, shotVars, helloVars>>
  \/ server = "epoll"   /\ Epoll!Next /\ UNCHANGED <<server, chatVars, shotVars, helloVars>>
  \/ server = "oneshot" /\ Shot!Next  /\ UNCHANGED <<server, chatVars, epollVars, helloVars>>
  \/ server = "hello"   /\ Hello!Next /\ UNCHANGED <<server, chatVars, epollVars, shotVars>>

(* Only the single-threaded servers have a property that needs fairness:   *)
(* their thread goes on whenever it can.                                   *)
FairSpec ==
  /\ Init /\ [][Next]_vars
  /\ WF_vars(/\ server = "epoll" /\ ~eLost /\ Epoll!Server
             /\ UNCHANGED <<server, chatVars, shotVars, helloVars>>)

-----------------------------------------------------------------------------
(* Removing an entry of the array that is being walked skips nobody; a    *)
(* client is listened to exactly when it has nothing to be told, and the   *)
(* pointer to what it is to be told stays good; SIGPIPE ends the room only *)
(* through a client that shut down and was reset since the last poll, or   *)
(* in the listen queue (chatroom_server.cpp:84-165).                       *)
RoomIsServed == Chat!WalkIsComplete /\ Chat!WaitingToBeTold /\ Chat!KilledOnlyUnseen

(* What a connected client sends is read and its connection is closed      *)
(* after it, level or edge triggered (LT_ET_test.cpp:57-119).              *)
InputIsServed == Epoll!InputIsServed

(* No input of a single-threaded server is forgotten, and none of its      *)
(* events is about nothing (LT_ET_test.cpp:57-119).                        *)
EventsCoverInput == Epoll!EventsCoverInput

(* A connection is armed, reported or served by one thread, never two, and *)
(* its input is not forgotten between them, except where pthread_create    *)
(* failed (epolloneshot_test.cpp:46-146).                                  *)
OneShotProtocol == Shot!OneShotProtocol

(* Input of a connection of the pool's server is on its way to a worker or *)
(* has one (Channel.cpp:9-18, Connection.cpp:24-48).                       *)
NoStrandedInput == Hello!NoStrandedInput

(* Every accept that was handed to the pool finds a connection             *)
(* (ServerSocket.cpp:54-59, Acceptor.cpp:26-35).                           *)
AcceptFinds == Hello!AcceptFinds
==============================================================================
