------------------------------- MODULE ChatRoom ------------------------------
(***************************************************************************)
(* The chat room of chapter9_io_multiplexing/chatroom_server.cpp: one      *)
(* thread, one array of pollfd walked after every poll, and one array of   *)
(* client_data indexed by descriptor.  What a client says is kept in its   *)
(* own buffer, and the others point to that buffer until they can be       *)
(* written to.  A client that leaves is removed from the array while it is *)
(* being walked: the last entry takes its place.                           *)
(*                                                                         *)
(* A text is represented by the client who sent it.                        *)
(***************************************************************************)
EXTENDS Naturals, FiniteSets

CONSTANTS Clients,     \* remote peers, each connecting at most once
          FDs,         \* the descriptors accept may return
          USER_LIMIT,
          MaxSent,     \* bound: texts a client sends
          None         \* no client, no descriptor, nullptr

VARIABLES
  \* the kernel
  peer,       \* [Clients -> "new" | "open" | "shut" | "gone"]: the remote end
  sent,       \* texts each client has sent
  unread,     \* texts in each socket's receive queue
  err,        \* a reset connection's error: "no", "reset", "pipe" or "seen"
  backlog,    \* clients in the listen queue
  fd,         \* the descriptor of each client's connection, or None
  \* the program
  fds,        \* the entries 1..USER_LIMIT of the pollfd array
  listening,  \* POLLIN in the revents of fds[0]
  users,      \* client_data: write_buf is the descriptor whose buf it is
  user_counter,
  i, pc,
  killer,     \* the client whose send ended the process by SIGPIPE, or None
  \* history
  ready,      \* clients with an event of this round that was not handled yet
  late,       \* clients that shut their connection down since the last poll
  owed        \* whose text each client is waiting to be sent

kernelVars == <<peer, sent, unread, err, backlog, fd>>
dataVars   == <<fds, users, user_counter, owed>>
vars == <<kernelVars, dataVars, listening, i, pc, killer, ready, late>>

(* An entry at or below user_counter is always written before it is read;  *)
(* what the entries above it hold is not kept.                             *)
Unused == [fd |-> None, events |-> {}, revents |-> {}]

Init ==
  /\ peer = [c \in Clients |-> "new"]
  /\ sent = [c \in Clients |-> 0] /\ unread = [c \in Clients |-> 0]
  /\ err = [c \in Clients |-> "no"]
  /\ backlog = {} /\ fd = [c \in Clients |-> None]
  /\ fds = [k \in 1..USER_LIMIT |-> Unused]
  /\ listening = FALSE
  /\ users = [f \in FDs |-> [write_buf |-> None, buf |-> None]]
  /\ user_counter = 0 /\ i = 0 /\ pc = "poll" /\ killer = None
  /\ ready = {} /\ late = {} /\ owed = [c \in Clients |-> None]

-----------------------------------------------------------------------------
(* The peers.  A connection that is reset while open reports ECONNRESET,   *)
(* one that was shut down by its peer and is reset after that EPIPE.       *)
Connect(c) ==
  /\ peer[c] = "new"
  /\ peer' = [peer EXCEPT ![c] = "open"]
  /\ backlog' = backlog \cup {c}
  /\ UNCHANGED <<sent, unread, err, fd, late>>

Say(c) ==
  /\ peer[c] = "open" /\ sent[c] < MaxSent
  /\ sent' = [sent EXCEPT ![c] = @ + 1]
  /\ unread' = [unread EXCEPT ![c] = @ + 1]
  /\ UNCHANGED <<peer, err, backlog, fd, late>>

Shut(c) ==
  /\ peer[c] = "open"
  /\ peer' = [peer EXCEPT ![c] = "shut"]
  /\ late' = late \cup {c}
  /\ UNCHANGED <<sent, unread, err, backlog, fd>>

Abort(c) ==
  /\ peer[c] \in {"open", "shut"}
  /\ peer' = [peer EXCEPT ![c] = "gone"]
  /\ err' = [err EXCEPT ![c] = IF peer[c] = "shut" THEN "pipe" ELSE "reset"]
  /\ UNCHANGED <<sent, unread, backlog, fd, late>>

Environment ==
  /\ \E c \in Clients : Connect(c) \/ Say(c) \/ Shut(c) \/ Abort(c)
  /\ UNCHANGED <<dataVars, listening, i, pc, killer, ready>>

-----------------------------------------------------------------------------
HasLeft(c) == peer[c] \in {"shut", "gone"}

ClientOf(f) == CHOOSE c \in Clients : fd[c] = f

(* poll's revents for an entry; POLLERR is reported asked or not.          *)
(* writable says which sockets have room in their send buffer.             *)
Revents(e, writable) ==
  LET c == ClientOf(e.fd)
  IN  (IF unread[c] > 0 \/ HasLeft(c) THEN {"IN"} \cap e.events ELSE {})
      \cup (IF c \in writable \/ err[c] # "no" THEN {"OUT"} \cap e.events ELSE {})
      \cup (IF HasLeft(c) THEN {"RDHUP"} \cap e.events ELSE {})
      \cup (IF err[c] \in {"reset", "pipe"} THEN {"ERR"} ELSE {})

Poll ==
  /\ pc = "poll"
  /\ \E writable \in SUBSET {c \in Clients : owed[c] # None} :
       LET polled == [k \in 1..USER_LIMIT |->
                        IF k <= user_counter
                          THEN [fds[k] EXCEPT !.revents = Revents(fds[k], writable)]
                          ELSE Unused]
       IN  /\ fds' = polled
           /\ ready' = {ClientOf(polled[k].fd) : k \in {n \in 1..user_counter : polled[n].revents # {}}}
  /\ listening' = (backlog # {})
  /\ listening' \/ ready' # {}
  /\ pc' = "walk" /\ i' = 0 /\ late' = {}
  /\ UNCHANGED <<kernelVars, users, user_counter, killer, owed>>

WalkEnds ==
  /\ pc = "walk" /\ i > user_counter
  /\ pc' = "poll" /\ i' = 0 /\ ready' = {}
  /\ UNCHANGED <<kernelVars, dataVars, listening, killer, late>>

(* Entry 0, the listening socket: one accept.  A new entry lies within the *)
(* range of the walk at once, with empty revents.                          *)
SkipListen ==
  /\ pc = "walk" /\ i = 0
  /\ ~listening \/ \A f \in FDs : \E c \in Clients : fd[c] = f  \* accept fails
  /\ i' = 1
  /\ UNCHANGED <<kernelVars, dataVars, listening, pc, killer, ready, late>>

Accept(c) ==
  /\ pc = "walk" /\ i = 0 /\ listening
  /\ c \in backlog /\ backlog' = backlog \ {c}
  /\ user_counter < USER_LIMIT
  /\ \E f \in FDs :
       /\ \A d \in Clients : fd[d] # f
       /\ \A g \in FDs : g < f => \E d \in Clients : fd[d] = g
       /\ fd' = [fd EXCEPT ![c] = f]
       /\ fds' = [fds EXCEPT ![user_counter + 1] =
                    [fd |-> f, events |-> {"IN", "RDHUP"}, revents |-> {}]]
  /\ user_counter' = user_counter + 1
  /\ i' = 1
  /\ UNCHANGED <<peer, sent, unread, err, users, owed, listening, pc, killer, ready, late>>

(* "too many users": the connection is told so and closed.  One that was   *)
(* reset after it was shut down refuses the words with SIGPIPE.            *)
Refuse(c) ==
  /\ pc = "walk" /\ i = 0 /\ listening
  /\ c \in backlog /\ backlog' = backlog \ {c}
  /\ user_counter >= USER_LIMIT
  /\ \E f \in FDs : \A d \in Clients : fd[d] # f
  /\ peer' = [peer EXCEPT ![c] = "gone"]
  /\ killer' = IF err[c] = "pipe" THEN c ELSE None
  /\ i' = 1
  /\ UNCHANGED <<sent, unread, err, fd, dataVars, listening, pc, ready, late>>

-----------------------------------------------------------------------------
(* The entry under the walk, its descriptor and its client. *)
Entry == fds[i]
At    == ClientOf(Entry.fd)

Handling(event) == pc = "walk" /\ i \in 1..user_counter /\ event \in Entry.revents

Proceed ==
  /\ i' = i + 1
  /\ ready' = ready \ {At}
  /\ UNCHANGED <<listening, pc, killer, late>>

(* POLLERR: getsockopt fetches and clears the error, the entry stays. *)
HandleError ==
  /\ Handling("ERR")
  /\ err' = [err EXCEPT ![At] = IF @ = "no" THEN "no" ELSE "seen"]
  /\ Proceed
  /\ UNCHANGED <<peer, sent, unread, backlog, fd, dataVars>>

(* close(fds[i].fd); what the kernel knew of the connection is not kept. *)
CloseAt ==
  /\ fd' = [fd EXCEPT ![At] = None]
  /\ owed' = [owed EXCEPT ![At] = None]
  /\ peer' = [peer EXCEPT ![At] = "gone"]
  /\ sent' = [sent EXCEPT ![At] = 0]
  /\ unread' = [unread EXCEPT ![At] = 0]
  /\ err' = [err EXCEPT ![At] = "no"]

(* Mutant of Remove: i-- is forgotten. *)
RemoveAndPass ==
  /\ users' = [users EXCEPT ![Entry.fd] = users[fds[user_counter].fd]]
  /\ fds' = [fds EXCEPT ![i] = fds[user_counter], ![user_counter] = Unused]
  /\ user_counter' = user_counter - 1
  /\ CloseAt
  /\ ready' = ready \ {At}
  /\ i' = i + 1
  /\ UNCHANGED <<listening, pc, killer, late>>

(* The entry's descriptor is closed, the last entry takes its place, and   *)
(* the walk looks at this place again.  The data of the last client is     *)
(* also copied over that of the closed descriptor.                         *)
Remove ==
  /\ users' = [users EXCEPT ![Entry.fd] = users[fds[user_counter].fd]]
  /\ fds' = [[fds EXCEPT ![i] = fds[user_counter]] EXCEPT ![user_counter] = Unused]
  /\ user_counter' = user_counter - 1
  /\ CloseAt
  /\ ready' = ready \ {At}
  /\ UNCHANGED <<i, listening, pc, killer, late>>

HandleHangUp ==
  /\ Handling("RDHUP") /\ "ERR" \notin Entry.revents
  /\ Remove
  /\ UNCHANGED backlog

(* POLLIN is looked at when the others are not set. *)
HandleInput == Handling("IN") /\ Entry.revents \cap {"ERR", "RDHUP"} = {}

(* Mutant of Announce: the events are set the way the book has it,         *)
(* fds[j].events |= ~POLLIN.                                               *)
AnnounceAsInTheBook ==
  LET others == {k \in 1..user_counter : fds[k].fd # Entry.fd}
      text   == [users EXCEPT ![Entry.fd].buf = At]
  IN  /\ fds' = [k \in 1..USER_LIMIT |->
                   IF k \in others THEN [fds[k] EXCEPT !.events = @ \cup {"OUT"}]
                   ELSE fds[k]]
      /\ users' = [f \in FDs |->
                     IF \E k \in others : fds[k].fd = f
                       THEN [text[f] EXCEPT !.write_buf = Entry.fd] ELSE text[f]]
      /\ owed' = [c \in Clients |->
                    IF \E k \in others : fds[k].fd = fd[c] THEN At ELSE owed[c]]

(* Mutant of Announce: POLLOUT is assigned, fds[j].events = POLLOUT, so    *)
(* that poll is no longer asked for POLLRDHUP.                             *)
AnnounceOnlyOut ==
  LET others == {k \in 1..user_counter : fds[k].fd # Entry.fd}
      text   == [users EXCEPT ![Entry.fd].buf = At]
  IN  /\ fds' = [k \in 1..USER_LIMIT |->
                   IF k \in others THEN [fds[k] EXCEPT !.events = {"OUT"}] ELSE fds[k]]
      /\ users' = [f \in FDs |->
                     IF \E k \in others : fds[k].fd = f
                       THEN [text[f] EXCEPT !.write_buf = Entry.fd] ELSE text[f]]
      /\ owed' = [c \in Clients |->
                    IF \E k \in others : fds[k].fd = fd[c] THEN At ELSE owed[c]]

(* Everybody else is to write what this client said, and until then is not *)
(* listened to.                                                            *)
Announce ==
  LET others == {k \in 1..user_counter : fds[k].fd # Entry.fd}
      text   == [users EXCEPT ![Entry.fd].buf = At]
  IN  /\ fds' = [k \in 1..USER_LIMIT |->
                   IF k \in others
                     THEN [fds[k] EXCEPT !.events = (@ \ {"IN"}) \cup {"OUT"}]
                     ELSE fds[k]]
      /\ users' = [f \in FDs |->
                     IF \E k \in others : fds[k].fd = f
                       THEN [text[f] EXCEPT !.write_buf = Entry.fd] ELSE text[f]]
      /\ owed' = [c \in Clients |->
                    IF \E k \in others : fds[k].fd = fd[c] THEN At ELSE owed[c]]

(* recv takes all that is there, up to the size of the buffer.  It can     *)
(* neither fail nor find the end of the stream here: without POLLERR and   *)
(* POLLRDHUP, POLLIN meant that there was data, and nobody else takes it.  *)
Receive ==
  /\ HandleInput /\ unread[At] > 0
  /\ \E n \in 1..unread[At] : unread' = [unread EXCEPT ![At] = @ - n]
  /\ Announce
  /\ Proceed
  /\ UNCHANGED <<peer, sent, err, backlog, fd, user_counter>>

(* send: its result is ignored.  A connection that was reset refuses, with *)
(* SIGPIPE unless the error was still to be fetched and is not EPIPE.      *)
SendPending ==
  /\ Handling("OUT") /\ Entry.revents \cap {"ERR", "RDHUP", "IN"} = {}
  /\ users[Entry.fd].write_buf # None
  /\ users' = [users EXCEPT ![Entry.fd].write_buf = None]
  /\ fds' = [fds EXCEPT ![i].events = (@ \ {"OUT"}) \cup {"IN"}]
  /\ owed' = [owed EXCEPT ![At] = None]
  /\ err' = [err EXCEPT ![At] = IF @ = "reset" THEN "seen" ELSE @]
  /\ killer' = IF err[At] \in {"pipe", "seen"} THEN At ELSE None
  /\ i' = i + 1 /\ ready' = ready \ {At}
  /\ UNCHANGED <<peer, sent, unread, backlog, fd, user_counter, listening, pc, late>>

(* Nothing happened to the entry, or write_buf is null. *)
SkipEntry ==
  /\ pc = "walk" /\ i \in 1..user_counter
  /\ \/ Entry.revents = {}
     \/ Entry.revents = {"OUT"} /\ users[Entry.fd].write_buf = None
  /\ Proceed
  /\ UNCHANGED <<kernelVars, dataVars>>

Server ==
  \/ Poll \/ WalkEnds \/ SkipListen
  \/ \E c \in Clients : Accept(c) \/ Refuse(c)
  \/ HandleError \/ HandleHangUp \/ Receive \/ SendPending \/ SkipEntry

Next == killer = None /\ (Environment \/ Server)

Spec == Init /\ [][Next]_vars

-----------------------------------------------------------------------------
(* Removing an entry while the array is walked (chatroom_server.cpp:84,    *)
(* 123-127): the entries are the connected clients, each once, and every   *)
(* client poll reported an event for is still ahead of the walk until it   *)
(* is handled, whichever entries were moved.                               *)
EntriesMatchClients ==
  /\ \A k, n \in 1..user_counter : fds[k].fd = fds[n].fd => k = n
  /\ {fds[k].fd : k \in 1..user_counter} = {fd[c] : c \in Clients} \ {None}

NobodySkipped ==
  \A c \in ready : \E k \in i..user_counter :
    k > 0 /\ fds[k].fd = fd[c] /\ fds[k].revents # {}

WalkIsComplete == EntriesMatchClients /\ NobodySkipped

(* Pointers into other clients' buffers (chatroom_server.cpp:149-152,      *)
(* 160-165): a client is listened to exactly when it is not waiting to be  *)
(* written to; a waiting one points to somebody else's buffer, and as long *)
(* as the client that spoke is connected this buffer holds its words,      *)
(* although buffers are overwritten, copied and reused.                    *)
WaitingToBeTold ==
  \A c \in Clients : fd[c] # None =>
    LET k == CHOOSE n \in 1..user_counter : fds[n].fd = fd[c]
        f == users[fd[c]].write_buf
    IN  /\ "OUT" \in fds[k].events <=> "IN" \notin fds[k].events
        /\ "OUT" \in fds[k].events <=> owed[c] # None
        /\ owed[c] # None => f \notin {None, fd[c]}
        /\ (owed[c] # None /\ fd[owed[c]] # None) =>
             f = fd[owed[c]] /\ users[f].buf = owed[c]

(* One send per round, and errors and hang-ups looked at before it         *)
(* (chatroom_server.cpp:112-128): the server never writes to a connection  *)
(* whose end it has been told of.  SIGPIPE ends it only through a client   *)
(* that shut down and was reset where it does not look: all of it since    *)
(* the poll of this round, or in the listen queue before "too many users". *)
KilledOnlyUnseen ==
  killer # None =>
    /\ err[killer] = "pipe"
    /\ killer \in late \/ fd[killer] = None
==============================================================================
