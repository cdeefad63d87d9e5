------------------------------ MODULE TinyHttpd ------------------------------
(***************************************************************************)
(* project/tinyhttpd/httpd.c: main accepts, one thread per connection      *)
(* serves one request, and a CGI request runs a script in a child process  *)
(* that talks to its thread through two pipes.  Descriptors are modelled   *)
(* one by one, because fork hands every descriptor of the server, those of *)
(* the other threads' requests included, to the child.                     *)
(*                                                                         *)
(* A request is sent in two parts, its head (the line and the headers) and *)
(* its body; sent counts them.  All clients are in the listen queue    *)
(* from the start: a client arrives when main accepts it.  The text of a   *)
(* reply is its status; the debugging output of the server is left out,    *)
(* but not what the child prints before it becomes the script, which goes  *)
(* to the client ("env").                                                  *)
(***************************************************************************)
EXTENDS Integers, FiniteSets, Sequences

CONSTANTS Clients,
          Requests,   \* what each client may ask, see RequestsAssumption
          PipeSize,   \* bytes a pipe holds
          FDLimit,    \* descriptors the server may have open, if scarce
          Output      \* bytes a script writes

(* length is the Content-Length header, -1 when there is none; the body    *)
(* has that many bytes.  script tells what a script does: it "reads" its   *)
(* body and then writes, it "writes" without reading, it "copies" byte by  *)
(* byte, or it is "absent" (execl fails).                                  *)
ASSUME RequestsAssumption ==
  \A c \in Clients :
    Requests[c] \subseteq [method : {"GET", "POST", "other"},
                           what   : {"file", "unreadable", "missing", "script"},
                           length : Int,
                           script : {"reads", "writes", "copies", "absent"}]

VARIABLES
  \* the clients
  req, sent, left,
  \* the server
  alive,    \* FALSE: exit, SIGPIPE or a crash
  scarce,   \* descriptors, threads and processes may run out
  open,     \* its descriptors: <<"sock", c>> and the pipe ends of c's script
  wpc,      \* what each connection's thread is about to do
  i,        \* bytes of the body it has passed on
  failed,   \* history: no pipes or no process for it
  \* the children
  kid,      \* each child's descriptors
  kpc, kread, kout,
  \* the pipes, and what each client has received
  inq, outq, got

clientVars == <<req, sent, left>>
workerVars == <<wpc, i, failed>>
kidVars    == <<kid, kpc, kread, kout>>
vars == <<clientVars, alive, scarce, open, workerVars, kidVars, inq, outq, got>>

Sock(c) == <<"sock", c>>
OutPipe(c) == {<<"outR", c>>, <<"outW", c>>}     \* cgi_output[0], cgi_output[1]
InPipe(c)  == {<<"inR", c>>, <<"inW", c>>}       \* cgi_input[0], cgi_input[1]
Held(d) == d \in open \/ \E k \in Clients : d \in kid[k]

Init ==
  /\ req \in [Clients -> UNION {Requests[c] : c \in Clients}]
  /\ \A c \in Clients : req[c] \in Requests[c]
  /\ sent = [c \in Clients |-> 0] /\ left = [c \in Clients |-> FALSE]
  /\ alive = TRUE /\ scarce \in BOOLEAN
  /\ open = {}
  /\ wpc = [c \in Clients |-> "queued"] /\ i = [c \in Clients |-> 0]
  /\ failed = [c \in Clients |-> FALSE]
  /\ kid = [c \in Clients |-> {}] /\ kpc = [c \in Clients |-> "none"]
  /\ kread = [c \in Clients |-> 0] /\ kout = [c \in Clients |-> 0]
  /\ inq = [c \in Clients |-> <<>>] /\ outq = [c \in Clients |-> <<>>]
  /\ got = [c \in Clients |-> <<>>]

-----------------------------------------------------------------------------
(* The clients. *)
Send(c) ==
  /\ ~left[c] /\ sent[c] < (IF req[c].length > 0 THEN 2 ELSE 1)
  /\ sent' = [sent EXCEPT ![c] = @ + 1]
  /\ UNCHANGED <<req, left, alive, scarce, open, workerVars, kidVars, inq, outq, got>>

Leave(c) ==
  /\ ~left[c] /\ wpc[c] # "done"
  /\ left' = [left EXCEPT ![c] = TRUE]
  /\ UNCHANGED <<req, sent, alive, scarce, open, workerVars, kidVars, inq, outq, got>>

-----------------------------------------------------------------------------
(* Nothing ignores SIGPIPE: sending to a client that has left may find the *)
(* connection reset already and end the process.                           *)
Reply(c, text) ==
  /\ got' = IF left[c] THEN got ELSE [got EXCEPT ![c] = @ \o text]
  /\ alive' \in IF left[c] THEN BOOLEAN ELSE {TRUE}

(* The texts of the replies: headers and cat for a file, the others whole. *)
headers        == <<"200">>
cat            == <<"file">>
bad_request    == <<"400">>
not_found      == <<"404">>
cannot_execute == <<"500">>
unimplemented  == <<"501">>

Room(n) == scarce => Cardinality(open) + 1 + n <= FDLimit    \* 1: server_sock

Accept(c) ==
  /\ wpc[c] = "queued" /\ Room(1)
  /\ open' = open \cup {Sock(c)}
  /\ wpc' = [wpc EXCEPT ![c] = "request"]
  /\ UNCHANGED <<clientVars, alive, scarce, i, failed, kidVars, inq, outq, got>>

(* accept fails: error_die. *)
AcceptFails(c) ==
  /\ wpc[c] = "queued" /\ ~Room(1)
  /\ alive' = FALSE
  /\ UNCHANGED <<clientVars, scarce, open, workerVars, kidVars, inq, outq, got>>

(* pthread_create fails: a message, and the socket stays open. *)
NoThread(c) ==
  /\ wpc[c] = "queued" /\ Room(1) /\ scarce
  /\ open' = open \cup {Sock(c)}
  /\ wpc' = [wpc EXCEPT ![c] = "nothread"]
  /\ UNCHANGED <<clientVars, alive, scarce, i, failed, kidVars, inq, outq, got>>

-----------------------------------------------------------------------------
(* accept_request.  The first line decides the method; get_line gives up   *)
(* on a client that left, so that one that sent nothing has none.          *)
(* unimplemented's return skips the close.                                 *)
Supported(c) == sent[c] >= 1 /\ req[c].method \in {"GET", "POST"}

Unimplemented(c) ==
  /\ wpc[c] = "request" /\ (sent[c] >= 1 \/ left[c]) /\ ~Supported(c)
  /\ Reply(c, unimplemented)
  /\ wpc' = [wpc EXCEPT ![c] = "done"]
  /\ UNCHANGED <<clientVars, scarce, open, i, failed, kidVars, inq, outq>>

HeadersRead(c) == wpc[c] = "request" /\ Supported(c)

(* A GET with a query for what is no script is one for an absent script. *)
cgi(c) == req[c].method = "POST" \/ req[c].what = "script"

(* A reply after which the connection is closed. *)
Answer(c, text) ==
  /\ Reply(c, text)
  /\ open' = open \ {Sock(c)}
  /\ wpc' = [wpc EXCEPT ![c] = "done"]
  /\ UNCHANGED <<clientVars, scarce, i, failed, kidVars, inq, outq>>

NotFound(c) ==
  /\ HeadersRead(c) /\ req[c].what = "missing"
  /\ Answer(c, not_found)

(* serve_file: without the file, not_found is followed by fclose(NULL). *)
CanOpen(c) == req[c].what = "file" /\ Room(1)

ServeFile(c) ==
  /\ HeadersRead(c) /\ req[c].what # "missing" /\ ~cgi(c) /\ CanOpen(c)
  /\ Answer(c, headers \o cat)

CloseNoFile(c) ==
  /\ HeadersRead(c) /\ req[c].what # "missing" /\ ~cgi(c) /\ ~CanOpen(c)
  /\ alive' = FALSE
  /\ UNCHANGED <<clientVars, scarce, open, workerVars, kidVars, inq, outq, got>>

-----------------------------------------------------------------------------
(* execute_cgi. *)
BadRequest(c) ==
  /\ HeadersRead(c) /\ req[c].what # "missing" /\ cgi(c)
  /\ req[c].method = "POST" /\ req[c].length = -1
  /\ Answer(c, bad_request)

StartCgi(c) ==
  /\ HeadersRead(c) /\ req[c].what # "missing" /\ cgi(c)
  /\ req[c].method = "POST" => req[c].length # -1
  /\ wpc' = [wpc EXCEPT ![c] = "pipe1"]
  /\ UNCHANGED <<clientVars, alive, scarce, open, i, failed, kidVars, inq, outq, got>>

Pipe(c) ==
  /\ wpc[c] \in {"pipe1", "pipe2"} /\ Room(2)
  /\ open' = open \cup (IF wpc[c] = "pipe1" THEN OutPipe(c) ELSE InPipe(c))
  /\ wpc' = [wpc EXCEPT ![c] = IF @ = "pipe1" THEN "pipe2" ELSE "fork"]
  /\ UNCHANGED <<clientVars, alive, scarce, i, failed, kidVars, inq, outq, got>>

(* pipe or fork fails: the pipes made so far stay open. *)
CannotExecute(c) ==
  /\ \/ wpc[c] \in {"pipe1", "pipe2"} /\ ~Room(2)
     \/ wpc[c] = "fork" /\ scarce
  /\ Reply(c, cannot_execute)
  /\ open' = open \ {Sock(c)}
  /\ wpc' = [wpc EXCEPT ![c] = "done"]
  /\ failed' = [failed EXCEPT ![c] = TRUE]
  /\ UNCHANGED <<clientVars, scarce, i, kidVars, inq, outq>>

Fork(c) ==
  /\ wpc[c] = "fork"
  /\ kid' = [kid EXCEPT ![c] = open]
  /\ kpc' = [kpc EXCEPT ![c] = "born"]
  /\ wpc' = [wpc EXCEPT ![c] = "parent"]
  /\ UNCHANGED <<clientVars, alive, scarce, open, i, failed, kread, kout, inq, outq, got>>

(* The loop over the body ends after length bytes; a GET has no body. *)
Passing(c, n) ==
  IF req[c].method = "POST" /\ n < req[c].length THEN "body" ELSE "output"

(* Mutant of Parent: it keeps its copy of the end that the child writes to. *)
ParentKeepsWriting(c) ==
  /\ wpc[c] = "parent"
  /\ Reply(c, <<"200">>)
  /\ open' = open \ {<<"inR", c>>}
  /\ wpc' = [wpc EXCEPT ![c] = Passing(c, 0)]
  /\ UNCHANGED <<clientVars, scarce, i, failed, kidVars, inq, outq>>

(* The status line is sent by whoever returns from fork: by the parent ... *)
Parent(c) ==
  /\ wpc[c] = "parent"
  /\ Reply(c, <<"200">>)
  /\ open' = open \ {<<"outW", c>>, <<"inR", c>>}
  /\ wpc' = [wpc EXCEPT ![c] = Passing(c, 0)]
  /\ UNCHANGED <<clientVars, scarce, i, failed, kidVars, inq, outq>>

(* Mutant of Child: it closes the wrong end of cgi_input. *)
ChildClosesReading(c) ==
  /\ kpc[c] = "born"
  /\ got' = IF left[c] THEN got ELSE [got EXCEPT ![c] = Append(@, "200")]
  /\ kid' = [kid EXCEPT ![c] = @ \ {<<"outR", c>>, <<"inR", c>>}]
  /\ kpc' = [kpc EXCEPT ![c] = "env"]
  /\ UNCHANGED <<clientVars, alive, scarce, open, workerVars, kread, kout, inq, outq>>

(* ... and by the child.                                                   *)
Child(c) ==
  /\ kpc[c] = "born"
  /\ got' = IF left[c] THEN got ELSE [got EXCEPT ![c] = Append(@, "200")]
  /\ \/ /\ kid' = [kid EXCEPT ![c] = @ \ {<<"outR", c>>, <<"inW", c>>}]
        /\ kpc' = [kpc EXCEPT ![c] = "env"]
     \/ left[c] /\ kid' = [kid EXCEPT ![c] = {}] /\ kpc' = [kpc EXCEPT ![c] = "exited"]
  /\ UNCHANGED <<clientVars, alive, scarce, open, workerVars, kread, kout, inq, outq>>

(* The body, byte by byte.  When the client has left recv changes nothing  *)
(* and the last byte is passed on again; when nobody can read the pipe the *)
(* write ends the process.                                                 *)
Byte(c) == IF sent[c] = 2 THEN "body" ELSE "stale"

PassBody(c) ==
  /\ wpc[c] = "body"
  /\ Byte(c) = "body" \/ left[c]
  /\ IF Held(<<"inR", c>>)
       THEN /\ Len(inq[c]) < PipeSize
            /\ inq' = [inq EXCEPT ![c] = Append(@, Byte(c))]
            /\ i' = [i EXCEPT ![c] = @ + 1]
            /\ wpc' = [wpc EXCEPT ![c] = Passing(c, i[c] + 1)]
            /\ alive' = alive
       ELSE alive' = FALSE /\ UNCHANGED <<inq, i, wpc>>
  /\ UNCHANGED <<clientVars, scarce, open, failed, kidVars, outq, got>>

PassOutput(c) ==
  /\ wpc[c] = "output" /\ outq[c] # <<>>
  /\ Reply(c, <<Head(outq[c])>>)
  /\ outq' = [outq EXCEPT ![c] = Tail(@)]
  /\ UNCHANGED <<clientVars, scarce, open, workerVars, kidVars, inq>>

(* Mutant of AtEnd: waitpid comes before the output is read to its end. *)
AtExit(c) == kpc[c] = "exited"

(* read returns 0 when no process holds the writing end any more. *)
AtEnd(c) == outq[c] = <<>> /\ ~Held(<<"outW", c>>)

(* Mutant of OutputEnds: only the end that was read from is closed. *)
OutputEndsHalfClosed(c) ==
  /\ wpc[c] = "output" /\ AtEnd(c)
  /\ open' = open \ {<<"outR", c>>}
  /\ wpc' = [wpc EXCEPT ![c] = "wait"]
  /\ UNCHANGED <<clientVars, alive, scarce, i, failed, kidVars, inq, outq, got>>

OutputEnds(c) ==
  /\ wpc[c] = "output" /\ AtEnd(c)
  /\ open' = open \ {<<"outR", c>>, <<"inW", c>>}
  /\ wpc' = [wpc EXCEPT ![c] = "wait"]
  /\ UNCHANGED <<clientVars, alive, scarce, i, failed, kidVars, inq, outq, got>>

Reap(c) ==
  /\ wpc[c] = "wait" /\ kpc[c] = "exited"
  /\ open' = open \ {Sock(c)}
  /\ wpc' = [wpc EXCEPT ![c] = "done"]
  /\ UNCHANGED <<clientVars, alive, scarce, i, failed, kidVars, inq, outq, got>>

-----------------------------------------------------------------------------
(* The child: its environment goes to standard output, which is the pipe;  *)
(* execl replaces it by the script, or returns and it exits.               *)
Script(c) == IF req[c].what = "script" THEN req[c].script ELSE "absent"

Emit(c, b) ==
  /\ Len(outq[c]) < PipeSize
  /\ outq' = [outq EXCEPT ![c] = Append(@, b)]

Exec(c) ==
  /\ kpc[c] = "env"
  /\ Emit(c, "env")
  /\ kpc' = [kpc EXCEPT ![c] = "script"]
  /\ UNCHANGED <<clientVars, alive, scarce, open, workerVars, kid, kread, kout, inq, got>>

ToRead(c) == IF req[c].method = "POST" /\ Script(c) \in {"reads", "copies"}
               THEN req[c].length ELSE 0
ToWrite(c) == CASE Script(c) = "absent" -> 0
                [] Script(c) = "copies" -> kread[c]
                [] OTHER -> Output

ScriptReads(c) ==
  /\ kpc[c] = "script" /\ kread[c] < ToRead(c)
  /\ Script(c) = "copies" => kout[c] = kread[c]
  /\ inq[c] # <<>>
  /\ inq' = [inq EXCEPT ![c] = Tail(@)]
  /\ kread' = [kread EXCEPT ![c] = @ + 1]
  /\ UNCHANGED <<clientVars, alive, scarce, open, workerVars, kid, kpc, kout, outq, got>>

ScriptWrites(c) ==
  /\ kpc[c] = "script" /\ kout[c] < ToWrite(c)
  /\ Script(c) = "reads" => kread[c] = ToRead(c)
  /\ Emit(c, "out")
  /\ kout' = [kout EXCEPT ![c] = @ + 1]
  /\ UNCHANGED <<clientVars, alive, scarce, open, workerVars, kid, kpc, kread, inq, got>>

ScriptExits(c) ==
  /\ kpc[c] = "script" /\ kread[c] = ToRead(c) /\ kout[c] = ToWrite(c)
  /\ kpc' = [kpc EXCEPT ![c] = "exited"]
  /\ kid' = [kid EXCEPT ![c] = {}]
  /\ UNCHANGED <<clientVars, alive, scarce, open, workerVars, kread, kout, inq, outq, got>>

-----------------------------------------------------------------------------
Worker(c) ==
  \/ Unimplemented(c) \/ NotFound(c) \/ ServeFile(c) \/ CloseNoFile(c)
  \/ BadRequest(c) \/ StartCgi(c) \/ Pipe(c) \/ CannotExecute(c) \/ Fork(c)
  \/ Parent(c) \/ PassBody(c) \/ PassOutput(c) \/ OutputEnds(c) \/ Reap(c)

Process(c) ==
  Child(c) \/ Exec(c) \/ ScriptReads(c) \/ ScriptWrites(c) \/ ScriptExits(c)

main(c) == Accept(c) \/ AcceptFails(c) \/ NoThread(c)

(* What becomes of a child whose server is gone is not followed. *)
Next ==
  /\ alive
  /\ \E c \in Clients : \/ Send(c) \/ Leave(c)
                        \/ main(c) \/ Worker(c) \/ Process(c)

Spec == Init /\ [][Next]_vars

(* Threads and processes are scheduled, and a client that has connected    *)
(* sends the whole of its request unless it leaves.                        *)
FairSpec ==
  Spec /\ \A c \in Clients : /\ WF_vars(alive /\ Send(c))
                             /\ WF_vars(alive /\ main(c))
                             /\ WF_vars(alive /\ Worker(c))
                             /\ WF_vars(alive /\ Process(c))

-----------------------------------------------------------------------------
(* Properties. *)

(* A script that never leaves bytes of its body unread. *)
Obliging(c) == req[c].method = "POST" => Script(c) = "reads"

Done(c) == wpc[c] = "done"
RanScript(c) == Done(c) /\ Supported(c) /\ cgi(c) /\ ~failed[c] /\ req[c].what # "missing"
                /\ (req[c].method = "POST" => req[c].length # -1)

(* A client that waits for its answer gets the whole output of its script  *)
(* and nothing else, after the status lines, although three processes      *)
(* write to its socket or to the pipe and the end of the pipe is noticed   *)
(* only when the last of them has closed it; and a script gets the body    *)
(* that its client sent (httpd.c:277-278, 281-327).                        *)
ResponseComplete ==
  \A c \in Clients :
    ~left[c] =>
      /\ RanScript(c) => got[c] = <<"200", "200", "env">> \o [k \in 1..ToWrite(c) |-> "out"]
      /\ \A k \in DOMAIN inq[c] : inq[c][k] = "body"

(* A request that was served holds no descriptor of the server, unless its *)
(* method is not supported or its pipes or its process could not be made;  *)
(* of a pipe end that is not closed the scripts of all later requests get  *)
(* a copy (httpd.c:89-92, 139, 264-276, 314-327).                          *)
NothingLeaks ==
  \A c \in Clients :
    Done(c) /\ Supported(c) /\ ~failed[c]
      => open \cap ({Sock(c)} \cup OutPipe(c) \cup InPipe(c)) = {}

(* Whatever two clients ask at the same time, the process is ended neither *)
(* by SIGPIPE nor by an error as long as nobody leaves, every script reads *)
(* its body, every file can be opened and nothing is scarce                *)
(* (httpd.c:278, 317-322, 450, 541).                                       *)
NeverDown ==
  ~alive => \/ scarce
            \/ \E c \in Clients : left[c] \/ ~Obliging(c) \/ req[c].what = "unreadable"

(* The thread passes the whole body on before it reads what is printed, so *)
(* that it and a script that prints before it has read its body may wait   *)
(* for each other: when the script prints more than its pipe holds and     *)
(* what it has not read of the body does not fit into the other pipe.  A   *)
(* copying script holds one byte more, which it cannot write.              *)
PipesMayFill(c) ==
  /\ req[c].method = "POST"
  /\ \/ Script(c) = "writes" /\ 1 + Output > PipeSize /\ req[c].length > PipeSize
     \/ Script(c) = "copies" /\ req[c].length > 2 * PipeSize

(* Every client of a supported request sees the end of its answer, which   *)
(* is when the last copy of its socket is closed, those that scripts of    *)
(* other requests have inherited included; unless the server went down, no *)
(* thread could be made for it, or a request is among them whose script    *)
(* prints before its body is read and fills both pipes                     *)
(* (httpd.c:314-327).                                                      *)
EveryAnswerEnds ==
  (\A c \in Clients : ~PipesMayFill(c))
    => \A c \in Clients :
         wpc[c] = "queued" ~> \/ Done(c) /\ (Supported(c) => ~Held(Sock(c)))
                              \/ wpc[c] = "nothread" \/ ~alive

(* README.md:40: the request is read and the status line written, and then *)
(* the child is forked.  The line is sent after the fork, by both          *)
(* processes (httpd.c:273-281).                                            *)
OneStatusLine ==
  \A c \in Clients : Cardinality({k \in DOMAIN got[c] : got[c][k] = "200"}) <= 1

==============================================================================
