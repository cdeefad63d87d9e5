--------------------------- MODULE TinyHttpdProofs ---------------------------
(***************************************************************************)
(* The safety of TinyHttpd for any number of clients, any requests, pipes  *)
(* of any size and scripts of any output.  The invariant says of every     *)
(* client which of its descriptors the server has open (OpenInv), what its *)
(* child is doing and holds (KidInv), what is in the pipe of the body      *)
(* (BodyInv), and what it has got of its script's output and what is still *)
(* in the other pipe (GotInv).  No conjunct is about two clients: although *)
(* fork hands all descriptors on, no step of one client's thread or script *)
(* depends on what another client's script inherited in a way that these   *)
(* properties tell apart.                                                  *)
(***************************************************************************)
EXTENDS TinyHttpd, SequenceTheorems, TLAPS

Own(c) == {Sock(c)} \cup OutPipe(c) \cup InPipe(c)

Early  == {"queued", "nothread", "request", "pipe1", "pipe2", "fork"}
Forked == {"parent", "body", "output", "wait"}
Kids   == {"born", "env", "script", "exited"}

ReqInv == \A c \in Clients : req[c] \in Requests[c]

(* Of some variables only the domain matters. *)
DomInv ==
  /\ DOMAIN left = Clients /\ DOMAIN wpc = Clients /\ DOMAIN failed = Clients
  /\ DOMAIN kid = Clients /\ DOMAIN kpc = Clients

Texts == {"200", "400", "404", "500", "501", "file", "env", "out"}

CountInv ==
  /\ sent \in [Clients -> Nat] /\ i \in [Clients -> Nat]
  /\ kread \in [Clients -> Nat] /\ kout \in [Clients -> Nat]

TextInv ==
  /\ inq \in [Clients -> Seq({"body", "stale"})]
  /\ outq \in [Clients -> Seq({"env", "out"})]
  /\ got \in [Clients -> Seq(Texts)]

TypeInv == ReqInv /\ DomInv /\ CountInv /\ TextInv

(* Which of c's descriptors are open.  Whether a request was supported is  *)
(* settled when its thread answers.                                        *)
OpenInv(c) ==
  /\ wpc[c] \notin {"queued", "nothread", "request"} => sent[c] >= 1 \/ left[c]
  /\ wpc[c] = "queued" => open \cap Own(c) = {}
  /\ wpc[c] \in {"request", "pipe1", "wait"} => open \cap Own(c) \subseteq {Sock(c)}
  /\ wpc[c] = "pipe2" => /\ open \cap Own(c) \subseteq {Sock(c)} \cup OutPipe(c)
                         /\ OutPipe(c) \subseteq open
  /\ wpc[c] \in {"fork", "parent"} => OutPipe(c) \cup InPipe(c) \subseteq open
  /\ wpc[c] \in {"body", "output"} =>
       open \cap Own(c) \subseteq {Sock(c), <<"outR", c>>, <<"inW", c>>}
  /\ wpc[c] = "done" /\ Supported(c) /\ ~failed[c] => open \cap Own(c) = {}

(* The child exists from fork to waitpid and holds its two ends until it   *)
(* exits, when it has read and written what it had to.                     *)
KidInv(c) ==
  /\ wpc[c] \in Early => kpc[c] = "none"
  /\ wpc[c] \in Forked => kpc[c] \in Kids
  /\ wpc[c] = "done" => kpc[c] \in {"none", "exited"}
  /\ kpc[c] \in {"born", "env", "script"} => {<<"inR", c>>, <<"outW", c>>} \subseteq kid[c]
  /\ kpc[c] = "exited" => left[c] \/ (kread[c] = ToRead(c) /\ kout[c] = ToWrite(c))

(* Every byte that was passed on was read or is in the pipe. *)
BodyInv(c) ==
  /\ kread[c] + Len(inq[c]) = i[c]
  /\ kpc[c] \in {"none", "born", "env"} => kread[c] = 0 /\ kout[c] = 0
  /\ wpc[c] = "body" => req[c].method = "POST" /\ i[c] < req[c].length
  /\ wpc[c] \in Early \cup {"parent"} => i[c] = 0
  /\ ~left[c] => \A k \in DOMAIN inq[c] : inq[c][k] = "body"

(* The status lines that the parent and the child have sent, what a script *)
(* has printed when it has written n bytes, and the whole answer then.     *)
Told(c) ==
  CASE wpc[c] = "parent" /\ kpc[c] = "born" -> <<>>
    [] wpc[c] # "parent" /\ kpc[c] # "born" -> <<"200", "200">>
    [] OTHER -> <<"200">>

Outs(n)    == [k \in 1..n |-> "out"]
Printed(n) == <<"env">> \o Outs(n)
Whole(n)   == <<"200", "200", "env">> \o Outs(n)

GotInv(c) ==
  ~left[c] =>
    /\ wpc[c] \in Early => got[c] = <<>> /\ outq[c] = <<>>
    /\ wpc[c] \in Forked /\ kpc[c] \in {"born", "env"} => got[c] = Told(c) /\ outq[c] = <<>>
    /\ wpc[c] \in {"parent", "body"} /\ kpc[c] \in {"script", "exited"} =>
         got[c] = Told(c) /\ outq[c] = Printed(kout[c])
    /\ wpc[c] \in {"output", "wait"} /\ kpc[c] \in {"script", "exited"} =>
         got[c] \o outq[c] = Whole(kout[c])
    /\ wpc[c] = "wait" => outq[c] = <<>> /\ kpc[c] = "exited"
    /\ RanScript(c) => got[c] = Whole(ToWrite(c))

Inv(c) == OpenInv(c) /\ KidInv(c) /\ BodyInv(c) /\ GotInv(c)

IInv == TypeInv /\ NeverDown /\ \A c \in Clients : Inv(c)

Step(c) == Send(c) \/ Leave(c) \/ main(c) \/ Worker(c) \/ Process(c)

-----------------------------------------------------------------------------
(* The types. *)
LEMMA CountStep ==
  ASSUME CountInv, NEW c \in Clients, Step(c) PROVE CountInv'
<1>. USE DEF CountInv, clientVars, workerVars, kidVars
<1>1. CASE Send(c) \/ Leave(c)
  BY <1>1 DEF Send, Leave
<1>2. CASE main(c)
  BY <1>2 DEF main, Accept, AcceptFails, NoThread
<1>3. CASE PassBody(c)
  <2>1. i[c] + 1 \in Nat /\ (i' = i \/ i' = [i EXCEPT ![c] = i[c] + 1])
    BY <1>3 DEF PassBody
  <2>. QED  BY <1>3, <2>1 DEF PassBody
<1>4. CASE Worker(c) /\ ~PassBody(c)
  BY <1>4 DEF Worker, Unimplemented, NotFound, ServeFile, CloseNoFile, BadRequest, StartCgi, Pipe,
              CannotExecute, Fork, Parent, PassOutput, OutputEnds, Reap, Answer
<1>5. CASE Child(c) \/ Exec(c) \/ ScriptExits(c)
  BY <1>5 DEF Child, Exec, ScriptExits
<1>6. CASE ScriptReads(c) \/ ScriptWrites(c)
  <2>1. kread[c] + 1 \in Nat /\ kout[c] + 1 \in Nat
    OBVIOUS
  <2>2. \/ kread' = [kread EXCEPT ![c] = kread[c] + 1] /\ kout' = kout
        \/ kout' = [kout EXCEPT ![c] = kout[c] + 1] /\ kread' = kread
    BY <1>6 DEF ScriptReads, ScriptWrites
  <2>3. UNCHANGED <<sent, i>>
    BY <1>6 DEF ScriptReads, ScriptWrites
  <2>. QED  BY <2>1, <2>2, <2>3
<1>. QED  BY <1>1, <1>2, <1>3, <1>4, <1>5, <1>6 DEF Step, Process

LEMMA DomStep ==
  ASSUME ReqInv, DomInv, NEW c \in Clients, Step(c) PROVE ReqInv' /\ DomInv'
<1>. USE DEF ReqInv, DomInv, clientVars, workerVars, kidVars
<1>1. CASE Send(c) \/ Leave(c)
  BY <1>1 DEF Send, Leave
<1>2. CASE main(c)
  BY <1>2 DEF main, Accept, AcceptFails, NoThread
<1>3. CASE Worker(c)
  BY <1>3 DEF Worker, Unimplemented, NotFound, ServeFile, CloseNoFile, BadRequest, StartCgi, Pipe,
              CannotExecute, Fork, Parent, PassBody, PassOutput, OutputEnds, Reap, Answer
<1>4. CASE Process(c)
  BY <1>4 DEF Process, Child, Exec, ScriptReads, ScriptWrites, ScriptExits
<1>. QED  BY <1>1, <1>2, <1>3, <1>4 DEF Step

LEMMA OneText ==
  ASSUME NEW x \in Texts PROVE <<x>> \in Seq(Texts)
OBVIOUS

LEMMA TextStep ==
  ASSUME TextInv, NEW c \in Clients, Step(c) PROVE TextInv'
<1>. USE DEF TextInv, clientVars, workerVars, kidVars
<1>1. ASSUME NEW text \in Seq(Texts), Reply(c, text) PROVE got' \in [Clients -> Seq(Texts)]
  <2>1. got[c] \o text \in Seq(Texts)
    OBVIOUS
  <2>2. got' = got \/ got' = [got EXCEPT ![c] = got[c] \o text]
    BY <1>1 DEF Reply
  <2>. QED  BY <2>1, <2>2
<1>2. CASE Send(c) \/ Leave(c) \/ main(c)
  BY <1>2 DEF Send, Leave, main, Accept, AcceptFails, NoThread
<1>3. ASSUME NEW text \in Seq(Texts), Answer(c, text) PROVE TextInv'
  <2>1. Reply(c, text) /\ UNCHANGED <<inq, outq>>
    BY <1>3 DEF Answer
  <2>. QED  BY <1>1, <2>1
<1>4. CASE NotFound(c) \/ ServeFile(c) \/ BadRequest(c)
  <2>1. not_found \in Seq(Texts) /\ bad_request \in Seq(Texts)
    BY OneText DEF not_found, bad_request, Texts
  <2>2. headers \o cat \in Seq(Texts)
    BY OneText DEF headers, cat, Texts
  <2>. QED  BY <1>3, <1>4, <2>1, <2>2 DEF NotFound, ServeFile, BadRequest
<1>5. CASE Unimplemented(c) \/ CannotExecute(c) \/ Parent(c)
  <2>1. unimplemented \in Seq(Texts) /\ cannot_execute \in Seq(Texts) /\ <<"200">> \in Seq(Texts)
    BY OneText DEF unimplemented, cannot_execute, Texts
  <2>2. Reply(c, unimplemented) \/ Reply(c, cannot_execute) \/ Reply(c, <<"200">>)
    BY <1>5 DEF Unimplemented, CannotExecute, Parent
  <2>3. UNCHANGED <<inq, outq>>
    BY <1>5 DEF Unimplemented, CannotExecute, Parent
  <2>. QED  BY <1>1, <2>1, <2>2, <2>3
<1>6. CASE CloseNoFile(c) \/ StartCgi(c) \/ Pipe(c) \/ Fork(c) \/ OutputEnds(c) \/ Reap(c)
  BY <1>6 DEF CloseNoFile, StartCgi, Pipe, Fork, OutputEnds, Reap
<1>7. CASE PassBody(c)
  <2>. Byte(c) \in {"body", "stale"} /\ inq[c] \in Seq({"body", "stale"})
    BY DEF Byte
  <2>1. Append(inq[c], Byte(c)) \in Seq({"body", "stale"})
    BY AppendProperties
  <2>2. inq' = inq \/ inq' = [inq EXCEPT ![c] = Append(inq[c], Byte(c))]
    BY <1>7 DEF PassBody
  <2>3. UNCHANGED <<outq, got>>
    BY <1>7 DEF PassBody
  <2>. QED  BY <2>1, <2>2, <2>3
<1>8. CASE PassOutput(c)
  <2>1. outq[c] \in Seq({"env", "out"}) /\ outq[c] # <<>>
    BY <1>8 DEF PassOutput
  <2>2. Head(outq[c]) \in {"env", "out"} /\ Tail(outq[c]) \in Seq({"env", "out"})
    BY <2>1
  <2>3. <<Head(outq[c])>> \in Seq(Texts)
    BY <2>2, OneText DEF Texts
  <2>4. Reply(c, <<Head(outq[c])>>) /\ outq' = [outq EXCEPT ![c] = Tail(outq[c])] /\ inq' = inq
    BY <1>8 DEF PassOutput
  <2>. QED  BY <1>1, <2>2, <2>3, <2>4
<1>9. CASE Child(c)
  <2>1. Append(got[c], "200") \in Seq(Texts)
    BY AppendProperties DEF Texts
  <2>2. got' = got \/ got' = [got EXCEPT ![c] = Append(got[c], "200")]
    BY <1>9 DEF Child
  <2>3. UNCHANGED <<inq, outq>>
    BY <1>9 DEF Child
  <2>. QED  BY <2>1, <2>2, <2>3
<1>10. CASE Exec(c) \/ ScriptWrites(c) \/ ScriptExits(c)
  <2>1. Append(outq[c], "env") \in Seq({"env", "out"}) /\ Append(outq[c], "out") \in Seq({"env", "out"})
    BY AppendProperties
  <2>2. UNCHANGED <<inq, got>>
    BY <1>10 DEF Exec, ScriptWrites, ScriptExits
  <2>3. \/ outq' = outq
        \/ outq' = [outq EXCEPT ![c] = Append(outq[c], "env")]
        \/ outq' = [outq EXCEPT ![c] = Append(outq[c], "out")]
    BY <1>10 DEF Exec, Emit, ScriptWrites, ScriptExits
  <2>. QED  BY <2>1, <2>2, <2>3
<1>11. CASE ScriptReads(c)
  <2>1. Tail(inq[c]) \in Seq({"body", "stale"})
    BY <1>11 DEF ScriptReads
  <2>2. inq' = [inq EXCEPT ![c] = Tail(inq[c])] /\ outq' = outq /\ got' = got
    BY <1>11 DEF ScriptReads
  <2>. QED  BY <2>1, <2>2
<1>. QED
  BY <1>2, <1>4, <1>5, <1>6, <1>7, <1>8, <1>9, <1>10, <1>11 DEF Step, Worker, Process

LEMMA TypeStep ==
  ASSUME TypeInv, NEW c \in Clients, Step(c) PROVE TypeInv'
BY CountStep, DomStep, TextStep DEF TypeInv

-----------------------------------------------------------------------------
(* A step of one client leaves the others' parts alone. *)
LEMMA Others ==
  ASSUME TypeInv, NEW c \in Clients, Step(c), NEW d \in Clients, d # c
  PROVE  /\ req'[d] = req[d] /\ wpc'[d] = wpc[d] /\ sent'[d] = sent[d] /\ left'[d] = left[d] /\ failed'[d] = failed[d]
         /\ open' \cap Own(d) = open \cap Own(d)
         /\ kpc'[d] = kpc[d] /\ kid'[d] = kid[d] /\ kread'[d] = kread[d] /\ kout'[d] = kout[d]
         /\ i'[d] = i[d] /\ inq'[d] = inq[d] /\ outq'[d] = outq[d] /\ got'[d] = got[d]
<1>. USE DEF TypeInv, DomInv, CountInv, TextInv, clientVars, workerVars, kidVars
<1>1. Own(c) \cap Own(d) = {}
  BY DEF Own, Sock, OutPipe, InPipe
<1>2. /\ Sock(c) \notin Own(d) /\ OutPipe(c) \cap Own(d) = {} /\ InPipe(c) \cap Own(d) = {}
      /\ {<<"outW", c>>, <<"inR", c>>} \cap Own(d) = {} /\ {<<"outR", c>>, <<"inW", c>>} \cap Own(d) = {}
  BY <1>1 DEF Own, OutPipe, InPipe
<1>3. ASSUME NEW text, Reply(c, text) PROVE got'[d] = got[d]
  BY <1>3 DEF Reply
<1>4. CASE Send(c) \/ Leave(c)
  BY <1>4 DEF Send, Leave
<1>5. CASE main(c)
  BY <1>2, <1>5 DEF main, Accept, AcceptFails, NoThread
<1>6. ASSUME NEW text, Answer(c, text)
      PROVE  /\ wpc'[d] = wpc[d] /\ open' \cap Own(d) = open \cap Own(d) /\ got'[d] = got[d]
             /\ UNCHANGED <<clientVars, i, failed, kidVars, inq, outq>>
  BY <1>2, <1>3, <1>6 DEF Answer
<1>7. CASE NotFound(c) \/ ServeFile(c) \/ BadRequest(c)
  BY <1>6, <1>7 DEF NotFound, ServeFile, BadRequest
<1>8. CASE Unimplemented(c)
  BY <1>3, <1>8 DEF Unimplemented
<1>9. CASE CannotExecute(c)
  BY <1>2, <1>3, <1>9 DEF CannotExecute
<1>10. CASE Parent(c)
  BY <1>2, <1>3, <1>10 DEF Parent
<1>11. CASE CloseNoFile(c) \/ StartCgi(c) \/ Fork(c)
  BY <1>11 DEF CloseNoFile, StartCgi, Fork
<1>12. CASE Pipe(c)
  BY <1>2, <1>12 DEF Pipe
<1>13. CASE OutputEnds(c) \/ Reap(c)
  BY <1>2, <1>13 DEF OutputEnds, Reap
<1>14. CASE PassBody(c)
  BY <1>14 DEF PassBody
<1>15. CASE PassOutput(c)
  BY <1>3, <1>15 DEF PassOutput
<1>16. CASE Process(c)
  BY <1>16 DEF Process, Child, Exec, Emit, ScriptReads, ScriptWrites, ScriptExits
<1>. QED
  BY <1>4, <1>5, <1>7, <1>8, <1>9, <1>10, <1>11, <1>12, <1>13, <1>14, <1>15, <1>16 DEF Step, Worker

-----------------------------------------------------------------------------
(* The process goes down only for the reasons that NeverDown names: while  *)
(* the body is passed on to a script that has read less than all of it,    *)
(* the script has not exited and holds the reading end.                    *)
LEMMA DownStep ==
  ASSUME TypeInv, NEW c \in Clients, Step(c), alive, KidInv(c), BodyInv(c)
  PROVE  NeverDown'
<1>. USE DEF clientVars, workerVars, kidVars
<1>. DEFINE Excused == scarce \/ left[c] \/ ~Obliging(c) \/ req[c].what = "unreadable"
<1>1. SUFFICES ASSUME ~alive' PROVE Excused /\ UNCHANGED <<scarce, req, left>>
  BY DEF NeverDown, Obliging, Script
<1>2. ASSUME NEW text, Reply(c, text) PROVE left[c]
  BY <1>1, <1>2 DEF Reply
<1>3. ASSUME NEW text, Answer(c, text) PROVE left[c] /\ UNCHANGED <<scarce, req, left>>
  BY <1>2, <1>3 DEF Answer
<1>4. CASE AcceptFails(c)
  BY <1>4 DEF AcceptFails, Room
<1>5. CASE Unimplemented(c) \/ CannotExecute(c) \/ Parent(c) \/ PassOutput(c)
  BY <1>2, <1>5 DEF Unimplemented, CannotExecute, Parent, PassOutput
<1>6. CASE NotFound(c) \/ ServeFile(c) \/ BadRequest(c)
  BY <1>3, <1>6 DEF NotFound, ServeFile, BadRequest
<1>7. CASE CloseNoFile(c)
  <2>1. req[c].what \in {"file", "unreadable", "missing", "script"}
    BY RequestsAssumption DEF TypeInv, ReqInv
  <2>. QED  BY <1>7, <2>1 DEF CloseNoFile, cgi, CanOpen, Room
<1>8. CASE PassBody(c)
  <2>1. wpc[c] = "body" /\ ~Held(<<"inR", c>>) /\ UNCHANGED <<scarce, req, left>>
    BY <1>1, <1>8 DEF PassBody
  <2>2. kpc[c] = "exited"
    BY <2>1 DEF KidInv, Forked, Kids, Held
  <2>3. kread[c] \in Nat /\ i[c] \in Nat /\ Len(inq[c]) \in Nat
    BY DEF TypeInv, CountInv, TextInv
  <2>4. req[c].length \in Int
    BY RequestsAssumption DEF TypeInv, ReqInv
  <2>5. kread[c] < req[c].length
    BY <2>1, <2>3, <2>4 DEF BodyInv
  <2>6. left[c] \/ kread[c] = ToRead(c)
    BY <2>2 DEF KidInv
  <2>7. Obliging(c) => ToRead(c) = req[c].length
    BY <2>1 DEF BodyInv, Obliging, ToRead
  <2>. QED  BY <2>1, <2>3, <2>4, <2>5, <2>6, <2>7
<1>9. ASSUME \/ Send(c) \/ Leave(c) \/ Accept(c) \/ NoThread(c) \/ StartCgi(c) \/ Pipe(c) \/ Fork(c)
             \/ OutputEnds(c) \/ Reap(c) \/ Process(c)
      PROVE  FALSE
  BY <1>1, <1>9 DEF Send, Leave, Accept, NoThread, StartCgi, Pipe, Fork, OutputEnds, Reap, Process,
                    Child, Exec, ScriptReads, ScriptWrites, ScriptExits
<1>. QED
  BY <1>4, <1>5, <1>6, <1>7, <1>8, <1>9 DEF Step, main, Worker

-----------------------------------------------------------------------------
LEMMA OpenStep ==
  ASSUME TypeInv, NEW c \in Clients, Step(c), OpenInv(c) PROVE OpenInv(c)'
<1>. USE DEF TypeInv, DomInv, OpenInv, clientVars, workerVars, kidVars, Supported
<1>1. CASE Send(c)
  BY <1>1 DEF CountInv, Send
<1>2. CASE Leave(c)
  BY <1>2 DEF Leave
<1>3. CASE main(c)
  BY <1>3 DEF main, Accept, AcceptFails, NoThread, Own
<1>4. CASE Unimplemented(c)
  BY <1>4 DEF Unimplemented
<1>5. ASSUME NEW text, Answer(c, text), wpc[c] = "request", Supported(c) PROVE OpenInv(c)'
  BY <1>5 DEF Answer
<1>6. CASE NotFound(c) \/ ServeFile(c) \/ BadRequest(c)
  BY <1>5, <1>6 DEF NotFound, ServeFile, BadRequest, HeadersRead
<1>7. CASE CloseNoFile(c) \/ StartCgi(c)
  BY <1>7 DEF CloseNoFile, StartCgi, HeadersRead
<1>8. CASE Pipe(c)
  BY <1>8 DEF Pipe, Own, OutPipe, InPipe, Sock
<1>9. CASE CannotExecute(c)
  BY <1>9 DEF CannotExecute
<1>10. CASE Fork(c)
  BY <1>10 DEF Fork
<1>11. CASE Parent(c)
  BY <1>11 DEF Parent, Passing, Own, OutPipe, InPipe, Sock
<1>12. CASE PassBody(c)
  BY <1>12 DEF PassBody, Passing
<1>13. CASE PassOutput(c)
  BY <1>13 DEF PassOutput
<1>14. CASE OutputEnds(c)
  BY <1>14 DEF OutputEnds
<1>15. CASE Reap(c)
  BY <1>15 DEF Reap
<1>16. CASE Process(c)
  BY <1>16 DEF Process, Child, Exec, ScriptReads, ScriptWrites, ScriptExits
<1>. QED
  BY <1>1, <1>2, <1>3, <1>4, <1>6, <1>7, <1>8, <1>9, <1>10, <1>11, <1>12, <1>13, <1>14, <1>15, <1>16
     DEF Step, Worker

LEMMA KidStep ==
  ASSUME TypeInv, NEW c \in Clients, Step(c), OpenInv(c), KidInv(c) PROVE KidInv(c)'
<1>. USE DEF TypeInv, DomInv, KidInv, Early, Forked, Kids, ToRead, ToWrite, Script, clientVars, workerVars, kidVars
<1>1. CASE Send(c)
  BY <1>1 DEF Send
<1>2. CASE Leave(c)
  BY <1>2 DEF Leave
<1>3. CASE main(c)
  BY <1>3 DEF main, Accept, AcceptFails, NoThread
<1>4. CASE Unimplemented(c)
  BY <1>4 DEF Unimplemented
<1>5. CASE NotFound(c) \/ ServeFile(c) \/ BadRequest(c)
  BY <1>5 DEF NotFound, ServeFile, BadRequest, HeadersRead, Answer
<1>6. CASE CloseNoFile(c) \/ StartCgi(c)
  BY <1>6 DEF CloseNoFile, StartCgi, HeadersRead
<1>7. CASE Pipe(c)
  BY <1>7 DEF Pipe
<1>8. CASE CannotExecute(c)
  BY <1>8 DEF CannotExecute
<1>9. CASE Fork(c)
  BY <1>9 DEF Fork, OpenInv, OutPipe, InPipe
<1>10. CASE Parent(c)
  BY <1>10 DEF Parent, Passing
<1>11. CASE PassBody(c)
  BY <1>11 DEF PassBody, Passing
<1>12. CASE PassOutput(c)
  BY <1>12 DEF PassOutput
<1>13. CASE OutputEnds(c) \/ Reap(c)
  BY <1>13 DEF OutputEnds, Reap
<1>14. CASE Child(c)
  BY <1>14 DEF Child
<1>15. CASE Exec(c)
  BY <1>15 DEF Exec
<1>16. CASE ScriptReads(c) \/ ScriptWrites(c)
  BY <1>16 DEF ScriptReads, ScriptWrites
<1>17. CASE ScriptExits(c)
  BY <1>17 DEF ScriptExits
<1>. QED
  BY <1>1, <1>2, <1>3, <1>4, <1>5, <1>6, <1>7, <1>8, <1>9, <1>10, <1>11, <1>12, <1>13, <1>14, <1>15,
     <1>16, <1>17 DEF Step, Worker, Process

LEMMA BodyStep ==
  ASSUME TypeInv, NEW c \in Clients, Step(c), KidInv(c), BodyInv(c) PROVE BodyInv(c)'
<1>. USE DEF TypeInv, DomInv, CountInv, BodyInv, Early, Passing, clientVars, workerVars, kidVars
<1>1. CASE Send(c) \/ Leave(c) \/ main(c)
  BY <1>1 DEF Send, Leave, main, Accept, AcceptFails, NoThread
<1>2. CASE Unimplemented(c) \/ NotFound(c) \/ ServeFile(c) \/ BadRequest(c)
  BY <1>2 DEF Unimplemented, NotFound, ServeFile, BadRequest, Answer
<1>3. CASE CloseNoFile(c) \/ StartCgi(c) \/ Pipe(c)
  BY <1>3 DEF CloseNoFile, StartCgi, HeadersRead, Pipe
<1>4. CASE CannotExecute(c)
  BY <1>4 DEF CannotExecute
<1>5. CASE Fork(c)
  BY <1>5 DEF Fork, KidInv
<1>6. CASE Parent(c)
  BY <1>6 DEF Parent
<1>7. CASE PassBody(c)
  <2>1. CASE UNCHANGED <<inq, i, wpc>>
    BY <1>7, <2>1 DEF PassBody
  <2>2. CASE /\ inq' = [inq EXCEPT ![c] = Append(inq[c], Byte(c))]
             /\ i' = [i EXCEPT ![c] = i[c] + 1]
             /\ wpc' = [wpc EXCEPT ![c] = Passing(c, i[c] + 1)]
    <3>. DEFINE s == inq[c]
                b == Byte(c)
    <3>1. s \in Seq({"body", "stale"}) /\ b \in {"body", "stale"}
      BY DEF TextInv, Byte
    <3>2. /\ inq'[c] = Append(s, b) /\ i'[c] = i[c] + 1 /\ wpc'[c] = Passing(c, i[c] + 1)
          /\ wpc[c] = "body" /\ (b = "body" \/ left[c]) /\ UNCHANGED <<clientVars, kidVars>>
      BY <1>7, <2>2 DEF PassBody, TextInv
    <3>. HIDE DEF b
    <3>3. /\ Len(Append(s, b)) = Len(s) + 1 /\ DOMAIN Append(s, b) = 1..Len(s) + 1
          /\ \A k \in 1..Len(s) : Append(s, b)[k] = s[k]
          /\ Append(s, b)[Len(s) + 1] = b /\ DOMAIN s = 1..Len(s) /\ Len(s) \in Nat
      BY <3>1
    <3>4. ~left[c] => \A k \in DOMAIN Append(s, b) : Append(s, b)[k] = "body"
      BY <3>2, <3>3
    <3>5. kread[c] + Len(Append(s, b)) = i[c] + 1
      BY <3>3
    <3>. QED  BY <3>2, <3>4, <3>5
  <2>. QED  BY <1>7, <2>1, <2>2 DEF PassBody
<1>8. CASE PassOutput(c) \/ OutputEnds(c) \/ Reap(c)
  BY <1>8 DEF PassOutput, OutputEnds, Reap
<1>9. CASE Child(c) \/ Exec(c)
  BY <1>9 DEF Child, Exec
<1>10. CASE ScriptReads(c)
  <2>. DEFINE s == inq[c]
  <2>1. s \in Seq({"body", "stale"}) /\ s # <<>>
    BY <1>10 DEF ScriptReads, TextInv
  <2>2. /\ inq'[c] = Tail(s) /\ kread'[c] = kread[c] + 1 /\ kpc[c] = "script"
        /\ UNCHANGED <<clientVars, workerVars, kpc>>
    BY <1>10 DEF ScriptReads, TextInv
  <2>. HIDE DEF s
  <2>3. /\ Len(Tail(s)) = Len(s) - 1 /\ DOMAIN Tail(s) = 1..Len(s) - 1 /\ Len(s) \in Nat
        /\ \A k \in 1..Len(s) - 1 : Tail(s)[k] = s[k + 1]
        /\ DOMAIN s = 1..Len(s)
    BY <2>1
  <2>4. ~left[c] => \A k \in DOMAIN Tail(s) : Tail(s)[k] = "body"
    <3>1. ~left[c] => \A k \in 1..Len(s) : s[k] = "body"
      BY <2>3 DEF s
    <3>2. SUFFICES ASSUME ~left[c], NEW k \in 1..Len(s) - 1 PROVE Tail(s)[k] = "body"
      BY <2>3
    <3>3. k + 1 \in 1..Len(s)
      BY <2>3
    <3>. QED  BY <2>3, <3>1, <3>2, <3>3
  <2>5. kread[c] + 1 + Len(Tail(s)) = i[c]
    BY <2>3 DEF s
  <2>. QED  BY <2>2, <2>4, <2>5 DEF s
<1>11. CASE ScriptWrites(c) \/ ScriptExits(c)
  BY <1>11 DEF ScriptWrites, ScriptExits
<1>. QED
  BY <1>1, <1>2, <1>3, <1>4, <1>5, <1>6, <1>7, <1>8, <1>9, <1>10, <1>11 DEF Step, Worker, Process

-----------------------------------------------------------------------------
(* The texts that are sent. *)
LEMMA ShortTexts ==
  ASSUME NEW x \in Texts, NEW y \in Texts, NEW z \in Texts
  PROVE  /\ Append(<<>>, x) = <<x>> /\ Append(<<x>>, y) = <<x, y>>
         /\ Append(<<x, y>>, z) = <<x, y, z>>
<1>1. Append(<<>>, x) = <<x>>
  <2>1. Append(<<>>, x) \in Seq(Texts) /\ Len(Append(<<>>, x)) = 1 /\ Append(<<>>, x)[1] = x
    BY AppendProperties
  <2>. QED  BY <2>1
<1>2. Append(<<x>>, y) = <<x, y>>
  <2>1. <<x>> \in Seq(Texts) /\ <<x, y>> \in Seq(Texts)
    OBVIOUS
  <2>2. /\ Append(<<x>>, y) \in Seq(Texts) /\ Len(Append(<<x>>, y)) = 2
        /\ Append(<<x>>, y)[1] = x /\ Append(<<x>>, y)[2] = y
    BY <2>1, AppendProperties
  <2>3. \A k \in 1..2 : Append(<<x>>, y)[k] = <<x, y>>[k]
    BY <2>2
  <2>4. Len(<<x, y>>) = 2
    OBVIOUS
  <2>. QED  BY <2>1, <2>2, <2>3, <2>4, SeqEqual
<1>3. Append(<<x, y>>, z) = <<x, y, z>>
  <2>1. <<x, y>> \in Seq(Texts) /\ <<x, y, z>> \in Seq(Texts)
    OBVIOUS
  <2>2. /\ Append(<<x, y>>, z) \in Seq(Texts) /\ Len(Append(<<x, y>>, z)) = 3
        /\ Append(<<x, y>>, z)[1] = x /\ Append(<<x, y>>, z)[2] = y /\ Append(<<x, y>>, z)[3] = z
    BY <2>1, AppendProperties
  <2>3. \A k \in 1..3 : Append(<<x, y>>, z)[k] = <<x, y, z>>[k]
    BY <2>2
  <2>4. Len(<<x, y, z>>) = 3
    OBVIOUS
  <2>. QED  BY <2>1, <2>2, <2>3, <2>4, SeqEqual
<1>. QED  BY <1>1, <1>2, <1>3

LEMMA OutsMore ==
  ASSUME NEW n \in Nat
  PROVE  Outs(n) \in Seq(Texts) /\ Append(Outs(n), "out") = Outs(n + 1) /\ Outs(0) = <<>>
<1>1. Outs(n) \in Seq(Texts) /\ Len(Outs(n)) = n
  BY DEF Outs, Texts
<1>2. Append(Outs(n), "out") = Outs(n + 1)
  <2>1. Append(Outs(n), "out") \in Seq(Texts) /\ Outs(n + 1) \in Seq(Texts)
    BY <1>1 DEF Outs, Texts
  <2>2. Len(Append(Outs(n), "out")) = n + 1 /\ Len(Outs(n + 1)) = n + 1
    BY <1>1 DEF Outs
  <2>3. ASSUME NEW k \in 1..n + 1 PROVE Append(Outs(n), "out")[k] = Outs(n + 1)[k]
    BY <1>1 DEF Outs
  <2>. QED  BY <2>1, <2>2, <2>3
<1>. QED  BY <1>1, <1>2 DEF Outs

LEMMA AppendToRight ==
  ASSUME NEW s \in Seq(Texts), NEW t \in Seq(Texts), NEW x \in Texts
  PROVE  s \o Append(t, x) = Append(s \o t, x)
<1>1. <<x>> \in Seq(Texts) /\ s \o t \in Seq(Texts)
  BY OneText
<1>2. Append(t, x) = t \o <<x>> /\ Append(s \o t, x) = (s \o t) \o <<x>>
  BY <1>1, AppendIsConcat
<1>. QED  BY <1>1, <1>2, ConcatAssociative

LEMMA HeadMoves ==
  ASSUME NEW s \in Seq(Texts), NEW t \in Seq(Texts), t # <<>>
  PROVE  (s \o <<Head(t)>>) \o Tail(t) = s \o t
<1>1. Head(t) \in Texts /\ Tail(t) \in Seq(Texts)
  BY HeadTailProperties
<1>2. <<Head(t)>> \in Seq(Texts)
  BY <1>1, OneText
<1>3. <<Head(t)>> \o Tail(t) = t
  OBVIOUS
<1>. QED  BY <1>1, <1>2, <1>3, ConcatAssociative

LEMMA PrintedMore ==
  ASSUME NEW n \in Nat
  PROVE  /\ Printed(0) = <<"env">> /\ Printed(n) \in Seq(Texts)
         /\ Append(Printed(n), "out") = Printed(n + 1)
         /\ Append(Whole(n), "out") = Whole(n + 1)
         /\ <<"200", "200">> \o Printed(n) = Whole(n)
<1>1. /\ <<"env">> \in Seq(Texts) /\ <<"200", "200">> \in Seq(Texts)
      /\ <<"200", "200", "env">> \in Seq(Texts) /\ "out" \in Texts
  BY DEF Texts
<1>2. Outs(n) \in Seq(Texts) /\ Outs(0) = <<>> /\ Append(Outs(n), "out") = Outs(n + 1)
  BY OutsMore
<1>3. Printed(0) = <<"env">> /\ Printed(n) \in Seq(Texts)
  <2>1. <<"env">> \o <<>> = <<"env">>
    BY <1>1, ConcatEmptySeq
  <2>2. <<"env">> \o Outs(n) \in Seq(Texts)
    BY <1>1, <1>2, ConcatProperties
  <2>. QED  BY <1>2, <2>1, <2>2 DEF Printed
<1>4. Append(Printed(n), "out") = Printed(n + 1) /\ Append(Whole(n), "out") = Whole(n + 1)
  <2>1. <<"env">> \o Append(Outs(n), "out") = Append(<<"env">> \o Outs(n), "out")
    BY <1>1, <1>2, AppendToRight
  <2>2. <<"200", "200", "env">> \o Append(Outs(n), "out") = Append(<<"200", "200", "env">> \o Outs(n), "out")
    BY <1>1, <1>2, AppendToRight
  <2>. QED  BY <1>2, <2>1, <2>2 DEF Printed, Whole
<1>5. <<"200", "200">> \o <<"env">> = <<"200", "200", "env">>
  <2>1. <<"200", "200">> \o <<"env">> = Append(<<"200", "200">>, "env")
    BY <1>1, AppendIsConcat DEF Texts
  <2>2. Append(<<"200", "200">>, "env") = <<"200", "200", "env">>
    BY ShortTexts DEF Texts
  <2>. QED  BY <2>1, <2>2
<1>6. <<"200", "200">> \o Printed(n) = Whole(n)
  <2>1. (<<"200", "200">> \o <<"env">>) \o Outs(n) = <<"200", "200">> \o (<<"env">> \o Outs(n))
    BY <1>1, <1>2, ConcatAssociative
  <2>. QED  BY <1>5, <2>1 DEF Printed, Whole
<1>. QED  BY <1>3, <1>4, <1>6

-----------------------------------------------------------------------------
LEMMA GotStep ==
  ASSUME TypeInv, NEW c \in Clients, Step(c), OpenInv(c), KidInv(c), BodyInv(c), GotInv(c)
  PROVE  GotInv(c)'
<1>. USE DEF DomInv, clientVars, workerVars, kidVars
<1>. SUFFICES ASSUME ~left[c], ~left'[c] PROVE GotInv(c)'
  <2>1. left'[c] \/ left'[c] = left[c]
    BY DEF TypeInv, Step, Send, Leave, main, Worker, Process, Accept, AcceptFails, NoThread, Unimplemented,
           NotFound, ServeFile, CloseNoFile, BadRequest, StartCgi, Pipe, CannotExecute, Fork, Parent,
           PassBody, PassOutput, OutputEnds, Reap, Child, Exec, ScriptReads, ScriptWrites, ScriptExits, Answer
  <2>. QED  BY <2>1 DEF GotInv
<1>1. DomInv /\ kout[c] \in Nat /\ got \in [Clients -> Seq(Texts)] /\ outq \in [Clients -> Seq(Texts)]
  BY DEF TypeInv, CountInv, TextInv, Texts
<1>2. /\ got[c] \in Seq(Texts) /\ outq[c] \in Seq(Texts)
      /\ Printed(0) = <<"env">> /\ Printed(kout[c]) \in Seq(Texts)
      /\ Append(Printed(kout[c]), "out") = Printed(kout[c] + 1)
      /\ Append(Whole(kout[c]), "out") = Whole(kout[c] + 1)
      /\ <<"200", "200">> \o Printed(kout[c]) = Whole(kout[c])
  BY <1>1, PrintedMore
<1>3. ASSUME NEW text, Reply(c, text) PROVE got'[c] = got[c] \o text
  BY <1>1, <1>3 DEF Reply
<1>. USE <1>1, <1>2 DEF Early, Forked, Kids
<1>4. ASSUME UNCHANGED <<req, failed, kpc, kread, kout, outq, got>>, wpc'[c] = wpc[c],
             Supported(c)' = Supported(c) \/ wpc[c] # "done"
      PROVE  GotInv(c)'
  BY <1>4 DEF GotInv, Told, RanScript, Done, cgi, ToWrite, Script
<1>5. CASE Send(c)
  <2>1. wpc[c] = "done" => Supported(c)' = Supported(c)
    BY <1>5 DEF Send, OpenInv, Supported, TypeInv, CountInv
  <2>. QED  BY <1>4, <1>5, <2>1 DEF Send
<1>6. CASE Leave(c)
  BY <1>6 DEF Leave, TypeInv
<1>7. ASSUME wpc[c] \in Early, wpc'[c] \in Early, UNCHANGED <<outq, got>>
      PROVE  GotInv(c)'
  BY <1>7 DEF GotInv, RanScript, Done
<1>8. CASE main(c)
  BY <1>4, <1>7, <1>8 DEF main, Accept, AcceptFails, NoThread, Supported
<1>9. ASSUME wpc'[c] = "done", ~RanScript(c)' PROVE GotInv(c)'
  BY <1>9 DEF GotInv
<1>10. CASE Unimplemented(c)
  <2>1. wpc'[c] = "done" /\ ~Supported(c)'
    BY <1>10 DEF Unimplemented, Supported
  <2>. QED  BY <1>9, <2>1 DEF RanScript
<1>11. CASE NotFound(c) \/ ServeFile(c) \/ BadRequest(c)
  BY <1>9, <1>11 DEF NotFound, ServeFile, BadRequest, Answer, RanScript, cgi
<1>12. CASE CloseNoFile(c) \/ StartCgi(c) \/ Pipe(c)
  BY <1>4, <1>7, <1>12 DEF CloseNoFile, StartCgi, Pipe, HeadersRead, Supported
<1>13. CASE CannotExecute(c)
  BY <1>9, <1>13 DEF CannotExecute, RanScript
<1>14. CASE Fork(c)
  BY <1>14 DEF Fork, GotInv, Told, RanScript, Done
<1>15. /\ Append(<<>>, "200") = <<"200">> /\ Append(<<"200">>, "200") = <<"200", "200">>
       /\ Append(<<>>, "env") = <<"env">>
  BY ShortTexts DEF Texts
<1>16. <<>> \o <<"200">> = <<"200">> /\ <<"200">> \o <<"200">> = <<"200", "200">>
  <2>1. <<>> \in Seq(Texts) /\ <<"200">> \in Seq(Texts) /\ "200" \in Texts
    BY OneText DEF Texts
  <2>2. <<"200">> \o <<"200">> = Append(<<"200">>, "200")
    BY <2>1, AppendIsConcat
  <2>. QED  BY <1>15, <2>1, <2>2, ConcatEmptySeq
<1>17. CASE Parent(c)
  <2>1. /\ wpc[c] = "parent" /\ wpc'[c] \in {"body", "output"} /\ got'[c] = got[c] \o <<"200">>
        /\ UNCHANGED <<kpc, kout, outq>>
    BY <1>3, <1>17 DEF Parent, Passing
  <2>2. kpc[c] \in Kids
    BY <2>1 DEF KidInv
  <2>3. got[c] = IF kpc[c] = "born" THEN <<>> ELSE <<"200">>
    BY <2>1, <2>2 DEF GotInv, Told
  <2>4. got'[c] = Told(c)'
    BY <1>16, <2>1, <2>3 DEF Told
  <2>5. kpc[c] # "born" => got'[c] = <<"200", "200">>
    BY <1>16, <2>1, <2>3
  <2>6. outq[c] = IF kpc[c] \in {"born", "env"} THEN <<>> ELSE Printed(kout[c])
    BY <2>1, <2>2 DEF GotInv
  <2>. QED  BY <2>1, <2>2, <2>4, <2>5, <2>6 DEF GotInv, RanScript, Done
<1>18. CASE PassBody(c)
  <2>1. /\ wpc[c] = "body" /\ wpc'[c] \in {"body", "output"} /\ UNCHANGED <<kpc, kout, outq, got>>
    BY <1>18 DEF PassBody, Passing
  <2>2. kpc[c] \in Kids /\ Told(c)' = Told(c) /\ (kpc[c] # "born" => Told(c) = <<"200", "200">>)
    BY <2>1 DEF KidInv, Told
  <2>. QED  BY <2>1, <2>2 DEF GotInv, RanScript, Done
<1>19. CASE PassOutput(c)
  <2>1. /\ wpc[c] = "output" /\ wpc'[c] = "output" /\ outq[c] # <<>> /\ UNCHANGED <<kpc, kout>>
        /\ got'[c] = got[c] \o <<Head(outq[c])>> /\ outq'[c] = Tail(outq[c])
    BY <1>3, <1>19 DEF PassOutput
  <2>2. kpc[c] \in {"script", "exited"}
    BY <2>1 DEF GotInv, KidInv
  <2>3. got'[c] \o outq'[c] = got[c] \o outq[c]
    BY <2>1, HeadMoves
  <2>. QED  BY <2>1, <2>2, <2>3 DEF GotInv, RanScript, Done
<1>20. CASE OutputEnds(c)
  <2>1. /\ wpc[c] = "output" /\ wpc'[c] = "wait" /\ outq[c] = <<>> /\ ~Held(<<"outW", c>>)
        /\ UNCHANGED <<kpc, kout, outq, got>>
    BY <1>20 DEF OutputEnds, AtEnd
  <2>2. kpc[c] = "exited"
    BY <2>1 DEF KidInv, Held
  <2>. QED  BY <2>1, <2>2 DEF GotInv, RanScript, Done
<1>21. CASE Reap(c)
  <2>1. /\ wpc[c] = "wait" /\ wpc'[c] = "done" /\ kpc[c] = "exited"
        /\ UNCHANGED <<req, kread, kpc, kout, outq, got>>
    BY <1>21 DEF Reap
  <2>2. got[c] \o <<>> = Whole(kout[c]) /\ kout[c] = ToWrite(c)
    BY <2>1 DEF GotInv, KidInv
  <2>3. got[c] = Whole(ToWrite(c))
    BY <2>2, ConcatEmptySeq
  <2>4. ToWrite(c)' = ToWrite(c)
    BY <2>1 DEF ToWrite, Script
  <2>. QED  BY <2>1, <2>3, <2>4 DEF GotInv
<1>22. CASE Child(c)
  <2>1. /\ kpc[c] = "born" /\ kpc'[c] = "env" /\ UNCHANGED <<wpc, outq>>
        /\ got'[c] = Append(got[c], "200")
    BY <1>22 DEF Child
  <2>2. wpc[c] # "done" /\ wpc[c] # "wait"
    BY <2>1 DEF KidInv, GotInv
  <2>3. wpc[c] \in Forked => outq[c] = <<>> /\ got[c] = Told(c)
    BY <2>1 DEF GotInv
  <2>4. wpc[c] \in Forked => got'[c] = Told(c)'
    BY <1>15, <2>1, <2>3 DEF Told
  <2>5. wpc[c] \notin Early
    BY <2>1 DEF KidInv
  <2>. QED  BY <2>1, <2>2, <2>3, <2>4, <2>5 DEF GotInv, RanScript, Done
<1>23. CASE Exec(c)
  <2>1. /\ kpc[c] = "env" /\ kpc'[c] = "script" /\ UNCHANGED <<wpc, kout, got>>
        /\ outq'[c] = Append(outq[c], "env") /\ kout[c] = 0
    BY <1>23 DEF Exec, Emit, BodyInv
  <2>2. wpc[c] # "done" /\ wpc[c] # "wait" /\ wpc[c] \notin Early
    BY <2>1 DEF KidInv, GotInv
  <2>3. wpc[c] \in Forked => outq'[c] = Printed(kout[c]) /\ got[c] = Told(c) /\ Told(c)' = Told(c)
    BY <1>15, <2>1 DEF GotInv, Told
  <2>4. wpc[c] = "output" => got[c] \o outq'[c] = Whole(kout[c])
    BY <2>1, <2>3 DEF Told
  <2>. QED  BY <2>1, <2>2, <2>3, <2>4 DEF GotInv, RanScript, Done
<1>24. CASE ScriptReads(c) \/ ScriptExits(c)
  <2>1. /\ kpc[c] = "script" /\ kpc'[c] \in {"script", "exited"} /\ UNCHANGED <<wpc, kout, outq, got>>
    BY <1>24 DEF ScriptReads, ScriptExits
  <2>2. wpc[c] # "done" /\ wpc[c] # "wait" /\ wpc[c] \notin Early
    BY <2>1 DEF KidInv, GotInv
  <2>. QED  BY <2>1, <2>2 DEF GotInv, Told, RanScript, Done
<1>25. CASE ScriptWrites(c)
  <2>1. /\ kpc[c] = "script" /\ kout'[c] = kout[c] + 1 /\ UNCHANGED <<wpc, kpc, got>>
        /\ outq'[c] = Append(outq[c], "out")
    BY <1>25 DEF ScriptWrites, Emit, TypeInv, CountInv
  <2>2. wpc[c] # "done" /\ wpc[c] # "wait" /\ wpc[c] \notin Early
    BY <2>1 DEF KidInv, GotInv
  <2>3. "out" \in Texts
    BY DEF Texts
  <2>4. wpc[c] = "output" => got[c] \o outq'[c] = Whole(kout'[c])
    <3>1. got[c] \o Append(outq[c], "out") = Append(got[c] \o outq[c], "out")
      BY <2>3, AppendToRight
    <3>. QED  BY <2>1, <3>1 DEF GotInv
  <2>5. wpc[c] \in {"parent", "body"} => got[c] = Told(c) /\ outq'[c] = Printed(kout'[c])
    BY <2>1 DEF GotInv
  <2>6. Told(c)' = Told(c)
    BY <2>1 DEF Told
  <2>. QED  BY <2>1, <2>2, <2>4, <2>5, <2>6 DEF GotInv, RanScript, Done
<1>. QED
  BY <1>5, <1>6, <1>8, <1>10, <1>11, <1>12, <1>13, <1>14, <1>17, <1>18, <1>19, <1>20, <1>21, <1>22, <1>23,
     <1>24, <1>25 DEF Step, Worker, Process

-----------------------------------------------------------------------------
LEMMA InitInv == Init => IInv
<1>. SUFFICES ASSUME Init PROVE IInv
  OBVIOUS
<1>1. TypeInv
  BY DEF Init, TypeInv, ReqInv, DomInv, CountInv, TextInv
<1>2. NeverDown
  BY DEF Init, NeverDown
<1>3. ASSUME NEW c \in Clients PROVE Inv(c)
  <2>1. OpenInv(c) /\ KidInv(c)
    BY DEF Init, OpenInv, KidInv, Early, Forked
  <2>2. BodyInv(c)
    BY DEF Init, BodyInv
  <2>3. GotInv(c)
    BY DEF Init, GotInv, Early, Forked, RanScript, Done
  <2>. QED  BY <2>1, <2>2, <2>3 DEF Inv
<1>. QED  BY <1>1, <1>2, <1>3 DEF IInv

LEMMA OthersInv ==
  ASSUME TypeInv, NEW c \in Clients, Step(c), NEW d \in Clients, d # c, Inv(d)
  PROVE  Inv(d)'
<1>1. /\ req'[d] = req[d] /\ wpc'[d] = wpc[d] /\ sent'[d] = sent[d] /\ left'[d] = left[d]
      /\ failed'[d] = failed[d] /\ open' \cap Own(d) = open \cap Own(d)
  BY Others
<1>2. /\ kpc'[d] = kpc[d] /\ kid'[d] = kid[d] /\ kread'[d] = kread[d] /\ kout'[d] = kout[d]
      /\ i'[d] = i[d] /\ inq'[d] = inq[d] /\ outq'[d] = outq[d] /\ got'[d] = got[d]
  BY Others
<1>3. Supported(d)' = Supported(d) /\ ToRead(d)' = ToRead(d) /\ ToWrite(d)' = ToWrite(d)
  BY <1>1, <1>2 DEF Supported, ToRead, ToWrite, Script
<1>4. RanScript(d)' = RanScript(d) /\ Told(d)' = Told(d)
  BY <1>1, <1>2, <1>3 DEF RanScript, Done, cgi, Told
<1>5. OpenInv(d)'
  <2>1. OutPipe(d) \subseteq Own(d) /\ InPipe(d) \subseteq Own(d)
    BY DEF Own
  <2>. QED  BY <1>1, <1>3, <2>1 DEF Inv, OpenInv
<1>6. KidInv(d)'
  BY <1>1, <1>2, <1>3 DEF Inv, KidInv
<1>7. BodyInv(d)'
  BY <1>1, <1>2 DEF Inv, BodyInv
<1>8. GotInv(d)'
  BY <1>1, <1>2, <1>3, <1>4 DEF Inv, GotInv
<1>. QED  BY <1>5, <1>6, <1>7, <1>8 DEF Inv

LEMMA NextInv == IInv /\ [Next]_vars => IInv'
<1>. SUFFICES ASSUME IInv, [Next]_vars PROVE IInv'
  OBVIOUS
<1>1. ASSUME NEW c \in Clients, Step(c), alive PROVE IInv'
  <2>1. TypeInv /\ Inv(c)
    BY DEF IInv
  <2>2. TypeInv'
    BY <1>1, <2>1, TypeStep
  <2>3. NeverDown'
    BY <1>1, <2>1, DownStep DEF Inv
  <2>4. Inv(c)'
    BY <1>1, <2>1, OpenStep, KidStep, BodyStep, GotStep DEF Inv
  <2>5. ASSUME NEW d \in Clients, d # c PROVE Inv(d)'
    BY <1>1, <2>1, <2>5, OthersInv DEF IInv
  <2>. QED  BY <2>2, <2>3, <2>4, <2>5 DEF IInv
<1>2. CASE UNCHANGED vars
  <2>. USE <1>2 DEF vars, clientVars, workerVars, kidVars, Supported, Script, ToRead, ToWrite
  <2>1. TypeInv' /\ NeverDown'
    BY DEF IInv, TypeInv, ReqInv, DomInv, CountInv, TextInv, NeverDown, Obliging
  <2>2. ASSUME NEW c \in Clients PROVE OpenInv(c)' /\ KidInv(c)' /\ BodyInv(c)'
    BY DEF IInv, Inv, OpenInv, KidInv, BodyInv
  <2>3. ASSUME NEW c \in Clients PROVE GotInv(c)'
    BY DEF IInv, Inv, GotInv, Told, RanScript, Done, cgi
  <2>. QED  BY <2>1, <2>2, <2>3 DEF IInv, Inv
<1>. QED  BY <1>1, <1>2 DEF Next, Step

THEOREM Invariance == Spec => []IInv
BY InitInv, NextInv, PTL DEF Spec

(* A served request leaves none of its descriptors open: OpenInv's last    *)
(* conjunct (httpd.c:89-92, 139, 264-276, 314-327).                        *)
THEOREM ServedRequestsLeakNothing == Spec => []NothingLeaks
<1>1. IInv => NothingLeaks
  BY DEF IInv, Inv, OpenInv, NothingLeaks, Done, Own
<1>. QED  BY Invariance, <1>1, PTL

(* The process survives whatever obliging clients ask at the same time     *)
(* (httpd.c:278, 317-322, 450, 541).                                       *)
THEOREM ServerSurvives == Spec => []NeverDown
<1>1. IInv => NeverDown
  BY DEF IInv
<1>. QED  BY Invariance, <1>1, PTL

(* A client that waits gets the whole answer of its script, the status     *)
(* lines before it and nothing else, and its script gets the body it sent, *)
(* for any number of clients, any body, output and size of the pipes       *)
(* (httpd.c:277-278, 281-327).                                             *)
THEOREM AnswersAreWhole == Spec => []ResponseComplete
<1>1. IInv => ResponseComplete
  BY DEF IInv, Inv, BodyInv, GotInv, ResponseComplete, Whole, Outs
<1>. QED  BY Invariance, <1>1, PTL
==============================================================================
