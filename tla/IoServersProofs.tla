--------------------------- MODULE IoServersProofs --------------------------
(***************************************************************************)
(* The safety properties of MCIoServers for any sets of clients, threads   *)
(* and descriptors: the EPOLLONESHOT server, the reactor with a pool, the  *)
(* chat room and the single-threaded loops have an inductive invariant     *)
(* each.                                                                   *)
(***************************************************************************)
EXTENDS MCIoServers, FiniteSetTheorems, SequenceTheorems, TLAPS

-----------------------------------------------------------------------------
(* The EPOLLONESHOT server.  As long as every worker got its own argument, *)
(* an open connection is in exactly one place: reported, armed, with one   *)
(* worker, or among those whose thread could not be created.               *)
ShotTypeInv ==
  /\ oPeer \in [ShotClients -> {"new", "open", "closed"}]
  /\ oUnread \in [ShotClients -> Nat]
  /\ oBacklog \subseteq ShotClients /\ oOpen \subseteq ShotClients /\ armed \subseteq ShotClients
  /\ oEdge \subseteq ShotClients \cup {"listen"} /\ oBatch \subseteq ShotClients \cup {"listen"}
  /\ sockfd \in ShotClients \cup {None} /\ unserved \subseteq ShotClients
  /\ oWpc \in [ShotWorkers -> {"none", "start", "read", "rearm", "done"}]
  /\ serves \in [ShotWorkers -> ShotClients \cup {None}]
  /\ meant \in [ShotWorkers -> ShotClients \cup {None}]

(* What a worker knows at each of its steps. *)
ShotWorkerInv ==
  /\ oPc = "wait" => oBatch = {}
  /\ \A w \in ShotWorkers :
       /\ oWpc[w] \in {"none", "start"} => serves[w] = None
       /\ oWpc[w] \in {"read", "rearm"} => serves[w] # None
       /\ oWpc[w] # "none" => sockfd # None /\ meant[w] # None

ShotHas(w, c) == meant[w] = c /\ oWpc[w] \in {"start", "read", "rearm"}

ShotPlaceInv ==
  /\ oBacklog \cap oOpen = {}
  /\ \A c \in ShotClients : oPeer[c] = "new" => c \notin oBacklog \cup oOpen
  /\ \A c \in oBatch \ {"listen"} : c \in oOpen \ armed
  /\ armed \subseteq oOpen
  /\ \A w \in ShotWorkers, c \in ShotClients : ShotHas(w, c) => c \in oOpen \ (armed \cup oBatch)
  /\ \A v, w \in ShotWorkers, c \in ShotClients : ShotHas(v, c) /\ ShotHas(w, c) => v = w
  /\ \A c \in oOpen : c \in oBatch \cup armed \cup unserved \/ \E w \in ShotWorkers : ShotHas(w, c)
  /\ unserved \subseteq oOpen \ (armed \cup oBatch)
  /\ \A w \in ShotWorkers, c \in ShotClients : ShotHas(w, c) => c \notin unserved
  /\ \A c \in armed : Shot!Readable(c) => c \in oEdge

ShotInv == ShotTypeInv /\ ShotWorkerInv /\ (~Shot!Mistaken => ShotPlaceInv)

LEMMA ShotInitially == Shot!Init => ShotInv
BY DEF Shot!Init, ShotInv, ShotTypeInv, ShotWorkerInv, ShotPlaceInv, ShotHas

LEMMA ShotTypeStep == ShotTypeInv /\ ShotWorkerInv /\ [Shot!Next]_shotVars => ShotTypeInv'
<1>. SUFFICES ASSUME ShotTypeInv, ShotWorkerInv, [Shot!Next]_shotVars PROVE ShotTypeInv'
  OBVIOUS
<1>. USE DEF ShotTypeInv, Shot!kernelVars, Shot!mainVars, Shot!workerVars
<1>1. CASE Shot!Environment
  BY <1>1 DEF Shot!Environment, Shot!Connect, Shot!Send, Shot!Close
<1>2. CASE Shot!Wait \/ Shot!BatchDone \/ Shot!AcceptFails \/ \E c \in ShotClients : Shot!CreateFails(c)
  BY <1>2 DEF Shot!Wait, Shot!BatchDone, Shot!AcceptFails, Shot!CreateFails
<1>3. ASSUME NEW c \in ShotClients, Shot!AcceptOne(c) PROVE ShotTypeInv'
  BY <1>3 DEF Shot!AcceptOne, Shot!Arm
<1>4. ASSUME NEW c \in ShotClients, NEW w \in ShotWorkers, Shot!CreateWorker(c, w) PROVE ShotTypeInv'
  BY <1>4 DEF Shot!CreateWorker
<1>5. ASSUME NEW w \in ShotWorkers, Shot!Start(w) \/ Shot!RecvAgain(w) PROVE ShotTypeInv'
  BY <1>5 DEF Shot!Start, Shot!RecvAgain
<1>6. ASSUME NEW w \in ShotWorkers, Shot!RecvData(w) PROVE ShotTypeInv'
  <2>1. oUnread' \in [ShotClients -> Nat]
    BY <1>6 DEF Shot!RecvData, Shot!WorkerAt
  <2>. QED  BY <1>6, <2>1 DEF Shot!RecvData
<1>7. ASSUME NEW w \in ShotWorkers, Shot!Rearm(w) PROVE ShotTypeInv'
  <2>1. armed' \subseteq ShotClients /\ oEdge' \subseteq ShotClients \cup {"listen"}
    BY <1>7 DEF Shot!Rearm, Shot!Arm
  <2>. QED  BY <1>7, <2>1 DEF Shot!Rearm, Shot!Finish
<1>8. ASSUME NEW w \in ShotWorkers, Shot!RecvEnd(w) PROVE ShotTypeInv'
  BY <1>8 DEF Shot!RecvEnd, Shot!Finish
<1>9. CASE UNCHANGED shotVars
  BY <1>9 DEF shotVars
<1>. QED  BY <1>1, <1>2, <1>3, <1>4, <1>5, <1>6, <1>7, <1>8, <1>9 DEF Shot!Next, Shot!Main, Shot!Worker

LEMMA ShotWorkerStep == ShotTypeInv /\ ShotWorkerInv /\ [Shot!Next]_shotVars => ShotWorkerInv'
<1>. SUFFICES ASSUME ShotTypeInv, ShotWorkerInv, [Shot!Next]_shotVars PROVE ShotWorkerInv'
  OBVIOUS
<1>. USE DEF ShotTypeInv, ShotWorkerInv, Shot!kernelVars, Shot!mainVars, Shot!workerVars
<1>1. CASE Shot!Environment
  BY <1>1 DEF Shot!Environment
<1>2. CASE Shot!Wait \/ Shot!BatchDone \/ Shot!AcceptFails
  BY <1>2 DEF Shot!Wait, Shot!BatchDone, Shot!AcceptFails
<1>7. ASSUME NEW c \in ShotClients, Shot!CreateFails(c) PROVE ShotWorkerInv'
  BY <1>7, ShotAssumption DEF Shot!CreateFails
<1>3. ASSUME NEW c \in ShotClients, Shot!AcceptOne(c) PROVE ShotWorkerInv'
  BY <1>3 DEF Shot!AcceptOne
<1>4. ASSUME NEW c \in ShotClients, NEW w \in ShotWorkers, Shot!CreateWorker(c, w) PROVE ShotWorkerInv'
  BY <1>4, ShotAssumption DEF Shot!CreateWorker
<1>5. ASSUME NEW w \in ShotWorkers, Shot!Worker(w) PROVE ShotWorkerInv'
  BY <1>5 DEF Shot!Worker, Shot!Start, Shot!RecvData, Shot!RecvAgain, Shot!Rearm, Shot!RecvEnd,
              Shot!Finish, Shot!WorkerAt
<1>6. CASE UNCHANGED shotVars
  BY <1>6 DEF shotVars
<1>. QED  BY <1>1, <1>2, <1>3, <1>4, <1>5, <1>6, <1>7 DEF Shot!Next, Shot!Main

(* A worker that got another's argument keeps it. *)
LEMMA ShotMistakeStays ==
  ShotTypeInv /\ ShotWorkerInv /\ [Shot!Next]_shotVars /\ Shot!Mistaken => Shot!Mistaken'
<1>. SUFFICES ASSUME ShotTypeInv, ShotWorkerInv, [Shot!Next]_shotVars,
                     NEW w \in ShotWorkers, serves[w] \notin {None, meant[w]}
              PROVE  serves'[w] \notin {None, meant'[w]}
  BY DEF Shot!Mistaken
<1>1. oWpc[w] \notin {"none", "start"}
  BY DEF ShotWorkerInv
<1>. USE DEF ShotTypeInv, Shot!kernelVars, Shot!mainVars, Shot!workerVars
<1>2. ASSUME NEW v \in ShotWorkers, Shot!Worker(v) PROVE serves'[w] = serves[w] /\ meant' = meant
  BY <1>1, <1>2 DEF Shot!Worker, Shot!Start, Shot!RecvData, Shot!RecvAgain, Shot!Rearm,
                    Shot!RecvEnd, Shot!Finish
<1>3. ASSUME NEW c \in ShotClients, NEW v \in ShotWorkers, Shot!CreateWorker(c, v)
      PROVE  serves' = serves /\ meant'[w] = meant[w]
  BY <1>1, <1>3 DEF Shot!CreateWorker
<1>4. CASE \/ Shot!Environment \/ Shot!Wait \/ Shot!BatchDone \/ Shot!AcceptFails
           \/ \E c \in ShotClients : Shot!AcceptOne(c) \/ Shot!CreateFails(c)
  BY <1>4 DEF Shot!Environment, Shot!Wait, Shot!BatchDone, Shot!AcceptFails, Shot!AcceptOne, Shot!CreateFails
<1>5. CASE UNCHANGED shotVars
  BY <1>5 DEF shotVars
<1>. QED  BY <1>2, <1>3, <1>4, <1>5 DEF Shot!Next, Shot!Main

(* What a worker still at work serves, unless some worker was mistaken. *)
LEMMA ShotServesMeant ==
  ASSUME ShotTypeInv, ShotWorkerInv, ~Shot!Mistaken, NEW w \in ShotWorkers,
         oWpc[w] \in {"read", "rearm"}
  PROVE  serves[w] = meant[w] /\ serves[w] \in ShotClients /\ ShotHas(w, serves[w])
BY DEF ShotTypeInv, ShotWorkerInv, Shot!Mistaken, ShotHas

LEMMA ShotPlaceStep ==
  ShotTypeInv /\ ShotWorkerInv /\ ShotPlaceInv /\ ~Shot!Mistaken /\ ~Shot!Mistaken'
    /\ [Shot!Next]_shotVars => ShotPlaceInv'
<1>. SUFFICES ASSUME ShotTypeInv, ShotWorkerInv, ShotPlaceInv, ~Shot!Mistaken, ~Shot!Mistaken',
                     [Shot!Next]_shotVars
              PROVE  ShotPlaceInv'
  OBVIOUS
<1>. USE DEF ShotHas, Shot!kernelVars, Shot!mainVars, Shot!workerVars
<1>1. CASE Shot!Environment
  <2>. SUFFICES ASSUME NEW c \in ShotClients, Shot!Connect(c) \/ Shot!Send(c) \/ Shot!Close(c),
                       UNCHANGED <<Shot!mainVars, Shot!workerVars>>
                PROVE  ShotPlaceInv'
    BY <1>1 DEF Shot!Environment
  <2>1. CASE Shot!Connect(c)
    BY <2>1 DEF Shot!Connect, ShotPlaceInv, ShotTypeInv, Shot!Readable
  <2>2. CASE Shot!Send(c)
    <3>1. \A d \in ShotClients : d # c => oUnread'[d] = oUnread[d]
      BY <2>2 DEF Shot!Send, ShotTypeInv
    <3>2. \A d \in armed : Shot!Readable(d)' => d \in oEdge'
      BY <2>2 DEF Shot!Send, ShotPlaceInv, ShotTypeInv, Shot!Readable
    <3>. QED  BY <2>2, <3>2 DEF Shot!Send, ShotPlaceInv, ShotTypeInv
  <2>3. CASE Shot!Close(c)
    <3>2. \A d \in armed : Shot!Readable(d)' => d \in oEdge'
      BY <2>3 DEF Shot!Close, ShotPlaceInv, ShotTypeInv, Shot!Readable
    <3>. QED  BY <2>3, <3>2 DEF Shot!Close, ShotPlaceInv, ShotTypeInv
  <2>. QED  BY <2>1, <2>2, <2>3
<1>2. CASE Shot!Wait
  <2>1. oBatch = {} /\ UNCHANGED <<oPeer, oUnread, oBacklog, oOpen, unserved, oWpc, meant>>
    BY <1>2 DEF Shot!Wait, ShotWorkerInv
  <2>2. \A v \in ShotWorkers, d \in ShotClients : ShotHas(v, d)' <=> ShotHas(v, d)
    BY <2>1
  <2>3. /\ oBatch' \ {"listen"} \subseteq armed /\ armed' = armed \ oBatch'
        /\ \A c \in armed' : Shot!Readable(c) => c \notin oEdge
    BY <1>2, ShotAssumption DEF Shot!Wait
  <2>4. \A c \in armed' : ~Shot!Readable(c)
    BY <2>3 DEF ShotPlaceInv
  <2>. HIDE DEF ShotHas
  <2>5. \A c \in ShotClients : Shot!Readable(c)' <=> Shot!Readable(c)
    BY <2>1 DEF Shot!Readable
  <2>6. (\A c \in oBatch' \ {"listen"} : c \in oOpen' \ armed') /\ armed' \subseteq oOpen'
    BY <2>1, <2>3, ShotAssumption DEF ShotPlaceInv, ShotTypeInv
  <2>7. /\ \A w \in ShotWorkers, c \in ShotClients : ShotHas(w, c)' => c \in oOpen' \ (armed' \cup oBatch')
        /\ \A c \in oOpen' : \/ c \in oBatch' \cup armed' \cup unserved'
                              \/ \E w \in ShotWorkers : ShotHas(w, c)'
        /\ unserved' \subseteq oOpen' \ (armed' \cup oBatch')
    BY <2>1, <2>2, <2>3, ShotAssumption DEF ShotPlaceInv, ShotTypeInv
  <2>8. /\ \A v, w \in ShotWorkers, c \in ShotClients : ShotHas(v, c)' /\ ShotHas(w, c)' => v = w
        /\ \A w \in ShotWorkers, c \in ShotClients : ShotHas(w, c)' => c \notin unserved'
    BY <2>1, <2>2 DEF ShotPlaceInv
  <2>9. \A c \in armed' : Shot!Readable(c)' => c \in oEdge'
    BY <2>3, <2>4, <2>5 DEF ShotTypeInv
  <2>10. /\ oBacklog' \cap oOpen' = {}
         /\ \A c \in ShotClients : oPeer'[c] = "new" => c \notin oBacklog' \cup oOpen'
    BY <2>1 DEF ShotPlaceInv
  <2>. HIDE DEF Shot!Readable
  <2>. QED
    BY <2>1, <2>6, <2>7, <2>8, <2>9, <2>10 DEF ShotPlaceInv
<1>3. CASE Shot!BatchDone \/ Shot!AcceptFails
  <2>1. oBatch' \subseteq oBatch /\ (oBatch \ oBatch') \subseteq {"listen"}
        /\ UNCHANGED <<oPeer, oUnread, oBacklog, oOpen, armed, oEdge, unserved, oWpc, meant>>
    BY <1>3 DEF Shot!BatchDone, Shot!AcceptFails
  <2>2. \A v \in ShotWorkers, d \in ShotClients : ShotHas(v, d)' <=> ShotHas(v, d)
    BY <2>1
  <2>3. \A c \in ShotClients : Shot!Readable(c)' <=> Shot!Readable(c)
    BY <2>1 DEF Shot!Readable
  <2>. HIDE DEF ShotHas
  <2>. QED  BY <2>1, <2>2, <2>3, ShotAssumption DEF ShotPlaceInv, ShotTypeInv
<1>4. ASSUME NEW c \in ShotClients, Shot!AcceptOne(c) PROVE ShotPlaceInv'
  <2>1. \A w \in ShotWorkers : ~ShotHas(w, c)
    BY <1>4 DEF Shot!AcceptOne, ShotPlaceInv
  <2>. QED
    BY <1>4, <2>1, ShotAssumption DEF Shot!AcceptOne, Shot!Arm, ShotPlaceInv, ShotTypeInv, Shot!Readable
<1>5. ASSUME NEW c \in ShotClients, NEW w \in ShotWorkers, Shot!CreateWorker(c, w) PROVE ShotPlaceInv'
  <2>1. c \in oOpen \ (armed \cup unserved) /\ \A v \in ShotWorkers : ~ShotHas(v, c)
    BY <1>5, ShotAssumption DEF Shot!CreateWorker, ShotPlaceInv
  <2>2. \A v \in ShotWorkers, d \in ShotClients : ShotHas(v, d)' <=> ((v = w /\ d = c) \/ (v # w /\ ShotHas(v, d)))
    BY <1>5 DEF Shot!CreateWorker, ShotTypeInv
  <2>4. \A d \in ShotClients : ~ShotHas(w, d)
    BY <1>5 DEF Shot!CreateWorker
  <2>. HIDE DEF ShotHas
  <2>5. oBatch' = oBatch \ {c} /\ UNCHANGED <<oPeer, oBacklog, oOpen, armed, oEdge, oUnread, unserved>>
    BY <1>5 DEF Shot!CreateWorker
  <2>. QED
    BY <2>1, <2>2, <2>4, <2>5, ShotAssumption DEF ShotPlaceInv, ShotTypeInv, Shot!Readable
<1>11. ASSUME NEW c \in ShotClients, Shot!CreateFails(c) PROVE ShotPlaceInv'
  <2>1. c \in oOpen \ armed /\ \A v \in ShotWorkers : ~ShotHas(v, c)
    BY <1>11, ShotAssumption DEF Shot!CreateFails, ShotPlaceInv
  <2>2. \A v \in ShotWorkers, d \in ShotClients : ShotHas(v, d)' <=> ShotHas(v, d)
    BY <1>11 DEF Shot!CreateFails
  <2>. HIDE DEF ShotHas
  <2>3. /\ oBatch' = oBatch \ {c} /\ unserved' = unserved \cup {c}
        /\ UNCHANGED <<oPeer, oBacklog, oOpen, armed, oEdge, oUnread>>
    BY <1>11 DEF Shot!CreateFails
  <2>. QED
    BY <2>1, <2>2, <2>3, ShotAssumption DEF ShotPlaceInv, ShotTypeInv, Shot!Readable
<1>6. ASSUME NEW w \in ShotWorkers, Shot!Start(w) \/ Shot!RecvAgain(w) PROVE ShotPlaceInv'
  <2>1. \A v \in ShotWorkers, d \in ShotClients : ShotHas(v, d)' <=> ShotHas(v, d)
    BY <1>6 DEF Shot!Start, Shot!RecvAgain, Shot!WorkerAt, ShotTypeInv
  <2>. HIDE DEF ShotHas
  <2>. QED
    BY <1>6, <2>1 DEF Shot!Start, Shot!RecvAgain, ShotPlaceInv, ShotTypeInv, Shot!Readable
<1>7. ASSUME NEW w \in ShotWorkers, Shot!RecvData(w) PROVE ShotPlaceInv'
  <2>1. \A d \in armed : oUnread'[d] = oUnread[d]
    BY <1>7, ShotServesMeant DEF Shot!RecvData, Shot!WorkerAt, ShotTypeInv, ShotPlaceInv
  <2>2. \A d \in armed : Shot!Readable(d)' => d \in oEdge
    BY <1>7, <2>1 DEF Shot!RecvData, ShotPlaceInv, Shot!Readable
  <2>. QED
    BY <1>7, <2>2 DEF Shot!RecvData, ShotPlaceInv, ShotTypeInv
<1>8. ASSUME NEW w \in ShotWorkers, Shot!Rearm(w) PROVE ShotPlaceInv'
  <2>. DEFINE c == serves[w]
  <2>1. c \in ShotClients /\ ShotHas(w, c) /\ c \in oOpen \ (armed \cup oBatch)
    BY <1>8, ShotServesMeant DEF Shot!Rearm, ShotPlaceInv
  <2>2. \A v \in ShotWorkers, d \in ShotClients : ShotHas(v, d)' <=> (v # w /\ ShotHas(v, d))
    <3>1. \A v \in ShotWorkers : oWpc'[v] = IF v = w THEN "done" ELSE oWpc[v]
      BY <1>8 DEF Shot!Rearm, Shot!Finish, ShotTypeInv
    <3>2. meant' = meant
      BY <1>8 DEF Shot!Rearm, Shot!Finish
    <3>. QED  BY <3>1, <3>2
  <2>3. \A v \in ShotWorkers, d \in ShotClients : d = c => ~ShotHas(v, d)'
    BY <2>1, <2>2 DEF ShotPlaceInv
  <2>4. \A d \in ShotClients : ShotHas(w, d) => d = c
    BY <2>1
  <2>. HIDE DEF ShotHas, c
  <2>5. Shot!Arm(c) /\ UNCHANGED <<oPeer, oUnread, oBacklog, oOpen, oBatch, unserved>>
    BY <1>8, <2>1 DEF Shot!Rearm, Shot!Finish, c
  <2>. QED
    BY <2>1, <2>2, <2>3, <2>4, <2>5 DEF Shot!Arm, ShotPlaceInv, ShotTypeInv, Shot!Readable
<1>9. ASSUME NEW w \in ShotWorkers, Shot!RecvEnd(w) PROVE ShotPlaceInv'
  <2>. DEFINE c == serves[w]
  <2>1. c \in ShotClients /\ ShotHas(w, c) /\ c \in oOpen \ (armed \cup oBatch) /\ oPeer[c] = "closed"
    BY <1>9, ShotServesMeant DEF Shot!RecvEnd, Shot!WorkerAt, ShotPlaceInv
  <2>2. \A v \in ShotWorkers, d \in ShotClients : ShotHas(v, d)' <=> (v # w /\ ShotHas(v, d))
    <3>1. \A v \in ShotWorkers : oWpc'[v] = IF v = w THEN "done" ELSE oWpc[v]
      BY <1>9 DEF Shot!RecvEnd, Shot!Finish, ShotTypeInv
    <3>2. meant' = meant
      BY <1>9 DEF Shot!RecvEnd, Shot!Finish
    <3>. QED  BY <3>1, <3>2
  <2>3. \A v \in ShotWorkers, d \in ShotClients : d = c => ~ShotHas(v, d)'
    BY <2>1, <2>2 DEF ShotPlaceInv
  <2>4. \A d \in ShotClients : ShotHas(w, d) => d = c
    BY <2>1
  <2>. HIDE DEF ShotHas, c
  <2>5. /\ oOpen' = oOpen \ {c} /\ armed' = armed \ {c} /\ oEdge' = oEdge \ {c}
        /\ UNCHANGED <<oPeer, oUnread, oBacklog, oBatch, unserved>>
    BY <1>9 DEF Shot!RecvEnd, Shot!Finish, c
  <2>. QED
    BY <2>1, <2>2, <2>3, <2>4, <2>5 DEF ShotPlaceInv, ShotTypeInv, Shot!Readable
<1>10. CASE UNCHANGED shotVars
  BY <1>10 DEF shotVars, ShotPlaceInv, Shot!Readable
<1>. QED
  BY <1>1, <1>2, <1>3, <1>4, <1>5, <1>6, <1>7, <1>8, <1>9, <1>10, <1>11 DEF Shot!Next, Shot!Main, Shot!Worker

LEMMA ShotStep == ShotInv /\ [Shot!Next]_shotVars => ShotInv'
BY ShotTypeStep, ShotWorkerStep, ShotMistakeStays, ShotPlaceStep DEF ShotInv

(* An open connection concerns one worker, or none when it is armed or     *)
(* reported, or when its thread could not be created.                      *)
LEMMA ShotConcerned ==
  ShotTypeInv /\ ShotWorkerInv /\ ShotPlaceInv /\ ~Shot!Mistaken
    => \A c \in oOpen : Shot!Concerned(c) = IF c \in unserved THEN 0 ELSE 1
<1>. SUFFICES ASSUME ShotTypeInv, ShotWorkerInv, ShotPlaceInv, ~Shot!Mistaken, NEW c \in oOpen
              PROVE  Shot!Concerned(c) = IF c \in unserved THEN 0 ELSE 1
  OBVIOUS
<1>. DEFINE S == {w \in ShotWorkers : (meant[w] = c /\ oWpc[w] = "start") \/ w \in Shot!Serving(c)}
<1>1. c \in ShotClients
  BY DEF ShotTypeInv
<1>2. S = {w \in ShotWorkers : ShotHas(w, c)}
  <2>1. ASSUME NEW w \in ShotWorkers
        PROVE  w \in Shot!Serving(c) <=> meant[w] = c /\ oWpc[w] \in {"read", "rearm"}
    BY ShotServesMeant, <2>1 DEF Shot!Serving, ShotWorkerInv
  <2>. QED  BY <2>1 DEF ShotHas
<1>3. ASSUME NEW T PROVE Shot!Cardinality(T) = Cardinality(T)
  BY DEF Shot!Cardinality, Cardinality
<1>4. Shot!Concerned(c) = Cardinality(S) + (IF c \in oBatch THEN 1 ELSE 0) + (IF c \in armed THEN 1 ELSE 0)
  <2>1. Shot!Cardinality(S) = Cardinality(S)
    BY <1>3
  <2>. QED  BY <2>1 DEF Shot!Concerned
<1>5. CASE c \in oBatch \cup armed
  <2>1. S = {}
    BY <1>1, <1>2, <1>5 DEF ShotPlaceInv
  <2>2. Cardinality(S) = 0
    BY <2>1, FS_EmptySet
  <2>3. (c \notin oBatch \/ c \notin armed) /\ c \notin unserved
    BY <1>1, <1>5, ShotAssumption DEF ShotPlaceInv
  <2>. HIDE DEF S
  <2>. QED  BY <1>4, <1>5, <2>2, <2>3
<1>6. CASE c \notin oBatch \cup armed /\ c \notin unserved
  <2>1. PICK w \in ShotWorkers : ShotHas(w, c)
    BY <1>6 DEF ShotPlaceInv
  <2>2. S = {w}
    BY <1>1, <1>2, <2>1 DEF ShotPlaceInv
  <2>3. Cardinality(S) = 1
    BY <2>2, FS_Singleton
  <2>. HIDE DEF S
  <2>. QED  BY <1>4, <1>6, <2>3
<1>7. CASE c \notin oBatch \cup armed /\ c \in unserved
  <2>1. S = {}
    BY <1>1, <1>2, <1>7 DEF ShotPlaceInv
  <2>2. Cardinality(S) = 0
    BY <2>1, FS_EmptySet
  <2>. HIDE DEF S
  <2>. QED  BY <1>4, <1>7, <2>2
<1>. QED  BY <1>5, <1>6, <1>7

LEMMA ShotProtocolHolds == ShotInv => Shot!OneShotProtocol
<1>. SUFFICES ASSUME ShotInv, ~Shot!Mistaken
              PROVE  \A c \in oOpen :
                       /\ Shot!Concerned(c) = IF c \in unserved THEN 0 ELSE 1
                       /\ (c \in armed /\ Shot!Readable(c) => c \in oEdge)
  BY DEF Shot!OneShotProtocol
<1>1. \A c \in oOpen : Shot!Concerned(c) = IF c \in unserved THEN 0 ELSE 1
  BY ShotConcerned DEF ShotInv
<1>2. \A c \in oOpen : c \in armed /\ Shot!Readable(c) => c \in oEdge
  BY DEF ShotInv, ShotPlaceInv, ShotTypeInv
<1>. QED  BY <1>1, <1>2

(* EPOLLONESHOT keeps its promise for any number of connections and        *)
(* threads: a connection is armed, reported or served by one thread, and   *)
(* its input is not forgotten, unless pthread_create failed for it         *)
(* (epolloneshot_test.cpp:46-146).                                         *)
THEOREM OneThreadAtATime == FairSpec => []OneShotProtocol
<1>1. Init => ShotInv
  BY ShotInitially DEF Init
<1>2. ShotInv /\ [Next]_vars => ShotInv'
  <2>1. [Next]_vars => [Shot!Next]_shotVars
    BY DEF Next, vars
  <2>. QED  BY <2>1, ShotStep
<1>3. ShotInv => OneShotProtocol
  BY ShotProtocolHolds DEF OneShotProtocol
<1>. QED  BY <1>1, <1>2, <1>3, PTL DEF FairSpec

(* The reactor with a pool.  A connection is known by its client, an echo  *)
(* by its Connection and the descriptor that the Connection had.           *)
HelloRuns == {"echo", "accept", "echoAll"}
HelloTask(runs) == [run : runs, conn : HelloClients \cup {None}, fd : HelloFDs \cup {None}]

HelloTypeInv ==
  /\ hPeer \in [HelloClients -> {"new", "open", "shut", "gone"}]
  /\ hUnread \in [HelloClients -> Nat]
  /\ hBacklog \in Seq(HelloClients)
  /\ hFd \in [HelloClients -> HelloFDs \cup {None}]
  /\ edges \subseteq HelloClients \cup {"listener", "stdin"}
  /\ hBatch \subseteq HelloClients \cup {"listener", "stdin"}
  /\ tasks \in Seq(HelloTask(HelloRuns))
  /\ hWpc \in [HelloWorkers -> HelloRuns \cup {"idle", "insert", "setCallback", "delete"}]
  /\ wtask \in [HelloWorkers -> HelloTask(HelloRuns \cup {"none"})]
  /\ deleted \subseteq HelloClients

(* The echoes that are queued or run, and what they know of a Connection:  *)
(* until it is deleted it has the descriptor that the echo will read.      *)
HelloEchoes == {t \in Hello!Tasks : t.run = "echo"}

HelloWorkerInv == \A w \in HelloWorkers : hWpc[w] \in {"echo", "delete"} <=> wtask[w].run = "echo"

HelloConnInv ==
  /\ \A c, d \in HelloClients : hFd[c] = hFd[d] /\ hFd[c] # None => c = d
  /\ \A c \in HelloClients : hFd[c] # None => hPeer[c] # "new"
  /\ \A c \in deleted : hPeer[c] # "new" /\ hFd[c] = None
  /\ \A c \in HelloClients \cap (edges \cup hBatch) : hFd[c] # None \/ c \in deleted
  /\ \A t \in HelloEchoes :
       /\ t.conn \in HelloClients
       /\ t.conn \in deleted \/ (hFd[t.conn] = t.fd /\ t.fd # None)

HelloBacklogInv ==
  /\ \A k \in 1..Len(hBacklog) :
       hPeer[hBacklog[k]] # "new" /\ hFd[hBacklog[k]] = None /\ hBacklog[k] \notin deleted
  /\ \A k, n \in 1..Len(hBacklog) : hBacklog[k] = hBacklog[n] => k = n

HelloInputInv ==
  hLost = "no" =>
    \A c \in HelloClients :
      hFd[c] # None /\ (hUnread[c] > 0 \/ Hello!Ended(c)) =>
        c \in edges \cup hBatch \/ \E t \in HelloEchoes : t.fd = hFd[c]

HelloInv == HelloTypeInv /\ HelloWorkerInv /\ HelloConnInv /\ HelloBacklogInv /\ HelloInputInv

LEMMA ElementsOfAppend ==
  ASSUME NEW S, NEW s \in Seq(S), NEW e \in S
  PROVE  {Append(s, e)[k] : k \in DOMAIN Append(s, e)} = {s[k] : k \in DOMAIN s} \cup {e}
<1>1. /\ Len(s) \in Nat /\ DOMAIN s = 1..Len(s) /\ DOMAIN Append(s, e) = 1..(Len(s) + 1)
      /\ \A k \in 1..Len(s) : Append(s, e)[k] = s[k]
      /\ Append(s, e)[Len(s) + 1] = e
  BY AppendProperties, LenProperties
<1>. DEFINE n == Len(s)
           a == Append(s, e)
<1>. HIDE DEF n, a
<1>2. n \in Nat /\ DOMAIN s = 1..n /\ DOMAIN a = 1..(n + 1) /\ (\A k \in 1..n : a[k] = s[k]) /\ a[n + 1] = e
  BY <1>1 DEF n, a
<1>3. {a[k] : k \in DOMAIN a} = {s[k] : k \in DOMAIN s} \cup {e}
  BY <1>2
<1>. QED  BY <1>3 DEF a

LEMMA ElementsOfTail ==
  ASSUME NEW S, NEW s \in Seq(S), s # <<>>
  PROVE  {s[k] : k \in DOMAIN s} = {Tail(s)[k] : k \in DOMAIN Tail(s)} \cup {Head(s)}
<1>1. /\ Len(s) \in Nat \ {0} /\ DOMAIN s = 1..Len(s) /\ DOMAIN Tail(s) = 1..(Len(s) - 1)
      /\ \A k \in 1..(Len(s) - 1) : Tail(s)[k] = s[k + 1]
      /\ Head(s) = s[1]
  BY HeadTailProperties, LenProperties, EmptySeq
<1>. DEFINE n == Len(s)
           t == Tail(s)
<1>. HIDE DEF n, t
<1>2. /\ n \in Nat \ {0} /\ DOMAIN s = 1..n /\ DOMAIN t = 1..(n - 1)
      /\ (\A k \in 1..(n - 1) : t[k] = s[k + 1]) /\ Head(s) = s[1]
  BY <1>1 DEF n, t
<1>3. \A k \in 1..n : k = 1 \/ (k - 1 \in 1..(n - 1) /\ t[k - 1] = s[k])
  BY <1>2
<1>4. \A k \in 1..(n - 1) : k + 1 \in 1..n
  BY <1>2
<1>5. {s[k] : k \in DOMAIN s} = {t[k] : k \in DOMAIN t} \cup {Head(s)}
  <2>1. \A x \in {s[k] : k \in DOMAIN s} : x \in {t[k] : k \in DOMAIN t} \cup {Head(s)}
    BY <1>2, <1>3
  <2>2. \A x \in {t[k] : k \in DOMAIN t} \cup {Head(s)} : x \in {s[k] : k \in DOMAIN s}
    <3>1. 1 \in 1..n
      BY <1>2
    <3>. QED  BY <1>2, <1>4, <3>1
  <2>. QED  BY <2>1, <2>2
<1>. QED  BY <1>5 DEF t

LEMMA HelloInitially == Hello!Init => HelloInv
<1>. SUFFICES ASSUME Hello!Init PROVE HelloInv
  OBVIOUS
<1>1. Hello!NoTask \in HelloTask(HelloRuns \cup {"none"})
  BY DEF Hello!NoTask, HelloTask
<1>2. hBacklog \in Seq(HelloClients) /\ tasks \in Seq(HelloTask(HelloRuns)) /\ Len(hBacklog) = 0
  BY EmptySeq DEF Hello!Init
<1>3. HelloTypeInv
  BY <1>1, <1>2 DEF Hello!Init, HelloTypeInv
<1>4. HelloEchoes = {}
  <2>1. \A t \in Hello!Tasks : t = Hello!NoTask
    BY DEF Hello!Init, Hello!Tasks
  <2>. QED  BY <2>1 DEF HelloEchoes, Hello!NoTask
<1>5. HelloWorkerInv
  BY DEF Hello!Init, HelloWorkerInv, Hello!NoTask
<1>6. HelloConnInv /\ HelloBacklogInv /\ HelloInputInv
  BY <1>2, <1>4 DEF Hello!Init, HelloConnInv, HelloBacklogInv, HelloInputInv
<1>. QED  BY <1>3, <1>5, <1>6 DEF HelloInv

LEMMA HelloTypeStep ==
  HelloTypeInv /\ HelloWorkerInv /\ HelloConnInv /\ [Hello!Next]_helloVars => HelloTypeInv'
<1>. SUFFICES ASSUME HelloTypeInv, HelloWorkerInv, HelloConnInv, [Hello!Next]_helloVars PROVE HelloTypeInv'
  OBVIOUS
<1>. USE DEF HelloTypeInv, Hello!peerVars, Hello!connVars
<1>1. CASE Hello!Environment
  <2>. SUFFICES ASSUME NEW c \in HelloClients,
                       Hello!Type \/ Hello!Connect(c) \/ Hello!Say(c) \/ Hello!Shut(c) \/ Hello!Reset(c),
                       UNCHANGED <<hFd, hBatch, tasks, hWpc, wtask, Hello!connVars, hLost>>
                PROVE  HelloTypeInv'
    BY <1>1 DEF Hello!Environment, Hello!Type, Hello!Stdin
  <2>1. CASE Hello!Connect(c)
    <3>1. hBacklog' \in Seq(HelloClients)
      BY <2>1, AppendProperties DEF Hello!Connect
    <3>. QED  BY <2>1, <3>1 DEF Hello!Connect, Hello!Listener
  <2>2. CASE Hello!Type
    BY <2>2 DEF Hello!Type, Hello!Stdin
  <2>3. CASE Hello!Say(c)
    <3>1. hUnread' \in [HelloClients -> Nat]
      BY <2>3 DEF Hello!Say
    <3>2. edges' \subseteq HelloClients \cup {"listener", "stdin"}
      BY <2>3 DEF Hello!Say
    <3>. QED  BY <2>3, <3>1, <3>2 DEF Hello!Say
  <2>4. CASE Hello!Shut(c) \/ Hello!Reset(c)
    <3>1. hPeer' \in [HelloClients -> {"new", "open", "shut", "gone"}]
      BY <2>4 DEF Hello!Shut, Hello!Reset
    <3>2. edges' \subseteq HelloClients \cup {"listener", "stdin"}
      BY <2>4 DEF Hello!Shut, Hello!Reset
    <3>3. UNCHANGED <<hUnread, hBacklog>>
      BY <2>4 DEF Hello!Shut, Hello!Reset
    <3>. QED  BY <3>1, <3>2, <3>3
  <2>. QED  BY <2>1, <2>2, <2>3, <2>4
<1>2. CASE Hello!GetActiveChannels
  BY <1>2 DEF Hello!GetActiveChannels
<1>3. ASSUME NEW ch \in HelloClients \cup {Hello!Listener, Hello!Stdin}, Hello!HandleEvent(ch)
      PROVE  HelloTypeInv'
  <2>1. Hello!Callback(ch) \in HelloTask(HelloRuns)
    BY <1>3 DEF Hello!Callback, Hello!Listener, Hello!Stdin, Hello!Accept, Hello!EchoAll, HelloTask, HelloRuns
  <2>2. tasks' \in Seq(HelloTask(HelloRuns))
    <3>1. Append(tasks, Hello!Callback(ch)) \in Seq(HelloTask(HelloRuns))
      BY <2>1, AppendProperties
    <3>. QED  BY <1>3, <3>1 DEF Hello!HandleEvent
  <2>. QED  BY <1>3, <2>2 DEF Hello!HandleEvent
<1>4. ASSUME NEW w \in HelloWorkers, Hello!Take(w) PROVE HelloTypeInv'
  <2>1. Head(tasks) \in HelloTask(HelloRuns) /\ tasks' \in Seq(HelloTask(HelloRuns))
    BY <1>4, HeadTailProperties DEF Hello!Take
  <2>2. Head(tasks).run \in HelloRuns /\ Head(tasks) \in HelloTask(HelloRuns \cup {"none"})
    BY <2>1 DEF HelloTask
  <2>. QED  BY <1>4, <2>1, <2>2 DEF Hello!Take
<1>5. ASSUME NEW w \in HelloWorkers, Hello!AcceptConnection(w) PROVE HelloTypeInv'
  <2>1. Head(hBacklog) \in HelloClients /\ hBacklog' \in Seq(HelloClients)
    BY <1>5, HeadTailProperties DEF Hello!AcceptConnection
  <2>2. [wtask[w] EXCEPT !.conn = Head(hBacklog)] \in HelloTask(HelloRuns \cup {"none"})
    BY <2>1 DEF HelloTask
  <2>3. wtask' \in [HelloWorkers -> HelloTask(HelloRuns \cup {"none"})]
    BY <1>5, <2>2 DEF Hello!AcceptConnection, Hello!Construct
  <2>4. hFd' \in [HelloClients -> HelloFDs \cup {None}]
    BY <1>5, <2>1 DEF Hello!AcceptConnection, Hello!Construct
  <2>5. edges' \subseteq HelloClients \cup {"listener", "stdin"}
    BY <1>5, <2>1 DEF Hello!AcceptConnection, Hello!Construct
  <2>6. hWpc' \in [HelloWorkers -> HelloRuns \cup {"idle", "insert", "setCallback", "delete"}]
    BY <1>5 DEF Hello!AcceptConnection, Hello!Construct, Hello!Goto
  <2>. QED
    BY <1>5, <2>1, <2>3, <2>4, <2>5, <2>6 DEF Hello!AcceptConnection
<1>6. Hello!NoTask \in HelloTask(HelloRuns \cup {"none"})
  BY DEF Hello!NoTask, HelloTask
<1>7. ASSUME NEW w \in HelloWorkers, NEW c \in HelloClients, Hello!ReadData(w, c) PROVE HelloTypeInv'
  <2>1. hUnread' \in [HelloClients -> Nat]
    BY <1>7 DEF Hello!ReadData
  <2>. QED  BY <1>7, <2>1 DEF Hello!ReadData
<1>8. ASSUME NEW w \in HelloWorkers, NEW c \in HelloClients,
             Hello!ReadNothing(w, c) \/ Hello!ReadError(w, c) \/ Hello!ReadEnd(w, c)
      PROVE HelloTypeInv'
  BY <1>6, <1>8 DEF Hello!ReadNothing, Hello!ReadError, Hello!ReadEnd, Hello!Finish, Hello!Goto
<1>9. ASSUME NEW w \in HelloWorkers, Hello!Insert(w) \/ Hello!SetCallback(w) \/ Hello!EchoLine(w)
      PROVE HelloTypeInv'
  BY <1>6, <1>9 DEF Hello!Insert, Hello!SetCallback, Hello!EchoLine, Hello!Finish, Hello!Goto
<1>10. ASSUME NEW w \in HelloWorkers, Hello!DeleteConnection(w) PROVE HelloTypeInv'
  <2>1. wtask[w].conn \in HelloClients
    <3>1. hWpc[w] = "delete"
      BY <1>10 DEF Hello!DeleteConnection
    <3>2. wtask[w] \in HelloEchoes
      BY <3>1 DEF HelloWorkerInv, HelloEchoes, Hello!Tasks
    <3>. QED  BY <3>2 DEF HelloConnInv
  <2>. QED
    BY <1>6, <1>10, <2>1 DEF Hello!DeleteConnection, Hello!Finish, Hello!Goto
<1>11. ASSUME NEW w \in HelloWorkers, Hello!AcceptFails(w) \/ \E v \in HelloWorkers : Hello!MapRace(w, v)
       PROVE  HelloTypeInv'
  BY <1>11 DEF Hello!AcceptFails, Hello!MapRace
<1>12. CASE UNCHANGED helloVars
  BY <1>12 DEF helloVars
<1>. QED
  BY <1>1, <1>2, <1>3, <1>4, <1>5, <1>7, <1>8, <1>9, <1>10, <1>11, <1>12
  DEF Hello!Next, Hello!Loop, Hello!Worker

LEMMA HelloWorkerStep == HelloTypeInv /\ HelloWorkerInv /\ [Hello!Next]_helloVars => HelloWorkerInv'
<1>. SUFFICES ASSUME HelloTypeInv, HelloWorkerInv, [Hello!Next]_helloVars PROVE HelloWorkerInv'
  OBVIOUS
<1>1. CASE Hello!Environment \/ Hello!Loop \/ UNCHANGED helloVars
  BY <1>1 DEF Hello!Environment, Hello!Loop, Hello!GetActiveChannels, Hello!HandleEvent, helloVars, HelloWorkerInv
<1>2. ASSUME NEW w \in HelloWorkers, Hello!Take(w) PROVE HelloWorkerInv'
  <2>1. Head(tasks) \in HelloTask(HelloRuns)
    BY <1>2, HeadTailProperties DEF Hello!Take, HelloTypeInv
  <2>2. hWpc'[w] = Head(tasks).run /\ wtask'[w] = Head(tasks) /\ Head(tasks).run # "delete"
    BY <1>2, <2>1 DEF Hello!Take, HelloTypeInv, HelloTask, HelloRuns
  <2>. QED  BY <1>2, <2>2 DEF Hello!Take, HelloTypeInv, HelloWorkerInv
<1>3. ASSUME NEW w \in HelloWorkers, Hello!AcceptConnection(w) PROVE HelloWorkerInv'
  <2>1. wtask'[w].run = wtask[w].run /\ wtask[w].run # "echo" /\ hWpc'[w] = "insert"
    <3>1. wtask[w] \in HelloTask(HelloRuns \cup {"none"}) /\ wtask'[w] = [wtask[w] EXCEPT !.conn = Head(hBacklog)]
      BY <1>3 DEF Hello!AcceptConnection, Hello!Construct, HelloTypeInv
    <3>2. wtask'[w].run = wtask[w].run
      BY <3>1 DEF HelloTask
    <3>3. hWpc[w] = "accept" /\ hWpc'[w] = "insert"
      BY <1>3 DEF Hello!AcceptConnection, Hello!Construct, Hello!Goto, HelloTypeInv
    <3>. QED  BY <3>2, <3>3 DEF HelloWorkerInv
  <2>2. \A v \in HelloWorkers \ {w} : wtask'[v] = wtask[v] /\ hWpc'[v] = hWpc[v]
    BY <1>3 DEF Hello!AcceptConnection, Hello!Construct, Hello!Goto, HelloTypeInv
  <2>. QED  BY <2>1, <2>2 DEF HelloWorkerInv
<1>4. ASSUME NEW w \in HelloWorkers, Hello!Insert(w) \/ Hello!SetCallback(w) \/ Hello!EchoLine(w)
      PROVE  HelloWorkerInv'
  <2>1. hWpc[w] \notin {"echo", "delete"} /\ wtask[w].run # "echo"
    BY <1>4 DEF Hello!Insert, Hello!SetCallback, Hello!EchoLine, HelloWorkerInv
  <2>2. hWpc' \in {[hWpc EXCEPT ![w] = "setCallback"], [hWpc EXCEPT ![w] = "idle"]}
    BY <1>4 DEF Hello!Insert, Hello!SetCallback, Hello!EchoLine, Hello!Finish, Hello!Goto
  <2>3. wtask' \in {wtask, [wtask EXCEPT ![w] = Hello!NoTask]}
    BY <1>4 DEF Hello!Insert, Hello!SetCallback, Hello!EchoLine, Hello!Finish
  <2>4. hWpc'[w] \notin {"echo", "delete"} /\ wtask'[w].run # "echo"
    BY <2>1, <2>2, <2>3 DEF Hello!NoTask, HelloTypeInv
  <2>5. \A v \in HelloWorkers \ {w} : hWpc'[v] = hWpc[v] /\ wtask'[v] = wtask[v]
    BY <2>2, <2>3 DEF HelloTypeInv
  <2>. QED  BY <2>4, <2>5 DEF HelloWorkerInv
<1>5. ASSUME NEW w \in HelloWorkers, NEW c \in HelloClients,
             Hello!ReadData(w, c) \/ Hello!ReadNothing(w, c) \/ Hello!ReadError(w, c) \/ Hello!ReadEnd(w, c)
      PROVE  HelloWorkerInv'
  <2>1. hWpc[w] = "echo" /\ wtask[w].run = "echo"
    BY <1>5 DEF Hello!ReadData, Hello!ReadNothing, Hello!ReadError, Hello!ReadEnd, Hello!At, HelloWorkerInv
  <2>2. \/ wtask' = wtask /\ hWpc' \in {hWpc, [hWpc EXCEPT ![w] = "delete"]}
        \/ wtask' = [wtask EXCEPT ![w] = Hello!NoTask] /\ hWpc' = [hWpc EXCEPT ![w] = "idle"]
    BY <1>5 DEF Hello!ReadData, Hello!ReadNothing, Hello!ReadError, Hello!ReadEnd, Hello!Finish, Hello!Goto
  <2>3. hWpc'[w] \in {"echo", "delete"} <=> wtask'[w].run = "echo"
    BY <2>1, <2>2 DEF Hello!NoTask, HelloTypeInv
  <2>4. \A v \in HelloWorkers \ {w} : hWpc'[v] = hWpc[v] /\ wtask'[v] = wtask[v]
    BY <2>2 DEF HelloTypeInv
  <2>. QED  BY <2>3, <2>4 DEF HelloWorkerInv
<1>6. ASSUME NEW w \in HelloWorkers, Hello!DeleteConnection(w) PROVE HelloWorkerInv'
  <2>1. \/ UNCHANGED <<hWpc, wtask>>
        \/ /\ hWpc' = [hWpc EXCEPT ![w] = "idle"]
           /\ wtask' = [wtask EXCEPT ![w] = Hello!NoTask]
    BY <1>6 DEF Hello!DeleteConnection, Hello!Finish, Hello!Goto
  <2>. QED  BY <2>1 DEF Hello!NoTask, HelloTypeInv, HelloWorkerInv
<1>7. ASSUME NEW w \in HelloWorkers, Hello!AcceptFails(w) \/ \E v \in HelloWorkers : Hello!MapRace(w, v)
       PROVE  HelloWorkerInv'
  BY <1>7 DEF Hello!AcceptFails, Hello!MapRace, HelloWorkerInv
<1>. QED
  BY <1>1, <1>2, <1>3, <1>4, <1>5, <1>6, <1>7 DEF Hello!Next, Hello!Worker

(* How the steps change the echoes. *)
LEMMA EchoesKept ==
  HelloWorkerInv /\ UNCHANGED <<tasks, wtask>> => HelloEchoes' = HelloEchoes
BY DEF HelloEchoes, Hello!Tasks

LEMMA EchoesQueued ==
  ASSUME HelloTypeInv, NEW e \in HelloTask(HelloRuns), tasks' = Append(tasks, e), wtask' = wtask
  PROVE  HelloEchoes' = HelloEchoes \cup {t \in {e} : t.run = "echo"}
<1>1. {tasks'[k] : k \in DOMAIN tasks'} = {tasks[k] : k \in DOMAIN tasks} \cup {e}
  <2>1. tasks \in Seq(HelloTask(HelloRuns))
    BY DEF HelloTypeInv
  <2>2. {Append(tasks, e)[k] : k \in DOMAIN Append(tasks, e)} = {tasks[k] : k \in DOMAIN tasks} \cup {e}
    BY <2>1, ElementsOfAppend
  <2>. QED  BY <2>2, Zenon
<1>. QED  BY <1>1 DEF HelloEchoes, Hello!Tasks

LEMMA EchoesTaken ==
  ASSUME HelloTypeInv, HelloWorkerInv, NEW w \in HelloWorkers, Hello!Take(w)
  PROVE  HelloEchoes' = HelloEchoes
<1>. DEFINE Q == {tasks[k] : k \in DOMAIN tasks}
           T == {Tail(tasks)[k] : k \in DOMAIN Tail(tasks)}
<1>1. Q = T \cup {Head(tasks)}
  BY ElementsOfTail DEF Hello!Take, HelloTypeInv
<1>2. Hello!Tasks = Q \cup {wtask[v] : v \in HelloWorkers}
  BY DEF Hello!Tasks
<1>3. Hello!Tasks' = T \cup {wtask'[v] : v \in HelloWorkers}
  BY DEF Hello!Tasks, Hello!Take
<1>4. wtask'[w] = Head(tasks) /\ \A v \in HelloWorkers \ {w} : wtask'[v] = wtask[v]
  BY DEF Hello!Take, HelloTypeInv
<1>5. wtask[w].run # "echo"
  BY DEF Hello!Take, HelloWorkerInv
<1>. HIDE DEF Q, T
<1>6. \A t : t.run = "echo" => (t \in Hello!Tasks <=> t \in Hello!Tasks')
  BY <1>1, <1>2, <1>3, <1>4, <1>5
<1>. QED  BY <1>6 DEF HelloEchoes

LEMMA EchoesChanged ==
  ASSUME HelloTypeInv, NEW w \in HelloWorkers, NEW t, wtask' = [wtask EXCEPT ![w] = t],
         t.run # "echo", UNCHANGED tasks
  PROVE  HelloEchoes \ {wtask[w]} \subseteq HelloEchoes' /\ HelloEchoes' \subseteq HelloEchoes
<1>1. wtask'[w] = t /\ \A v \in HelloWorkers \ {w} : wtask'[v] = wtask[v]
  BY DEF HelloTypeInv
<1>. QED  BY <1>1 DEF HelloEchoes, Hello!Tasks

LEMMA EchoesFinished ==
  ASSUME HelloTypeInv, NEW w \in HelloWorkers, wtask' = [wtask EXCEPT ![w] = Hello!NoTask], UNCHANGED tasks
  PROVE  HelloEchoes \ {wtask[w]} \subseteq HelloEchoes' /\ HelloEchoes' \subseteq HelloEchoes
<1>1. Hello!NoTask.run # "echo"
  BY DEF Hello!NoTask
<1>. HIDE DEF Hello!NoTask
<1>. QED  BY <1>1, EchoesChanged

(* What accept takes from the listen queue was not known before. *)
LEMMA HelloAccepted ==
  ASSUME HelloTypeInv, HelloBacklogInv, hBacklog # <<>>
  PROVE  LET c == Head(hBacklog)
         IN  c \in HelloClients /\ hPeer[c] # "new" /\ hFd[c] = None /\ c \notin deleted
<1>1. Len(hBacklog) \in Nat \ {0} /\ Head(hBacklog) = hBacklog[1] /\ Head(hBacklog) \in HelloClients
  BY EmptySeq, HeadTailProperties DEF HelloTypeInv
<1>2. 1 \in 1..Len(hBacklog)
  BY <1>1
<1>. QED  BY <1>1, <1>2 DEF HelloBacklogInv

LEMMA EchoesAccepted ==
  ASSUME HelloTypeInv, HelloWorkerInv, NEW w \in HelloWorkers, Hello!AcceptConnection(w)
  PROVE  HelloEchoes' = HelloEchoes
<1>. DEFINE t == [wtask[w] EXCEPT !.conn = Head(hBacklog)]
<1>1. hWpc[w] = "accept" /\ wtask' = [wtask EXCEPT ![w] = t] /\ UNCHANGED tasks
  BY DEF Hello!AcceptConnection, Hello!Construct
<1>2. wtask[w] \in HelloTask(HelloRuns \cup {"none"}) /\ wtask[w].run # "echo"
  BY <1>1 DEF HelloTypeInv, HelloWorkerInv
<1>3. t.run # "echo"
  BY <1>2 DEF HelloTask
<1>4. wtask[w] \notin HelloEchoes
  BY <1>2 DEF HelloEchoes
<1>. HIDE DEF t
<1>. QED  BY <1>1, <1>3, <1>4, EchoesChanged

LEMMA HelloConnStep ==
  HelloTypeInv /\ HelloWorkerInv /\ HelloConnInv /\ HelloBacklogInv /\ [Hello!Next]_helloVars
    => HelloConnInv'
<1>. SUFFICES ASSUME HelloTypeInv, HelloWorkerInv, HelloConnInv, HelloBacklogInv, [Hello!Next]_helloVars
              PROVE  HelloConnInv'
  OBVIOUS
<1>. USE DEF Hello!peerVars, Hello!connVars
<1>1. CASE Hello!Environment
  <2>1. HelloEchoes' = HelloEchoes /\ UNCHANGED <<hFd, hBatch, deleted>>
    BY <1>1, EchoesKept DEF Hello!Environment
  <2>2. \A c \in HelloClients : hPeer[c] # "new" => hPeer'[c] # "new"
    BY <1>1 DEF Hello!Environment, Hello!Type, Hello!Connect, Hello!Say, Hello!Shut, Hello!Reset, HelloTypeInv
  <2>3. \A c \in HelloClients : c \in edges' => c \in edges \/ hFd[c] # None
    BY <1>1, HelloAssumption DEF Hello!Environment, Hello!Type, Hello!Connect, Hello!Say, Hello!Shut,
       Hello!Reset, Hello!Open, Hello!Listener, Hello!Stdin
  <2>. QED  BY <2>1, <2>2, <2>3 DEF HelloConnInv, HelloTypeInv
<1>2. CASE Hello!GetActiveChannels
  <2>1. HelloEchoes' = HelloEchoes /\ UNCHANGED <<hPeer, hFd, deleted>> /\ edges' \cup hBatch' = edges \cup hBatch
    BY <1>2, EchoesKept DEF Hello!GetActiveChannels
  <2>. QED  BY <2>1 DEF HelloConnInv, HelloTypeInv
<1>3. ASSUME NEW ch \in HelloClients \cup {Hello!Listener, Hello!Stdin}, Hello!HandleEvent(ch)
      PROVE  HelloConnInv'
  <2>1. UNCHANGED <<hPeer, hFd, deleted, edges, wtask>> /\ hBatch' \subseteq hBatch /\ ch \in hBatch
    BY <1>3 DEF Hello!HandleEvent
  <2>2. CASE ch \in deleted
    <3>1. HelloEchoes' = HelloEchoes
      BY <1>3, <2>2, EchoesKept DEF Hello!HandleEvent
    <3>. QED  BY <2>1, <3>1 DEF HelloConnInv, HelloTypeInv
  <2>3. CASE ch \notin deleted
    <3>1. Hello!Callback(ch) \in HelloTask(HelloRuns) /\
            (Hello!Callback(ch).run = "echo" =>
               ch \in HelloClients /\ Hello!Callback(ch).conn = ch /\ Hello!Callback(ch).fd = hFd[ch])
      BY DEF Hello!Callback, Hello!Listener, Hello!Stdin, Hello!Accept, Hello!EchoAll, HelloTask,
             HelloRuns, HelloTypeInv
    <3>2. tasks' = Append(tasks, Hello!Callback(ch))
      BY <1>3, <2>3 DEF Hello!HandleEvent
    <3>3. HelloEchoes' = HelloEchoes \cup {t \in {Hello!Callback(ch)} : t.run = "echo"}
      BY <2>1, <3>1, <3>2, EchoesQueued
    <3>4. ch \in HelloClients => hFd[ch] # None
      BY <2>1, <2>3 DEF HelloConnInv
    <3>. HIDE DEF Hello!Callback
    <3>. QED  BY <2>1, <3>1, <3>3, <3>4 DEF HelloConnInv, HelloTypeInv
  <2>. QED  BY <2>2, <2>3
<1>4. ASSUME NEW w \in HelloWorkers, Hello!Take(w) PROVE HelloConnInv'
  <2>1. HelloEchoes' = HelloEchoes /\ UNCHANGED <<hPeer, hFd, deleted, edges, hBatch>>
    BY <1>4, EchoesTaken DEF Hello!Take
  <2>. QED  BY <2>1 DEF HelloConnInv, HelloTypeInv
<1>5. ASSUME NEW w \in HelloWorkers, Hello!AcceptConnection(w) PROVE HelloConnInv'
  <2>. DEFINE c == Head(hBacklog)
  <2>1. c \in HelloClients /\ hPeer[c] # "new" /\ hFd[c] = None /\ c \notin deleted
    BY <1>5, HelloAccepted DEF Hello!AcceptConnection
  <2>3. HelloEchoes' = HelloEchoes
    BY <1>5, EchoesAccepted
  <2>4. PICK f \in HelloFDs : (\A d \in HelloClients : hFd[d] # f) /\ hFd' = [hFd EXCEPT ![c] = f]
    BY <1>5 DEF Hello!AcceptConnection, Hello!Construct
  <2>5. edges' \subseteq edges \cup {c} /\ UNCHANGED <<hPeer, hBatch, deleted>>
    BY <1>5 DEF Hello!AcceptConnection, Hello!Construct
  <2>6. \A e \in HelloEchoes : e.conn # c \/ e.conn \in deleted
    BY <2>1 DEF HelloConnInv
  <2>7. f # None /\ \A d \in HelloClients : hFd'[d] = IF d = c THEN f ELSE hFd[d]
    BY <2>4, HelloAssumption DEF HelloTypeInv
  <2>. HIDE DEF c
  <2>. QED  BY <2>1, <2>3, <2>4, <2>5, <2>6, <2>7 DEF HelloConnInv, HelloTypeInv
<1>6. ASSUME NEW w \in HelloWorkers, Hello!Insert(w) PROVE HelloConnInv'
  <2>1. HelloEchoes' = HelloEchoes /\ UNCHANGED <<hPeer, hFd, deleted, edges, hBatch>>
    BY <1>6, EchoesKept DEF Hello!Insert
  <2>. QED  BY <2>1 DEF HelloConnInv, HelloTypeInv
<1>7. ASSUME NEW w \in HelloWorkers, Hello!SetCallback(w) \/ Hello!EchoLine(w) PROVE HelloConnInv'
  <2>1. HelloEchoes' \subseteq HelloEchoes /\ UNCHANGED <<hPeer, hFd, deleted, edges, hBatch>>
    BY <1>7, EchoesFinished DEF Hello!SetCallback, Hello!EchoLine, Hello!Finish
  <2>. QED  BY <2>1 DEF HelloConnInv, HelloTypeInv
<1>8. ASSUME NEW w \in HelloWorkers, NEW c \in HelloClients,
             Hello!ReadData(w, c) \/ Hello!ReadNothing(w, c) \/ Hello!ReadError(w, c) \/ Hello!ReadEnd(w, c)
      PROVE  HelloConnInv'
  <2>1. HelloEchoes' \subseteq HelloEchoes
    <3>1. CASE UNCHANGED <<tasks, wtask>>
      BY <3>1, EchoesKept
    <3>2. CASE Hello!ReadNothing(w, c)
      BY <3>2, EchoesFinished DEF Hello!ReadNothing, Hello!Finish
    <3>. QED  BY <1>8, <3>1, <3>2 DEF Hello!ReadData, Hello!ReadError, Hello!ReadEnd
  <2>2. UNCHANGED <<hPeer, hFd, deleted, edges, hBatch>>
    BY <1>8 DEF Hello!ReadData, Hello!ReadNothing, Hello!ReadError, Hello!ReadEnd
  <2>. QED  BY <2>1, <2>2 DEF HelloConnInv, HelloTypeInv
<1>9. ASSUME NEW w \in HelloWorkers, Hello!DeleteConnection(w) PROVE HelloConnInv'
  <2>. DEFINE c == wtask[w].conn
  <2>1. CASE c \in deleted
    <3>1. HelloEchoes' = HelloEchoes /\ UNCHANGED <<hPeer, hFd, deleted, edges, hBatch>>
      BY <1>9, <2>1, EchoesKept DEF Hello!DeleteConnection
    <3>. QED  BY <3>1 DEF HelloConnInv, HelloTypeInv
  <2>2. CASE c \notin deleted
    <3>1. wtask[w] \in HelloEchoes
      BY <1>9 DEF Hello!DeleteConnection, HelloWorkerInv, HelloEchoes, Hello!Tasks
    <3>2. c \in HelloClients /\ hFd[c] # None
      BY <2>2, <3>1 DEF HelloConnInv
    <3>3. wtask' = [wtask EXCEPT ![w] = Hello!NoTask] /\ UNCHANGED tasks
      BY <1>9, <2>2 DEF Hello!DeleteConnection, Hello!Finish
    <3>4. HelloEchoes' \subseteq HelloEchoes
      BY <3>3, EchoesFinished
    <3>5. /\ deleted' = deleted \cup {c} /\ hFd' = [hFd EXCEPT ![c] = None]
          /\ edges' = edges \ {c} /\ UNCHANGED <<hPeer, hBatch>>
      BY <1>9, <2>2 DEF Hello!DeleteConnection
    <3>6. \A d \in HelloClients : hFd'[d] = IF d = c THEN None ELSE hFd[d]
      BY <3>5 DEF HelloTypeInv
    <3>. HIDE DEF c
    <3>. QED  BY <3>2, <3>4, <3>5, <3>6 DEF HelloConnInv, HelloTypeInv
  <2>. QED  BY <2>1, <2>2
<1>10. ASSUME NEW w \in HelloWorkers, Hello!AcceptFails(w) \/ \E v \in HelloWorkers : Hello!MapRace(w, v)
       PROVE  HelloConnInv'
  <2>1. HelloEchoes' = HelloEchoes /\ UNCHANGED <<hPeer, hFd, deleted, edges, hBatch>>
    BY <1>10, EchoesKept DEF Hello!AcceptFails, Hello!MapRace
  <2>. QED  BY <2>1 DEF HelloConnInv, HelloTypeInv
<1>11. CASE UNCHANGED helloVars
  <2>1. HelloEchoes' = HelloEchoes /\ UNCHANGED <<hPeer, hFd, deleted, edges, hBatch>>
    BY <1>11, EchoesKept DEF helloVars
  <2>. QED  BY <2>1 DEF HelloConnInv, HelloTypeInv
<1>. QED
  BY <1>1, <1>2, <1>3, <1>4, <1>5, <1>6, <1>7, <1>8, <1>9, <1>10, <1>11
  DEF Hello!Next, Hello!Loop, Hello!Worker

LEMMA HelloBacklogStep ==
  HelloTypeInv /\ HelloWorkerInv /\ HelloConnInv /\ HelloBacklogInv /\ [Hello!Next]_helloVars
    => HelloBacklogInv'
<1>. SUFFICES ASSUME HelloTypeInv, HelloWorkerInv, HelloConnInv, HelloBacklogInv, [Hello!Next]_helloVars
              PROVE  HelloBacklogInv'
  OBVIOUS
<1>. USE DEF Hello!peerVars, Hello!connVars
<1>. DEFINE n == Len(hBacklog)
<1>1. n \in Nat /\ \A k \in 1..n : hBacklog[k] \in HelloClients
  BY LenProperties DEF HelloTypeInv
<1>2. ASSUME NEW c \in HelloClients, Hello!Connect(c), UNCHANGED <<hFd, deleted>> PROVE HelloBacklogInv'
  <2>. DEFINE b == hBacklog'
  <2>1. Len(b) = n + 1 /\ (\A k \in 1..n : b[k] = hBacklog[k]) /\ b[n + 1] = c
    BY <1>2, AppendProperties DEF Hello!Connect, HelloTypeInv
  <2>2. hFd[c] = None /\ c \notin deleted /\ hPeer' = [hPeer EXCEPT ![c] = "open"] /\ hPeer[c] = "new"
    BY <1>2 DEF Hello!Connect, HelloConnInv
  <2>3. \A k \in 1..n : hBacklog[k] # c
    BY <2>2 DEF HelloBacklogInv
  <2>4. \A d \in HelloClients : hPeer'[d] = IF d = c THEN "open" ELSE hPeer[d]
    BY <2>2 DEF HelloTypeInv
  <2>. HIDE DEF b, n
  <2>5. \A k \in 1..(n + 1) : k \in 1..n \/ k = n + 1
    BY <1>1
  <2>6. \A k \in 1..(n + 1) : b[k] \in HelloClients /\ hPeer'[b[k]] # "new" /\ hFd[b[k]] = None /\ b[k] \notin deleted
    BY <1>1, <2>1, <2>2, <2>4, <2>5 DEF HelloBacklogInv, n
  <2>7. \A k, m \in 1..(n + 1) : b[k] = b[m] => k = m
    BY <1>1, <2>1, <2>3, <2>5 DEF HelloBacklogInv, n
  <2>. QED  BY <1>2, <2>1, <2>6, <2>7 DEF HelloBacklogInv, b
<1>3. ASSUME UNCHANGED <<hBacklog, deleted>>, \A c \in HelloClients : hFd[c] = None => hFd'[c] = None,
             \A c \in HelloClients : hPeer[c] # "new" => hPeer'[c] # "new"
      PROVE  HelloBacklogInv'
  BY <1>1, <1>3 DEF HelloBacklogInv
<1>4. ASSUME NEW w \in HelloWorkers, Hello!AcceptConnection(w) PROVE HelloBacklogInv'
  <2>. DEFINE b == hBacklog'
             c == Head(hBacklog)
  <2>1. n > 0 /\ Len(b) = n - 1 /\ (\A k \in 1..(n - 1) : b[k] = hBacklog[k + 1]) /\ c = hBacklog[1]
    BY <1>4, HeadTailProperties, EmptySeq DEF Hello!AcceptConnection, HelloTypeInv
  <2>2. \A d \in HelloClients : d # c => hFd'[d] = hFd[d]
    BY <1>4 DEF Hello!AcceptConnection, Hello!Construct, HelloTypeInv
  <2>3. UNCHANGED <<hPeer, deleted>>
    BY <1>4 DEF Hello!AcceptConnection
  <2>. HIDE DEF b, c, n
  <2>4. \A k \in 1..(n - 1) : k + 1 \in 1..n /\ k + 1 # 1
    BY <1>1
  <2>5. 1 \in 1..n
    BY <1>1, <2>1
  <2>6. \A k \in 1..(n - 1) : b[k] # c
    BY <2>1, <2>4, <2>5 DEF HelloBacklogInv, n
  <2>7. \A k \in 1..(n - 1) : b[k] \in HelloClients /\ hPeer[b[k]] # "new" /\ hFd'[b[k]] = None /\ b[k] \notin deleted
    BY <1>1, <2>1, <2>2, <2>4, <2>6 DEF HelloBacklogInv, n
  <2>8. \A k, m \in 1..(n - 1) : b[k] = b[m] => k = m
    <3>. SUFFICES ASSUME NEW k \in 1..(n - 1), NEW m \in 1..(n - 1), b[k] = b[m] PROVE k = m
      OBVIOUS
    <3>1. k + 1 = m + 1
      BY <2>1, <2>4 DEF HelloBacklogInv, n
    <3>. QED  BY <1>1, <3>1
  <2>. QED  BY <2>1, <2>3, <2>7, <2>8 DEF HelloBacklogInv, b
<1>5. CASE Hello!Environment
  <2>1. UNCHANGED <<hFd, deleted>>
    BY <1>5 DEF Hello!Environment
  <2>2. ASSUME Hello!Type \/ \E c \in HelloClients : Hello!Say(c) \/ Hello!Shut(c) \/ Hello!Reset(c)
        PROVE  HelloBacklogInv'
    BY <1>3, <2>1, <2>2 DEF Hello!Type, Hello!Say, Hello!Shut, Hello!Reset, HelloTypeInv
  <2>. QED  BY <1>2, <1>5, <2>1, <2>2 DEF Hello!Environment
<1>6. CASE Hello!Loop \/ UNCHANGED helloVars
  BY <1>3, <1>6 DEF Hello!Loop, Hello!GetActiveChannels, Hello!HandleEvent, helloVars
<1>7. ASSUME NEW w \in HelloWorkers,
             Hello!Take(w) \/ Hello!Insert(w) \/ Hello!SetCallback(w) \/ Hello!EchoLine(w)
      PROVE  HelloBacklogInv'
  BY <1>3, <1>7 DEF Hello!Take, Hello!Insert, Hello!SetCallback, Hello!EchoLine
<1>8. ASSUME NEW w \in HelloWorkers, NEW c \in HelloClients,
             Hello!ReadData(w, c) \/ Hello!ReadNothing(w, c) \/ Hello!ReadError(w, c) \/ Hello!ReadEnd(w, c)
      PROVE  HelloBacklogInv'
  BY <1>3, <1>8 DEF Hello!ReadData, Hello!ReadNothing, Hello!ReadError, Hello!ReadEnd
<1>9. ASSUME NEW w \in HelloWorkers, Hello!DeleteConnection(w) PROVE HelloBacklogInv'
  <2>. DEFINE c == wtask[w].conn
  <2>1. CASE c \in deleted
    BY <1>3, <1>9, <2>1 DEF Hello!DeleteConnection
  <2>2. CASE c \notin deleted
    <3>1. wtask[w] \in HelloEchoes
      BY <1>9 DEF Hello!DeleteConnection, HelloWorkerInv, HelloEchoes, Hello!Tasks
    <3>2. c \in HelloClients /\ hFd[c] # None
      BY <2>2, <3>1 DEF HelloConnInv
    <3>3. deleted' = deleted \cup {c} /\ hFd' = [hFd EXCEPT ![c] = None] /\ UNCHANGED <<hPeer, hBacklog>>
      BY <1>9, <2>2 DEF Hello!DeleteConnection
    <3>. HIDE DEF c, n
    <3>4. \A k \in 1..n : hBacklog[k] # c
      BY <3>2 DEF HelloBacklogInv, n
    <3>5. \A d \in HelloClients : d # c => hFd'[d] = hFd[d]
      BY <3>3 DEF HelloTypeInv
    <3>. QED  BY <1>1, <3>3, <3>4, <3>5 DEF HelloBacklogInv, n
  <2>. QED  BY <2>1, <2>2
<1>10. ASSUME NEW w \in HelloWorkers, Hello!AcceptFails(w) \/ \E v \in HelloWorkers : Hello!MapRace(w, v)
       PROVE  HelloBacklogInv'
  BY <1>3, <1>10 DEF Hello!AcceptFails, Hello!MapRace
<1>. QED
  BY <1>4, <1>5, <1>6, <1>7, <1>8, <1>9, <1>10 DEF Hello!Next, Hello!Worker

LEMMA HelloInputStep == HelloInv /\ [Hello!Next]_helloVars => HelloInputInv'
<1>. SUFFICES ASSUME HelloInv, [Hello!Next]_helloVars PROVE HelloInputInv'
  OBVIOUS
<1>. USE DEF Hello!peerVars, Hello!connVars, Hello!Ended
<1>1. HelloTypeInv /\ HelloWorkerInv /\ HelloConnInv /\ HelloBacklogInv /\ HelloInputInv
  BY DEF HelloInv
<1>2. CASE UNCHANGED helloVars
  <2>1. HelloEchoes' = HelloEchoes
    BY <1>1, <1>2, EchoesKept DEF helloVars
  <2>. QED  BY <1>1, <1>2, <2>1 DEF helloVars, HelloInputInv
<1>. SUFFICES ASSUME Hello!Next PROVE HelloInputInv'
  BY <1>2
<1>3. hLost = "no"
  BY DEF Hello!Next
<1>4. CASE Hello!Environment
  <2>1. HelloEchoes' = HelloEchoes /\ UNCHANGED <<hFd, hBatch, hLost>>
    BY <1>1, <1>4, EchoesKept DEF Hello!Environment
  <2>2. ASSUME NEW c \in HelloClients, Hello!Connect(c) PROVE HelloInputInv'
    <3>1. hFd[c] = None /\ (\A d \in HelloClients : d # c => hPeer'[d] = hPeer[d]) /\ hUnread' = hUnread
          /\ edges \subseteq edges'
      BY <1>1, <2>2 DEF Hello!Connect, HelloConnInv, HelloTypeInv
    <3>. QED  BY <1>1, <2>1, <3>1 DEF HelloInputInv, HelloTypeInv
  <2>3. ASSUME NEW c \in HelloClients, Hello!Say(c) PROVE HelloInputInv'
    <3>1. (\A d \in HelloClients : d # c => hUnread'[d] = hUnread[d]) /\ hPeer' = hPeer
          /\ edges \subseteq edges' /\ (hFd[c] # None => c \in edges')
      BY <1>1, <2>3 DEF Hello!Say, Hello!Open, HelloTypeInv
    <3>. QED  BY <1>1, <2>1, <3>1 DEF HelloInputInv, HelloTypeInv
  <2>4. ASSUME NEW c \in HelloClients, Hello!Shut(c) \/ Hello!Reset(c) PROVE HelloInputInv'
    <3>1. (\A d \in HelloClients : d # c => hPeer'[d] = hPeer[d]) /\ hUnread' = hUnread
          /\ edges \subseteq edges' /\ (hFd[c] # None => c \in edges')
      BY <1>1, <2>4 DEF Hello!Shut, Hello!Reset, Hello!Open, HelloTypeInv
    <3>. QED  BY <1>1, <2>1, <3>1 DEF HelloInputInv, HelloTypeInv
  <2>5. CASE Hello!Type
    <3>1. UNCHANGED <<hPeer, hUnread>> /\ edges \subseteq edges'
      BY <2>5 DEF Hello!Type
    <3>. QED  BY <1>1, <2>1, <3>1 DEF HelloInputInv, HelloTypeInv
  <2>. QED  BY <1>4, <2>2, <2>3, <2>4, <2>5 DEF Hello!Environment
<1>5. ASSUME UNCHANGED <<hFd, hPeer, hUnread>>, hLost = "no", HelloEchoes \subseteq HelloEchoes',
             edges \cup hBatch \subseteq edges' \cup hBatch'
      PROVE  HelloInputInv'
  BY <1>1, <1>5 DEF HelloInputInv
<1>6. CASE Hello!GetActiveChannels
  <2>1. HelloEchoes' = HelloEchoes
    BY <1>1, <1>6, EchoesKept DEF Hello!GetActiveChannels
  <2>. QED  BY <1>5, <1>6, <1>3, <2>1 DEF Hello!GetActiveChannels
<1>7. ASSUME NEW ch \in HelloClients \cup {Hello!Listener, Hello!Stdin}, Hello!HandleEvent(ch), hLost' = "no"
      PROVE  HelloInputInv'
  <2>1. UNCHANGED <<hPeer, hUnread, hFd, edges, wtask>> /\ hBatch' = hBatch \ {ch}
    BY <1>7 DEF Hello!HandleEvent
  <2>2. tasks' = Append(tasks, Hello!Callback(ch)) /\ hLost' = hLost
    BY <1>7 DEF Hello!HandleEvent, Hello!Lose
  <2>3. Hello!Callback(ch) \in HelloTask(HelloRuns) /\
          (ch \in HelloClients => Hello!Callback(ch).run = "echo" /\ Hello!Callback(ch).fd = hFd[ch])
    BY <1>1, HelloAssumption DEF Hello!Callback, Hello!Listener, Hello!Stdin, Hello!Accept, Hello!EchoAll,
       HelloTask, HelloRuns, HelloTypeInv
  <2>4. HelloEchoes' = HelloEchoes \cup {t \in {Hello!Callback(ch)} : t.run = "echo"}
    BY <1>1, <2>1, <2>2, <2>3, EchoesQueued
  <2>. HIDE DEF Hello!Callback
  <2>. QED  BY <1>1, <2>1, <2>2, <2>3, <2>4 DEF HelloInputInv
<1>8. ASSUME NEW w \in HelloWorkers, Hello!Take(w) PROVE HelloInputInv'
  <2>1. HelloEchoes' = HelloEchoes
    BY <1>1, <1>8, EchoesTaken
  <2>. QED  BY <1>5, <1>3, <1>8, <2>1 DEF Hello!Take
<1>9. ASSUME NEW w \in HelloWorkers, Hello!AcceptConnection(w) PROVE HelloInputInv'
  <2>. DEFINE c == Head(hBacklog)
  <2>1. c \in HelloClients /\ HelloEchoes' = HelloEchoes
    BY <1>1, <1>9, HelloAccepted, EchoesAccepted DEF Hello!AcceptConnection
  <2>2. \A d \in HelloClients : d # c => hFd'[d] = hFd[d]
    BY <1>1, <1>9 DEF Hello!AcceptConnection, Hello!Construct, HelloTypeInv
  <2>3. UNCHANGED <<hPeer, hUnread, hBatch, hLost>> /\ edges \subseteq edges'
        /\ (hUnread[c] > 0 \/ Hello!Ended(c) => c \in edges')
    BY <1>9 DEF Hello!AcceptConnection, Hello!Construct
  <2>. HIDE DEF c
  <2>. QED  BY <1>1, <2>1, <2>2, <2>3 DEF HelloInputInv
<1>10. ASSUME NEW w \in HelloWorkers, Hello!Insert(w) PROVE HelloInputInv'
  <2>1. HelloEchoes' = HelloEchoes
    BY <1>1, <1>10, EchoesKept DEF Hello!Insert
  <2>. QED  BY <1>5, <1>3, <1>10, <2>1 DEF Hello!Insert
<1>11. ASSUME NEW w \in HelloWorkers, NEW c \in HelloClients, Hello!ReadError(w, c) PROVE HelloInputInv'
  <2>1. HelloEchoes' = HelloEchoes
    BY <1>1, <1>11, EchoesKept DEF Hello!ReadError
  <2>. QED  BY <1>5, <1>11, <1>3, <2>1 DEF Hello!ReadError
<1>12. ASSUME NEW w \in HelloWorkers, Hello!SetCallback(w) \/ Hello!EchoLine(w) PROVE HelloInputInv'
  <2>1. wtask[w] \notin HelloEchoes
    BY <1>1, <1>12 DEF Hello!SetCallback, Hello!EchoLine, HelloWorkerInv, HelloEchoes
  <2>2. HelloEchoes \subseteq HelloEchoes'
    BY <1>1, <1>12, <2>1, EchoesFinished DEF Hello!SetCallback, Hello!EchoLine, Hello!Finish
  <2>. QED  BY <1>5, <1>3, <1>12, <2>2 DEF Hello!SetCallback, Hello!EchoLine
<1>13. ASSUME NEW w \in HelloWorkers, NEW c \in HelloClients, Hello!ReadData(w, c) PROVE HelloInputInv'
  <2>1. HelloEchoes' = HelloEchoes /\ UNCHANGED <<hFd, hPeer, edges, hBatch>>
    BY <1>1, <1>13, EchoesKept DEF Hello!ReadData
  <2>2. \A d \in HelloClients : d # c => hUnread'[d] = hUnread[d]
    BY <1>1, <1>13 DEF Hello!ReadData, HelloTypeInv
  <2>3. wtask[w] \in HelloEchoes /\ wtask[w].fd = hFd[c]
    BY <1>1, <1>13 DEF Hello!ReadData, Hello!At, HelloWorkerInv, HelloEchoes, Hello!Tasks
  <2>. QED  BY <1>1, <1>3, <2>1, <2>2, <2>3 DEF HelloInputInv
<1>14. ASSUME NEW w \in HelloWorkers, NEW c \in HelloClients, Hello!ReadNothing(w, c) PROVE HelloInputInv'
  <2>1. UNCHANGED <<hFd, hPeer, hUnread, hLost, edges, hBatch>>
    BY <1>14 DEF Hello!ReadNothing
  <2>2. HelloEchoes \ {wtask[w]} \subseteq HelloEchoes'
    BY <1>1, <1>14, EchoesFinished DEF Hello!ReadNothing, Hello!Finish
  <2>3. wtask[w].fd = hFd[c] /\ hUnread[c] = 0 /\ ~Hello!Ended(c)
    BY <1>14 DEF Hello!ReadNothing, Hello!At
  <2>4. \A d \in HelloClients : hFd[d] # None /\ d # c => hFd[d] # hFd[c]
    BY <1>1 DEF HelloConnInv
  <2>5. \A d \in HelloClients, t \in HelloEchoes : d # c /\ hFd[d] # None /\ t.fd = hFd[d] => t \in HelloEchoes'
    BY <2>2, <2>3, <2>4
  <2>. QED  BY <1>1, <2>1, <2>3, <2>5 DEF HelloInputInv
<1>15. ASSUME NEW w \in HelloWorkers, NEW c \in HelloClients, Hello!ReadEnd(w, c), hLost' = "no"
       PROVE  HelloInputInv'
  <2>1. HelloEchoes' = HelloEchoes
    BY <1>1, <1>15, EchoesKept DEF Hello!ReadEnd
  <2>. QED  BY <1>5, <1>3, <1>15, <2>1 DEF Hello!ReadEnd, Hello!Lose
<1>16. ASSUME NEW w \in HelloWorkers, Hello!DeleteConnection(w), hLost' = "no" PROVE HelloInputInv'
  <2>. DEFINE c == wtask[w].conn
  <2>1. c \notin deleted
    BY <1>16 DEF Hello!DeleteConnection, Hello!Lose
  <2>2. wtask[w] \in HelloEchoes
    BY <1>1, <1>16 DEF Hello!DeleteConnection, HelloWorkerInv, HelloEchoes, Hello!Tasks
  <2>3. c \in HelloClients /\ hFd[c] # None /\ wtask[w].fd = hFd[c]
    BY <1>1, <2>1, <2>2 DEF HelloConnInv
  <2>4. wtask' = [wtask EXCEPT ![w] = Hello!NoTask] /\ UNCHANGED tasks
    BY <1>16, <2>1 DEF Hello!DeleteConnection, Hello!Finish
  <2>5. HelloEchoes \ {wtask[w]} \subseteq HelloEchoes'
    BY <1>1, <2>4, EchoesFinished
  <2>6. hFd' = [hFd EXCEPT ![c] = None] /\ edges' = edges \ {c} /\ UNCHANGED <<hPeer, hUnread, hBatch, hLost>>
    BY <1>16, <2>1 DEF Hello!DeleteConnection
  <2>7. hFd'[c] = None /\ \A d \in HelloClients : d # c => hFd'[d] = hFd[d]
    BY <1>1, <2>3, <2>6 DEF HelloTypeInv
  <2>8. \A d \in HelloClients, t \in HelloEchoes : d # c /\ hFd[d] # None /\ t.fd = hFd[d] => t \in HelloEchoes'
    BY <1>1, <2>3, <2>5 DEF HelloConnInv
  <2>. HIDE DEF c
  <2>. QED  BY <1>1, <2>6, <2>7, <2>8 DEF HelloInputInv
<1>17. ASSUME NEW w \in HelloWorkers, Hello!AcceptFails(w) \/ \E v \in HelloWorkers : Hello!MapRace(w, v)
       PROVE  HelloInputInv'
  BY <1>17 DEF Hello!AcceptFails, Hello!MapRace, Hello!Lose, HelloInputInv
<1>18. CASE hLost' # "no"
  BY <1>18 DEF HelloInputInv
<1>. QED
  BY <1>4, <1>6, <1>7, <1>8, <1>9, <1>10, <1>12, <1>13, <1>14, <1>15, <1>16, <1>17, <1>18, <1>11
  DEF Hello!Next, Hello!Loop, Hello!Worker

LEMMA HelloStep == HelloInv /\ [Hello!Next]_helloVars => HelloInv'
BY HelloTypeStep, HelloWorkerStep, HelloConnStep, HelloBacklogStep, HelloInputStep DEF HelloInv

(* Input of a connection of the pool's server is never stranded, for any   *)
(* number of clients, descriptors and threads: until the server is lost - *)
(* to a race, a failed accept or SIGPIPE - an edge, an event or an echo    *)
(* stands for it, although echoes outlive connections, descriptors are     *)
(* used again and peers reset (Channel.cpp:9-18, Connection.cpp:24-48).    *)
THEOREM InputIsOnItsWay == FairSpec => []NoStrandedInput
<1>1. Init => HelloInv
  BY HelloInitially DEF Init
<1>2. HelloInv /\ [Next]_vars => HelloInv'
  <2>1. [Next]_vars => [Hello!Next]_helloVars
    BY DEF Next, vars
  <2>. QED  BY <2>1, HelloStep
<1>3. HelloInv => NoStrandedInput
  BY DEF HelloInv, HelloInputInv, NoStrandedInput, Hello!NoStrandedInput, Hello!Open, Hello!Ended, HelloEchoes
<1>. QED  BY <1>1, <1>2, <1>3, PTL DEF FairSpec

(* Counting the elements of a queue that run one kind of task. *)
Running(s, r) == {k \in DOMAIN s : s[k].run = r}
Holds(P) == IF P THEN 1 ELSE 0

LEMMA RunningFinite ==
  ASSUME NEW S, NEW s \in Seq(S), NEW r
  PROVE  IsFiniteSet(Running(s, r)) /\ Cardinality(Running(s, r)) \in Nat
<1>1. IsFiniteSet(1..Len(s))
  BY LenProperties, FS_Interval
<1>2. Running(s, r) \in SUBSET (1..Len(s))
  BY LenProperties DEF Running
<1>3. IsFiniteSet(Running(s, r))
  BY <1>1, <1>2, FS_Subset
<1>. QED  BY <1>3, FS_CardinalityType

LEMMA RunningAppend ==
  ASSUME NEW S, NEW s \in Seq(S), NEW e \in S, NEW r
  PROVE  Cardinality(Running(Append(s, e), r)) = Cardinality(Running(s, r)) + Holds(e.run = r)
<1>. DEFINE n == Len(s)
           a == Append(s, e)
<1>1. n \in Nat /\ DOMAIN s = 1..n /\ DOMAIN a = 1..(n + 1) /\ (\A k \in 1..n : a[k] = s[k]) /\ a[n + 1] = e
  BY AppendProperties, LenProperties
<1>2. IsFiniteSet(Running(s, r)) /\ Cardinality(Running(s, r)) \in Nat
  BY RunningFinite
<1>. HIDE DEF n, a
<1>3. n + 1 \notin 1..n /\ \A k : k \in 1..(n + 1) <=> k \in 1..n \/ k = n + 1
  BY <1>1
<1>4. CASE e.run = r
  <2>1. Running(a, r) = Running(s, r) \cup {n + 1} /\ n + 1 \notin Running(s, r)
    BY <1>1, <1>3, <1>4 DEF Running
  <2>2. Cardinality(Running(a, r)) = Cardinality(Running(s, r)) + 1
    BY <1>2, <2>1, FS_AddElement
  <2>. QED  BY <1>4, <2>2 DEF Holds, a
<1>5. CASE e.run # r
  <2>1. Running(a, r) = Running(s, r)
    BY <1>1, <1>3, <1>5 DEF Running
  <2>. QED  BY <1>2, <1>5, <2>1 DEF Holds, a
<1>. QED  BY <1>4, <1>5

LEMMA RunningTail ==
  ASSUME NEW S, NEW s \in Seq(S), s # <<>>, NEW r
  PROVE  Cardinality(Running(s, r)) = Cardinality(Running(Tail(s), r)) + Holds(Head(s).run = r)
<1>. DEFINE n == Len(s)
           t == Tail(s)
           shift == [k \in Running(t, r) |-> k + 1]
<1>1. /\ n \in Nat \ {0} /\ DOMAIN s = 1..n /\ t \in Seq(S) /\ DOMAIN t = 1..(n - 1)
      /\ (\A k \in 1..(n - 1) : t[k] = s[k + 1]) /\ Head(s) = s[1]
  BY HeadTailProperties, LenProperties, EmptySeq
<1>2. IsFiniteSet(Running(s, r)) /\ Cardinality(Running(s, r)) \in Nat
  BY RunningFinite
<1>3. IsFiniteSet(Running(t, r)) /\ Cardinality(Running(t, r)) \in Nat
  BY <1>1, RunningFinite
<1>. HIDE DEF n, t
<1>4. /\ \A k \in 1..(n - 1) : k \in Nat /\ k + 1 \in (1..n) \ {1}
      /\ \A k \in (1..n) \ {1} : k - 1 \in 1..(n - 1) /\ (k - 1) + 1 = k
  BY <1>1
<1>5. Running(t, r) \subseteq Nat /\ \A k \in Running(t, r) : k + 1 \in Running(s, r) \ {1}
  BY <1>1, <1>4 DEF Running
<1>6. \A k \in Running(s, r) \ {1} : k - 1 \in Running(t, r) /\ (k - 1) + 1 = k
  BY <1>1, <1>4 DEF Running
<1>7. shift \in Bijection(Running(t, r), Running(s, r) \ {1})
  <2>1. shift \in [Running(t, r) -> Running(s, r) \ {1}]
    BY <1>5
  <2>2. \A j, k \in Running(t, r) : shift[j] = shift[k] => j = k
    BY <1>5
  <2>3. \A k \in Running(s, r) \ {1} : \E j \in Running(t, r) : shift[j] = k
    BY <1>6
  <2>. QED  BY <2>1, <2>2, <2>3 DEF Bijection, Injection, Surjection, IsInjective
<1>8. Cardinality(Running(s, r) \ {1}) = Cardinality(Running(t, r))
  <2>1. ExistsBijection(Running(t, r), Running(s, r) \ {1})
    BY <1>7 DEF ExistsBijection
  <2>. QED  BY <1>3, <2>1, FS_Bijection, Zenon
<1>9. Cardinality(Running(s, r) \ {1}) = Cardinality(Running(s, r)) - Holds(1 \in Running(s, r))
  <2>1. Cardinality(Running(s, r) \ {1}) = IF 1 \in Running(s, r) THEN Cardinality(Running(s, r)) - 1
                                                                  ELSE Cardinality(Running(s, r))
    BY <1>2, FS_RemoveElement, Zenon
  <2>. QED  BY <1>2, <2>1 DEF Holds
<1>10. 1 \in Running(s, r) <=> Head(s).run = r
  BY <1>1 DEF Running
<1>. QED  BY <1>2, <1>3, <1>8, <1>9, <1>10 DEF Holds, t

(* The accepts that were handed to the pool, and the connections that wait. *)
HelloAccepting == {w \in HelloWorkers : hWpc[w] = "accept"}

HelloAcceptInv ==
  Len(hBacklog) >= Cardinality(HelloAccepting) + Cardinality(Running(tasks, "accept"))
                   + Holds("listener" \in hBatch) + Holds("listener" \in edges)

LEMMA AcceptingFinite == IsFiniteSet(HelloAccepting) /\ Cardinality(HelloAccepting) \in Nat
<1>1. IsFiniteSet(HelloAccepting)
  BY HelloAssumption, FS_Subset DEF HelloAccepting
<1>. QED  BY <1>1, FS_CardinalityType

(* A worker that moves without coming to or from an accept. *)
LEMMA AcceptingKept ==
  ASSUME HelloTypeInv, NEW w \in HelloWorkers, NEW pc, hWpc' = [hWpc EXCEPT ![w] = pc],
         hWpc[w] # "accept", pc # "accept"
  PROVE  HelloAccepting' = HelloAccepting
<1>1. hWpc'[w] = pc /\ \A v \in HelloWorkers \ {w} : hWpc'[v] = hWpc[v]
  BY DEF HelloTypeInv
<1>. QED  BY <1>1 DEF HelloAccepting

LEMMA HelloAcceptStep ==
  HelloTypeInv /\ HelloWorkerInv /\ HelloConnInv /\ HelloBacklogInv /\ HelloAcceptInv
    /\ [Hello!Next]_helloVars => HelloAcceptInv'
<1>. SUFFICES ASSUME HelloTypeInv, HelloWorkerInv, HelloConnInv, HelloBacklogInv, HelloAcceptInv,
                     [Hello!Next]_helloVars
              PROVE  HelloAcceptInv'
  OBVIOUS
<1>. USE DEF Hello!peerVars, Hello!connVars
<1>. DEFINE n == Len(hBacklog)
           a == Cardinality(HelloAccepting)
           q == Cardinality(Running(tasks, "accept"))
           b == Holds("listener" \in hBatch)
           e == Holds("listener" \in edges)
<1>0. n \in Nat /\ a \in Nat /\ q \in Nat /\ b \in {0, 1} /\ e \in {0, 1} /\ n >= a + q + b + e
  <2>1. n \in Nat
    BY LenProperties DEF HelloTypeInv
  <2>2. q \in Nat
    BY RunningFinite DEF HelloTypeInv
  <2>. QED  BY <2>1, <2>2, AcceptingFinite DEF HelloAcceptInv, Holds
<1>1. ASSUME UNCHANGED hBacklog, HelloAccepting' = HelloAccepting, UNCHANGED <<tasks, hBatch>>,
             "listener" \in edges' <=> "listener" \in edges
      PROVE  HelloAcceptInv'
  BY <1>1 DEF HelloAcceptInv, Holds
<1>2. UNCHANGED hWpc => HelloAccepting' = HelloAccepting
  BY DEF HelloAccepting
<1>3. CASE Hello!Environment
  <2>1. UNCHANGED <<tasks, hBatch, hWpc>>
    BY <1>3 DEF Hello!Environment
  <2>2. ASSUME NEW c \in HelloClients, Hello!Connect(c) PROVE HelloAcceptInv'
    <3>1. Len(hBacklog') = n + 1
      BY <2>2, AppendProperties DEF Hello!Connect, HelloTypeInv
    <3>2. Holds("listener" \in edges') \in {0, 1}
      BY DEF Holds
    <3>3. HelloAcceptInv' <=> n + 1 >= a + q + b + Holds("listener" \in edges')
      BY <1>2, <2>1, <3>1 DEF HelloAcceptInv
    <3>. HIDE DEF n, a, q, b, e
    <3>. QED  BY <1>0, <3>2, <3>3
  <2>3. ASSUME Hello!Type \/ \E c \in HelloClients : Hello!Say(c) \/ Hello!Shut(c) \/ Hello!Reset(c)
        PROVE  HelloAcceptInv'
    <3>1. UNCHANGED hBacklog /\ ("listener" \in edges' <=> "listener" \in edges)
      BY <2>3, HelloAssumption DEF Hello!Type, Hello!Say, Hello!Shut, Hello!Reset, Hello!Stdin
    <3>. QED  BY <1>1, <1>2, <2>1, <3>1
  <2>. QED  BY <1>3, <2>2, <2>3 DEF Hello!Environment
<1>4. CASE Hello!GetActiveChannels
  <2>1. UNCHANGED <<hBacklog, tasks, hWpc>> /\ hBatch = {} /\ hBatch' = edges /\ edges' = {}
    BY <1>4 DEF Hello!GetActiveChannels
  <2>2. b = 0 /\ Holds("listener" \in hBatch') = e /\ Holds("listener" \in edges') = 0
    BY <2>1 DEF Holds
  <2>3. HelloAcceptInv' <=> n >= a + q + e + 0
    BY <1>2, <2>1, <2>2 DEF HelloAcceptInv
  <2>. HIDE DEF n, a, q, b, e
  <2>. QED  BY <1>0, <2>2, <2>3
<1>5. ASSUME NEW ch \in HelloClients \cup {Hello!Listener, Hello!Stdin}, Hello!HandleEvent(ch)
      PROVE  HelloAcceptInv'
  <2>1. UNCHANGED <<hBacklog, edges, hWpc>> /\ ch \in hBatch /\ hBatch' = hBatch \ {ch}
    BY <1>5 DEF Hello!HandleEvent
  <2>2. CASE ch \in deleted
    <3>1. "listener" \in hBatch' <=> "listener" \in hBatch
      BY <2>1, <2>2, HelloAssumption DEF HelloTypeInv
    <3>2. UNCHANGED tasks
      BY <1>5, <2>2 DEF Hello!HandleEvent
    <3>. QED  BY <1>2, <2>1, <3>1, <3>2 DEF HelloAcceptInv, Holds
  <2>3. CASE ch \notin deleted
    <3>. DEFINE cb == Hello!Callback(ch)
    <3>1. cb \in HelloTask(HelloRuns) /\ (cb.run = "accept" <=> ch = "listener")
      BY HelloAssumption DEF Hello!Callback, Hello!Listener, Hello!Stdin, Hello!Accept, Hello!EchoAll,
         HelloTask, HelloRuns, HelloTypeInv
    <3>2. tasks' = Append(tasks, cb)
      BY <1>5, <2>3 DEF Hello!HandleEvent
    <3>. HIDE DEF cb
    <3>3. Cardinality(Running(Append(tasks, cb), "accept")) = q + Holds(cb.run = "accept")
      BY <3>1, RunningAppend DEF HelloTypeInv
    <3>4. Holds(cb.run = "accept") + Holds("listener" \in hBatch') = b
      BY <2>1, <3>1 DEF Holds
    <3>5. HelloAcceptInv' <=> n >= a + (q + Holds(cb.run = "accept")) + Holds("listener" \in hBatch') + e
      BY <1>2, <2>1, <3>2, <3>3 DEF HelloAcceptInv
    <3>6. Holds(cb.run = "accept") \in {0, 1} /\ Holds("listener" \in hBatch') \in {0, 1}
      BY DEF Holds
    <3>. HIDE DEF n, a, q, b, e
    <3>. QED  BY <1>0, <3>4, <3>5, <3>6
  <2>. QED  BY <2>2, <2>3
<1>6. ASSUME NEW w \in HelloWorkers, Hello!Take(w) PROVE HelloAcceptInv'
  <2>1. UNCHANGED <<hBacklog, edges, hBatch>> /\ tasks' = Tail(tasks) /\ tasks # <<>>
        /\ hWpc' = [hWpc EXCEPT ![w] = Head(tasks).run] /\ hWpc[w] = "idle"
    BY <1>6 DEF Hello!Take
  <2>2. q = Cardinality(Running(Tail(tasks), "accept")) + Holds(Head(tasks).run = "accept")
    BY <2>1, RunningTail DEF HelloTypeInv
  <2>3. Cardinality(Running(Tail(tasks), "accept")) \in Nat
    BY <2>1, HeadTailProperties, RunningFinite DEF HelloTypeInv
  <2>4. hWpc'[w] = Head(tasks).run /\ \A v \in HelloWorkers \ {w} : hWpc'[v] = hWpc[v]
    BY <2>1 DEF HelloTypeInv
  <2>5. Cardinality(HelloAccepting') = a + Holds(Head(tasks).run = "accept")
    <3>1. CASE Head(tasks).run = "accept"
      <4>1. HelloAccepting' = HelloAccepting \cup {w} /\ w \notin HelloAccepting
        BY <2>1, <2>4, <3>1 DEF HelloAccepting
      <4>2. Cardinality(HelloAccepting') = a + 1
        BY <4>1, AcceptingFinite, FS_AddElement
      <4>. QED  BY <3>1, <4>2 DEF Holds
    <3>2. CASE Head(tasks).run # "accept"
      <4>1. HelloAccepting' = HelloAccepting
        BY <2>1, <2>4, <3>2 DEF HelloAccepting
      <4>. QED  BY <3>2, <4>1, AcceptingFinite DEF Holds
    <3>. QED  BY <3>1, <3>2
  <2>6. HelloAcceptInv' <=> n >= (a + Holds(Head(tasks).run = "accept")) + Cardinality(Running(Tail(tasks), "accept")) + b + e
    BY <2>1, <2>5 DEF HelloAcceptInv
  <2>7. Holds(Head(tasks).run = "accept") \in {0, 1}
    BY DEF Holds
  <2>. HIDE DEF n, a, q, b, e
  <2>. QED  BY <1>0, <2>2, <2>3, <2>6, <2>7
<1>7. ASSUME NEW w \in HelloWorkers, Hello!AcceptConnection(w) PROVE HelloAcceptInv'
  <2>1. hWpc[w] = "accept" /\ hWpc' = [hWpc EXCEPT ![w] = "insert"] /\ hBacklog' = Tail(hBacklog)
        /\ hBacklog # <<>> /\ UNCHANGED <<tasks, hBatch>> /\ edges' \in {edges, edges \cup {Head(hBacklog)}}
    BY <1>7 DEF Hello!AcceptConnection, Hello!Construct, Hello!Goto
  <2>2. Head(hBacklog) \in HelloClients /\ Len(hBacklog') = n - 1
    BY <2>1, HeadTailProperties DEF HelloTypeInv
  <2>3. "listener" \in edges' <=> "listener" \in edges
    BY <2>1, <2>2, HelloAssumption
  <2>4. hWpc'[w] = "insert" /\ \A v \in HelloWorkers \ {w} : hWpc'[v] = hWpc[v]
    BY <2>1 DEF HelloTypeInv
  <2>5. HelloAccepting' = HelloAccepting \ {w} /\ w \in HelloAccepting
    BY <2>1, <2>4 DEF HelloAccepting
  <2>6. Cardinality(HelloAccepting') = a - 1
    BY <2>5, AcceptingFinite, FS_RemoveElement
  <2>7. HelloAcceptInv' <=> n - 1 >= (a - 1) + q + b + e
    BY <2>1, <2>2, <2>3, <2>6 DEF HelloAcceptInv, Holds
  <2>. HIDE DEF n, a, q, b, e
  <2>. QED  BY <1>0, <2>7
<1>8. ASSUME NEW w \in HelloWorkers, Hello!Insert(w) \/ Hello!SetCallback(w) \/ Hello!EchoLine(w)
      PROVE  HelloAcceptInv'
  <2>1. hWpc' = [hWpc EXCEPT ![w] = "setCallback"] \/ hWpc' = [hWpc EXCEPT ![w] = "idle"]
    BY <1>8 DEF Hello!Insert, Hello!SetCallback, Hello!EchoLine, Hello!Finish, Hello!Goto
  <2>2. hWpc[w] # "accept" /\ UNCHANGED <<hBacklog, edges, tasks, hBatch>>
    BY <1>8 DEF Hello!Insert, Hello!SetCallback, Hello!EchoLine
  <2>. QED  BY <1>1, <2>1, <2>2, AcceptingKept
<1>9. ASSUME NEW w \in HelloWorkers, NEW c \in HelloClients,
             Hello!ReadData(w, c) \/ Hello!ReadNothing(w, c) \/ Hello!ReadError(w, c) \/ Hello!ReadEnd(w, c)
      PROVE  HelloAcceptInv'
  <2>1. UNCHANGED hWpc \/ hWpc' = [hWpc EXCEPT ![w] = "idle"] \/ hWpc' = [hWpc EXCEPT ![w] = "delete"]
    BY <1>9 DEF Hello!ReadData, Hello!ReadNothing, Hello!ReadError, Hello!ReadEnd, Hello!Finish, Hello!Goto
  <2>2. hWpc[w] # "accept" /\ UNCHANGED <<hBacklog, edges, tasks, hBatch>>
    BY <1>9 DEF Hello!ReadData, Hello!ReadNothing, Hello!ReadError, Hello!ReadEnd, Hello!At
  <2>. QED  BY <1>1, <1>2, <2>1, <2>2, AcceptingKept
<1>10. ASSUME NEW w \in HelloWorkers, Hello!DeleteConnection(w) PROVE HelloAcceptInv'
  <2>1. UNCHANGED hWpc \/ hWpc' = [hWpc EXCEPT ![w] = "idle"]
    BY <1>10 DEF Hello!DeleteConnection, Hello!Finish, Hello!Goto
  <2>2. hWpc[w] # "accept" /\ UNCHANGED <<hBacklog, tasks, hBatch>>
    BY <1>10 DEF Hello!DeleteConnection
  <2>3. wtask[w].conn \in HelloClients
    BY <1>10 DEF Hello!DeleteConnection, HelloWorkerInv, HelloConnInv, HelloEchoes, Hello!Tasks
  <2>4. "listener" \in edges' <=> "listener" \in edges
    BY <1>10, <2>3, HelloAssumption DEF Hello!DeleteConnection
  <2>. QED  BY <1>1, <1>2, <2>1, <2>2, <2>4, AcceptingKept
<1>11. ASSUME NEW w \in HelloWorkers, Hello!AcceptFails(w) \/ \E v \in HelloWorkers : Hello!MapRace(w, v)
       PROVE  HelloAcceptInv'
  BY <1>1, <1>2, <1>11 DEF Hello!AcceptFails, Hello!MapRace
<1>12. CASE UNCHANGED helloVars
  BY <1>1, <1>2, <1>12 DEF helloVars
<1>. QED
  BY <1>3, <1>4, <1>5, <1>6, <1>7, <1>8, <1>9, <1>10, <1>11, <1>12
  DEF Hello!Next, Hello!Loop, Hello!Worker

LEMMA HelloAcceptInitially == Hello!Init => HelloAcceptInv
<1>. SUFFICES ASSUME Hello!Init PROVE HelloAcceptInv
  OBVIOUS
<1>1. HelloAccepting = {} /\ Running(tasks, "accept") = {} /\ Len(hBacklog) = 0
  BY EmptySeq DEF Hello!Init, HelloAccepting, Running
<1>2. Cardinality(HelloAccepting) = 0 /\ Cardinality(Running(tasks, "accept")) = 0
  BY <1>1, FS_EmptySet
<1>3. Holds("listener" \in hBatch) = 0 /\ Holds("listener" \in edges) = 0
  BY DEF Hello!Init, Holds
<1>. QED  BY <1>1, <1>2, <1>3 DEF HelloAcceptInv

(* Whatever the number of threads and clients: every accept that was       *)
(* handed to the pool finds a connection, so that accept never throws for  *)
(* want of one (ServerSocket.cpp:54-59, ThreadPool.cpp:27, Acceptor.cpp:   *)
(* 26-35).                                                                 *)
THEOREM AcceptNeverThrows == FairSpec => []AcceptFinds
<1>1. Init => HelloInv /\ HelloAcceptInv
  BY HelloInitially, HelloAcceptInitially DEF Init
<1>2. HelloInv /\ HelloAcceptInv /\ [Next]_vars => HelloInv' /\ HelloAcceptInv'
  <2>1. [Next]_vars => [Hello!Next]_helloVars
    BY DEF Next, vars
  <2>. QED  BY <2>1, HelloStep, HelloAcceptStep DEF HelloInv
<1>3. HelloAcceptInv => AcceptFinds
  <2>1. ASSUME NEW S PROVE Hello!Cardinality(S) = Cardinality(S)
    BY DEF Hello!Cardinality, Cardinality
  <2>2. Hello!Cardinality(HelloAccepting) = Cardinality(HelloAccepting)
    BY <2>1
  <2>3. Hello!Cardinality(Running(tasks, "accept")) = Cardinality(Running(tasks, "accept"))
    BY <2>1
  <2>. QED
    BY <2>2, <2>3 DEF HelloAcceptInv, AcceptFinds, Hello!AcceptFinds, HelloAccepting, Running, Holds,
       Hello!Listener
<1>. QED  BY <1>1, <1>2, <1>3, PTL DEF FairSpec

-----------------------------------------------------------------------------
(* The chat room: the array stays in step with the connections while it is *)
(* walked and changed, the pointers into other clients' buffers stay good, *)
(* and who is written to had not left when poll looked.                    *)
ChatEvents == {"IN", "OUT", "RDHUP", "ERR"}
PollFd     == [fd : ChatFDs \cup {None}, events : SUBSET ChatEvents, revents : SUBSET ChatEvents]
ClientData == [write_buf : ChatFDs \cup {None}, buf : ChatClients \cup {None}]

ChatTypeInv ==
  /\ cPeer \in [ChatClients -> {"new", "open", "shut", "gone"}]
  /\ cErr \in [ChatClients -> {"no", "reset", "pipe", "seen"}]
  /\ cBacklog \subseteq ChatClients
  /\ cFd \in [ChatClients -> ChatFDs \cup {None}]
  /\ fds \in [1..USER_LIMIT -> PollFd]
  /\ users \in [ChatFDs -> ClientData]
  /\ user_counter \in 0..USER_LIMIT
  /\ i \in Nat /\ cPc \in {"poll", "walk"}
  /\ ready \subseteq ChatClients
  /\ owed \in [ChatClients -> ChatClients \cup {None}]

(* A descriptor has one client, and the entries are the connected clients. *)
ChatEntriesInv ==
  /\ \A c, d \in ChatClients : cFd[c] = cFd[d] /\ cFd[c] # None => c = d
  /\ \A c \in ChatClients : cFd[c] # None => cPeer[c] # "new" /\ c \notin cBacklog
  /\ \A c \in cBacklog : cPeer[c] # "new"
  /\ \A k, n \in 1..user_counter : fds[k].fd = fds[n].fd => k = n
  /\ \A k \in 1..user_counter : fds[k].fd # None /\ \E c \in ChatClients : cFd[c] = fds[k].fd
  /\ \A c \in ChatClients : cFd[c] # None => \E k \in 1..user_counter : fds[k].fd = cFd[c]

(* What an entry is polled for, and whose buffer its client points to. *)
Listens == {"IN", "RDHUP"}
Writes  == {"OUT", "RDHUP"}

ChatToldInv ==
  /\ \A k \in 1..user_counter : fds[k].events \in {Listens, Writes}
  /\ \A k \in 1..user_counter, c \in ChatClients :
       cFd[c] = fds[k].fd => (fds[k].events = Writes <=> owed[c] # None)
  /\ \A c \in ChatClients : cFd[c] = None => owed[c] = None
  /\ \A c \in ChatClients : owed[c] # None => cPeer[owed[c]] # "new" /\ owed[c] \notin cBacklog
  /\ \A c \in ChatClients : owed[c] # None =>
       /\ users[cFd[c]].write_buf \notin {None, cFd[c]}
       /\ cFd[owed[c]] # None =>
            users[cFd[c]].write_buf = cFd[owed[c]] /\ users[cFd[owed[c]]].buf = owed[c]

(* A connection with an error has been left by its peer; an entry still to *)
(* be handled that reported neither has no error that was seen, and if its *)
(* client has shut down, it did so since the poll.                         *)
ChatErrorInv ==
  /\ Chat!KilledOnlyUnseen
  /\ \A c \in ChatClients : cErr[c] # "no" => cPeer[c] \in {"shut", "gone"}
  /\ cPc = "walk" =>
       \A k \in 1..user_counter, c \in ChatClients :
         /\ k >= i /\ cFd[c] = fds[k].fd
         /\ "OUT" \in fds[k].revents /\ fds[k].revents \cap {"ERR", "RDHUP"} = {}
         => cErr[c] # "seen" /\ (cPeer[c] = "shut" \/ cErr[c] = "pipe" => c \in cLate)

(* Who poll reported is still ahead of the walk. *)
ChatReadyInv ==
  /\ cPc = "poll" => ready = {}
  /\ \A c \in ready : \E k \in 1..user_counter :
       k >= i /\ fds[k].fd = cFd[c] /\ fds[k].revents # {}

ChatInv == ChatTypeInv /\ ChatEntriesInv /\ ChatToldInv /\ ChatErrorInv /\ ChatReadyInv

(* An entry has one client. *)
LEMMA EntryClient ==
  ASSUME ChatEntriesInv, NEW k \in 1..user_counter
  PROVE  /\ Chat!ClientOf(fds[k].fd) \in ChatClients
         /\ cFd[Chat!ClientOf(fds[k].fd)] = fds[k].fd /\ fds[k].fd # None
         /\ \A c \in ChatClients : cFd[c] = fds[k].fd => c = Chat!ClientOf(fds[k].fd)
<1>1. PICK c \in ChatClients : cFd[c] = fds[k].fd
  BY DEF ChatEntriesInv
<1>2. fds[k].fd # None
  BY DEF ChatEntriesInv
<1>3. Chat!ClientOf(fds[k].fd) \in ChatClients /\ cFd[Chat!ClientOf(fds[k].fd)] = fds[k].fd
  BY <1>1 DEF Chat!ClientOf
<1>. QED  BY <1>2, <1>3 DEF ChatEntriesInv

LEMMA EntryType ==
  ASSUME ChatTypeInv, NEW k \in 1..user_counter
  PROVE  k \in 1..USER_LIMIT /\ fds[k] \in PollFd /\ fds[k].fd \in ChatFDs \cup {None}
         /\ fds[k].events \subseteq ChatEvents /\ fds[k].revents \subseteq ChatEvents
<1>1. k \in 1..USER_LIMIT
  BY ChatAssumption DEF ChatTypeInv
<1>2. fds[k] \in PollFd
  BY <1>1 DEF ChatTypeInv
<1>. QED  BY <1>1, <1>2 DEF PollFd

LEMMA ChatInitially == Chat!Init => ChatInv
<1>. SUFFICES ASSUME Chat!Init PROVE ChatInv
  OBVIOUS
<1>1. ChatTypeInv
  <2>1. Chat!Unused \in PollFd
    BY DEF Chat!Unused, PollFd
  <2>. QED  BY <2>1, ChatAssumption DEF Chat!Init, ChatTypeInv, ClientData
<1>2. \A k : k \notin 1..user_counter
  BY DEF Chat!Init
<1>. QED
  BY <1>1, <1>2 DEF Chat!Init, ChatInv, ChatEntriesInv, ChatToldInv, ChatErrorInv, ChatReadyInv,
                    Chat!KilledOnlyUnseen

-----------------------------------------------------------------------------
(* What the larger actions do, entry by entry. *)
LEMMA PollFacts ==
  ASSUME ChatTypeInv, ChatEntriesInv, Chat!Poll
  PROVE  /\ UNCHANGED <<cPeer, cErr, cBacklog, cFd, users, user_counter, cKiller, owed>>
         /\ fds' \in [1..USER_LIMIT -> PollFd] /\ i' = 0 /\ cPc' = "walk"
         /\ \A k \in 1..user_counter : fds'[k].fd = fds[k].fd /\ fds'[k].events = fds[k].events
         /\ ready' = {Chat!ClientOf(fds[k].fd) : k \in {n \in 1..user_counter : fds'[n].revents # {}}}
         /\ \A k \in 1..user_counter :
              LET c == Chat!ClientOf(fds[k].fd)
              IN  /\ cErr[c] \in {"reset", "pipe"} => "ERR" \in fds'[k].revents
                  /\ Chat!HasLeft(c) /\ "RDHUP" \in fds[k].events => "RDHUP" \in fds'[k].revents
<1>. USE DEF Chat!kernelVars, Chat!dataVars
<1>1. UNCHANGED <<cPeer, cErr, cBacklog, cFd, users, user_counter, cKiller, owed>> /\ i' = 0 /\ cPc' = "walk"
  BY DEF Chat!Poll
<1>2. PICK writable \in SUBSET {c \in ChatClients : owed[c] # None} :
        LET polled == [k \in 1..USER_LIMIT |->
                         IF k <= user_counter
                           THEN [fds[k] EXCEPT !.revents = Chat!Revents(fds[k], writable)]
                           ELSE Chat!Unused]
        IN  /\ fds' = polled
            /\ ready' = {Chat!ClientOf(polled[k].fd) : k \in {n \in 1..user_counter : polled[n].revents # {}}}
  BY Zenon DEF Chat!Poll
<1>3. ready' = {Chat!ClientOf(fds'[k].fd) : k \in {n \in 1..user_counter : fds'[n].revents # {}}}
  BY <1>2
<1>4. \A k \in 1..USER_LIMIT : fds'[k] = IF k <= user_counter
                                 THEN [fds[k] EXCEPT !.revents = Chat!Revents(fds[k], writable)]
                                 ELSE Chat!Unused
  BY <1>2
<1>5. \A e \in PollFd : Chat!Revents(e, writable) \in SUBSET ChatEvents
  BY DEF Chat!Revents, ChatEvents
<1>6. ASSUME NEW k \in 1..user_counter
      PROVE  /\ fds'[k].fd = fds[k].fd /\ fds'[k].events = fds[k].events
             /\ fds'[k].revents = Chat!Revents(fds[k], writable)
  <2>1. k \in 1..USER_LIMIT /\ fds[k] \in PollFd
    BY EntryType
  <2>2. fds'[k] = [fds[k] EXCEPT !.revents = Chat!Revents(fds[k], writable)]
    <3>1. k <= user_counter
      BY ChatAssumption DEF ChatTypeInv
    <3>. QED  BY <1>4, <2>1, <3>1, Zenon
  <2>. HIDE DEF Chat!Revents
  <2>. QED  BY <2>1, <2>2 DEF PollFd
<1>7. fds' \in [1..USER_LIMIT -> PollFd]
  <2>1. Chat!Unused \in PollFd
    BY DEF Chat!Unused, PollFd
  <2>2. ASSUME NEW k \in 1..USER_LIMIT PROVE [fds[k] EXCEPT !.revents = Chat!Revents(fds[k], writable)] \in PollFd
    <3>1. fds[k] \in PollFd
      BY DEF ChatTypeInv
    <3>2. Chat!Revents(fds[k], writable) \in SUBSET ChatEvents
      BY <1>5, <3>1
    <3>. HIDE DEF Chat!Revents
    <3>. QED  BY <3>1, <3>2 DEF PollFd
  <2>. QED  BY <1>2, <2>1, <2>2
<1>8. ready' = {Chat!ClientOf(fds[k].fd) : k \in {n \in 1..user_counter : fds'[n].revents # {}}}
  BY <1>3, <1>6
<1>9. ASSUME NEW k \in 1..user_counter
      PROVE  LET c == Chat!ClientOf(fds[k].fd)
             IN  /\ cErr[c] \in {"reset", "pipe"} => "ERR" \in fds'[k].revents
                 /\ Chat!HasLeft(c) /\ "RDHUP" \in fds[k].events => "RDHUP" \in fds'[k].revents
  <2>1. fds'[k].revents = Chat!Revents(fds[k], writable)
    BY <1>6
  <2>. QED  BY <2>1 DEF Chat!Revents
<1>. QED  BY <1>1, <1>6, <1>7, <1>8, <1>9

LEMMA AcceptFacts ==
  ASSUME ChatTypeInv, ChatEntriesInv, NEW c \in ChatClients, Chat!Accept(c)
  PROVE  \E f \in ChatFDs :
           /\ \A d \in ChatClients : cFd[d] # f
           /\ cFd' = [cFd EXCEPT ![c] = f]
           /\ user_counter < USER_LIMIT /\ user_counter' = user_counter + 1
           /\ fds' \in [1..USER_LIMIT -> PollFd]
           /\ fds'[user_counter + 1] = [fd |-> f, events |-> Listens, revents |-> {}]
           /\ \A k \in 1..user_counter : fds'[k] = fds[k]
<1>1. PICK f \in ChatFDs :
        /\ \A d \in ChatClients : cFd[d] # f
        /\ cFd' = [cFd EXCEPT ![c] = f]
        /\ fds' = [fds EXCEPT ![user_counter + 1] = [fd |-> f, events |-> Listens, revents |-> {}]]
  BY DEF Chat!Accept, Listens
<1>2. user_counter < USER_LIMIT /\ user_counter' = user_counter + 1
  BY DEF Chat!Accept
<1>3. [fd |-> f, events |-> Listens, revents |-> {}] \in PollFd
  BY DEF PollFd, Listens, ChatEvents
<1>4. user_counter + 1 \in 1..USER_LIMIT /\ \A k \in 1..user_counter : k # user_counter + 1 /\ k \in 1..USER_LIMIT
  BY <1>2, ChatAssumption DEF ChatTypeInv
<1>5. fds' \in [1..USER_LIMIT -> PollFd]
  BY <1>1, <1>3 DEF ChatTypeInv
<1>6. fds'[user_counter + 1] = [fd |-> f, events |-> Listens, revents |-> {}]
  BY <1>1, <1>4 DEF ChatTypeInv
<1>7. \A k \in 1..user_counter : fds'[k] = fds[k]
  BY <1>1, <1>4 DEF ChatTypeInv
<1>. QED  BY <1>1, <1>2, <1>5, <1>6, <1>7

(* The entry under the walk. *)
LEMMA WalkFacts ==
  ASSUME ChatTypeInv, ChatEntriesInv, i \in 1..user_counter
  PROVE  /\ Chat!At \in ChatClients /\ cFd[Chat!At] = fds[i].fd
         /\ fds[i].fd \in ChatFDs /\ fds[i].fd # None /\ i \in 1..USER_LIMIT
         /\ \A k \in 1..user_counter, c \in ChatClients : cFd[c] = fds[k].fd => (c = Chat!At <=> k = i)
<1>1. Chat!At \in ChatClients /\ cFd[Chat!At] = fds[i].fd /\ fds[i].fd # None
  BY EntryClient DEF Chat!At, Chat!Entry
<1>2. i \in 1..USER_LIMIT /\ fds[i].fd \in ChatFDs \cup {None}
  BY EntryType
<1>3. \A k \in 1..user_counter, c \in ChatClients : cFd[c] = fds[k].fd => (c = Chat!At <=> k = i)
  BY <1>1 DEF ChatEntriesInv
<1>. QED  BY <1>1, <1>2, <1>3

(* Where an entry comes from after a removal. *)
Origin(k) == IF k = i THEN user_counter ELSE k

LEMMA RemoveFacts ==
  ASSUME ChatTypeInv, ChatEntriesInv, i \in 1..user_counter, Chat!Remove
  PROVE  /\ user_counter' = user_counter - 1 /\ fds' \in [1..USER_LIMIT -> PollFd]
         /\ users' \in [ChatFDs -> ClientData]
         /\ \A f \in ChatFDs : f # fds[i].fd => users'[f] = users[f]
         /\ \A k \in 1..user_counter' : fds'[k] = fds[Origin(k)] /\ Origin(k) \in (1..user_counter) \ {i}
         /\ \A k \in (1..user_counter) \ {i} : \E n \in 1..user_counter' : Origin(n) = k /\ (k >= i => n >= i)
         /\ \A k, n \in 1..user_counter' : Origin(k) = Origin(n) => k = n
         /\ \A k \in 1..user_counter' : k >= i => Origin(k) >= i
         /\ cFd'[Chat!At] = None /\ owed'[Chat!At] = None /\ cErr'[Chat!At] = "no" /\ cPeer'[Chat!At] = "gone"
         /\ \A c \in ChatClients \ {Chat!At} :
              cFd'[c] = cFd[c] /\ owed'[c] = owed[c] /\ cErr'[c] = cErr[c] /\ cPeer'[c] = cPeer[c]
<1>0. user_counter \in Nat /\ user_counter \in 1..USER_LIMIT /\ i \in Nat /\ i \in 1..USER_LIMIT
  BY ChatAssumption DEF ChatTypeInv
<1>1. user_counter' = user_counter - 1
  BY DEF Chat!Remove
<1>2. fds' = [[fds EXCEPT ![i] = fds[user_counter]] EXCEPT ![user_counter] = Chat!Unused]
  BY DEF Chat!Remove
<1>3. fds' \in [1..USER_LIMIT -> PollFd]
  <2>1. Chat!Unused \in PollFd /\ fds[user_counter] \in PollFd
    BY <1>0 DEF Chat!Unused, PollFd, ChatTypeInv
  <2>. QED  BY <1>2, <2>1 DEF ChatTypeInv
<1>4. \A k \in 1..(user_counter - 1) : fds'[k] = fds[Origin(k)] /\ Origin(k) \in (1..user_counter) \ {i}
  <2>. SUFFICES ASSUME NEW k \in 1..(user_counter - 1)
                PROVE  fds'[k] = fds[Origin(k)] /\ Origin(k) \in (1..user_counter) \ {i}
    OBVIOUS
  <2>1. k \in 1..USER_LIMIT /\ k # user_counter /\ k \in 1..user_counter
    BY <1>0, ChatAssumption
  <2>2. fds'[k] = [fds EXCEPT ![i] = fds[user_counter]][k]
    BY <1>0, <1>2, <2>1 DEF ChatTypeInv
  <2>3. fds'[k] = IF k = i THEN fds[user_counter] ELSE fds[k]
    BY <1>0, <2>1, <2>2 DEF ChatTypeInv
  <2>. QED  BY <1>0, <2>1, <2>3 DEF Origin
<1>5. \A k \in (1..user_counter) \ {i} :
        \E n \in 1..(user_counter - 1) : Origin(n) = k /\ (k >= i => n >= i)
  <2>. SUFFICES ASSUME NEW k \in (1..user_counter) \ {i}
                PROVE  \E n \in 1..(user_counter - 1) : Origin(n) = k /\ (k >= i => n >= i)
    OBVIOUS
  <2>1. CASE k = user_counter
    <3>1. i \in 1..(user_counter - 1) /\ Origin(i) = k /\ i >= i
      BY <1>0, <2>1 DEF Origin
    <3>. QED  BY <3>1
  <2>2. CASE k # user_counter
    <3>1. k \in 1..(user_counter - 1) /\ Origin(k) = k
      BY <1>0, <2>2 DEF Origin
    <3>. QED  BY <3>1
  <2>. QED  BY <2>1, <2>2
<1>6. \A k, n \in 1..(user_counter - 1) : Origin(k) = Origin(n) => k = n
  BY <1>0 DEF Origin
<1>7. \A k \in 1..(user_counter - 1) : k >= i => Origin(k) >= i
  BY <1>0 DEF Origin
<1>8. /\ users' \in [ChatFDs -> ClientData]
      /\ \A f \in ChatFDs : f # fds[i].fd => users'[f] = users[f]
  <2>1. users' = [users EXCEPT ![fds[i].fd] = users[fds[user_counter].fd]]
    BY DEF Chat!Remove, Chat!Entry
  <2>2. user_counter \in 1..user_counter
    BY <1>0
  <2>3. fds[user_counter].fd \in ChatFDs
    BY <2>2, EntryType, EntryClient
  <2>4. users[fds[user_counter].fd] \in ClientData
    BY <2>3 DEF ChatTypeInv
  <2>. QED  BY <2>1, <2>4 DEF ChatTypeInv
<1>9. /\ cFd'[Chat!At] = None /\ owed'[Chat!At] = None /\ cErr'[Chat!At] = "no" /\ cPeer'[Chat!At] = "gone"
      /\ \A c \in ChatClients \ {Chat!At} :
           cFd'[c] = cFd[c] /\ owed'[c] = owed[c] /\ cErr'[c] = cErr[c] /\ cPeer'[c] = cPeer[c]
  <2>1. Chat!At \in ChatClients
    BY WalkFacts
  <2>. HIDE DEF Chat!At
  <2>. QED  BY <2>1 DEF Chat!Remove, Chat!CloseAt, ChatTypeInv
<1>. HIDE DEF Origin, Chat!At
<1>. QED  BY <1>1, <1>3, <1>4, <1>5, <1>6, <1>7, <1>8, <1>9

LEMMA AnnounceFacts ==
  ASSUME ChatTypeInv, ChatEntriesInv, i \in 1..user_counter, Chat!Announce
  PROVE  /\ fds' \in [1..USER_LIMIT -> PollFd] /\ users' \in [ChatFDs -> ClientData]
         /\ owed' \in [ChatClients -> ChatClients \cup {None}]
         /\ fds'[i] = fds[i]
         /\ \A k \in (1..user_counter) \ {i} :
              /\ fds'[k].fd = fds[k].fd /\ fds'[k].revents = fds[k].revents
              /\ fds'[k].events = (fds[k].events \ {"IN"}) \cup {"OUT"}
         /\ users'[fds[i].fd].buf = Chat!At /\ users'[fds[i].fd].write_buf = users[fds[i].fd].write_buf
         /\ \A f \in ChatFDs \ {fds[i].fd} : users'[f].buf = users[f].buf
         /\ \A c \in ChatClients : cFd[c] # None /\ c # Chat!At =>
              owed'[c] = Chat!At /\ users'[cFd[c]].write_buf = fds[i].fd
         /\ \A c \in ChatClients : cFd[c] = None \/ c = Chat!At => owed'[c] = owed[c]
<1>. DEFINE others == {k \in 1..user_counter : fds[k].fd # fds[i].fd}
           text == [users EXCEPT ![fds[i].fd].buf = Chat!At]
<1>1. /\ fds' = [k \in 1..USER_LIMIT |->
                   IF k \in others
                     THEN [fds[k] EXCEPT !.events = (@ \ {"IN"}) \cup {"OUT"}]
                     ELSE fds[k]]
      /\ users' = [f \in ChatFDs |->
                     IF \E k \in others : fds[k].fd = f
                       THEN [text[f] EXCEPT !.write_buf = fds[i].fd] ELSE text[f]]
      /\ owed' = [c \in ChatClients |->
                    IF \E k \in others : fds[k].fd = cFd[c] THEN Chat!At ELSE owed[c]]
  BY DEF Chat!Announce, Chat!Entry
<1>2. /\ Chat!At \in ChatClients /\ cFd[Chat!At] = fds[i].fd
      /\ fds[i].fd \in ChatFDs /\ fds[i].fd # None /\ i \in 1..USER_LIMIT
  BY WalkFacts
<1>3. others = (1..user_counter) \ {i}
  BY DEF ChatEntriesInv
<1>4. \A k \in 1..USER_LIMIT : fds[k] \in PollFd
  BY DEF ChatTypeInv
<1>. HIDE DEF Chat!At, others
<1>5. fds' \in [1..USER_LIMIT -> PollFd]
  <2>1. ASSUME NEW k \in 1..USER_LIMIT
        PROVE  [fds[k] EXCEPT !.events = (@ \ {"IN"}) \cup {"OUT"}] \in PollFd
    BY <1>4 DEF PollFd, ChatEvents
  <2>. QED  BY <1>1, <1>4, <2>1
<1>6. fds'[i] = fds[i]
  BY <1>1, <1>2, <1>3
<1>7. ASSUME NEW k \in (1..user_counter) \ {i}
      PROVE  /\ fds'[k].fd = fds[k].fd /\ fds'[k].revents = fds[k].revents
             /\ fds'[k].events = (fds[k].events \ {"IN"}) \cup {"OUT"}
  <2>1. k \in 1..USER_LIMIT /\ fds[k] \in PollFd
    BY EntryType
  <2>2. fds'[k] = [fds[k] EXCEPT !.events = (@ \ {"IN"}) \cup {"OUT"}]
    BY <1>1, <1>3, <2>1
  <2>. QED  BY <2>1, <2>2 DEF PollFd
<1>8. ASSUME NEW f \in ChatFDs
      PROVE  text[f] \in ClientData /\ text[f].write_buf = users[f].write_buf
             /\ text[f].buf = IF f = fds[i].fd THEN Chat!At ELSE users[f].buf
  <2>1. users[f] \in ClientData
    BY DEF ChatTypeInv
  <2>2. CASE f = fds[i].fd
    <3>1. text[f] = [users[f] EXCEPT !.buf = Chat!At]
      BY <2>2 DEF ChatTypeInv
    <3>. HIDE DEF text
    <3>. QED  BY <1>2, <2>1, <2>2, <3>1 DEF ClientData
  <2>3. CASE f # fds[i].fd
    <3>1. text[f] = users[f]
      BY <2>3 DEF ChatTypeInv
    <3>. HIDE DEF text
    <3>. QED  BY <2>1, <2>3, <3>1
  <2>. QED  BY <2>2, <2>3
<1>. HIDE DEF text
<1>9. ASSUME NEW f \in ChatFDs
      PROVE  users'[f] \in ClientData /\ users'[f].buf = text[f].buf
             /\ users'[f].write_buf = IF \E k \in others : fds[k].fd = f THEN fds[i].fd ELSE text[f].write_buf
  <2>1. users'[f] = IF \E k \in others : fds[k].fd = f
                      THEN [text[f] EXCEPT !.write_buf = fds[i].fd] ELSE text[f]
    BY <1>1
  <2>2. CASE \E k \in others : fds[k].fd = f
    BY <1>2, <1>8, <2>1, <2>2 DEF ClientData
  <2>3. CASE ~ \E k \in others : fds[k].fd = f
    BY <1>8, <2>1, <2>3
  <2>. QED  BY <2>2, <2>3
<1>10. users' \in [ChatFDs -> ClientData]
  <2>1. users' = [f \in ChatFDs |-> users'[f]]
    BY <1>1
  <2>. QED  BY <1>9, <2>1
<1>11. owed' \in [ChatClients -> ChatClients \cup {None}]
  BY <1>1, <1>2 DEF ChatTypeInv
<1>12. users'[fds[i].fd].buf = Chat!At /\ users'[fds[i].fd].write_buf = users[fds[i].fd].write_buf
  <2>1. ~ \E k \in others : fds[k].fd = fds[i].fd
    BY DEF others
  <2>. QED  BY <1>2, <1>8, <1>9, <2>1
<1>13. \A f \in ChatFDs \ {fds[i].fd} : users'[f].buf = users[f].buf
  BY <1>8, <1>9
<1>14. ASSUME NEW c \in ChatClients, cFd[c] # None, c # Chat!At
       PROVE  owed'[c] = Chat!At /\ users'[cFd[c]].write_buf = fds[i].fd
  <2>1. PICK k \in 1..user_counter : fds[k].fd = cFd[c]
    BY <1>14 DEF ChatEntriesInv
  <2>2. k # i
    BY <1>2, <1>14, <2>1 DEF ChatEntriesInv
  <2>3. k \in others /\ cFd[c] \in ChatFDs
    BY <1>3, <1>14, <2>2 DEF ChatTypeInv
  <2>. QED  BY <1>1, <1>9, <2>1, <2>3
<1>15. ASSUME NEW c \in ChatClients, cFd[c] = None \/ c = Chat!At PROVE owed'[c] = owed[c]
  <2>1. ~ \E k \in others : fds[k].fd = cFd[c]
    BY <1>2, <1>15 DEF others, ChatEntriesInv
  <2>. QED  BY <1>1, <2>1
<1>. QED  BY <1>5, <1>6, <1>7, <1>10, <1>11, <1>12, <1>13, <1>14, <1>15

LEMMA SendFacts ==
  ASSUME ChatTypeInv, ChatEntriesInv, i \in 1..user_counter, Chat!SendPending
  PROVE  /\ fds' \in [1..USER_LIMIT -> PollFd] /\ users' \in [ChatFDs -> ClientData]
         /\ owed' = [owed EXCEPT ![Chat!At] = None]
         /\ cErr' \in [ChatClients -> {"no", "reset", "pipe", "seen"}]
         /\ \A c \in ChatClients \ {Chat!At} : cErr'[c] = cErr[c]
         /\ cErr'[Chat!At] # "no" => cErr[Chat!At] # "no"
         /\ cErr[Chat!At] = "pipe" => cErr'[Chat!At] = "pipe"
         /\ cKiller' = IF cErr[Chat!At] \in {"pipe", "seen"} THEN Chat!At ELSE None
         /\ \A k \in 1..user_counter : fds'[k].fd = fds[k].fd /\ fds'[k].revents = fds[k].revents
         /\ \A k \in (1..user_counter) \ {i} : fds'[k].events = fds[k].events
         /\ fds'[i].events = (fds[i].events \ {"OUT"}) \cup {"IN"}
         /\ \A f \in ChatFDs : users'[f].buf = users[f].buf
         /\ \A f \in ChatFDs \ {fds[i].fd} : users'[f] = users[f]
<1>1. /\ Chat!At \in ChatClients /\ cFd[Chat!At] = fds[i].fd
      /\ fds[i].fd \in ChatFDs /\ fds[i].fd # None /\ i \in 1..USER_LIMIT
  BY WalkFacts
<1>2. /\ users' = [users EXCEPT ![fds[i].fd].write_buf = None]
      /\ fds' = [fds EXCEPT ![i].events = (@ \ {"OUT"}) \cup {"IN"}]
      /\ owed' = [owed EXCEPT ![Chat!At] = None]
      /\ cErr' = [cErr EXCEPT ![Chat!At] = IF @ = "reset" THEN "seen" ELSE @]
      /\ cKiller' = IF cErr[Chat!At] \in {"pipe", "seen"} THEN Chat!At ELSE None
  BY DEF Chat!SendPending, Chat!Entry
<1>. HIDE DEF Chat!At
<1>3. cErr[Chat!At] \in {"no", "reset", "pipe", "seen"}
  BY <1>1 DEF ChatTypeInv
<1>4. /\ cErr' \in [ChatClients -> {"no", "reset", "pipe", "seen"}]
      /\ cErr'[Chat!At] = IF cErr[Chat!At] = "reset" THEN "seen" ELSE cErr[Chat!At]
      /\ \A c \in ChatClients \ {Chat!At} : cErr'[c] = cErr[c]
  BY <1>1, <1>2, <1>3 DEF ChatTypeInv
<1>5. ASSUME NEW k \in 1..USER_LIMIT, k # i PROVE fds'[k] = fds[k]
  BY <1>2, <1>5 DEF ChatTypeInv
<1>6. fds[i] \in PollFd /\ fds'[i] = [fds[i] EXCEPT !.events = (@ \ {"OUT"}) \cup {"IN"}]
  BY <1>1, <1>2 DEF ChatTypeInv
<1>7. /\ fds'[i] \in PollFd /\ fds'[i].fd = fds[i].fd /\ fds'[i].revents = fds[i].revents
      /\ fds'[i].events = (fds[i].events \ {"OUT"}) \cup {"IN"}
  BY <1>6 DEF PollFd, ChatEvents
<1>8. fds' \in [1..USER_LIMIT -> PollFd]
  <2>1. \A k \in 1..USER_LIMIT : fds'[k] \in PollFd
    BY <1>5, <1>7 DEF ChatTypeInv
  <2>2. fds' = [k \in 1..USER_LIMIT |-> fds'[k]]
    BY <1>2 DEF ChatTypeInv
  <2>. QED  BY <2>1, <2>2
<1>9. \A f \in ChatFDs \ {fds[i].fd} : users'[f] = users[f]
  BY <1>2 DEF ChatTypeInv
<1>10. /\ users[fds[i].fd] \in ClientData
       /\ users'[fds[i].fd] = [users[fds[i].fd] EXCEPT !.write_buf = None]
  BY <1>1, <1>2 DEF ChatTypeInv
<1>11. users'[fds[i].fd] \in ClientData /\ users'[fds[i].fd].buf = users[fds[i].fd].buf
  BY <1>10 DEF ClientData
<1>12. users' \in [ChatFDs -> ClientData]
  <2>1. \A f \in ChatFDs : users'[f] \in ClientData
    BY <1>9, <1>11 DEF ChatTypeInv
  <2>2. users' = [f \in ChatFDs |-> users'[f]]
    BY <1>2 DEF ChatTypeInv
  <2>. QED  BY <2>1, <2>2
<1>13. \A k \in 1..user_counter : k \in 1..USER_LIMIT
  BY EntryType
<1>. QED  BY <1>2, <1>3, <1>4, <1>5, <1>7, <1>8, <1>9, <1>11, <1>12, <1>13

-----------------------------------------------------------------------------
(* The steps. *)

LEMMA ChatTypeStep == ChatTypeInv /\ ChatEntriesInv /\ [Chat!Next]_chatVars => ChatTypeInv'
<1>. SUFFICES ASSUME ChatTypeInv, ChatEntriesInv, [Chat!Next]_chatVars PROVE ChatTypeInv'
  OBVIOUS
<1>. USE DEF Chat!kernelVars, Chat!dataVars
<1>1. CASE Chat!Environment
  BY <1>1 DEF Chat!Environment, Chat!Connect, Chat!Say, Chat!Shut, Chat!Abort, ChatTypeInv
<1>2. CASE Chat!Poll
  <2>1. ready' \subseteq ChatClients
    BY <1>2, PollFacts, EntryClient
  <2>. QED  BY <1>2, <2>1, PollFacts DEF ChatTypeInv
<1>3. CASE Chat!WalkEnds \/ Chat!SkipListen
  BY <1>3 DEF Chat!WalkEnds, Chat!SkipListen, ChatTypeInv
<1>4. ASSUME NEW c \in ChatClients, Chat!Accept(c) PROVE ChatTypeInv'
  <2>1. /\ cFd' \in [ChatClients -> ChatFDs \cup {None}] /\ fds' \in [1..USER_LIMIT -> PollFd]
        /\ user_counter' \in 0..USER_LIMIT
    <3>1. PICK f \in ChatFDs : /\ cFd' = [cFd EXCEPT ![c] = f] /\ fds' \in [1..USER_LIMIT -> PollFd]
                               /\ user_counter < USER_LIMIT /\ user_counter' = user_counter + 1
      BY <1>4, AcceptFacts
    <3>2. user_counter' \in 0..USER_LIMIT
      BY <3>1, ChatAssumption DEF ChatTypeInv
    <3>. QED  BY <3>1, <3>2 DEF ChatTypeInv
  <2>. QED  BY <1>4, <2>1 DEF Chat!Accept, ChatTypeInv
<1>5. ASSUME NEW c \in ChatClients, Chat!Refuse(c) PROVE ChatTypeInv'
  BY <1>5 DEF Chat!Refuse, ChatTypeInv
<1>6. CASE Chat!HandleError
  <2>1. cErr' \in [ChatClients -> {"no", "reset", "pipe", "seen"}]
    BY <1>6 DEF Chat!HandleError, ChatTypeInv
  <2>. QED  BY <1>6, <2>1 DEF Chat!HandleError, Chat!Proceed, ChatTypeInv
<1>7. CASE Chat!HandleHangUp
  <2>1. i \in 1..user_counter /\ Chat!Remove /\ cBacklog' = cBacklog
    BY <1>7 DEF Chat!HandleHangUp, Chat!Handling
  <2>2. /\ cPeer' \in [ChatClients -> {"new", "open", "shut", "gone"}]
        /\ cErr' \in [ChatClients -> {"no", "reset", "pipe", "seen"}]
        /\ cFd' \in [ChatClients -> ChatFDs \cup {None}]
        /\ owed' \in [ChatClients -> ChatClients \cup {None}]
        /\ ready' \subseteq ChatClients /\ UNCHANGED <<i, cPc>>
    BY <2>1 DEF Chat!Remove, Chat!CloseAt, ChatTypeInv
  <2>3. user_counter' \in 0..USER_LIMIT
    BY <2>1, RemoveFacts, ChatAssumption DEF ChatTypeInv
  <2>. QED  BY <2>1, <2>2, <2>3, RemoveFacts DEF ChatTypeInv
<1>8. CASE Chat!Receive
  <2>1. i \in 1..user_counter /\ Chat!Announce
    BY <1>8 DEF Chat!Receive, Chat!HandleInput, Chat!Handling
  <2>. QED  BY <1>8, <2>1, AnnounceFacts DEF Chat!Receive, Chat!Proceed, ChatTypeInv
<1>9. CASE Chat!SendPending
  <2>1. i \in 1..user_counter
    BY <1>9 DEF Chat!SendPending, Chat!Handling
  <2>2. owed' \in [ChatClients -> ChatClients \cup {None}]
    BY <1>9, <2>1, SendFacts DEF ChatTypeInv
  <2>3. i' \in Nat /\ ready' \subseteq ChatClients /\ UNCHANGED <<cPeer, cBacklog, cFd, user_counter, cPc>>
    BY <1>9 DEF Chat!SendPending, ChatTypeInv
  <2>. QED  BY <1>9, <2>1, <2>2, <2>3, SendFacts DEF ChatTypeInv
<1>10. CASE Chat!SkipEntry
  BY <1>10 DEF Chat!SkipEntry, Chat!Proceed, ChatTypeInv
<1>11. CASE UNCHANGED chatVars
  BY <1>11 DEF chatVars, ChatTypeInv
<1>. QED
  BY <1>1, <1>2, <1>3, <1>4, <1>5, <1>6, <1>7, <1>8, <1>9, <1>10, <1>11 DEF Chat!Next, Chat!Server

LEMMA ChatEntriesStep == ChatTypeInv /\ ChatEntriesInv /\ [Chat!Next]_chatVars => ChatEntriesInv'
<1>. SUFFICES ASSUME ChatTypeInv, ChatEntriesInv, [Chat!Next]_chatVars PROVE ChatEntriesInv'
  OBVIOUS
<1>. USE DEF Chat!kernelVars, Chat!dataVars
<1>0. ASSUME UNCHANGED <<cFd, user_counter>>, \A k \in 1..user_counter : fds'[k].fd = fds[k].fd,
             cBacklog' \subseteq cBacklog,
             \A c \in ChatClients : cPeer'[c] = "new" => cPeer[c] = "new"
      PROVE  ChatEntriesInv'
  <2>1. /\ \A c, d \in ChatClients : cFd'[c] = cFd'[d] /\ cFd'[c] # None => c = d
        /\ \A c \in ChatClients : cFd'[c] # None => cPeer'[c] # "new" /\ c \notin cBacklog'
        /\ \A c \in cBacklog' : cPeer'[c] # "new"
    BY <1>0 DEF ChatEntriesInv, ChatTypeInv
  <2>2. \A k, n \in 1..user_counter : fds'[k].fd = fds'[n].fd => k = n
    BY <1>0 DEF ChatEntriesInv
  <2>3. \A k \in 1..user_counter : fds'[k].fd # None /\ (\E c \in ChatClients : cFd'[c] = fds'[k].fd)
    BY <1>0 DEF ChatEntriesInv
  <2>4. \A c \in ChatClients : cFd'[c] # None => (\E k \in 1..user_counter : fds'[k].fd = cFd'[c])
    BY <1>0 DEF ChatEntriesInv
  <2>. QED  BY <1>0, <2>1, <2>2, <2>3, <2>4 DEF ChatEntriesInv
<1>1. CASE Chat!Environment
  <2>1. UNCHANGED <<cFd, user_counter, fds>>
    BY <1>1 DEF Chat!Environment, Chat!Connect, Chat!Say, Chat!Shut, Chat!Abort
  <2>2. \A c \in ChatClients : cPeer'[c] = "new" => cPeer[c] = "new"
    BY <1>1 DEF Chat!Environment, Chat!Connect, Chat!Say, Chat!Shut, Chat!Abort, ChatTypeInv
  <2>3. ASSUME NEW c \in ChatClients, Chat!Connect(c) PROVE ChatEntriesInv'
    <3>1. cFd[c] = None /\ cPeer'[c] = "open" /\ cBacklog' = cBacklog \cup {c}
      BY <2>3 DEF Chat!Connect, ChatEntriesInv, ChatTypeInv
    <3>. QED  BY <2>1, <2>2, <3>1 DEF ChatEntriesInv, ChatTypeInv
  <2>4. ASSUME NEW c \in ChatClients, Chat!Say(c) \/ Chat!Shut(c) \/ Chat!Abort(c) PROVE ChatEntriesInv'
    <3>1. cBacklog' = cBacklog
      BY <2>4 DEF Chat!Say, Chat!Shut, Chat!Abort
    <3>. QED  BY <1>0, <2>1, <2>2, <3>1
  <2>. QED  BY <1>1, <2>3, <2>4 DEF Chat!Environment
<1>2. CASE Chat!Poll
  BY <1>0, <1>2, PollFacts
<1>3. CASE Chat!WalkEnds \/ Chat!SkipListen
  BY <1>0, <1>3 DEF Chat!WalkEnds, Chat!SkipListen
<1>4. ASSUME NEW c \in ChatClients, Chat!Accept(c) PROVE ChatEntriesInv'
  <2>1. PICK f \in ChatFDs :
          /\ \A d \in ChatClients : cFd[d] # f
          /\ cFd' = [cFd EXCEPT ![c] = f]
          /\ user_counter' = user_counter + 1
          /\ fds'[user_counter + 1] = [fd |-> f, events |-> Listens, revents |-> {}]
          /\ \A k \in 1..user_counter : fds'[k] = fds[k]
    BY <1>4, AcceptFacts
  <2>2. c \in cBacklog /\ cBacklog' = cBacklog \ {c} /\ cPeer' = cPeer
    BY <1>4 DEF Chat!Accept
  <2>3. cFd[c] = None /\ cPeer[c] # "new" /\ f # None
    BY <2>2, ChatAssumption DEF ChatEntriesInv
  <2>4. \A d \in ChatClients : cFd'[d] = IF d = c THEN f ELSE cFd[d]
    BY <2>1 DEF ChatTypeInv
  <2>5. \A k : k \in 1..user_counter' <=> k \in 1..user_counter \/ k = user_counter + 1
    BY <2>1, ChatAssumption DEF ChatTypeInv
  <2>6. \A k \in 1..user_counter : fds'[k].fd = fds[k].fd /\ fds[k].fd # f
    BY <2>1 DEF ChatEntriesInv
  <2>7. fds'[user_counter + 1].fd = f
    BY <2>1
  <2>8. \A k, n \in 1..user_counter' : fds'[k].fd = fds'[n].fd => k = n
    BY <2>5, <2>6, <2>7 DEF ChatEntriesInv
  <2>9. \A k \in 1..user_counter' : fds'[k].fd # None /\ \E d \in ChatClients : cFd'[d] = fds'[k].fd
    <3>. SUFFICES ASSUME NEW k \in 1..user_counter'
                  PROVE  fds'[k].fd # None /\ \E d \in ChatClients : cFd'[d] = fds'[k].fd
      OBVIOUS
    <3>1. CASE k = user_counter + 1
      BY <2>3, <2>4, <2>7, <3>1
    <3>2. CASE k \in 1..user_counter
      <4>1. PICK d \in ChatClients : cFd[d] = fds[k].fd /\ fds[k].fd # None
        BY <3>2 DEF ChatEntriesInv
      <4>. QED  BY <2>3, <2>4, <2>6, <3>2, <4>1
    <3>. QED  BY <2>5, <3>1, <3>2
  <2>10. \A d \in ChatClients : cFd'[d] # None => \E k \in 1..user_counter' : fds'[k].fd = cFd'[d]
    BY <2>4, <2>5, <2>6, <2>7 DEF ChatEntriesInv
  <2>11. \A d, e \in ChatClients : cFd'[d] = cFd'[e] /\ cFd'[d] # None => d = e
    BY <2>1, <2>4 DEF ChatEntriesInv
  <2>. QED  BY <2>2, <2>3, <2>4, <2>8, <2>9, <2>10, <2>11 DEF ChatEntriesInv
<1>5. ASSUME NEW c \in ChatClients, Chat!Refuse(c) PROVE ChatEntriesInv'
  BY <1>0, <1>5 DEF Chat!Refuse, ChatTypeInv
<1>6. CASE Chat!HandleError \/ Chat!SkipEntry
  BY <1>0, <1>6 DEF Chat!HandleError, Chat!SkipEntry
<1>7. CASE Chat!HandleHangUp
  <2>1. i \in 1..user_counter /\ Chat!Remove /\ cBacklog' = cBacklog
    BY <1>7 DEF Chat!HandleHangUp, Chat!Handling
  <2>. DEFINE a == Chat!At
  <2>2. /\ a \in ChatClients /\ cFd[a] = fds[i].fd
        /\ \A k \in 1..user_counter, c \in ChatClients : cFd[c] = fds[k].fd => (c = a <=> k = i)
    BY <2>1, WalkFacts
  <2>3. /\ \A k \in 1..user_counter' : fds'[k] = fds[Origin(k)] /\ Origin(k) \in (1..user_counter) \ {i}
        /\ \A k \in (1..user_counter) \ {i} : \E n \in 1..user_counter' : Origin(n) = k
        /\ \A k, n \in 1..user_counter' : Origin(k) = Origin(n) => k = n
        /\ \E b : b = a /\ cFd'[b] = None /\ cPeer'[b] = "gone"
                  /\ \A c \in ChatClients \ {b} : cFd'[c] = cFd[c] /\ cPeer'[c] = cPeer[c]
    BY <2>1, RemoveFacts
  <2>4. PICK b : b = a /\ cFd'[b] = None /\ cPeer'[b] = "gone"
                 /\ \A c \in ChatClients \ {b} : cFd'[c] = cFd[c] /\ cPeer'[c] = cPeer[c]
    BY <2>3
  <2>. HIDE DEF a, Origin
  <2>5. \A c, d \in ChatClients : cFd'[c] = cFd'[d] /\ cFd'[c] # None => c = d
    BY <2>2, <2>4 DEF ChatEntriesInv
  <2>6. /\ \A c \in ChatClients : cFd'[c] # None => cPeer'[c] # "new" /\ c \notin cBacklog'
        /\ \A c \in cBacklog' : cPeer'[c] # "new"
    BY <2>1, <2>2, <2>4 DEF ChatEntriesInv, ChatTypeInv
  <2>7. \A k, n \in 1..user_counter' : fds'[k].fd = fds'[n].fd => k = n
    BY <2>3 DEF ChatEntriesInv
  <2>8. \A k \in 1..user_counter' : fds'[k].fd # None /\ \E c \in ChatClients : cFd'[c] = fds'[k].fd
    <3>. SUFFICES ASSUME NEW k \in 1..user_counter'
                  PROVE  fds'[k].fd # None /\ \E c \in ChatClients : cFd'[c] = fds'[k].fd
      OBVIOUS
    <3>1. PICK n \in (1..user_counter) \ {i} : fds'[k] = fds[n]
      BY <2>3
    <3>2. PICK c \in ChatClients : cFd[c] = fds[n].fd /\ fds[n].fd # None
      BY <3>1 DEF ChatEntriesInv
    <3>3. c # b
      BY <2>2, <2>4, <3>1, <3>2
    <3>. QED  BY <2>4, <3>1, <3>2, <3>3
  <2>9. \A c \in ChatClients : cFd'[c] # None => \E k \in 1..user_counter' : fds'[k].fd = cFd'[c]
    <3>. SUFFICES ASSUME NEW c \in ChatClients, cFd'[c] # None
                  PROVE  \E k \in 1..user_counter' : fds'[k].fd = cFd'[c]
      OBVIOUS
    <3>1. c # b /\ cFd'[c] = cFd[c]
      BY <2>4
    <3>2. PICK n \in 1..user_counter : fds[n].fd = cFd[c]
      BY <3>1 DEF ChatEntriesInv
    <3>3. n # i
      BY <2>2, <2>4, <3>1, <3>2
    <3>4. PICK k \in 1..user_counter' : Origin(k) = n
      BY <2>3, <3>3
    <3>. QED  BY <2>3, <3>1, <3>2, <3>4
  <2>. QED  BY <2>5, <2>6, <2>7, <2>8, <2>9 DEF ChatEntriesInv
<1>8. CASE Chat!Receive
  <2>1. i \in 1..user_counter /\ Chat!Announce /\ UNCHANGED <<cFd, user_counter, cBacklog, cPeer>>
    BY <1>8 DEF Chat!Receive, Chat!HandleInput, Chat!Handling
  <2>2. \A k \in 1..user_counter : fds'[k].fd = fds[k].fd
    BY <2>1, AnnounceFacts
  <2>. QED  BY <1>0, <2>1, <2>2
<1>9. CASE Chat!SendPending
  <2>1. i \in 1..user_counter /\ UNCHANGED <<cFd, user_counter, cBacklog, cPeer>>
    BY <1>9 DEF Chat!SendPending, Chat!Handling
  <2>2. \A k \in 1..user_counter : fds'[k].fd = fds[k].fd
    BY <1>9, <2>1, SendFacts
  <2>. QED  BY <1>0, <2>1, <2>2
<1>10. CASE UNCHANGED chatVars
  BY <1>0, <1>10 DEF chatVars
<1>. QED
  BY <1>1, <1>2, <1>3, <1>4, <1>5, <1>6, <1>7, <1>8, <1>9, <1>10 DEF Chat!Next, Chat!Server

(* A peer is new once. *)
LEMMA ChatPeerStep ==
  ChatTypeInv /\ ChatEntriesInv /\ [Chat!Next]_chatVars
    => \A c \in ChatClients : cPeer'[c] = "new" => cPeer[c] = "new"
<1>. SUFFICES ASSUME ChatTypeInv, ChatEntriesInv, [Chat!Next]_chatVars,
                     NEW c \in ChatClients, cPeer'[c] = "new"
              PROVE  cPeer[c] = "new"
  OBVIOUS
<1>. USE DEF Chat!kernelVars, Chat!dataVars
<1>1. CASE Chat!Environment
  BY <1>1 DEF Chat!Environment, Chat!Connect, Chat!Say, Chat!Shut, Chat!Abort, ChatTypeInv
<1>2. CASE Chat!HandleHangUp
  BY <1>2, RemoveFacts DEF Chat!HandleHangUp, Chat!Handling
<1>3. ASSUME NEW d \in ChatClients, Chat!Refuse(d) PROVE cPeer[c] = "new"
  BY <1>3 DEF Chat!Refuse, ChatTypeInv
<1>4. CASE cPeer' = cPeer
  BY <1>4
<1>. QED
  BY <1>1, <1>2, <1>3, <1>4 DEF Chat!Next, Chat!Server, Chat!Poll, Chat!WalkEnds, Chat!SkipListen, Chat!Accept,
     Chat!HandleError, Chat!Receive, Chat!SendPending, Chat!SkipEntry, chatVars

LEMMA ChatToldStep ==
  ChatTypeInv /\ ChatEntriesInv /\ ChatToldInv /\ [Chat!Next]_chatVars => ChatToldInv'
<1>. SUFFICES ASSUME ChatTypeInv, ChatEntriesInv, ChatToldInv, [Chat!Next]_chatVars PROVE ChatToldInv'
  OBVIOUS
<1>. USE DEF Chat!kernelVars, Chat!dataVars
<1>00. \A c \in ChatClients : cPeer'[c] = "new" => cPeer[c] = "new"
  BY ChatPeerStep
<1>0. ASSUME UNCHANGED <<cFd, user_counter, users, owed>>,
             \A c \in ChatClients : owed[c] # None /\ owed[c] \in cBacklog' => owed[c] \in cBacklog,
             \A k \in 1..user_counter : fds'[k].fd = fds[k].fd /\ fds'[k].events = fds[k].events
      PROVE  ChatToldInv'
  BY <1>00, <1>0 DEF ChatToldInv, ChatTypeInv
<1>1. CASE Chat!Environment
  <2>1. UNCHANGED <<cFd, user_counter, users, owed, fds>>
    BY <1>1 DEF Chat!Environment, Chat!Connect, Chat!Say, Chat!Shut, Chat!Abort
  <2>2. \A c \in ChatClients : owed[c] # None /\ owed[c] \in cBacklog' => owed[c] \in cBacklog
    BY <1>1 DEF Chat!Environment, Chat!Connect, Chat!Say, Chat!Shut, Chat!Abort, ChatToldInv
  <2>. QED  BY <1>0, <2>1, <2>2
<1>2. CASE Chat!Poll
  BY <1>0, <1>2, PollFacts
<1>3. CASE Chat!WalkEnds \/ Chat!SkipListen \/ (\E c \in ChatClients : Chat!Refuse(c))
  BY <1>0, <1>3 DEF Chat!WalkEnds, Chat!SkipListen, Chat!Refuse
<1>4. ASSUME NEW c \in ChatClients, Chat!Accept(c) PROVE ChatToldInv'
  <2>1. PICK f \in ChatFDs :
          /\ \A d \in ChatClients : cFd[d] # f
          /\ cFd' = [cFd EXCEPT ![c] = f]
          /\ user_counter' = user_counter + 1
          /\ fds'[user_counter + 1] = [fd |-> f, events |-> Listens, revents |-> {}]
          /\ \A k \in 1..user_counter : fds'[k] = fds[k]
    BY <1>4, AcceptFacts
  <2>2. c \in cBacklog /\ cBacklog' = cBacklog \ {c} /\ UNCHANGED <<users, owed>>
    BY <1>4 DEF Chat!Accept
  <2>3. cFd[c] = None /\ owed[c] = None /\ f # None
    BY <2>2, ChatAssumption DEF ChatEntriesInv, ChatToldInv
  <2>4. \A d \in ChatClients : cFd'[d] = IF d = c THEN f ELSE cFd[d]
    BY <2>1 DEF ChatTypeInv
  <2>5. \A k : k \in 1..user_counter' <=> k \in 1..user_counter \/ k = user_counter + 1
    BY <2>1, ChatAssumption DEF ChatTypeInv
  <2>6. fds'[user_counter + 1].fd = f /\ fds'[user_counter + 1].events = Listens
    BY <2>1
  <2>7. \A k \in 1..user_counter' : fds'[k].events \in {Listens, Writes}
    BY <2>1, <2>5, <2>6 DEF ChatToldInv
  <2>8. ASSUME NEW k \in 1..user_counter', NEW d \in ChatClients, cFd'[d] = fds'[k].fd
        PROVE  fds'[k].events = Writes <=> owed[d] # None
    <3>1. CASE k = user_counter + 1
      <4>1. d = c
        BY <2>1, <2>4, <2>6, <2>8, <3>1
      <4>. QED  BY <2>3, <2>6, <3>1, <4>1 DEF Listens, Writes
    <3>2. CASE k \in 1..user_counter
      <4>1. fds[k].fd = fds'[k].fd /\ fds[k].fd # f
        BY <2>1, <3>2 DEF ChatEntriesInv
      <4>2. cFd[d] = fds[k].fd
        BY <2>4, <2>8, <4>1
      <4>. QED  BY <2>1, <3>2, <4>2 DEF ChatToldInv
    <3>. QED  BY <2>5, <3>1, <3>2
  <2>9. \A d \in ChatClients : cFd'[d] = None => owed[d] = None
    BY <2>3, <2>4 DEF ChatToldInv
  <2>10. ASSUME NEW d \in ChatClients, owed[d] # None
         PROVE  /\ users[cFd'[d]].write_buf \notin {None, cFd'[d]}
                /\ cFd'[owed[d]] # None =>
                     users[cFd'[d]].write_buf = cFd'[owed[d]] /\ users[cFd'[owed[d]]].buf = owed[d]
    <3>1. d # c /\ cFd'[d] = cFd[d]
      BY <2>3, <2>4, <2>10
    <3>2. owed[d] # c
      BY <2>2, <2>10 DEF ChatToldInv
    <3>3. cFd'[owed[d]] = cFd[owed[d]]
      BY <2>4, <2>10, <3>2 DEF ChatTypeInv
    <3>. QED  BY <2>10, <3>1, <3>3 DEF ChatToldInv
  <2>11. \A d \in ChatClients : owed[d] # None => cPeer'[owed[d]] # "new" /\ owed[d] \notin cBacklog'
    BY <1>00, <2>2 DEF ChatToldInv, ChatTypeInv
  <2>. QED  BY <2>2, <2>7, <2>8, <2>9, <2>10, <2>11 DEF ChatToldInv
<1>6. CASE Chat!HandleError \/ Chat!SkipEntry
  BY <1>0, <1>6 DEF Chat!HandleError, Chat!SkipEntry
<1>7. CASE Chat!HandleHangUp
  <2>1. i \in 1..user_counter /\ Chat!Remove /\ cBacklog' = cBacklog
    BY <1>7 DEF Chat!HandleHangUp, Chat!Handling
  <2>2. PICK a \in ChatClients :
          /\ cFd[a] = fds[i].fd /\ fds[i].fd # None
          /\ \A k \in 1..user_counter, c \in ChatClients : cFd[c] = fds[k].fd => (c = a <=> k = i)
          /\ cFd'[a] = None /\ owed'[a] = None
          /\ \A c \in ChatClients \ {a} : cFd'[c] = cFd[c] /\ owed'[c] = owed[c]
    BY <2>1, WalkFacts, RemoveFacts
  <2>3. /\ \A k \in 1..user_counter' : fds'[k] = fds[Origin(k)] /\ Origin(k) \in (1..user_counter) \ {i}
        /\ \A f \in ChatFDs : f # fds[i].fd => users'[f] = users[f]
    BY <2>1, RemoveFacts
  <2>. HIDE DEF Origin
  <2>4. \A k \in 1..user_counter' : fds'[k].events \in {Listens, Writes}
    BY <2>3 DEF ChatToldInv
  <2>5. \A c \in ChatClients : cFd[c] # None /\ c # a => cFd[c] # fds[i].fd /\ cFd[c] \in ChatFDs
    BY <2>1, <2>2 DEF ChatTypeInv
  <2>6. ASSUME NEW k \in 1..user_counter', NEW c \in ChatClients, cFd'[c] = fds'[k].fd
        PROVE  fds'[k].events = Writes <=> owed'[c] # None
    <3>1. c # a
      BY <2>2, <2>3, <2>6 DEF ChatEntriesInv
    <3>. QED  BY <2>2, <2>3, <2>6, <3>1 DEF ChatToldInv
  <2>7. \A c \in ChatClients : cFd'[c] = None => owed'[c] = None
    BY <2>2 DEF ChatToldInv
  <2>8. ASSUME NEW c \in ChatClients, owed'[c] # None
        PROVE  /\ users'[cFd'[c]].write_buf \notin {None, cFd'[c]}
               /\ cFd'[owed'[c]] # None =>
                    users'[cFd'[c]].write_buf = cFd'[owed'[c]] /\ users'[cFd'[owed'[c]]].buf = owed'[c]
    <3>1. c # a /\ cFd'[c] = cFd[c] /\ owed'[c] = owed[c]
      BY <2>2, <2>8
    <3>2. cFd[c] # None /\ users'[cFd[c]] = users[cFd[c]]
      BY <2>3, <2>5, <2>8, <3>1 DEF ChatToldInv
    <3>3. ASSUME cFd'[owed[c]] # None
          PROVE  cFd'[owed[c]] = cFd[owed[c]] /\ users'[cFd[owed[c]]] = users[cFd[owed[c]]]
      <4>1. owed[c] \in ChatClients /\ owed[c] # a
        BY <2>2, <2>8, <3>1, <3>3 DEF ChatTypeInv
      <4>. QED  BY <2>2, <2>3, <2>5, <3>3, <4>1
    <3>. QED  BY <2>8, <3>1, <3>2, <3>3 DEF ChatToldInv
  <2>9. \A c \in ChatClients : owed'[c] # None => cPeer'[owed'[c]] # "new" /\ owed'[c] \notin cBacklog'
    BY <1>00, <2>1, <2>2 DEF ChatToldInv, ChatTypeInv
  <2>. QED  BY <2>4, <2>6, <2>7, <2>8, <2>9 DEF ChatToldInv
<1>8. CASE Chat!Receive
  <2>1. i \in 1..user_counter /\ Chat!Announce /\ UNCHANGED <<cFd, user_counter, cPeer, cBacklog>>
    BY <1>8 DEF Chat!Receive, Chat!HandleInput, Chat!Handling
  <2>2. PICK a \in ChatClients :
          /\ cFd[a] = fds[i].fd /\ fds[i].fd # None /\ fds[i].fd \in ChatFDs
          /\ \A k \in 1..user_counter, c \in ChatClients : cFd[c] = fds[k].fd => (c = a <=> k = i)
          /\ users'[fds[i].fd].buf = a /\ users'[fds[i].fd].write_buf = users[fds[i].fd].write_buf
          /\ \A f \in ChatFDs \ {fds[i].fd} : users'[f].buf = users[f].buf
          /\ \A c \in ChatClients : cFd[c] # None /\ c # a =>
               owed'[c] = a /\ users'[cFd[c]].write_buf = fds[i].fd
          /\ \A c \in ChatClients : cFd[c] = None \/ c = a => owed'[c] = owed[c]
    BY <2>1, WalkFacts, AnnounceFacts
  <2>3. /\ fds'[i] = fds[i]
        /\ \A k \in (1..user_counter) \ {i} :
             fds'[k].fd = fds[k].fd /\ fds'[k].events = (fds[k].events \ {"IN"}) \cup {"OUT"}
    BY <2>1, AnnounceFacts
  <2>4. \A k \in (1..user_counter) \ {i} : fds'[k].events = Writes
    <3>1. \A E \in {Listens, Writes} : (E \ {"IN"}) \cup {"OUT"} = Writes
      BY DEF Listens, Writes
    <3>. QED  BY <2>3, <3>1 DEF ChatToldInv
  <2>5. \A k \in 1..user_counter : fds'[k].fd = fds[k].fd /\ fds'[k].events \in {Listens, Writes}
    BY <2>3, <2>4 DEF ChatToldInv
  <2>6. ASSUME NEW k \in 1..user_counter, NEW c \in ChatClients, cFd[c] = fds[k].fd
        PROVE  fds'[k].events = Writes <=> owed'[c] # None
    <3>1. CASE k = i
      <4>1. c = a
        BY <2>2, <2>6, <3>1
      <4>. QED  BY <2>2, <2>3, <2>6, <3>1, <4>1 DEF ChatToldInv
    <3>2. CASE k # i
      <4>1. c # a /\ cFd[c] # None
        BY <2>2, <2>6, <3>2 DEF ChatEntriesInv
      <4>. QED  BY <2>2, <2>4, <3>2, <4>1, ChatAssumption
    <3>. QED  BY <3>1, <3>2
  <2>7. \A c \in ChatClients : cFd[c] = None => owed'[c] = None
    BY <2>2 DEF ChatToldInv
  <2>8. ASSUME NEW c \in ChatClients, owed'[c] # None
        PROVE  /\ users'[cFd[c]].write_buf \notin {None, cFd[c]}
               /\ cFd[owed'[c]] # None =>
                    users'[cFd[c]].write_buf = cFd[owed'[c]] /\ users'[cFd[owed'[c]]].buf = owed'[c]
    <3>1. cFd[c] # None
      BY <2>7, <2>8
    <3>2. CASE c # a
      <4>1. owed'[c] = a /\ users'[cFd[c]].write_buf = cFd[a]
        BY <2>2, <3>1, <3>2
      <4>2. cFd[c] # cFd[a]
        BY <3>1, <3>2 DEF ChatEntriesInv
      <4>. QED  BY <2>2, <4>1, <4>2
    <3>3. CASE c = a
      <4>1. owed'[a] = owed[a] /\ users'[cFd[a]].write_buf = users[cFd[a]].write_buf
        BY <2>2
      <4>2. owed[a] # None /\ users[cFd[a]].write_buf \notin {None, cFd[a]}
        BY <2>8, <3>3, <4>1 DEF ChatToldInv
      <4>3. ASSUME cFd[owed[a]] # None
            PROVE  users[cFd[a]].write_buf = cFd[owed[a]] /\ users'[cFd[owed[a]]].buf = owed[a]
        <5>1. users[cFd[a]].write_buf = cFd[owed[a]] /\ users[cFd[owed[a]]].buf = owed[a]
          BY <4>2, <4>3 DEF ChatToldInv
        <5>2. cFd[owed[a]] \in ChatFDs \ {fds[i].fd}
          BY <2>2, <4>2, <4>3, <5>1 DEF ChatTypeInv
        <5>. QED  BY <2>2, <5>1, <5>2
      <4>. QED  BY <3>3, <4>1, <4>2, <4>3
    <3>. QED  BY <3>2, <3>3
  <2>9. \A c \in ChatClients : owed'[c] # None => cPeer[owed'[c]] # "new" /\ owed'[c] \notin cBacklog
    BY <2>2, <2>7 DEF ChatToldInv, ChatEntriesInv
  <2>. QED  BY <2>1, <2>5, <2>6, <2>7, <2>8, <2>9 DEF ChatToldInv
<1>9. CASE Chat!SendPending
  <2>1. i \in 1..user_counter /\ UNCHANGED <<cFd, user_counter, cPeer, cBacklog>>
    BY <1>9 DEF Chat!SendPending, Chat!Handling
  <2>2. PICK a \in ChatClients :
          /\ cFd[a] = fds[i].fd /\ fds[i].fd # None
          /\ \A k \in 1..user_counter, c \in ChatClients : cFd[c] = fds[k].fd => (c = a <=> k = i)
          /\ owed' = [owed EXCEPT ![a] = None]
    BY <1>9, <2>1, WalkFacts, SendFacts
  <2>3. /\ \A k \in 1..user_counter : fds'[k].fd = fds[k].fd
        /\ \A k \in (1..user_counter) \ {i} : fds'[k].events = fds[k].events
        /\ fds'[i].events = (fds[i].events \ {"OUT"}) \cup {"IN"}
        /\ \A f \in ChatFDs : users'[f].buf = users[f].buf
        /\ \A f \in ChatFDs \ {fds[i].fd} : users'[f] = users[f]
    BY <1>9, <2>1, SendFacts
  <2>4. fds'[i].events = Listens
    <3>1. \A E \in {Listens, Writes} : (E \ {"OUT"}) \cup {"IN"} = Listens
      BY DEF Listens, Writes
    <3>. QED  BY <2>1, <2>3, <3>1 DEF ChatToldInv
  <2>5. Listens # Writes
    BY DEF Listens, Writes
  <2>6. owed'[a] = None /\ \A c \in ChatClients \ {a} : owed'[c] = owed[c]
    BY <2>2 DEF ChatTypeInv
  <2>7. \A k \in 1..user_counter : fds'[k].events \in {Listens, Writes}
    BY <2>3, <2>4 DEF ChatToldInv
  <2>8. \A k \in 1..user_counter, c \in ChatClients :
          cFd[c] = fds[k].fd => (fds'[k].events = Writes <=> owed'[c] # None)
    BY <2>2, <2>3, <2>4, <2>5, <2>6 DEF ChatToldInv
  <2>9. \A c \in ChatClients : cFd[c] = None => owed'[c] = None
    BY <2>6 DEF ChatToldInv
  <2>10. ASSUME NEW c \in ChatClients, owed'[c] # None
         PROVE  /\ users'[cFd[c]].write_buf \notin {None, cFd[c]}
                /\ cFd[owed'[c]] # None =>
                     users'[cFd[c]].write_buf = cFd[owed'[c]] /\ users'[cFd[owed'[c]]].buf = owed'[c]
    <3>1. c # a /\ owed'[c] = owed[c]
      BY <2>6, <2>10
    <3>2. cFd[c] \in ChatFDs /\ cFd[c] # fds[i].fd
      BY <2>2, <2>9, <2>10, <3>1 DEF ChatTypeInv, ChatEntriesInv
    <3>3. cFd[owed[c]] # None => cFd[owed[c]] \in ChatFDs
      BY <2>10, <3>1 DEF ChatTypeInv
    <3>. QED  BY <2>3, <2>10, <3>1, <3>2, <3>3 DEF ChatToldInv
  <2>11. \A c \in ChatClients : owed'[c] # None => cPeer[owed'[c]] # "new" /\ owed'[c] \notin cBacklog
    BY <2>6 DEF ChatToldInv
  <2>. QED  BY <2>1, <2>3, <2>7, <2>8, <2>9, <2>10, <2>11 DEF ChatToldInv
<1>10. CASE UNCHANGED chatVars
  BY <1>0, <1>10 DEF chatVars
<1>. QED
  BY <1>1, <1>2, <1>3, <1>4, <1>6, <1>7, <1>8, <1>9, <1>10 DEF Chat!Next, Chat!Server

LEMMA ChatErrorStep ==
  ChatTypeInv /\ ChatEntriesInv /\ ChatToldInv /\ ChatErrorInv /\ [Chat!Next]_chatVars => ChatErrorInv'
<1>. SUFFICES ASSUME ChatTypeInv, ChatEntriesInv, ChatToldInv, ChatErrorInv, [Chat!Next]_chatVars
              PROVE  ChatErrorInv'
  OBVIOUS
<1>. USE DEF Chat!kernelVars, Chat!dataVars
<1>0. CASE UNCHANGED chatVars
  BY <1>0 DEF chatVars, ChatErrorInv, Chat!KilledOnlyUnseen
<1>. SUFFICES ASSUME Chat!Next PROVE ChatErrorInv'
  BY <1>0
<1>13. cKiller = None
  BY DEF Chat!Next
<1>1. CASE Chat!Environment
  <2>1. UNCHANGED <<cFd, user_counter, fds, i, cPc, cKiller>> /\ cLate \subseteq cLate'
    BY <1>1 DEF Chat!Environment, Chat!Connect, Chat!Say, Chat!Shut, Chat!Abort
  <2>2. cKiller' = None
    BY <1>1, <1>13 DEF Chat!Environment
  <2>3. \A c \in ChatClients :
          /\ \/ cErr'[c] = cErr[c]
             \/ cErr'[c] = "reset" /\ cPeer'[c] = "gone"
             \/ cErr'[c] = "pipe" /\ cPeer'[c] = "gone" /\ cPeer[c] = "shut"
          /\ cPeer[c] \in {"shut", "gone"} => cPeer'[c] \in {"shut", "gone"}
          /\ cPeer'[c] = "shut" => cPeer[c] = "shut" \/ c \in cLate'
    BY <1>1 DEF Chat!Environment, Chat!Connect, Chat!Say, Chat!Shut, Chat!Abort, ChatTypeInv
  <2>4. Chat!KilledOnlyUnseen'
    BY <2>2 DEF Chat!KilledOnlyUnseen
  <2>5. \A c \in ChatClients : cErr'[c] # "no" => cPeer'[c] \in {"shut", "gone"}
    BY <2>3 DEF ChatErrorInv
  <2>. QED  BY <2>1, <2>3, <2>4, <2>5 DEF ChatErrorInv
<1>2. CASE Chat!Poll
  <2>1. UNCHANGED <<cPeer, cErr, cFd, user_counter>> /\ cKiller' = None /\ cPc' = "walk"
        /\ \A k \in 1..user_counter : fds'[k].fd = fds[k].fd
    BY <1>13, <1>2, PollFacts
  <2>2. ASSUME NEW k \in 1..user_counter, NEW c \in ChatClients, cFd[c] = fds[k].fd,
               fds'[k].revents \cap {"ERR", "RDHUP"} = {}
        PROVE  cErr[c] = "no" /\ cPeer[c] # "shut"
    <3>1. c = Chat!ClientOf(fds[k].fd)
      BY <2>2, EntryClient
    <3>2. /\ cErr[c] \in {"reset", "pipe"} => "ERR" \in fds'[k].revents
          /\ Chat!HasLeft(c) /\ "RDHUP" \in fds[k].events => "RDHUP" \in fds'[k].revents
      BY <1>2, <3>1, PollFacts
    <3>3. "RDHUP" \in fds[k].events
      BY DEF ChatToldInv, Listens, Writes
    <3>. QED  BY <2>2, <3>2, <3>3 DEF Chat!HasLeft, ChatErrorInv, ChatTypeInv
  <2>. QED  BY <2>1, <2>2 DEF ChatErrorInv, Chat!KilledOnlyUnseen
<1>3. CASE Chat!WalkEnds
  BY <1>3 DEF Chat!WalkEnds, ChatErrorInv, Chat!KilledOnlyUnseen
<1>4. CASE Chat!SkipListen
  BY <1>4 DEF Chat!SkipListen, ChatErrorInv, Chat!KilledOnlyUnseen
<1>5. ASSUME NEW c \in ChatClients, Chat!Accept(c) PROVE ChatErrorInv'
  <2>1. PICK f \in ChatFDs :
          /\ \A d \in ChatClients : cFd[d] # f
          /\ cFd' = [cFd EXCEPT ![c] = f]
          /\ user_counter' = user_counter + 1
          /\ fds'[user_counter + 1] = [fd |-> f, events |-> Listens, revents |-> {}]
          /\ \A k \in 1..user_counter : fds'[k] = fds[k]
    BY <1>5, AcceptFacts
  <2>2. cPc = "walk" /\ i = 0 /\ UNCHANGED <<cPeer, cErr, cLate>> /\ cKiller' = None
    BY <1>13, <1>5 DEF Chat!Accept
  <2>3. \A d \in ChatClients : cFd'[d] = IF d = c THEN f ELSE cFd[d]
    BY <2>1 DEF ChatTypeInv
  <2>4. \A k \in 1..user_counter' : k \in 1..user_counter \/ k = user_counter + 1
    BY <2>1, ChatAssumption DEF ChatTypeInv
  <2>5. ASSUME NEW k \in 1..user_counter', NEW d \in ChatClients, cFd'[d] = fds'[k].fd,
               "OUT" \in fds'[k].revents, fds'[k].revents \cap {"ERR", "RDHUP"} = {}
        PROVE  cErr[d] # "seen" /\ (cPeer[d] = "shut" \/ cErr[d] = "pipe" => d \in cLate)
    <3>1. k # user_counter + 1
      BY <2>1, <2>5
    <3>2. k \in 1..user_counter /\ k >= i /\ fds'[k] = fds[k]
      BY <2>1, <2>2, <2>4, <3>1
    <3>3. cFd[d] = fds[k].fd
      BY <2>1, <2>3, <2>5, <3>2 DEF ChatEntriesInv
    <3>. QED  BY <2>2, <2>5, <3>2, <3>3 DEF ChatErrorInv
  <2>. QED  BY <2>2, <2>5 DEF ChatErrorInv, Chat!KilledOnlyUnseen
<1>6. ASSUME NEW c \in ChatClients, Chat!Refuse(c) PROVE ChatErrorInv'
  <2>1. /\ c \in cBacklog /\ cPeer' = [cPeer EXCEPT ![c] = "gone"] /\ cPc = "walk" /\ i = 0 /\ i' = 1
        /\ cKiller' = IF cErr[c] = "pipe" THEN c ELSE None
        /\ UNCHANGED <<cErr, cFd, fds, user_counter, cPc, cLate>>
    BY <1>6 DEF Chat!Refuse
  <2>2. cFd[c] = None
    BY <2>1 DEF ChatEntriesInv
  <2>3. Chat!KilledOnlyUnseen'
    BY <2>1, <2>2 DEF Chat!KilledOnlyUnseen
  <2>4. \A d \in ChatClients : cPeer'[d] = IF d = c THEN "gone" ELSE cPeer[d]
    BY <2>1 DEF ChatTypeInv
  <2>5. \A k \in 1..user_counter : k >= i /\ cFd[c] # fds[k].fd
    BY <2>1, <2>2 DEF ChatEntriesInv
  <2>. QED  BY <2>1, <2>3, <2>4, <2>5 DEF ChatErrorInv
<1>7. ASSUME Chat!Handling("ERR") \/ Chat!HandleInput \/ Chat!Handling("OUT") \/ Chat!SkipEntry,
             i \in 1..user_counter, cPc = "walk",
             UNCHANGED <<cFd, user_counter, cPeer, cLate>>, i' = i + 1, Chat!KilledOnlyUnseen',
             \A k \in 1..user_counter : fds'[k].fd = fds[k].fd /\ fds'[k].revents = fds[k].revents,
             \A c \in ChatClients \ {Chat!At} : cErr'[c] = cErr[c],
             cErr'[Chat!At] # "no" => cPeer[Chat!At] \in {"shut", "gone"}
      PROVE  ChatErrorInv'
  <2>1. PICK a \in ChatClients :
          /\ \A c \in ChatClients \ {a} : cErr'[c] = cErr[c]
          /\ cErr'[a] # "no" => cPeer[a] \in {"shut", "gone"}
          /\ \A k \in 1..user_counter, c \in ChatClients : cFd[c] = fds[k].fd => (c = a <=> k = i)
    BY <1>7, WalkFacts
  <2>2. \A k \in 1..user_counter : k >= i + 1 => k >= i /\ k # i
    BY DEF ChatTypeInv
  <2>. QED  BY <1>7, <2>1, <2>2 DEF ChatErrorInv
<1>8. CASE Chat!HandleError
  <2>1. /\ i \in 1..user_counter /\ cPc = "walk" /\ i' = i + 1 /\ UNCHANGED <<cFd, user_counter, cPeer, fds, cLate>>
        /\ cKiller' = None
        /\ cErr' = [cErr EXCEPT ![Chat!At] = IF @ = "no" THEN "no" ELSE "seen"] /\ Chat!Handling("ERR")
    BY <1>13, <1>8 DEF Chat!HandleError, Chat!Handling, Chat!Proceed
  <2>2. Chat!At \in ChatClients
    BY <2>1, WalkFacts
  <2>. HIDE DEF Chat!At
  <2>3. /\ \A c \in ChatClients \ {Chat!At} : cErr'[c] = cErr[c]
        /\ cErr'[Chat!At] # "no" => cErr[Chat!At] # "no"
    BY <2>1, <2>2 DEF ChatTypeInv
  <2>. QED  BY <1>7, <2>1, <2>2, <2>3 DEF ChatErrorInv, Chat!KilledOnlyUnseen
<1>9. CASE Chat!HandleHangUp
  <2>1. i \in 1..user_counter /\ Chat!Remove /\ UNCHANGED <<i, cPc, cLate>> /\ cKiller' = None
    BY <1>13, <1>9 DEF Chat!HandleHangUp, Chat!Handling, Chat!Remove
  <2>2. PICK a \in ChatClients :
          /\ cFd'[a] = None /\ cErr'[a] = "no"
          /\ \A c \in ChatClients \ {a} : cFd'[c] = cFd[c] /\ cErr'[c] = cErr[c] /\ cPeer'[c] = cPeer[c]
    BY <2>1, WalkFacts, RemoveFacts
  <2>3. \A k \in 1..user_counter' : fds'[k] = fds[Origin(k)] /\ Origin(k) \in 1..user_counter
                                    /\ (k >= i => Origin(k) >= i)
    BY <2>1, RemoveFacts
  <2>. HIDE DEF Origin
  <2>4. \A k \in 1..user_counter' : fds'[k].fd # None
    BY <2>3 DEF ChatEntriesInv
  <2>. QED  BY <2>1, <2>2, <2>3, <2>4 DEF ChatErrorInv, Chat!KilledOnlyUnseen
<1>10. CASE Chat!Receive
  <2>1. /\ i \in 1..user_counter /\ cPc = "walk" /\ i' = i + 1 /\ UNCHANGED <<cFd, user_counter, cPeer, cErr, cLate>>
        /\ Chat!HandleInput /\ Chat!Announce /\ cKiller' = None
    BY <1>13, <1>10 DEF Chat!Receive, Chat!HandleInput, Chat!Handling, Chat!Proceed
  <2>2. \A k \in 1..user_counter : fds'[k].fd = fds[k].fd /\ fds'[k].revents = fds[k].revents
    BY <2>1, AnnounceFacts
  <2>. QED  BY <1>7, <2>1, <2>2, WalkFacts DEF ChatErrorInv, Chat!KilledOnlyUnseen
<1>11. CASE Chat!SendPending
  <2>1. /\ i \in 1..user_counter /\ cPc = "walk" /\ i' = i + 1 /\ UNCHANGED <<cFd, user_counter, cPeer, cLate>>
        /\ Chat!Handling("OUT") /\ "OUT" \in fds[i].revents /\ fds[i].revents \cap {"ERR", "RDHUP"} = {}
    BY <1>11 DEF Chat!SendPending, Chat!Handling, Chat!Entry
  <2>2. Chat!At \in ChatClients /\ cFd[Chat!At] = fds[i].fd
    BY <2>1, WalkFacts
  <2>3. i >= i
    BY <2>1
  <2>4. cErr[Chat!At] # "seen" /\ (cErr[Chat!At] = "pipe" => Chat!At \in cLate)
    BY <2>1, <2>2, <2>3 DEF ChatErrorInv
  <2>5. Chat!KilledOnlyUnseen'
    <3>1. /\ cKiller' = IF cErr[Chat!At] \in {"pipe", "seen"} THEN Chat!At ELSE None
          /\ cErr[Chat!At] = "pipe" => cErr'[Chat!At] = "pipe"
      BY <1>11, <2>1, SendFacts
    <3>. HIDE DEF Chat!At
    <3>. QED  BY <2>1, <2>4, <3>1 DEF Chat!KilledOnlyUnseen
  <2>6. /\ \A c \in ChatClients \ {Chat!At} : cErr'[c] = cErr[c]
        /\ cErr'[Chat!At] # "no" => cPeer[Chat!At] \in {"shut", "gone"}
        /\ \A k \in 1..user_counter : fds'[k].fd = fds[k].fd /\ fds'[k].revents = fds[k].revents
    BY <1>11, <2>1, <2>2, SendFacts DEF ChatErrorInv
  <2>. QED  BY <1>7, <2>1, <2>5, <2>6
<1>12. CASE Chat!SkipEntry
  <2>1. /\ i \in 1..user_counter /\ cPc = "walk" /\ i' = i + 1
        /\ UNCHANGED <<cFd, user_counter, cPeer, fds, cErr, cLate>> /\ cKiller' = None
    BY <1>13, <1>12 DEF Chat!SkipEntry, Chat!Proceed
  <2>. QED  BY <1>7, <1>12, <2>1, WalkFacts DEF ChatErrorInv, Chat!KilledOnlyUnseen
<1>. QED
  BY <1>1, <1>2, <1>3, <1>4, <1>5, <1>6, <1>8, <1>9, <1>10, <1>11, <1>12 DEF Chat!Next, Chat!Server

LEMMA ChatReadyStep ==
  ChatTypeInv /\ ChatEntriesInv /\ ChatReadyInv /\ [Chat!Next]_chatVars => ChatReadyInv'
<1>. SUFFICES ASSUME ChatTypeInv, ChatEntriesInv, ChatReadyInv, [Chat!Next]_chatVars PROVE ChatReadyInv'
  OBVIOUS
<1>. USE DEF Chat!kernelVars, Chat!dataVars
<1>1. CASE Chat!Environment \/ UNCHANGED chatVars
  <2>1. UNCHANGED <<cFd, user_counter, fds, i, cPc, ready>>
    BY <1>1 DEF Chat!Environment, Chat!Connect, Chat!Say, Chat!Shut, Chat!Abort, chatVars
  <2>. QED  BY <2>1 DEF ChatReadyInv
<1>2. CASE Chat!Poll
  <2>1. /\ UNCHANGED <<cFd, user_counter>> /\ cPc' = "walk" /\ i' = 0
        /\ \A k \in 1..user_counter : fds'[k].fd = fds[k].fd
        /\ ready' = {Chat!ClientOf(fds[k].fd) : k \in {n \in 1..user_counter : fds'[n].revents # {}}}
    BY <1>2, PollFacts
  <2>2. ASSUME NEW c \in ready'
        PROVE  \E k \in 1..user_counter : k >= 0 /\ fds'[k].fd = cFd[c] /\ fds'[k].revents # {}
    <3>1. PICK k \in 1..user_counter : fds'[k].revents # {} /\ c = Chat!ClientOf(fds[k].fd)
      BY <2>1, <2>2
    <3>2. cFd[c] = fds[k].fd
      BY <3>1, EntryClient
    <3>. QED  BY <2>1, <3>1, <3>2
  <2>. QED  BY <2>1, <2>2 DEF ChatReadyInv
<1>3. CASE Chat!WalkEnds
  BY <1>3 DEF Chat!WalkEnds, ChatReadyInv
<1>4. CASE Chat!SkipListen \/ \E c \in ChatClients : Chat!Refuse(c)
  <2>1. UNCHANGED <<cFd, user_counter, fds, cPc, ready>> /\ cPc = "walk" /\ i' = 1
    BY <1>4 DEF Chat!SkipListen, Chat!Refuse
  <2>2. \A k \in 1..user_counter : k >= 1
    OBVIOUS
  <2>. QED  BY <2>1, <2>2 DEF ChatReadyInv
<1>5. ASSUME NEW c \in ChatClients, Chat!Accept(c) PROVE ChatReadyInv'
  <2>1. PICK f \in ChatFDs :
          /\ cFd' = [cFd EXCEPT ![c] = f] /\ user_counter' = user_counter + 1
          /\ \A k \in 1..user_counter : fds'[k] = fds[k]
    BY <1>5, AcceptFacts
  <2>2. c \in cBacklog /\ cPc = "walk" /\ i' = 1 /\ UNCHANGED <<cPc, ready>>
    BY <1>5 DEF Chat!Accept
  <2>3. cFd[c] = None /\ \A d \in ChatClients : d # c => cFd'[d] = cFd[d]
    BY <2>1, <2>2 DEF ChatEntriesInv, ChatTypeInv
  <2>4. \A k \in 1..user_counter : k \in 1..user_counter' /\ k >= 1 /\ fds[k].fd # None
    BY <2>1, ChatAssumption DEF ChatTypeInv, ChatEntriesInv
  <2>5. ASSUME NEW d \in ready
        PROVE  \E k \in 1..user_counter' : k >= 1 /\ fds'[k].fd = cFd'[d] /\ fds'[k].revents # {}
    <3>1. PICK k \in 1..user_counter : fds[k].fd = cFd[d] /\ fds[k].revents # {}
      BY DEF ChatReadyInv
    <3>2. d \in ChatClients /\ d # c
      BY <2>3, <2>4, <3>1 DEF ChatTypeInv
    <3>. QED  BY <2>1, <2>3, <2>4, <3>1, <3>2
  <2>. QED  BY <2>2, <2>5 DEF ChatReadyInv
<1>7. ASSUME i \in 1..user_counter, cPc = "walk", UNCHANGED <<cFd, user_counter, cPc>>, i' = i + 1,
             ready' = ready \ {Chat!At},
             \A k \in 1..user_counter : fds'[k].fd = fds[k].fd /\ fds'[k].revents = fds[k].revents
      PROVE  ChatReadyInv'
  <2>1. PICK a \in ChatClients :
          /\ ready' = ready \ {a}
          /\ \A k \in 1..user_counter, c \in ChatClients : cFd[c] = fds[k].fd => (c = a <=> k = i)
    BY <1>7, WalkFacts
  <2>2. \A k \in 1..user_counter : k >= i /\ k # i => k >= i + 1
    BY DEF ChatTypeInv
  <2>. QED  BY <1>7, <2>1, <2>2 DEF ChatReadyInv, ChatTypeInv
<1>8. CASE Chat!HandleError \/ Chat!SkipEntry
  BY <1>7, <1>8 DEF Chat!HandleError, Chat!Handling, Chat!SkipEntry, Chat!Proceed
<1>9. CASE Chat!HandleHangUp
  <2>1. i \in 1..user_counter /\ Chat!Remove /\ UNCHANGED <<i, cPc>> /\ ready' = ready \ {Chat!At} /\ cPc = "walk"
    BY <1>9 DEF Chat!HandleHangUp, Chat!Handling, Chat!Remove
  <2>2. PICK a \in ChatClients :
          /\ ready' = ready \ {a}
          /\ \A k \in 1..user_counter, c \in ChatClients : cFd[c] = fds[k].fd => (c = a <=> k = i)
          /\ \A c \in ChatClients \ {a} : cFd'[c] = cFd[c]
    BY <2>1, WalkFacts, RemoveFacts
  <2>3. /\ \A k \in 1..user_counter' : fds'[k] = fds[Origin(k)]
        /\ \A k \in (1..user_counter) \ {i} : \E n \in 1..user_counter' : Origin(n) = k /\ (k >= i => n >= i)
    BY <2>1, RemoveFacts
  <2>. HIDE DEF Origin
  <2>4. ASSUME NEW c \in ready'
        PROVE  \E n \in 1..user_counter' : n >= i /\ fds'[n].fd = cFd'[c] /\ fds'[n].revents # {}
    <3>1. c \in ChatClients \ {a} /\ c \in ready
      BY <2>2 DEF ChatTypeInv
    <3>2. PICK k \in 1..user_counter : k >= i /\ fds[k].fd = cFd[c] /\ fds[k].revents # {}
      BY <3>1 DEF ChatReadyInv
    <3>3. k # i
      BY <2>2, <3>1, <3>2
    <3>4. PICK n \in 1..user_counter' : Origin(n) = k /\ n >= i
      BY <2>3, <3>2, <3>3
    <3>. QED  BY <2>2, <2>3, <3>1, <3>2, <3>4
  <2>. QED  BY <2>1, <2>4 DEF ChatReadyInv
<1>10. CASE Chat!Receive
  <2>1. /\ i \in 1..user_counter /\ cPc = "walk" /\ i' = i + 1 /\ UNCHANGED <<cFd, user_counter, cPc>>
        /\ ready' = ready \ {Chat!At} /\ Chat!Announce
    BY <1>10 DEF Chat!Receive, Chat!HandleInput, Chat!Handling, Chat!Proceed
  <2>2. \A k \in 1..user_counter : fds'[k].fd = fds[k].fd /\ fds'[k].revents = fds[k].revents
    BY <2>1, AnnounceFacts
  <2>. QED  BY <1>7, <2>1, <2>2
<1>11. CASE Chat!SendPending
  <2>1. /\ i \in 1..user_counter /\ cPc = "walk" /\ i' = i + 1 /\ UNCHANGED <<cFd, user_counter, cPc>>
        /\ ready' = ready \ {Chat!At}
    BY <1>11 DEF Chat!SendPending, Chat!Handling
  <2>2. \A k \in 1..user_counter : fds'[k].fd = fds[k].fd /\ fds'[k].revents = fds[k].revents
    BY <1>11, <2>1, SendFacts
  <2>. QED  BY <1>7, <2>1, <2>2
<1>. QED
  BY <1>1, <1>2, <1>3, <1>4, <1>5, <1>8, <1>9, <1>10, <1>11 DEF Chat!Next, Chat!Server

-----------------------------------------------------------------------------
LEMMA ChatStep == ChatInv /\ [Chat!Next]_chatVars => ChatInv'
BY ChatTypeStep, ChatEntriesStep, ChatToldStep, ChatErrorStep, ChatReadyStep DEF ChatInv

LEMMA ChatAlways == FairSpec => []ChatInv
<1>1. Init => ChatInv
  BY ChatInitially DEF Init
<1>2. ChatInv /\ [Next]_vars => ChatInv'
  <2>1. [Next]_vars => [Chat!Next]_chatVars
    BY DEF Next, vars
  <2>. QED  BY <2>1, ChatStep
<1>. QED  BY <1>1, <1>2, PTL DEF FairSpec

(* For any number of clients and any limit, removing an entry of the array *)
(* that is being walked loses and skips nobody (chatroom_server.cpp:84,    *)
(* 123-127), and whoever waits to be told something points to the words of *)
(* the client that said it (chatroom_server.cpp:149-152, 160-165); and     *)
(* SIGPIPE ends the room only through a client that shut down and was      *)
(* reset since the poll, or in the listen queue, as there is one send per  *)
(* round, after errors and hang-ups were looked at (chatroom_server.cpp:   *)
(* 95-165).                                                                *)
THEOREM RoomServed == FairSpec => []RoomIsServed
<1>1. ChatInv => Chat!WalkIsComplete
  <2>. SUFFICES ASSUME ChatInv PROVE Chat!EntriesMatchClients /\ Chat!NobodySkipped
    BY DEF Chat!WalkIsComplete
  <2>1. ChatTypeInv /\ ChatEntriesInv /\ ChatReadyInv
    BY DEF ChatInv
  <2>2. \A f : f \in {fds[k].fd : k \in 1..user_counter} <=> f \in {cFd[c] : c \in ChatClients} \ {None}
    BY <2>1 DEF ChatEntriesInv
  <2>3. Chat!EntriesMatchClients
    BY <2>1, <2>2 DEF Chat!EntriesMatchClients, ChatEntriesInv
  <2>4. \A k \in 1..user_counter : k >= i => k \in i..user_counter /\ k > 0
    BY <2>1 DEF ChatTypeInv
  <2>5. Chat!NobodySkipped
    BY <2>1, <2>4 DEF Chat!NobodySkipped, ChatReadyInv
  <2>. QED  BY <2>3, <2>5
<1>2. ChatInv => Chat!WaitingToBeTold
  <2>. SUFFICES ASSUME ChatInv, NEW c \in ChatClients, cFd[c] # None,
                       NEW k, k = CHOOSE n \in 1..user_counter : fds[n].fd = cFd[c]
                PROVE  /\ "OUT" \in fds[k].events <=> "IN" \notin fds[k].events
                       /\ "OUT" \in fds[k].events <=> owed[c] # None
                       /\ owed[c] # None => users[cFd[c]].write_buf \notin {None, cFd[c]}
                       /\ (owed[c] # None /\ cFd[owed[c]] # None) =>
                            users[cFd[c]].write_buf = cFd[owed[c]]
                            /\ users[users[cFd[c]].write_buf].buf = owed[c]
    BY DEF Chat!WaitingToBeTold
  <2>1. ChatEntriesInv /\ ChatToldInv
    BY DEF ChatInv
  <2>2. k \in 1..user_counter /\ fds[k].fd = cFd[c]
    BY <2>1 DEF ChatEntriesInv
  <2>3. fds[k].events \in {Listens, Writes} /\ (fds[k].events = Writes <=> owed[c] # None)
    BY <2>1, <2>2 DEF ChatToldInv
  <2>4. \A E \in {Listens, Writes} : ("OUT" \in E <=> "IN" \notin E) /\ ("OUT" \in E <=> E = Writes)
    BY DEF Listens, Writes
  <2>. QED  BY <2>1, <2>3, <2>4 DEF ChatToldInv
<1>3. ChatInv => Chat!KilledOnlyUnseen
  BY DEF ChatInv, ChatErrorInv
<1>4. ChatInv => RoomIsServed
  BY <1>1, <1>2, <1>3 DEF RoomIsServed
<1>. QED  BY <1>4, ChatAlways, PTL

-----------------------------------------------------------------------------
(* The single-threaded servers.  The loop reads one connection at a time,  *)
(* which is no longer in the batch; an event stays good until its turn     *)
(* because nobody but the loop takes anything away.                        *)
EpollTypeInv ==
  /\ style \in Epoll!Styles
  /\ ePeer \in [EpollClients -> {"new", "open", "closed"}]
  /\ eUnread \in [EpollClients -> Nat]
  /\ eErr \in [EpollClients -> {"no", "reset", "pipe", "seen"}]
  /\ eBacklog \subseteq EpollClients /\ eOpen \subseteq EpollClients
  /\ eEdge \subseteq EpollClients \cup {"listen", "udp"}
  /\ eBatch \subseteq EpollClients \cup {"listen", "udp"}
  /\ datagrams \in Nat
  /\ ePc \in {"wait", "dispatch", "read"}

EpollLoopInv ==
  /\ ePc = "wait" => eBatch = {}
  /\ ePc = "read" => conn \in EpollClients \ eBatch
  /\ eBacklog \cap eOpen = {}
  /\ \A c \in EpollClients : ePeer[c] = "new" => c \notin eBacklog \cup eOpen

EpollInv == EpollTypeInv /\ EpollLoopInv /\ Epoll!EventsCoverInput

LEMMA EpollInitially == Epoll!Init => EpollInv
BY DEF Epoll!Init, EpollInv, EpollTypeInv, EpollLoopInv, Epoll!EventsCoverInput

LEMMA EpollTypeStep == EpollTypeInv /\ EpollLoopInv /\ Epoll!EventsCoverInput /\ [Epoll!Next]_epollVars => EpollTypeInv'
<1>. SUFFICES ASSUME EpollTypeInv, EpollLoopInv, Epoll!EventsCoverInput, [Epoll!Next]_epollVars
              PROVE  EpollTypeInv'
  OBVIOUS
<1>. USE DEF EpollTypeInv, Epoll!kernelVars
<1>1. CASE Epoll!Environment
  BY <1>1 DEF Epoll!Environment, Epoll!SendDatagram, Epoll!Connect, Epoll!Send, Epoll!Close, Epoll!Reset, Epoll!Raised
<1>2. CASE Epoll!Wait
  BY <1>2 DEF Epoll!Wait, Epoll!Reported
<1>3. CASE Epoll!BatchDone \/ Epoll!AcceptFails
  BY <1>3 DEF Epoll!BatchDone, Epoll!AcceptFails
<1>4. CASE Epoll!EchoDatagram
  BY <1>4 DEF Epoll!EchoDatagram, Epoll!EventsCoverInput
<1>5. ASSUME NEW c \in EpollClients, Epoll!AcceptOne(c) \/ Epoll!BeginRead(c) PROVE EpollTypeInv'
  BY <1>5 DEF Epoll!AcceptOne, Epoll!BeginRead
<1>6. CASE Epoll!ReadData
  <2>1. conn \in EpollClients /\ eUnread' \in [EpollClients -> Nat]
    BY <1>6 DEF Epoll!ReadData
  <2>2. eErr' \in [EpollClients -> {"no", "reset", "pipe", "seen"}]
    BY <1>6, <2>1 DEF Epoll!ReadData, Epoll!Echo
  <2>. QED  BY <1>6, <2>1, <2>2 DEF Epoll!ReadData, Epoll!Leave, Epoll!AfterData
<1>7. CASE Epoll!ReadAgain \/ Epoll!ReadClosed
  BY <1>7 DEF Epoll!ReadAgain, Epoll!ReadClosed, Epoll!Leave
<1>8. CASE Epoll!ReadEnd
  BY <1>8 DEF Epoll!ReadEnd, Epoll!CloseConn, Epoll!Leave, Epoll!AfterEnd
<1>9. CASE Epoll!ReadError
  BY <1>9 DEF Epoll!ReadError, Epoll!CloseConn, Epoll!Leave
<1>10. CASE UNCHANGED epollVars
  BY <1>10 DEF epollVars
<1>. QED
  BY <1>1, <1>2, <1>3, <1>4, <1>5, <1>6, <1>7, <1>8, <1>9, <1>10 DEF Epoll!Next, Epoll!Server

LEMMA EpollLoopStep == EpollTypeInv /\ EpollLoopInv /\ [Epoll!Next]_epollVars => EpollLoopInv'
<1>. SUFFICES ASSUME EpollTypeInv, EpollLoopInv, [Epoll!Next]_epollVars
              PROVE  EpollLoopInv'
  OBVIOUS
<1>. USE DEF EpollTypeInv, EpollLoopInv, Epoll!kernelVars
<1>1. CASE Epoll!Environment
  BY <1>1 DEF Epoll!Environment, Epoll!SendDatagram, Epoll!Connect, Epoll!Send, Epoll!Close, Epoll!Reset
<1>2. CASE Epoll!Wait \/ Epoll!BatchDone \/ Epoll!AcceptFails \/ Epoll!EchoDatagram
  BY <1>2 DEF Epoll!Wait, Epoll!BatchDone, Epoll!AcceptFails, Epoll!EchoDatagram
<1>3. ASSUME NEW c \in EpollClients, Epoll!AcceptOne(c) \/ Epoll!BeginRead(c) PROVE EpollLoopInv'
  BY <1>3 DEF Epoll!AcceptOne, Epoll!BeginRead
<1>4. CASE Epoll!ReadData \/ Epoll!ReadAgain \/ Epoll!ReadClosed
  BY <1>4 DEF Epoll!ReadData, Epoll!ReadAgain, Epoll!ReadClosed, Epoll!Leave, Epoll!AfterData
<1>5. CASE Epoll!ReadEnd \/ Epoll!ReadError
  BY <1>5 DEF Epoll!ReadEnd, Epoll!ReadError, Epoll!CloseConn, Epoll!Leave, Epoll!AfterEnd, Epoll!AtEnd
<1>6. CASE UNCHANGED epollVars
  BY <1>6 DEF epollVars
<1>. QED
  BY <1>1, <1>2, <1>3, <1>4, <1>5, <1>6 DEF Epoll!Next, Epoll!Server

(* Input that comes raises its edge, and whoever is given up has sent all. *)
LEMMA EpollArrives == EpollInv /\ Epoll!Environment => Epoll!EventsCoverInput'
<1>. SUFFICES ASSUME EpollInv, Epoll!Environment PROVE Epoll!EventsCoverInput'
  OBVIOUS
<1>. USE EpollAssumption
         DEF EpollInv, EpollTypeInv, EpollLoopInv, Epoll!EventsCoverInput, Epoll!Known,
             Epoll!Abandoned, Epoll!Readable, Epoll!Loop, Epoll!Environment
<1>1. CASE Epoll!SendDatagram
  BY <1>1 DEF Epoll!SendDatagram
<1>2. ASSUME NEW c \in EpollClients, Epoll!Connect(c) PROVE Epoll!EventsCoverInput'
  BY <1>2 DEF Epoll!Connect
<1>3. ASSUME NEW c \in EpollClients, Epoll!Send(c) PROVE Epoll!EventsCoverInput'
  <2>1. \A d \in EpollClients : d # c => eUnread'[d] = eUnread[d]
    BY <1>3 DEF Epoll!Send
  <2>2. eUnread'[c] = eUnread[c] + 1 /\ eUnread[c] \in Nat
    BY <1>3 DEF Epoll!Send
  <2>. QED  BY <1>3, <2>1, <2>2 DEF Epoll!Send, Epoll!Raised
<1>4. ASSUME NEW c \in EpollClients, Epoll!Close(c) PROVE Epoll!EventsCoverInput'
  <2>1. \A d \in EpollClients : d # c => ePeer'[d] = ePeer[d] /\ eErr'[d] = eErr[d]
    BY <1>4 DEF Epoll!Close
  <2>2. ePeer'[c] = "closed" /\ (c \in eOpen => c \in eEdge')
    BY <1>4 DEF Epoll!Close, Epoll!Raised
  <2>. QED  BY <1>4, <2>1, <2>2 DEF Epoll!Close, Epoll!Raised
<1>5. ASSUME NEW c \in EpollClients, Epoll!Reset(c) PROVE Epoll!EventsCoverInput'
  <2>1. \A d \in EpollClients : d # c => eErr'[d] = eErr[d]
    BY <1>5 DEF Epoll!Reset
  <2>2. c \in eOpen => c \in eEdge'
    BY <1>5 DEF Epoll!Reset, Epoll!Raised
  <2>. QED  BY <1>5, <2>1, <2>2 DEF Epoll!Reset, Epoll!Raised
<1>. QED  BY <1>1, <1>2, <1>3, <1>4, <1>5

(* What epoll_wait reports, and what the loop does with it. *)
LEMMA EpollServes == EpollInv /\ Epoll!Server => Epoll!EventsCoverInput'
<1>. SUFFICES ASSUME EpollInv, Epoll!Server PROVE Epoll!EventsCoverInput'
  OBVIOUS
<1>. USE EpollAssumption
         DEF EpollInv, EpollTypeInv, EpollLoopInv, Epoll!EventsCoverInput, Epoll!Known,
             Epoll!Abandoned, Epoll!Readable, Epoll!kernelVars
<1>1. CASE Epoll!Wait
  BY <1>1 DEF Epoll!Wait, Epoll!Reported, Epoll!Loop
<1>2. CASE Epoll!BatchDone \/ Epoll!AcceptFails \/ Epoll!EchoDatagram
  BY <1>2 DEF Epoll!BatchDone, Epoll!AcceptFails, Epoll!EchoDatagram, Epoll!Loop
<1>3. ASSUME NEW c \in EpollClients, Epoll!AcceptOne(c) PROVE Epoll!EventsCoverInput'
  BY <1>3 DEF Epoll!AcceptOne, Epoll!Loop
<1>4. ASSUME NEW c \in EpollClients, Epoll!BeginRead(c) PROVE Epoll!EventsCoverInput'
  BY <1>4 DEF Epoll!BeginRead, Epoll!Loop
<1>5. CASE Epoll!ReadData
  <2>1. \A c \in EpollClients : c # conn => eUnread'[c] = eUnread[c] /\ eErr'[c] = eErr[c]
    BY <1>5 DEF Epoll!ReadData, Epoll!Echo
  <2>2. (ePc' = "read" /\ conn' = conn) \/ Epoll!Loop.level
    BY <1>5 DEF Epoll!ReadData, Epoll!Leave, Epoll!AfterData, Epoll!Loop, Epoll!Styles, Epoll!lt,
                Epoll!et, Epoll!tcp_udp, Epoll!epoll, Epoll!class
  <2>3. Epoll!Loop.level' <=> Epoll!Loop.level
    BY <1>5 DEF Epoll!ReadData, Epoll!Loop
  <2>. QED  BY <1>5, <2>1, <2>2, <2>3 DEF Epoll!ReadData
<1>6. CASE Epoll!ReadAgain \/ Epoll!ReadClosed
  BY <1>6 DEF Epoll!ReadAgain, Epoll!ReadClosed, Epoll!Loop
<1>7. CASE Epoll!ReadEnd
  BY <1>7 DEF Epoll!ReadEnd, Epoll!CloseConn, Epoll!Loop, Epoll!AtEnd
<1>8. CASE Epoll!ReadError
  <2>1. \A c \in EpollClients : c # conn => eErr'[c] = eErr[c]
    BY <1>8 DEF Epoll!ReadError
  <2>2. eErr'[conn] = "seen" /\ eUnread[conn] = 0
    BY <1>8 DEF Epoll!ReadError, Epoll!AtEnd
  <2>3. \/ conn \notin eOpen'
        \/ ePc' = "read" /\ conn' = conn
        \/ style = "class"
    BY <1>8 DEF Epoll!ReadError, Epoll!CloseConn, Epoll!Leave, Epoll!Loop, Epoll!Styles, Epoll!lt,
                Epoll!et, Epoll!tcp_udp, Epoll!epoll, Epoll!class
  <2>4. Epoll!Loop.level' <=> Epoll!Loop.level
    BY <1>8 DEF Epoll!ReadError, Epoll!Loop
  <2>. QED  BY <1>8, <2>1, <2>2, <2>3, <2>4 DEF Epoll!ReadError, Epoll!CloseConn, Epoll!AtEnd
<1>. QED  BY <1>1, <1>2, <1>3, <1>4, <1>5, <1>6, <1>7, <1>8 DEF Epoll!Server

LEMMA EpollStep == EpollInv /\ [Epoll!Next]_epollVars => EpollInv'
<1>. SUFFICES ASSUME EpollInv, [Epoll!Next]_epollVars PROVE EpollInv'
  OBVIOUS
<1>1. EpollTypeInv' /\ EpollLoopInv'
  BY EpollTypeStep, EpollLoopStep DEF EpollInv
<1>2. Epoll!EventsCoverInput'
  <2>1. CASE UNCHANGED epollVars
    BY <2>1 DEF epollVars, EpollInv, Epoll!EventsCoverInput, Epoll!Known, Epoll!Abandoned,
                Epoll!Readable, Epoll!Loop
  <2>. QED  BY <2>1, EpollArrives, EpollServes DEF Epoll!Next
<1>. QED  BY <1>1, <1>2 DEF EpollInv

(* None of the five single-threaded loops forgets input or calls for       *)
(* nothing, for any number of clients, chunks and datagrams                *)
(* (LT_ET_test.cpp:57-119, process_tcp_udp_simultaneously.cpp:71-118).     *)
THEOREM NoEventForgotten == FairSpec => []EventsCoverInput
<1>1. Init => EpollInv
  BY EpollInitially DEF Init
<1>2. EpollInv /\ [Next]_vars => EpollInv'
  <2>1. [Next]_vars => [Epoll!Next]_epollVars
    BY DEF Next, vars
  <2>. QED  BY <2>1, EpollStep
<1>3. EpollInv => EventsCoverInput
  BY DEF EpollInv, EventsCoverInput
<1>. QED  BY <1>1, <1>2, <1>3, PTL DEF FairSpec
===============================================================================
