------------------------- MODULE MainSubReactorProofs -------------------------
(***************************************************************************)
(* The safety invariants of MainSubReactor, for any number of clients,     *)
(* descriptors, sub-reactors, chunks and lines.  The four are inductive    *)
(* together: that a reported socket is still live rests on the map leading *)
(* back to the connection being deleted, which rests on descriptors being  *)
(* unique although they are reused, and on the callback being set after    *)
(* the map is.  What Lose leaves behind satisfies the invariant as the     *)
(* initial state does, so no conjunct has to mention lost.                 *)
(***************************************************************************)
EXTENDS MainSubReactor, WellFoundedInduction, TLAPS

(* mconn is being set up by handleNewConnection. *)
SettingUp == mpc \in {"register", "store", "callback"}

TypeInv ==
  /\ peer \in [Clients -> {"new", "open", "closed"}]
  /\ unread \in [Clients -> Nat] /\ reset \in [Clients -> {"no", "pending", "seen"}]
  /\ backlog \subseteq Clients
  /\ fd \in [Clients -> FDs \cup {None}]
  /\ connections \in [FDs -> Clients \cup {None}]
  /\ alive \subseteq Clients /\ hasCallback \subseteq alive /\ edge \subseteq alive
  /\ spc \in [Subs -> {"wait", "dispatch", "read", "write", "lookup", "erase", "delete"}]
  /\ sbatch \in [Subs -> SUBSET Clients]
  /\ sconn \in [Subs -> Clients \cup {None}]

(* Who has a descriptor, and that no two clients have the same. *)
FdInv ==
  /\ \A c \in Clients : fd[c] # None <=> c \in alive \/ (mpc = "register" /\ mconn = c)
  /\ \A c, d \in Clients : fd[c] # None /\ fd[c] = fd[d] => c = d
  /\ \A c \in Clients : /\ peer[c] = "new" => fd[c] = None /\ c \notin backlog
                        /\ c \in backlog => fd[c] = None

SetupInv ==
  /\ SettingUp => mconn \in Clients \ hasCallback
  /\ mpc = "register" => mconn \notin alive
  /\ mpc \in {"store", "callback"} => mconn \in alive

MapInv ==
  /\ \A f \in FDs : connections[f] # None =>
        connections[f] \in alive /\ fd[connections[f]] = f
  /\ \A c \in alive : \/ connections[fd[c]] = c
                      \/ mconn = c /\ mpc = "store"
                      \/ \E r \in Subs : sconn[r] = c /\ spc[r] = "delete"

(* A sub-reactor and the sockets it has in hand. *)
SubInv ==
  \A r \in Subs :
    /\ \A c \in sbatch[r] : c \in alive /\ ReactorOf(fd[c]) = r
    /\ sconn[r] # None => sconn[r] \in alive /\ ReactorOf(fd[sconn[r]]) = r
    /\ sconn[r] \notin sbatch[r]
    /\ spc[r] \in {"wait", "dispatch"} <=> sconn[r] = None
    /\ spc[r] = "wait" => sbatch[r] = {}
    /\ spc[r] \in {"lookup", "erase", "delete"} => sconn[r] \in hasCallback
    /\ spc[r] \in {"lookup", "erase"} => connections[fd[sconn[r]]] = sconn[r]
    /\ spc[r] = "delete" => connections[fd[sconn[r]]] = None

(* NoStrandedInput, whether or not the process is lost. *)
InputInv ==
  \A c \in alive : Readable(c) =>
    \/ c \in edge
    \/ \E r \in Subs : c \in sbatch[r] \/ sconn[r] = c

IInv == TypeInv /\ FdInv /\ SetupInv /\ MapInv /\ SubInv /\ InputInv

-----------------------------------------------------------------------------
(* Lowest picks an element of its argument: POSIX's lowest free number. *)
LEMMA LowestIsIn ==
  ASSUME NEW S \in SUBSET Nat, S # {} PROVE Lowest(S) \in S
<1>1. \E n \in S : \A m \in S : ~ (<<m, n>> \in OpToRel(<, Nat))
  BY WFMin, NatLessThanWellFounded
<1>2. ASSUME NEW n \in S, NEW m \in S, ~ (<<m, n>> \in OpToRel(<, Nat)) PROVE n <= m
  BY <1>2 DEF OpToRel
<1>3. \E n \in S : \A m \in S : n <= m
  BY <1>1, <1>2
<1>. QED  BY <1>3 DEF Lowest

(* The initial state, and the state in which Lose leaves the process. *)
LEMMA Initially == Init => IInv
<1>. SUFFICES ASSUME Init PROVE IInv
  OBVIOUS
<1>. USE NoneAssumption DEF Init
<1>1. TypeInv
  BY DEF TypeInv
<1>2. FdInv /\ SetupInv
  BY DEF FdInv, SetupInv, SettingUp
<1>3. MapInv /\ SubInv /\ InputInv
  BY DEF MapInv, SubInv, InputInv
<1>. QED  BY <1>1, <1>2, <1>3 DEF IInv

LEMMA Losing == ASSUME NEW how, Lose(how) PROVE IInv'
<1>. USE NoneAssumption DEF Lose
<1>1. TypeInv'
  BY DEF TypeInv, Subs
<1>2. FdInv' /\ SetupInv'
  BY DEF FdInv, SetupInv, SettingUp
<1>3. MapInv' /\ SubInv' /\ InputInv'
  BY DEF MapInv, SubInv, InputInv, Subs
<1>. QED  BY <1>1, <1>2, <1>3 DEF IInv

-----------------------------------------------------------------------------
(* The environment raises an edge on every socket it makes readable. *)
LEMMA EnvironmentStep == IInv /\ Environment => IInv'
<1>. SUFFICES ASSUME IInv, Environment PROVE IInv'
  OBVIOUS
<1>. USE DEF IInv, stdinVars, serverVars, mainVars, subVars
<1>1. CASE TypeLine /\ UNCHANGED <<kernelVars, serverVars, lost, mainVars, subVars>>
  BY <1>1 DEF TypeLine, kernelVars, TypeInv, FdInv, SetupInv, SettingUp, MapInv,
              SubInv, ReactorOf, InputInv, Readable
<1>2. ASSUME NEW c \in Clients, Connect(c) \/ Send(c) \/ Close(c) \/ Abort(c),
             UNCHANGED <<stdinVars, serverVars, lost, mainVars, subVars>>
      PROVE  IInv'
  <2>. USE <1>2
  <2>1. UNCHANGED fd
    BY DEF Connect, Send, Close, Abort
  <2>2. TypeInv'
    <3>1. CASE Connect(c)
      BY <3>1 DEF Connect, TypeInv
    <3>2. CASE Send(c)
      BY <3>2 DEF Send, RaiseEdge, TypeInv
    <3>3. CASE Close(c)
      BY <3>3 DEF Close, RaiseEdge, TypeInv
    <3>4. CASE Abort(c)
      BY <3>4 DEF Abort, RaiseEdge, TypeInv
    <3>. QED  BY <3>1, <3>2, <3>3, <3>4
  <2>3. FdInv'
    <3>1. CASE Connect(c)
      BY <2>1, <3>1 DEF Connect, TypeInv, FdInv
    <3>2. CASE Send(c) \/ Close(c) \/ Abort(c)
      BY <2>1, <3>2 DEF Send, Close, Abort, TypeInv, FdInv
    <3>. QED  BY <3>1, <3>2
  <2>4. SetupInv' /\ MapInv' /\ SubInv'
    BY <2>1 DEF SetupInv, SettingUp, MapInv, SubInv, ReactorOf
  <2>5. InputInv'
    <3>. SUFFICES ASSUME NEW d \in alive, Readable(d)'
                  PROVE  d \in edge' \/ \E r \in Subs : d \in sbatch[r] \/ sconn[r] = d
      BY DEF InputInv
    <3>1. CASE d = c
      BY <3>1 DEF Connect, Send, Close, Abort, RaiseEdge, TypeInv, InputInv, Readable
    <3>2. CASE d # c
      <4>1. Readable(d) /\ edge \subseteq edge'
        BY <3>2 DEF Connect, Send, Close, Abort, RaiseEdge, Readable, TypeInv
      <4>. QED  BY <4>1 DEF InputInv
    <3>. QED  BY <3>1, <3>2
  <2>. QED  BY <2>2, <2>3, <2>4, <2>5
<1>. QED  BY <1>1, <1>2 DEF Environment

(* A write changes nothing but the edge and the reset it may provoke. *)
LEMMA Writing ==
  ASSUME IInv, NEW c \in Clients, WriteTo(c),
         UNCHANGED <<peer, backlog, fd, connections, alive, hasCallback, sbatch, sconn>>
  PROVE  /\ edge' \subseteq alive /\ InputInv'
         /\ unread' \in [Clients -> Nat] /\ reset' \in [Clients -> {"no", "pending", "seen"}]
<1>. USE DEF IInv, WriteTo, RaiseEdge, TypeInv
<1>1. /\ edge' \subseteq alive /\ unread' \in [Clients -> Nat]
      /\ reset' \in [Clients -> {"no", "pending", "seen"}]
  OBVIOUS
<1>2. ASSUME NEW d \in alive, Readable(d)'
      PROVE  d \in edge' \/ \E r \in Subs : d \in sbatch[r] \/ sconn[r] = d
  BY <1>2 DEF InputInv, Readable
<1>. QED  BY <1>1, <1>2 DEF InputInv

-----------------------------------------------------------------------------
(* The steps of the main thread that set up no connection. *)
LEMMA MainQuietStep ==
  IInv /\ (MWait \/ MDispatch \/ MReadLine \/ MLoad \/ MWrite \/ MNext) => IInv'
<1>. SUFFICES ASSUME IInv, MWait \/ MDispatch \/ MReadLine \/ MLoad \/ MWrite \/ MNext
              PROVE  IInv'
  OBVIOUS
<1>. USE DEF IInv, kernelVars, serverVars, subVars
<1>1. /\ ~ SettingUp /\ ~ SettingUp'
      /\ UNCHANGED <<peer, backlog, fd, connections, alive, hasCallback, spc, sbatch, sconn>>
  BY DEF MWait, MDispatch, MReadLine, MLoad, MWrite, MNext, SettingUp
<1>2. TypeInv' /\ InputInv'
  <2>1. CASE MWrite
    BY <1>1, <2>1, Writing DEF MWrite, TypeInv
  <2>2. CASE MWait \/ MDispatch \/ MReadLine \/ MLoad \/ MNext
    <3>1. UNCHANGED <<unread, reset, edge>>
      BY <2>2 DEF MWait, MDispatch, MReadLine, MLoad, MNext
    <3>. QED  BY <1>1, <3>1 DEF TypeInv, InputInv, Readable
  <2>. QED  BY <2>1, <2>2
<1>3. FdInv' /\ SetupInv'
  BY <1>1 DEF FdInv, SetupInv, SettingUp
<1>4. MapInv' /\ SubInv'
  <2>1. UNCHANGED size
    BY DEF MWait, MDispatch, MReadLine, MLoad, MWrite, MNext
  <2>. QED  BY <1>1, <2>1 DEF MapInv, SubInv, ReactorOf, SettingUp
<1>. QED  BY <1>2, <1>3, <1>4

(* accept gives the connection a descriptor that no other has. *)
LEMMA MAcceptStep == IInv /\ MAccept => IInv'
<1>. SUFFICES ASSUME IInv, MAccept PROVE IInv'
  OBVIOUS
<1>. USE DEF IInv, serverVars, subVars
<1>0. /\ mpc = "accept"
      /\ UNCHANGED <<peer, unread, reset, edge, size, connections, alive, hasCallback,
                     spc, sbatch, sconn>>
  BY DEF MAccept
<1>1. CASE mpc' = "dispatch" /\ UNCHANGED <<backlog, fd, mconn>>
  <2>1. TypeInv' /\ InputInv' /\ SubInv'
    BY <1>0, <1>1 DEF TypeInv, InputInv, Readable, SubInv, ReactorOf
  <2>2. FdInv' /\ SetupInv' /\ MapInv'
    BY <1>0, <1>1 DEF FdInv, SetupInv, SettingUp, MapInv
  <2>. QED  BY <2>1, <2>2
<1>2. ASSUME NEW c \in backlog, FDs \ OpenFDs # {}, backlog' = backlog \ {c},
             fd' = [fd EXCEPT ![c] = Lowest(FDs \ OpenFDs)], mconn' = c, mpc' = "register"
      PROVE  IInv'
  <2>. DEFINE n == Lowest(FDs \ OpenFDs)
  <2>1. n \in FDs /\ n # None /\ \A d \in Clients : fd[d] # n
    BY <1>2, LowestIsIn, FDsAssumption, NoneAssumption DEF OpenFDs
  <2>2. c \in Clients /\ fd[c] = None /\ peer[c] # "new" /\ c \notin alive
    BY <1>2, <1>0 DEF TypeInv, FdInv
  <2>3. fd'[c] = n /\ \A d \in Clients \ {c} : fd'[d] = fd[d]
    BY <1>2, <2>2 DEF TypeInv
  <2>. HIDE DEF n
  <2>4. TypeInv'
    <3>1. fd' \in [Clients -> FDs \cup {None}]
      BY <1>2, <2>1, <2>2 DEF TypeInv, n
    <3>. QED  BY <1>0, <1>2, <3>1 DEF TypeInv
  <2>5. FdInv'
    <3>1. \A d \in Clients : fd'[d] # None <=> d \in alive' \/ (mpc' = "register" /\ mconn' = d)
      BY <1>0, <1>2, <2>1, <2>2, <2>3 DEF FdInv
    <3>2. \A d, e \in Clients : fd'[d] # None /\ fd'[d] = fd'[e] => d = e
      BY <2>1, <2>2, <2>3 DEF FdInv
    <3>3. \A d \in Clients : /\ peer'[d] = "new" => fd'[d] = None /\ d \notin backlog'
                             /\ d \in backlog' => fd'[d] = None
      BY <1>0, <1>2, <2>2, <2>3 DEF FdInv, TypeInv
    <3>. QED  BY <3>1, <3>2, <3>3 DEF FdInv
  <2>6. SetupInv'
    BY <1>0, <1>2, <2>2 DEF SetupInv, SettingUp, TypeInv
  <2>7. \A d \in alive : fd'[d] = fd[d]
    BY <2>2, <2>3 DEF TypeInv
  <2>8. MapInv'
    <3>1. \A f \in FDs : connections[f] # None =>
             connections[f] \in alive /\ fd'[connections[f]] = f
      BY <2>7 DEF MapInv
    <3>2. \A d \in alive : \/ connections[fd'[d]] = d
                          \/ \E r \in Subs : sconn[r] = d /\ spc[r] = "delete"
      BY <1>0, <2>7 DEF MapInv
    <3>. HIDE DEF IInv
    <3>. QED  BY <1>0, <3>1, <3>2 DEF MapInv
  <2>9. SubInv'
    BY <1>0, <2>7 DEF SubInv, ReactorOf, TypeInv
  <2>10. InputInv'
    BY <1>0 DEF InputInv, Readable
  <2>. QED  BY <2>4, <2>5, <2>6, <2>8, <2>9, <2>10
<1>. QED  BY <1>1, <1>2 DEF MAccept

(* The Connection is live before it is in the map, and in the map before   *)
(* it can be deleted: the callback comes last.                             *)
LEMMA MRegisterStep == IInv /\ MRegister => IInv'
<1>. SUFFICES ASSUME IInv, MRegister PROVE IInv'
  OBVIOUS
<1>. USE DEF IInv, MRegister, subVars
<1>1. mconn \in Clients \ alive /\ mconn \notin hasCallback
  BY DEF SetupInv, SettingUp
<1>2. TypeInv'
  BY <1>1 DEF TypeInv
<1>3. FdInv' /\ SetupInv'
  BY <1>1 DEF FdInv, SetupInv, SettingUp
<1>4. MapInv'
  BY <1>1 DEF MapInv
<1>5. SubInv'
  BY <1>1 DEF SubInv, ReactorOf
<1>6. InputInv'
  BY <1>1 DEF InputInv, Readable
<1>. QED  BY <1>2, <1>3, <1>4, <1>5, <1>6

LEMMA MStoreStep == IInv /\ MStore => IInv'
<1>. SUFFICES ASSUME IInv, MStore PROVE IInv'
  OBVIOUS
<1>. USE DEF IInv, MStore, kernelVars, subVars
<1>1. mconn \in alive /\ mconn \notin hasCallback /\ mconn \in Clients
  BY DEF SetupInv, SettingUp
<1>2. fd[mconn] \in FDs /\ \A c \in alive : fd[c] = fd[mconn] => c = mconn
  BY <1>1 DEF FdInv, TypeInv
<1>3. /\ connections'[fd[mconn]] = mconn
      /\ \A f \in FDs : f # fd[mconn] => connections'[f] = connections[f]
  BY <1>2 DEF TypeInv
<1>4. \A c \in alive : c # mconn => fd[c] \in FDs /\ connections'[fd[c]] = connections[fd[c]]
  BY <1>2, <1>3 DEF FdInv, TypeInv
<1>5. TypeInv' /\ InputInv'
  BY <1>1, <1>2 DEF TypeInv, InputInv, Readable
<1>6. FdInv' /\ SetupInv'
  BY <1>1 DEF FdInv, SetupInv, SettingUp
<1>7. MapInv'
  <2>1. \A f \in FDs : connections'[f] # None => connections'[f] \in alive /\ fd[connections'[f]] = f
    BY <1>1, <1>3 DEF MapInv
  <2>2. ASSUME NEW c \in alive
        PROVE  connections'[fd[c]] = c \/ \E r \in Subs : sconn[r] = c /\ spc[r] = "delete"
    BY <1>3, <1>4 DEF MapInv
  <2>. QED  BY <2>1, <2>2 DEF MapInv
<1>8. SubInv'
  <2>. SUFFICES ASSUME NEW r \in Subs,
                       spc[r] \in {"lookup", "erase", "delete"}
                PROVE  connections'[fd[sconn[r]]] = connections[fd[sconn[r]]]
    BY DEF SubInv, ReactorOf
  <2>1. sconn[r] \in hasCallback
    BY DEF SubInv
  <2>. QED  BY <1>1, <1>4, <2>1 DEF TypeInv
<1>. QED  BY <1>5, <1>6, <1>7, <1>8

LEMMA MSetCallbackStep == IInv /\ MSetCallback => IInv'
<1>. SUFFICES ASSUME IInv, MSetCallback PROVE IInv'
  OBVIOUS
<1>. USE DEF IInv, MSetCallback, kernelVars, subVars
<1>1. mconn \in alive
  BY DEF SetupInv
<1>2. TypeInv' /\ InputInv'
  BY <1>1 DEF TypeInv, InputInv, Readable
<1>3. FdInv' /\ SetupInv' /\ MapInv'
  BY DEF FdInv, SetupInv, SettingUp, MapInv
<1>4. SubInv'
  BY DEF SubInv, ReactorOf
<1>. QED  BY <1>2, <1>3, <1>4

LEMMA MainThreadStep == IInv /\ MainStep => IInv'
BY MainQuietStep, MAcceptStep, MRegisterStep, MStoreStep, MSetCallbackStep, Losing
   DEF MainStep, MLose

-----------------------------------------------------------------------------
(* A sub-reactor takes up what epoll reports: live sockets of its own. *)
LEMMA SWaitStep == ASSUME NEW r \in Subs, IInv, SWait(r) PROVE IInv'
<1>. USE DEF IInv, SWait, EdgesOf, serverVars, mainVars
<1>1. TypeInv'
  BY DEF TypeInv
<1>2. FdInv' /\ SetupInv'
  BY DEF FdInv, SetupInv, SettingUp
<1>3. MapInv'
  BY DEF MapInv, TypeInv
<1>4. SubInv'
  <2>. HIDE DEF EdgesOf
  <2>1. \A c \in sbatch'[r] : c \in alive /\ c # None /\ ReactorOf(fd[c]) = r
    BY NoneAssumption DEF TypeInv, EdgesOf
  <2>2. spc[r] = "wait" /\ spc'[r] = "dispatch" /\ sconn[r] = None
    BY DEF TypeInv, SubInv
  <2>3. \A q \in Subs \ {r} : spc'[q] = spc[q] /\ sbatch'[q] = sbatch[q]
    BY DEF TypeInv
  <2>4. UNCHANGED <<size, fd, connections, alive, hasCallback, sconn>>
    OBVIOUS
  <2>. HIDE DEF SWait
  <2>. QED  BY <2>1, <2>2, <2>3, <2>4 DEF SubInv, ReactorOf
<1>5. InputInv'
  <2>. SUFFICES ASSUME NEW c \in alive, Readable(c)
                PROVE  c \in edge' \/ \E q \in Subs : c \in sbatch'[q] \/ sconn[q] = c
    BY DEF InputInv, Readable
  <2>1. CASE c \in EdgesOf(r)
    BY <2>1 DEF TypeInv
  <2>2. CASE c \in edge /\ c \notin EdgesOf(r)
    BY <2>2
  <2>3. ASSUME NEW q \in Subs, c \in sbatch[q] \/ sconn[q] = c
        PROVE  c \in sbatch'[q] \/ sconn[q] = c
    BY <2>3 DEF SubInv, TypeInv
  <2>. QED  BY <2>1, <2>2, <2>3 DEF InputInv
<1>. QED  BY <1>1, <1>2, <1>3, <1>4, <1>5

LEMMA SDispatchStep == ASSUME NEW r \in Subs, IInv, SDispatch(r) PROVE IInv'
<1>. USE DEF IInv, kernelVars, serverVars, mainVars
<1>1. CASE sbatch[r] = {} /\ spc' = [spc EXCEPT ![r] = "wait"] /\ UNCHANGED <<sbatch, sconn>>
  <2>1. TypeInv' /\ InputInv'
    BY <1>1 DEF SDispatch, TypeInv, InputInv, Readable
  <2>2. FdInv' /\ SetupInv' /\ MapInv'
    BY <1>1 DEF SDispatch, FdInv, SetupInv, SettingUp, MapInv, TypeInv
  <2>3. SubInv'
    BY <1>1 DEF SDispatch, SubInv, ReactorOf, TypeInv
  <2>. QED  BY <2>1, <2>2, <2>3
<1>2. ASSUME NEW c \in sbatch[r], sbatch' = [sbatch EXCEPT ![r] = @ \ {c}],
             sconn' = [sconn EXCEPT ![r] = c], spc' = [spc EXCEPT ![r] = "read"]
      PROVE  IInv'
  <2>1. spc[r] = "dispatch" /\ UNCHANGED <<kernelVars, serverVars, mainVars>>
    BY DEF SDispatch
  <2>2. c \in alive /\ c \in Clients /\ sconn[r] = None
    BY <1>2, <2>1 DEF SubInv, TypeInv
  <2>3. TypeInv'
    BY <1>2, <2>1, <2>2 DEF TypeInv
  <2>4. FdInv' /\ SetupInv' /\ MapInv'
    BY <1>2, <2>1, <2>2 DEF FdInv, SetupInv, SettingUp, MapInv, TypeInv
  <2>5. SubInv'
    BY <1>2, <2>1, <2>2, NoneAssumption DEF SubInv, ReactorOf, TypeInv
  <2>6. ASSUME NEW q \in Subs, NEW d \in alive, d \in sbatch[q] \/ sconn[q] = d
        PROVE  d \in sbatch'[q] \/ sconn'[q] = d
    BY <1>2, <2>2, <2>6, NoneAssumption DEF TypeInv
  <2>7. InputInv'
    BY <2>1, <2>6 DEF InputInv, Readable
  <2>. QED  BY <2>3, <2>4, <2>5, <2>7
<1>. QED  BY <1>1, <1>2 DEF SDispatch

(* The steps of a sub-reactor that read from the socket or write to it. *)
LEMMA SReadStep ==
  ASSUME NEW r \in Subs, IInv, SReadData(r) \/ SWrite(r) \/ SReadError(r) \/ SReadAgain(r)
  PROVE  IInv'
<1>. USE DEF IInv, kernelVars, serverVars, mainVars, subVars
<1>1. spc[r] \in {"read", "write"} /\ sconn[r] \in alive /\ sconn[r] \in Clients
  BY DEF SReadData, SWrite, SReadError, SReadAgain, SubInv, TypeInv
<1>2. UNCHANGED <<peer, backlog, fd, size, connections, alive, hasCallback, mpc, mconn, sbatch>>
  BY DEF SReadData, SWrite, SReadError, SReadAgain
<1>3. TypeInv' /\ InputInv'
  <2>1. CASE SReadData(r)
    BY <1>1, <2>1 DEF SReadData, TypeInv, InputInv, Readable
  <2>2. CASE SWrite(r)
    BY <1>1, <2>2, Writing DEF SWrite, TypeInv
  <2>3. CASE SReadError(r)
    BY <1>1, <2>3 DEF SReadError, TypeInv, InputInv, Readable
  <2>4. CASE SReadAgain(r)
    BY <1>1, <2>4 DEF SReadAgain, TypeInv, InputInv, Readable
  <2>. QED  BY <2>1, <2>2, <2>3, <2>4
<1>4. FdInv' /\ SetupInv'
  BY <1>2 DEF FdInv, SetupInv, SettingUp
<1>5. /\ \/ spc'[r] \in {"read", "write"} /\ sconn'[r] = sconn[r]
         \/ spc'[r] = "dispatch" /\ sconn'[r] = None
      /\ \A q \in Subs \ {r} : spc'[q] = spc[q] /\ sconn'[q] = sconn[q]
  BY <1>1 DEF SReadData, SWrite, SReadError, SReadAgain, TypeInv
<1>6. MapInv'
  BY <1>1, <1>2, <1>5 DEF MapInv
<1>7. SubInv'
  BY <1>1, <1>2, <1>5, NoneAssumption DEF SubInv, ReactorOf, TypeInv
<1>. QED  BY <1>3, <1>4, <1>6, <1>7

(* Only a connection whose callback is set is deleted, and by then the map *)
(* leads to it.                                                            *)
LEMMA SReadEndStep == ASSUME NEW r \in Subs, IInv, SReadEnd(r) PROVE IInv'
<1>. USE DEF IInv, SReadEnd, EndOfFile, kernelVars, serverVars, mainVars
<1>1. sconn[r] \in alive /\ sconn[r] \in hasCallback /\ sconn[r] # None
  BY NoneAssumption DEF TypeInv
<1>2. connections[fd[sconn[r]]] = sconn[r]
  <2>1. ~ (mconn = sconn[r] /\ mpc = "store")
    BY <1>1 DEF SetupInv, SettingUp
  <2>2. ASSUME NEW q \in Subs, sconn[q] = sconn[r], spc[q] = "delete" PROVE FALSE
    <3>1. q = r
      BY <1>1, <2>2 DEF SubInv
    <3>. QED  BY <2>2, <3>1
  <2>. QED  BY <1>1, <2>1, <2>2 DEF MapInv
<1>3. TypeInv' /\ InputInv'
  BY DEF TypeInv, InputInv, Readable
<1>4. FdInv' /\ SetupInv'
  BY DEF FdInv, SetupInv, SettingUp
<1>5. spc'[r] = "lookup" /\ \A q \in Subs \ {r} : spc'[q] = spc[q]
  BY DEF TypeInv
<1>6. MapInv'
  BY <1>5 DEF MapInv
<1>7. SubInv'
  BY <1>1, <1>2, <1>5 DEF SubInv, ReactorOf
<1>. QED  BY <1>3, <1>4, <1>6, <1>7

LEMMA SLookupStep == ASSUME NEW r \in Subs, IInv, SLookup(r) PROVE IInv'
<1>. USE DEF IInv, SLookup, kernelVars, serverVars, mainVars
<1>1. connections[fd[sconn[r]]] = sconn[r]
  BY DEF SubInv
<1>2. sconn' = sconn
  BY <1>1 DEF TypeInv
<1>3. TypeInv' /\ InputInv'
  BY <1>2 DEF TypeInv, InputInv, Readable
<1>4. FdInv' /\ SetupInv'
  BY DEF FdInv, SetupInv, SettingUp
<1>5. spc'[r] = "erase" /\ \A q \in Subs \ {r} : spc'[q] = spc[q]
  BY DEF TypeInv
<1>6. MapInv'
  BY <1>2, <1>5 DEF MapInv
<1>7. SubInv'
  BY <1>1, <1>2, <1>5 DEF SubInv, ReactorOf
<1>. QED  BY <1>3, <1>4, <1>6, <1>7

LEMMA SEraseStep == ASSUME NEW r \in Subs, IInv, SErase(r) PROVE IInv'
<1>. USE DEF IInv, SErase, kernelVars, mainVars
<1>. DEFINE c == sconn[r]
<1>1. c \in alive /\ c \in Clients /\ c \in hasCallback /\ ~ (mconn = c /\ SettingUp)
  BY DEF SubInv, TypeInv, SetupInv
<1>2. /\ connections' = [connections EXCEPT ![fd[c]] = None]
      /\ spc'[r] = "delete" /\ \A q \in Subs \ {r} : spc'[q] = spc[q]
      /\ UNCHANGED <<kernelVars, size, alive, hasCallback, mainVars, sbatch, sconn>>
  BY DEF TypeInv
<1>. HIDE DEF c
<1>3. fd[c] \in FDs /\ \A d \in alive : fd[d] \in FDs /\ (fd[d] = fd[c] => d = c)
  BY <1>1 DEF FdInv, TypeInv
<1>4. /\ connections'[fd[c]] = None
      /\ \A f \in FDs \ {fd[c]} : connections'[f] = connections[f]
  BY <1>2, <1>3 DEF TypeInv
<1>5. TypeInv' /\ InputInv'
  BY <1>1, <1>3 DEF TypeInv, InputInv, Readable
<1>6. FdInv' /\ SetupInv'
  BY DEF FdInv, SetupInv, SettingUp
<1>7. MapInv'
  <2>1. \A f \in FDs : connections'[f] # None => connections'[f] \in alive /\ fd[connections'[f]] = f
    BY <1>4 DEF MapInv
  <2>2. ASSUME NEW d \in alive
        PROVE  \/ connections'[fd[d]] = d
               \/ mconn = d /\ mpc = "store"
               \/ \E q \in Subs : sconn[q] = d /\ spc'[q] = "delete"
    <3>1. CASE d = c
      BY <1>2, <3>1 DEF c
    <3>2. CASE d # c
      BY <1>2, <1>3, <1>4, <3>2 DEF MapInv
    <3>. QED  BY <3>1, <3>2
  <2>. QED  BY <1>2, <2>1, <2>2 DEF MapInv
<1>8. SubInv'
  <2>1. ASSUME NEW q \in Subs \ {r}, spc[q] \in {"lookup", "erase", "delete"}
        PROVE  connections'[fd[sconn[q]]] = connections[fd[sconn[q]]]
    <3>1. sconn[q] \in alive /\ sconn[q] # c
      BY <1>1, <2>1 DEF SubInv, TypeInv, c
    <3>. QED  BY <1>3, <1>4, <3>1
  <2>2. sconn[r] = c
    BY DEF c
  <2>3. \A q \in Subs \ {r} : spc[q] \in {"lookup", "erase", "delete"} =>
           connections'[fd[sconn[q]]] = connections[fd[sconn[q]]]
    BY <2>1
  <2>4. UNCHANGED <<fd, size, alive, hasCallback, sbatch, sconn>>
    BY <1>2
  <2>. HIDE DEF SErase
  <2>. SUFFICES ASSUME NEW q \in Subs
                PROVE  /\ \A d \in sbatch[q] : d \in alive /\ ReactorOf(fd[d]) = q
                       /\ sconn[q] # None => sconn[q] \in alive /\ ReactorOf(fd[sconn[q]]) = q
                       /\ sconn[q] \notin sbatch[q]
                       /\ spc'[q] \in {"wait", "dispatch"} <=> sconn[q] = None
                       /\ spc'[q] = "wait" => sbatch[q] = {}
                       /\ spc'[q] \in {"lookup", "erase", "delete"} => sconn[q] \in hasCallback
                       /\ spc'[q] \in {"lookup", "erase"} =>
                            connections'[fd[sconn[q]]] = sconn[q]
                       /\ spc'[q] = "delete" => connections'[fd[sconn[q]]] = None
    BY <2>4 DEF SubInv, ReactorOf
  <2>5. CASE q = r
    BY <1>1, <1>2, <1>4, <2>2, <2>5, NoneAssumption DEF SubInv
  <2>6. CASE q # r
    BY <1>2, <2>3, <2>6 DEF SubInv
  <2>. QED  BY <2>5, <2>6
<1>. QED  BY <1>5, <1>6, <1>7, <1>8

LEMMA SDeleteStep == ASSUME NEW r \in Subs, IInv, SDelete(r) PROVE IInv'
<1>. USE DEF IInv
<1>. DEFINE c == sconn[r]
<1>1. /\ spc[r] = "delete" /\ c \in alive /\ c \in Clients /\ c # None
      /\ c \in hasCallback /\ connections[fd[c]] = None /\ fd[c] # None
  BY NoneAssumption DEF SDelete, SubInv, TypeInv, FdInv
<1>2. /\ fd' = [fd EXCEPT ![c] = None] /\ unread' = [unread EXCEPT ![c] = 0]
      /\ alive' = alive \ {c} /\ hasCallback' = hasCallback \ {c} /\ edge' = edge \ {c}
      /\ spc' = [spc EXCEPT ![r] = "dispatch"] /\ sconn' = [sconn EXCEPT ![r] = None]
      /\ UNCHANGED <<peer, reset, backlog, size, connections, mpc, mconn, sbatch>>
  BY DEF SDelete, mainVars
<1>. HIDE DEF c
<1>3. fd'[c] = None /\ \A d \in Clients \ {c} : fd'[d] = fd[d] /\ unread'[d] = unread[d]
  BY <1>1, <1>2 DEF TypeInv
<1>4. /\ spc'[r] = "dispatch" /\ sconn'[r] = None /\ sconn[r] = c
      /\ \A q \in Subs \ {r} : spc'[q] = spc[q] /\ sconn'[q] = sconn[q]
  BY <1>2 DEF TypeInv, c
<1>5. ASSUME NEW q \in Subs
      PROVE  c \notin sbatch[q] /\ (q # r => sconn[q] # c)
  BY <1>1, <1>4 DEF SubInv
<1>6. TypeInv'
  BY <1>1, <1>2 DEF TypeInv
<1>7. FdInv'
  <2>1. ~ (mpc = "register" /\ mconn = c)
    BY <1>1 DEF SetupInv, SettingUp
  <2>2. \A d \in Clients : fd'[d] # None <=> d \in alive' \/ (mpc' = "register" /\ mconn' = d)
    BY <1>2, <1>3, <2>1 DEF FdInv
  <2>3. \A d, e \in Clients : fd'[d] # None /\ fd'[d] = fd'[e] => d = e
    BY <1>3 DEF FdInv
  <2>4. \A d \in Clients : /\ peer'[d] = "new" => fd'[d] = None /\ d \notin backlog'
                           /\ d \in backlog' => fd'[d] = None
    BY <1>2, <1>3 DEF FdInv
  <2>. QED  BY <2>2, <2>3, <2>4 DEF FdInv
<1>8. SetupInv'
  BY <1>1, <1>2 DEF SetupInv, SettingUp
<1>9. MapInv'
  <2>1. ASSUME NEW f \in FDs, connections[f] # None
        PROVE  connections[f] \in alive' /\ fd'[connections[f]] = f
    <3>1. connections[f] \in alive /\ fd[connections[f]] = f
      BY <2>1 DEF MapInv
    <3>2. connections[f] # c
      BY <1>1, <2>1, <3>1
    <3>. QED  BY <1>2, <1>3, <3>1, <3>2 DEF TypeInv
  <2>2. ASSUME NEW d \in alive'
        PROVE  \/ connections[fd'[d]] = d
               \/ mconn = d /\ mpc = "store"
               \/ \E q \in Subs : sconn'[q] = d /\ spc'[q] = "delete"
    <3>1. d \in alive /\ d # c /\ fd'[d] = fd[d]
      BY <1>2, <1>3 DEF TypeInv
    <3>. QED  BY <1>4, <3>1 DEF MapInv
  <2>. QED  BY <1>2, <2>1, <2>2 DEF MapInv
<1>10. SubInv'
  <2>1. \A d \in alive \ {c} : d \in alive' /\ fd'[d] = fd[d]
    BY <1>2, <1>3 DEF TypeInv
  <2>2. size' = size /\ connections' = connections /\ sbatch' = sbatch
        /\ hasCallback' = hasCallback \ {c}
    BY <1>2
  <2>3. ASSUME NEW q \in Subs
        PROVE  /\ \A d \in sbatch[q] : d \in alive' /\ fd'[d] % size = q
               /\ q # r /\ sconn[q] # None => sconn[q] \in alive' /\ fd'[sconn[q]] % size = q
    BY <1>5, <2>1 DEF SubInv, ReactorOf
  <2>4. None \notin sbatch[r]
    BY NoneAssumption DEF TypeInv
  <2>. SUFFICES ASSUME NEW q \in Subs
                PROVE  /\ sconn'[q] # None => sconn'[q] \in alive' /\ fd'[sconn'[q]] % size = q
                       /\ sconn'[q] \notin sbatch[q]
                       /\ spc'[q] \in {"wait", "dispatch"} <=> sconn'[q] = None
                       /\ spc'[q] = "wait" => sbatch[q] = {}
                       /\ spc'[q] \in {"lookup", "erase", "delete"} => sconn'[q] \in hasCallback'
                       /\ spc'[q] \in {"lookup", "erase"} =>
                            connections[fd'[sconn'[q]]] = sconn'[q]
                       /\ spc'[q] = "delete" => connections[fd'[sconn'[q]]] = None
    BY <2>2, <2>3 DEF SubInv, ReactorOf
  <2>5. CASE q = r
    BY <1>4, <2>4, <2>5
  <2>6. CASE q # r
    <3>1. spc'[q] = spc[q] /\ sconn'[q] = sconn[q]
      BY <1>4, <2>6
    <3>2. sconn[q] # None => sconn[q] \in alive' /\ fd'[sconn[q]] = fd[sconn[q]]
      BY <1>5, <2>1, <2>6 DEF SubInv
    <3>3. spc[q] \in {"lookup", "erase", "delete"} => sconn[q] # None /\ sconn[q] # c
      BY <1>5, <2>6, NoneAssumption DEF SubInv, TypeInv
    <3>. QED  BY <2>2, <2>3, <2>6, <3>1, <3>2, <3>3 DEF SubInv
  <2>. QED  BY <2>5, <2>6
<1>11. InputInv'
  <2>. SUFFICES ASSUME NEW d \in alive', Readable(d)'
                PROVE  d \in edge' \/ \E q \in Subs : d \in sbatch[q] \/ sconn'[q] = d
    BY <1>2 DEF InputInv
  <2>1. d \in alive /\ d # c /\ Readable(d)
    BY <1>2, <1>3 DEF Readable, TypeInv
  <2>. QED  BY <1>2, <1>4, <2>1 DEF InputInv
<1>. QED  BY <1>6, <1>7, <1>8, <1>9, <1>10, <1>11

LEMMA SubReactorStep == ASSUME NEW r \in Subs, IInv, SubStep(r) PROVE IInv'
BY SWaitStep, SDispatchStep, SReadStep, SReadEndStep, SLookupStep, SEraseStep,
   SDeleteStep, Losing DEF SubStep, SLose

LEMMA Inductive == IInv /\ [Next]_vars => IInv'
<1>. SUFFICES ASSUME IInv, [Next]_vars PROVE IInv'
  OBVIOUS
<1>1. CASE UNCHANGED vars
  BY <1>1 DEF vars, kernelVars, serverVars, mainVars, subVars, IInv, TypeInv, FdInv,
              SetupInv, SettingUp, MapInv, SubInv, ReactorOf, InputInv, Readable
<1>2. CASE Environment
  BY <1>2, EnvironmentStep
<1>3. CASE MainStep
  BY <1>3, MainThreadStep
<1>4. CASE \E r \in Subs : SubStep(r)
  BY <1>4, SubReactorStep
<1>5. CASE RaceOutcome
  BY <1>5, Losing DEF RaceOutcome
<1>. QED  BY <1>1, <1>2, <1>3, <1>4, <1>5 DEF Next

LEMMA Invariance == Spec => []IInv
BY Initially, Inductive, PTL DEF Spec

-----------------------------------------------------------------------------
(* A sub-reactor only ever touches live connections that are its own,      *)
(* although the kernel hands it raw pointers and descriptors are reused    *)
(* (Epoll.cpp:69, EventLoop.cpp:20-22).                                    *)
THEOREM DispatchIsSafe == Spec => []NoDanglingDispatch
<1>1. IInv => NoDanglingDispatch
  <2>. SUFFICES ASSUME IInv, NEW r \in Subs, NEW c \in (sbatch[r] \cup {sconn[r]}) \ {None}
                PROVE  c \in alive /\ fd[c] # None /\ ReactorOf(fd[c]) = r
    BY DEF NoDanglingDispatch
  <2>1. c \in alive /\ ReactorOf(fd[c]) = r
    BY DEF IInv, SubInv
  <2>. QED  BY <2>1 DEF IInv, FdInv, TypeInv
<1>. QED  BY <1>1, Invariance, PTL

(* The map leads to live connections and every live connection is in it,   *)
(* outside handleNewConnection and handleDeleteConnection                  *)
(* (Server.cpp:39-58).                                                     *)
THEOREM MapIsExact == Spec => []MapMatchesSockets
<1>1. IInv => MapMatchesSockets
  BY DEF IInv, MapInv, Stored, MapMatchesSockets
<1>. QED  BY <1>1, Invariance, PTL

(* Edge-triggered reading forgets no input (Connection.cpp:24-44).         *)
THEOREM InputIsReported == Spec => []NoStrandedInput
<1>1. IInv => NoStrandedInput
  BY DEF IInv, InputInv, NoStrandedInput
<1>. QED  BY <1>1, Invariance, PTL

-----------------------------------------------------------------------------
(* Accepting: whoever is in the listen queue has an edge or the accept     *)
(* loop ahead of him.                                                      *)
AcceptInv ==
  /\ listenEdge \in BOOLEAN /\ acceptFailed \in BOOLEAN
  /\ mpc = "wait" => mbatch = {}
  /\ (backlog # {} /\ ~acceptFailed) =>
       listenEdge \/ "listen" \in mbatch \/ mpc \in {"accept", "register", "store", "callback"}

LEMMA AcceptStep == AcceptInv /\ [Next]_vars => AcceptInv'
<1>. SUFFICES ASSUME AcceptInv, [Next]_vars PROVE AcceptInv'
  OBVIOUS
<1>. USE DEF AcceptInv, kernelVars, stdinVars, serverVars, mainVars, subVars
<1>1. CASE UNCHANGED vars
  BY <1>1 DEF vars
<1>2. CASE Environment
  BY <1>2 DEF Environment, Connect, Send, Close, Abort, TypeLine
<1>3. CASE MainStep
  <2>1. ASSUME NEW how, Lose(how) PROVE AcceptInv'
    BY <2>1 DEF Lose
  <2>2. CASE MWait
    BY <2>2 DEF MWait
  <2>3. CASE MDispatch
    BY <2>3 DEF MDispatch
  <2>4. CASE MAccept
    BY <2>4 DEF MAccept
  <2>5. CASE MRegister \/ MStore \/ MSetCallback
    BY <2>5 DEF MRegister, MStore, MSetCallback
  <2>6. CASE MReadLine \/ MLoad \/ MWrite \/ MNext
    BY <2>6 DEF MReadLine, MLoad, MWrite, MNext
  <2>. QED  BY <1>3, <2>1, <2>2, <2>3, <2>4, <2>5, <2>6 DEF MainStep, MLose
<1>4. ASSUME NEW r \in Subs, SubStep(r) PROVE AcceptInv'
  <2>1. CASE SLose(r)
    BY <2>1 DEF SLose, Lose
  <2>2. CASE UNCHANGED <<listenEdge, acceptFailed, mpc, mbatch, backlog>>
    BY <2>2
  <2>. QED
    BY <1>4, <2>1, <2>2 DEF SubStep, SWait, SDispatch, SReadData, SWrite, SReadError,
       SReadAgain, SReadEnd, SLookup, SErase, SDelete
<1>5. CASE RaceOutcome
  BY <1>5 DEF RaceOutcome, Lose
<1>. QED  BY <1>1, <1>2, <1>3, <1>4, <1>5 DEF Next

(* Edge-triggered accepting forgets no client, unless accept fails         *)
(* otherwise than with EAGAIN (Acceptor.cpp:28-41).                        *)
THEOREM ClientsAreAccepted == Spec => []NoStrandedConnection
<1>1. Init => AcceptInv
  BY DEF Init, AcceptInv
<1>2. AcceptInv => NoStrandedConnection
  BY DEF AcceptInv, NoStrandedConnection
<1>. QED  BY <1>1, <1>2, AcceptStep, PTL DEF Spec

=============================================================================
