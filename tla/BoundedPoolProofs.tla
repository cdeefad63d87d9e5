-------------------------- MODULE BoundedPoolProofs ---------------------------
(***************************************************************************)
(* Theorems about BoundedPool, for any number of threads, any capacity and *)
(* any finite set of callers.  WakeupsSuffice counts threads, and is       *)
(* inductive as it stands once types are known: every step that uses up a  *)
(* wake-up moves a task, a place or another thread in exchange.            *)
(***************************************************************************)
EXTENDS BoundedPool, FiniteSetTheorems, TLAPS

WorkerPCs == {"ready", "waiting", "run", "done"}
ClientPCs == {"idle", "ready", "waiting", "notify"}

TypeInv ==
  /\ tasks \in Seq(Tasks) /\ accepted \in Seq(Tasks) /\ started \in Nat
  /\ stop \in BOOLEAN
  /\ wpc \in [Workers -> WorkerPCs] /\ task \in [Workers -> Tasks \cup {None}]
  /\ cpc \in [Clients -> ClientPCs] /\ arg \in [Clients -> Tasks \cup {None}]
  /\ opc \in {"live", "stopped", "notified", "joined"}
  /\ \A c \in Clients : cpc[c] \in {"ready", "waiting"} => arg[c] \in Tasks

-----------------------------------------------------------------------------
(* The threads at a position, and how many they are. *)
At(S, f, pc) == {x \in S : f[x] = pc}
Num(S, f, pc) == Cardinality(At(S, f, pc))

LEMMA WorkersFinite == IsFiniteSet(Workers) /\ 1 \in Workers
BY FS_Interval, NumThreadsAssumption DEF Workers

LEMMA AtFinite ==
  ASSUME NEW S, IsFiniteSet(S), NEW f, NEW pc
  PROVE  IsFiniteSet(At(S, f, pc)) /\ Num(S, f, pc) \in Nat
<1>1. At(S, f, pc) \in SUBSET S
  BY DEF At
<1>2. IsFiniteSet(At(S, f, pc))
  BY <1>1, FS_Subset
<1>. QED  BY <1>2, FS_CardinalityType DEF Num

-----------------------------------------------------------------------------
LEMMA TypeStep == TypeInv /\ [Next]_vars => TypeInv'
<1>. SUFFICES ASSUME TypeInv, [Next]_vars PROVE TypeInv'
  OBVIOUS
<1>. USE DEF TypeInv, WorkerPCs, ClientPCs, workerVars, clientVars
<1>1. ASSUME NEW w \in Workers, WSleep(w) \/ WWakeSpuriously(w) \/ WExit(w) \/ WRun(w)
      PROVE  TypeInv'
  BY <1>1 DEF WSleep, WWakeSpuriously, WExit, WRun
<1>2. ASSUME NEW w \in Workers, WTake(w) PROVE TypeInv'
  <2>1. Head(tasks) \in Tasks /\ Tail(tasks) \in Seq(Tasks)
    BY <1>2 DEF WTake
  <2>2. /\ cpc' \in [Clients -> ClientPCs]
        /\ \A c \in Clients : cpc'[c] \in {"ready", "waiting"} => cpc[c] \in {"ready", "waiting"}
    BY <1>2 DEF WTake, WakeClient, BlockedClients
  <2>. QED  BY <1>2, <2>1, <2>2 DEF WTake
<1>3. ASSUME NEW c \in Clients, CBegin(c) PROVE TypeInv'
  BY <1>3 DEF CBegin
<1>4. ASSUME NEW c \in Clients, CSleep(c) \/ CWakeSpuriously(c) \/ CThrow(c) PROVE TypeInv'
  BY <1>4 DEF CSleep, CWakeSpuriously, CThrow
<1>5. ASSUME NEW c \in Clients, CPush(c) PROVE TypeInv'
  BY <1>5 DEF CPush
<1>6. ASSUME NEW c \in Clients, CNotify(c) PROVE TypeInv'
  <2>1. wpc' \in [Workers -> WorkerPCs]
    BY <1>6 DEF CNotify, IdleWorkers
  <2>. QED  BY <1>6, <2>1 DEF CNotify
<1>7. CASE OStop \/ ONotifyAll \/ OJoined
  BY <1>7 DEF OStop, ONotifyAll, OJoined, IdleWorkers, BlockedClients
<1>8. CASE UNCHANGED vars
  BY <1>8 DEF vars
<1>. QED
  BY <1>1, <1>2, <1>3, <1>4, <1>5, <1>6, <1>7, <1>8
     DEF Next, WorkerStep, ClientStep, Terminated

-----------------------------------------------------------------------------
(* The conjuncts of WakeupsSuffice in terms of Num, and the flag. *)
PlacesInv ==
  (At(Clients, cpc, "waiting") # {} /\ ~stop) =>
    Len(tasks) + Num(Clients, cpc, "ready") > MaxQueueSize

TasksInv ==
  (At(Workers, wpc, "waiting") # {} /\ ~stop) =>
    Len(tasks) <= Num(Workers, wpc, "ready") + Num(Clients, cpc, "notify")

AwakeInv ==
  /\ stop <=> opc # "live"
  /\ opc \in {"notified", "joined"} =>
       At(Clients, cpc, "waiting") = {} /\ At(Workers, wpc, "waiting") = {}

WakeInv == PlacesInv /\ TasksInv /\ AwakeInv

(* A thread that moves is one more at its new position and one less at its *)
(* old one.                                                                *)
LEMMA WorkerMoves ==
  ASSUME TypeInv, NEW w \in Workers, NEW from, NEW to \in WorkerPCs,
         wpc[w] = from, from # to, wpc' = [wpc EXCEPT ![w] = to]
  PROVE  /\ Num(Workers, wpc', to) = Num(Workers, wpc, to) + 1
         /\ Num(Workers, wpc', from) = Num(Workers, wpc, from) - 1
         /\ \A other : other \notin {to, from} => At(Workers, wpc', other) = At(Workers, wpc, other)
<1>1. wpc \in [Workers -> WorkerPCs]
  BY DEF TypeInv
<1>2. /\ At(Workers, wpc', to) = At(Workers, wpc, to) \cup {w} /\ w \notin At(Workers, wpc, to)
      /\ At(Workers, wpc', from) = At(Workers, wpc, from) \ {w} /\ w \in At(Workers, wpc, from)
  BY <1>1 DEF At
<1>3. IsFiniteSet(At(Workers, wpc, to)) /\ IsFiniteSet(At(Workers, wpc, from))
  BY AtFinite, WorkersFinite
<1>4. Num(Workers, wpc', to) = Num(Workers, wpc, to) + 1
  <2>. DEFINE was == At(Workers, wpc, to)
  <2>1. Cardinality(was \cup {w}) = Cardinality(was) + 1
    <3>. w \notin was /\ IsFiniteSet(was)
      BY <1>2, <1>3
    <3>. HIDE DEF was
    <3>. QED  BY FS_AddElement
  <2>. QED  BY <1>2, <2>1 DEF Num
<1>5. Num(Workers, wpc', from) = Num(Workers, wpc, from) - 1
  <2>. DEFINE was == At(Workers, wpc, from)
  <2>1. Cardinality(was \ {w}) = Cardinality(was) - 1
    <3>. w \in was /\ IsFiniteSet(was)
      BY <1>2, <1>3
    <3>. HIDE DEF was
    <3>. QED  BY FS_RemoveElement
  <2>. QED  BY <1>2, <2>1 DEF Num
<1>6. \A other : other \notin {to, from} => At(Workers, wpc', other) = At(Workers, wpc, other)
  BY <1>1 DEF At
<1>. QED  BY <1>4, <1>5, <1>6

LEMMA ClientMoves ==
  ASSUME TypeInv, NEW c \in Clients, NEW from, NEW to \in ClientPCs,
         cpc[c] = from, from # to, cpc' = [cpc EXCEPT ![c] = to]
  PROVE  /\ Num(Clients, cpc', to) = Num(Clients, cpc, to) + 1
         /\ Num(Clients, cpc', from) = Num(Clients, cpc, from) - 1
         /\ \A other : other \notin {to, from} => At(Clients, cpc', other) = At(Clients, cpc, other)
<1>1. cpc \in [Clients -> ClientPCs]
  BY DEF TypeInv
<1>2. /\ At(Clients, cpc', to) = At(Clients, cpc, to) \cup {c} /\ c \notin At(Clients, cpc, to)
      /\ At(Clients, cpc', from) = At(Clients, cpc, from) \ {c} /\ c \in At(Clients, cpc, from)
  BY <1>1 DEF At
<1>3. IsFiniteSet(At(Clients, cpc, to)) /\ IsFiniteSet(At(Clients, cpc, from))
  BY AtFinite, ClientsAssumption
<1>4. Num(Clients, cpc', to) = Num(Clients, cpc, to) + 1
  <2>. DEFINE was == At(Clients, cpc, to)
  <2>1. Cardinality(was \cup {c}) = Cardinality(was) + 1
    <3>. c \notin was /\ IsFiniteSet(was)
      BY <1>2, <1>3
    <3>. HIDE DEF was
    <3>. QED  BY FS_AddElement
  <2>. QED  BY <1>2, <2>1 DEF Num
<1>5. Num(Clients, cpc', from) = Num(Clients, cpc, from) - 1
  <2>. DEFINE was == At(Clients, cpc, from)
  <2>1. Cardinality(was \ {c}) = Cardinality(was) - 1
    <3>. c \in was /\ IsFiniteSet(was)
      BY <1>2, <1>3
    <3>. HIDE DEF was
    <3>. QED  BY FS_RemoveElement
  <2>. QED  BY <1>2, <2>1 DEF Num
<1>6. \A other : other \notin {to, from} => At(Clients, cpc', other) = At(Clients, cpc, other)
  BY <1>1 DEF At
<1>. QED  BY <1>4, <1>5, <1>6

(* A worker that falls asleep or goes has seen no task; one that takes a   *)
(* task makes a place and wakes a caller for it.                           *)
LEMMA WorkerWakes ==
  ASSUME TypeInv, WakeInv, NEW w \in Workers, WorkerStep(w) PROVE WakeInv'
<1>. USE ClientsAssumption, WorkersFinite, MaxQueueSizeAssumption
         DEF TypeInv, WakeInv, clientVars
<1>1. /\ Num(Clients, cpc, "ready") \in Nat /\ Num(Clients, cpc, "notify") \in Nat
      /\ Num(Workers, wpc, "ready") \in Nat /\ Len(tasks) \in Nat
  BY AtFinite
<1>2. CASE WSleep(w)
  <2>1. /\ UNCHANGED <<stop, cpc, opc, tasks>> /\ ~stop /\ tasks = <<>> /\ Len(tasks) = 0
        /\ wpc[w] = "ready" /\ wpc' = [wpc EXCEPT ![w] = "waiting"]
    BY <1>2 DEF WSleep
  <2>2. Num(Workers, wpc', "ready") \in Nat
    BY AtFinite
  <2>. QED  BY <1>1, <2>1, <2>2 DEF PlacesInv, TasksInv, AwakeInv
<1>3. CASE WExit(w)
  <2>1. stop /\ UNCHANGED <<stop, cpc, opc>> /\ wpc[w] = "ready" /\ wpc' = [wpc EXCEPT ![w] = "done"]
    BY <1>3 DEF WExit
  <2>2. At(Workers, wpc', "waiting") = At(Workers, wpc, "waiting")
    BY <2>1 DEF At
  <2>. QED  BY <2>1, <2>2 DEF PlacesInv, TasksInv, AwakeInv
<1>4. CASE WWakeSpuriously(w) \/ WRun(w)
  <2>1. /\ UNCHANGED <<stop, cpc, opc, tasks>>
        /\ wpc[w] \in {"waiting", "run"} /\ wpc' = [wpc EXCEPT ![w] = "ready"]
    BY <1>4 DEF WWakeSpuriously, WRun
  <2>2. Num(Workers, wpc', "ready") = Num(Workers, wpc, "ready") + 1
    BY <2>1, WorkerMoves DEF WorkerPCs
  <2>3. At(Workers, wpc', "waiting") \subseteq At(Workers, wpc, "waiting")
    BY <2>1 DEF At
  <2>4. PlacesInv' /\ AwakeInv'
    BY <2>1, <2>3 DEF PlacesInv, AwakeInv
  <2>5. TasksInv'
    <3>. SUFFICES ASSUME At(Workers, wpc', "waiting") # {}, ~stop
                  PROVE  Len(tasks) <= Num(Workers, wpc', "ready") + Num(Clients, cpc, "notify")
      BY <2>1 DEF TasksInv
    <3>1. Len(tasks) <= Num(Workers, wpc, "ready") + Num(Clients, cpc, "notify")
      BY <2>3 DEF TasksInv
    <3>. HIDE DEF TypeInv, WakeInv
    <3>. QED  BY <1>1, <2>2, <3>1
  <2>. QED  BY <2>4, <2>5
<1>5. CASE WTake(w)
  <2>1. /\ UNCHANGED <<stop, opc>> /\ Len(tasks') = Len(tasks) - 1 /\ Len(tasks') \in Nat
        /\ wpc[w] = "ready" /\ wpc' = [wpc EXCEPT ![w] = "run"]
    BY <1>5 DEF WTake
  <2>2. /\ Num(Workers, wpc', "ready") = Num(Workers, wpc, "ready") - 1
        /\ At(Workers, wpc', "waiting") = At(Workers, wpc, "waiting")
    BY <2>1, WorkerMoves DEF WorkerPCs
  <2>3. CASE At(Clients, cpc, "waiting") = {} /\ UNCHANGED cpc
    <3>1. PlacesInv' /\ AwakeInv'
      BY <2>1, <2>2, <2>3 DEF PlacesInv, AwakeInv
    <3>2. TasksInv'
      <4>. SUFFICES ASSUME At(Workers, wpc, "waiting") # {}, ~stop
                    PROVE  Len(tasks) - 1 <= Num(Workers, wpc', "ready") + Num(Clients, cpc, "notify")
        BY <2>1, <2>2, <2>3 DEF TasksInv
      <4>1. Len(tasks) <= Num(Workers, wpc, "ready") + Num(Clients, cpc, "notify")
        BY DEF TasksInv
      <4>. HIDE DEF TypeInv, WakeInv
      <4>. QED  BY <1>1, <2>2, <4>1
    <3>. QED  BY <3>1, <3>2
  <2>4. ASSUME NEW c \in At(Clients, cpc, "waiting"), cpc' = [cpc EXCEPT ![c] = "ready"]
        PROVE  WakeInv'
    <3>1. c \in Clients /\ cpc[c] = "waiting"
      BY DEF At
    <3>2. /\ Num(Clients, cpc', "ready") = Num(Clients, cpc, "ready") + 1
          /\ At(Clients, cpc', "notify") = At(Clients, cpc, "notify")
      BY <2>4, <3>1, ClientMoves DEF ClientPCs
    <3>3. At(Clients, cpc', "waiting") \subseteq At(Clients, cpc, "waiting")
      BY <2>4 DEF At
    <3>. QED  BY <1>1, <2>1, <2>2, <2>4, <3>2, <3>3 DEF PlacesInv, TasksInv, AwakeInv, Num
  <2>. QED  BY <1>5, <2>3, <2>4 DEF WTake, WakeClient, BlockedClients, At
<1>. QED  BY <1>2, <1>3, <1>4, <1>5 DEF WorkerStep

(* A caller falls asleep only if the queue is over its capacity; one that  *)
(* fills a place leaves a task and a notification, and the notification    *)
(* turns a sleeping worker into one that is awake.                         *)
LEMMA ClientWakes ==
  ASSUME TypeInv, WakeInv, NEW c \in Clients, ClientStep(c) PROVE WakeInv'
<1>. USE ClientsAssumption, WorkersFinite, MaxQueueSizeAssumption
         DEF TypeInv, WakeInv, workerVars
<1>1. /\ Num(Clients, cpc, "ready") \in Nat /\ Num(Clients, cpc, "notify") \in Nat
      /\ Num(Workers, wpc, "ready") \in Nat /\ Len(tasks) \in Nat
  BY AtFinite
<1>2. CASE CSleep(c)
  <2>1. /\ UNCHANGED <<stop, wpc, opc, tasks>> /\ ~stop /\ Len(tasks) > MaxQueueSize
        /\ cpc[c] = "ready" /\ cpc' = [cpc EXCEPT ![c] = "waiting"]
    BY <1>2 DEF CSleep, HasRoom
  <2>2. Num(Clients, cpc', "ready") \in Nat
    BY AtFinite
  <2>3. At(Clients, cpc', "notify") = At(Clients, cpc, "notify")
    BY <2>1, ClientMoves DEF ClientPCs
  <2>. QED  BY <1>1, <2>1, <2>2, <2>3 DEF PlacesInv, TasksInv, AwakeInv, Num
<1>3. CASE CBegin(c) \/ CWakeSpuriously(c)
  <2>1. /\ UNCHANGED <<stop, wpc, opc, tasks>>
        /\ cpc[c] \in {"idle", "waiting"} /\ cpc' = [cpc EXCEPT ![c] = "ready"]
    BY <1>3 DEF CBegin, CWakeSpuriously
  <2>2. /\ Num(Clients, cpc', "ready") = Num(Clients, cpc, "ready") + 1
        /\ At(Clients, cpc', "notify") = At(Clients, cpc, "notify")
    BY <2>1, ClientMoves DEF ClientPCs
  <2>3. At(Clients, cpc', "waiting") \subseteq At(Clients, cpc, "waiting")
    BY <2>1 DEF At
  <2>4. TasksInv' /\ AwakeInv'
    BY <2>1, <2>2, <2>3 DEF TasksInv, AwakeInv, Num
  <2>5. PlacesInv'
    <3>. SUFFICES ASSUME At(Clients, cpc', "waiting") # {}, ~stop
                  PROVE  Len(tasks) + Num(Clients, cpc', "ready") > MaxQueueSize
      BY <2>1 DEF PlacesInv
    <3>1. Len(tasks) + Num(Clients, cpc, "ready") > MaxQueueSize
      BY <2>3 DEF PlacesInv
    <3>. HIDE DEF TypeInv, WakeInv
    <3>. QED  BY <1>1, <2>2, <3>1
  <2>. QED  BY <2>4, <2>5
<1>4. CASE CThrow(c)
  <2>1. /\ stop /\ UNCHANGED <<stop, wpc, opc>>
        /\ cpc[c] = "ready" /\ cpc' = [cpc EXCEPT ![c] = "idle"]
    BY <1>4 DEF CThrow
  <2>2. At(Clients, cpc', "waiting") = At(Clients, cpc, "waiting")
    BY <2>1 DEF At
  <2>. QED  BY <2>1, <2>2 DEF PlacesInv, TasksInv, AwakeInv
<1>5. CASE CPush(c)
  <2>1. /\ UNCHANGED <<stop, wpc, opc>> /\ Len(tasks') = Len(tasks) + 1
        /\ cpc[c] = "ready" /\ cpc' = [cpc EXCEPT ![c] = "notify"]
    BY <1>5 DEF CPush
  <2>2. /\ Num(Clients, cpc', "ready") = Num(Clients, cpc, "ready") - 1
        /\ Num(Clients, cpc', "notify") = Num(Clients, cpc, "notify") + 1
        /\ At(Clients, cpc', "waiting") = At(Clients, cpc, "waiting")
    BY <2>1, ClientMoves DEF ClientPCs
  <2>3. AwakeInv'
    BY <2>1, <2>2 DEF AwakeInv
  <2>4. PlacesInv'
    <3>. SUFFICES ASSUME At(Clients, cpc, "waiting") # {}, ~stop
                  PROVE  (Len(tasks) + 1) + Num(Clients, cpc', "ready") > MaxQueueSize
      BY <2>1, <2>2 DEF PlacesInv
    <3>1. Len(tasks) + Num(Clients, cpc, "ready") > MaxQueueSize
      BY DEF PlacesInv
    <3>. HIDE DEF TypeInv, WakeInv
    <3>. QED  BY <1>1, <2>2, <3>1
  <2>5. TasksInv'
    <3>. SUFFICES ASSUME At(Workers, wpc, "waiting") # {}, ~stop
                  PROVE  Len(tasks) + 1 <= Num(Workers, wpc, "ready") + Num(Clients, cpc', "notify")
      BY <2>1 DEF TasksInv
    <3>1. Len(tasks) <= Num(Workers, wpc, "ready") + Num(Clients, cpc, "notify")
      BY DEF TasksInv
    <3>. HIDE DEF TypeInv, WakeInv
    <3>. QED  BY <1>1, <2>2, <3>1
  <2>. QED  BY <2>3, <2>4, <2>5
<1>6. CASE CNotify(c)
  <2>1. /\ UNCHANGED <<stop, opc, tasks>>
        /\ cpc[c] = "notify" /\ cpc' = [cpc EXCEPT ![c] = "idle"]
    BY <1>6 DEF CNotify
  <2>2. /\ Num(Clients, cpc', "notify") = Num(Clients, cpc, "notify") - 1
        /\ At(Clients, cpc', "ready") = At(Clients, cpc, "ready")
        /\ At(Clients, cpc', "waiting") = At(Clients, cpc, "waiting")
    BY <2>1, ClientMoves DEF ClientPCs
  <2>3. PlacesInv'
    BY <2>1, <2>2 DEF PlacesInv, Num
  <2>4. CASE At(Workers, wpc, "waiting") = {} /\ UNCHANGED wpc
    BY <2>1, <2>2, <2>3, <2>4 DEF TasksInv, AwakeInv
  <2>5. ASSUME NEW w \in At(Workers, wpc, "waiting"), wpc' = [wpc EXCEPT ![w] = "ready"]
        PROVE  TasksInv' /\ AwakeInv'
    <3>1. w \in Workers /\ wpc[w] = "waiting"
      BY DEF At
    <3>2. Num(Workers, wpc', "ready") = Num(Workers, wpc, "ready") + 1
      BY <2>5, <3>1, WorkerMoves DEF WorkerPCs
    <3>3. At(Workers, wpc', "waiting") \subseteq At(Workers, wpc, "waiting")
      BY <2>5 DEF At
    <3>4. AwakeInv'
      BY <2>1, <2>2, <3>3 DEF AwakeInv
    <3>5. TasksInv'
      <4>. SUFFICES ASSUME At(Workers, wpc', "waiting") # {}, ~stop
                    PROVE  Len(tasks) <= Num(Workers, wpc', "ready") + Num(Clients, cpc', "notify")
        BY <2>1 DEF TasksInv
      <4>1. Len(tasks) <= Num(Workers, wpc, "ready") + Num(Clients, cpc, "notify")
        BY <3>3 DEF TasksInv
      <4>. HIDE DEF TypeInv, WakeInv
      <4>. QED  BY <1>1, <2>2, <3>2, <4>1
    <3>. QED  BY <3>4, <3>5
  <2>. QED  BY <1>6, <2>3, <2>4, <2>5 DEF CNotify, IdleWorkers, At
<1>. QED  BY <1>2, <1>3, <1>4, <1>5, <1>6 DEF ClientStep

LEMMA OwnerWakes == TypeInv /\ WakeInv /\ (OStop \/ ONotifyAll \/ OJoined) => WakeInv'
<1>. SUFFICES ASSUME TypeInv, WakeInv, OStop \/ ONotifyAll \/ OJoined PROVE WakeInv'
  OBVIOUS
<1>. USE DEF TypeInv, WakeInv, workerVars, clientVars
<1>1. CASE OStop \/ OJoined
  BY <1>1 DEF OStop, OJoined, PlacesInv, TasksInv, AwakeInv
<1>2. CASE ONotifyAll
  <2>1. stop /\ stop' /\ opc' = "notified"
    BY <1>2 DEF ONotifyAll, AwakeInv
  <2>2. At(Clients, cpc', "waiting") = {} /\ At(Workers, wpc', "waiting") = {}
    BY <1>2 DEF ONotifyAll, IdleWorkers, BlockedClients, At
  <2>. QED  BY <2>1, <2>2 DEF PlacesInv, TasksInv, AwakeInv
<1>. QED  BY <1>1, <1>2

-----------------------------------------------------------------------------
LEMMA WakeInvariance == Spec => [](TypeInv /\ WakeInv)
<1>1. Init => TypeInv /\ WakeInv
  <2>. SUFFICES ASSUME Init PROVE TypeInv /\ WakeInv
    OBVIOUS
  <2>1. TypeInv
    <3>1. tasks \in Seq(Tasks) /\ accepted \in Seq(Tasks)
      BY DEF Init
    <3>4. started \in Nat /\ stop \in BOOLEAN
      BY DEF Init
    <3>2. wpc \in [Workers -> WorkerPCs] /\ task \in [Workers -> Tasks \cup {None}]
      BY DEF Init, WorkerPCs
    <3>3. /\ cpc \in [Clients -> ClientPCs] /\ arg \in [Clients -> Tasks \cup {None}]
          /\ \A c \in Clients : cpc[c] \in {"ready", "waiting"} => arg[c] \in Tasks
      BY DEF Init, ClientPCs
    <3>. QED  BY <3>1, <3>2, <3>3, <3>4 DEF Init, TypeInv
  <2>2. At(Clients, cpc, "waiting") = {} /\ At(Workers, wpc, "waiting") = {}
    BY DEF Init, At
  <2>. QED  BY <2>1, <2>2 DEF Init, WakeInv, PlacesInv, TasksInv, AwakeInv
<1>2. TypeInv /\ WakeInv /\ [Next]_vars => WakeInv'
  <2>. SUFFICES ASSUME TypeInv, WakeInv, [Next]_vars PROVE WakeInv'
    OBVIOUS
  <2>1. CASE UNCHANGED vars
    BY <2>1 DEF vars, WakeInv, PlacesInv, TasksInv, AwakeInv, At, Num
  <2>. QED  BY <2>1, WorkerWakes, ClientWakes, OwnerWakes DEF Next, Terminated
<1>. QED  BY <1>1, <1>2, TypeStep, PTL DEF Spec

(* No wake-up is missing on either condition, whoever the notifications    *)
(* reach (6_thread_pool.cpp:33, 42, 62, 63, 77, 83).                       *)
THEOREM WakeupsAreEnough == Spec => []WakeupsSuffice
<1>1. TypeInv /\ WakeInv => WakeupsSuffice
  BY DEF WakeInv, PlacesInv, TasksInv, AwakeInv, WakeupsSuffice, BlockedClients, IdleWorkers, At, Num
<1>. QED  BY <1>1, WakeInvariance, PTL

-----------------------------------------------------------------------------
(***************************************************************************)
(* BoundedPool implements TaskQueue for every number of threads, callers   *)
(* and tasks and every capacity.  The history is tied to the state by      *)
(*   QueueInv  the queue is what was accepted and not yet started;         *)
(*   CallInv   a call's task was not accepted before and is nobody else's; *)
(*   TaskInv   a worker's task is started, unfinished and nobody else's,   *)
(*             and a started task nobody has is finished;                  *)
(*   EndInv    a thread ends when the queue has been drained.              *)
(***************************************************************************)

QueueInv ==
  /\ started <= Len(accepted) /\ Len(tasks) = Len(accepted) - started
  /\ \A i \in 1..Len(tasks) : tasks[i] = accepted[started + i]

Calling == {c \in Clients : cpc[c] \in {"ready", "waiting"}}

CallInv ==
  /\ \A i, j \in 1..Len(accepted) : accepted[i] = accepted[j] => i = j
  /\ \A c \in Calling : /\ \A i \in 1..Len(accepted) : accepted[i] # arg[c]
                        /\ \A d \in Clients \ {c} : arg[d] # arg[c]

TaskInv ==
  /\ \A i \in 1..started : accepted[i] \in finished \/ \E w \in Workers : task[w] = accepted[i]
  /\ \A t \in finished : \E i \in 1..started : accepted[i] = t
  /\ \A w \in Workers : wpc[w] = "run" <=> task[w] # None
  /\ \A w \in Workers : task[w] # None =>
       /\ task[w] \notin finished
       /\ \E i \in 1..started : accepted[i] = task[w]
       /\ \A v \in Workers \ {w} : task[v] # task[w]

EndInv ==
  /\ \A w \in Workers : wpc[w] = "done" => stop /\ tasks = <<>>
  /\ opc = "joined" => \A w \in Workers : wpc[w] = "done"

HInv == QueueInv /\ CallInv /\ TaskInv /\ EndInv

-----------------------------------------------------------------------------
(* The two steps that touch both the queue and the history. *)
LEMMA Pushing ==
  ASSUME TypeInv, QueueInv, NEW c \in Clients, CPush(c)
  PROVE  /\ arg[c] \in Tasks /\ Len(accepted') = Len(accepted) + 1
         /\ \A i \in 1..Len(accepted) : accepted'[i] = accepted[i]
         /\ accepted'[Len(accepted) + 1] = arg[c]
         /\ QueueInv'
<1>1. arg[c] \in Tasks /\ tasks' = Append(tasks, arg[c]) /\ accepted' = Append(accepted, arg[c])
  BY DEF TypeInv, CPush
<1>2. tasks \in Seq(Tasks) /\ accepted \in Seq(Tasks) /\ started \in Nat /\ started' = started
  BY DEF TypeInv, CPush
<1>3. /\ Len(accepted') = Len(accepted) + 1 /\ Len(tasks') = Len(tasks) + 1
      /\ \A i \in 1..Len(accepted) : accepted'[i] = accepted[i]
      /\ \A i \in 1..Len(tasks) : tasks'[i] = tasks[i]
      /\ accepted'[Len(accepted) + 1] = arg[c] /\ tasks'[Len(tasks) + 1] = arg[c]
  BY <1>1, <1>2
<1>4. Len(tasks) \in Nat /\ Len(accepted) \in Nat
  BY <1>2
<1>5. ASSUME NEW i \in 1..(Len(tasks) + 1) PROVE tasks'[i] = accepted'[started + i]
  <2>1. CASE i \in 1..Len(tasks)
    <3>1. started + i \in 1..Len(accepted)
      BY <1>2, <1>4, <2>1 DEF QueueInv
    <3>. QED  BY <1>3, <2>1, <3>1 DEF QueueInv
  <2>2. CASE i = Len(tasks) + 1
    <3>1. started + i = Len(accepted) + 1
      BY <1>2, <1>4, <2>2 DEF QueueInv
    <3>. QED  BY <1>3, <2>2, <3>1
  <2>. QED  BY <1>4, <2>1, <2>2
<1>6. QueueInv'
  BY <1>2, <1>3, <1>4, <1>5 DEF QueueInv
<1>. QED  BY <1>1, <1>3, <1>6

LEMMA Taking ==
  ASSUME TypeInv, QueueInv, NEW w \in Workers, WTake(w)
  PROVE  /\ started + 1 \in 1..Len(accepted) /\ Head(tasks) = accepted[started + 1]
         /\ QueueInv'
<1>1. /\ tasks # <<>> /\ tasks' = Tail(tasks) /\ started' = started + 1 /\ accepted' = accepted
      /\ tasks \in Seq(Tasks) /\ accepted \in Seq(Tasks) /\ started \in Nat
  BY DEF WTake, TypeInv
<1>2. /\ Len(tasks) \in Nat /\ Len(accepted) \in Nat /\ Len(tasks) > 0
      /\ Len(tasks') = Len(tasks) - 1 /\ Head(tasks) = tasks[1]
      /\ \A i \in 1..Len(tasks') : tasks'[i] = tasks[i + 1] /\ i + 1 \in 1..Len(tasks)
  BY <1>1
<1>3. started + 1 \in 1..Len(accepted) /\ Head(tasks) = accepted[started + 1]
  BY <1>1, <1>2 DEF QueueInv
<1>4. ASSUME NEW i \in 1..Len(tasks') PROVE tasks'[i] = accepted[started' + i]
  <2>1. tasks'[i] = accepted[started + (i + 1)]
    BY <1>2 DEF QueueInv
  <2>2. started + (i + 1) = started' + i
    BY <1>1
  <2>. QED  BY <2>1, <2>2
<1>5. QueueInv'
  BY <1>1, <1>2, <1>3, <1>4 DEF QueueInv
<1>. QED  BY <1>3, <1>5

LEMMA QueueStep == TypeInv /\ QueueInv /\ [Next]_vars => QueueInv'
<1>. SUFFICES ASSUME TypeInv, QueueInv, [Next]_vars PROVE QueueInv'
  OBVIOUS
<1>1. CASE UNCHANGED <<tasks, accepted, started>>
  BY <1>1 DEF QueueInv
<1>2. \/ \E c \in Clients : CPush(c)
      \/ \E w \in Workers : WTake(w)
      \/ UNCHANGED <<tasks, accepted, started>>
  BY DEF Next, WorkerStep, ClientStep, Terminated, vars, WSleep, WWakeSpuriously, WExit, WRun,
     CBegin, CSleep, CWakeSpuriously, CThrow, CNotify, OStop, ONotifyAll, OJoined
<1>. QED  BY <1>1, <1>2, Pushing, Taking

-----------------------------------------------------------------------------
(* A task object is used by one call. *)
LEMMA CallStep == TypeInv /\ QueueInv /\ CallInv /\ [Next]_vars => CallInv'
<1>. SUFFICES ASSUME TypeInv, QueueInv, CallInv, [Next]_vars PROVE CallInv'
  OBVIOUS
<1>. USE DEF clientVars
<1>1. ASSUME NEW c \in Clients, CBegin(c) PROVE CallInv'
  <2>1. PICK t \in Tasks \ Used : arg' = [arg EXCEPT ![c] = t]
    BY <1>1 DEF CBegin
  <2>2. /\ \A i \in 1..Len(accepted) : accepted[i] # t
        /\ \A d \in Clients : arg[d] # t
    BY <2>1 DEF Used, Elements
  <2>3. cpc' = [cpc EXCEPT ![c] = "ready"] /\ UNCHANGED accepted
    BY <1>1 DEF CBegin
  <2>4. cpc \in [Clients -> ClientPCs] /\ arg \in [Clients -> Tasks \cup {None}]
    BY DEF TypeInv
  <2>. QED  BY <2>1, <2>2, <2>3, <2>4 DEF CallInv, Calling
<1>2. ASSUME NEW c \in Clients, CThrow(c) \/ CNotify(c) PROVE CallInv'
  <2>1. /\ arg' = [arg EXCEPT ![c] = None] /\ cpc' = [cpc EXCEPT ![c] = "idle"]
        /\ UNCHANGED accepted
    BY <1>2 DEF CThrow, CNotify
  <2>2. \A d \in Calling : arg[d] # None
    BY NoneAssumption DEF TypeInv, Calling
  <2>. QED  BY <2>1, <2>2 DEF CallInv, Calling, TypeInv
<1>3. ASSUME NEW c \in Clients, CPush(c) PROVE CallInv'
  <2>1. /\ cpc[c] = "ready" /\ cpc' = [cpc EXCEPT ![c] = "notify"] /\ UNCHANGED arg
        /\ cpc \in [Clients -> ClientPCs] /\ Len(accepted) \in Nat
    BY <1>3 DEF CPush, TypeInv
  <2>2. /\ c \in Calling /\ \A d \in Calling' : d \in Calling /\ d # c
    BY <2>1 DEF Calling
  <2>3. /\ Len(accepted') = Len(accepted) + 1
        /\ \A i \in 1..Len(accepted) : accepted'[i] = accepted[i]
        /\ accepted'[Len(accepted) + 1] = arg[c]
    BY <1>3, Pushing
  <2>4. \A i \in 1..Len(accepted') : i \in 1..Len(accepted) \/ i = Len(accepted) + 1
    BY <2>1, <2>3
  <2>. QED  BY <2>1, <2>2, <2>3, <2>4 DEF CallInv
<1>4. CASE /\ UNCHANGED <<accepted, arg>>
           /\ \A c \in Clients : cpc'[c] \in {"ready", "waiting"} => cpc[c] \in {"ready", "waiting"}
  BY <1>4 DEF CallInv, Calling
<1>5. ASSUME NEW c \in Clients, CSleep(c) \/ CWakeSpuriously(c) PROVE CallInv'
  BY <1>4, <1>5 DEF CSleep, CWakeSpuriously, TypeInv
<1>6. ASSUME NEW w \in Workers, WorkerStep(w) PROVE CallInv'
  BY <1>4, <1>6 DEF WorkerStep, WSleep, WWakeSpuriously, WExit, WRun, WTake, WakeClient,
     BlockedClients, TypeInv
<1>7. CASE OStop \/ ONotifyAll \/ OJoined \/ UNCHANGED vars
  BY <1>4, <1>7 DEF OStop, ONotifyAll, OJoined, vars, BlockedClients, TypeInv
<1>. QED  BY <1>1, <1>2, <1>3, <1>5, <1>6, <1>7 DEF Next, ClientStep, Terminated

-----------------------------------------------------------------------------
(* A started task is finished or in the hands of one worker. *)
LEMMA TaskStep == TypeInv /\ QueueInv /\ CallInv /\ TaskInv /\ [Next]_vars => TaskInv'
<1>. SUFFICES ASSUME TypeInv, QueueInv, CallInv, TaskInv, [Next]_vars PROVE TaskInv'
  OBVIOUS
<1>1. ASSUME NEW c \in Clients, CPush(c) PROVE TaskInv'
  <2>1. UNCHANGED <<wpc, task, started, finished>> /\ \A i \in 1..Len(accepted) : accepted'[i] = accepted[i]
    BY <1>1, Pushing DEF CPush, workerVars
  <2>2. \A i \in 1..started : i \in 1..Len(accepted)
    BY DEF QueueInv, TypeInv
  <2>3. \A i \in 1..started : accepted'[i] = accepted[i]
    BY <2>1, <2>2
  <2>. QED  BY <2>1, <2>3 DEF TaskInv
<1>2. ASSUME NEW w \in Workers, WTake(w) PROVE TaskInv'
  <2>. DEFINE t == Head(tasks)
  <2>1. /\ wpc[w] = "ready" /\ wpc' = [wpc EXCEPT ![w] = "run"] /\ task' = [task EXCEPT ![w] = t]
        /\ started' = started + 1 /\ UNCHANGED <<accepted, finished>>
        /\ started \in Nat /\ wpc \in [Workers -> WorkerPCs] /\ task \in [Workers -> Tasks \cup {None}]
    BY <1>2 DEF WTake, TypeInv
  <2>2. started + 1 \in 1..Len(accepted) /\ t = accepted[started + 1]
    BY <1>2, Taking
  <2>. HIDE DEF t
  <2>3. \A i \in 1..started : i \in 1..Len(accepted) /\ accepted[i] \in Tasks /\ accepted[i] # t
    <3>1. \A i \in 1..started : i \in 1..Len(accepted) /\ i # started + 1
      BY <2>1 DEF QueueInv, TypeInv
    <3>. QED  BY <2>2, <3>1 DEF CallInv, TypeInv
  <2>4. t # None /\ t \notin finished /\ task[w] = None /\ \A v \in Workers : task[v] # t
    <3>1. t \in Tasks
      BY <2>2 DEF TypeInv
    <3>2. task[w] = None
      BY <2>1 DEF TaskInv
    <3>. QED  BY <2>3, <3>1, <3>2, NoneAssumption DEF TaskInv
  <2>5. /\ wpc'[w] = "run" /\ task'[w] = t
        /\ \A v \in Workers \ {w} : wpc'[v] = wpc[v] /\ task'[v] = task[v]
    BY <2>1
  <2>6. \A i \in 1..(started + 1) : i \in 1..started \/ i = started + 1
    BY <2>1
  <2>7. ASSUME NEW i \in 1..(started + 1)
        PROVE  accepted[i] \in finished \/ \E v \in Workers : task'[v] = accepted[i]
    <3>1. CASE i = started + 1
      BY <2>2, <2>5, <3>1
    <3>2. CASE i \in 1..started
      <4>1. accepted[i] # None
        BY <2>3, <3>2, NoneAssumption
      <4>. QED  BY <2>4, <2>5, <3>2, <4>1 DEF TaskInv
    <3>. QED  BY <2>6, <3>1, <3>2
  <2>8. \A i \in 1..started : i \in 1..(started + 1)
    BY <2>1
  <2>9. started + 1 \in 1..(started + 1)
    BY <2>1
  <2>10. \A u \in finished : \E i \in 1..(started + 1) : accepted[i] = u
    BY <2>8 DEF TaskInv
  <2>11. ASSUME NEW v \in Workers
         PROVE  /\ wpc'[v] = "run" <=> task'[v] # None
                /\ task'[v] # None => /\ task'[v] \notin finished
                                      /\ \E i \in 1..(started + 1) : accepted[i] = task'[v]
                                      /\ \A u \in Workers \ {v} : task'[u] # task'[v]
    <3>1. CASE v = w
      BY <2>2, <2>4, <2>5, <2>9, <3>1
    <3>2. CASE v # w
      BY <2>4, <2>5, <2>8, <3>2 DEF TaskInv
    <3>. QED  BY <3>1, <3>2
  <2>. QED  BY <2>1, <2>7, <2>10, <2>11 DEF TaskInv
<1>3. ASSUME NEW w \in Workers, WRun(w) PROVE TaskInv'
  <2>1. /\ wpc[w] = "run" /\ wpc' = [wpc EXCEPT ![w] = "ready"] /\ task' = [task EXCEPT ![w] = None]
        /\ finished' = finished \cup {task[w]} /\ UNCHANGED <<accepted, started>>
        /\ wpc \in [Workers -> WorkerPCs] /\ task \in [Workers -> Tasks \cup {None}]
    BY <1>3 DEF WRun, TypeInv
  <2>2. task[w] # None
    BY <2>1 DEF TaskInv
  <2>. QED  BY <2>1, <2>2 DEF TaskInv
<1>4. CASE /\ UNCHANGED <<task, accepted, started, finished>>
           /\ \A w \in Workers : wpc'[w] = "run" <=> wpc[w] = "run"
  BY <1>4 DEF TaskInv
<1>5. ASSUME NEW w \in Workers, WSleep(w) \/ WWakeSpuriously(w) \/ WExit(w) PROVE TaskInv'
  BY <1>4, <1>5 DEF WSleep, WWakeSpuriously, WExit, TypeInv
<1>6. ASSUME NEW c \in Clients, CBegin(c) \/ CSleep(c) \/ CWakeSpuriously(c) \/ CThrow(c) \/ CNotify(c)
      PROVE  TaskInv'
  BY <1>4, <1>6 DEF CBegin, CSleep, CWakeSpuriously, CThrow, CNotify, IdleWorkers, workerVars, TypeInv
<1>7. CASE OStop \/ ONotifyAll \/ OJoined \/ UNCHANGED vars
  BY <1>4, <1>7 DEF OStop, ONotifyAll, OJoined, vars, workerVars, IdleWorkers, TypeInv
<1>. QED  BY <1>1, <1>2, <1>3, <1>5, <1>6, <1>7 DEF Next, WorkerStep, ClientStep, Terminated

(* A thread that has ended saw the flag and an empty queue, and after the  *)
(* flag nothing is pushed.                                                 *)
LEMMA EndStep == TypeInv /\ EndInv /\ [Next]_vars => EndInv'
<1>. SUFFICES ASSUME TypeInv, EndInv, [Next]_vars PROVE EndInv'
  OBVIOUS
<1>. USE DEF EndInv, workerVars
<1>0. wpc \in [Workers -> WorkerPCs] /\ task \in [Workers -> Tasks \cup {None}]
  BY DEF TypeInv
<1>1. ASSUME NEW c \in Clients, ClientStep(c) PROVE EndInv'
  <2>1. UNCHANGED <<stop, opc>> /\ (tasks' = tasks \/ ~stop)
    BY <1>1 DEF ClientStep, CBegin, CSleep, CWakeSpuriously, CThrow, CPush, CNotify
  <2>2. \A w \in Workers : wpc'[w] = "done" <=> wpc[w] = "done"
    BY <1>0, <1>1 DEF ClientStep, CBegin, CSleep, CWakeSpuriously, CThrow, CPush, CNotify, IdleWorkers
  <2>. QED  BY <2>1, <2>2
<1>2. ASSUME NEW w \in Workers, WSleep(w) \/ WWakeSpuriously(w) \/ WExit(w) \/ WRun(w) PROVE EndInv'
  BY <1>0, <1>2 DEF WSleep, WWakeSpuriously, WExit, WRun
<1>3. ASSUME NEW w \in Workers, WTake(w) PROVE EndInv'
  <2>1. tasks # <<>> /\ UNCHANGED <<stop, opc>> /\ wpc' = [wpc EXCEPT ![w] = "run"] /\ wpc[w] = "ready"
    BY <1>3 DEF WTake
  <2>. QED  BY <1>0, <2>1
<1>4. CASE OStop \/ OJoined \/ UNCHANGED vars
  BY <1>4 DEF OStop, OJoined, vars
<1>5. CASE ONotifyAll
  <2>1. UNCHANGED <<stop, tasks>> /\ opc' = "notified"
    BY <1>5 DEF ONotifyAll
  <2>2. \A w \in Workers : wpc'[w] = "done" => wpc[w] = "done"
    BY <1>0, <1>5 DEF ONotifyAll, IdleWorkers
  <2>. QED  BY <2>1, <2>2
<1>. QED  BY <1>1, <1>2, <1>3, <1>4, <1>5 DEF Next, WorkerStep, Terminated

THEOREM HistoryInvariance == Spec => [](TypeInv /\ WakeInv /\ HInv)
<1>1. Init => HInv
  <2>. SUFFICES ASSUME Init PROVE HInv
    OBVIOUS
  <2>1. QueueInv /\ CallInv
    BY DEF Init, QueueInv, CallInv, Calling
  <2>2. TaskInv /\ EndInv
    BY DEF Init, TaskInv, EndInv
  <2>. QED  BY <2>1, <2>2 DEF HInv
<1>2. TypeInv /\ HInv /\ [Next]_vars => HInv'
  BY QueueStep, CallStep, TaskStep, EndStep DEF HInv
<1>. QED  BY <1>1, <1>2, WakeInvariance, PTL DEF Spec

-----------------------------------------------------------------------------
(* A push is Submit, a pop Start, a return Finish, raising the flag Close  *)
(* and the end of the destructor End; all else the task queue cannot see.  *)
LEMMA StepSimulation ==
  TypeInv /\ WakeInv /\ HInv /\ [Next]_vars => [Queue!Next]_(Queue!vars)
<1>. SUFFICES ASSUME TypeInv, WakeInv, HInv, [Next]_vars
              PROVE  Queue!Next \/ UNCHANGED Queue!vars
  OBVIOUS
<1>. DEFINE phase == IF opc = "joined" THEN "ended" ELSE IF stop THEN "closed" ELSE "open"
<1>. USE DEF HInv
<1>1. ASSUME NEW c \in Clients, CPush(c) PROVE Queue!Next
  <2>1. arg[c] \in Tasks /\ \A i \in 1..Len(accepted) : accepted[i] # arg[c]
    BY <1>1, Pushing DEF CPush, CallInv, Calling
  <2>2. phase = "open" /\ phase' = "open"
    BY <1>1 DEF CPush, WakeInv, AwakeInv
  <2>3. Queue!Submit(arg[c])
    BY <1>1, <2>1, <2>2 DEF CPush, Queue!Submit
  <2>. QED  BY <2>1, <2>3 DEF Queue!Next
<1>2. ASSUME NEW w \in Workers, WTake(w) PROVE Queue!Next
  <2>1. wpc[w] = "ready" /\ started < Len(accepted)
    <3>1. wpc[w] = "ready" /\ started + 1 \in 1..Len(accepted)
      BY <1>2, Taking DEF WTake
    <3>2. started \in Nat /\ Len(accepted) \in Nat
      BY DEF TypeInv
    <3>. HIDE DEF HInv, phase
    <3>. QED  BY <3>1, <3>2
  <2>2. phase # "ended" /\ phase' = phase
    BY <1>2, <2>1 DEF WTake, EndInv
  <2>3. Queue!Start
    BY <1>2, <2>1, <2>2 DEF WTake, Queue!Start
  <2>. QED  BY <2>3 DEF Queue!Next
<1>3. ASSUME NEW w \in Workers, WRun(w) PROVE Queue!Next
  <2>1. /\ task[w] \in Tasks /\ task[w] \notin finished
        /\ \E i \in 1..started : accepted[i] = task[w]
    BY <1>3 DEF WRun, TaskInv, TypeInv
  <2>2. phase # "ended" /\ phase' = phase
    BY <1>3 DEF WRun, EndInv
  <2>3. Queue!Finish(task[w])
    BY <1>3, <2>1, <2>2 DEF WRun, Queue!Finish
  <2>. QED  BY <2>1, <2>3 DEF Queue!Next
<1>4. CASE OStop
  <2>1. phase = "open" /\ phase' = "closed"
    BY <1>4 DEF OStop, WakeInv, AwakeInv
  <2>2. Queue!Close
    BY <1>4, <2>1 DEF OStop, Queue!Close
  <2>. QED  BY <2>2 DEF Queue!Next
<1>5. CASE OJoined
  <2>1. \A w \in Workers : wpc[w] = "done" /\ task[w] = None
    BY <1>5 DEF OJoined, TaskInv
  <2>2. tasks = <<>>
    BY <2>1, WorkersFinite DEF EndInv
  <2>3. started = Len(accepted)
    BY <2>2 DEF QueueInv, TypeInv
  <2>4. \A i \in 1..Len(accepted) : accepted[i] \in finished
    <3>1. \A i \in 1..Len(accepted) : accepted[i] # None
      BY NoneAssumption DEF TypeInv
    <3>. QED  BY <2>1, <2>3, <3>1 DEF TaskInv
  <2>5. phase = "closed" /\ phase' = "ended"
    BY <1>5 DEF OJoined, WakeInv, AwakeInv
  <2>6. Queue!End
    BY <1>5, <2>3, <2>4, <2>5 DEF OJoined, Queue!End
  <2>. QED  BY <2>6 DEF Queue!Next
<1>6. CASE ONotifyAll
  BY <1>6 DEF ONotifyAll, Queue!vars
<1>7. ASSUME UNCHANGED <<accepted, started, finished, stop, opc>> PROVE UNCHANGED Queue!vars
  BY <1>7 DEF Queue!vars
<1>8. ASSUME NEW w \in Workers, WSleep(w) \/ WWakeSpuriously(w) \/ WExit(w)
      PROVE  UNCHANGED Queue!vars
  BY <1>7, <1>8 DEF WSleep, WWakeSpuriously, WExit
<1>9. ASSUME NEW c \in Clients, CBegin(c) \/ CSleep(c) \/ CWakeSpuriously(c) \/ CThrow(c) \/ CNotify(c)
      PROVE  UNCHANGED Queue!vars
  BY <1>7, <1>9 DEF CBegin, CSleep, CWakeSpuriously, CThrow, CNotify
<1>10. CASE UNCHANGED vars
  BY <1>7, <1>10 DEF vars
<1>. QED
  BY <1>1, <1>2, <1>3, <1>4, <1>5, <1>6, <1>8, <1>9, <1>10
     DEF Next, WorkerStep, ClientStep, Terminated

(* The bounded pool, too, starts what it accepts in order, exactly once,   *)
(* and has finished it when the destructor returns                         *)
(* (6_thread_pool.cpp:31-49, 56-69, 73-83).                                *)
THEOREM Implementation == Spec => ImplementsTaskQueue
<1>1. Init => Queue!Init
  BY DEF Init, Queue!Init
<1>. QED
  BY <1>1, HistoryInvariance, StepSimulation, PTL DEF Spec, Queue!Spec, ImplementsTaskQueue
==============================================================================
