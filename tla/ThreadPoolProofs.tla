--------------------------- MODULE ThreadPoolProofs --------------------------
(***************************************************************************)
(* Proofs about ThreadPool for every number of workers, clients and tasks. *)
(* The inductive invariant IInv is the conjunction of these parts:         *)
(*   TypeOK        the types;                                              *)
(*   LockInv       who holds my_mutex, from the program counters;          *)
(*   LocalInv      which local variables are set, from the counters;       *)
(*   StopInv       how stop, the queue and the counters relate;            *)
(*   NoLostWakeup  the property itself, inductive with the others.         *)
(***************************************************************************)
EXTENDS ThreadPool, TLAPS

(* A thread holds the mutex exactly while it is inside a critical section. *)
LockInv ==
  /\ \A w \in Workers : wpc[w] \in InCriticalSection <=> lock = w
  /\ \A c \in Clients : cpc[c] = "body" <=> lock = c
  /\ opc = "stop" <=> lock = Owner

(* A client has an argument during a call, a worker a task while it runs. *)
LocalInv ==
  /\ \A c \in Clients : cpc[c] = "idle" <=> arg[c] = None
  /\ \A w \in Workers : wpc[w] = "run" <=> task[w] # None

(* What the owner's position says about stop, the queue and the workers. *)
StopInv ==
  /\ stop <=> opc \in {"notify", "join", "joined"}
  /\ opc = "ctor" => tasks = <<>> /\ \A c \in Clients : cpc[c] = "idle"
  /\ opc \in {"join", "joined"} => \A w \in Workers : wpc[w] # "waiting"
  /\ \A w \in Workers :
       /\ wpc[w] = "unborn" <=> opc = "ctor" /\ index < w
       /\ wpc[w] = "block"  => ~stop /\ tasks = <<>>
       /\ wpc[w] = "ready"  => stop \/ tasks # <<>>
       /\ wpc[w] = "done"   => stop /\ tasks = <<>>

IInv == TypeOK /\ LockInv /\ LocalInv /\ StopInv /\ NoLostWakeup

-----------------------------------------------------------------------------
(* The initial state satisfies the inductive invariant. *)
LEMMA InitIInv == Init => IInv
<1> SUFFICES ASSUME Init PROVE IInv
  OBVIOUS
<1> USE SizeAssumption, NamesAssumption DEF Init, Workers
<1>1. TypeOK
  <2>1. tasks \in Seq(Tasks) /\ accepted \in Seq(Tasks)
    OBVIOUS
  <2>2. wpc \in [Workers -> WorkerPCs] /\ task \in [Workers -> Tasks \cup {None}]
    BY DEF WorkerPCs
  <2>3. cpc \in [Clients -> ClientPCs] /\ arg \in [Clients -> Tasks \cup {None}]
    BY DEF ClientPCs
  <2>4. lock \in Threads \cup {None} /\ opc \in OwnerPCs /\ index \in 0..Size
    BY DEF OwnerPCs
  <2>5. stop \in BOOLEAN /\ started \in Nat /\ finished \in SUBSET Tasks /\ refused \in SUBSET Tasks
    OBVIOUS
  <2> QED
    BY <2>1, <2>2, <2>3, <2>4, <2>5 DEF TypeOK
<1>2. LockInv
  BY DEF LockInv, InCriticalSection
<1>3. LocalInv
  BY DEF LocalInv
<1>4. StopInv
  BY DEF StopInv
<1>5. NoLostWakeup
  BY DEF NoLostWakeup
<1> QED
  BY <1>1, <1>2, <1>3, <1>4, <1>5 DEF IInv

(* Every step keeps the types; taking a task needs StopInv, running it LocalInv. *)
LEMMA TypeStep == IInv /\ [Next]_vars => TypeOK'
<1> SUFFICES ASSUME IInv, [Next]_vars PROVE TypeOK'
  OBVIOUS
<1> USE SizeAssumption, NamesAssumption DEF IInv, TypeOK, LocalInv, StopInv, Workers, Threads, Waiting, WorkerPCs, ClientPCs, OwnerPCs, InCriticalSection, vars, ownerVars, clientVars, workerVars, historyVars
<1>1. ASSUME OCreate PROVE TypeOK'
  BY <1>1 DEF OCreate
<1>2. ASSUME OConstructed PROVE TypeOK'
  BY <1>2 DEF OConstructed
<1>3. ASSUME OBeginDestroy PROVE TypeOK'
  BY <1>3 DEF OBeginDestroy
<1>4. ASSUME OLock PROVE TypeOK'
  BY <1>4 DEF OLock
<1>5. ASSUME OStop PROVE TypeOK'
  BY <1>5 DEF OStop
<1>6. ASSUME ONotifyAll PROVE TypeOK'
  BY <1>6 DEF ONotifyAll
<1>7. ASSUME OJoin PROVE TypeOK'
  BY <1>7 DEF OJoin
<1>8. ASSUME OJoined PROVE TypeOK'
  BY <1>8 DEF OJoined
<1>9. ASSUME NEW c \in Clients, CBegin(c) PROVE TypeOK'
  BY <1>9 DEF CBegin
<1>10. ASSUME NEW c \in Clients, CLock(c) PROVE TypeOK'
  BY <1>10 DEF CLock
<1>11. ASSUME NEW c \in Clients, CThrow(c) PROVE TypeOK'
  BY <1>11 DEF CThrow
<1>12. ASSUME NEW c \in Clients, CEmplace(c) PROVE TypeOK'
  BY <1>12 DEF CEmplace
<1>13. ASSUME NEW c \in Clients, CNotify(c) PROVE TypeOK'
  BY <1>13 DEF CNotify
<1>14. ASSUME NEW w \in Workers, WLock(w) PROVE TypeOK'
  BY <1>14 DEF WLock
<1>15. ASSUME NEW w \in Workers, WCheck(w) PROVE TypeOK'
  BY <1>15 DEF WCheck
<1>16. ASSUME NEW w \in Workers, WBlock(w) PROVE TypeOK'
  BY <1>16 DEF WBlock
<1>17. ASSUME NEW w \in Workers, WSpurious(w) PROVE TypeOK'
  BY <1>17 DEF WSpurious
<1>18. ASSUME NEW w \in Workers, WExit(w) PROVE TypeOK'
  BY <1>18 DEF WExit
<1>19. ASSUME NEW w \in Workers, WTake(w) PROVE TypeOK'
  BY <1>19 DEF WTake
<1>20. ASSUME NEW w \in Workers, WRun(w) PROVE TypeOK'
  BY <1>20 DEF WRun
<1>21. CASE UNCHANGED vars
  BY <1>21
<1> QED
  BY <1>1, <1>2, <1>3, <1>4, <1>5, <1>6, <1>7, <1>8, <1>9, <1>10, <1>11, <1>12, <1>13, <1>14, <1>15, <1>16, <1>17, <1>18, <1>19, <1>20, <1>21
     DEF Next, OwnerStep, ClientStep, WorkerStep, Terminated

(* What a push does, and who holds the mutex then. *)
LEMMA EmplaceEffect ==
  ASSUME NEW c \in Clients, IInv, CEmplace(c)
  PROVE  /\ tasks' # <<>> /\ ~stop /\ lock = c /\ lock' = None
         /\ cpc' = [cpc EXCEPT ![c] = "notify"]
         /\ UNCHANGED <<stop, wpc, opc, index>>
         /\ \A v \in Workers : lock # v
<1>1. /\ ~stop /\ lock' = None /\ cpc[c] = "body" /\ tasks' = Append(tasks, arg[c])
      /\ cpc' = [cpc EXCEPT ![c] = "notify"]
      /\ UNCHANGED <<stop, wpc, opc, index>>
  BY DEF CEmplace, workerVars, ownerVars
<1>2. arg[c] \in Tasks
  BY <1>1, NamesAssumption DEF IInv, TypeOK, LocalInv
<1>3. tasks \in Seq(Tasks)
  BY DEF IInv, TypeOK
<1>4. tasks' # <<>>
  BY <1>1, <1>2, <1>3
<1>5. lock = c
  BY <1>1 DEF IInv, LockInv
<1>6. \A v \in Workers : c # v
  BY NamesAssumption, SizeAssumption DEF Workers
<1> QED
  BY <1>1, <1>4, <1>5, <1>6

(* Falling asleep: the mutex was the worker's and is nobody's afterwards. *)
LEMMA BlockEffect ==
  ASSUME NEW w \in Workers, IInv, WBlock(w)
  PROVE  lock = w /\ lock' = None /\ UNCHANGED cpc /\ \A d \in Clients : lock # d
<1>1. wpc[w] = "block" /\ lock' = None /\ UNCHANGED cpc
  BY DEF WBlock, clientVars
<1>2. lock = w
  BY <1>1 DEF IInv, LockInv, InCriticalSection
<1>3. \A d \in Clients : d # w
  BY NamesAssumption, SizeAssumption DEF Workers
<1> QED
  BY <1>1, <1>2, <1>3

(* Every step keeps the mutex with the thread in the critical section. *)
LEMMA LockStep == IInv /\ [Next]_vars => LockInv'
<1> SUFFICES ASSUME IInv, [Next]_vars PROVE LockInv'
  OBVIOUS
<1>a. ASSUME NEW c \in Clients, CEmplace(c)
      PROVE  /\ lock = c /\ lock' = None /\ cpc' = [cpc EXCEPT ![c] = "notify"]
             /\ UNCHANGED wpc /\ \A v \in Workers : lock # v
  BY <1>a, EmplaceEffect
<1>b. ASSUME NEW w \in Workers, WBlock(w)
      PROVE  lock = w /\ lock' = None /\ UNCHANGED cpc /\ \A d \in Clients : lock # d
  BY <1>b, BlockEffect
<1> USE SizeAssumption, NamesAssumption DEF IInv, TypeOK, LockInv, StopInv, Workers, Waiting, WorkerPCs, ClientPCs, OwnerPCs, InCriticalSection, vars, ownerVars, clientVars, workerVars, historyVars
<1>1. ASSUME OCreate PROVE LockInv'
  BY <1>1 DEF OCreate
<1>2. ASSUME OConstructed PROVE LockInv'
  BY <1>2 DEF OConstructed
<1>3. ASSUME OBeginDestroy PROVE LockInv'
  BY <1>3 DEF OBeginDestroy
<1>4. ASSUME OLock PROVE LockInv'
  BY <1>4 DEF OLock
<1>5. ASSUME OStop PROVE LockInv'
  BY <1>5 DEF OStop
<1>6. ASSUME ONotifyAll PROVE LockInv'
  BY <1>6 DEF ONotifyAll
<1>7. ASSUME OJoin PROVE LockInv'
  BY <1>7 DEF OJoin
<1>8. ASSUME OJoined PROVE LockInv'
  BY <1>8 DEF OJoined
<1>9. ASSUME NEW c \in Clients, CBegin(c) PROVE LockInv'
  BY <1>9 DEF CBegin
<1>10. ASSUME NEW c \in Clients, CLock(c) PROVE LockInv'
  BY <1>10 DEF CLock
<1>11. ASSUME NEW c \in Clients, CThrow(c) PROVE LockInv'
  <2>1. \A v \in Workers : wpc'[v] \in InCriticalSection <=> lock' = v
    BY <1>11 DEF CThrow
  <2>2. \A d \in Clients : cpc'[d] = "body" <=> lock' = d
    BY <1>11, SMTT(30) DEF CThrow
  <2>3. opc' = "stop" <=> lock' = Owner
    BY <1>11 DEF CThrow
  <2> QED
    BY <2>1, <2>2, <2>3
<1>12. ASSUME NEW c \in Clients, CEmplace(c) PROVE LockInv'
  <2>1. \A v \in Workers : wpc'[v] \in InCriticalSection <=> lock' = v
    BY <1>12, <1>a
  <2>2. \A d \in Clients : cpc'[d] = "body" <=> lock' = d
    <3>1. lock = c /\ lock' = None /\ cpc' = [cpc EXCEPT ![c] = "notify"]
      BY <1>12, <1>a
    <3> QED
      BY <3>1
  <2>3. opc' = "stop" <=> lock' = Owner
    BY <1>12 DEF CEmplace
  <2> QED
    BY <2>1, <2>2, <2>3
<1>13. ASSUME NEW c \in Clients, CNotify(c) PROVE LockInv'
  BY <1>13 DEF CNotify
<1>14. ASSUME NEW w \in Workers, WLock(w) PROVE LockInv'
  <2>1. \A v \in Workers : wpc'[v] \in InCriticalSection <=> lock' = v
    BY <1>14 DEF WLock
  <2>2. \A d \in Clients : cpc'[d] = "body" <=> lock' = d
    BY <1>14, SMTT(30) DEF WLock
  <2>3. opc' = "stop" <=> lock' = Owner
    BY <1>14 DEF WLock
  <2> QED
    BY <2>1, <2>2, <2>3
<1>15. ASSUME NEW w \in Workers, WCheck(w) PROVE LockInv'
  BY <1>15 DEF WCheck
<1>16. ASSUME NEW w \in Workers, WBlock(w) PROVE LockInv'
  <2>1. \A v \in Workers : wpc'[v] \in InCriticalSection <=> lock' = v
    BY <1>16 DEF WBlock
  <2>2. \A d \in Clients : cpc'[d] = "body" <=> lock' = d
    BY <1>16, <1>b
  <2>3. opc' = "stop" <=> lock' = Owner
    BY <1>16 DEF WBlock
  <2> QED
    BY <2>1, <2>2, <2>3
<1>17. ASSUME NEW w \in Workers, WSpurious(w) PROVE LockInv'
  BY <1>17 DEF WSpurious
<1>18. ASSUME NEW w \in Workers, WExit(w) PROVE LockInv'
  BY <1>18 DEF WExit
<1>19. ASSUME NEW w \in Workers, WTake(w) PROVE LockInv'
  <2>1. \A v \in Workers : wpc'[v] \in InCriticalSection <=> lock' = v
    BY <1>19 DEF WTake
  <2>2. \A d \in Clients : cpc'[d] = "body" <=> lock' = d
    BY <1>19, SMTT(30) DEF WTake
  <2>3. opc' = "stop" <=> lock' = Owner
    BY <1>19 DEF WTake
  <2> QED
    BY <2>1, <2>2, <2>3
<1>20. ASSUME NEW w \in Workers, WRun(w) PROVE LockInv'
  BY <1>20 DEF WRun
<1>21. CASE UNCHANGED vars
  BY <1>21
<1> QED
  BY <1>1, <1>2, <1>3, <1>4, <1>5, <1>6, <1>7, <1>8, <1>9, <1>10, <1>11, <1>12, <1>13, <1>14, <1>15, <1>16, <1>17, <1>18, <1>19, <1>20, <1>21
     DEF Next, OwnerStep, ClientStep, WorkerStep, Terminated

(* Every step keeps the local variables in line with the counters. *)
LEMMA LocalStep == IInv /\ [Next]_vars => LocalInv'
<1> SUFFICES ASSUME IInv, [Next]_vars PROVE LocalInv'
  OBVIOUS
<1> USE SizeAssumption, NamesAssumption DEF IInv, TypeOK, LocalInv, StopInv, Workers, Waiting, WorkerPCs, ClientPCs, OwnerPCs, InCriticalSection, vars, ownerVars, clientVars, workerVars, historyVars
<1>1. ASSUME OCreate PROVE LocalInv'
  BY <1>1 DEF OCreate
<1>2. ASSUME OConstructed PROVE LocalInv'
  BY <1>2 DEF OConstructed
<1>3. ASSUME OBeginDestroy PROVE LocalInv'
  BY <1>3 DEF OBeginDestroy
<1>4. ASSUME OLock PROVE LocalInv'
  BY <1>4 DEF OLock
<1>5. ASSUME OStop PROVE LocalInv'
  BY <1>5 DEF OStop
<1>6. ASSUME ONotifyAll PROVE LocalInv'
  BY <1>6 DEF ONotifyAll
<1>7. ASSUME OJoin PROVE LocalInv'
  BY <1>7 DEF OJoin
<1>8. ASSUME OJoined PROVE LocalInv'
  BY <1>8 DEF OJoined
<1>9. ASSUME NEW c \in Clients, CBegin(c) PROVE LocalInv'
  BY <1>9 DEF CBegin
<1>10. ASSUME NEW c \in Clients, CLock(c) PROVE LocalInv'
  BY <1>10 DEF CLock
<1>11. ASSUME NEW c \in Clients, CThrow(c) PROVE LocalInv'
  BY <1>11 DEF CThrow
<1>12. ASSUME NEW c \in Clients, CEmplace(c) PROVE LocalInv'
  BY <1>12 DEF CEmplace
<1>13. ASSUME NEW c \in Clients, CNotify(c) PROVE LocalInv'
  BY <1>13 DEF CNotify
<1>14. ASSUME NEW w \in Workers, WLock(w) PROVE LocalInv'
  BY <1>14 DEF WLock
<1>15. ASSUME NEW w \in Workers, WCheck(w) PROVE LocalInv'
  BY <1>15 DEF WCheck
<1>16. ASSUME NEW w \in Workers, WBlock(w) PROVE LocalInv'
  BY <1>16 DEF WBlock
<1>17. ASSUME NEW w \in Workers, WSpurious(w) PROVE LocalInv'
  BY <1>17 DEF WSpurious
<1>18. ASSUME NEW w \in Workers, WExit(w) PROVE LocalInv'
  BY <1>18 DEF WExit
<1>19. ASSUME NEW w \in Workers, WTake(w) PROVE LocalInv'
  BY <1>19 DEF WTake
<1>20. ASSUME NEW w \in Workers, WRun(w) PROVE LocalInv'
  BY <1>20 DEF WRun
<1>21. CASE UNCHANGED vars
  BY <1>21
<1> QED
  BY <1>1, <1>2, <1>3, <1>4, <1>5, <1>6, <1>7, <1>8, <1>9, <1>10, <1>11, <1>12, <1>13, <1>14, <1>15, <1>16, <1>17, <1>18, <1>19, <1>20, <1>21
     DEF Next, OwnerStep, ClientStep, WorkerStep, Terminated

(* Every step keeps StopInv: the mutex excludes a push or a stop between a worker's check and its sleep. *)
LEMMA StopStep == IInv /\ [Next]_vars => StopInv'
<1> SUFFICES ASSUME IInv, [Next]_vars PROVE StopInv'
  OBVIOUS
<1>a. ASSUME NEW c \in Clients, CEmplace(c)
      PROVE  /\ tasks' # <<>> /\ ~stop /\ lock = c /\ cpc' = [cpc EXCEPT ![c] = "notify"]
             /\ UNCHANGED <<stop, wpc, opc, index>> /\ \A v \in Workers : lock # v
  BY <1>a, EmplaceEffect
<1> USE SizeAssumption, NamesAssumption DEF IInv, TypeOK, LockInv, StopInv, Workers, Waiting, WorkerPCs, ClientPCs, OwnerPCs, InCriticalSection, vars, ownerVars, clientVars, workerVars, historyVars
<1>1. ASSUME OCreate PROVE StopInv'
  BY <1>1 DEF OCreate
<1>2. ASSUME OConstructed PROVE StopInv'
  BY <1>2 DEF OConstructed
<1>3. ASSUME OBeginDestroy PROVE StopInv'
  BY <1>3 DEF OBeginDestroy
<1>4. ASSUME OLock PROVE StopInv'
  BY <1>4 DEF OLock
<1>5. ASSUME OStop PROVE StopInv'
  BY <1>5 DEF OStop
<1>6. ASSUME ONotifyAll PROVE StopInv'
  BY <1>6 DEF ONotifyAll
<1>7. ASSUME OJoin PROVE StopInv'
  BY <1>7 DEF OJoin
<1>8. ASSUME OJoined PROVE StopInv'
  BY <1>8 DEF OJoined
<1>9. ASSUME NEW c \in Clients, CBegin(c) PROVE StopInv'
  BY <1>9 DEF CBegin
<1>10. ASSUME NEW c \in Clients, CLock(c) PROVE StopInv'
  BY <1>10 DEF CLock
<1>11. ASSUME NEW c \in Clients, CThrow(c) PROVE StopInv'
  BY <1>11 DEF CThrow
<1>12. ASSUME NEW c \in Clients, CEmplace(c) PROVE StopInv'
  <2>1. /\ tasks' # <<>> /\ ~stop /\ lock = c /\ cpc' = [cpc EXCEPT ![c] = "notify"]
        /\ UNCHANGED <<stop, wpc, opc, index>> /\ \A v \in Workers : lock # v
    BY <1>12, <1>a
  <2>2. ASSUME NEW v \in Workers PROVE wpc[v] # "block" /\ wpc[v] # "done"
    <3>1. lock # v
      BY <2>1
    <3>2. wpc[v] \notin {"check", "block", "ready"}
      BY <3>1 DEF LockInv, InCriticalSection
    <3>3. wpc[v] = "done" => stop
      BY DEF StopInv
    <3> QED
      BY <2>1, <3>2, <3>3
  <2>3. opc # "ctor"
    BY <1>12 DEF CEmplace, StopInv
  <2>4. stop' <=> opc' \in {"notify", "join", "joined"}
    BY <2>1 DEF StopInv
  <2>5. opc' \in {"join", "joined"} => \A w \in Workers : wpc'[w] # "waiting"
    BY <2>1 DEF StopInv
  <2>6. ASSUME NEW v \in Workers
        PROVE  /\ wpc'[v] = "unborn" <=> opc' = "ctor" /\ index' < v
               /\ wpc'[v] = "block"  => ~stop' /\ tasks' = <<>>
               /\ wpc'[v] = "ready"  => stop' \/ tasks' # <<>>
               /\ wpc'[v] = "done"   => stop' /\ tasks' = <<>>
    BY <2>1, <2>2 DEF StopInv
  <2> QED
    BY <2>1, <2>3, <2>4, <2>5, <2>6 DEF StopInv
<1>13. ASSUME NEW c \in Clients, CNotify(c) PROVE StopInv'
  BY <1>13 DEF CNotify
<1>14. ASSUME NEW w \in Workers, WLock(w) PROVE StopInv'
  BY <1>14 DEF WLock
<1>15. ASSUME NEW w \in Workers, WCheck(w) PROVE StopInv'
  BY <1>15 DEF WCheck
<1>16. ASSUME NEW w \in Workers, WBlock(w) PROVE StopInv'
  BY <1>16 DEF WBlock
<1>17. ASSUME NEW w \in Workers, WSpurious(w) PROVE StopInv'
  BY <1>17 DEF WSpurious
<1>18. ASSUME NEW w \in Workers, WExit(w) PROVE StopInv'
  BY <1>18 DEF WExit
<1>19. ASSUME NEW w \in Workers, WTake(w) PROVE StopInv'
  BY <1>19 DEF WTake
<1>20. ASSUME NEW w \in Workers, WRun(w) PROVE StopInv'
  BY <1>20 DEF WRun
<1>21. CASE UNCHANGED vars
  BY <1>21
<1> QED
  BY <1>1, <1>2, <1>3, <1>4, <1>5, <1>6, <1>7, <1>8, <1>9, <1>10, <1>11, <1>12, <1>13, <1>14, <1>15, <1>16, <1>17, <1>18, <1>19, <1>20, <1>21
     DEF Next, OwnerStep, ClientStep, WorkerStep, Terminated

(* Every step keeps NoLostWakeup: a worker falls asleep only with an empty queue, and a push is followed by a notification. *)
LEMMA WakeupStep == IInv /\ [Next]_vars => NoLostWakeup'
<1> SUFFICES ASSUME IInv, [Next]_vars PROVE NoLostWakeup'
  OBVIOUS
<1> USE SizeAssumption, NamesAssumption DEF IInv, TypeOK, LockInv, StopInv, NoLostWakeup, Workers, Waiting, WorkerPCs, ClientPCs, OwnerPCs, InCriticalSection, vars, ownerVars, clientVars, workerVars, historyVars
<1>1. ASSUME OCreate PROVE NoLostWakeup'
  BY <1>1 DEF OCreate
<1>2. ASSUME OConstructed PROVE NoLostWakeup'
  BY <1>2 DEF OConstructed
<1>3. ASSUME OBeginDestroy PROVE NoLostWakeup'
  BY <1>3 DEF OBeginDestroy
<1>4. ASSUME OLock PROVE NoLostWakeup'
  BY <1>4 DEF OLock
<1>5. ASSUME OStop PROVE NoLostWakeup'
  BY <1>5 DEF OStop
<1>6. ASSUME ONotifyAll PROVE NoLostWakeup'
  BY <1>6 DEF ONotifyAll
<1>7. ASSUME OJoin PROVE NoLostWakeup'
  BY <1>7 DEF OJoin
<1>8. ASSUME OJoined PROVE NoLostWakeup'
  BY <1>8 DEF OJoined
<1>9. ASSUME NEW c \in Clients, CBegin(c) PROVE NoLostWakeup'
  BY <1>9 DEF CBegin
<1>10. ASSUME NEW c \in Clients, CLock(c) PROVE NoLostWakeup'
  BY <1>10 DEF CLock
<1>11. ASSUME NEW c \in Clients, CThrow(c) PROVE NoLostWakeup'
  BY <1>11 DEF CThrow
<1>12. ASSUME NEW c \in Clients, CEmplace(c) PROVE NoLostWakeup'
  BY <1>12 DEF CEmplace
<1>13. ASSUME NEW c \in Clients, CNotify(c) PROVE NoLostWakeup'
  <2>1. CASE \E w \in Waiting : wpc' = [wpc EXCEPT ![w] = "lock"]
    BY <1>13, <2>1 DEF CNotify
  <2>2. CASE Waiting = {} /\ UNCHANGED wpc
    <3>1. Size > 0 => 1 \in Workers /\ wpc'[1] # "waiting"
      BY <2>2
    <3> QED
      BY <1>13, <2>2, <3>1 DEF CNotify
  <2> QED
    BY <1>13, <2>1, <2>2 DEF CNotify
<1>14. ASSUME NEW w \in Workers, WLock(w) PROVE NoLostWakeup'
  BY <1>14 DEF WLock
<1>15. ASSUME NEW w \in Workers, WCheck(w) PROVE NoLostWakeup'
  BY <1>15 DEF WCheck
<1>16. ASSUME NEW w \in Workers, WBlock(w) PROVE NoLostWakeup'
  BY <1>16 DEF WBlock
<1>17. ASSUME NEW w \in Workers, WSpurious(w) PROVE NoLostWakeup'
  BY <1>17 DEF WSpurious
<1>18. ASSUME NEW w \in Workers, WExit(w) PROVE NoLostWakeup'
  BY <1>18 DEF WExit
<1>19. ASSUME NEW w \in Workers, WTake(w) PROVE NoLostWakeup'
  BY <1>19 DEF WTake
<1>20. ASSUME NEW w \in Workers, WRun(w) PROVE NoLostWakeup'
  BY <1>20 DEF WRun
<1>21. CASE UNCHANGED vars
  BY <1>21
<1> QED
  BY <1>1, <1>2, <1>3, <1>4, <1>5, <1>6, <1>7, <1>8, <1>9, <1>10, <1>11, <1>12, <1>13, <1>14, <1>15, <1>16, <1>17, <1>18, <1>19, <1>20, <1>21
     DEF Next, OwnerStep, ClientStep, WorkerStep, Terminated

-----------------------------------------------------------------------------
(* IInv is an invariant. *)
THEOREM Invariance == Spec => []IInv
<1>1. IInv /\ [Next]_vars => IInv'
  BY TypeStep, LockStep, LocalStep, StopStep, WakeupStep DEF IInv
<1> QED
  BY InitIInv, <1>1, PTL DEF Spec

(* Every state of ThreadPool is well typed (ThreadPool.h:9-14). *)
THEOREM TypeCorrect == Spec => []TypeOK
  BY Invariance, PTL DEF IInv

(* No worker ever pops from an empty queue (ThreadPool.cpp:20-27). *)
THEOREM PopSafe == Spec => []NoPopOnEmpty
<1>1. IInv => NoPopOnEmpty
  BY DEF IInv, StopInv, NoPopOnEmpty
<1> QED
  BY Invariance, <1>1, PTL

(* No notification is lost (ThreadPool.cpp:16-19, :41, :56). *)
THEOREM WakeupSafe == Spec => []NoLostWakeup
  BY Invariance, PTL DEF IInv

-----------------------------------------------------------------------------
(***************************************************************************)
(* ThreadPool implements TaskQueue, for every number of workers, clients   *)
(* and tasks, and its destructor leaves nothing undone.  The invariant     *)
(* IInv is strengthened with what ties the history to the state:           *)
(*   QueueInv  the queue is what was accepted and not yet started;         *)
(*   ArgInv    a call's task is nobody else's and was not accepted before; *)
(*   RunInv    a started task has finished, or exactly one worker has it;  *)
(*   JoinInv   the threads that were joined have ended.                    *)
(***************************************************************************)

QueueInv ==
  /\ started <= Len(accepted)
  /\ Len(tasks) = Len(accepted) - started
  /\ \A i \in 1..Len(tasks) : tasks[i] = accepted[started + i]

Pending == {c \in Clients : cpc[c] \in {"lock", "body"}}

ArgInv ==
  /\ \A i, j \in 1..Len(accepted) : accepted[i] = accepted[j] => i = j
  /\ \A c \in Pending :
       /\ \A i \in 1..Len(accepted) : accepted[i] # arg[c]
       /\ \A d \in Clients \ {c} : arg[d] # arg[c]

RunInv ==
  /\ \A i \in 1..started : accepted[i] \in finished \/ \E w \in Workers : task[w] = accepted[i]
  /\ \A t \in finished : \E i \in 1..started : accepted[i] = t
  /\ \A w \in Workers : task[w] # None =>
       /\ task[w] \notin finished
       /\ \E i \in 1..started : accepted[i] = task[w]
       /\ \A v \in Workers \ {w} : task[v] # task[w]

JoinInv ==
  /\ opc \in {"live", "lock", "stop", "notify"} => index = 0
  /\ opc = "join" => \A i \in 1..index : wpc[i] = "done"
  /\ opc = "joined" => \A w \in Workers : wpc[w] = "done"

HInv == IInv /\ QueueInv /\ ArgInv /\ RunInv /\ JoinInv

-----------------------------------------------------------------------------
(* What Append does to the length and to the elements of a sequence. *)
LEMMA AppendFacts ==
  ASSUME NEW S, NEW s \in Seq(S), NEW e \in S
  PROVE  /\ Len(Append(s, e)) = Len(s) + 1
         /\ \A i \in 1..Len(s) : Append(s, e)[i] = s[i]
         /\ Append(s, e)[Len(s) + 1] = e
  OBVIOUS

(* The queue is what was accepted and not yet started: only a push and a   *)
(* pop touch either side, and they touch both (ThreadPool.cpp:26-27, 54).  *)
LEMMA QueueStep == IInv /\ QueueInv /\ [Next]_vars => QueueInv'
<1> SUFFICES ASSUME IInv, QueueInv, [Next]_vars PROVE QueueInv'
  OBVIOUS
<1> USE DEF IInv, TypeOK, QueueInv
<1>1. ASSUME NEW c \in Clients, CEmplace(c) PROVE QueueInv'
  <2>1. arg[c] \in Tasks
    BY <1>1 DEF CEmplace, LocalInv
  <2>2. /\ tasks' = Append(tasks, arg[c]) /\ accepted' = Append(accepted, arg[c])
        /\ UNCHANGED started
    BY <1>1 DEF CEmplace
  <2>0. Len(tasks') = Len(tasks) + 1 /\ Len(accepted') = Len(accepted) + 1
    BY <2>1, <2>2, AppendFacts
  <2>3. started' <= Len(accepted') /\ Len(tasks') = Len(accepted') - started'
    BY <2>0, <2>2
  <2>4. ASSUME NEW i \in 1..Len(tasks') PROVE tasks'[i] = accepted'[started' + i]
    <3>1. CASE i \in 1..Len(tasks)
      <4>1. tasks'[i] = tasks[i]
        BY <2>1, <2>2, <3>1
      <4>2. started + i \in 1..Len(accepted)
        BY <3>1
      <4>3. accepted'[started + i] = accepted[started + i]
        BY <2>1, <2>2, <4>2
      <4> QED
        BY <2>2, <3>1, <4>1, <4>3
    <3>2. CASE i = Len(tasks) + 1
      <4>1. tasks'[i] = arg[c]
        BY <2>1, <2>2, <3>2, AppendFacts
      <4>2. started + i = Len(accepted) + 1
        <5>1. started \in Nat /\ Len(accepted) \in Nat /\ Len(tasks) \in Nat
          OBVIOUS
        <5> QED
          BY <3>2, <5>1
      <4>3. accepted'[started + i] = arg[c]
        BY <2>1, <2>2, <4>2
      <4> QED
        BY <2>2, <4>1, <4>3
    <3> QED
      BY <2>1, <2>2, <3>1, <3>2
  <2> QED
    BY <2>3, <2>4
<1>2. ASSUME NEW w \in Workers, WTake(w) PROVE QueueInv'
  <2>1. tasks # <<>>
    BY <1>2 DEF WTake, StopInv
  <2>2. tasks' = Tail(tasks) /\ started' = started + 1 /\ UNCHANGED accepted
    BY <1>2 DEF WTake
  <2>3. Len(tasks') = Len(tasks) - 1 /\ Len(tasks) > 0
    BY <2>1, <2>2
  <2>4. ASSUME NEW i \in 1..Len(tasks') PROVE tasks'[i] = accepted'[started' + i]
    <3>1. tasks'[i] = tasks[i + 1] /\ i + 1 \in 1..Len(tasks)
      BY <2>1, <2>2, <2>3
    <3>2. tasks[i + 1] = accepted[started + (i + 1)]
      BY <3>1
    <3>3. started + (i + 1) = started' + i
      BY <2>2
    <3> QED
      BY <2>2, <3>1, <3>2, <3>3
  <2> QED
    BY <2>2, <2>3, <2>4
<1>3. CASE UNCHANGED <<tasks, accepted, started>>
  BY <1>3
<1>4. \/ \E c \in Clients : CEmplace(c)
      \/ \E w \in Workers : WTake(w)
      \/ UNCHANGED <<tasks, accepted, started>>
  BY DEF Next, OwnerStep, ClientStep, WorkerStep, Terminated, vars, historyVars,
     OCreate, OConstructed, OBeginDestroy, OLock, OStop, ONotifyAll, OJoin, OJoined,
     CBegin, CLock, CThrow, CNotify, WLock, WCheck, WBlock, WSpurious, WExit, WRun
<1> QED
  BY <1>1, <1>2, <1>3, <1>4

(* A task object is used by one call: what a caller still has to hand over *)
(* was never accepted and is in nobody else's hands.                       *)
LEMMA ArgStep == IInv /\ ArgInv /\ [Next]_vars => ArgInv'
<1> SUFFICES ASSUME IInv, ArgInv, [Next]_vars PROVE ArgInv'
  OBVIOUS
<1> USE NamesAssumption DEF IInv, TypeOK, LocalInv, ArgInv, Pending, ClientPCs
<1>1. ASSUME NEW c \in Clients, CBegin(c) PROVE ArgInv'
  <2>1. PICK t \in Tasks \ Used : arg' = [arg EXCEPT ![c] = t]
    BY <1>1 DEF CBegin
  <2>2. /\ \A i \in 1..Len(accepted) : accepted[i] # t
        /\ \A d \in Clients : arg[d] # t
    BY <2>1 DEF Used, Elements
  <2>3. cpc' = [cpc EXCEPT ![c] = "lock"] /\ UNCHANGED accepted
    BY <1>1 DEF CBegin, historyVars
  <2> QED
    BY <2>1, <2>2, <2>3
<1>2. ASSUME NEW c \in Clients, CLock(c) PROVE ArgInv'
  BY <1>2 DEF CLock, historyVars
<1>3. ASSUME NEW c \in Clients, CThrow(c) PROVE ArgInv'
  BY <1>3 DEF CThrow
<1>4. ASSUME NEW c \in Clients, CEmplace(c) PROVE ArgInv'
  <2>1. c \in Pending /\ arg[c] \in Tasks
    BY <1>4 DEF CEmplace
  <2>2. /\ accepted' = Append(accepted, arg[c]) /\ UNCHANGED arg
        /\ cpc' = [cpc EXCEPT ![c] = "notify"]
    BY <1>4 DEF CEmplace
  <2>3. \A i, j \in 1..Len(accepted') : accepted'[i] = accepted'[j] => i = j
    BY <2>1, <2>2
  <2>4. ASSUME NEW d \in Pending'
        PROVE  /\ \A i \in 1..Len(accepted') : accepted'[i] # arg'[d]
               /\ \A e \in Clients \ {d} : arg'[e] # arg'[d]
    <3>1. d \in Pending /\ d # c
      BY <2>2
    <3> QED
      BY <2>1, <2>2, <3>1
  <2> QED
    BY <2>3, <2>4
<1>5. ASSUME NEW c \in Clients, CNotify(c) PROVE ArgInv'
  BY <1>5 DEF CNotify, historyVars
<1>6. CASE UNCHANGED <<clientVars, accepted>>
  BY <1>6 DEF clientVars
<1>7. \/ \E c \in Clients : CBegin(c) \/ CLock(c) \/ CThrow(c) \/ CEmplace(c) \/ CNotify(c)
      \/ UNCHANGED <<clientVars, accepted>>
  BY DEF Next, OwnerStep, ClientStep, WorkerStep, Terminated, vars, historyVars, clientVars,
     OCreate, OConstructed, OBeginDestroy, OLock, OStop, ONotifyAll, OJoin, OJoined,
     WLock, WCheck, WBlock, WSpurious, WExit, WTake, WRun
<1> QED
  BY <1>1, <1>2, <1>3, <1>4, <1>5, <1>6, <1>7

(* A started task is finished or in the hands of exactly one worker: no    *)
(* task is lost or executed twice (ThreadPool.cpp:26-29).                  *)
LEMMA RunStep == IInv /\ QueueInv /\ ArgInv /\ RunInv /\ [Next]_vars => RunInv'
<1> SUFFICES ASSUME IInv, QueueInv, ArgInv, RunInv, [Next]_vars PROVE RunInv'
  OBVIOUS
<1> USE NamesAssumption DEF IInv, TypeOK, LocalInv, RunInv
<1>1. ASSUME NEW c \in Clients, CEmplace(c) PROVE RunInv'
  <2>1. arg[c] \in Tasks /\ started <= Len(accepted)
    BY <1>1 DEF CEmplace, QueueInv
  <2>2. accepted' = Append(accepted, arg[c]) /\ UNCHANGED <<task, started, finished>>
    BY <1>1 DEF CEmplace, workerVars
  <2>3. \A i \in 1..started : accepted'[i] = accepted[i]
    <3>1. \A i \in 1..Len(accepted) : accepted'[i] = accepted[i]
      BY <2>1, <2>2, AppendFacts
    <3> QED
      BY <2>1, <3>1
  <2>4. \A i \in 1..started' :
          accepted'[i] \in finished' \/ \E w \in Workers : task'[w] = accepted'[i]
    <3> SUFFICES ASSUME NEW i \in 1..started
                 PROVE  accepted'[i] \in finished \/ \E w \in Workers : task[w] = accepted'[i]
      BY <2>2
    <3>1. accepted[i] \in finished \/ \E w \in Workers : task[w] = accepted[i]
      OBVIOUS
    <3> QED
      BY <2>3, <3>1
  <2>5. \A t \in finished' : \E i \in 1..started' : accepted'[i] = t
    <3> SUFFICES ASSUME NEW t \in finished PROVE \E i \in 1..started : accepted'[i] = t
      BY <2>2
    <3>1. PICK i \in 1..started : accepted[i] = t
      BY DEF RunInv
    <3>2. accepted'[i] = t
      BY <2>3, <3>1
    <3> QED
      BY <3>2
  <2>6. \A w \in Workers : task'[w] # None =>
          /\ task'[w] \notin finished'
          /\ \E i \in 1..started' : accepted'[i] = task'[w]
          /\ \A v \in Workers \ {w} : task'[v] # task'[w]
    <3> SUFFICES ASSUME NEW w \in Workers, task[w] # None
                 PROVE  /\ task[w] \notin finished
                        /\ \E i \in 1..started : accepted'[i] = task[w]
                        /\ \A v \in Workers \ {w} : task[v] # task[w]
      BY <2>2
    <3>1. PICK i \in 1..started : accepted[i] = task[w]
      OBVIOUS
    <3> QED
      BY <2>3, <3>1
  <2> QED
    BY <2>4, <2>5, <2>6
<1>2. ASSUME NEW w \in Workers, WTake(w) PROVE RunInv'
  <2>1. /\ task' = [task EXCEPT ![w] = Head(tasks)] /\ started' = started + 1
        /\ wpc[w] = "ready" /\ UNCHANGED <<accepted, finished>>
    BY <1>2 DEF WTake
  <2>2. tasks # <<>>
    BY <1>2 DEF WTake, StopInv
  <2>3. started + 1 \in 1..Len(accepted) /\ Head(tasks) = accepted[started + 1]
    BY <2>2 DEF QueueInv
  <2>4. task[w] = None /\ Head(tasks) # None
    BY <2>1, <2>2
  <2>5. \A i \in 1..started : accepted[i] # Head(tasks)
    BY <2>3 DEF ArgInv
  <2>6. Head(tasks) \notin finished /\ \A v \in Workers : task[v] # Head(tasks)
    BY <2>4, <2>5
  <2>7. \A i \in 1..started' : accepted'[i] \in finished' \/ \E v \in Workers : task'[v] = accepted'[i]
    <3> SUFFICES ASSUME NEW i \in 1..started'
                 PROVE  accepted[i] \in finished \/ \E v \in Workers : task'[v] = accepted[i]
      BY <2>1
    <3>1. CASE i = started + 1
      BY <2>1, <2>3, <3>1
    <3>2. CASE i \in 1..started
      <4>1. CASE accepted[i] \in finished
        BY <4>1
      <4>2. ASSUME NEW v \in Workers, task[v] = accepted[i] PROVE task'[v] = accepted[i]
        <5>1. accepted[i] \in Tasks
          BY <2>3, <3>2
        <5>2. v # w
          BY <2>4, <4>2, <5>1
        <5> QED
          BY <2>1, <4>2, <5>2
      <4> QED
        BY <3>2, <4>1, <4>2
    <3> QED
      BY <2>1, <3>1, <3>2
  <2>8. \A t \in finished' : \E i \in 1..started' : accepted'[i] = t
    BY <2>1
  <2>9. ASSUME NEW v \in Workers, task'[v] # None
        PROVE  /\ task'[v] \notin finished'
               /\ \E i \in 1..started' : accepted'[i] = task'[v]
               /\ \A u \in Workers \ {v} : task'[u] # task'[v]
    <3>1. CASE v = w
      BY <2>1, <2>3, <2>6, <3>1
    <3>2. CASE v # w
      BY <2>1, <2>6, <2>9, <3>2
    <3> QED
      BY <3>1, <3>2
  <2> QED
    BY <2>7, <2>8, <2>9
<1>3. ASSUME NEW w \in Workers, WRun(w) PROVE RunInv'
  <2>1. /\ finished' = finished \cup {task[w]} /\ task' = [task EXCEPT ![w] = None]
        /\ task[w] # None /\ UNCHANGED <<accepted, started>>
    BY <1>3 DEF WRun
  <2> QED
    BY <2>1
<1>4. CASE UNCHANGED <<task, accepted, started, finished>>
  BY <1>4
<1>5. \/ \E c \in Clients : CEmplace(c)
      \/ \E w \in Workers : WTake(w) \/ WRun(w)
      \/ UNCHANGED <<task, accepted, started, finished>>
  BY DEF Next, OwnerStep, ClientStep, WorkerStep, Terminated, vars, historyVars, workerVars,
     OCreate, OConstructed, OBeginDestroy, OLock, OStop, ONotifyAll, OJoin, OJoined,
     CBegin, CLock, CThrow, CNotify, WLock, WCheck, WBlock, WSpurious, WExit
<1> QED
  BY <1>1, <1>2, <1>3, <1>4, <1>5

(* A worker that has ended stays ended, and the owner passes a thread in   *)
(* its loop only when that thread has ended (ThreadPool.cpp:42-46).        *)
LEMMA JoinStep == IInv /\ JoinInv /\ [Next]_vars => JoinInv'
<1> SUFFICES ASSUME IInv, JoinInv, [Next]_vars PROVE JoinInv'
  OBVIOUS
<1> USE SizeAssumption DEF IInv, TypeOK, JoinInv, Workers, OwnerPCs
<1>1. CASE OJoin
  BY <1>1 DEF OJoin, workerVars
<1>2. CASE OJoined
  BY <1>2 DEF OJoined, workerVars
<1>3. ASSUME ONotifyAll PROVE JoinInv'
  BY <1>3 DEF ONotifyAll
<1>4. ASSUME OConstructed \/ OCreate \/ OBeginDestroy \/ OLock \/ OStop PROVE JoinInv'
  BY <1>4 DEF OConstructed, OCreate, OBeginDestroy, OLock, OStop
<1>5. ASSUME UNCHANGED ownerVars, \A w \in Workers : wpc[w] = "done" => wpc'[w] = "done"
      PROVE  JoinInv'
  BY <1>5 DEF ownerVars
<1>6. ASSUME NEW c \in Clients, ClientStep(c) PROVE JoinInv'
  <2>1. UNCHANGED ownerVars
    BY <1>6 DEF ClientStep, CBegin, CLock, CThrow, CEmplace, CNotify
  <2>2. \A w \in Workers : wpc[w] = "done" => wpc'[w] = "done"
    BY <1>6 DEF ClientStep, CBegin, CLock, CThrow, CEmplace, CNotify, workerVars, Waiting
  <2> QED
    BY <1>5, <2>1, <2>2
<1>7. ASSUME NEW v \in Workers, WorkerStep(v) PROVE JoinInv'
  <2>1. UNCHANGED ownerVars
    BY <1>7 DEF WorkerStep, WLock, WCheck, WBlock, WSpurious, WExit, WTake, WRun
  <2>2. \A w \in Workers : wpc[w] = "done" => wpc'[w] = "done"
    BY <1>7 DEF WorkerStep, WLock, WCheck, WBlock, WSpurious, WExit, WTake, WRun
  <2> QED
    BY <1>5, <2>1, <2>2
<1>8. CASE UNCHANGED vars
  BY <1>5, <1>8 DEF vars, ownerVars
<1> QED
  BY <1>1, <1>2, <1>3, <1>4, <1>6, <1>7, <1>8 DEF Next, OwnerStep, Terminated

-----------------------------------------------------------------------------
(* The strengthened invariant holds in every state. *)
THEOREM HistoryInvariance == Spec => []HInv
<1>1. Init => HInv
  <2> SUFFICES ASSUME Init PROVE HInv
    OBVIOUS
  <2> USE SizeAssumption, NamesAssumption DEF Init, Workers
  <2>1. IInv
    BY InitIInv
  <2>2. QueueInv
    BY DEF QueueInv
  <2>3. ArgInv
    BY DEF ArgInv, Pending
  <2>4. RunInv
    BY DEF RunInv
  <2>5. JoinInv
    BY DEF JoinInv
  <2> QED
    BY <2>1, <2>2, <2>3, <2>4, <2>5 DEF HInv
<1>2. HInv /\ [Next]_vars => HInv'
  BY TypeStep, LockStep, LocalStep, StopStep, WakeupStep, QueueStep, ArgStep, RunStep, JoinStep
     DEF HInv, IInv
<1> QED
  BY <1>1, <1>2, PTL DEF Spec

(* With all workers ended, and at least one of them, the queue is empty and *)
(* everything accepted has finished.                                       *)
LEMMA DoneMeansDrained ==
  ASSUME HInv, Size > 0, \A w \in Workers : wpc[w] = "done"
  PROVE  /\ started = Len(accepted)
         /\ \A i \in 1..Len(accepted) : accepted[i] \in finished
<1> USE SizeAssumption DEF HInv, IInv, TypeOK
<1>1. 1 \in Workers
  BY DEF Workers
<1>2. tasks = <<>>
  BY <1>1 DEF StopInv
<1>3. started = Len(accepted)
  BY <1>2 DEF QueueInv
<1>4. \A w \in Workers : task[w] = None
  BY DEF LocalInv
<1>5. \A i \in 1..Len(accepted) : accepted[i] \in Tasks
  OBVIOUS
<1>6. \A i \in 1..Len(accepted) : accepted[i] \in finished
  BY <1>3, <1>4, <1>5, NamesAssumption DEF RunInv
<1> QED
  BY <1>3, <1>6

(* The destructor returns only when every worker has ended and every       *)
(* accepted task has been executed (ThreadPool.cpp:21, 42-46).             *)
THEOREM DrainedSafe == Spec => []DrainedWhenJoined
<1>1. HInv => DrainedWhenJoined
  <2> SUFFICES ASSUME HInv, opc = "joined", Size > 0
               PROVE  /\ \A w \in Workers : wpc[w] = "done"
                      /\ Elements(accepted) = finished
    BY DEF DrainedWhenJoined
  <2>1. \A w \in Workers : wpc[w] = "done"
    BY DEF HInv, JoinInv
  <2>2. /\ started = Len(accepted)
        /\ \A i \in 1..Len(accepted) : accepted[i] \in finished
    BY <2>1, DoneMeansDrained
  <2>3. \A t \in finished : \E i \in 1..started : accepted[i] = t
    BY DEF HInv, RunInv
  <2> QED
    BY <2>1, <2>2, <2>3 DEF Elements
<1> QED
  BY HistoryInvariance, <1>1, PTL

(* Every step of the pool is a step of the task queue or leaves it alone:  *)
(* a push is Submit, a pop Start, a return Finish, raising stop Close and  *)
(* the end of the destructor End.                                          *)
LEMMA StepSimulation == HInv /\ [Next]_vars => [Queue!Next]_(Queue!vars)
<1> SUFFICES ASSUME HInv, [Next]_vars PROVE Queue!Next \/ UNCHANGED Queue!vars
  OBVIOUS
<1> DEFINE phase == IF opc = "joined" /\ Size > 0 THEN "ended" ELSE IF stop THEN "closed" ELSE "open"
<1> USE SizeAssumption, NamesAssumption DEF HInv, IInv, TypeOK
<1>1. ASSUME NEW c \in Clients, CEmplace(c) PROVE Queue!Next
  <2>1. phase = "open" /\ phase' = "open"
    BY <1>1 DEF CEmplace, ownerVars, StopInv
  <2>2. c \in Pending /\ arg[c] \in Tasks
    BY <1>1 DEF CEmplace, Pending, LocalInv
  <2>3. Queue!Submit(arg[c])
    BY <1>1, <2>1, <2>2 DEF CEmplace, ArgInv, Queue!Submit
  <2> QED
    BY <2>2, <2>3 DEF Queue!Next
<1>2. ASSUME NEW w \in Workers, WTake(w) PROVE Queue!Next
  <2>1. tasks # <<>> /\ opc # "joined"
    BY <1>2 DEF WTake, StopInv, JoinInv
  <2>2. started < Len(accepted)
    BY <2>1 DEF QueueInv
  <2>3. phase # "ended" /\ phase' = phase
    BY <1>2, <2>1 DEF WTake, ownerVars
  <2>4. Queue!Start
    BY <1>2, <2>2, <2>3 DEF WTake, Queue!Start
  <2> QED
    BY <2>4 DEF Queue!Next
<1>3. ASSUME NEW w \in Workers, WRun(w) PROVE Queue!Next
  <2>1. task[w] \in Tasks /\ task[w] \notin finished /\ \E i \in 1..started : accepted[i] = task[w]
    BY <1>3 DEF WRun, LocalInv, RunInv
  <2>2. phase # "ended" /\ phase' = phase
    BY <1>3 DEF WRun, JoinInv, ownerVars
  <2>3. Queue!Finish(task[w])
    BY <1>3, <2>1, <2>2 DEF WRun, Queue!Finish
  <2> QED
    BY <2>1, <2>3 DEF Queue!Next
<1>4. ASSUME OStop PROVE Queue!Next
  <2>1. phase = "open" /\ phase' = "closed"
    BY <1>4 DEF OStop, StopInv
  <2>2. Queue!Close
    BY <1>4, <2>1 DEF OStop, historyVars, Queue!Close
  <2> QED
    BY <2>2 DEF Queue!Next
<1>5. ASSUME OJoined PROVE Queue!Next \/ UNCHANGED Queue!vars
  <2>1. stop /\ opc = "join" /\ opc' = "joined" /\ UNCHANGED <<stop, accepted, started, finished>>
    BY <1>5 DEF OJoined, StopInv, historyVars
  <2>2. CASE Size > 0
    <3>1. \A w \in Workers : wpc[w] = "done"
      BY <1>5 DEF OJoined, JoinInv, Workers
    <3>2. /\ started = Len(accepted)
          /\ \A i \in 1..Len(accepted) : accepted[i] \in finished
      BY <2>2, <3>1, DoneMeansDrained
    <3>3. phase = "closed" /\ phase' = "ended"
      BY <2>1, <2>2
    <3>4. Queue!End
      BY <2>1, <3>2, <3>3 DEF Queue!End
    <3> QED
      BY <3>4 DEF Queue!Next
  <2>3. CASE ~(Size > 0)
    BY <2>1, <2>3 DEF Queue!vars
  <2> QED
    BY <2>2, <2>3
<1>6. ASSUME UNCHANGED <<accepted, started, finished, stop, opc>> PROVE UNCHANGED Queue!vars
  BY <1>6 DEF Queue!vars
<1>7. ASSUME OCreate \/ OConstructed \/ OBeginDestroy \/ OLock \/ ONotifyAll \/ OJoin
      PROVE  UNCHANGED Queue!vars
  <2>1. UNCHANGED <<accepted, started, finished, stop>> /\ opc # "joined" /\ opc' # "joined"
    BY <1>7 DEF OCreate, OConstructed, OBeginDestroy, OLock, ONotifyAll, OJoin, historyVars
  <2> QED
    BY <2>1 DEF Queue!vars
<1>8. ASSUME NEW c \in Clients, CBegin(c) \/ CLock(c) \/ CThrow(c) \/ CNotify(c)
      PROVE  UNCHANGED Queue!vars
  BY <1>6, <1>8 DEF CBegin, CLock, CThrow, CNotify, ownerVars, historyVars
<1>9. ASSUME NEW w \in Workers, WLock(w) \/ WCheck(w) \/ WBlock(w) \/ WSpurious(w) \/ WExit(w)
      PROVE  UNCHANGED Queue!vars
  BY <1>6, <1>9 DEF WLock, WCheck, WBlock, WSpurious, WExit, ownerVars, historyVars
<1>10. CASE UNCHANGED vars
  BY <1>6, <1>10 DEF vars
<1> QED
  BY <1>1, <1>2, <1>3, <1>4, <1>5, <1>7, <1>8, <1>9, <1>10
     DEF Next, OwnerStep, ClientStep, WorkerStep, Terminated

(* The thread pool implements the task queue: what is accepted is started  *)
(* in order, exactly once, and has finished when the destructor returns.   *)
THEOREM Implementation == Spec => ImplementsTaskQueue
<1>1. Init => Queue!Init
  BY DEF Init, Queue!Init
<1> QED
  BY <1>1, HistoryInvariance, StepSimulation, PTL DEF Spec, Queue!Spec, ImplementsTaskQueue
==============================================================================
