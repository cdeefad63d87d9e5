----------------------------- MODULE BoundedPool -----------------------------
(***************************************************************************)
(* The ThreadPool of cpp/thread/6_thread_pool.cpp: as the other pool, but  *)
(* enqueue blocks on enqueue_condition while the queue is full.            *)
(*                                                                         *)
(* Everything shared is read and written with the mutex held, and the      *)
(* notifications of enqueue_condition are made with it held, so a critical *)
(* section is one step here; falling asleep ends one and being woken leads *)
(* to another.  The notifications of task_condition, and those of the      *)
(* destructor, come after the unlock and are steps of their own.           *)
(***************************************************************************)
EXTENDS Integers, Sequences, FiniteSets

CONSTANTS NumThreads,    \* the constructor's first argument, any int
          MaxQueueSize,  \* the constructor's second argument
          Clients,       \* the threads that call enqueue
          Tasks,         \* the task objects, each enqueued at most once
          None           \* no task

ASSUME NumThreadsAssumption == NumThreads \in Int

(* Otherwise the constructor throws. *)
ASSUME MaxQueueSizeAssumption == MaxQueueSize \in Nat \ {0}

ASSUME NoneAssumption == None \notin Tasks

ASSUME ClientsAssumption == IsFiniteSet(Clients)

Workers == 1..(IF NumThreads <= 0 THEN 1 ELSE NumThreads)

VARIABLES tasks,      \* the queue
          stop,       \* the flag the destructor raises
          wpc, task,  \* the workers: their position, their local variable
          cpc, arg,   \* the clients: their position in enqueue, its argument
          opc,        \* the owner: "live", "stopped", "notified", "joined"
          accepted, started, finished, refused   \* history

vars == <<tasks, stop, wpc, task, cpc, arg, opc, accepted, started, finished, refused>>

workerVars == <<wpc, task>>
clientVars == <<cpc, arg>>

Elements(s) == {s[i] : i \in 1..Len(s)}

Used == Elements(accepted) \cup refused \cup {arg[c] : c \in Clients}

(* Who sleeps on task_condition and on enqueue_condition. *)
IdleWorkers == {w \in Workers : wpc[w] = "waiting"}
BlockedClients == {c \in Clients : cpc[c] = "waiting"}

Init ==
  /\ tasks = <<>>
  /\ stop = FALSE
  /\ wpc = [w \in Workers |-> "ready"]
  /\ task = [w \in Workers |-> None]
  /\ cpc = [c \in Clients |-> "idle"]
  /\ arg = [c \in Clients |-> None]
  /\ opc = "live"
  /\ accepted = <<>>
  /\ started = 0
  /\ finished = {}
  /\ refused = {}

-----------------------------------------------------------------------------
(* The worker's loop. *)
WSleep(w) ==
  /\ wpc[w] = "ready"
  /\ ~stop /\ tasks = <<>>
  /\ wpc' = [wpc EXCEPT ![w] = "waiting"]
  /\ UNCHANGED <<tasks, stop, task, clientVars, opc, accepted, started, finished, refused>>

WWakeSpuriously(w) ==
  /\ wpc[w] = "waiting"
  /\ wpc' = [wpc EXCEPT ![w] = "ready"]
  /\ UNCHANGED <<tasks, stop, task, clientVars, opc, accepted, started, finished, refused>>

WExit(w) ==
  /\ wpc[w] = "ready"
  /\ stop /\ tasks = <<>>
  /\ wpc' = [wpc EXCEPT ![w] = "done"]
  /\ UNCHANGED <<tasks, stop, task, clientVars, opc, accepted, started, finished, refused>>

(* enqueue_condition.notify_one(): one blocked client, if there is one. *)
WakeClient ==
  \/ BlockedClients = {} /\ UNCHANGED cpc
  \/ \E c \in BlockedClients : cpc' = [cpc EXCEPT ![c] = "ready"]

(* Mutant of WTake: the blocked callers of enqueue are not notified. *)
WTakeSilently(w) ==
  /\ wpc[w] = "ready"
  /\ tasks # <<>>
  /\ task' = [task EXCEPT ![w] = Head(tasks)]
  /\ tasks' = Tail(tasks)
  /\ started' = started + 1
  /\ wpc' = [wpc EXCEPT ![w] = "run"]
  /\ UNCHANGED <<stop, clientVars, opc, accepted, finished, refused>>

(* Mutant of WTake: the newest task is taken. *)
WTakeLast(w) ==
  /\ wpc[w] = "ready"
  /\ tasks # <<>>
  /\ task' = [task EXCEPT ![w] = tasks[Len(tasks)]]
  /\ tasks' = SubSeq(tasks, 1, Len(tasks) - 1)
  /\ started' = started + 1
  /\ WakeClient
  /\ wpc' = [wpc EXCEPT ![w] = "run"]
  /\ UNCHANGED <<stop, arg, opc, accepted, finished, refused>>

WTake(w) ==
  /\ wpc[w] = "ready"
  /\ tasks # <<>>
  /\ task' = [task EXCEPT ![w] = Head(tasks)]
  /\ tasks' = Tail(tasks)
  /\ started' = started + 1
  /\ WakeClient
  /\ wpc' = [wpc EXCEPT ![w] = "run"]
  /\ UNCHANGED <<stop, arg, opc, accepted, finished, refused>>

(* The task returns or throws; std::exceptions are caught. *)
WRun(w) ==
  /\ wpc[w] = "run"
  /\ finished' = finished \cup {task[w]}
  /\ task' = [task EXCEPT ![w] = None]
  /\ wpc' = [wpc EXCEPT ![w] = "ready"]
  /\ UNCHANGED <<tasks, stop, clientVars, opc, accepted, started, refused>>

WorkerStep(w) == WSleep(w) \/ WWakeSpuriously(w) \/ WExit(w) \/ WTake(w) \/ WRun(w)

-----------------------------------------------------------------------------
(* enqueue.  The predicate lets a task in while size() <= max_queue_size.  *)
HasRoom == Len(tasks) <= MaxQueueSize

(* The task objects are alike, so a call may take any fresh one. *)
CBegin(c) ==
  /\ cpc[c] = "idle"
  /\ Tasks \ Used # {}
  /\ arg' = [arg EXCEPT ![c] = CHOOSE t \in Tasks \ Used : TRUE]
  /\ cpc' = [cpc EXCEPT ![c] = "ready"]
  /\ UNCHANGED <<tasks, stop, workerVars, opc, accepted, started, finished, refused>>

CSleep(c) ==
  /\ cpc[c] = "ready"
  /\ ~stop /\ ~HasRoom
  /\ cpc' = [cpc EXCEPT ![c] = "waiting"]
  /\ UNCHANGED <<tasks, stop, workerVars, arg, opc, accepted, started, finished, refused>>

CWakeSpuriously(c) ==
  /\ cpc[c] = "waiting"
  /\ cpc' = [cpc EXCEPT ![c] = "ready"]
  /\ UNCHANGED <<tasks, stop, workerVars, arg, opc, accepted, started, finished, refused>>

CThrow(c) ==
  /\ cpc[c] = "ready"
  /\ stop
  /\ refused' = refused \cup {arg[c]}
  /\ arg' = [arg EXCEPT ![c] = None]
  /\ cpc' = [cpc EXCEPT ![c] = "idle"]
  /\ UNCHANGED <<tasks, stop, workerVars, opc, accepted, started, finished>>

CPush(c) ==
  /\ cpc[c] = "ready"
  /\ ~stop /\ HasRoom
  /\ tasks' = Append(tasks, arg[c])
  /\ accepted' = Append(accepted, arg[c])
  /\ cpc' = [cpc EXCEPT ![c] = "notify"]
  /\ UNCHANGED <<stop, workerVars, arg, opc, started, finished, refused>>

CNotify(c) ==
  /\ cpc[c] = "notify"
  /\ \/ IdleWorkers = {} /\ UNCHANGED wpc
     \/ \E w \in IdleWorkers : wpc' = [wpc EXCEPT ![w] = "ready"]
  /\ arg' = [arg EXCEPT ![c] = None]
  /\ cpc' = [cpc EXCEPT ![c] = "idle"]
  /\ UNCHANGED <<tasks, stop, task, opc, accepted, started, finished, refused>>

ClientStep(c) ==
  CBegin(c) \/ CSleep(c) \/ CWakeSpuriously(c) \/ CThrow(c) \/ CPush(c) \/ CNotify(c)

-----------------------------------------------------------------------------
(* The destructor. *)
OStop ==
  /\ opc = "live"
  /\ stop' = TRUE
  /\ opc' = "stopped"
  /\ UNCHANGED <<tasks, workerVars, clientVars, accepted, started, finished, refused>>

(* Mutant of ONotifyAll: the callers of enqueue are forgotten. *)
ONotifyWorkers ==
  /\ opc = "stopped"
  /\ wpc' = [w \in Workers |-> IF w \in IdleWorkers THEN "ready" ELSE wpc[w]]
  /\ opc' = "notified"
  /\ UNCHANGED <<tasks, stop, task, clientVars, accepted, started, finished, refused>>

(* Both conditions are notified, one after the other, before any join. *)
ONotifyAll ==
  /\ opc = "stopped"
  /\ wpc' = [w \in Workers |-> IF w \in IdleWorkers THEN "ready" ELSE wpc[w]]
  /\ cpc' = [c \in Clients |-> IF c \in BlockedClients THEN "ready" ELSE cpc[c]]
  /\ opc' = "notified"
  /\ UNCHANGED <<tasks, stop, task, arg, accepted, started, finished, refused>>

OJoined ==
  /\ opc = "notified"
  /\ \A w \in Workers : wpc[w] = "done"
  /\ opc' = "joined"
  /\ UNCHANGED <<tasks, stop, workerVars, clientVars, accepted, started, finished, refused>>

Terminated ==
  /\ opc = "joined"
  /\ \A c \in Clients : cpc[c] = "idle"
  /\ UNCHANGED vars

Next ==
  \/ \E w \in Workers : WorkerStep(w)
  \/ \E c \in Clients : ClientStep(c)
  \/ OStop \/ ONotifyAll \/ OJoined
  \/ Terminated

Spec == Init /\ [][Next]_vars

(* Threads run, tasks return, and a thread that can enter the critical     *)
(* section again and again does; nobody has to call enqueue, to destroy    *)
(* the pool or to wake up without a notification.                          *)
FairSpec ==
  /\ Spec
  /\ \A w \in Workers : /\ WF_vars(WSleep(w) \/ WExit(w) \/ WRun(w))
                        /\ SF_vars(WTake(w))
  /\ \A c \in Clients : /\ WF_vars(CSleep(c) \/ CThrow(c) \/ CNotify(c))
                        /\ SF_vars(CPush(c))
  /\ WF_vars(ONotifyAll \/ OJoined)

-----------------------------------------------------------------------------
(* main's comment at line 89, "4 threads, capacity 8", and the parameter's *)
(* name: the queue holds at most max_queue_size tasks.                     *)
QueueWithinCapacity == Len(tasks) <= MaxQueueSize

(* Wake-ups are sufficient on both conditions: while a caller of enqueue   *)
(* sleeps, every free place is spoken for by a caller that is awake; while *)
(* a worker sleeps, every queued task is spoken for by a worker that is    *)
(* awake or by a notification to come (lines 33, 42, 77, 83).  And once    *)
(* the destructor has notified, nobody sleeps (lines 62, 63).              *)
WakeupsSuffice ==
  /\ (BlockedClients # {} /\ ~stop) =>
       Len(tasks) + Cardinality({c \in Clients : cpc[c] = "ready"}) > MaxQueueSize
  /\ (IdleWorkers # {} /\ ~stop) =>
       Len(tasks) <= Cardinality({w \in Workers : wpc[w] = "ready"})
                     + Cardinality({c \in Clients : cpc[c] = "notify"})
  /\ opc \in {"notified", "joined"} => BlockedClients = {} /\ IdleWorkers = {}

(* The pool implements the abstract task queue, as the other pool does. *)
Queue == INSTANCE TaskQueue WITH
           phase <- IF opc = "joined" THEN "ended" ELSE IF stop THEN "closed" ELSE "open"

ImplementsTaskQueue == Queue!Spec

(* A call of enqueue returns or throws: a full queue blocks its callers    *)
(* only while tasks run, and the destructor lets them go (lines 42, 61-63).*)
EnqueueReturns == \A c \in Clients : (cpc[c] # "idle") ~> (cpc[c] = "idle")
==============================================================================
