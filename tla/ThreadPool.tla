------------------------------ MODULE ThreadPool -----------------------------
(***************************************************************************)
(* The ThreadPool of 30days_make_cpp_server (5_main_sub_reactor, the same  *)
(* class as in 4_hello_class): Size worker threads share a task queue      *)
(* under my_mutex and sleep on the condition variable cv; clients call     *)
(* addTask; the owner constructs the pool and later destroys it.           *)
(*                                                                         *)
(* Every lock, unlock, wait and notify is a step of its own.  A worker     *)
(* sleeping in cv.wait may also wake up for no reason.                     *)
(***************************************************************************)
EXTENDS Naturals, Sequences

CONSTANTS Size,      \* the constructor's argument; 0 is a legal value
          Clients,   \* the threads that call addTask
          Tasks,     \* the task objects, each handed over at most once
          Owner,     \* the thread that constructs and destroys the pool
          None       \* no thread, or no task

ASSUME SizeAssumption == Size \in Nat

ASSUME NamesAssumption ==
  /\ None \notin Clients \cup Tasks \cup {Owner} \cup Nat
  /\ Owner \notin Clients \cup Nat
  /\ Clients \cap Nat = {}

Workers == 1..Size

Threads == Workers \cup Clients \cup {Owner}

VARIABLES tasks,     \* the queue of std::function objects
          stop,      \* the flag the destructor raises
          lock,      \* the thread that holds my_mutex, or None
          wpc,       \* where each worker is in the constructor's lambda
          task,      \* the local variable task of each worker
          cpc,       \* where each client is in addTask
          arg,       \* the argument of each client's call
          opc,       \* where the owner is
          index,     \* the owner's loop index: threads created, then joined
          accepted,  \* history: the tasks emplaced, in order
          started,   \* history: how many were popped
          finished,  \* history: the tasks whose call has returned
          refused    \* history: the tasks addTask threw for

vars == <<tasks, stop, lock, wpc, task, cpc, arg, opc, index,
          accepted, started, finished, refused>>

ownerVars   == <<opc, index>>
clientVars  == <<cpc, arg>>
workerVars  == <<wpc, task>>
historyVars == <<accepted, started, finished, refused>>

(* A worker holds my_mutex while it evaluates the predicate of cv.wait     *)
(* ("check"), between finding it false and falling asleep ("block") and    *)
(* from finding it true to the end of the block ("ready").                 *)
InCriticalSection == {"check", "block", "ready"}

WorkerPCs == {"unborn", "lock", "waiting", "run", "done"} \cup InCriticalSection
ClientPCs == {"idle", "lock", "body", "notify"}
OwnerPCs  == {"ctor", "live", "lock", "stop", "notify", "join", "joined"}

Waiting == {w \in Workers : wpc[w] = "waiting"}

(* The sequence's elements, as a set. *)
Elements(s) == {s[i] : i \in 1..Len(s)}

(* Tasks some client has already used. *)
Used == Elements(accepted) \cup refused \cup {arg[c] : c \in Clients}

Init ==
  /\ tasks = <<>>
  /\ stop = FALSE
  /\ lock = None
  /\ wpc = [w \in Workers |-> "unborn"]
  /\ task = [w \in Workers |-> None]
  /\ cpc = [c \in Clients |-> "idle"]
  /\ arg = [c \in Clients |-> None]
  /\ opc = "ctor"
  /\ index = 0
  /\ accepted = <<>>
  /\ started = 0
  /\ finished = {}
  /\ refused = {}

-----------------------------------------------------------------------------
(* The constructor: one thread after the other; each runs at once.         *)
OCreate ==
  /\ opc = "ctor"
  /\ index < Size
  /\ index' = index + 1
  /\ wpc' = [wpc EXCEPT ![index + 1] = "lock"]
  /\ UNCHANGED <<tasks, stop, lock, task, opc, clientVars, historyVars>>

OConstructed ==
  /\ opc = "ctor"
  /\ index = Size
  /\ opc' = "live"
  /\ index' = 0
  /\ UNCHANGED <<tasks, stop, lock, workerVars, clientVars, historyVars>>

(* The destructor is entered at any time after construction; calls of      *)
(* addTask may be in progress.                                             *)
OBeginDestroy ==
  /\ opc = "live"
  /\ opc' = "lock"
  /\ UNCHANGED <<tasks, stop, lock, index, workerVars, clientVars, historyVars>>

(* Mutant of OLock: the destructor raises the flag without taking the lock. *)
OLockSkipped ==
  /\ opc = "lock"
  /\ stop' = TRUE
  /\ opc' = "notify"
  /\ UNCHANGED <<tasks, lock, index, workerVars, clientVars, historyVars>>

OLock ==
  /\ opc = "lock"
  /\ lock = None
  /\ lock' = Owner
  /\ opc' = "stop"
  /\ UNCHANGED <<tasks, stop, index, workerVars, clientVars, historyVars>>

OStop ==
  /\ opc = "stop"
  /\ stop' = TRUE
  /\ lock' = None
  /\ opc' = "notify"
  /\ UNCHANGED <<tasks, index, workerVars, clientVars, historyVars>>

ONotifyAll ==
  /\ opc = "notify"
  /\ opc' = "join"
  /\ wpc' = [w \in Workers |-> IF w \in Waiting THEN "lock" ELSE wpc[w]]
  /\ UNCHANGED <<tasks, stop, lock, task, index, clientVars, historyVars>>

(* Mutant of OJoin: the loop runs once too often. *)
OJoinPastEnd ==
  /\ opc = "join"
  /\ index <= Size
  /\ index \in Workers => wpc[index] = "done"
  /\ index' = index + 1
  /\ UNCHANGED <<tasks, stop, lock, opc, workerVars, clientVars, historyVars>>

(* The threads are joined in the order of the vector. *)
OJoin ==
  /\ opc = "join"
  /\ index < Size
  /\ wpc[index + 1] = "done"
  /\ index' = index + 1
  /\ UNCHANGED <<tasks, stop, lock, opc, workerVars, clientVars, historyVars>>

OJoined ==
  /\ opc = "join"
  /\ index = Size
  /\ opc' = "joined"
  /\ UNCHANGED <<tasks, stop, lock, index, workerVars, clientVars, historyVars>>

-----------------------------------------------------------------------------
(* addTask.  A client uses a task object once.                             *)
CBegin(c) ==
  /\ cpc[c] = "idle"
  /\ opc # "ctor"
  /\ \E t \in Tasks \ Used : arg' = [arg EXCEPT ![c] = t]
  /\ cpc' = [cpc EXCEPT ![c] = "lock"]
  /\ UNCHANGED <<tasks, stop, lock, workerVars, ownerVars, historyVars>>

CLock(c) ==
  /\ cpc[c] = "lock"
  /\ lock = None
  /\ lock' = c
  /\ cpc' = [cpc EXCEPT ![c] = "body"]
  /\ UNCHANGED <<tasks, stop, arg, workerVars, ownerVars, historyVars>>

(* The exception leaves addTask; the unique_lock's destructor unlocks. *)
CThrow(c) ==
  /\ cpc[c] = "body"
  /\ stop
  /\ lock' = None
  /\ refused' = refused \cup {arg[c]}
  /\ cpc' = [cpc EXCEPT ![c] = "idle"]
  /\ arg' = [arg EXCEPT ![c] = None]
  /\ UNCHANGED <<tasks, stop, workerVars, ownerVars, accepted, started, finished>>

CEmplace(c) ==
  /\ cpc[c] = "body"
  /\ ~stop
  /\ tasks' = Append(tasks, arg[c])
  /\ accepted' = Append(accepted, arg[c])
  /\ lock' = None
  /\ cpc' = [cpc EXCEPT ![c] = "notify"]
  /\ UNCHANGED <<stop, arg, workerVars, ownerVars, started, finished, refused>>

(* Mutant of CNotify: addTask returns without the notification. *)
CNotifyNobody(c) ==
  /\ cpc[c] = "notify"
  /\ cpc' = [cpc EXCEPT ![c] = "idle"]
  /\ arg' = [arg EXCEPT ![c] = None]
  /\ UNCHANGED <<tasks, stop, lock, workerVars, ownerVars, historyVars>>

(* cv.notify_one() wakes any one of the sleeping workers, if there is one. *)
CNotify(c) ==
  /\ cpc[c] = "notify"
  /\ \/ /\ Waiting = {}
        /\ UNCHANGED wpc
     \/ \E w \in Waiting : wpc' = [wpc EXCEPT ![w] = "lock"]
  /\ cpc' = [cpc EXCEPT ![c] = "idle"]
  /\ arg' = [arg EXCEPT ![c] = None]
  /\ UNCHANGED <<tasks, stop, lock, task, ownerVars, historyVars>>

-----------------------------------------------------------------------------
(* A worker's loop.  "lock" is both the first acquisition and the one      *)
(* cv.wait makes after a wake-up: either way the predicate comes next.     *)
WLock(w) ==
  /\ wpc[w] = "lock"
  /\ lock = None
  /\ lock' = w
  /\ wpc' = [wpc EXCEPT ![w] = "check"]
  /\ UNCHANGED <<tasks, stop, task, clientVars, ownerVars, historyVars>>

(* Mutant of WCheck: wait(lock) with no predicate, taken to hold on return. *)
WCheckOnce(w) ==
  /\ wpc[w] = "check"
  /\ wpc' = [wpc EXCEPT ![w] = "ready"]
  /\ UNCHANGED <<tasks, stop, lock, task, clientVars, ownerVars, historyVars>>

(* The predicate of cv.wait. *)
WCheck(w) ==
  /\ wpc[w] = "check"
  /\ wpc' = [wpc EXCEPT ![w] = IF stop \/ tasks # <<>> THEN "ready" ELSE "block"]
  /\ UNCHANGED <<tasks, stop, lock, task, clientVars, ownerVars, historyVars>>

(* Unlocking and falling asleep are one atomic step of cv.wait. *)
WBlock(w) ==
  /\ wpc[w] = "block"
  /\ lock' = None
  /\ wpc' = [wpc EXCEPT ![w] = "waiting"]
  /\ UNCHANGED <<tasks, stop, task, clientVars, ownerVars, historyVars>>

WSpurious(w) ==
  /\ wpc[w] = "waiting"
  /\ wpc' = [wpc EXCEPT ![w] = "lock"]
  /\ UNCHANGED <<tasks, stop, lock, task, clientVars, ownerVars, historyVars>>

(* Mutant of WExit: a worker leaves as soon as it sees stop. *)
WExitEarly(w) ==
  /\ wpc[w] = "ready"
  /\ stop
  /\ lock' = None
  /\ wpc' = [wpc EXCEPT ![w] = "done"]
  /\ UNCHANGED <<tasks, stop, task, clientVars, ownerVars, historyVars>>

WExit(w) ==
  /\ wpc[w] = "ready"
  /\ stop /\ tasks = <<>>
  /\ lock' = None
  /\ wpc' = [wpc EXCEPT ![w] = "done"]
  /\ UNCHANGED <<tasks, stop, task, clientVars, ownerVars, historyVars>>

(* Mutant of WTake: front() without pop(). *)
WTakeNoPop(w) ==
  /\ wpc[w] = "ready"
  /\ ~(stop /\ tasks = <<>>)
  /\ task' = [task EXCEPT ![w] = Head(tasks)]
  /\ started' = started + 1
  /\ lock' = None
  /\ wpc' = [wpc EXCEPT ![w] = "run"]
  /\ UNCHANGED <<tasks, stop, clientVars, ownerVars, accepted, finished, refused>>

WTake(w) ==
  /\ wpc[w] = "ready"
  /\ ~(stop /\ tasks = <<>>)
  /\ task' = [task EXCEPT ![w] = Head(tasks)]
  /\ tasks' = Tail(tasks)
  /\ started' = started + 1
  /\ lock' = None
  /\ wpc' = [wpc EXCEPT ![w] = "run"]
  /\ UNCHANGED <<stop, clientVars, ownerVars, accepted, finished, refused>>

(* task() returns; the loop's local variable is destroyed. *)
WRun(w) ==
  /\ wpc[w] = "run"
  /\ finished' = finished \cup {task[w]}
  /\ task' = [task EXCEPT ![w] = None]
  /\ wpc' = [wpc EXCEPT ![w] = "lock"]
  /\ UNCHANGED <<tasks, stop, lock, clientVars, ownerVars, accepted, started, refused>>

-----------------------------------------------------------------------------
OwnerStep ==
  \/ OCreate \/ OConstructed
  \/ OBeginDestroy \/ OLock \/ OStop \/ ONotifyAll \/ OJoin \/ OJoined

ClientStep(c) == CBegin(c) \/ CLock(c) \/ CThrow(c) \/ CEmplace(c) \/ CNotify(c)

WorkerStep(w) ==
  \/ WLock(w) \/ WCheck(w) \/ WBlock(w) \/ WSpurious(w)
  \/ WExit(w) \/ WTake(w) \/ WRun(w)

(* The destructor has returned and no call is left: the pool is over. *)
Terminated ==
  /\ opc = "joined"
  /\ \A c \in Clients : cpc[c] = "idle"
  /\ UNCHANGED vars

Next ==
  \/ OwnerStep
  \/ \E c \in Clients : ClientStep(c)
  \/ \E w \in Workers : WorkerStep(w)
  \/ Terminated

Spec == Init /\ [][Next]_vars

(* Every thread that can go on does, tasks return, and a thread that finds *)
(* the mutex free again and again gets it.  Nobody is obliged to call      *)
(* addTask, to destroy the pool, or to wake up without a notification.     *)
Fairness ==
  /\ WF_vars(OCreate \/ OConstructed \/ OStop \/ ONotifyAll \/ OJoin \/ OJoined)
  /\ SF_vars(OLock)
  /\ \A c \in Clients : WF_vars(CThrow(c) \/ CEmplace(c) \/ CNotify(c))
                        /\ SF_vars(CLock(c))
  /\ \A w \in Workers :
       /\ WF_vars(WCheck(w) \/ WBlock(w) \/ WExit(w) \/ WTake(w) \/ WRun(w))
       /\ SF_vars(WLock(w))

FairSpec == Spec /\ Fairness

-----------------------------------------------------------------------------
(* The variables stay within their types: loop indices never pass the end  *)
(* of the threads vector (ThreadPool.cpp:9, :42).                          *)
TypeOK ==
  /\ tasks \in Seq(Tasks)
  /\ stop \in BOOLEAN
  /\ lock \in Threads \cup {None}
  /\ wpc \in [Workers -> WorkerPCs]
  /\ task \in [Workers -> Tasks \cup {None}]
  /\ cpc \in [Clients -> ClientPCs]
  /\ arg \in [Clients -> Tasks \cup {None}]
  /\ opc \in OwnerPCs
  /\ index \in 0..Size
  /\ accepted \in Seq(Tasks)
  /\ started \in Nat
  /\ finished \in SUBSET Tasks
  /\ refused \in SUBSET Tasks

(* The comments at ThreadPool.cpp:20-25: whenever a worker reaches front() *)
(* and pop() the queue is not empty, although the wait was also satisfied  *)
(* by stop and although another worker may have emptied the queue between  *)
(* the notification and the wake-up.                                       *)
NoPopOnEmpty ==
  \A w \in Workers : (wpc[w] = "ready" /\ tasks = <<>>) => stop

(* No wake-up is lost (ThreadPool.cpp:16-19, :41, :56): if tasks are       *)
(* queued, either not all workers sleep or an addTask is about to notify;  *)
(* and once the destructor has notified, nobody sleeps any more.           *)
NoLostWakeup ==
  /\ (Size > 0 /\ tasks # <<>>) =>
       \/ \E w \in Workers : wpc[w] # "waiting"
       \/ \E c \in Clients : cpc[c] = "notify"
  /\ opc \in {"join", "joined"} => Waiting = {}

(* When the destructor returns every thread has ended and every accepted   *)
(* task has been executed: stopping drains the queue (ThreadPool.cpp:21,   *)
(* :42-46).  With no worker at all (a machine with two cores and the       *)
(* default constructor) accepted tasks are simply dropped, hence Size > 0. *)
DrainedWhenJoined ==
  (opc = "joined" /\ Size > 0) =>
    /\ \A w \in Workers : wpc[w] = "done"
    /\ Elements(accepted) = finished

(* The pool implements the abstract task queue: first in first out,        *)
(* exactly once, nothing accepted after stop, nothing left when joined.    *)
Queue == INSTANCE TaskQueue WITH
           phase <- IF opc = "joined" /\ Size > 0 THEN "ended"
                    ELSE IF stop THEN "closed" ELSE "open"

ImplementsTaskQueue == Queue!Spec

(* A task that was accepted is executed in the end, even if the pool is    *)
(* being destroyed meanwhile (ThreadPool.cpp:56, :21).                     *)
AcceptedTasksFinish ==
  \A t \in Tasks : (Size > 0 /\ t \in Elements(accepted)) ~> t \in finished

(* The destructor returns: all workers are woken and joined.               *)
DestructorReturns == (opc = "lock") ~> (opc = "joined")
==============================================================================
