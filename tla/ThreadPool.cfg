\* Two workers, two concurrent callers of addTask, three tasks, one owner.
CONSTANTS
  Size = 2
  Clients = {c1, c2}
  Tasks = {t1, t2, t3}
  Owner = Owner
  None = None
SPECIFICATION FairSpec
INVARIANTS
  TypeOK
  NoPopOnEmpty
  NoLostWakeup
  DrainedWhenJoined
PROPERTIES
  ImplementsTaskQueue
  AcceptedTasksFinish
  DestructorReturns
