\* Two workers, a queue of one (which really holds two), two callers and five
\* tasks: both callers may be blocked at once.
CONSTANTS
  NumThreads = 2
  MaxQueueSize = 1
  Clients = {c1, c2}
  Tasks = {t1, t2, t3, t4, t5}
  None = None
SPECIFICATION FairSpec
INVARIANTS
  WakeupsSuffice
PROPERTIES
  ImplementsTaskQueue
  EnqueueReturns
