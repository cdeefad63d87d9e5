\* One caller and one worker are enough: the queue takes one task too many.
CONSTANTS
  NumThreads = 1
  MaxQueueSize = 2
  Clients = {c1}
  Tasks = {t1, t2, t3, t4}
  None = None
SPECIFICATION Spec
INVARIANT QueueWithinCapacity
