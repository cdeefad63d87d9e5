\* Pipes of one byte, bodies of up to three: both pipes fill or just do not.  Six
\* descriptors, if they are scarce: two scripts at the same time exhaust them.
CONSTANTS
  a = a
  b = b
  Clients = {a, b}
  Requests <- MCRequests
  PipeSize = 1
  FDLimit = 6
  Output = 1
SPECIFICATION FairSpec
INVARIANTS
  ResponseComplete
  NothingLeaks
  NeverDown
PROPERTY EveryAnswerEnds
CHECK_DEADLOCK FALSE
