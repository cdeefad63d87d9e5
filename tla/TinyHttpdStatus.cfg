\* One client with one script is enough.
CONSTANTS
  a = a
  b = b
  Clients = {b}
  Requests <- MCRequests
  PipeSize = 1
  FDLimit = 6
  Output = 1
SPECIFICATION Spec
INVARIANT OneStatusLine
CHECK_DEADLOCK FALSE
