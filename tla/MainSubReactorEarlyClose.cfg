\* One client is enough: it closes before the main thread has set the callback.
CONSTANTS
  Clients = {c1, c2}
  FDs = {7, 8}
  Cores = {2}
  MaxSent = 1
  MaxLines = 0
  None = None
SPECIFICATION Spec
INVARIANT DeleteCallbackSet
CHECK_DEADLOCK FALSE
