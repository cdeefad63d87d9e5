\* Two connections that are reported together, and two workers.
CONSTANTS
  Clients = {a, b}
  Workers = {w1, w2}
  MaxSent = 1
  None = None
SPECIFICATION Spec
INVARIANT ServesItsOwn
CHECK_DEADLOCK FALSE
