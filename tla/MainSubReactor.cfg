\* Two clients, two descriptors (which are reused), and a machine with no known
\* core count, one core (both clients on one sub-reactor) or two.
CONSTANTS
  Clients = {c1, c2}
  FDs = {7, 8}
  Cores = {0, 1, 2}
  MaxSent = 1
  MaxLines = 1
  None = None
SPECIFICATION FairSpec
INVARIANTS
  NoStrandedConnection
  NoStrandedInput
  NoDanglingDispatch
  MapMatchesSockets
PROPERTIES
  DisconnectReleases
CHECK_DEADLOCK FALSE
