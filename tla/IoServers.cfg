\* The chat room is one client larger than its limit; two clients for every other
\* server, three one-shot workers, and two pool threads for three kinds of task.
\* One of the two clients of the pool's server may reset its connection.
CONSTANTS
  ChatClients = {a, b, c}
  ChatFDs = {1, 2, 3}
  USER_LIMIT = 2
  ChatSent = 1
  EpollClients = {a, b}
  EpollSent = 2
  MaxDatagrams = 2
  ShotClients = {a, b}
  ShotWorkers = {w1, w2, w3}
  ShotSent = 2
  HelloClients = {a, b}
  HelloFDs = {1, 2}
  HelloWorkers = {w1, w2}
  HelloSent = 1
  MaxLines = 1
  Resetting = {a}
  None = None
SPECIFICATION FairSpec
INVARIANTS
  RoomIsServed
  EventsCoverInput
  OneShotProtocol
  NoStrandedInput
  AcceptFinds
PROPERTY InputIsServed
CHECK_DEADLOCK FALSE
