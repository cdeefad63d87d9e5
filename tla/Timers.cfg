\* The server: two clients over two descriptors, a connection lives 2 TIMESLOTs.
\* The list: four timers, a clock of three values.
\* The wheel: three timers, two slots, timeouts of more than two turns.
\* The heap: four timers in one cell (which grows twice), or built from up to four.
CONSTANTS
  Timers = {t1, t2, t3, t4}
  ServerTimers = {t1, t2}
  WheelTimers = {t1, t2, t3}
  Null = Null
  Clients = {c1, c2}
  FDs = {7, 8}
  listenfd = 3
  pipefd0 = 5
  Lifetime = 2
  MaxSent = 1
  MaxTime = 2
  N = 2
  SI = 1
  MaxTimeout = 5
  MaxTicks = 5
  Capacities = {1, 4}
SPECIFICATION TimersSpec
INVARIANTS
  TimersMatchConnections
  NoStaleEvent
  AlarmNeverLost
  ContainersIntact
PROPERTIES
  TickIsExact
  DeadConnectionsClosed
  ContainersImplementQueue
CHECK_DEADLOCK FALSE
