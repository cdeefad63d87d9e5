# A verification project for candcpp

`candcpp` is a C/C++ learner's repository: a series of echo servers that ends in
a main/sub-reactor server with a thread pool, the programs of a book on Linux
server programming, concurrency exercises, a small HTTP server, programs that
study ffmpeg, and algorithm exercises.  This directory holds TLA+ models of the
parts with a behaviour of their own, TLC configurations that check them, and
TLAPS proofs about most of them.  Source paths below are relative to `src/`.

## 1. Inventory

| Component | State | Operations | Hard part | Correct when |
|---|---|---|---|---|
| Thread pool, `project/30days_make_cpp_server/*/ThreadPool.cpp` | task queue, `stop`, mutex, condition, threads | constructor, `addTask`, worker loop, destructor | wake-ups, stopping while tasks are queued and calls run | accepted tasks run once, in order; the destructor returns after all of them |
| Main/sub-reactor server, `.../5_main_sub_reactor/` | `connections` map, Connections, Channels, an epoll per loop | accept, register, echo, delete, `echoAll` | threads share the map and the Connections without a lock; edge triggering; descriptors are reused | nothing stranded, nothing dangling, closed peers released |
| Single-reactor server, `.../4_hello_class/server2.cpp` | as above, with one epoll and the pool's queue | the same, each callback run by any thread of the pool | two callbacks of one Connection at a time | every accept finds a client, input reaches a worker |
| Single-threaded epoll servers, `.../3_epoll/`, `.../4_hello_class/server.cpp`, `chapter9_io_multiplexing/{LT_ET_test,process_tcp_udp_simultaneously}.cpp` | open connections | accept, read, echo, close | level against edge, resets | what is sent is read and the connection closed |
| Chat room, `.../chapter9_io_multiplexing/chatroom_server.cpp` | `pollfd` array, `users`, borrowed buffers | join, leave, broadcast | removal from the array being walked, pointers into others' buffers | nobody is skipped; no SIGPIPE from a peer whose end was reported |
| EPOLLONESHOT server, `.../epolloneshot_test.cpp` | a thread per event | read, re-arm | two threads on one socket | one thread per socket, no input lost, as far as threads can be created |
| tinyhttpd, `project/tinyhttpd/httpd.c` | a thread per request, two pipes and a child | accept, answer, CGI | pipes with several writers, inherited descriptors, early exits | whole answers, nothing leaked, the process survives |
| Sorted timer list, `.../chapter11_timer/ascending_linkedlist_timer_impl.h` | doubly linked list | `add_timer`, `adjust_timer`, `del_timer`, `tick` | pointers in every position, early stop of `tick` | earliest first, exactly what is due |
| Time wheel, min-heap timers, `.../{time_wheel_timer,min_heap_timer}.h` | slots with rotations; an array heap | add, delete, pop, tick | off by one, lazy deletion, growth | as the list |
| Inactivity server, `.../close_nonactivity_connection.cpp` | epoll, signal pipe, `users`, timer list, alarm | accept, receive, close, signals, timer handler | signals, timers and closing inside one batch | timers and connections paired; timeouts keep coming |
| Bounded pool, `cpp/thread/6_thread_pool.cpp` | queue with a bound, two conditions | constructor, `enqueue`, worker loop, destructor | callers block too; single notifications | as the pool, and every `enqueue` returns |
| Producers and consumers, `cpp/thread/5_producer_consumer.cpp` | slots, `g_counter` | `produce`, `consume`, joins | which sleeper a notification reaches | nobody sleeps for ever |
| Stream puller, `library-study/ffmpeg/src/pull_ipc.cpp` | contexts, the shared frame, `running` | eleven calls that may fail, decoding, showing, clean-up | hand-over of frames, shutdown from either side | newest frame shown once; nothing freed early |
| Codec programs, `.../src/{decode_video,decode_audio,demux_decode,encode_video,read_one_video_frame}.c` | buffer, packets, the codec's frames | fill, parse, send, receive, flush, release | cuts between buffers and packets, delayed frames, a failing call | every frame written once, in the codec's order; the clean-up releases everything |
| Sorting and heaps, `algorithm/src/` | array | sorts; heap operations | boundaries | sorted; a heap |
| LeetCode solutions, `algorithm/leetcode/` | none, or an object | a function, or calls in sequence | boundaries, lazily deleted entries | the answer of the problem |
| Mutex and singleton samples; first servers; system-call and language samples | - | - | - | not modelled, see section 6 |

Interactions.  In `5_main_sub_reactor`, `Server` owns the main `EventLoop`, an
`Acceptor`, one sub-`EventLoop` per core and the pool; each sub-loop is one
never-ending task of the pool.  The acceptor calls `handleNewConnection` on the
main thread; the Connection registers a Channel with a sub-reactor, whose thread
calls `Connection::echo`, which calls back into `Server::handleDeleteConnection`
at end of file.  `echoAll` runs on the main thread over the same map.  In
`4_hello_class` one loop waits and the pool runs all callbacks.  In the
inactivity server everything runs on one thread; signal handlers only write to a
pipe, and the timers' callback closes descriptors that the loop also closes.  In
tinyhttpd a child inherits the descriptors of all requests that are open when it
is forked.  The puller's two threads share one flag and one frame.

`PROJECT.json` lists the hazards line by line, with the property that covers each
or the reason why none does.

## 2. Modules

| Module | Models | Abstraction |
|---|---|---|
| `TaskQueue` | abstract: what a pool promises | accepted sequence, started count, finished set, phase |
| `ThreadPool` | `ThreadPool.cpp` | one action per lock, unlock, wait, notify; spurious wake-ups; `Size = 0` stands for every size the loop does not enter |
| `BoundedPool` | `6_thread_pool.cpp` | a critical section is one step |
| `MainSubReactor` | `Server`, `Acceptor`, `Connection`, `EventLoop`, `Epoll`, `Channel` of `5_main_sub_reactor` | data are counted chunks; a client's name stands for its socket, Connection and Channel |
| `HelloServer` | the same classes of `4_hello_class` | a callback in the pool is run in the steps that other threads can come between |
| `EpollServers` | the five single-threaded loops, a record each of how they differ | `style` picks one |
| `ChatRoom` | `chatroom_server.cpp` | a text is its author; `poll` and each entry of the walk are steps |
| `OneShot` | `epolloneshot_test.cpp` | chunks are counted |
| `TimerQueue` | abstract: what a timer container promises | pending set, expiries, running tick; callers act between ticks only |
| `SortedTimerList`, `TimerListUse` | the list's functions, and any legal use of one list | operators on a record of pointers |
| `TimeWheel`, `TimerHeap` | the wheel and the heap under any legal use | links and cells one by one |
| `IdleServer` | `close_nonactivity_connection.cpp` | extends `SortedTimerList`; the unit of time is TIMESLOT |
| `TinyHttpd`, `MCTinyHttpd` | `httpd.c`, and who asks what | texts by kind; every descriptor of the server and of each child |
| `ProducerConsumer` | `5_producer_consumer.cpp` | a call is one step, or falls asleep |
| `StreamPuller` | `pull_ipc.cpp` | frames are numbered |
| `DecodeFiles`, `DemuxFile`, `EncodeFiles` | the five codec programs | bytes are counted, a packet is a frame; libav is external: a codec keeps up to a bound of frames and any call may fail |
| `Collections` | `ArrayMinHeap`, `MyLinkedList` (707), `MyCalendar2` (729), `ExamRoom` (855) | beside each object, what it should hold |
| `Algorithms` | three sorts and ten problems | beside each answer, the problem's own |
| `MCTimers`, `MCIoServers`, `MCSamples` | compose the small models | a variable picks one per behaviour |
| `MCAlgorithms` | the inputs of `Algorithms` | every input up to a size |
| `*Proofs` | proofs, section 5 | |

Composition.  `ThreadPool` and `BoundedPool` implement the same `TaskQueue`; the
list, the wheel and the heap the same `TimerQueue`; `IdleServer` runs the list of
`SortedTimerList` inside its loop.  Programs that have nothing to do with one
another are checked side by side: `MCTimers` (`use`: the inactivity server, a
list, a wheel, a heap), `MCIoServers` (`server`) and `MCSamples` (`program`, with
the objects of `Collections` as one of them) let the initial state choose one,
and keep the variables of the others still.

**ThreadPool.**  `wpc`, `cpc` and `opc` are program counters of workers, callers
and the owner.  `WLock`, `WCheck`, `WBlock` split `cv.wait` into acquiring the
mutex, evaluating the predicate and the atomic unlock-and-sleep; `WTake` is
`front`, `pop` and the end of the block; `WRun` is `task()`.  `CLock`, `CThrow`,
`CEmplace`, `CNotify` are the lines of `addTask`; `OLock`, `OStop`, `ONotifyAll`,
`OJoin` those of the destructor.  `accepted`, `started`, `finished`, `refused`
are history variables.

**MainSubReactor.**  The kernel's part (receive queues, resets, the listen queue,
edges not yet reported) is external.  Each thread has a program counter, the
batch `epoll_wait` returned, and the Connection it works on.
`handleNewConnection` is `MRegister` (the constructor, which makes the Channel
live), `MStore` and `MSetCallback`; `handleDeleteConnection` is `SLookup`,
`SErase`, `SDelete`.  Undefined behaviour and fatal signals end in a lost
process, `lost # "no"`: a data race on the map (`RaceOutcome`), a dangling
iterator or Connection in `echoAll`, an empty callback, SIGPIPE, a division by
zero reactors.

**HelloServer, EpollServers, ChatRoom, OneShot.**  Peers connect, send, close and
reset at any time, after they have closed too.  What a reset does to a socket is
its `err`: a connection reset while open reports ECONNRESET once (`"reset"`, then
`"seen"`), one reset after its peer's FIN EPIPE (`"pipe"`); a `write` or `send`
to a connection with `"pipe"` or `"seen"` raises SIGPIPE.  In `OneShot` nothing
is sent, so a reset is a close.  `accept` may fail (`AcceptFails`; in the chat
room, which then tries again, `SkipListen`), and so may `pthread_create`
(`CreateFails`), which nobody looks at.  `Callback` queues what
`Channel::handleEvent` hands to the pool, with the pointer and the descriptor it
holds; `Construct`, `Insert` and `SetCallback` are what runs of
`handleNewConnection` between two points where another thread may come in.  In
`ChatRoom`, `Remove` is the swap with the last entry, on each of the paths that
remove; `Announce` sets the events of the others, `SendPending` restores them;
`SendPending` and `Refuse` are the two places where `send` may raise SIGPIPE, and
`killer` is the client it was for.

**Timers and IdleServer.**  The list is a record of `head`, `tail` and the fields
of all timers; operators follow the functions' assignments, and deleting a timer
clears its fields.  The wheel keeps `prev`, `next`, `rotation`, `time_slot`; the
heap its array, whose cells double.  A tick fires one timer per step, and in
`TimerQueue` nothing but `Fire` may take a timer out while a tick runs, so that
the refinement says what fires, in which order and in which tick. `IdleServer`
keeps expiries relative to the clock, which loses nothing since a fresh expiry is
only compared with others and with the present.  A failing `accept`
(`HandleListenFails`) loses the process: `users[-1]` is written.

**TinyHttpd.**  `accept_request` is a step from the request's arrival to the
answer; in `execute_cgi` each `pipe`, `fork`, byte of the body, byte of output
and `waitpid` is one.  `open` and `kid[c]` hold the descriptors of the server and
of c's child; a read of a pipe ends when nobody holds its other end.
`BadRequest`, `Unimplemented`, `CannotExecute`, `NoThread` are the early returns
with what they leave open.

**StreamPuller and the codec programs.**  `Calls` lists what each call of the
setup acquires and what the code releases if it fails.  `PublishToNull` is the
use of a null `shared_frame`, `spoiled` the frames of which `av_frame_ref` failed
to make a reference.  The encoder hands out its packets in the order of the
frames, or the second before the first once (`HandsOut`), as one B frame makes it
do.  A `fread` or `fwrite` whose failure the code does not notice is an action of
its own or an alternative (`FreadFails`, `FrameLost`, `PacketLost`), and a
history variable remembers it.  `EncodeFiles` numbers the
buffers that encoder and program share, so that a frame overwritten while the
encoder refers to it would show.  `read_one_video_frame` keeps return values in a
`size_t` and never sees an error of some calls (`Unchecked`).

**Collections.**  Four classes, each under any sequence of legal calls; `class`
says which.  The array and its recursive calls are recursive functions (`up` of
`HeapifyUp`, `down` of `HeapifyDown`), the list is its nodes' `next` and `val`,
`pq` counts the copies of an interval in the priority queue, which gives any of
its greatest ones (`Tops`), since `Comp` does not order gaps of the same half and
left end.  A call of `seat` drops stale intervals in steps of its own
(`DropStale`) and ends with `Seat`.  `DeleteCrashes` is `deleteAtIndex` on an
empty list, whose null pointer is followed (`FollowsNull`).  `ideal` and
`expected` are what the problem asks for: how often a heap holds each number, the
sequence of a list, the taken hours, the taken seats and the best one
(`BestSeat`).

**Algorithms.**  An operator per function, after the code's loops (as folds and
recursive operators).  Each answer stands beside one that is found in another
way: a definition of the problem (`SortSeq` for the sorts, the least fixed point
for the game of cat and mouse, 913), or the plain solution that the same file
keeps (739, 1706).

## 3. Runs

| Run | Bounds | What it shows |
|---|---|---|
| `thread_pool` | 2 workers, 2 callers, 3 tasks | no pop on an empty queue, no lost wake-up, drained when joined, refinement of `TaskQueue`, accepted tasks finish, the destructor returns |
| `bounded_pool` | 2 workers, `max_queue_size` 1, 2 callers, 5 tasks | single notifications suffice, refinement of `TaskQueue`, every `enqueue` returns |
| `bounded_pool_capacity` | 1 worker, `max_queue_size` 2, 1 caller | **violated**: `QueueWithinCapacity` |
| `main_sub_reactor` | 2 clients, 2 descriptors, 0, 1 or 2 cores, 1 chunk each, 1 line | nothing stranded, no freed Channel dispatched, map and sockets agree, leaving clients released |
| `reactor_early_close` | same, 2 cores, no typing | **violated**: `DeleteCallbackSet` |
| `io_servers` | chat room for 2 of 3 clients; 2 clients and 2 chunks for the epoll servers and EPOLLONESHOT (3 workers), 2 datagrams; 2 clients of which one may reset (`Resetting`), 2 descriptors, 2 pool threads, 1 line for `HelloServer` | the room serves everybody and SIGPIPE ends it only where `poll` could not warn it, an event covers all input and reports nothing that is not there, input is served, one thread per one-shot connection unless it cannot be created, input of the pool's server reaches a worker and each accept finds a client |
| `oneshot_argument` | 2 connections, 2 workers | **violated**: `ServesItsOwn` |
| `timers` | server: 2 clients, 2 descriptors, 2 timers, a lifetime of 2; list: 4 timers, a clock of 3 values; wheel: 3 timers, 2 slots, timeouts up to 5, 5 ticks; heap: 4 timers, a capacity of 1, or built from up to 4 | timers match connections, no stale event, alarm never lost, ticks exact, dead peers closed; links and order of list, wheel and heap intact, all refine `TimerQueue` |
| `httpd` | 2 clients, twelve kinds of request, pipes of 1 byte, bodies of up to 3, output of 1, 6 descriptors if they are scarce | whole answers, nothing leaked, the process survives, every answer ends unless both pipes of a script fill |
| `httpd_status_line` | 1 client | **violated**: `OneStatusLine` |
| `samples` | 2 producers, 3 consumers, 2 slots; 3 frames; 4 packets of 3 bytes through a buffer of 5; 3 packets of two streams; 4 frames to encode; codecs that keep up to 2; heaps and lists of 4 of three numbers, a day of 5 hours, rooms of 1 and 4 to 7 seats with 6 intervals | wake-ups suffice; the newest frame waits, contexts outlive the decoder; the threads of both programs end (`ThreadsEnd`); every frame written unless a read or write failed, `read_one_video_frame` and `demux_decode`'s clean-up release everything; objects hold and answer what they should, and end the program in one known case only |
| `algorithms` | arrays of up to 5 of three numbers, grids of 6 cells, graphs of 5 nodes, texts of 4 letters, brackets nested twice | every sort and every solution answers right |

Why the bounds are enough to be of interest.  Two workers and two callers give
every pair of racing notifications, and a third task lets a woken worker find the
queue emptied by another; in the bounded pool both callers can be blocked at
once.  Two clients on two descriptors give reuse of a descriptor while the other
is being handled; one core puts both on one sub-reactor, two cores on two.  The
third client of the chat room is refused, or takes the place of one that left.
Two scripts at a time inherit each other's pipes; with one byte per pipe a body
of three that is copied fills both, a body of two that nobody reads does while
the script prints, and one byte less of either does not; two scripts need more
than six descriptors.  In the pool's server a second client that may reset would
only repeat what the first one shows.  Five bytes of buffer and three of packet
cut every packet somewhere.  Four timers let the insertion loop pass more than
one node and give every position; timeouts of more than twice the wheel's turn
need rotations; a heap of one cell doubles twice, though with four timers a hole
sinks by one level only - deeper heaps are left to the proof.  Four numbers give
an array heap a third level; in rooms of up to seven seats gaps of equal halves,
gaps that are none any more and gaps that come back meet in the queue.

Every bound is a constant named in the configurations (`MaxSent`, `MaxLines`,
`MaxTime`, `MaxDatagrams`, `MaxFrames`, ... and the sizes of the sets).  Deadlock
is checked in `thread_pool`, `bounded_pool`, `bounded_pool_capacity`, `samples`
and `algorithms`.  It is not in the runs with servers: their peers may fall
silent, their process may be lost or stopped by SIGTERM, and one-shot workers end.

### Fairness

A thread or process that can take a step takes it (weak fairness), which the
operating system's scheduler gives; acquiring a mutex, or entering a critical
section whose condition keeps being met, is strongly fair.  That is an assumption
on the implementation of `std::mutex`: a thread does not lose the race for it
for ever.  Nobody is obliged to call `addTask` or `enqueue`, to destroy a pool,
to connect, to close, to type, to send SIGTERM, or to wake up spuriously.  Tasks
return.  In `MCTimers` the inactivity server's thread
runs, time passes and a due SIGALRM is delivered; the containers have safety
properties only.  In
`TinyHttpd` a client that is connected sends the whole of its request unless it
leaves, as the code has no timeout.  In `MCIoServers` only the loop of the
single-threaded servers is fair, since the others have safety properties only; in
`MCSamples` the producers and consumers and the puller's threads are.  Properties
of liveness excuse a lost process, and `EveryAnswerEnds` a request whose script
prints before its body is read: thread and script may then each wait for room in
a full pipe (`httpd.c:318-322`).  `PipesMayFill` says exactly when: a script that
prints without reading needs an answer of more than a pipe and a body of more
than the other, one that copies a body of more than both.

### Findings

* `reactor_early_close`: a Channel is live from `Connection.cpp:13`, the delete
  callback is set at `Server.cpp:51`.  A client that closes in between makes
  `echo` call an empty `std::function`, and the exception ends the process.  The
  comments at `Connection.cpp:33` and `Server.cpp:57` say that descriptors are
  released through that callback.
* `bounded_pool_capacity`: `size() <= max_queue_size` (`6_thread_pool.cpp:77`)
  lets the queue hold one task more than the capacity main's comment names
  (line 89).
* `oneshot_argument`: the workers get a pointer to one variable of the main loop
  (`epolloneshot_test.cpp:136`); the comment above it says that the new thread
  serves `sockfd`, but it may read the next event's.
* `httpd_status_line`: the status line is sent after `fork` by both processes
  (`httpd.c:278`); the README of tinyhttpd writes it before it forks
  (`project/tinyhttpd/README.md:40-41`).

The models also show, without a document that says otherwise: the unlocked
connections map and `echoAll`'s use of Connections that another thread deletes; a
listen queue stranded by a failing `accept`, which ends `3_epoll` and the pool's
server; SIGPIPE in the echo servers, and in the chat room from a client that
shuts down and is reset between `poll` and `send` (`chatroom_server.cpp:160`) or
before it is refused (line 98); `users[-1]`; `4_hello_class/server.cpp` never
closing a connection that was reset; a one-shot connection without a thread when
`pthread_create` fails (`epolloneshot_test.cpp:136`); tinyhttpd leaving the
socket open on a method it does not implement, leaving pipes open when a later
one or `fork` fails, calling `fclose(NULL)`, and waiting for ever on a POST
script that prints while both pipes are full; the codec programs ending with
status 0 and frames missing when a `fwrite` fails (`decode_video.c:49`,
`decode_audio.c:111`, `demux_decode.c:73`, `encode_video.c:74`), or, in
`decode_audio`, a `fread` (lines 197, 232); `encode_video` keeping `yuv_buffer`
and `input_file` at its end; the puller's null `shared_frame`
(`pull_ipc.cpp:113-117`) and empty frames (line 120); `deleteAtIndex` with an
index above 0 following a null pointer on an empty list (`707.cpp:72`).

## 4. What the properties exclude

The properties say when the code is excused, and no more: `NoStrandedConnection`
excuses a failing `accept`; `NeverDown` a client that leaves, a script that does
not read its body, a file that cannot be opened and scarcity; `NothingLeaks` the
early returns above; `EveryAnswerEnds` the scripts of `PipesMayFill`;
`EveryFrameWritten`, of its completeness but not of its order, a call, a read or
a write that failed; `OneShotProtocol` a connection whose thread could not be
created.  Where a program ends by itself the properties say from what:
`RoomIsServed` (its part `KilledOnlyUnseen`) whom SIGPIPE may come from,
`ObjectsAgree` that the list was empty.  `ReleasesAll` is about the clean-up code
of `demux_decode` and `read_one_video_frame` only.  In every other state a
violation would show.

## 5. Proofs

| Module | Theorems (each `Spec => [](...)`, or `Spec => ` the refinement) | Assumptions on the constants |
|---|---|---|
| `ThreadPoolProofs` | `Invariance`, `TypeCorrect` (`TypeOK`), `PopSafe` (`NoPopOnEmpty`), `WakeupSafe` (`NoLostWakeup`), `HistoryInvariance`, `DrainedSafe` (`DrainedWhenJoined`), `Implementation` (`ImplementsTaskQueue`) | `Size` is a natural number; threads, tasks and `None` are told apart |
| `BoundedPoolProofs` | `WakeupsAreEnough` (`WakeupsSuffice`), `HistoryInvariance`, `Implementation` (`ImplementsTaskQueue`) | `NumThreads` an integer, `MaxQueueSize` positive, callers finite |
| `MainSubReactorProofs` | `DispatchIsSafe` (`NoDanglingDispatch`), `MapIsExact` (`MapMatchesSockets`), `InputIsReported` (`NoStrandedInput`), `ClientsAreAccepted` (`NoStrandedConnection`) | descriptors and core counts are finite sets of numbers; `None` is neither client nor descriptor |
| `IoServersProofs` | `OneThreadAtATime` (`OneShotProtocol`), `InputIsOnItsWay` (`NoStrandedInput`), `AcceptNeverThrows` (`AcceptFinds`), `RoomServed` (`RoomIsServed`), `NoEventForgotten` (`EventsCoverInput`) | names are told apart, finitely many workers, `USER_LIMIT` a natural number |
| `SortedTimerListProofs` | of the list, the lemmas `ListStaysIntact` and `ListIsQueue`; of the server, `EventsAreFresh` (`NoStaleEvent`), `AlarmIsKept` (`AlarmNeverLost`), `TimersAreInStep` (`TimersMatchConnections`), `TicksAreExact` (`TickIsExact`) | finitely many timers, and a timer for each descriptor; a positive lifetime; finitely many descriptors; `Null` is told apart |
| `TimerContainerProofs` | of list, wheel and heap, `ContainersStayIntact` (`ContainersIntact`), `ContainersAreQueues` (`ContainersImplementQueue`) | as above; `N`, `SI` and the heap's capacities positive |
| `SamplesProofs` | `SlotWakeups` (`WakeupsSuffice`), `NewestFrameWaits` (`NewestWaits`), `NothingFreedEarly` (`ContextsOutliveDecoder`), `FramesGetThrough` (`EveryFrameWritten`), `EverythingReleased` (`ReleasesAll`), `ObjectsAlwaysAgree` (`ObjectsAgree`) | producers and consumers finite and disjoint; packets of at least one byte, `REFILL_THRESH` at least 1 and not above the buffer's size; delays, sizes and hours are natural numbers, what heap and list hold integers |
| `TinyHttpdProofs` | `ServedRequestsLeakNothing` (`NothingLeaks`), `ServerSurvives` (`NeverDown`), `AnswersAreWhole` (`ResponseComplete`) | requests are what the code tells apart; nothing about pipes, bodies or outputs |

The arguments, and why a stronger invariant is needed:

* **ThreadPool.**  That a sleeping worker saw an empty queue holds only because
  the mutex is held from its check until it sleeps.  `LockInv` says who holds the
  mutex, `LocalInv` which local variables are set, `StopInv` relates `stop`, the
  queue and the counters; with them `NoLostWakeup` is inductive.  `HInv` adds the
  history: the queue is the accepted tasks not yet started (`QueueInv`), a call's
  task is nobody else's (`ArgInv`), a started task has finished or exactly one
  worker has it (`RunInv`), joined threads have ended (`JoinInv`).
* **BoundedPool.**  `WakeupsSuffice` compares numbers of threads, tasks and
  places, so its proof counts: each step moves one thread from one set to
  another, and the lemmas say what that does to their cardinalities.  The history
  is as above (`QueueInv`, `CallInv`, `TaskInv`, `EndInv`).
* **MainSubReactor.**  The four properties are inductive together: that a
  reported socket is still alive rests on the map leading back to the connection
  being deleted (`MapInv`), which rests on descriptors being unique although they
  are reused (`FdInv`) and on the order of `handleNewConnection` (`SetupInv`);
  `SubInv` says what each sub-reactor has in hand, `InputInv` where unread input
  is known, and `AcceptInv` the same of the listen queue.
* **The sorted list.**  `IsList(L, q, n)` says that the pointers of `L` spell the
  sequence `q`; each member function is shown to do to `q` what it should: insert
  where `AddAfter` puts it (`InsertedIs`, `InsertionPointIs`), remove the k-th,
  move one back.  The walks `InsertionPoint` and `Linked` are recursive functions
  over a finite set or interval; their values are found with the least element of
  what is left (`LeastExists`), as the library's induction theorems cannot be
  instantiated.  `UseInv` only says that some ascending sequence of exactly the
  timers in use exists.
* **IdleServer.**  A client has one place (`PlaceInv`), a tick follows a batch
  (`LoopInv`), and `NoStaleEvent` and `AlarmNeverLost` follow the chain alarm,
  signal, pipe, edge, event, timeout, alarm.  `TimerInv` adds that list,
  `userTimer` and `timerFD` agree, which each of them needs of the other two, and
  `ClockInv` that what a timer has left and the time its connection has been
  quiet are together `Lifetime`; from both follows what a tick closes.
* **MCTimers.**  A behaviour of the four programs is a behaviour of each
  (`RunsOneProgram`), so what is proved of `Spec`, `UseSpec`, `Wheel!Spec` and
  `Heap!Spec` holds of `TimersSpec`.
* **The wheel.**  `ChainsInv`: a slot's links spell a sequence of the timers with
  that `time_slot`.  `TimeInv`: a timer's tick is `ticks + rotation * N` plus the
  way from `cur_slot` to its slot.  While a tick walks a slot the timers it has
  passed have lost a rotation already, so `WalkInv` splits the sequence at `tmp`:
  those behind it are due `N` ticks later than that.  Of arithmetic it takes only
  division with remainder (`DivMod`), one wrap of the slot number (`Wraps`,
  `Turned`) and `(r - 1) * N + N = r * N` (`Products`).
* **The heap of timers.**  `HeapInv`: the cells are distinct, the armed timers
  are among them, parents are not later than children, and during a tick `tmp` is
  the timer in cell 0.  The loops over the array are recursive functions whose
  calls move on towards one end of it, so `DescentExists` finds the function from
  the least index it must exist for, and what it computes is found the same way:
  `PercolateDownIs`, `HeapifyIs` and `RaiseIs` say that each keeps the members
  and leaves an ordered heap.  `pop_timer` called from outside is a deletion to
  `TimerQueue`; in a tick it fires the first armed timer, or nobody.
* **Single-threaded epoll servers.**  `EpollInv` is `EventsCoverInput` with
  `EpollLoopInv` (the connection being read is no longer in the batch): only the
  loop takes bytes or clients away, and only from the descriptor it is at, so an
  event stays good until its turn.
* **EPOLLONESHOT.**  `ShotPlaceInv`: an open socket is armed, in the batch, or
  with one thread, or among those whose thread could not be created.  It holds as
  long as no argument was overwritten (`~Mistaken`), and the steps that keep it
  need `ShotWorkerInv` without that condition.
* **HelloServer.**  `HelloInputInv`, which holds until the server is lost, is
  inductive with `HelloConnInv`: an echo in the pool has the descriptor of a live
  Connection or one that was deleted. `AcceptFinds` counts: the listen queue
  holds at least as many clients as accepts are running, queued, in the batch, or
  behind the edge (`HelloAcceptInv`).
* **ChatRoom.**  `ChatEntriesInv` says that entries and connected clients are the
  same, whatever is swapped; `ChatReadyInv` that whom `poll` reported is at or
  ahead of the walk; `ChatErrorInv` that an entry without a reported error has
  none that was seen, and that a client of such an entry has shut down since the
  poll if at all, so that a `send` raises SIGPIPE to no other.  `ChatToldInv`
  (who is owed a text points to the speaker's buffer) was not inductive at first:
  it lacked that whoever is to be told of has been accepted, without which a
  client accepted later could pass for the speaker.
* **Producers and consumers.**  While a producer sleeps, full slots and awake
  producers with calls left are together at least `Capacity`; while a consumer
  sleeps, no more slots are full than consumers with calls left are awake
  (`SlotWakeInv`).
* **Codec programs.**  What was handed over is written or kept by the codec, in
  order (`DecodeOrderInv`, `DemuxOrderInv`), as long as no read or write has
  failed; then only the order is left (`DecodeWrittenInv`).  Bytes of the file,
  the buffer and the parser add up, with the parser inside the packet it hands
  out next (`DecodeBytesInv`); after a flush nothing is left (`*FlushInv`).  The
  encoder has handed out the first of its frames, but for one that its successor
  has overtaken (`EncodeHanded`), and every buffer it refers to still has its
  picture (`EncodeQueueInv`), which makes the frames it writes the right ones.
* **TinyHttpd.**  For each client: `OpenInv` says which of its descriptors are
  open at each position of its thread, `KidInv` that its child holds its two ends
  until it exits, `BodyInv` that every byte passed on was read or is in the pipe,
  `GotInv` that what was received and what is in the other pipe are together the
  status lines and the script's output so far.  A step of one client leaves the
  parts of the others alone (`Others`), although their children have inherited
  its descriptors.
* **StreamPuller.**  `PullerPhaseInv` says which thread exists when,
  `PullerFrameInv` relates the four frame numbers and the flag, `PullerHeldInv`
  says that what is held is what the calls so far have acquired, and `CallsAre`
  that the error path of each call releases exactly that.

* **The objects of Collections.**  `ObjectInv`: what the last call returned is
  what was expected, and per class how the data stands for `ideal`.  `HeapInv`:
  the array is a heap and `ideal` counts its numbers; its recursions are shown to
  exist with `RecursionExists` and `LoopExists` and argued about with `LoopRule`.
  `ListInv`: the nodes form a path that spells the sequence.  `CalendarInv`: the
  hours of the intervals are the taken ones.  `RoomInv`: every gap between two
  neighbours is in the queue, next to stale ones.  Then the greatest interval, if
  it is a gap, bounds every distance inside (`InnerBounds`); the code compares it
  with both ends (`SeatEnd`) and sits in its middle otherwise (`MiddleSeat`).

The bounds of the models (`MaxSent`, `MaxTicks`, ...) are constants in the
theorems too, about which nothing is assumed unless the table says so: they limit
how long a run is, not what is true of it.

Only model-checked.  All liveness (`AcceptedTasksFinish`, `DestructorReturns`,
`EnqueueReturns`, `DisconnectReleases`, `DeadConnectionsClosed`,
`EveryAnswerEnds`, `InputIsServed`, `ThreadsEnd`): the prover has no fairness and
no ENABLED.  `AnswersMatch`: the functions of `Algorithms` are recursive
operators, and what one computes for every input is out of the prover's reach.

## 6. Not modelled

* `~Server`, `~EventLoop`, `~Acceptor`: main's loop never returns.
* `Server::handleRead`, `Connection::read`: nobody calls them.
* Partial writes, and the contents of messages in the echo servers.
* Failing system calls at start-up of the servers, which throw, assert or exit;
  a failing `epoll_wait`; a full signal pipe.
* The lifetime of a pool object: a caller that is inside `addTask` or `enqueue`
  when the destructor returns uses destroyed members; the models let it go on.
* Destructors of the timer containers, which run at exit.
* `cpp/thread/{3,4}*.cpp`: two threads that count under a lock, and a singleton
  used by one thread.  Nothing interleaves that the lock does not settle.
* The first servers of the series: one accept and one blocking echo loop, for one
  client.
* The LeetCode solutions other than those of `Collections` and `Algorithms`:
  short pure functions without a second solution to compare with.
* Samples of single system calls, of the language and of libraries.

## 7. How the project was built, and what is left

The order was that of the code's own dependencies: the pool with its abstract
queue, the main server, the timer list and its server, the bounded pool; then the
servers around them, tinyhttpd, the programs with ffmpeg, the containers and the
algorithms; and the proofs from the pool outwards.

What could follow: the loops of `Algorithms` as recursive functions, argued about
like those of the heaps; and an abstract specification of the echo servers (what a
client gets back) that both reactors implement, once partial writes and the echoed
bytes are modelled.
