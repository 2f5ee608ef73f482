# A verification project for CocInside

CocInside is a cocos2d-x game client in C++. Its own code is a base library
(`System/`), a variable-length codec (`Ssu/`) and the client proper
(`CocTest/Classes/`): sockets, a TCP client on libevent, packet framing and
dispatch, worker threads and a few scenes. It carries a copy of libevent
(`event/`), on which the client and its workers run; `extensions/` and
`cocos2dx_support/` are third-party or generated. This directory holds TLA+
modules that model the client's own code and the parts of libevent it stands on,
TLC configurations that check them on small instances, and TLAPS proofs.
`PROJECT.json` maps each definition to the lines it stands for and lists runs,
mutants, hazards and theorems.

## 1. Inventory

| Component | State it keeps | Operations | Works with | What makes it correct |
|---|---|---|---|---|
| Event (`System/Event.*`, `System/Unix/EventImpl.*`) | flag, sleepers on a condition variable | `set`, `reset`, `wait`, `tryWait` | MsgQueue | no lost wake-up; one resume per `set` of an auto-reset event |
| MsgQueue (`System/MsgQueue.h`, `Mutex`, `Lock`) | two vectors, the index of the one being filled, a mutex, an event | `pushMsg`, `pushLock`/`pushMsgNoLock`/`pushUnlock`, `fetchMsg()`, `fetchMsg(ms)`, `fetchEnd`, `tryWaitEvent` | TcpClient, Processor | a FIFO: each message once, in order, in the end |
| UniqueID (`System/UniqueID.h`) | a maximum and a set of free ranges | `next`, `addFree`, `addFreeN`, `setMax` | - | no id is issued twice, none is lost |
| Resource, ResourcePtr (`System/Resource*`) | a set of observers; a back pointer | constructors, assignments, destructors | - | a pointer is null from the moment its object is gone |
| Timer (`System/Timer.*`) | a heap of timers | `add`, `remove`, `process`, the callback | - | every timer fires when due, as often as asked |
| TcpClient (`Network/TcpClient.*`, `TcpAction.*`, `TcpSocket.*`) | `_server` slots, unique id, run flag, action queue | `connect`, `close`, `close2`, `pendClose2`, `send2`, `setHandler`, `remove`, libevent callbacks, `onRunCheck`, `loop`, `stop` | MsgQueue, libevent, Worker | actions reach the session they name, once; nothing freed is used |
| ClientNet (`TcpNetwork/ClientNet.*`) | receive buffer, one-packet buffer, socket | `connect`, `sendMsg`, `runRecvMsg`, `drainDataBuf`, `copyDataBuf` | Processor | packets are cut where they end |
| Worker (`Worker/Base.*`, `Worker/Tcp.*`) and Thread | `_running`, timers, event base, thread | `start`, `stop`, `join`, `run`, `loop`, `addTimer`, `delTimer`, `_onTimer`, destructors | libevent, TcpClient | timers live as long as their events; stop and join end the thread |
| libevent: event base (`event/event.c`, `evmap.c`, `epoll.c`) | queues of inserted, active and timed events, deferred callbacks, the loop's position | `event_add`, `event_del`, `event_active`, `event_base_loop`, `loopexit`, `loopbreak` | Worker, TcpClient, bufferevents, evdns | the loop wakes in time, runs what was asked and nothing else |
| libevent: buffers and bufferevents (`event/buffer.c`, `bufferevent.c`, `bufferevent_sock.c`) | chains, the pointer to the last with data; watermarks, pending events | adding, draining, moving, pulling up, reserving, reading, writing | TcpClient | bytes stay whole and in order; reading resumes, output leaves |
| libevent: resolver (`event/evdns.c`) | requests in flight and waiting, a ring of servers, counters, probes | resolve, cancel, timeouts, replies, nameserver failures | event base | every request is answered, once |
| Processor, Builder, Handler (`Packet/`) | handler tables, message queue | `addHandler`, `parseInit`, `pack` | MsgQueue, ClientNet | what was packed is dispatched to the handler of its opcode |
| ClientSocket (`TcpNetwork/ClientSocket.*`) | ring buffer | `receiveMsg`, `recvFromSock` | - | the ring never writes past its end |
| Serialize, Ssu, CsvParser, StringTokenizer, IniFile, Path | buffers | see `PROJECT.json` | - | round trips |
| View (`View/`, `AppDelegate`) | current scene | scene switches | cocos2d-x | - |

What is hard in this code: the queue's consumer and producers share a mutex for
the push and the swap only, and the event is outside it; sockets are found by
session id through a vector that keeps addresses of deleted objects; a run flag
is shared by two threads without a lock, and raised by the thread it controls;
the byte stream is cut into packets in a buffer that survives reconnects; a
destructor chain frees what a thread still uses; a timer's callback changes the
heap it is called from. In libevent: a thread changes the events of a loop that
is computing how long to sleep, or asleep; callbacks delete what the kernel has
just reported; a buffer keeps a pointer into a list that every operation
rebuilds; a request is retransmitted, reissued, searched for again, cancelled and
answered late, while its server is declared dead.

## 2. Modules

| Module | Models | Uses |
|---|---|---|
| `EventImpl` | the sections of `EventImpl` between two points where the mutex is released | |
| `Event` | the calls of `Event` by any number of threads, with history | `EventImpl` |
| `Channel` | abstract: a FIFO from which batches are taken | |
| `MsgQueue`, `MsgQueueProofs` | the queue, two steps per lock, its event as an instance of `EventImpl`; the refinement of `Channel` | `EventImpl`, `Channel` |
| `UniqueID` | the allocator of ids | |
| `Resource` | resources and pointers in cells that are used again | |
| `Timer` | the timer heap and `process()` | |
| `SystemProofs` | the proofs about `Event`, `UniqueID`, `Timer` and `Resource` | |
| `TcpClient`, `TcpClientProofs` | sessions, sockets in heap cells, handlers, the action queue, the loop | |
| `ClientNet`, `ClientNetProofs` | connection and framing | |
| `Worker` | a worker, its thread, its timers | |
| `ClientProofs` | the proofs about `Worker`, and the types of the three parts of `MCClient` | `MCClient`, `ClientNetProofs`, `MsgQueueProofs` |
| `EventBase`, `EventBaseProofs` | the event base: one loop, other threads | |
| `Evbuffer`, `EvbufferProofs` | buffers as functions on lists of chains; what each function does to the bytes and the shape of a list | |
| `Bufferevent`, `BuffereventProofs` | a socket bufferevent with two buffers | `Evbuffer`, `EvbufferProofs` |
| `Evdns` | the resolver | |
| `MCSystem` | `Event`, `UniqueID`, `Resource`, `Timer` and, for its progress, `TcpClient` for one run | |
| `MCClient` | `Worker`, `ClientNet` and `MsgQueue` for one run | |
| `MCSockets` | `TcpClient` and `Bufferevent` for one run, with the symmetry of cells and handlers | |
| `MCEventBase`, `MCEvdns` | constants that are functions and sequences | |

`MCSystem`, `MCClient` and `MCSockets` put components into one run that share no state. The
variable `part` picks one of them in the initial state and only that one moves:
the state space is the sum of those of the parts and not their product, and
every property of a part is checked in all its states. For the parts that do not
move, no fair action is enabled at the start, or the fairness condition names
`part`, so fairness asks nothing of them.

Operators whose comment begins with "Mutant:" are variants of the definition
that follows them with a plausible mistake in it. They are no part of any
specification; putting one in place of the original must break the property
`PROJECT.json` names with it.

### Event
`evState` is `_state`; `evWait` says for each thread whether it is outside, asleep
in the condition variable, or released and waiting for the mutex. `set`, `reset`
and each turn of the `while (!_state)` loop hold the mutex throughout, so each is
one step; a thread that was woken tests the flag in a later step, after whatever
other threads did meanwhile. Spurious wake-ups are included. A deadline releases a
thread in a step of its own, and `ETIMEDOUT` leaves the loop without another
test, as the code does.

### MsgQueue
Producers and the consumer each have a program counter; every acquisition,
access and release is a step, so that the reset of the event, which is done
without the mutex, meets every state of a push. The consumer mixes the three ways
of fetching. `pushed` and `delivered` are histories. Mapping: the abstract queue is
the vector being filled, the abstract batch is the one that was fetched.
`QueueExact` is `ExactlyOnceInOrder`, `VectorsApart` and `MutexHeld`;
`MessagesDelivered` is `PollingDelivers` and `EventDelivers`.

### UniqueID
`freeId` is the set of ranges, ordered by their lower end only, as the code's
`std::set` is. The client keeps the contract the interface implies: it returns
ids it holds, and restores an allocator before the first `next()`.
`FreeRangesExact` says that ids in use and ids in ranges partition `1..maxId`, and
that no two ranges touch.

### Resource
Cells are reused: a cell has a generation, and a pointer's ghost `target` is the
object it was last given. `PointersSafe` is `SafePointer` (a pointer shows its
target while that lives, null afterwards, never a later object in the same cell)
and `ObserversExact` (a living resource knows exactly its living pointers).

### Timer
The heap is its members and its front: `push_heap` moves a new member to the front
if it is due strictly earlier, `pop_heap` puts any of the earliest there. Each turn
of `process()` and each return of a callback is a step; the callback adds and
removes timers, the one that fired included. Once `process()` has deleted the last
timer it reads `front()` of an empty vector, which is undefined and ends the
behaviour (`tmPc = "undefined"`). `FiresAsAsked` is `PoppedIsFired` and
`NeverTooOften`, `TimersInOrder` is `DueOrder` and `NothingDueLeft`.

### TcpClient
A socket is a cell of a small heap with its session id, output buffer and
handler; `_server` is a sequence of addresses, and deleting a socket leaves its
address there, as `remove()` does. Reading a deleted socket is undefined: it may
still show its old id, and then a freed bufferevent is used (`crashed`), or not.
The session id keeps the code's arithmetic (a unique number above 20 bits of slot
index, modulo 2^32), with both widths as constants so that they wrap. Submitting
an action and fetching the vector of actions are single steps, justified by
`ImplementsChannel`; what `onRunCheck` fetched is neither cleared nor given back,
as in the code. `close()` pushes its action only when it is null, which is what
`if(ac == NULL) pushMsg(ac)` does: the close is never carried out.

### ClientNet
A byte is a connection, a packet and a position. `ReadSome` takes any part of
what is on the wire that fits; `Frame` is one turn of the inner loop. Where no
header begins, the size field may be anything. The size field counts the header,
as line 178 of `ClientNet.cpp` has it; `Builder::pack` and `Processor::parseInit`
do not count it. `FramingExact` is `FramesWhole` and `NothingLeftBehind`.

### Worker
The owner and the worker's thread are two processes. Timers are the map `_timers`
together with the state of their events in libevent. `Destroy` and
`DestroyThread` are the two halves of the destructor chain: `~Base`, which deletes
the timers' data, and `~SimpleBase`, which waits for the thread. The owner may
destroy the worker whenever it is not in another call, as nothing in `Base.cpp`
keeps it from that. From then on every use of a member of `Base` or of its timers'
data by the thread is `fatal`: the call of `loop()`, which is pure virtual again,
adding and deleting timers, a callback whose data is gone, the end of the loop.
`SafeOnceJoined` says that this happens only to a thread that was not joined; that
it does happen is the run `worker_destroy`.

### EventBase
One thread runs the loop, its callbacks and other threads call. The lock of the
base is held wherever the loop's position is not `out`, `dispatch`, `woken`,
`callback` or `defcallback`, and calls of other threads happen there. The sleep is
split: the timeout is computed under the lock, with a clock that may be cached,
and then the thread sleeps without it, so that an `event_add` can come in between
and must wake it. `event_del` from another thread is two steps when the callback
runs. The repository comments out `evthread_use_pthreads`
(`Network/Else/UtilsImpl.cpp:19`), so that use from several threads is a promise
of the library and not of the client as built.

### Evbuffer and Bufferevent
A buffer operation holds the lock from its beginning to its end, so it is a
function from buffer to buffer; `lwd` is the slot `last_with_datap` points at and
`bad` says that an assertion of `buffer.c` failed. Chains have one to three bytes,
so that growing, realigning and copying all happen. `Bufferevent` adds a connected
socket: reads of any length, partial writes, watermarks, suspension, and what the
application may do with its ends of the two buffers. Reference sequences say
what each buffer should hold. `Careful` keeps the application away from what an
output that ended in empty chains cannot do: `evbuffer_add` to one with two of them
breaks an assertion (section 5), and space reserved while `last_with_datap` lags
behind the data may lie before that data, so that bytes change places.
`BuffersSound` is the type invariant,
`BytesIntact`, `AssertionsHold` and `InputPointerRight`; `ReadingResumes` is
`SuspendedWhenFull` and `ReadingArmed`.

### Evdns
Every function holds the resolver's lock and calls many others; the state is one
record and the functions are operators on it, composed as the code composes
them. Packets are lost, delayed, doubled and answered late; sockets block or fail;
servers time out, are declared dead, probed and brought back; requests are
cancelled, and the server list is cleared and resumed. An answer is good, says that
there is no such name or no such record, or that the server failed or refuses; the
other errors of a reply are treated by the code as one of these. `ListsSound` is the
type invariant, `ListsAgree` and `ServersExist`; `NothingForgotten` is `NothingStuck`
(a request in flight has a timer, or is marked for sending while some socket waits
to become writable) and `FailedIsProbed` (a server out of use will be tried again).

## 3. Runs

| Run | Bounds | Shows |
|---|---|---|
| `standalone_classes` | 2 waiting threads, 3 sets, auto-reset; ids up to 6; 2 resource cells used twice, 2 pointers; 2 timers, intervals 1 and 2, counts 1 and for ever, 3 seconds; for `TcpClient` 1 cell, 2 connections, 2 actions | nobody sleeps under a raised flag, one resume per `set`, a `tryWait` that says true saw the event, a signal releases waiters; free ranges are exact; pointers are safe; timers fire as asked, in order; every action of a `TcpClient` runs, and a loop that was entered ends on `stop()` |
| `client_parts` | 2 timers, 2 starts; header 2, buffer 5, sizes 2, 3, 5, 3 packets, 2 connections; 2 producers, 2 messages, 4 pushes, all forms of fetching | no event without its timer, repeated timers stay armed, an owner that joins first may destroy, stop ends the thread; packets whole, in order, none left behind, none stuck; the queue exact, its batches stable, `Channel` implemented, delivery for each kind of consumer |
| `sockets` | 2 cells, 2 handlers, 3 connections, 2 slots, 2 actions; 3 bytes in both buffers, chains of 1 to 3 bytes, marks 0 and 2 | no action reaches another session; live connections have live handlers; a pending close loses no output; bytes intact, assertions hold; reading is suspended only at or above the mark and armed otherwise; output is scheduled |
| `eventbase` | a persistent descriptor event, a one-shot timer of higher priority, the exit event, 1 deferred callback, 1 other thread, 3 calls, clock up to 2 | the loop never sleeps past a timeout or an activation; callbacks run only for events that were wanted; lower priorities wait; a break is obeyed and ends the loop; `event_del` returns |
| `evdns` | 2 servers, 2 requests (1 with a search domain), limit 2, 1 trouble, the list cleared once | lists and counters sound; no request answered twice; nothing that waits is forgotten; every request answered |
| `tcpclient_rerun` (violation) | 1 cell, 2 actions | actions run again: the vector is never emptied |
| `tcpclient_dangling` (violation) | 1 cell, 1 action | an action for a lost connection uses freed memory |
| `clientnet_reconnect` (violation) | sizes 3, 2 connections | bytes of the old connection are taken for the new one |
| `eventbase_del` (violation) | as `eventbase` | `event_del` returns while the callback runs a second time |
| `evbuffer_assert` (violation) | 3 bytes, marks 0 and 2, careless application | an assertion of `buffer.c` fails |
| `worker_destroy` (violation) | 1 timer, 1 start | a worker destroyed without a join is used by its thread after `~Base` |
| `evdns_parked` (violation) | 2 servers, 1 request with a search domain, limit 1, no troubles | the request for the next domain waits though there is room for it: nothing is in flight, so nothing ends that would send it (`WaitsForRoom`) |

Why the bounds are enough. Two waiters show the difference between signal and
broadcast; four pushes let both vectors be filled, swapped and filled again while
a batch is held. Six ids give three ranges with gaps between them, and a return
that joins two of them. Two lives of a cell and two pointers let a pointer survive
its object and meet the next one at the same address. Two cells with three
connections force a cell to be used again, and two slot indices with three
connections force two sessions into one slot. A header of two bytes can be cut, a
buffer of five holds one longest packet or two short ones, and the longest packet
fills it exactly. Two starts let a worker find what its first life left. Three
calls suffice for an event to be added, activated and deleted, or a timer to be
added and moved, at any point of a loop's turn. With two servers a request can
fail on one and go to the other while a late answer of the first is under way; one
trouble (a socket error or a probe) is enough for each of these to meet every state
that needs no other trouble, and one clearing of the list is allowed besides, so that
it meets requests in flight, requests that wait and a probe under way. What needs two
troubles (two errors in one call, a probe that meets an error) is out of the run's
reach. A limit of two with two requests makes requests wait for a probe, after a
clearing of the list and on the way to their next search domain; at a limit of one
`EveryRequestAnswered` fails in the state that `evdns_parked` reaches. With three bytes a buffer
has empty chains before, between and behind those with data; that marks other than
two behave alike is what `ReadingAlwaysResumes` proves.

Deadlock checking is off where the system may stop: clients, workers and resolvers
may have nothing to do, and the numbers of calls are bounded.

Fairness. A thread that was released gets the mutex and a deadline passes
(`EventFair`). A producer finishes its push, the consumer's loop goes on because
`TcpClient` and `Worker::Tcp` call `onRunCheck` from a 50 ms timer, and a mutex that
keeps being released is granted to the consumer some time (strong fairness, as a
producer may take it again and again; `QueueFair`). The event loop is served, and a
socket that was shut down gets its end-of-file event (`TcpFair`). In
`ClientNet` the bytes on the wire arrive; who calls `runRecvMsg` is not in the
repository, so its liveness property assumes the calls in its own premise. In
`Worker` timers fire and callbacks return. In `EventBase` the loop's thread runs and
callbacks return, and a thread woken in `event_del` gets the lock in the end (strong
fairness, as the loop takes it all the time); no data has to arrive. In `Evdns`
timers that are set expire, a blocked socket takes packets again and scheduled
callbacks run; no server has to answer and every packet may be lost. The formulas
there are consequences of weak fairness of the three actions, written without
`ENABLED` to keep TLC fast. Nothing ever makes a caller begin a call.

## 4. Proofs

TLAPS proves the following for every value of the constants, from the named
assumptions of the modules, which say little more than that numbers are numbers
(`AutoResetAssumption`, `MaxSetsAssumption`, `QueueAssumption`, `ClientAssumption`,
`ResourceAssumption`, `MaxIdAssumption`, `TimerAssumption`, `NetAssumption`,
`WorkerAssumption`, `EvbufferAssumption`, `BuffereventAssumption`,
`EventBaseAssumption`). Three theorems have a hypothesis of their own, given below:
`IdsUnique` and, for two of them, `Careful`.

* `SystemProofs`, about `Event`: `EventTypesKept`; `NoSleeperWhileSignalled`, for
  any number of waiters; `OneResume`: successful waits, plus one for a raised flag, never exceed
  the calls of `set`; `TrueIsEarned`: a wait that says true was reached by the
  signal. For the last the invariant adds that while the flag is up every thread
  that may still test it counts as signalled (`WaitersSignalled`).
* `MsgQueueProofs`: `TypeCorrect`; `QueueIsExact` with its parts `Conservation`
  (`ExactlyOnceInOrder`), `MutualExclusion` and `Apart`; `StableBatch`; and
  `Refinement` of `Channel`. The invariants are not inductive one by one: that
  messages are conserved needs the spare vector to be empty whenever a swap may
  happen, which needs the vectors to be apart, which needs the consumer's program
  counter to agree with what it has fetched, and every access to be made by the
  holder of the mutex. The inductive invariant is the conjunction of these; each
  step maps to a step of `Channel` or leaves its variables alone.
* `SystemProofs`, about the rest of `System/`. `RangesExact`: `FreeRangesExact` is inductive once no range is
  empty; the work is in `addFree`, which joins a returned id to the range before it,
  the one after it, both or neither. `TimersFireAsAsked` and `TimersFireInOrder`:
  the front of the heap is due first, nothing in the heap is due before the last
  timer that fired, and a pass does not look past the clock, so nothing a callback
  adds can get in front of the timer that fires. `PointersAreSafe`: that a pointer
  is safe needs the observers to be known, and the other way round; besides, no
  pointer was given an object of a generation yet to come, or a new object would be
  taken for the old one (`TargetsCreated`). The four ways to set a pointer are one
  lemma (`BoundInv`).
* `TcpClientProofs`: `TypeCorrect`; `SessionsApart` (`NoCrossTalk`), whose invariant
  adds that slots are addresses and that pointers in the two vectors are null or
  point to an action, and which does not need session ids to be unique: the check
  of the id at the time of use suffices, even after the ids wrapped; `NoOutputLost`
  (`PendCloseDrainsFirst`); and `SocketsAreSound`, under the hypothesis `IdsUnique`
  that `connect` repeats no id. It holds for up to `IndexSpace` connections (lemma
  `UniqueIdsUpToIndexSpace`; the code's value is 2^20), as ids with different slot
  indices differ. The invariant (`HandlerInv`) says that a handler of its own belongs
  to one live socket and that a deleted socket's handler has destroyed itself;
  with a repeated id, setting the handler of one socket would reach another.
* `ClientProofs`: `NoOrphanEvent` and `RepeatedTimersStay`. The strengthening says
  that a timer that waits for its first shot is armed as long as timers can fire, and
  that the map is empty outside `Base::loop`. The latter depends on `join()`: without
  an active `ThreadImpl` no thread is in `run()` (`Waited`), or a second start would
  find the timers of the first. `JoinedBeforeDestroyed` (`SafeOnceJoined`) is about an
  owner that destroys the worker at any time. Its invariant (`DestroyInv`) says that
  data is freed in use only by `~Base` of a worker whose thread is active and in
  `Base::loop`, that the thread stays there until it uses the data, and that having
  used it it never ends, so that the wait of `~SimpleBase` does not return.
  `WorkerTypesKept` follows from the same invariant, and
  `ClientTypesKept` (`ClientTypeOK`) from it and the invariants of `ClientNet` and
  `MsgQueue`: the part that `part` picks moves and keeps its own, the others stay as
  they were at the start.
* `ClientNetProofs`: `BufferNeverOverflows` (`NetTypeOK`) and `StreamIsCutExactly`
  (`FramingExact`), for any packets and buffer size. The invariant relates three
  places: what is in the buffer followed by what is on the wire is, byte for byte,
  the packets sent and not cut out yet (`StreamWhole`). It is stated without
  recursion: for each position, which packet and which byte of it is there. Two
  lemmas carry it, one for a packet that is sent (`PacketAppended`) and one for a
  packet that is cut out at the front (`PacketCut`).
* `BuffereventProofs`: `ReadingAlwaysResumes`, for any watermarks, chain sizes and
  sequence of operations. Both parts of `ReadingResumes` are needed together; what
  makes them inductive is a fact about every evbuffer operation: none shortens the
  buffer without reporting it to the callback (`Reported`), although `evbuffer_prepend`
  reports too few bytes. The contents of the chains do not matter, and the proof
  does not look at them. `BuffersAlwaysSound` (`BuffersSound`) and
  `OutputAlwaysScheduled` (`OutputScheduled`) do look at them. Their hypothesis is
  `Careful`; without it the run `evbuffer_assert` refutes the first. The inductive
  invariant `SoundInv` says of each buffer that it holds the bytes it should
  (`Holds`: the chains joined are the reference sequence, `total_len` is its length,
  no assertion failed), that nothing is left to report (`Idle`), and what shape its
  chains have; besides the types of the control state (`ControlOK`) and
  `OutputScheduled` itself. The shapes differ. On the input (`InShape`) the chains
  with data come first, all memory is libevent's own, an empty chain has no gap, and
  `last_with_datap` is exact. On the output (`OutShape`) `last_with_datap` may be one
  chain behind, as `evbuffer_add` writes into the last chain without moving it and
  `evbuffer_chain_insert` does not move it when it replaces an empty chain, but
  then the chain it misses is the last one. That is what `evbuffer_chain_insert`
  needs in order to free empty chains only, and what moving the input's chains to
  the output keeps true.
* `EvbufferProofs`: for each operation of `Evbuffer`, a lemma that relates the bytes,
  the shape and the counters before and after it: chains of any number and size,
  inserting, adding, prepending, draining, moving whole buffers and parts of them,
  pulling up, reserving and committing, expanding for a read in several vectors and
  filling these.
* `EventBaseProofs`: `BaseStaysSound` (`EbSound`), `LoopWakesInTime`,
  `OnlyWantedEventsRun` and `PrioritiesAreObeyed`, for any events, priorities,
  threads and calls. The functions of the base have one contract (`Effect`): a
  function called with `EVBASE_NEED_NOTIFY` either leaves a byte in the pipe or gives
  a sleeping loop nothing earlier to do. `WakesInTime` is inductive with it only if
  `is_notify_pending` is never set without a byte in the pipe while the loop sleeps;
  it is so only in the middle of the base's own callback (`PendingInv`). That
  priorities are obeyed depends on `event_continue`: while a queue is run nothing
  waits in an earlier one unless the flag is set, and then a user's event has run,
  so that the pass ends (`PriorityInv`); were the flag set after the base's own event
  alone, the scan would go on to the next queue. `BreakInv` says at which points of
  the loop a break is still to be counted, `WantedInv` that all queues hold only
  events that are wanted.

Induction over data. The induction theorems of the library take an operator and
cannot be used by the provers here. Where induction is needed it is done over sets
of numbers: every non-empty set of numbers has a minimum (`LeastNumber`, from
`WFMin`), so a set that has the first number of an interval and with each number the
next has them all (`IntervalInduction`), and a recursive function on an interval
exists and satisfies its equation. `EvbufferProofs` builds on it the sums and joins
over chains (`Adds`, `SumsGrow`, `SumsUnique`, `Cat`) that `Flat`, `Bytes`, `Avail` and
the vectors of a read are, and that `evbuffer_chain_new` always finds a block that
is large enough (`BufferLen`). Elsewhere the minimum alone suffices: the first
range, the earliest timeout.

Only model-checked:
* liveness: TLAPS has no reasoning about `ENABLED` in reach;
* `Evdns` (`ListsSound`, `AnsweredOnce`, `NothingForgotten`): its operators are folds over lists with an operator as parameter and a
  `RECURSIVE` one (`Pump`), which takes the SMT backend away.

## 5. What was found

Each finding is a violation run with its quotation in `PROJECT.json`:
`Network::TcpClient` never gives back the vector of actions it ran and keeps
addresses of deleted sockets; `ClientNet::connect` keeps the bytes of the connection
before; `event_del` of the bundled libevent waits in an `if` and may return while
the callback runs again; an evbuffer that ends in two empty chains, made by
moving an input to the output, fails an assertion when it is written to; the
destructor of a worker waits for its thread only after `~Base` has taken away what
the thread uses; and with `max-inflight:1` a request that goes on to its next search
domain is left on the waiting list of an idle resolver.

Seen on the way, with no run of their own:

* Client. `TcpClient::close` tests its pointer the wrong way round. A connect that
  is refused at once returns without `bufferevent_free` (`TcpClient.cpp:87`). A
  `stop()` before `loop()` (`TcpClient.cpp:114`) or before `SimpleBase::run` raised
  its flag is lost. `Tcp::stop` is empty and hides `SimpleBase::stop` (`Tcp.cpp:118`).
  `Base::addTimer` tests `wtd` the second time where it means `wtd->ev`
  (`Base.cpp:169`). `ClientNet::sendMsg` ignores what `write()` returns
  (`ClientNet.cpp:110`), and a failed socket leads to a call on a null pointer
  (`ClientNet.cpp:41`). `Processor::addHandler` registers a handler only if its opcode
  is larger than the table; `InitHandler::onRead` returns true without consuming,
  which keeps `_onClientRead` in its loop; `IN_MAX_MESSAGE_SIZE` in `ClientSocket.h` is
  `50*1024` without parentheses and is used after `%`.
* `System/`. `Event::tryWait` may say false although the event was set in time, when
  a `reset` overtakes the woken thread. `UniqueID::addFree` and the destructor of
  `Resource` do not take the mutex their other methods take. `Timer::process` reads
  `front()` of an empty vector after the last timer, and an interval of 0 keeps it in
  its loop for ever.
* libevent. `event_add` with a null timeout leaves an old timeout in place, where
  `event2/event.h:928` says it is cleared. With requests waiting,
  `evdns_base_clear_nameservers_and_suspend` and a pump with no server left
  (`evdns.c:744`) use a null server, and a probe's callback that is scheduled keeps a
  server that was freed (`evdns.c:2253`). The model has all three as `crashed`, and
  `ServersExist` says that there is no other way to get there: no server is used that
  is gone while there is one, but for that callback. The limit of requests in flight
  is not kept: `search_try_next` decides that its next request may go out
  (`evdns.c:3212`) before `request_finished` lets waiting requests through, and
  `request_submit` does not test again. With a limit of two, let two requests be in
  flight when the list is cleared; a server is added, a third request is made and is
  told that there is no such name: then three are in flight.

## 6. What is not modelled, and the plan

Not modelled: generated code (the Lua bindings alone are 57,000 lines) and the
cocos2d-x extensions; of libevent the HTTP, RPC and TLS layers, rate limits,
filters, signals, listeners, the other kernel backends and the Windows port, none of
which the client uses, and of the modelled parts what `PROJECT.json` says of each
component; system-call wrappers; the Win32 implementations; wide arithmetic
(SHA1, TinyMT); text formatting and parsing; scenes. `ClientSocket.cpp` does not
compile, `TcpNetwork/TcpClient.cpp` is commented out, and nothing calls
`Processor::parseInit`, so there is no behaviour to check. `Thread::Terminate` has no
caller, and the logger and the random generator of a worker have no bearing on the
properties. Allocation failures are modelled where the code tests for them and the
model has the object.

What would come next:
1. Timeouts and the deferred callbacks of bufferevents on top of `EventBase`.
2. `Evdns` with its recursion written as functions, and proofs about its lists with
   the induction of `EvbufferProofs`.
3. Algorithms against reference definitions: `Serialize`, `Ssu` integers,
   `CsvParser`, `StringTokenizer`.
