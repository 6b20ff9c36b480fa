# ares-common in TLA+

ares-common is a C++17 library of building blocks: work queues with their
tasks, bounded queues, semaphores and locks, a POSIX serial port, a logger,
date conversions, allocators and a few utilities.  This directory holds
TLA+ modules that model the parts of it where correctness depends on the order
of steps, the TLC configurations that check them, and proofs, checked by TLAPS,
of what matters most for every number of queues, works and threads.

Everything is translated from the sources under `src/`; `PROJECT.json` gives
the lines each definition stands for.

```
tlc -workers 2 -config MCWorkQ_core.cfg MCWorkQ     # one run
tlapm WorkQProofs.tla                               # the proofs of one module
```

## 1. The system

| Component | State | Operations | Used by |
|---|---|---|---|
| **Work queues** `work-q/work_q.{hpp,cpp}`: `WorkQ`, `Work` | per queue: pending list, flag word, one-token `notifyq` and `drainq`, a `Task`; per work: flag word, handler, queue pointer; one global spinlock and one global list of cancellers | `submit`, `start`, `run`, `queue_drain`, `queue_unplug`, `stop`, `~WorkQ`; `work_submit_to_queue`, `work_cancel`, `work_cancel_sync`, `work_flush`, `set_new_work_handler`; the loop `work_queue_main` | applications; handlers call it from the queue's own thread |
| **Task** `work-q/task.hpp` | state READY/RUNNING/JOINED, thread, future, name, essential | `start`, `run`, `join`, `join(timeout)`, `get`, `set_name`, `set_essential` | a `WorkQ` is a `Task` |
| **Queues** `data-structures/queue.hpp`: `bounded_queue`, `queue` | ring buffer or deque, size, two condition variables | `put`, `get`, each blocking, timed or non-blocking; `clear`, `size`, `empty`, `full` | `WorkQ` (notifyq, drainq), `semaphore` |
| **Semaphore** `synchronization/semaphore.hpp` | a bounded queue of bytes | `lock`/`take`, timed, `try_lock`, `unlock`/`give`, `get_count` | flushers and cancellers of `Work` |
| **Spinlock, shared flag** `synchronization/` | one atomic flag; one bool under a shared mutex | `lock`, `try_lock`, `unlock`; `read`, `write` | `WorkQ`, `Task` |
| **Intrusive lists** `data-structures/sys/{slist,list_gen}.h` | head, tail, next pointers | append, prepend, insert, remove, get, find-and-remove | `WorkQ`, cancellers |
| **Serial port** `serial/core/serial_{base,posix}.*` | attributes, descriptor, is-open flag, two timeouts | constructor, `open`, `close`, setters, `rts`, `dtr`, `read`, `read_all`, `read_until`, `write`, `flush`, resets | applications |
| **Termios layer** `serial/core/C-API/serial_posix.c` | the settings, lock and lines of a terminal | `configure_port` and its parts, `read_port`, `write_port`, selects | serial port |
| **Port discovery** `serial/tools/` | a list of devices, one object per device | `comports` | applications |
| **Logger** `logging/{logger.cpp,logger.hpp,log.hpp}` | a map of loggers; per logger a level and callbacks; per module a saved level | `find_logger`, `set_log_level`, `get_log_level`, `log`, `log_hexdump`, `register_logging_callbacks`, the macros that save and restore | every component, applications |
| **DateTime** `datetime/datetime.cpp` | the fields of a date | conversions between a date and an instant | applications |
| **Allocators** `allocators/` | none | aligned and page-sized allocation | applications |
| **Mount points** `mntpoint/` | none | the device a path is on | applications |
| **Utilities** `common/ares/` | none | bit fields, flags, buffers, Python arguments, macros | applications |

How they interact.  Applications submit `Work` objects to a `WorkQ`.  The
queue's thread takes the nodes of the pending list in order, runs each handler
without the lock, then settles the flags, flushers and cancellers of the node.
`work_flush` and `work_cancel_sync` build a small object with a semaphore on
the caller's stack and link it, the first in the pending list, the second in
the global list of cancellers; the queue's thread gives the semaphore.
`queue_drain` sets a flag and waits for a token on `drainq`; `stop` sets a flag
and joins the thread; the destructor does both.  Whatever the thread has to
notice is announced by one token on `notifyq`, a queue of capacity one that
overwrites.

What is hard.  Flags, list links and pointers of one work are changed by
several threads and by the handler itself; a work may be running and queued at
once; a flusher is placed relative to an instance that may be queued, running
or both; tokens coalesce; a drain is answered by a token that names nobody;
draining, plugging, stopping and destroying overlap with chained submissions;
a handler may throw, and its queue may be run again; a queue may be animated by
its own thread or by a borrowed one.  In the queues: waiters on condition variables that are notified one at a
time, with time limits.  In the serial port: failures half-way through an open
or a reconfiguration, locks that belong to a process, descriptor numbers that
are used again, signals and deadlines in the middle of a read or a write.  In the
smaller components: joins and starts that meet on one state word, stale links in
list nodes, callbacks that come between a save and a restore, devices that come
and go during a scan, and arithmetic at the edge of a type.  `PROJECT.json` lists
each of these hazards at its line, with the properties that cover it or why none
does.

What makes each component correct.

* Work queues: a work is linked exactly while its flag says so, runs on one
  thread at a time, with one handler, on the queue it points at; flush, drain,
  cancel and stop come back, and only when what they wait for is over; plugged
  queues stay empty; nothing is processed after a stop; nothing points at a
  destroyed queue.
* Queues and semaphores: first in first out within the capacity, nobody sleeps
  while there is something for him, a count that is the number of units free.
* Task: its state says what it does, so that no two runs overlap and a result that
  is asked for is there.
* Lists: head, tail and links describe one sequence, whatever links nodes bring.
* Serial port: an open object owns its descriptor, has the exclusive access it was
  told it has, and its terminal does what its attributes say; no byte is lost,
  repeated or moved, and a call that returns did what it says.
* Port discovery: every port that stays is listed once, with all its fields.
* Logger: logger and callbacks have one level, and a restore gives it back.
* DateTime, bit fields, buffers, arguments: what was put in is read back.

## 2. The modules

| Component | Modules (abstract ones in italics) | TLC instances | Proofs |
|---|---|---|---|
| Work queues | `WorkQ`, *`WorkService`* | `MCWorkQ` | `ListLemmas`, `WorkQProofs`, `WorkQCallProofs`, `WorkQServiceProofs` |
| Bounded queue | `BoundedQueue`, *`BoundedBuffer`* | `MCBoundedQueue` | `BoundedQueueProofs` |
| Semaphore | `Semaphore` (instantiates `BoundedQueue`), *`CountingSemaphore`* | `MCSemaphore` | `SemaphoreProofs` |
| Serial port | `SerialPort` (extends `Termios`), `SerialIO` | `MCLibrary`, `MCSerial` | `SerialPortProofs` |
| Termios layer | `Termios`, `Terminal` | `MCLibrary` | `SerialPortProofs` |
| Task | `Task` | `MCLibrary` | `LibraryProofs` |
| Unbounded queue | `UnboundedQueue` | `MCLibrary` | `LibraryProofs` |
| Intrusive lists | `SList` | `MCLibrary` | `LibraryProofs` |
| Logger | `Logger` | `MCLibrary` | `LibraryProofs` |
| Port discovery | `Discovery` | `MCLibrary` | `LibraryProofs` |
| Bit fields, sizes, dates, arguments, mounts | `Values` | `MCLibrary` | `LibraryProofs` |

They were written in this order, work queues first, because their correctness
is the hardest to test.  What could follow: the hand-over of a flusher's
semaphore instruction by instruction, with the life of the flusher on its caller's
stack.

## 3. What is modelled

### `WorkQ`

One action per operation and per critical section of the global spinlock
(`work_q.cpp:21`).  Once a queue is started its fields are touched only under
that lock, so a critical section is atomic; the three things a thread waits for
outside the lock are steps of their own.

| Code | Model |
|---|---|
| `Work::flags`, `Work::queue`, `Work::handler` | `wflags`, `wqueue`, `handler` |
| `WorkQ::pending`, `flags`, `notifyq`, `drainq` | `pending` (a sequence of nodes), `qflags`, `notifyq`, `drainq` (is the token there?) |
| the global `pending_cancels` | `cancels` |
| locals of `work_queue_main` | `worker` (where the thread is), `cur`, `running` |
| `WorkFlusher`, `WorkCanceller` on a caller's stack | the client itself: its flags, its place in a list, `sem` |
| the blocking call a thread is in | `call`, `on` |
| `WorkQ::_thread`, lifetime | `joinable`, `life` |
| `submit`, `submit_locked` | `Submit`, `Resubmit`, `SubmitLocked`, `Accepts`, `Target`, `Submittable` |
| `work_cancel`, `work_cancel_sync` | `Cancel`, `CancelSync` then `CancelReturn` |
| `work_flush`, `flusher_locked` | `Flush` then `FlushReturn` |
| `set_new_work_handler` | `SetHandler` |
| `start`, `run` | `Start`; `Run` then `RunReturn` |
| `queue_drain`, `queue_unplug` | `Drain` then `DrainReturn`; `Unplug` |
| `stop`, `stop(timeout)` | `Stop` then `StopReturn` or `StopForReturn` |
| `~WorkQ` | `Destroy`, `DestroyDrained`, `DestroyReturn` |
| `work_queue_main` | `Take`, `Finish`, `AnswerDrain`, `Quit`, `Sleep`, `Wake`, and `Throw` |

Threads are application threads (`Clients`) and the threads of the queues.
Between `Take` and `Finish` a queue's thread is in a handler, where it may make
the calls that do not block: submit, resubmit, cancel, unplug, replace a
handler.  Blocking calls on the handler's own queue are documented as undefined
(`work_q.hpp:129`) and are not made.  Two history variables, `waits` and
`drained`, record what a waiting caller waits for; no guard reads them.

Restarting is modelled because the code allows it: `Task::_init_task` throws
only while the task is RUNNING (`task.hpp:336`), so a queue that was stopped and
joined, or whose `run` came back, can be started or run again, although
`work_q.hpp:307-308` advises against a second `start`.  That holds for a queue whose
handler threw as well: `run` swallows the exception into the future and leaves JOINED
behind (`task.hpp:276-278`).  `Launch` then does what the code does: the
list, the tokens and the queue's flags are made new, the thread starts without a
work, and the flags of the works are not looked at.  A work that was in the list keeps
QUEUED and is in no list (`Stranded`): it is refused by every submission until
somebody cancels it, and a flusher that is linked behind it comes last or nowhere,
according to its old link.  A work whose handler threw keeps RUNNING, so that a
submission sends it to that queue, which runs it again.  `MayLaunch` keeps out only
what has no meaning: a thread that is not over or not joined, and a client that is
in a call on the queue at that moment (neither function takes the lock).  A client that drains
when the handler throws waits for ever, so it is `run`, not `stop` and `start`,
that brings the program here.

`Calls` chooses what the program calls.  `Discipline` chooses the rules it
keeps: with a rule the program avoids a situation that the code does not
handle, and each rule is dropped by one of the runs below, or is discussed
under hazards.

* `one_drainer`: one `queue_drain` at a time on a queue (dropped: `two_drainers`);
* `one_canceller`: one `work_cancel_sync` at a time on a work (dropped: `two_cancellers`);
* `stop_after_drain`: no `stop` while a drain is under way (dropped: `core`,
  `stop_in_drain`);
* `no_drain_after_stop`: no drain of a queue that was told to stop: its thread
  may be gone before it looks (dropped: `core`);
* `stay_plugged`: a queue being stopped or destroyed is not unplugged; after an
  unplug the destructor's `stop` refuses and its join has nothing to wait for
  (dropped: `core`);
* `no_relaunch`: no `start` or `run` of a queue after a handler threw on it (dropped:
  `relaunch`).

`stop` of a queue that `run` animates has no thread to join and returns
`-EALREADY` at once, while the borrowed thread may still be processing works; the
model does the same, and properties about the end of a stop are stated on the
thread of the queue (`GoneIsQuiet`).

The bit that `work_queue_main` clears at the end of a handler is written
`WORK_CANCELING_BIT` (`work_q.cpp:518`) on the queue's flags, where bit of that
number is `WORK_QUEUE_BUSY_BIT`; `IdleFlags` models what it does.

### `WorkService`

What the queues promise to somebody who sees neither locks nor tokens: each
queue has a line and executes its head; a work stands in one line at most; one
queue at most executes it, and it may stand again only in that queue's line;
nothing is accepted for it while its cancellation is under way.  `WorkQ` refines
it (`ImplementsService`) under the mapping: line = the works of the pending
list, executing = the node whose handler runs when it is a work, condemned = the
works with CANCELING.

### `BoundedQueue` and `BoundedBuffer`

One thread at a time holds the mutex of a `bounded_queue`, from the moment it
enters a call or wakes up inside one until it waits again or leaves; each such
stretch is an action.

| Code (`data-structures/queue.hpp`) | Model |
|---|---|
| `_buffer`, `_producer_index`, `_consumer_index`, `_size` | `buffer`, `producer`, `consumer`, `size`, with the code's indices |
| template arguments | `Items`, `MaxSize`, `Overwrite` |
| a thread inside `put` or `get` that waits | `call`, and `item` for what it puts |
| the two condition variables | `asleep`: those in a put sleep on `_space_available`, those in a get on `_not_empty` |
| the deadline of `wait_for` | `late` |
| `put`, timed `put`, `put_nonblocking` | `PutBegin`, then `PutResume` each time the thread has the mutex again |
| `get`, timed `get`, `get_nonblocking` | `GetBegin`, `GetResume` |
| `clear` | `Clear` |
| `notify_one` | `NotifyOne`: any one sleeper, or nobody |
| the end of a time limit, a spurious wakeup | `Expire`, `Stir` |

A non-blocking call of this class is a timed one whose time is zero: it, too,
calls `wait_for` and lets go of the mutex, so that others get in between; it is
the behaviour of a timed call whose `Expire` comes first.  A queue that
overwrites does so only at the end of a timed put.  The callbacks that the calls
take, which run under the mutex, are left out: one that does not touch the queue
changes nothing here.  `clear` announces nothing to those who wait for space, so
that a put may sleep on beside an empty queue (`queue.hpp:505`): the call
`clear_unwatched` is that of a program that clears only when nobody waits.

`BoundedBuffer` is what a caller sees: a sequence of at most `Capacity` items,
first in, first out, whose oldest item may be dropped by a put if the queue
overwrites.  `BoundedQueue` refines it (`ImplementsBuffer`), the sequence being
`Contents`, the stretch of the ring that starts at `consumer`.  The tokens
`notifyq` and `drainq` of `WorkQ` are this buffer with capacity one,
overwriting: a put sets the token, a get takes it.

### `Semaphore` and `CountingSemaphore`

`semaphore<count>` is a `bounded_queue` of `count` bytes, and the module is
`BoundedQueue` instantiated that way: `Lock` and `LockResume` are its get with or
without a time limit, `Unlock` and `UnlockResume` its non-blocking put, `Init`
what the constructor has put.  How the program uses it is chosen at the start: as a
lock, where a thread gives only what it took, or as a signal, where anybody gives,
as the thread of a `WorkQ` does.  `held` and `made` are history variables.
`CountingSemaphore` is a number between 0 and its maximum.

### `Termios`, `Terminal`, `SerialPort` and `SerialIO`

`Termios` holds `configure_port` and its parts as functions on the settings of a
terminal: the speed, the size, VMIN, VTIME and the set of flags that are on.
`Configured` gives the set of settings the call may write: none when it returns
`-EINVAL`; a `timeout * 10` that overflows, which is undefined, is wrapped around.
The domains reach past the enumerators, to values that have no case in a switch.
Those that the header names `..._INVALID` are not among them: three of the
four follow an alias `..._DEFAULT` and so have the value of a good
enumerator (`BAUD_INVALID`, `PARITY_INVALID`, `SIZE_INVALID`, `STOPBITS_INVALID`).
`Terminal` is one terminal on which it is called again and again.

`SerialPort` is the life of `SerialPosix` objects in several processes, each with
a table of descriptors, on shared terminals.

| Code | Model |
|---|---|
| the attributes of `SerialBase`; `is_open_`, `_fd` | `attr`; `isOpen`, `fd` |
| the process's descriptors, the terminal's settings, lines and record lock | `files`, `tty`, `lines`, `locks` |
| constructor, `open`, `close`, destructor | `Construct`, `Open`, `Close`, `Destroy` |
| `_reconfigure_port_internal`, `configure_port` | `ConfigurePort`: the lock, then the settings, failing before or after the lock |
| the setters | `Set` (any attribute that is applied), `SetDsrdtr`, `SetLine` (RTS, DTR) |

`open` fails at the descriptor, at the configuration, or after it; in the last
two cases `close` in its catch block does nothing, because `is_open_` is not
set yet (`serial_posix.cpp:51`), and the descriptor stays in `files` for ever.
`_fd` keeps its number after a close, and the lowest free number is used again.
`synced` and `setter` are history variables.  The rule `OneOpener`, that a process
opens a port through one object at a time, is dropped by the run `exclusive_lost`.

`SerialIO` is what happens to bytes on one port, with a thread that reads and one
that writes.  Each pass of the loops of `read`, `read_until` and `write` is a step, or
two where the code waits between taking bytes and erasing them; select may end
by data, time, a signal or an error.  Bytes are numbered, so that one lost,
repeated or moved shows.  A timeout is infinite, zero or anything else; `late` and
`due` are the ends of that of a `read` and of that of `read_until` around it.  The
read and write sides share nothing but whether the port is open (`ready`) and VMIN,
which they leave alone.

### `Task`, `UnboundedQueue`, `SList`

`Task`: each section under `_state_lock` is a step; between two of them lie the
creation of the thread (which may fail, and then leaves RUNNING for ever), the
handler (which may throw, and aborts if the task is essential) and the wait of a
join.  `UnboundedQueue` is `queue<Type>`, with the same reading of the mutex and
the condition variable as `BoundedQueue`.  `SList` has the memory of all lists and
nodes in one record; each function of `list_gen.h` maps memory to memory, and
`contents` is what the calls made of each list.  A node that leaves by
`sys_slist_get` keeps its next pointer, and comes back with it.  `cursor` is a
safe iteration: the node, the one after it, read before the body runs, and, for the
properties, what it saw and what there was to see.

### `Logger`, `Discovery`, `Values`

`Logger`: modules that share loggers by name, levels, and callbacks that may set
and tell the level of a system outside.  A macro that makes two calls is two
steps.  The rule `Alone`: from a save of the level to the end of its block no
other user of the logger saves or sets it.  `Discovery` is `comports` step by
step, each look at `/dev` or `/sys` by itself, while devices come and go: one
`glob` after the other for the families that were asked for, in the order of the
code, then the devices one by one.
`Values` has the functions that only map values to values: bit fields and
flags, buffers, hex dumps, sizes of allocations, conversions of dates, keyword
arguments and the search through mounted file systems; where the code leads to
undefined behaviour (a shift by the width of a type) the operator gives the set of
the results a build may have.  A program makes one call after the other: `given`
is the last one, a record whose `kind` says which function it is about, and
`Calls` are those the program may make.  `IsCall` says which calls are legal, for bit
fields what the asserts of `serialization.hpp` let pass, and `CallsAreLegal` assumes
no more of `Calls`.

## 4. What is checked

The configurations of `WorkQ` are `MCWorkQ_<run>.cfg`, the others
`MCBoundedQueue.cfg`, `MCSemaphore.cfg`, `MCLibrary.cfg`,
`MCSerial_exclusive_lost.cfg` and `MCLibrary_usb_serial.cfg`.  The runs of
`WorkQ`, `MCSerial` and `MCLibrary` have `CHECK_DEADLOCK FALSE`: clients may stop
calling, a queue may be destroyed, a task may abort, and one function is called
once: a call says nothing about the next.  Symmetry is used in runs without fairness only.

| Run | Instance | Shows |
|---|---|---|
| `core` | 1 queue, started or run by a borrowed thread, 2 works, 3 clients, every call but throwing; only `one_drainer` and `one_canceller` matter | `TypeOK`; `FlagsAgree` (flags, lists and threads agree); `WaitersAreServed` (waiting callers are neither forgotten nor released early); `NobodyIsForgotten` (a thread that sleeps without a token has nothing to do, and who drains has a token or a flag); `PluggedIsEmpty`, `GoneIsQuiet`, `DestroyedIsUnused` (what is left behind a plug, a stop and a destructor, even with drains, stops and unplugs in any order); `DrainSawEmpty` (what the return of a drain means) |
| `two` | 2 queues, 2 works, 2 clients, 2 handlers that may throw | `OneHandlerRuns`, `WaitersAreServed` (again: the list of cancellers is shared by the queues), `ImplementsService` |
| `relaunch` | 2 queues, 2 works, 2 clients, 2 handlers that may throw; queues are started and run again afterwards | `ThrownIsBound`: a work whose handler threw keeps its flag, its handler and its queue, and no other queue takes it up, whatever is submitted, cancelled, flushed or run again |
| `live` | 1 queue, 2 works, 2 clients, every call but throwing, all rules kept, fair | `StopIsHeard` (no thread sleeps over a stop); `FlushReturns`, `CancelReturns`, `QueuedIsServed`, although handlers submit for ever; `DrainReturns`, `StopReturns`, `DestroyReturns`, once they have settled |
| `queue` | a ring of 2 slots that overwrites, 2 items, 3 threads, every call but an unguarded `clear`, fair | `RingOK`, `ImplementsBuffer`; `ItemsAreOffered`, `SpaceIsOffered` (nobody sleeps beside what he waits for); `TimedReturns` |
| `semaphore` | at most 2 units, made with 0, 1 or 3, as a lock or as a signal, 4 threads, fair | `UnitsConserved` (of which `MutualExclusion`, for one unit, is a case), `ImplementsCounting`, `SomebodyGetsIn` |
| `library` | ports: 3 objects in 2 processes, 1 terminal, 2 descriptors a process, an object without a port only where it is alone; 3 bytes in; 4 bytes out through an output queue of 2; a terminal and 37 configurations.  A task, 3 users, 4 runs; an unbounded queue, 3 threads, 4 items; 2 lists, 4 nodes; 2 modules of 1 logger; 3 names and 5 devices with 2 changes; a call of one of the functions of `Values`, with any small arguments | `HandlesAreOwned`, `ExclusiveIsHeld`, `SettingsFollow`, `BytesInOrder`, `CallsDeliver`, `SettingsApplied`; `StateIsTrue`, `GettersAreServed`, `ListsAgree`, `LevelsAgree`, `RestoreGivesBack`, `ScanIsTrue`, `ReadBack` |

`library` holds several subjects that share nothing: the run chooses one at the start
and stays with it, so that the states add up and do not multiply.  `MCSerial` has those
about ports; `MCLibrary` adds the others.

Why the bounds are enough to be interesting.  Two works give lists where
something stands before and behind; three clients allow a flusher, a canceller
and a third thread that drains or stops at once, and two flushers of one
instance; two queues are what a work can be disputed by.  A ring of two slots wraps
around; three threads let two sleep on one condition variable while the third
puts or gets twice, which is what a wakeup that is missing or spent on the wrong
thread needs.  Three objects in two processes are two that share a table of
descriptors and one that competes for the lock; two descriptors are enough for one
to leak and for a number to be used again.  Three bytes in contain the ending that
`read_until` looks for, with bytes before and behind it; four bytes out through
room for two need several passes.  Four runs of a task allow a second start after each way
a first one ends.  Four nodes in two lists give a list with an inner node
besides one that a node came from.  Two changes are a device that goes and another that
takes its name.  The domains of the functions reach past every edge of the
small widths that `Values` and `Termios` are given: bits 0 to the width, times on
both sides of 255 tenths and of the overflow, block sizes past the largest,
instants on both sides of the epoch and of a change of the zone.

Each violation run states what the documentation says, and drops the rule that
hides it, where there is one.

| Run | Property | What happens |
|---|---|---|
| `two_cancellers` | `CancelReturns` | two `work_cancel_sync` of one running work: `finalize_cancel_locked` releases the first canceller and breaks, the second waits for ever (`work_q.cpp:544`; `work_q.hpp:155` allows the call) |
| `two_drainers` | `DrainSawEmpty` | a second `queue_drain` takes the token that answered the first and comes back although works are pending (`work_q.cpp:487`, `work_q.hpp:339`) |
| `stop_in_drain` | `StopReturns` | stop's token and the drain's become one; the thread answers the drain, sleeps with STOP set, and the join never ends (`work_q.cpp:374`, `work_q.hpp:375`) |
| `exclusive_lost` | `ExclusiveIsHeld` | exclusive access is a record lock of the process: another object of it that configures or closes the same port takes it away, and `exclusive()` still says true (`serial_posix.cpp:86`, `serial_posix.c:209-216`, `serial_base.hpp:237`) |
| `usb_serial` | `UsbSerialIsFound` | for a port on the usb-serial bus the scan looks for `idVendor` in `/sys/class/tty` and `std::stoull("")` throws out of `comports` (`sys_fs_linux.cpp:40,72,81`, `sys_fs_linux.hpp:25`) |

Three more disagreements have no run of their own; the invariant named for each fails when
the configuration of the run named with it lists that invariant.

* Running a queue again after a handler threw forgets works (`QueuedIsLinked`, a part of
  `FlagsAgree`, in `relaunch`): another work is queued, the list is emptied, the work keeps
  QUEUED, and `submit` says for ever that it "was already submitted to a queue"
  (`work_q.cpp:317`, `work_q.hpp:292`).
* `BAUD_INVALID`, `PARITY_INVALID` and `STOPBITS_INVALID`, which the header calls the last
  enumerators, are accepted and applied as `BAUD_230400`, `PARITY_EVEN` and
  `STOPBITS_1P5` (`InvalidIsRefused`, in `library`; `serial_common.h:54,67,90`).
* A call that succeeds may leave the terminal with another parity than it was given: even
  or odd parity after mark or space is space or mark, because CMSPAR is never
  cleared (`ParityApplied`, in `library`; `serial_posix.c:141`, `serial_posix.c:258-260`).

Exceptions that properties make, each by name: `SettingsApplied` and
`SettingsFollow` leave out even and odd parity after mark or space parity
(`Stuck`: CMSPAR is never cleared, `serial_posix.c:141`, see `ParityApplied`)
and times whose tenths do
not fit an `int32_t`; `ScanIsTrue` leaves out ports without a link and, like the
code, those of the usb-serial bus; `ReadBack` leaves out shifts by the width of a
type, local times that stand for two instants, and the name of a device whose
directory was mounted over (`mntpoint.cpp:58`), for which it asks an entry of the
same file system; `RestoreGivesBack` leaves out a system behind callbacks that
tells its level and is never told one.

Fairness.  `FairSpec` of `WorkQ` assumes weak fairness of each queue's thread (it runs on
its own; handlers end; the spinlock is passed on) and of the return of a
blocking call whose condition holds.  Nobody is assumed to make a call, and a
thrown exception is not assumed to happen.  `HandlersSettle`, an antecedent of
three properties, is a property of the program: a handler that resubmits its work
for ever keeps a drain waiting, as documented.  `FairSpec` of `BoundedQueue`
assumes that a thread that is awake gets the mutex and that time passes; that of
`Semaphore`, that a thread that is awake goes on and that whoever holds a lock
gives it back (a lock only: nobody has to give a signal).  The other modules make
no claim about progress.

## 5. What is proved

### Work queues

For every value of the constants that satisfies the
assumptions of `WorkQ` (the sets of works, clients and queues are disjoint,
`None` and `NoQueue` are outside them, there is a handler).  `TypeCorrect` and
`ThrownIsBoundCorrect` need no rule of `Discipline`.  The others assume `no_relaunch`, and four
of them one rule, or three, more, which is said below.

`WorkQProofs` has `TypeCorrect`; `LinkCorrect`, the inductive
invariant `LinkInv`; and from it `FlagsAgreeCorrect`, `PluggedIsEmptyCorrect`,
`GoneIsQuietCorrect` and `OneHandlerRunsCorrect`.

Why `no_relaunch`.  `LinkInv` ties the flags of works to lists and threads.  A queue whose
thread quit has an empty list and runs nothing (`LaunchFresh`), so that starting it
again forgets nothing.  One whose thread died may have works in its list, and has the one that
threw: what is left of them after a relaunch is a QUEUED flag without a link
(see section 4), a RUNNING flag without a thread and, once the thread quits,
flags that point at a queue that is gone.  `LinkInv` contains the rule, which is
constant, so that every step lemma has it.

The argument.  None of these properties is inductive alone.  That a
submission keeps a work linked once needs to know that a work that is not QUEUED
is in no list; that `Take` keeps a work with one thread needs that
the work taken points at this queue and that a running work can be queued only
where it runs; `CancelingIsRunning` forbids the QUEUED flag during a
cancellation, so that `Take` never meets one; `BusyIsRunning` ties `cur` to the
place of the thread; `Blank` says that a queue never started, or whose thread
quit, has no flags and nothing in its list, which a submission needs;
`PluggedIsEmpty` needs that a
plugged queue accepts nothing once its drain is over and that the drain ends
with an empty list and an idle thread.  `LinkInv` is their conjunction, and
TLC checked its parts before the proof.  There is one lemma for each
action that disturbs it (`LinkSubmit`, `LinkCancel`, `LinkFlush`, `LinkTake`,
`LinkFinish`) and one, `LinkQueueStep`, for all the others.  That a running
instance keeps its handler is a step of its own (`HandlerStep`): a handler is
replaced only while the work has no flag, and a work that runs has one.

`WorkQCallProofs` is about the calls that wait.

* `DestroyedIsUnusedCorrect`, throwing handlers included.  The
  invariant `LifeInv` says that a token in `drainq`, or a DRAIN flag, is owed to
  somebody who drains (`TokensAreOwed`), so that no destructor finds a token that
  was left behind; and that the only caller in a queue that is closing is its
  destructor, which waits for a drain that was asked for, or was answered with
  the queue `Quiet`, or joins a quiet one (`Closing`).  That a
  plugged queue accepts nothing after its drain is what keeps it quiet until
  the join is over.
* `DrainSawEmptyCorrect` assumes `one_drainer`: the token that a drain takes was
  put for it only if nobody else drains.  Two drainers share one token and one
  flag, and the run `two_drainers` shows what comes of it.
* `NobodyIsForgottenCorrect` assumes `one_drainer` as well.  Whatever the
  thread has to notice comes with a token: a step that leaves the queue `Untouched`
  links a node in an empty list only if it notifies, and the few that `Touches` lists are
  looked at one by one; and the thread takes a token only on its way to the
  list and the flags; so one that sleeps without a token has seen an empty list and no DRAIN.  That
  who drains is owed a token follows the token: the flag becomes the token, and
  nobody else is there to take it.
* `StopIsHeardCorrect` assumes the three rules about stops.  STOP comes with a token, but
  the thread, when it finds DRAIN and STOP together, answers the drain and sleeps; it
  may do so only between the two halves of a destructor, which asks again after its
  drain.  The invariant, `StopInv`, therefore says what a stop can meet: with
  `stop_after_drain` and `no_drain_after_stop` a DRAIN flag beside STOP belongs to a destructor
  (`StopMeetsDrain`), and with `stay_plugged` the plug that STOP needs stays until the
  thread is over (`ClosingIsPlugged`).  The run `stop_in_drain` shows what happens
  without the rules.
* `ThrownIsBoundCorrect`, any rules, relaunches included, and therefore without `LinkInv`.
  Its invariant, `BoundInv`, is the half of `LinkInv` that a relaunch leaves alone: a work
  stands in no list, and is run by no thread, but those of the queue it points at,
  and only with the flag for it (`Bound`).  `RunningIsKept` says that only the end of its
  handler takes RUNNING from a work and that the flag holds its queue and its handler; a thread
  that takes the work up is then, by `Bound`, that of this queue.
* `WaitersAreServedCorrect` assumes `one_canceller`: of two cancellers of one
  instance only the first is released (`two_cancellers`).  `WaitInv` says of each
  client where its flusher or canceller is while it waits: the flusher linked once,
  with FLUSHING, behind the instance if that is queued and in the list of the queue
  that runs it if it is running, or just being processed after it; the
  canceller linked once, its instance running and marked CANCELING; and a
  semaphore is given only when the instance is over.  An action leaves a client in
  its place (`KeptClient`), moves the instance it waits for along, or releases it.

`WorkQServiceProofs` has `ImplementsServiceCorrect`, the refinement to
`WorkService`.  A line is the list without the flushers, `WorksOf`; the lemmas
say what an append, an insertion, a removal and the end of a drain do to it.  The
steps use `LinkInv`: that a work stands in one line, and that a running work
stands nowhere else, comes from the flags.

`ListLemmas` proves what the operators of `SequencesExt` that the models use
(`InsertAt`, `RemoveAt`, `Cons`, `FlattenSeq`) do to the length and the elements of a
sequence, and how concatenations of pieces can be regrouped.  `SetInduction` is
the induction principle of the proofs: a set of numbers that contains 0, and
with each number below n the next one, contains all up to n.  The
library's principles take an operator as a parameter, which the provers
cannot instantiate; a set they can.  With it the recursive functions of the models
(`Sifted`, behind `WorksOf`, the walk through a list, and the positions at which a
buffer is cut) and the one behind `FlattenSeq` are shown to exist and to be what their
definitions say.

### Queues and semaphores

`BoundedQueueProofs`, for every capacity, every finite set of threads, every set of
items and overwriting or not:

* `TypeCorrect` and `RingCorrect`: the ring invariant, `RingOK`, is inductive with
  the types; the arithmetic modulo the capacity that it needs is in lemmas of its
  own (`Following` never leaves the ring, a sum moves on by one with its last term).
* `RefinesBuffer`: every step is a step of `BoundedBuffer` or leaves the
  contents alone.  `Contents` is a function of the ring, so the lemmas compare it
  position by position before and after an insertion, an overwriting insertion
  and a removal.  The invariant is needed because the slot a put writes is the
  one behind the newest item only while `RingOK` holds, and that two positions
  of the contents never share a slot is what keeps the others unchanged.
* `ItemsAreOfferedCorrect` and `SpaceIsOfferedCorrect`: both offers are inductive
  with the types.  An insertion raises the number of items by one and, if
  somebody sleeps in a get, wakes one; a thread that takes an item was one of those
  awake; a thread that goes to sleep has seen the queue empty.  The proofs count
  the sets with the library's facts about cardinalities.  The second theorem
  assumes that the program does not clear the queue while somebody waits for
  space; it fails without that.

`SemaphoreProofs`:

* `RefinesCounting`, for every maximum and every set of initial
  counts, from what a put and a get do to the size of the queue;
* `MutualExclusionCorrect`, for every maximum and every number of threads, by the
  invariant that the one unit is in the queue or in one thread's hands and that
  nobody therefore waits to give;
* `UnitsConservedCorrect`, for every maximum, every initial count and every finite
  set of threads.  What threads hold is a fold, and the lemmas say what one more or one less
  does to it.  The invariant, `AllUnits`, is the sum; that no unlock is refused
  follows: whoever gives holds a unit, so that the queue holds fewer than the
  constructor put there and has room.

### Serial port

`SerialPortProofs`, for any objects, processes, ports, descriptor tables and attributes:
`HandlesAreOwnedCorrect` and `SettingsFollowCorrect` without any rule, and
`ExclusiveIsHeldCorrect` under `OneOpener`.  The invariant, `Inv`, says that
the descriptor of an open object is in use, names a terminal and belongs to no other open
object of its process; `close` keeps it because it asks `is_open_` first, however
many descriptors `open` has leaked.  Actions are then grouped by what they do
to other objects: a step `Works` on one object, moving at most one terminal, or
`Rests`, changing no terminal's settings and no lock.  `SettingsFollow` follows
from what `Configured` writes (`Agrees`); `ExclusiveIsHeld` needs `Apart`, that open
objects of one process are at different terminals, which is what `OneOpener` gives and what
makes a close take nobody else's lock.

`BytesInOrderCorrect` and `CallsDeliverCorrect` are about `SerialIO`, for any
number of bytes, any lengths, endings and timeouts, and an output queue of any size.
`IOInv` has a half for each direction.  In: what was handed out followed by what
the terminal holds is increasing, and with what was reset it is all that
arrived; what a reader has in its hands is the end of what was handed out, and
`read_until` has met neither its ending nor its length before.  Out: what
a writer still has are the last bytes it was offered, numbered up to the last one,
and the terminal took those of the call up to `Reached` and none behind.

`SettingsAppliedCorrect` is about `Terminal`, for a terminal in any state, any sequence of
configurations and every width of `int`: the operators of `Termios` follow each other, and the
lemmas say which flags each of them leaves alone.  `WidthAssumption` states of powers of two
only that the one of the width is twice the one below, since the provers
know nothing of exponents.

### The smaller components

`LibraryProofs`, for any values of their constants:

* Task: `StateIsTrueCorrect`, for any number of users and of runs, by the
  invariant that a run is in one hand at a time, that of a user or that of the
  thread, and that the future is the last run's.
* Unbounded queue: `GettersAreServedCorrect`, for every finite set of threads and any
  number of items, by the count used for the bounded queue, and by the order of
  the numbers of the items.
* Logger: `LevelsAgreeCorrect` and `RestoreGivesBackCorrect`, for any modules, names and
  levels, 0 not being a level; the invariant says that only loggers that were made have
  users, that one user of a logger at a time is between a save and the end of its
  block, and that what it saved is kept until then.
* Port discovery: `ScanIsTrueCorrect`, for any entries, families and devices and any
  number of changes.  `ScanInv` orders the results and the names still to be looked at in
  one line, by family and name, which is why a name is there once; and it
  says of each port that stayed where it is: in a family the scan did not come
  to, among the names, or among the results.  That a sorted sequence of a finite set exists,
  and has just its elements, is proved by induction on the number of elements.
* Intrusive lists: `ListsAgreeCorrect`, for any lists and nodes.  `Linked` says that
  head, tail and next describe a sequence; nothing is said of nodes in no list, so that
  a stale link may be anything.  There is a lemma for each function
  of `list_gen.h`, with the memory it may touch; as no node is in two
  lists, the others keep their links.  A safe iteration is at some
  position of what is left of its list (`CursorAt`), and what it saw followed by
  what is there from that position on is the list it began with.
* Values: `ReadBackCorrect`, for any width of `int` and `size_t`, any clock and line
  of a dump, and any set of legal calls.  There is a lemma for each kind of
  call.  `FieldCorrect` and `BitCorrect` say of each bit of the word what it is after a
  set.  `BlockCorrect` is about the quotient in `max_size`, whose rest
  leaves room for the alignment, so that the product does not wrap.  `DateCorrect`
  splits an instant into seconds, microseconds and ticks (`Parts`), in
  `AfterTheEpoch` and, where quotients are cut the other way, in `BeforeTheEpoch`: the second
  that goes to `localtime` is the one of the quotient, or the one before it if
  there are microseconds.  `BufferCorrect`: the pieces of a buffer (`ArePieces`) are its
  beginnings, so that cutting at the sums of the lengths gives the items back, and so are
  the lines of a dump.  `ArgumentsCorrect` needs no order of the fields but that
  the argument that throws is not assigned, and `MountCorrect` that an entry that nothing covers
  is the one that `stat` finds.  Of powers of two only `2 ^ SizeWidth \in Nat` is
  assumed.

## 6. What is only model-checked, and what is not modelled

Only model-checked.  The liveness properties, since temporal reasoning with
fairness and ENABLED are outside what the prover does.  Every other property of the
passing runs, invariants, action properties and refinements, is a theorem.

Not modelled.  `WorkDelayable` (behind `DELAYABLE_WORK`, not compiled); the
NO_YIELD option (it only adds a yield); what happens to a queue when an essential task
throws (`std::abort`); submissions that race with `start`, which does not take
the lock; the instant between giving a flusher's semaphore and the last reads of
the flusher; the callbacks of a `bounded_queue`; `Task::_id`, which the thread
reads without a lock; the reads of the modem lines, which change nothing; `port()` of an open
serial port, which keeps the descriptor of the old one, beyond its effect on the settings;
races in the map of loggers; texts, formats and colours; `SharedFlag`, one bool under
a `std::shared_mutex`; the macros of `util.h`.
