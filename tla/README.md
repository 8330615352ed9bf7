# A specification of ac_muduo

ac_muduo is a C++20 port of the muduo network library: a reactor (an event loop
per thread, pollers, channels, timers), pools of threads and of loops, and an
asynchronous logger. This directory holds TLA+ modules that model it, the TLC
configurations that check them on small instances, and proofs for TLAPS.

    tlc -config EventLoop.cfg EventLoop     # one run
    tlapm EventLoopProofs.tla               # the proofs of one component

`PROJECT.json` lists the runs, the correspondence of every definition to lines of
the source, the hazards the properties are for, and for each property a mutant: a
faulty form of one definition (`\* Faulty: ...` in the modules) under which the
property fails. Definitions marked faulty are used by nothing else.

## 1. Inventory

| component | state | operations | what is hard | what makes it correct |
|---|---|---|---|---|
| `event_loop_t` | `quit_`, `looping_`, `calling_pending_functors_`, `pending_functors_`, the eventfd, active channels | `loop`, `quit`, `run_in_loop`, `queue_in_loop`, `update_channel`, `remove_channel` | any thread pushes functors or asks to quit while the owner tests, blocks or runs | no wakeup or quit is lost; functors run once, in order |
| `channel_t` | `events_`, `revents_`, `index_`, `tie_`, flags for the asserts | `enable_*`, `disable_*`, `remove`, `tie`, `handle_event` | user code removes and destroys channels from callbacks | no dangling channel in the loop's hands; callbacks run on live objects |
| `epoll_poller_t`, `poll_poller_t` | `channels_`, the kernel's set or `poll_fds_` | `update_channel`, `remove_channel`, `poll` | descriptors come back under another channel; places move | the three views agree; nobody starves |
| `timer_queue_t`, `timer_t`, `timer_id_t` | `timers_`, `active_timers_`, `canceling_timers_`, the timerfd | `add_timer`, `cancel`, `handle_read` | cancel from callbacks, addresses used again, two clocks | the two sets agree; one owner per timer; the timerfd is set in time |
| `event_loop_thread_t`, `event_loop_thead_pool_t` | `loop_`, `loops_`, `next_` | `start`, `get_next_loop`, `get_loop_for_hash`, destructors | the loop lives on another thread's stack | loops handed out are alive; threads are joined; round robin |
| `thread`, `count_down_latch` | `started_`, `joined_`, `count_` | `start`, `join`, `wait`, `count_down`, the destructor | the thread uses its object, which may be gone, and counts down before or after somebody waits | `start` returns only when the thread runs, `join` when it has ended; no lost notification |
| `thread_pool` | `queue_`, `running_`, two condition variables | `run`, `take`, `start`, `stop` | notify_one with several waiters; tasks that call `run` | no task or room is forgotten; FIFO; `stop` returns |
| `blocking_queue`, `bounded_blocking_queue` | `queue_`, condition variables | `put`, `take`, `drain` | as above, without a stop | as above |
| `async_logging` | four buffers in exchange, `buffers_` | `append`, `start`, `stop`, `thread_func` | buffers change hands while producers append | the spare buffers suffice; no line lost or overtaken |
| `singleton`, `thread_local`, `thread_local_singleton` | `value_`, `once_`; a pthread key; `t_value_` of each thread | `instance`, `value`, destructors that pthread and `exit()` call | a constructor that throws; destructors that ask for the next object; `exit()` destroys the singleton and deletes the key of the instances while threads run | one singleton; one object per thread, deleted with it; never a deleted instance |
| `log_file`, `append_file` | `count_`, `start_of_period_`, `last_roll_`, `last_flsh_` | `append`, `flush`, `roll_file` | seconds, days and sizes meet; the clock may go back | files in order; flushed in time |
| `date_t`, `time_zone` | transitions, offsets | conversions, `readTimeZoneFile` | leap years, time before 1970, the hour that comes twice, files that end early | inverse functions |
| `logger` | `impl` of each line; `t_last_second`, `t_time` of each thread; level and zone of all | the `LOG_` macros, `stream`, `~logger`, `set_time_zone`, `set_log_level` | the text of the time is kept from line to line; FATAL flushes and aborts while others log | every line shows its own second and zone; a FATAL line is safe |
| `log_stream` | `fixed_buffer` | `operator<<`, `convert`, `convert_hex`, `format_SI`, `format_IEC` | numbers are converted in place; least integers; rounding at a change of prefix | text reads back as its number; the buffer is never filled |
| `string_piece`, `timestamp`, `file_utils` | none between calls | comparisons, `to_string`, `append`, `read_to_string` | prefixes; short writes and reads | a total order; no byte twice, none skipped |
| `weak_callback`, `sockets_ops`, `endian`, `process_info`, `gzip_file`, `current_thread`, `types`, `exception`, `main` | little or none | system calls, wrappers | little | - |

How they interact: threads call `queue_in_loop`, `quit`, `add_timer` and `cancel`,
which share `pending_functors_` (under a mutex) and the eventfd with the loop's
owner. The owner calls the poller, which shares channels with it by pointer, and
then the channels' callbacks, which call back into all of this. The timer queue is
a client of its loop: its timerfd is a channel and its operations are functors.
The pool of loops creates threads that each hold a loop on their stack and
publish its address under a mutex. The logger's producers and its thread share
buffers under a mutex; the thread owns the log file.

The hazards found while reading, each with its line and the properties for it,
are under `hazards` in `PROJECT.json`.

## 2. Plan

Done so far (section 3), most important first: the wakeup protocol of the loop
with its abstract queue and its proofs; timers and their proofs; the two pollers with their abstract
specification, behind `new_default_poller`, and their proofs; dispatch of events and its proofs; the
pool of loops and its proofs; the asynchronous logger and its file with their proofs, and
its front end with its proofs; the thread pool and
the blocking queues and their proofs; threads, latches, the singleton and thread-local objects, and
their proofs; the conversions, with their proofs: the calendar, time zones and their files, the
order of strings, numbers, sizes and times as text, and the loops over files.

What is left, in order:

1. `LoopTimers.tla`: the composition of `TimerQueue` with the loop's iteration in
   place of its `inbox`, to show that what `TimerQueue` assumes of the loop holds.
2. `sockets_ops`, as soon as something uses it: the repository has no connection yet.

## 3. Modules

State has the names of the source, without the trailing underscore. One action is
one step that no other thread can interrupt: a critical section of a mutex, an
access to an atomic, a system call.

**`FunctorQueue`** is the promise of the loop to those who hand it functors: run
once, in the order of acceptance, except those the owner runs at once. The thread
pool makes the same promise for tasks, and the blocking queues for items, with `drain`
as one more step (`DrainedSpec`).

**`EventLoop`** (`event_loop_t.cpp`). `unhandled` holds the active channels that are still to
be handled; `pc` is where the owner is in `loop()`; `op`
is what another thread has left to do (write to the eventfd) when it is between
the push of `queue_in_loop` and its `wakeup()`, or between `quit_ = true` and its
`wakeup()`. `loop()` is split at `looping_ = true`, `quit_ = false`, the test, the
poll, each channel, the swap, each functor, and the end of `do_pending_functors`.
User code is the place `callback`: there, the owner may make any call of the
loop. `Queue` maps it to `FunctorQueue`: what is to be run is what was swapped out,
followed by what is pending.

**`TimerQueue`** (`timer_queue_t.cpp`, `timer_t`, `timer_id_t`). Timers are records
at addresses; an address is free again after a delete. `timers`, `active` and
`canceling` are the three sets. Other threads go through `inbox`, the loop's
functors; the owner's calls run at once, in any callback, also between the
report of the timerfd and `handle_read`. `reset` is one step with its restarts,
deletes and the new alarm, because no user code runs in it. `add_timer` reads
`timer->sequence()` after it has handed the timer over (`timer_queue_t.cpp:94`);
if the timer is gone, `ReturnId` yields any number. Both clocks saturate: their
last instant stands for all later time. `fate` remembers what happened to each timer.

**`Descriptors`, `Poller`, `EpollPoller`, `PollPoller`, `DefaultPoller`**. `Poller` is what `poller_t` promises:
a poll reports registered channels with what happened and was asked for.
`EpollPoller` has `channels_`, `index_` of each channel and the kernel's set, which
holds pointers; `Capacity` is the first size of `events_`. `PollPoller` has
`poll_fds_` with the swap of `remove_channel` and the negative descriptors of
disabled channels; its asserts are part of it, and `aborted` names the function
whose assert failed. Callers may do anything; `misused` remembers whether a channel
was registered again after `remove()`, or disabled before anything else, which
this poller does not survive. `DefaultPoller` is `new_default_poller`: a behaviour has one
poller or the other, and `Promise` maps whichever it is to `Poller`.

**`Dispatch`** (`channel_t.cpp`, `event_loop_t.cpp:84-101` and `153-164`). `place` is where
the owner is, in `handle_event` or in user code. What user
code may do to channels: construct, tie, drop the tied object, enable, disable,
remove, destroy, from any callback, from functors, and from the destructor that
the guard of `handle_event` may run. A failed assert ends the program. `tie()` on
a channel that is being handled is left out: the flag is read before
the callbacks, and the rest of that event would have no guard.

**`LoopPool`** (`event_loop_thread_t.cpp`, `event_loop_thead_pool_t.cpp`,
`thread.cpp`, `count_down_latch.cpp`). The base thread starts loops, hands them
out, destroys them; each thread goes from its latch through the construction of
its loop, its publication, `loop()`, and the end of its stack. `early` and
`dangling` remember two things that go wrong when a loop is asked to quit too
soon, or by two parties.

**`ThreadPool`, `BlockingQueue`, `Queues`** (`thread_pool.cpp`, `blocking_queue.h`,
`bounded_blocking_queue.h`). Wait sets are explicit: `notEmpty` and `notFull` hold the
threads that wait, and a notification takes one out, which then competes for the mutex.
Spurious wakeups are allowed and never relied upon. A behaviour of `Queues` has a
thread pool, a bounded queue or one without a bound (`pool`, `capacity`); the three
share their variables and what is asked of them.

**`Instances`, `Threads`** (`thread.cpp`, `count_down_latch.cpp`, `singleton.h`,
`thread_local.h`, `thread_local_singleton.h`). The thread of `main()` constructs, starts, joins
and destroys `thread` objects, waits for a latch that all threads count down, and
leaves `main()`; each thread goes through the lambda of `thread::start` and its
function, which may throw, and then through pthread's passes over its keys (external,
bounded by `MaxPasses`). `Instances` has the objects that a thread's function asks for:
`call_once` with a constructor that may throw, the two pthread keys and `t_value_`. A key may be
deleted while threads use it, even between two passes over their keys: that of the
`thread_local_t` by `Drops`, that of `thread_local_singleton` by `exit()`, which goes on in steps
between those of the other threads: `Exit`, `ExitDestroys` (`destroy()`, also when `init()` registers it
only then), `ExitDeletes` (`~deleter()`, after `destroy()`, since the static `deleter_` is constructed
before `main()`). Of a deleted key no value is left and no destructor runs (external, as glibc
has it: `pthread_getspecific` gives null, `pthread_setspecific` fails); `instance()` goes by
`t_value_` and does not look at what `pthread_setspecific` returns (`WithInstance`).
`stale` remembers threads that used their object after its destructor.

**`AsyncLogging`** (`async_logging.cpp`, `fixed_buffer`). The buffers in exchange,
the wait with its timeout, the flood limit (25 in the code, `DropAbove` here), a
line that fits in no buffer.

**`LogFile`** (`log_file.cpp`, `append_file`). One step per call. The file a line
went to is known from the file's first line; `durable` counts what was flushed.
`append` reads the clock up to twice (`log_file.cpp:82` and `101`), here once.

**`Logging`** (`logging.cpp`, `logging.h`). A line is begun, given its header, streamed
into and output; `format_time` looks at the zone twice, so it is two steps
(`FormatTime`, `WriteHeader`), and `~logger` of a FATAL line is three (`Output`, `Flush`,
`Abort`). Of the streamed text only lengths are kept. `outdated` remembers that the
zone was set after a thread made the text of its time. That the unlocked assignment
of `g_log_time_zone` may tear is left out.

**`LogStream`** (`log_stream.cpp`, `fixed_buffer`). `Convert` and `ConvertHex` yield
characters; `FormatSI` and `FormatIEC` yield a prefix, how many decimals, and the
mantissas that `snprintf` may round to (two, of a tie). `Appended`, `FormatInteger` and
`FormatAddress` are the three ways in which a line grows. `IntegerDivision` is the
division of C++.

**`Values`** (`string_piece.h`, `timestamp.cpp`, `file_utils.cpp`). Comparisons of
`string_piece`, the text of a timestamp, and the loops of `append_file` and
`read_small_file`: since a write or read may transfer less than it was asked for, an
operator yields the set of all that the loop may come to.

**`Calendar`, `TimeZone`** (`date_t.cpp`, `time_zone.cpp`). Algorithms as operators.
The state machine of `Calendar` is the reference: it walks the calendar day by
day knowing only the lengths of the months. `TimeZone` takes zones as zoneinfo files
list them (localtimes, and when which begins), builds its transitions from them as
`readTimeZoneFile` does, also when the file ends early, and converts instants of the
walk.

**`Texts`** (of `log_stream.cpp` and `timestamp.cpp`). What is true of numbers and times as
text, apart from how the text is made: a reader of numbers (`Number`, `ReadBack`), the digits
that a size is printed with, and the dot of a timestamp. `ValuesAgree` joins it to what
`Values` says of string pieces and files.

`MC*` modules give constants that a configuration cannot write down (functions,
symmetry, zones). `MCConversions` also joins `TimeZone` and `Texts`: the days of
the walk and their seconds are the numbers that are printed.

## 4. Runs

| run | bounds, and why they are enough | shows |
|---|---|---|
| EventLoop | owner and 2 threads, 2 channels, 3 functors, a quit, 2 rounds of `loop()`: a functor of each origin, two threads between push and write, a second `loop()` after a quit | `NoLostWakeup`, `NoLostQuit`, `ChannelFunctorsRun`; `QueueSpec`; `LoopResponds`: what is queued is run and a quit obeyed |
| TimerQueue | 2 timers on 2 addresses, which are used again; 2 cancels, so that an id can outlive its timer; an interval below a microsecond; one step of the wall clock | `TimersConsistent` (`SetsAgree`, `HeapOwned`), `AlarmInTime`, `FatesKept` (`NoTimerLost`, `NoTimerRevived`), `EveryTimerRuns` |
| DefaultPoller | `epoll`: 3 channels, two of which share a descriptor in turn, `events_` with room for one at first; `poll`: 4 channels, so that the removed, the moved and an untouched place differ, and descriptor 0, whose negative form is -1 | `EpollAgrees` (`IndexAgrees`, `KernelAgrees`), `PollAgrees` (places, asserts), `DisabledIsSilent`; `PollerSpec`: either implements `Poller`; `NoStarvation` |
| PollPollerReuse | 3 channels | see findings: an assert fails |
| Dispatch | 3 channels, symmetric: the current one, one handled before, one still to come | `DispatchSafe` (nothing dangles, the current channel is alive), `RegistrationConsistent`, `TieHolds` |
| LoopPool | up to 3 loops, 2 calls of `get_next_loop`, any loop asked to quit from outside | `LoopsConsistent` (`LoopsAlive`, `Balanced`), `NoThreadLeft`, `CallsReturn` |
| Queues | 3 workers, 2 clients, a queue of 2, 8 tasks, tasks call `run`: enough to block all workers on their own full pool; the same five threads put and take in the two blocking queues | `NoLostNotification` (tasks, room, items); `QueueSpec`; `CallsServed` (`SleepersWake`, `TasksBegun`, `StopReturns`) |
| AsyncLogging | 6 lines of 3 lengths, one that fits nowhere, buffers of 3, floods above 3 buffers | `BuffersConsistent` (`SparesThere`), `LinesInOrder`, `FullBuffersCollected`, `IntervalServes` (`LinesWritten`, `StopReturns`) |
| LogFile | 5 lines, 5 seconds, days of 3, a check at every 2nd line, one step back of the clock | `FilesConsistent` (`FilesInOrder`); while the clock was not set back `FlushedInTime`, `RolledInTime` |
| Logging | 2 threads, 2 lines, 2 pieces each, two of zone, level and clock set; lengths after which there is just room for a number, or for nothing | `LinesConsistent` (`NeverOverruns`), `OutputTrue` (`StampsTrue`, `FatalFlushed`) |
| Threads | 2 threads, one constructor that throws, 2 passes over the keys where glibc makes 4: a destructor can make an object again, and again | `CallsMeanIt`, `NothingOutlived` (`OneSingleton`, `LocalsAgree`, `NothingLeft`), `CallsReturn` |
| Conversions | a whole Gregorian cycle, 1900 to 2300; 1902 to 2037 for seconds, which is what TLC's integers of 32 bits reach; six zones, every hour of two years, zone files cut off anywhere; both ends of 32 bits; strings of up to three characters, files longer and shorter than the buffer | `CalendarAgrees` (`DaysAgree`, `UtcRoundTrip`), `LocalTimeAgrees` (`InForce`, `LocalRoundTrip`, cut files), `ConversionsExact`, `ValuesAgree` |

A property with parts in parentheses is their conjunction, with `TypeOK`. `MaxFunctors`,
`MaxQuits`, `MaxLoops`, `MaxTimers`, `MaxCancels`, `MaxSteps`, `MaxTime`, `MaxTasks`,
`MaxLines`, `MaxPicks`, `MaxThreads`, `MaxSecond`, `MaxPieces`, `MaxSets` and `MaxThrows`
bound what the program does not; they are the last constants of their modules but for
`MaxPasses`, which is pthread's own bound. Deadlock is not
checked where the system may stop because its callers do (`CHECK_DEADLOCK FALSE`), or
because an assert or `abort()` ends it.

### Fairness

Threads inside the library's code go on, and callbacks return: weak fairness of
their next steps, nothing else. Calls of the library are never fair: nobody has
to make one. The timeout of `poll` and of the logging thread's wait is no part of
`FairSpec`, so that notifications have to do. The properties that need it say so:
`EventuallyRun` (a part of `LoopResponds`) and `IntervalServes` of the logger have the
fairness of `PollTimeout` or `WaitTimeout` as their premise, which `k_poll_time_ms` and
`flush_interval_` provide. Spurious wakeups are never fair. Strong
fairness is assumed in two places. The timer queue's functors (`RunAdd`, `RunCancel`): each
iteration of the loop ends with `do_pending_functors` however often the timerfd is
handled, which is `PromptlyRun` of `EventLoop`. The functions given to threads
(`FuncReturns` of `Threads`): they may ask for the singleton any number of times, and
return all the same. In `Queues`, workers and threads that are inside `put`, `take` or
`run` go on, tasks return, and `stop()` joins; nobody has to put anything. That the descriptors' readiness is
reported in the end (`WF(EpollPolls)`, `WF(PollReports)`) is the loop's own iteration; that
both clocks go on (`WF(Tick)`) is the machine's.

### Findings

* `PollPollerReuse`: `poll_poller_t::remove_channel` does not reset `index_`, so a
  channel that is enabled again after `remove()` fails an assert at
  `poll_poller_t.cpp:59`. `epoll_poller_t` resets it (`epoll_poller_t.cpp:115`).

What the code does, and no text of the repository contradicts, is stated in the
properties instead: a channel whose first call is `disable_all()` gets its place
under its plain descriptor, so that its `remove()` fails an assert of `poll_poller_t`
(`poll_poller_t.cpp:89`, `PollAgrees`), `quit()` before `loop()` has reset `quit_` is forgotten
(`QuitEndsLoop`, `DestroyReturns`), `start_loop` waits for ever for a loop that has
come and gone (`StartReturns`), two parties that quit one loop may meet a loop that
is gone (`NoThreadLeft`), lines appended after the last exchange are not written
(`LinesWritten`), tasks queued at `stop()` are not run (`TasksBegun`), a line may show the time of the
old zone beside the suffix of the new one (`StampsTrue`), a thread that was not joined
may use its `thread` object, or get the singleton, after their end (`NothingOutlived`:
`destroy()` compares where it would assign, `singleton.h:51`), an instance of
`thread_local_singleton` that a thread has or makes after `exit()` deleted the key is deleted
by nobody (`NothingOutlived`, `LocalsAgree`: `thread_local_singleton.h:49-56`), a zone file that is cut off before its
first localtime gives a zone without any (`LocalTimeAgrees`).

Beyond the integers that TLC computes with: the comment at `log_stream.cpp:73` promises
five characters, and `format_SI` prints six, `100.0P`, from 99949999999999992 on, where
the quotient in double rounds up although the comparison of integers did not.

## 5. Proofs

`EventLoopProofs` proves, for every set of threads and channels and all bounds
(from `LoopAssumption`: the owner is one of the threads, the wakeup channel is none
of the user's, the bounds are naturals):

* `TypeCorrect`: `Spec => []TypeOK`
* `WakeupNotLost`: `Spec => []NoLostWakeup`
* `QuitNotLost`: `Spec => []NoLostQuit`
* `ChannelFunctorsServed`: `Spec => []ChannelFunctorsRun`
* `ImplementsQueue`: `Spec => QueueSpec`

`NoLostWakeup` and `ChannelFunctorsRun` speak of the moment the owner blocks or
returns and are not inductive. The inductive invariant `IInv` adds what is true in
between. `OwnerInv`: which variables of the owner can be non-empty where.
`PendingInv`: only accepted functors are pending, so that a new one is not there
already. `WakeupInv`: as soon as the owner is past the swap (`Committed`), a pending
functor has a wakeup that will be written for sure (`SureWakeup`; a push by the owner
counts only while it runs pending functors, for that is when `queue_in_loop` wakes),
unless all of them were queued outside `loop()`. `ChannelInv`: what a channel's
callback queues is there only before the swap. `NextIInv` has one step per action.
The refinement maps the push to `Accept`, a functor that do_pending_functors calls to
`Execute`, one that run_in_loop calls to `ExecuteNow`, all else to a stutter.

`LoopPoolProofs` proves, for every number of loops, of picks and every set of hashes (from
`PoolAssumption`: the bounds are naturals, the hashes too):

* `PoolConsistent`: `Spec => []LoopsConsistent`
* `ThreadsJoined`: `Spec => []NoThreadLeft`

Its `IInv` ties the base thread to the loops. `CallerInv`: where the base thread is, which
loops the pool has by then, and that the i-th of them is that of the i-th thread.
`UnstartedInv`: threads that were not started have done nothing. `SeenInv`: what
`start_loop` has seen was there. `StayInv`: a loop that nobody asked to quit stays, with
its pointer, until its destructor has come to quit it; without this `NoThreadLeft` is not
inductive, for the destructor may find no loop only if another party quit it. `PicksInv`:
the loops before `next_` were handed out once more than the others, from which
`Balanced` follows. `LeftInv`: `NoThreadLeft`, with the thread that is being joined.

`PollerProofs` proves, for every set of channels, any descriptors they share and any first
size of `events_` (from `DescriptorAssumption`, `EpollAssumption` and `ChoiceAssumption`: descriptors and
sizes are naturals, no channel is the null pointer):

* `EpollKeepsTrack`: `LoopSpec => []EpollAgrees`
* `PollKeepsTrack`: `LoopSpec => []PollAgrees`
* `DisabledUnheard`: `LoopSpec => DisabledIsSilent`
* `KeepsPromise`: `LoopSpec => PollerSpec`

For `epoll_poller_t` the agreement of `channels_`, `index_` and the kernel's set is inductive
with one addition: `channels_` knows a channel under its own descriptor only (`EpollKeyed`).
For `poll_poller_t`, `PlacesTaken` is what the swap of `remove_channel` needs: every place
belongs to a registered channel, and by `PlacesApart` to one, so that the channel of the
last place is found, and there are as many places as channels. `UsedWell` holds as
long as no caller misused the poller: the asserts, and the signs of the descriptors,
on which its silence about disabled channels rests. The refinement maps what a caller asks for
to `Poller`'s update, `remove_channel` to its removal, and a poll to a report.

`AsyncLoggingProofs` proves, for any size of the buffers, any lengths of lines and any limit of
a flood of 2 or more (from `LoggingAssumption` and `NullAssumption`: these are naturals, and no
buffer is the null pointer):

* `SparesSuffice`: `Spec => []BuffersConsistent`
* `LinesKept`: `Spec => []LinesInOrder`

`SparesInv` is stronger than the asserts in one place: `next_buffer_` is away only as long as a
full buffer is there, so that the exchange that gives away both spares always finds two
buffers to make new ones of. `LinesInv` and `OrderInv` split `LinesInOrder` by place: the file,
what the logging thread has to write, the full buffers, the current one.

`ThreadsProofs` proves, for any finite set of threads and any number of exceptions and passes
of destructors (from `ThreadAssumption` and `InstanceAssumption`: the set is finite, the latch
of all threads is none of theirs, the bounds are naturals):

* `CallsKeepTheirWord`: `Spec => []CallsMeanIt`
* `ObjectsOutliveUse`: `Spec => []NothingOutlived`

`CountsInv`: each latch counts the threads that have not counted down, the common one by the
cardinality of a set that a thread leaves once. `MainInv`: what the thread of `main()` waits
for says where the threads are that it started or joined, so that a thread that has not
counted down can only be the one it waits for. `ObjectsInv`: only a thread that was not joined
finds its object gone, and only after `main()` is done is the singleton deleted, and the key of
the instances with it. `InitsOnce`, of `std::call_once`: one thread at a time is in `init()`.
`LocalsAgree` is inductive by itself: it asks for a value of the key only while the key is there
(`KeyDeleted`), and then `NothingLeft` of a thread that has ended says that its `t_value_` is null.

The second part of `EventLoopProofs` proves, for any finite set of channels and any `revents_`
(from `DispatchAssumption`):

* `NothingDangles`: `DispatchSpec => []DispatchSafe`
* `RegistrationAgrees`: `DispatchSpec => []RegistrationConsistent`
* `TiedLives`: `DispatchSpec => []TieHolds`

That no pointer dangles rests on the assert of `remove_channel`: a channel removed while
channels are handled is the current one or not active. It suffices because a channel is
active once (`ActiveOnce`) and the owner stands at the place of the current one
(`PlaceInv`), so that the current one is not met again. `GuardInv`: while a tied channel is
handled its object is held.

`TimerQueueProofs` proves, for any threads, addresses, times, intervals and bounds (from
`TimerAssumption` and `FreeAssumption`: times are naturals within the clocks' bound, a one-shot
timer has no number for an interval, a free address holds no timer):

* `OneOwner`: `Spec => []TimersConsistent`
* `FatesHold`: `Spec => []FatesKept`
* `AlarmSet`: `Spec => []AlarmInTime`

`SeqsInv`: no two timers share a sequence number, so that what happens to one says nothing of
another at the same address. `WaitingInv`: every timer in `timers_` is armed, which is more than
`FatesKept` says. `RunningInv` is what `reset` relies on: in the batch, `canceling_timers_` has
exactly the timers that were cancelled, and a one-shot timer whose callback was called is not
armed, so that the timers put back are those that are still armed. `AlarmInTime` is inductive
with the types, by two lemmas: `begin()` is an earliest entry (`EarliestFirst`, from the least
element of a set of naturals), and a later time has no earlier alarm (`AlarmMonotone`).

The second part of `AsyncLoggingProofs` proves, for any `roll_size_`, `flush_interval_`,
`check_every_n_`, length of a day and lengths of lines (from `LogFileAssumption`: they are naturals, `check_every_n_` and the day
not zero):

* `FilesFollow`: `FileSpec => []FilesConsistent`
* `FlushesInTime`: `FileSpec => []FlushedInTime`
* `RollsInTime`: `FileSpec => []RolledInTime`

`OpenInv`: the open file is named for the last roll, and `start_of_period_` is its day. The rest
holds only while the clock was not set back (`Steady`). `OrderInv`: lines are in the order of
their seconds, and those not flushed are not older than the last flush. `CountInv` is what
`count_` is for: lines that come late for the first that was not flushed, and lines of another
day than their file's, are among the last `count_` lines, which are fewer than
`check_every_n_`. A roll starts both anew. A check that does not roll resets `count_` too, which
is sound by `SameDay` (from the monotony of `\div`): if the file was begun on the clock's day,
all lines in between are of that day.

`QueuesProofs` proves, for any finite sets of workers and clients, any bound of the queues (none
included) and any number of tasks (from `PoolAssumption`):

* `NotificationsKept`: `AnySpec => []NoLostNotification`
* `QueuesImplement`: `AnySpec => QueueSpec`

`NoLostNotification` is not inductive: it says that somebody is awake, and a step of the one who is
may be his last. `WaitInv` counts: while anybody waits for `not_empty_`, there are as many threads
in `take()` that do not wait (`Takers`) as there are items, and while anybody waits for
`not_full_`, as many that put (`Putters`) as there is room. Every push makes one item and
notifies one, every pop makes room for one and notifies one, so each count keeps up; that is
why `notify_one` suffices. `stop()` empties the wait sets and clears `running_`, after
which `run` waits for nothing (`PoolInv`); a pool that never starts, and a queue without a bound, have no
`Putters` that wait. The three queues differ in the places of their threads only, so the
lemmas are about kinds of step (a thread begins to wait, is woken, takes, puts, leaves). For the
refinement, `GivenInv` leaves a number for every item that is about to be put.

`LoggingProofs` proves, for any threads, zones, lengths of texts, numbers and any size of the buffer
(from `StreamAssumption`, `LoggingAssumption` and `NumbersFit`: the clock has at least one second to
show, and the numbers that are logged have texts shorter than `k_max_numeric_size`, which the
`static_assert`s of `log_stream.cpp:184-190` say of every type; TLC evaluates it with `Convert`
itself):

* `BuffersHold`: `Spec => []LinesConsistent`
* `LinesTrue`: `Spec => []OutputTrue`

Every way in which a line grows leaves a byte of its buffer (`TextFits`, `NumberFits`,
`AddressFits`). `TimesInv` is what `t_last_second` stands for: a thread that has a second in it
has the text of that second, in a zone that is the present one or that was replaced since
(`outdated`), so that a line without `outdated` shows its own second and zone. `FatalInv`:
when a thread is about to flush, a FATAL line is in the output, and when it is about to
abort, one is in what was flushed.

Its second part is about the calendar, for any first year and any seconds of the day (from
`CalendarAssumption`, which knows of the first day only that January 1 of the year 0 would be
a Saturday):

* `CalendarIsTrue`: `Walk => []CalendarAgrees`

In years that begin in March, `get_julian_day_number` is the sum of what is before the year
(`BeforeYear`) and before the month (`BeforeMonth`), of which `LeapYears` and `MonthsAre` give the
differences, so that each day of the calendar has the next number (`DayAfter`, `MonthAfter`,
`YearAfter`). `get_year_month_day` takes the number apart again: `CenturyBack` for the century, its
year and the day of that, `MonthBack` for the month. Each is a division whose rest is
smaller than the divisor (`QuotientIs`), the last day of February being the one case where that
rests on the rule of the leap years. `SecondBack` is `to_utc_time` on either side of
1970. `OnCalendar` says where the walk is; the theorem holds for every year, beyond the
bounds of the run.

Its third part is about time zones (from `TimeZoneAssumption`: zoneinfo files are well formed,
their differences of time are less than a day, no two transitions are within two hours, and
daylight saving time is an hour ahead, as `from_local_time` has the 3600 seconds built in,
`time_zone.cpp:263-269`; zones that change by anything else are not covered, nor would the round
trip hold for them):

* `LocalTimeIsTrue`: `Walk => []LocalTimeAgrees`

`LowerBoundIs` says which transition `std::lower_bound` finds, by the time in UTC or the local
one, as both ascend (`KeysAscend`); `Found` and `LastPast` make of it the last transition that has
passed. `InstantBack`: what `to_utc_time` yields is a date of the calendar, whichever side of
midnight the zone puts it on. `LocalBack` is the round trip: the search by local time finds the
localtime in force, or the next one if an hour comes twice, and then what `tm_isdst` says decides. `CutFiles`
counts the bytes of a file that is cut off.

Its fourth part is about `string_piece`:

* `PiecesAreOrdered`: `PiecesOrdered(Strings)`, which the run checks of short strings as a part of
  `ValuesAgree`, for strings of any length

`CommonIs` says that what `memcmp` returns is the difference at the first character that
differs, and `LessIs` what being less is: to be smaller there, or to end before it.

Its fifth part is about numbers and sizes as text:

* `TextsAreExact`: `TextsExact(Int)`, for all integers and not only those of the walk
* `ConversionsAreExact`: `Walk => []ConversionsExact`

`Convert` and the reader are recursive functions, of which first has to be shown that they are
what their equations say. `RecursionEnds`: on the numbers that are reached from one number, each
smaller in magnitude than the one before, functions that satisfy the equation of `Backwards` exist
(`PartialExists`) and agree (`PartialAgree`), so that all of them together are one function. The induction is on
the least magnitude for which it fails. `ReverseStep` and `ReadsMore`: one more digit in the text
is one more step of the reader. So `TextOf` says of the text what division says of the number, a
quotient times the base and a last digit, and `DigitsRead` reads the number back. The digits of a
negative number are negative, and none has to be negated, which is why the least integer is no
exception. For the sizes, `FirstPrefixIs` says which prefix is chosen and `RoundedWithin` that a
mantissa below a bound by more than half is not rounded up to it. The theorem holds for
every size up to the bounds of the property, 2^31 - 1 and 10^7, far beyond which the `double`s of
the code are no longer exact (the hazard of `log_stream.cpp:37`).

Its last part is about the loops over files and the text of a timestamp:

* `FilesAreWhole`: `LinesCounted(Nat) /\ FilesRead(Nat, Nat, Nat \ {0})`
* `TimestampsAreExact`: `TimestampsExact(Nat)`
* `ValuesAreTrue`: `Walk => []ValuesAgree`, which joins them and `PiecesAreOrdered`

`LineCounted` and `FileRead` name the function that solves the equation of each loop, so that there
is one, and show what is true of any by going down from the end of the file (`Downward`). In
`ConcatReads` a text counts by as many powers of ten as there are digits behind it; with
`FewDigits` (a number below 10^6 has at most six, by `DigitMore`) that gives the zeros in front of
the microseconds (`SixDigitsRead`) and then both parts of a timestamp.

Only model-checked, and why:

* everything under fairness: `LoopResponds`, `EveryTimerRuns`, `NoStarvation`, both `CallsReturn`,
  `CallsServed`, `FullBuffersCollected`, `IntervalServes` (liveness and ENABLED are out of the prover's reach).

Every invariant and every safety property of a step that the runs check is stated by a theorem.

## 6. Not modelled

* Parts with `not_modelled` in `PROJECT.json`: `sockets_ops` and `endian`, `process_info`, `gzip_file`
  (system calls, parsing of `/proc`, zlib: no state of their own); `current_thread` (caches);
  `weak_callback` (one lock of a `weak_ptr`, used nowhere; `channel_t::tie` is the same
  idea, and is in `Dispatch`); `types`, `copyable`, `noncopyable`, `exception`; `main`.
* Failing system calls: short reads and writes of the eventfd and timerfd,
  `epoll_ctl`. The code logs them or aborts. Short writes and reads of files are in `Values`.
* Exceptions of a task of `thread_pool`: they end the process. Those of a thread's function
  and of the singleton's constructor are in `Threads`.
* Releases of memory other than those of timers, channels, threads and their objects.
* Bytes: the numbers in zoneinfo files, the names of log files, the text of log
  lines but for numbers; floating point (`operator<<(double)`, `fmt`);
  `timestamp::to_formatted_string`.
* What changes no state: constructors and accessors of `string_piece`, `get_all_loops`,
  `get_count`, `empty`, `full`, `size` and `capacity` of the queues (the last two of
  `bounded_blocking_queue` return `bool`).
* What is called before threads start: `set_output_fun`, `set_flush`. The thread-local
  objects of the thread of `main()`, of which pthread destroys none.
* A singleton whose type has `no_destory`, which `exit()` leaves alone (`singleton.h:40`), and a
  `thread_local_t` that is itself destroyed by `exit()`: `Drops` is before that.
* `date_t(const tm &)`, which counts years from 1 (`date_t.cpp:43`): nothing calls
  it and nothing says what it should do.
