# A TLA+ verification of atap

atap is an asynchronous runtime for macOS. A program spawns tasks, keeps handles on them, and joins,
takes, cancels, gives to or forwards between them. Underneath there is almost no locking: a task is a
slot of atomics in a table, and every thread that touches it (listeners, pool workers, the manager, a
shutdown) meets the others in compare-and-exchange loops. This directory models those meetings,
checks them with TLC on small instances, and proves the central ones with TLAPS for every instance. It
also models the tasks that come with the runtime (channels, signals, sockets, programs, files), a
system call or a critical section at a time.

Paths below are relative to `src/src/`.

## The system

| Part | Code | Job |
|---|---|---|
| Task slot | `modules/task_data.rs`, `task_state.rs`, `task_handle.rs` | State word, reference count, reader count, payload of one task |
| Executor | `executor.rs` | Creates, runs, waits on, reads, stops and releases tasks; shutdown; the manager loop |
| Task table | `modules/task_table.rs`, `mapping.rs` | Lock-free allocation of ids, high water mark, trim |
| Waiting tasks | `modules/gate.rs`, `gated.rs`, `mailbox.rs`, `handle_kind.rs` | A task started by gives; its gate, count and givers |
| Forwards | `modules/receivers.rs`, `forward.rs`, `extras.rs` | Hands each output to the tasks registered for it |
| Gather | `modules/gather.rs`, `handle_set*.rs`, `merge_set*.rs` | A task that receives from several others |
| Queues and pool | `modules/injector.rs`, `worker*.rs`, `thread_slot.rs`, `exit_guard.rs` | Where tasks wait, threads that run them, growth, death and recovery |
| Parks and timers | `reactor.rs`, `modules/park.rs`, `kqueue.rs`, `kevent.rs`, `futures/kernel_wait.rs` | Tasks that wait on the kernel without a thread |
| Series | `modules/series.rs` | Schedules: a run every period, whether or not the last is over |
| Lifecycle | `runtime.rs`, `executor.rs` | Start, supervise, restart, shut down |
| Channels | `futures/channel/` | Queue with two doorbells that tasks park on |
| Signals | `futures/signal/` | Counting handler, shared by the tasks that watch a signal |
| I/O tasks | `futures/{net,tcp,udp,unix,tls,process,file,sleep*,compute}` | The tasks a program spawns |
| Builders | `modules/builder/` | Typestate that fills in a `TaskSetup` |

A handle's call goes to the executor, which works on the slot; `create` allocates an id from the
table and hands it to the pool; a worker claims the boxed task, runs it, publishes the output in the
slot, wakes the listeners and walks the registrations. A task that waits for gives has a gate in
front of its runs, and a forward is a give made by the run of another task. Channels and signals are
tasks that park on a descriptor.

## Modules

Each module states one component at the grain of its atomic operations: one action is one load,
store, exchange or fetch-add with the thread-local work around it, or one critical section where the
code holds a lock. `pc` says where a thread is inside a call. `PROJECT.json` maps every definition to
the lines it stands for. The atomics are modelled as sequentially consistent; the orderings the code
picks (mostly `SeqCst` and `AcqRel` on these words) are not questioned here.

**TaskSlot** (with **MCTaskSlot**, **TaskSlotProofs**, **OneShotProofs**). One slot from `create` to
`destroy`. The words `state`, `listeners`, `readers`, `filled`, `held`, `task`, `repeats`, `runsLeft`
are the fields of `TaskData`; `bits` and `fate` record what became of each run's output; `queue`,
`pool` and `deaths` are the pool as the slot sees it. Handles run `join`, `take`, `cancel`, their
timed and polling forms, clone and drop; workers run `run` from `claim` to `release`; the reaper is
the sweep that settles a dead thread's task, and the shutdown (`Close`, `StopAll`, `Drain`, `Sweep`).
The task never parks, has no run timeout and no gate.

**TaskPromise**. What a one-shot task promises its handles: it settles once, its output has one owner
at a time, and a task that is owed settles. TaskSlot refines it: the phase is the state word and the
output is the fate of the one run (`KeepsPromise`).

**Gate** (**MCGate**, **GatherProofs**). A `wait_for` task: `gate`, `gives_left`, `givers`, the mailbox,
and the slot reduced to a state and the whereabouts of the boxed task. Actions follow `give`, `trigger`,
`spend_give`, `start_waiting`, `run`, `rewait`, `after_run`, `finish_waiting`, `let_go_waiting`,
`write_off`, and clone and drop of a giving handle. Values are numbered in the order they reach the
mailbox, so a property can ask whether a run saw one at least as new.

**Receivers** (**MCReceivers**, **ReceiversProofs**). The registrations on a task's outputs: `LOCKED`,
`REWALK`, `CLOSED`, the stack, the generation, and the pass under way, with the run that publishes
(`begin`, `recycle`, `note_output`, `forward_output`, `close_extras`, and its panic), the threads that
register (`extras_or_attach`, `register`), a cancel and a take. The stack is a set, since a walk takes
it whole. The far end of a forward is open, finished or failed. The task is one without a gate: of one
that waits for gives, `publishes_nothing_more` asks the gate (`task_data.rs:558`).

**TaskTable** (**MCTaskTable**). The ids: `free` with its tag, the links, `next_id`, `peak`, `live`,
and a trim with its own values. Threads allocate, free and trim. One block is modelled, since a block
is mapped once and never moves. Slots in a page is a constant.

**Channel** (**MCChannel**, **FutureProofs**). `Core` under its lock, so each operation is a step:
the queue, the counts of ends, the two bells in bytes; the ends a user holds, and the send and receive
tasks with the cell a send shares with its copies. A parked task is woken by a byte in its bell.

**SignalDispatch** (**MCSignalDispatch**, **FutureProofs**). One signal: `COUNTS`, `CAUGHT`, `HELD`,
`WATCHERS` and the kernel's action for it. Tasks of both release policies catch, count, report, clone
and drop; a caller releases. The count wraps at `Width`.

**Gather** (**GatherProofs**) extends Gate (both in **MCGate**). A task that receives from a set of
others: the slots of a round, the target, `broken` and `giving`. The tasks of the set publish, fail and
leave; whoever fills a round gives it to the target through the actions of Gate, so the gate, the
mailbox and the givers are the same variables. A linked target is not cancelled by a handle of the user.
`receive_any` is several givers of Gate.

**Injector** (**MCInjector**) and **BandedFifo**. The shared queue: an incoming and a ready stack for
each band, linked through the tasks' headers, with tags, the flip under its flag, `refill`, `oldest`,
`promote` and the depth. An id in the queue may go (its task is released) and come back. BandedFifo is
what the queue promises, a line for each band, and Injector refines it: the line is the ready stack
followed by the incoming one reversed, and a push or a pop moves it at its exchange (`FifoPerBand`).

**WorkerPool** (**MCWorkerPool**). `ThreadSlot`, `Worker`, `SleepThread`, `ExitGuard` and `WorkerPool`.
Each thread has a stack of frames in `pc`, because a worker that waits inside a task runs others
meanwhile. Where a task waits (LIFO slot, ring, shared queue, blocking queue) and the park word of each
thread are modelled step by step: the look, the announcement, the second look, the sleep. The manager
sweeps, balances, grows and reaps; a caller submits, heals and waits; a thread dies; the stopper closes
the pool. The shared queues are lines (BandedFifo), a steal is one step, storms, streaks and tick
counts are a choice, and recoveries go one at a time.

**Parks** (**MCParks**, **ParksProofs**). One task that gives its thread back: `armed`, `parked`, the
timeout word, the kernel's watch and timers with their idents, the batch the manager fetched, and the
threads that meet over them: workers in `park_task`, the manager in `fire`, `wake_parked` and
`timed_out`, a cancel in `take_down`, the supervisor with `recover_waits` and `orphaned`, and a
shutdown. The manager starts at the point where it listens; its own tick is not an event of this model,
so it dies with this task's events in hand or not at all. A registration is refused when the manager is
gone; that the kernel refuses one while it is up (`executor.rs:1277`, `1499`, `1513`) is left out. The
load and the registration of `recover_waits`, and the look and the store of `orphaned`, are a step each.

**Series** (in **MCParks** too, **SeriesProofs**) extends Parks. A schedule: the runs it launched, their
claims on its slot (`pins`), the count, the deadline and the claim to write the output. `start_series`,
`tick`, `end_schedule`, `launch`, `publish`, the closing of its registrations, cancel, timeout and the
loss of the manager.

**Streams**, **StreamProperties** and **Sockets** (**MCSockets**, **SocketsProofs**). Streams is an open
byte stream over a socket, a pipe or a TLS session, with receives of every shape (some, exactly, to the
end, to a delimiter), sends and finishes, each call on the source a step, and between any two the other
side, a cancel or a timeout. Bytes are numbered, so what arrives can be compared with what was sent;
StreamProperties compares it. Sockets adds connects that go through several addresses, listening and
accepting, TLS handshakes, requests and datagrams. A stop finds any of these tasks running or parked; a
request stopped while it runs goes on through its stages until it parks or ends. A name that does not
resolve is an empty list of addresses, which ends the same way. `DRAIN_READS` is the constant `Drains`.

**BlockingTasks** (**MCBlockingTasks**). The tasks that hold a thread in the kernel: sleeps on the
thread's own queue or on a shared one, programs with input and captured output, programs left running.
`kernel_wait`, the `waiting` word and the interrupt by a cancel are in full, and so is the life of a
child: spawn, pipes, pump, reap, the guard that kills it. `running.rs:310` stores the status and `ended`
under its lock in one step, since every caller that finds either is answered alike. The child and the
kernel's queues are modelled from how the code uses them.

**FileSystem**, **Files**, **Trees**, **Watches** extend BlockingTasks. FileSystem is the kernel, external:
inodes, links, contents in places, positions, locks. Files has the tasks that open, read, write, seek,
copy and lock; Trees those that make, list, rename and remove names and whole trees; Watches compares
snapshots of a file, with its watch on the thread's queue or parked. Each system call is a step, with
other tasks' calls and the cancel between two. Owner and inode number of a snapshot are left out.

Where one module needs part of another, it extends it (Gather, Series, Sockets, Watches) or restates
the part with the same names: Gate, Receivers and Parks each hold the state word of TaskSlot, with the
same exchanges, and WorkerPool takes tasks as ids and leaves what a run does to TaskSlot.

## Runs

All twelve pass. States are distinct states.

| Run | What it checks | Instance |
|---|---|---|
| `slot_once` | The slot outlives every use, its output has one owner; TaskSlot implements TaskPromise, liveness included | one-shot, 2 handles that may join, poll or take, 2 workers |
| `slot_repeat` | The inductive invariant, a single run, no clone of recycled bytes, no leak; every listener asleep on the state word is woken | repeat of 3 runs that is joined, 2 handles, 2 workers, 1 death, a shutdown |
| `gate` | `GateInv`: a start finds its task, nothing runs after the release, no more starts than the count, a spent task is over. No accepted give is missed, the last giver ends the task. `RoundsReach`: a round taken out of the slots of a set reaches its target, which is let go once no round can fill | 2 givers and 2 tasks of a set, 2 workers, single runs or series of 2 with 2 gives counted, 3 gives tried, cancel, write-off, panic, refusal |
| `receivers` | `ReceiversInv`: one walk at a time, no output twice, every registration let go, the last output reaches all. Every walk ends | 1 registration linked at spawn or none, 1 late, 2 runs, cancel, take, panics, a far end that finishes |
| `table` | `TableInv`: no id in two places, the walk to the mark sees every id, exact peak. No page in use goes back to the kernel | 2 threads, 3 ids, 3 tag bumps, pages of 2 slots, refused blocks |
| `channel` | Exact bells, ends counted, each value goes in once; a parked send or receive is let go | 2+2 ends, 2 send tasks and 1 receive task, 2 values, capacity 1 |
| `signal` | Claims counted; no counted delivery is lost, across the wrap | 3 tasks of both policies, a release, width 3, 4 deliveries |
| `queue` | `QueueInv`: the count is never below what is queued, and no id is lost between sides or bands. The queue implements BandedFifo | 2 workers and the manager, 2 ids of which 1 may go, 2 bands, 3 pushes, 1 tick |
| `pool` | `PoolInv`: a task is in one place, the counts of threads hold and stay under the ceiling. `NoneSleptThrough`: when everybody sleeps, no task is left queued | 2 workers, 1 sleep thread, 2 tasks, in nine scenes |
| `parks` | `RunsAlone`: one thread has the task. `NoneStranded`: no task waits for what will not come, and a stopped runtime leaves none parked, armed or queued. `SeriesLetsGo`: a schedule is off the clock before its slot goes, no run works in a slot given back, and its last output reaches its registrations. `EverythingEnds` | 2 workers, manager with restarts (limit 1), one-shot, timed repeat with and without a timeout, schedules of 0 to 3 runs |
| `net` | `BytesKept`: no byte lost, doubled or out of order, across cancels and timeouts, but for the output of a receive stopped in the step that completes it (`NothingSpilt` below). `OutputShaped`: a receive yields what it asked for. `SocketsInv`: every socket has an owner or is closed, addresses are tried in turn, datagrams stay whole. `EveryoneEnds` | chunks of 2, 3 bytes a step, room for 2, two tasks a scene |
| `blocking` | `OutputWhole`: captured output is whole. `NothingLeft`: no child, pipe or watch stays. `CancelKeepsToItsOwn`: a cancel never meets a closed queue and cuts no other task short. `FilesWhole`: reads, writes and copies are whole. `TreesHold`: making and removing a tree does what it reports, inside its tree. `WaitsEnd`, and `WatchTells`: a change that lasts is reported | 2 threads and 2 cancels, pipes of 1, 3 names, 6 inodes |

### Further disagreements

Where the code and what it says of itself part. The first table has properties of the modules that TLC
refutes with the constants given (two handles or workers, for Gate as `gate.cfg`; everything not
named off or smallest); no configuration here lists them.

| Property | Constants | What happens, and what the code says |
|---|---|---|
| `TaskSlot!CancelSticks` | one-shot, `Deaths = 1` | `fail` (`executor.rs:2003`) checks the state and then stores `Failed`, over a cancel that landed in between; `task_handle.rs:275` "Every other listener's read returns `Cancelled` from here on" |
| `TaskSlot!EmptySlotUntouched` | one-shot, `Shutdown = TRUE` | The table walk of `shutdown_now` (`executor.rs:229`) stores `Failed` in a slot emptied since it looked; `task_data.rs:969` "nothing may touch the slot afterwards" |
| `Gate!SpentIsOver` | counted single runs, `Gives = 2`, `Attempts = 3` | `after_run` (`gate.rs:251`) reads `gives_left` before the last give has spent it and waits for gives it refuses; `task_builder.rs:464` "Once the last one's run, or series, is over the task is finished" |
| `Gate!CancelLetsGo` | single runs, `Attempts = 1`, `Cancels` | A cancel between publish and `after_run` (`executor.rs:2342`) is not let go while another giver lives; `executor.rs:2336` "let go when it ends" |
| `Gate!WrittenOffLetGo` | single runs, `Attempts = 1`, `WriteOffs` | A write-off that loses the gate to an ending run (`executor.rs:2456`) finishes the gate and nobody lets the task go; `executor.rs:2424` "One mid run is let go when the run ends" |
| `Receivers!OverLetsGo` | `Early = {}`, 1 late, 1 run, `Breaks` | A registration that attaches the extras between the close and the `Failed` of a panicked run (`executor.rs:1171`) stays; `receivers.rs:69` "a task that already publishes nothing more lets the registration go" |
| `SignalDispatch!HandedBack` | 3 droppers, no delivery | `install` and `restore` (`dispatch.rs:149`) swap the flag and call `sigaction` in two steps, so the handler can stay on a signal nothing holds; `dispatch.rs:192` "The last one out hands the signal back" |
| `TaskSlot!OutputOwnedOnce` | a repeat of 2 runs, both handles take | `claim_result` (`task_data.rs:410`) owns an output only until the next run recycles it; `task_data.rs:408` "Whether the caller now owns the output", `task_handle.rs:267` "Only one caller can ever get it" |
| `Gate!CountKept` | counted single runs, `Runs = 2`, `Gives = 2`, `Attempts = 3` | A give is spent (`gate.rs:198`) after the exchange it is for, so one too many can start; `gate.rs:211` "no two callers race for the same give", `task_builder.rs:460` "Stops taking what starts a run after `arrivals` of them" |
| `Gather!RoundStillFills` | as `gate.cfg` | A task of the set fills its slot for the next round and leaves, while another hands on the last one; that one lowers `giving`, reads `broken` and lets the target go although the next round could still fill; `gather.rs:141` "This one still can if that task's slot is already full" |
| `Receivers!EveryOutput` | 1 early, 1 late, 2 runs | An output published while another thread holds the walk (`receivers.rs:125`) can be skipped; `task_builder.rs:164` "a repeat gives every run's output" |
| `TaskTable!NoIdLost` | `MaxIds = 4`, `PerPage = 1`, no refusals | A trim (`task_table.rs:285`) can lose ids allocated past the mark it read; `task_table.rs:278` "Fails if somebody grew the table meanwhile, and then everything goes back" |
| `SignalDispatch!NotHandedBack` | 2 droppers, 1 delivery | The last watcher's drop (`dispatch.rs:204`) against a new catch puts the default back under the new task; `dispatch.rs:167` "so nothing is handed back underneath a task still waiting" |
| `WorkerPool!StoppedEmpty` | as `pool.cfg` | A caller past the look at `stopped` in `start_sleep` starts a thread after `shutdown_now` has returned; `executor.rs:113` |
| `StreamProperties!NothingSpilt` | as `net.cfg` | A receive cancelled or timed out in the very step that completes it leaves its output in the slot, to be dropped (`executor.rs:1189`), where it should go back; `stream.rs:441` "One that doesn't succeed, whether it times out, is cancelled, or finds the connection closed, puts back everything it read, so the next receive still gets it" |
| `BlockingTasks!NoStraySignal` | as `blocking.cfg` | A wait that reaped its child and finds itself cancelled (`process_task.rs:1513`) returns before `child.reaped()`, so the guard kills a pid already reaped; `process_task.rs:1517` "Reaped either way, so the guard never signals this pid" |

The rest was met while modelling. It is in the behaviours of the modules, or follows from the lines
named, and no property rules it out:

* Parks. `take_down` and `unpark` do not close the extras of a parked task (`executor.rs:2364` says who
  does). A restart that re-arms while a thread is between `arm` and `arm_timer`, followed by a shutdown,
  fails a task that runs (2634). `orphaned` releases a timed repeat that is Ready and queued, or one
  cancelled in mid run, under that run (2586). A deadline of a park, registered late, replaces the
  interval timer of a repeat on the same ident (1557). The look at the state in `park_task` can take
  down the park of the next run (1459). `timed_out` looks at the word and then exchanges, so a stale
  timeout can end a later run (1340), and `recover_waits` can register a stale word over the next one.
  `SeriesTask::launch` clones the user's task on the manager's thread (`series.rs:34`).
* Series. A run cancelled mid write returns without `close_finished_series` (`executor.rs:1004`). A
  schedule of N runs that all panic never settles. A delayed schedule with a count of zero, or past its
  deadline, ends Pending (`task_builder.rs:566`). The last run of a bounded schedule is launched, then
  the kind becomes `Once`, so its output is dropped if an earlier one was published. The failure path of
  `create_series` after the first launch leaves the extras open. A late `arm_timer` by the spawner of a
  delayed schedule can replace its repeating clock by a one-shot timer.
* Pool. `left`, `recover` and a begin lost to a stop push to the shared queue without waking anybody and
  rely on the next balance; the last one fails the task during a shutdown. `reap` can stop a worker just
  woken. A caller that began to wait while the manager lived sleeps without a slice, so never heals.
* Streams. A cancel of a parked receive wakes the listeners before the bytes are put back
  (`executor.rs:792`), where `timed_out` waits. A TLS receive that owes data waits for room before it
  reads, so two TLS peers that both send before they read can wait on each other; `EveryoneEnds` has a
  peer that reads.
* Programs. The guard in `running.rs:460` is dropped at once. A second `wait` on the status mutex is not
  reached by its cancel. A stale trigger can leave a sleep's timer on the queue, where nobody reads it.
* Files. A rename away and back, or a change undone, between two runs of a watch is not reported
  (`watch_task.rs:32` "A `.repeat()` of one loses nothing"), nor is a write followed by a removal for a
  watch of writes only, nor a removal between `open_watch` and the first snapshot, after which the watch
  waits for ever: so `WatchTells` is about changes that last. `copy` returns the size from before
  (`file.rs:295`); a copy onto itself truncates. A cancelled `lock` that wins the lock keeps it; two
  shared holders that both upgrade ask for ever. `read_dir` fails if an entry of unknown type vanishes.
  `create_dir_all` against a removal reports `ENOENT`.

So `gate` checks `CountKept` and `SpentIsOver` for series (single runs there are uncounted),
`LastGiverEnds` sets aside tasks that were written off, `AllLetGo` asks only of a task that closed or
settled with an output, `slot_repeat` has no taker, and a timed repeat in `parks` that meets a shutdown
does not lose its manager as well.

### Bounds

Every race in these modules is between two threads at one word, or between two threads with a third
one finishing: two handles and two workers, two givers, a registrant against the run, two allocating
threads give each pair, and `signal` has three tasks because a copy, a drop and a catch meet there.
Two or three runs let an output be published, recycled and replaced while the first is still read.
Three ids and three tag bumps allow the pop, pop, push, push that an untagged list fails on. Capacity
1 has both edges of the queue at once; the proofs cover every capacity and the unbounded channel.
Width 3 with 4 deliveries wraps the count. Two ids, one of which goes, and three pushes let a stalled
pop or flip meet an id that came back. Two workers of which one waits inside a task, and one sleep
thread under a ceiling of two, give every pair of looker and sleeper; the pool's scenes each allow one
mishap (a death, a refusal, a shutdown), since the code handles them one at a time. Two parks and two
runs let a late event or timeout meet the next park and the next run; two faults use up the restart
limit of one. A chunk of two bytes with three a step lets a delimiter straddle two reads and a budget
run out in mid message; room for two makes every send partial. Two file tasks on three names and six
inodes give a tree of two levels with another task inside it. In `parks`, `net` and `blocking` a scene,
chosen in the initial state, says which tasks there are and what may go wrong. The symmetry sets permute
interchangeable givers, workers, threads or tasks, and are used with invariants and action properties,
never with liveness. Deadlock is not checked, because a program that makes no more calls leaves every
one of these components at rest.

### Fairness

Weak fairness on a thread inside a call, a run or a walk: the OS schedules it. Weak fairness on workers
picking up queued tasks, on the sweep after a death, on the manager and the supervisor and on a shutdown
under way: the code loops on each. A timer that is registered goes off. No fairness on a user making a
call, on a cancel, on a death or on an event that depends on somebody else, with two exceptions that
are the assumption of the property: in `net` the other side answers, sends what is asked of it or ends
its stream, and reads; in `blocking` a program meant to echo goes on running. A parked channel task is
woken while its bell has a byte, which is what level-triggered `kevent` registrations give.
`slot_repeat` has no polling handle: a user who polls a repeat without ever pausing can keep `readers`
above zero at each moment `recycle` looks, which weak fairness allows. Gate, Gather, Injector and
WorkerPool ask their questions of quiet states, in which no thread is inside a call, so they need no
fairness; nor do TaskTable and SignalDispatch.

## Proofs

TLAPS checks the following for every value of the constants. The only assumptions are the named `ASSUME`s
on the constants and, where one is given here, the hypothesis of the theorem. Each component has one
inductive invariant, one lemma per group of actions that preserve it, and short theorems at the end.
Every inductive invariant was first model-checked on the instances of the runs.

* **TaskSlotProofs**: `SlotCorrect`, `SlotSafe`, `RunsAlone`, for any finite sets of handles and workers
  and any number of runs and deaths: types, the inductive invariant `SlotInv`, the slot outliving every
  use, and the task being with one run. The reference count alone is not inductive: that giving the
  executor's reference back is safe depends on there being one thread, or one queue entry, with the duty
  to do so (`DutyUnique`), which depends on the boxed task being in one place (`TaskHeldOnce`) and on
  runs being counted (`RunsRemain`). Each action moves one thread, so the counting lemmas (`CardStep`,
  `Deltas`, `Balanced`) reduce every case to whether that thread enters or leaves the sets counted. Most
  actions neither change a counter (`Steady`) nor take up the duty or the task (`Aside`), and `StepInv`
  settles those at once; the actions that hand the duty on (`Create`, `Push`, `Pop`, `After`, `Rearm`,
  `Release`, `Recover`, `Drain`, `Sweep`) are argued in full.
* **OneShotProofs**: `OneShotOwnedOnce`, `OneShotReadsLive`, `OneShotNoLeaks`, assuming `~Repeats`: the
  output of a one-shot is in the slot from `fill` until its taker empties it or the last listener drops
  it, and no clone is under way by then (`OneShotInv`, on top of `SlotInv`: a taker waits for `readers`
  to be zero, and `readers` counts the clones). For a repeat that is taken the statement is false, see
  the table above. `OneShotPromise` is the refinement of TaskPromise, initial states and steps: under
  the mapping of `KeepsPromise` every step of the slot is a step of the promise or leaves it alone. It
  assumes `~Repeats`, since the promise is about one output, and `~Shutdown`, since a shutdown can store
  `Failed` in a slot emptied since it looked (`slot_once`, which checks `KeepsPromise`, has neither).
* **FutureProofs**, about Channel: `ChannelCorrect`, `BellsAlwaysExact`, `ValuesGoInOnce`, for any ends,
  tasks, values and capacity: exact bells need the ends counted (a drop of the last end rings) and the
  queue within its capacity; values going in once needs to know where a value is before it goes in
  (`NotYetIn`).
* **FutureProofs**, about SignalDispatch: `SignalCounted`, `SignalsTold`, for any tasks of either policy
  and any width of the count. `NothingLost` compares two counters that wrap, so it rests on lemmas about
  remainders (`Apart`, `OneMore`) and on what a task that has not begun to count was told (`SignalInv`).
* **GatherProofs**, about Gate: `GateKept` and `LastGiverHeard`, for any givers, workers, runs, gives
  and kinds of task: a start finds its task, nothing runs after the release, no accepted give is missed,
  and the last giver ends the task. A waiting task has at most one claim on its next step (`OneClaim`:
  the queue entry, the thread about to queue it, the run, or the thread letting it go), and the gate
  word says whether there is one; the boxed task is where the claim says (`TaskPlaced`); what was
  accepted is bounded by what a run was handed whenever the gate says nothing is pending (`Reached`);
  and a gate that ended has somebody to release it (`Ended`). `CountsKept` adds the counts (`GateInv`)
  under two hypotheses. Only series count their gives: for counted single runs `CountKept` and
  `SpentIsOver` are refuted above. And `Gives # 0`: a count of 0, which `task_builder.rs:487` lets
  through, makes a task that waits though it is spent.
* **GatherProofs**, about Gather: `RoundsKept`, `RoundsCounted`, for sets of any size. The steps of a
  set on its target's handles are steps of Gate plus the copy of a handle, so the lemmas about Gate are
  stated for those (`GateStep`) and used again. Beside them `GatherInv` says that one round at a time is
  being handed on, that the handle of the set rests meanwhile, and that a target nobody can fill is
  about to be let go or has been.
* **ReceiversProofs**: `WalksReach`, for any registrations and outputs. `WalkInv` says that a request to
  walk is never lost (`Asked`): whenever a registration is owed the output or its release, a thread is
  still to make a pass that sees it, or the run is still to ask for one (`OutputAsked`, `ReleaseAsked`,
  `LateCloses`). That no output is handed over twice needs the generation to move only while no pass
  reads (`ReadCounted`, `HandedKept`).
* **ParksProofs**: `TurnsAlone`, which is `RunsAlone` for any number of threads, parks, runs, deaths of
  the manager and scenes that satisfy `ScenesHold`. There is one turn at the task (`Token`): the entry
  in the pool, a thread in the run, whoever took the park and is to queue the task again or take it
  down, the spawner before it has queued or armed it, or the park or the armed wait itself. The turn
  says where the task is (`Boxed`), that the slot is still held (`Held`, `Kept`), and which events still
  in the batch or on the kernel's queue may claim it (`Armed`, `Awaited`, `Early`, `Ending`); a schedule
  has no turn at all (`CalmInv`). `ScenesHold` is about timed repeats only: their manager may die no
  more often than it is restarted, and not at all if the runtime is also stopped. Outside it the
  statement is false, as TLC shows: see `orphaned` and the re-armed wait under the further
  disagreements.
* **SeriesProofs**: `ScheduleLetsGo`, which is `SeriesLetsGo` for any schedule and any number of runs,
  restarts and stops, without a hypothesis. `SeriesInv` says that the clock is off the queue before
  anybody is in a position to give the slot back, and that nothing puts it on again (`Off`, `Before`,
  `Ends`); that a run keeps its claim until it is over (`Claimed`); and, for what is forwarded, that
  whenever a finished schedule has an output that is out and registrations still open, whoever finished
  it or the run that wrote it is about to close them (`Closing`, `Written`, `Finished`).
* **SocketsProofs**: `SocketsKept`, which is `SocketsInv` for any number of tasks, addresses, connections
  and datagrams. A task's record says by itself which socket it holds (`Standing`), whose attempt that
  is (`Labelled`), what the addresses before it came to (`Tried`), how far the handshake is (`Shaken`)
  and why it failed (`Reported`). Between tasks, a socket is named after the attempt that opened it or
  after its place among the connections that came, which are taken in order (`Waiting`), so the sockets
  open are those held and no two tasks hold one (`Owned`). Datagrams are numbered as they come, and the
  next in line is the number taken and one more (`GramInv`). What happens to the bytes changes none of
  this but for the end of a request, which gives its connection back.

What is model-checked only: liveness and fairness, which the prover does not handle (`EverythingEnds`,
`EveryoneEnds`, `WaitsEnd` and the part of `KeepsPromise` that promises that a task settles); the chains of
links in TaskTable and Injector and with them the refinement of BandedFifo, which need induction over data;
`NoneStranded` of Parks, which is asked of quiet states; `BytesKept` and
`OutputShaped` of StreamProperties; and WorkerPool and the modules of the blocking tasks, whose runs ask of
one scene at a time.

## Not modelled

* Builders: typestate the compiler checks, which only fills in a `TaskSetup`. Task erasure, error types,
  the tuples of `handle_set` and `merge_set`: no state that changes.
* Computation itself (an arbitrary outcome of a run), and the injected faults of the test feature.
* Starting the runtime again after a shutdown, and two shutdowns at once; `join_first`; a schedule behind
  a gate (`rewait_series`); a start delay behind a gate.
* Socket options, socket pairs, the unlink of a bound path, the upgrade of an open connection to TLS and
  the TLS library; program arguments and the decoding of an exit status; sending a signal.
* Weak memory: every atomic is sequentially consistent. The 16-bit tag of the free list wrapping during
  one stalled pop. The packed indices of a worker's ring: a steal is one step.

## Plan

1. The worker ring at the grain of its exchanges, refining the sequence WorkerPool uses.
2. Lifecycle: start, stop and start again, with the supervisor, composed from Parks and WorkerPool.
3. A schedule behind a gate, composed from Series and Gate.
4. Proofs: `PoolInv` of WorkerPool, `NoneStranded` of Parks, `BytesKept` of Streams.
