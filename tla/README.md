# A TLA+ verification project for dcode

dcode is a coding agent: a Rust workspace (`codex-rs/`) whose *core* runs the
conversation of a thread with a model, whose *app-server* serves many clients
over JSON-RPC, and around them the stores, sandboxes, protocol clients and user
interfaces they need.  This directory models the concurrent control of the
system: who may run when, what happens to a piece of input between two awaits,
and which counts and maps must agree.  Every definition is a translation of the
code; `PROJECT.json` maps each one to its lines.

## 1. Inventory

| Component | State it keeps | Operations | Talks to | What is hard | What makes it correct |
|---|---|---|---|---|---|
| Request serialization queues (`app-server/src/request_serialization.rs`) | a map from key to a queue of requests, one drain task per entry | `enqueue`, `enqueue_background`, `drain` | processor loop, gate | enqueue against the drain task that removes the entry; readers and writers; panics | writers run alone, arrival order, one drain task per key, everything settles |
| Connection gate (`connection_rpc_gate.rs`) | `accepting`, a token per running handler | `run`, `close`, `shutdown` | queues, cleanup task | a request whose turn comes after the disconnect; the 30 s timeout | nothing starts after close; a cleaned connection is quiet |
| Processor loop (`app-server/src/lib.rs`, `message_processor.rs`) | the connections | dispatch, disconnect, two kinds of shutdown | all of the app-server | cleanup tasks outlive the connection | as above |
| Session tasks (`core/src/tasks`) | `active_turn`: a turn state and at most one running task | `spawn_task`, `start_task`, `maybe_start_turn_for_pending_work`, `abort_all_tasks`, `abort_turn_if_active`, `on_task_finished` | submission loop, workers, guardian, extensions | every procedure yields several times while others take or fill the slot | one task at a time, one terminal event per turn |
| Input queue (`core/src/session/input_queue.rs`) | pending items and delivery phase per turn state, the mailbox | enqueue, drain, extend, defer, accept, clear | tasks, workers | items move between owners across awaits | no accepted item is lost |
| Injection (`core/src/session/inject.rs`) | none of its own: a reservation in `active_turn` | `inject_if_running`, `inject_no_new_turn`, `try_start_turn_if_idle` | extensions, tasks | check, reserve, re-check, start | never steals the slot |
| Submission loop (`core/src/session/handlers.rs`) | one Op at a time | user input, interrupt, compact, mail, shutdown | tasks | concurrent with everything a worker starts by itself | shutdown is final |
| Guardian breaker (`core/src/guardian/review.rs`) | denials per turn | abort of a turn from a spawned task | tasks | a second abort path | as session tasks |
| Agent registry (`core/src/agent/registry.rs`) | agent tree, thread index, atomic count | reserve, reserve path, commit, drop, release | agent control | reservation held over awaits; count outside the lock | maps inverse, no leaked slot or path, the limit |
| Agent control, residency (`core/src/agent/control*`) | the list of resident V2 agents, pending slots, execution limit | spawn, message, follow-up, reload, evict, close | registry, thread manager, sessions | a candidate is off the list while its shutdown is awaited; a call is dropped with its turn | slots come back, no loaded agent is forgotten, calls return |
| Thread manager, thread lifecycle | loaded threads, listeners, subscriptions | start, resume, unload, archive | registry, residency, app-server | idle unload against a new subscriber | no live thread without an owner |
| Rollout recorder, thread store (`rollout/src/recorder.rs`, `thread-store/src/local`) | buffered items, the JSONL file and its ordinals, SQLite rows with a checkpoint | append, persist, flush, shutdown, discard, resume | session | failed and torn writes, a retry, a dropped future, a crash before the projection | items become durable in order and once; SQLite never gets ahead |
| Writer lock (`thread-store/src/local/writer_lock.rs`) | a lock file per thread, a coordination lock | acquire, release, removal of stale files | recorders of all processes | an flock belongs to an inode, and the file is unlinked | one writer per thread |
| Rollout compression (`rollout/src/compression.rs`) | the plain and the compressed file | compress a cold rollout, materialize it for append | recorders of all processes | no lock: it trusts length and modification time | readers lose nothing |
| Memory pipeline (`state/src/runtime/memories.rs`, `memories/write`) | job rows with leases, outputs, watermarks | claim, heartbeat, succeed, fail, pollute, delete, reset | startup runs of all processes | leases expire under slow workers; rows are deleted under running ones | late results are refused; what was deleted stays deleted; what is marked as consolidated is what was |
| Unified exec, exec server | process store, sessions | open, write, prune, close | tools | exit against write, pruning at the limit | bounded store |
| MCP clients, file watcher, transports | connections, subscriptions, queues | start, refresh, cancel, notify | session, app-server | refresh against shutdown | no lost cancellation |
| Message history, hooks, patches, policies, sandboxes, configuration, protocol types, login, model clients, code mode, UI, telemetry | files, rules, HTTP | - | - | I/O or pure data | not of a model checker's kind |

`PROJECT.json` lists all of them with their status, and under `hazards` the
lines where concurrency, failure, ordering or a limit bites.

## 2. Plan

Order: first what every client request and every turn goes through, then what
multiplies it (sub-agents), then what makes it durable, then what works in the
background.

1. *(done)* `RequestSerialization` with its proofs: the scheduler and the gate.
2. *(done)* `TurnLifecycle` with its proofs: the slot of the active turn, the
   input, the aborts.
3. *(done)* `AgentRegistry` with its proofs: slots, paths and maps.
4. *(done)* `AgentResidency` with its proofs: resident V2 agents, eviction,
   execution limit.
5. *(done)* `ThreadLog` and `RolloutLog` with their proofs: an abstract log, and
   the recorder, its writer task and the projection that implement it.
6. *(done)* `WriterLock` and `RolloutFiles` with their proofs: the lock between
   processes, and the two representations of a rollout composed with it.
7. *(done)* `MemoryJobs` with its proofs: the leases of the memory pipeline.
8. Open, in this order: an abstract reader-writer lock that
   `RequestSerialization` implements; listeners and subscribers of the app-server;
   the process store of unified exec.

## 3. Modules

### RequestSerialization

One module for the queues, the gate and the parts of the processor loop that
feed them, since the correctness of each is stated in terms of the others.

* `queues`, `entries`: the `HashMap` of `VecDeque`s; an entry may exist with an
  empty queue.  `KeyOf` and `AccessOf` are `from_scope`.
* `drainer[r]`, `batch[r]`: the drain task spawned by the enqueue of `r`, and the
  requests it joins.  `DrainPop` takes one Exclusive request or the longest run
  of SharedRead ones, `DrainReturn` removes the entry under the same lock.
* `status[r]`: the life of a request.  `GateRun` is the gate's test and token,
  `Finish` its end, `Panic` an unwinding handler: `join_all` polls the batch
  inside the drain task, so the whole batch goes, and nobody removes the entry.
* `accepting`, `cleanup`, `loop`: gates, cleanup tasks, processor loop.  A
  timeout may strike at any time; a forced shutdown closes no gate.
* `ticket`, `clock` record the arrival order for `FifoPerKey` and are read by no
  action.

### TurnLifecycle

Actors are the submission loop, an extension, the guardian's abort task and one
worker per turn.  Each runs the async procedures of `Session` as a small program:
`pc[a]` is the place between two awaits, `frame[a]` its locals.  All procedures
may run in every actor: a worker that finishes runs `FTake`, `FRecord`, `FEmit`,
`FClear` and then `MCheck`, `MReserve` and the steps of `start_task` for the next
turn.

* `active` is `Session::active_turn`; a turn state is a number, so that
  `Arc::ptr_eq` is equality.  Reservation: a turn state without a task.
* `pending`, `phase`, `mailbox`: the input queue.  `accepted`, `history`,
  `discarded` record what became of items.
* `SDrain`, `SState`, `SExtend`, `SInstall` are the four parts of `start_task`.
  An overwritten `RunningTask` is dropped and kills its worker.
* `TakeActive`, `AbortWait`, `AbortEmit`, `AbortClear` are both abort paths.  The
  grace period may end at once, so the worker may be killed at any point.
* `XBegin` .. `XVerify` are `try_start_turn_if_idle`.
* The worker's requests to the model are abstracted to what they do to the
  input: record it, drain pending items, put mail off, reopen, return.

`Scopes` is a set of records: which Ops and actors an instance exercises, and with
how many turns; the initial state picks one.

### AgentRegistry

`tree` and `threadPaths` are the two maps, changed under one mutex; `count` is
the atomic beside them.  `res[s]` is the `SpawnReservation` of a spawn, resume or
restore under way.  A V1 agent is registered under `thread:<id>`, modelled by the
thread itself; V2 agents have paths.  `Close` and `ReleaseEntry`, `ReleaseCount`
are the steps of `shutdown_live_agent`; `Unload` is the app-server's removal of a
thread, which does not tell the registry.  `version` is the multi-agent version
that all agents of a session inherit: V1 sessions spawn under the limit and
resume, V2 sessions spawn by path and restore.  Nicknames are left out.

### AgentResidency

The residency list from outside the registry: `residents` and `pending` are
`V2ResidencyState`, `loaded` the threads of the thread manager, `known` the agents
the registry has metadata of (at first those of an earlier run, restored and not
loaded).  `caller[c]` is a tool call of some agent, a small
program over `ensure_v2_agent_loaded`, `spawn_agent_internal`, `reserve_slot` and
`try_unload_one_resident`, with one action per stretch between two awaits:
`PopCandidate`, `Inspect`, `SubmitShutdown` and `Unload` are the eviction.
`sess[t]`, `chan[t]` and `mbox[t]` are as much of a session as the list sees: its
status, its submissions in order, and its mailbox (`TurnLifecycle` has the rest).
`gen[t]` tells the sessions of one thread apart, because `shutdown_and_wait` holds
a session and `remove_thread` names a thread.  A call that has its slot goes through
`spawn_thread`: `Lookup` returns a thread that another call has loaded meanwhile,
or removes the entry of a session that died; then the session is made, and `Create`
inserts it.  Two sessions of one thread are never up together, since the store
refuses a second live writer.  `Cancel` drops a call at any await, because the
caller's turn is aborted: the guard of a slot gives it back, and nobody undoes the
rest.  A candidate taken off the list stays off, and a reload that is dropped in
`emit_thread_resume_lifecycle`, after the insertion into the map and before the
commit of its slot, leaves a thread that was never listed.  `leaked` has both.  (A
spawn awaits nothing there.)  The execution limit is tested in `BeginSpawn` and `CheckCapacity`,
and taken unconditionally when the turn starts (`HandleMail`), as in the code.
`Scopes` has the capacities that an instance exercises, with a bound on the calls.

### ThreadLog and RolloutLog

`ThreadLog` is the promise: an append-only log with a volatile buffer, whose
barriers cover only what is in the log.  `RolloutLog` is the code: `file` (lines
with an ordinal, of which the last may be torn or lack its newline), `writer`
(`RolloutWriterState` and the place of the writer task), `pending`, `chan` (the
bounded command channel), `client` (the store operation under way, which holds
the thread's `live_writer_lock`), `proj` (the rows in SQLite with byte and
ordinal checkpoints).  One step of the writer is one file operation.

Faults: opening, writing and flushing may fail (`OpenFails`, `WriteFails`), and a
failed write leaves nothing, a fragment, or all of its line but the newline; the
code reopens and tries once more.  A caller's future may be dropped (`Cancel`),
the process may die (`Crash`), the transaction may fail (`ApplyFails`).  What the
operating system accepted survives: a live rollout is never fsynced, so loss of
power is outside the model.  What a reader sees is said by positions: `Parsed` are
the lines that parse, `Fresh` the first lines of their records, and `At(s, S)` the
elements of `s` at the positions `S`, in order.  `ReadLine` is one round of the
loop of `read_projection_steps`, `Steps` the loop, as a recursive function.

`ImplementsThreadLog` is the refinement: the log is the history a reader sees
without its SessionMeta (`Logged`), the buffer what is pending or queued and not
readable (`Unwritten`).
A record that a retry wrote twice counts once: readers of the legacy history see
it twice, which is said under the hazards.

### WriterLock and RolloutFiles

`WriterLock` is the protocol of the lock files of one thread.  `path` is the
inode behind the name, `lfd[p]` the one a process has open, `locked` who has an
flock on it, `coord` the coordination lock.  `Sweep` and `Unlink` remove a name;
`DropUncoordinated` is a release whose coordination fails; `Die` closes the files
of a process at any point.

`RolloutFiles` extends it with the files of the thread.  `plain` is the inode of
the `.jsonl`, `zst` the content of the `.jsonl.zst`, `mtime` whether a file is old
enough to be compressed.  `Resume` .. `Open` are `open_rollout_for_append` with
`materialize_rollout_for_append_blocking`, under the lock; `StartJob` ..
`RemovePlain` are `compress_rollout_if_cold_blocking`, without it; one file
operation per step.  `Age` lets a week pass: neither a job nor a resume lasts that
long (`WORKER_MAX_RUNTIME`), an open session may.  There is one job at a time, by
the run marker.  That is an assumption: a marker older than six hours is taken over
(`compression.rs:287`), in the rare case by two processes at once, or under a worker
that is suspended for longer than its time limit; section 4 says what two workers
could do.  I/O errors are the matter of `RolloutLog`.

### MemoryJobs

The rows of `jobs` and `stage1_outputs` with the startup runs that work on them.
An action is one transaction, or one step of a run between two.  `jobs[t]` is a
stage-1 row, `global` the row of stage 2, `run[r]` where a run stands, with the
scan it claims from, its claims and the inputs it selected.  A time is kept as
what remains of it, and `Tick` lets time pass anywhere: a lease may run out
between any two steps of its owner.  A run claims a job at most once, so it serves
as its own token.  `Later` stands for the present, which `pollute` and `delete`
use as a watermark.  A thread's memory mode may be turned off and on by the user
(`SetMemoryMode`); pollution is three statements, a deletion two transactions in two
databases (`DeleteThreadMemory`, `DeleteThread`), and `op[t]` is the place between
them: of one such operation per thread at a time.  Threads are updated all the
time, and the scan is the only place that looks: it sees any later time.  Stage 2
selects its inputs page by page and then row by row (`SelectKey`, `EndKeys`,
`ReadRow`, `CheckRow`), with everything else happening in between; the rank, the
number and the age that decide which memories are taken are abstracted to any
subset of the enabled ones.  `baseline` (what the last successful stage 2 used), `by` and
`stale` (claims older than a deletion) are history variables.  The files of the
memory directory are abstracted to who is at work in it (`InWorkspace`).

### MC modules

`MC*.tla` declare the model values, the scopes and the symmetry sets; the `.cfg`
files give the constants.  Symmetry is used only in runs of safety properties.

## 4. Runs

| Run | Instance | Shows |
|---|---|---|
| `serialization` | 3 requests, 1 connection, one key with readers and writers, fair | `ExclusiveRunsAlone`, `EntryIsItsDrainer`, `FifoPerKey`, `QuietAfterCleanup`, `NoStartAfterClose`, `EveryRequestSettles` |
| `turn_safety` | client scope: 3 turns, 2 user messages, 1 queued mail; agent scope: 4 turns, 3 mails, 2 extension items | `TypeOK`, `EndsWithOneTerminal`, `RunningTurnIsActive`, `InputAccountedFor`, `SlotFreeAtInstall` |
| `turn_live` | mail scope: 3 turns, 2 trigger mails, 1 queued mail; lone scope: 1 turn, guardian, interrupts, shutdown, injection; fair | `TriggerMailIsHandled`, `StartedTurnsEnd`, `ShutdownEndsTurns`, and `EndsWithOneTerminal` with the guardian |
| `registry` | 2 spawners, 4 threads (one stored), 2 paths, limit 2, 2 closes; V1 and V2 without resumes, V1 with them | `TypeOK`, `MapsAgree`, `ReservedPathsAreHeld`, `CountCoversAgents`, `LimitHolds` |
| `rollout_log` | 2 items, channel of 1, 2 I/O errors, 1 loss, fair | `TypeOK`, `ImplementsThreadLog`, `OrdinalsCountRecords`, `ProjectionIsPrefix`, `ProjectionNotWedged`, `OperationsReturn` |
| `rollout_files` | 2 processes, 2 lock inodes, 3 file inodes, 2 items, 2 deaths | `OneRecorder`, `PlainIsNewest`, `ReadersLoseNothing` |
| `residency` | 3 threads (one stored), 2 callers, execution limit 1, capacity 1 with 4 calls and capacity 2 with 3, 1 dropped, fair | `TypeOK`, `SlotsAreHeld`, `LoadedIsTracked`, `OvershootIsBounded`, `CallsReturn` |
| `memory_jobs` | 2 runs, 2 threads, 2 update times, all delays 1, cap 1, one deletion, pollution, reset or mode turned off | `TypeOK`, `OutputMatchesJob`, `RunningWithinCap`, `DeletedStaysDeleted`, `SelectionIsExact`, `WatermarksAdvance` |

`TypeOK` of `RequestSerialization`, and `TypeOK`, `HeldIsNamed` and `StagesAgree` of
the rollout files, are proved and not checked a second time.

Four more runs look for a counterexample and find it; each is a finding:

* `turn_slot_race`: a worker that ends starts the turn that mail asks for; while
  it awaits in `start_task`, a user message starts a turn in the submission loop.
  Both install, against the `debug_assert!` of `start_task`.
* `registry_leak`: resuming a V1 agent that the app-server unloaded takes a
  second slot for one entry.
* `rollout_files_race`: a session resumes a cold thread and appends between the
  compression job's last comparison and its removal of the plain file.  The append
  was flushed and acknowledged, and goes away with the unlinked inode.
  `ReadersLoseNothing` says that no other step takes records away from readers; what
  a session appends to the inode after its removal is lost as well, and is what
  this run shows.
* `memory_consolidations`: a reset deletes the row of a consolidation that is
  running; the next run claims the job, and both work in the memory directory
  (`Lease` is 3 there, so that the reset is the shortest way).

**Known not to hold.**  The scopes of `TurnLifecycle` and `AgentRegistry` separate
Ops whose mixes are known to fail; the hazards of `PROJECT.json` name the lines.
With trigger mail, the abort of a shutdown starts the turn that the mail asks for,
and it survives `ShutdownComplete`.  An interrupt that clears the slot of a turn
whose worker is finishing leaves trigger mail in the mailbox until the next Op.
With the guardian and a second user turn, `on_task_finished` detaches another
turn's task, and a turn ends twice.  An item injected between the last drain and
the clearing of the slot is lost, as is one put into a reservation that an
interrupt takes.  A close that overlaps a resume of the same agent lets one agent
too many in (`LimitHolds` is stated for sessions without resumes).

**Seen while modelling.**  Further windows that no text of the repository promises to
close, and about which no property is stated:

* a torn SessionMeta line makes an acknowledged thread impossible to resume
  (`recorder.rs:940`; `StartsWithMeta`);
* a recorder that reopens its file after an I/O error creates it
  (`recorder.rs:1594`): if the compression job removed the plain file meanwhile,
  an empty one shadows the compressed one;
* the eviction's `remove_thread` goes by id and may remove a session that another
  call has loaded since (`residency.rs:147`), and a message sent between the death
  of a session and its removal makes the registry forget an agent that could have
  been reloaded (`control.rs:269`);
* a thread polluted or deleted after the selection is still part of the
  consolidation under way (`memories.rs:439`), and a claim made from a scan older
  than a deletion stores a memory of a deleted thread (`memories.rs:255`), as does
  one from a scan between the two transactions of the deletion (`threads.rs:1068`);
* a memory extracted again between the selection and the mark is left unmarked, so
  that polluting or deleting its thread enqueues no forgetting, although the
  consolidated files have the older snapshot and the comment at `memories.rs:604`
  speaks of threads that "participated in the last successful phase-2 baseline";
  the same happens when the mark falls between the first two statements of
  `mark_thread_memory_mode_polluted`.  The next stage 2 finds the difference in the
  directory in any case;
* `memories/README.md:90` says that memories without `last_usage` are taken by
  `generated_at`; the query takes them by `source_updated_at` (`memories.rs:464`);
* two compression workers on one rollout (see `RolloutFiles`) could leave a
  compressed file that is longer than the plain one: the second encodes after an
  append that the removal by the first then loses, a resume materializes the older
  copy with the same modification time, and the second's comparison of length and
  time may pass;
* an agent whose shutdown timed out may outlive the lease that is kept for it
  (`phase2.rs:415`), ownership may be lost between its confirmation and the reset
  of the baseline (`phase2.rs:461`), and an extraction that kills the process uses
  up no retry (`memories.rs:1001`);
* Thread and ThreadPath requests about one thread have different keys and run side
  by side (`request_serialization.rs:69`).

**Bounds.**  `Requests`, `Turns`, items, `Spawners`, `Threads`, `Callers`, `Runs`
are finite sets of identities, each used once where the code makes new ones; an Op
that would need one beyond them does not happen.  Three requests make a run of
readers with a writer behind it, or a writer between two others; three turns make
an ending, a starting and a replacing turn coexist; two spawners compete for a
path, and beside a registered agent for the last of two slots.  A turn has at most
three turn states (a reservation and two `get_or_insert_with`), which is what
`States` counts.  Two I/O errors fail a write and its retry; a channel of one
makes every second send wait.  Two deaths leave a lock file behind twice, or both
files half way through a compression and a materialization; three file inodes are
what two writers and a name can hold.  Two calls at capacity one make each evict
while the other creates; four calls reload what was evicted.  At capacity two both
can reload one agent at once, and one of them loses the race.  Two runs are enough
for a lease to pass from one to the other while the first still works; with all
delays at one, every order of expiry and completion happens.  `MaxCloses`,
`MaxFaults`, `MaxLosses`, `MaxDeaths`, `MaxCancels`, `MaxForgets` and the calls of a
scope bound what may otherwise happen without end.  The run of `RequestSerialization`
has one key, on which all the interplay is; any number of keys and connections is
the matter of the proofs.

**Deadlock** is checked in `rollout_files`, where a week can always pass, and in
`memory_jobs`, whose clock always ticks; elsewhere an instance may simply have no
more work.

**Fairness.**  Weak fairness of the steps of a spawned task: tokio polls every
task that is ready, locks are fair mutexes, and a handler or a request to the
model ends (it returns, fails or times out).  In `RolloutLog` the writer task and
the operation that waits for it are polled; in `AgentResidency` the calls and the
submission loops, while nothing says that a turn ends.  A client is never obliged
to submit anything, timeouts are never obliged to strike before the awaited event,
and there is no fairness for faults, deaths, `ConnectionClosed`, `Interrupt` or
`Shutdown`.

## 5. Proofs

TLAPS proves, for every choice of the constants that satisfies the named
assumptions of the modules (distinct null values and actors, scopes of the known
kinds, paths distinct from threads, finite `Threads` and `Callers` where sets are
counted, bounds that are natural numbers).  Each inductive invariant was checked by
TLC on a small instance before it was proved.

* `RequestSerializationProofs`: `SpecTypeOK`, `SpecExclusiveRunsAlone`,
  `SpecEntryIsItsDrainer`, `SpecFifoPerKey`, `SpecQuietAfterCleanup`,
  `SpecNoStartAfterClose`.  Exclusion is not inductive by itself.  `IInv` adds
  that a queue holds each request once and only waiting ones (`QueueInv`), that
  live drain tasks, keys and map entries correspond (`TaskInv`), and that a popped
  request sits in the batch of a task of its key, alone unless all of the batch
  are readers (`BatchInv`).  Then two running handlers of a key are in the batches
  of live tasks of that key, hence of one task, hence both readers.  Arrival order
  needs `OrderInv` besides: tickets grow along a queue, and what has left it is
  older than what is in it.  The gate theorems rest on `GateInv`: a gate that the
  loop closed stays closed, and a connection that was drained has no token.
* `TurnLifecycleProofs`: `SpecTypeOK`, `SpecRunningTurnIsActive`,
  `SpecEndsWithOneTerminal`, `SpecShutdownEndsTurns`, `SpecSlotFreeAtInstall`,
  `SpecInputAccountedFor`, for any number of turns and items.  They have a
  hypothesis, `OneDriver`: the Ops of a behaviour are those of a client
  (`ClientOps`) or those of agents and an extension (`AgentOps`), as in the scopes
  of the run `turn_safety`.  It is needed: with both at once `turn_slot_race` shows
  `SlotFreeAtInstall` false, and with the guardian a turn may end twice.
  `KInv` says how the slot is owned.  Whoever is about to install a task finds none
  in the slot (`FreeInv`), is alone at it (`SoleInv`), has no finishing worker that
  would clear the slot under it (`ApartInv`) and knows the turn state there
  (`HoldInv`); the task in the slot is live, and a live worker is in the slot or
  cancelled and awaited by an abort (`LiveInv`).  Then exactly one of the worker and
  the abort sends the terminal event (`TermInv`, `AbortInv`).  `SpecInputAccountedFor`
  has a second invariant, `DInv`, on top: who may hold items between two awaits
  (`ItemInv`), which turn states have no pending input (`EmptyInv`), and that a
  client's slot without a task belongs to a finishing worker (`IdleInv`), so that an
  abort that takes it loses nothing.  It assumes `NoInject` as well: an item
  injected into a turn that has recorded its leftover input is lost (see above).
* `AgentRegistryProofs`: `SpecTypeOK`, `SpecMapsAgree`, `SpecReservedPathsAreHeld`,
  `SpecCountCoversAgents`, `SpecLimitHolds`.  `MInv` adds
  what the root's entry may be (`RootInv`), what a reservation knows at each of
  its steps (`ResInv`) and both directions of holding a path, with uniqueness
  (`HeldInv`): a commit overwrites an entry, and that this never orphans another
  thread's index or another spawn's path depends on all of them.  The counts are
  arguments about cardinalities: `CountInv` says that the count covers registered
  agents, reservations and unpaid releases, `ExactInv` that without resumes it is
  equal to them, which needs that a restored or new thread is not registered yet
  (`RestoreInv`, `FreshInv`).  `LimitInv` bounds the count, and every loaded thread
  is counted.
* `AgentResidencyProofs`: `SpecTypeOK`, `SpecSlotsAreHeld`, `SpecLoadedIsTracked`,
  `SpecOvershootIsBounded`, for any number of calls and dropped calls.  `RInv` says
  what a call knows at each of its steps (`CallerInv`), that every loaded thread is
  listed, a candidate, being committed or left behind by a dropped eviction or a
  dropped reload (`TrackInv`), and the bound
  (`BoundInv`): tracked threads and threads about to be created are together at most
  the capacity, one for each other call, and those left behind.  A reservation is
  granted against the list and the pending slots, so all that it overlooks is what
  the other calls have in their hands, and that is at most one thread each.
* `RolloutLogProofs`: `TypeCorrect`, `OrdinalsCounted`, `ProjectionGoesOn`,
  `AcknowledgedIsDurable`, for any number of items, I/O errors and losses and any
  bound of the channel.  The ordinals of a file say nothing of what the writer will
  append next, so `LogInv` ties them to the recorder.  `Ordinals`: equal ordinals
  mean equal records, and there is no gap below a record.  `NextOrdinal`: the
  writer's ordinal comes after every record in the file, save one that a failed
  write left whole, which is the very one it is about to write again (the
  SessionMeta, or the head of `pending`).  `QueuedOnce`: an item waits at one place
  of `pending` and the channel, and every item of this recorder is readable or
  waits.  `Protocol` says that an answer owed goes to the client that waits for it,
  that nothing is behind a barrier that will be answered, and that a writer that is
  done has nothing pending: hence an Ok covers what was submitted
  (`AckedIsReadable`).  `Dropped` and `Handle` carry all this over losses, resumes
  and reopened files.  `ProjInv` describes a checkpoint (`Projects`): the lines up
  to its offset, without a repeated record, and their items by ordinal; both the
  stored one and the plan that was read and not yet applied are such.  That the scan
  of any file from a checkpoint ends in a checkpoint (`Scanned`) is shown for the
  recursive function by its first line that would fail.
* `ThreadLogProofs`: `ProjectionPrefix` and `RecorderIsThreadLog`, from the same
  invariant.  Both compare lists given by positions, so the module first shows what
  `At` is: the rank of a position is one to one (`ListRank`, `ListAt`), and a
  position added at the end or removed at the front appends to the list or takes its
  head (`AtAppend`, `AtTail`).  In the refinement `Record` is `Submit`; a line
  written whole, by a write that succeeds or one that fails only at the newline, is
  `Commit` when its record is new, and a stutter when it is the SessionMeta or a
  repetition (`WholeLog`); `Finish` is `Acknowledge`; the end of a shutdown is
  `Close`, since then nothing is buffered; `Crash` and `Discard` are `Lose`,
  `Resume` is `Reopen`.  All other steps leave log and buffer alone.
* `RolloutFilesProofs`: first the protocol alone, `LockExcludes`: `HeldIsNamed` is
  the inductive invariant, and exclusion follows, since two holders would hold
  one inode.  `SpecImplementsLock` is a refinement: every step of `RolloutFiles` is
  a step of `LockNext` or leaves the lock alone, so that the theorem about the
  protocol carries over.  `StagesAgree` is inductive together with the types and
  the lock: a writer that materializes has the lock, so there is one; it does so
  only without a plain file, while a job that has copied needs one.
  `SpecOneRecorder`, `SpecPlainIsNewest`, `SpecStagesAgree` and the action property
  `SpecReadersLoseNothing` follow, for any number of processes and deaths.
* `MemoryJobsProofs`: `SpecTypeOK`, `SpecOutputMatchesJob`,
  `SpecDeletedStaysDeleted`, `SpecRunningWithinCap`, `SpecWatermarksAdvance`,
  `SpecSelectionIsExact`.
  `JInv` adds what a run knows of a job that still carries its token: the row's
  input is what the run claimed, which is past the last success, and the claim is
  not stale.  Without it a late worker could not be told from an owner.  The cap
  is an argument about cardinalities: only `ClaimStage1` adds a lease, one, and
  below the cap.  `SpecSelectionIsExact` has an invariant of its own, `SelInv`: what
  the last successful stage 2 consumed (`BaselineIsOld`), and what the owner of the
  global job has selected so far (`SelectionIsOld`), is not newer than the thread's
  last successful extraction.  A new memory is newer than that success, so it can
  never be taken for a snapshot that was consumed, and one that is replaced never
  comes back.  A reset starts over, and takes the row of an owner that selected
  before it; for a thread that is being deleted only the first half is claimed, that
  no mark is of another snapshot.

Only model-checked: all liveness (`EveryRequestSettles`, `StartedTurnsEnd`,
`TriggerMailIsHandled`, `OperationsReturn`, `CallsReturn`), out of the prover's
reach for fairness and ENABLED; and the properties of `TurnLifecycle` where the
guardian takes part (the run `turn_live`), for which `OneDriver` is too narrow.
Every invariant and action property that a passing run checks is stated by a
theorem, as is the refinement of `ThreadLog`.

## 6. Not modelled

Request handlers, initialization and outbound routing of the app-server; model
I/O, tools, approvals, hooks and compaction inside a turn (they are awaits of the
worker); review and user-shell tasks, which take the same path as compaction;
durable sleeps; activity watchers of the input queue; nicknames of agents;
listeners and subscriptions of threads; legacy (unpaginated) threads, forks and
archives of the thread store; the compression worker's walk over the directories;
the contents of the memory directory, and the ranking and the age limit of memories
(any of them may be selected or not); loss of power;
and the components listed as `not_modelled`, with their reasons, in
`PROJECT.json`.  Most of the repository's lines are of that kind: user interface,
protocol types, configuration, clients of HTTP services and operating-system
isolation, whose correctness is a matter of data and I/O rather than of
interleavings.
