# TLA+ verification of port-scan

`port-scan` probes lists of IPv4 targets and ports, writes one CSV row per probe
and can be stopped and resumed. A scan has three steps, each its own process:
`pre-ping` (which addresses answer), `generate-buckets` (cut the targets into
chunks and write a bucket snapshot) and `scan` (probe, write rows, update the
snapshot). Beside them stand tools that prepare the CIDR file (`enrich-targets`,
`csv-transform`, `preprocess`, `cidr-compare`). This directory models all of them, with TLC
runs on small instances and TLAPS proofs for every instance of the core.

The question behind most of it: **whatever stops a scan (Ctrl+C, a second Ctrl+C,
a kill, a worker panic, a full disk, a dead pressure API), may the next run trust the
snapshot?** The code answers with goroutines that hand tasks to each other over
bounded channels while they shut down; no unit test reaches most of these orders.
The second question: **does an index of the snapshot mean the same target in every run**,
although each run derives the targets again from the CIDR file?

## 1. Inventory

| Component | State | Operations | Interacts with | Hard about it | Correct when |
|---|---|---|---|---|---|
| `execute` (`pkg/scanapp/scan_runtime.go`, `resume_manager.go`, `chunk_lifecycle.go`) | contexts, error of the run, snapshot path | load, wire, wait, rewind, save, choose the error | everything below | what it decides after goroutines raced to the end; save after a failure | the snapshot never runs ahead of the files; no error is lost |
| Dispatcher (`task_dispatcher.go`) | loop position, chunk cursor | acquire token, wait at gate, queue task, advance cursor, delay | bucket, controller, task queue, trackers | the cursor moves after the task was queued | every index below the cursor is accounted for |
| Executor (`executor.go`, `queue_size.go`) | workers, three bounded queues, first fatal error | probe, send result, abandon, recover a panic | dispatcher, result loop | select races, panic while unwinding, closing order | every queued task comes out as a result or as abandoned; the executor ends |
| Result loop (`scan_result_loop.go`) | channels still open, run error | one select case per source | all | which case wins; errors that arrive last | ends only when all is drained; keeps a fatal error |
| Output committer (`output_committer.go`, `output_files.go`) | batch, first index per chunk, failed flag | accept a row, commit, finish | trackers, two CSV files | one of two flushes fails, rows keep coming afterwards | a row counts only when both files hold it |
| Chunk trackers (`chunk_state_tracker.go`) | cursor, committed count, status, first unwritten | advance, increment, mark, rewind | dispatcher, committer, loop | several writers, several runs | cursor, count and status agree in every snapshot |
| Speed controller (`pkg/speedctrl`) | two pause flags, gate channel | set, toggle, gate | poller, keyboard, dispatcher | a waiter holds a replaced channel | no lost wake-up |
| Pressure monitor (`pressure_monitor.go`) | failures in a row | sample, pause, give up | pressure source, controller, loop | gives up while the pause is set | only three in a row stop the scan, and never silently |
| Keyboard loop (`pkg/speedctrl/keyboard.go`) | terminal mode | read, toggle, restore | controller | blocked in `Read` on cancel | the terminal is given back |
| Rate limiter (`pkg/ratelimit`) | token channel, ticker | acquire, replenish, close | dispatcher | select races, dropped ticks | the rate bound; a cancel always returns |
| Snapshot save (`pkg/state`) | destination, temporary file | stat, create, write, sync, rename, clean up | `execute` | any call fails, process or machine stops | destination is the old or the new snapshot |
| Snapshot load, schema | the file | encode, decode, validate | `execute`, generate-buckets | limits, legacy array, newer builds | accepts what was saved, refuses what it cannot prove |
| Interrupt escalation (`pkg/state/signal.go`, `cmd/port-scan`) | signal channel, exit code | first, second, stop | process, save | a second signal before the first is handled, or during the save | graceful once, forced twice; the exit code tells what is on disk |
| Configuration (`pkg/config`) | - | parse, convert, validate | all commands | multiplication into bytes | an accepted limit is the one asked for |
| Pressure source (`pkg/pressure`) | OAuth token cache | sample | pressure monitor, dashboard | expiry between check and use; one of several sources fails | highest of all sources, or an error |
| Dashboard (`dashboard_*.go`) | pause flags, pressures, streaks | observe, show, stop | controller, poller | several readers of a changing state | what is shown is the truth, or soon will be |
| Pre-ping (`pre_ping.go`, `pre_scan_ping.go`, `reachability.go`) | worker pool, first error, list, output file | ping, classify, report, collect, publish | the `ping` command, generate-buckets (reads the list) | a failing worker cancels the others; late results; a cancel that looks like a missing reply | a published list is complete and true; a cancel is reported only if there was one |
| generate-buckets (`bucketgen.go`) | slots of the fan-out | load, estimate, blocklist, group, fan out, save | snapshot | interrupt during the fan-out | the snapshot is the plan of the rows |
| Group builder, target resolution, expansion limits | - | pure | generate-buckets, `execute` | ownership after filtering, integer width | index and target agree across runs; limits hold |
| Input (`pkg/input`) | duplicate table, byte and record counters | read, parse, validate | all commands | a file that grows, a full table | a repeated row is found |
| Result files (`output_files.go`, `batch_output.go`, `pkg/writer`) | two CSV files per batch, buffers | name, open, append, flush | committer, later runs | torn last record, header of an appended file, name collisions, late and abandoned results | rows stay, loss is bounded, one header, a summary tells what its run wrote |
| Tools beside the scan (`cmd/*`, `pkg/enrich`, `pkg/preprocess`, `pkg/cidrutil`) | output file | refuse, convert row by row, flush | the CIDR file | nested segments; a disk that fills up | no closed target is planned, no opened one lost |
| Progress, logs, build information, performance harness, test kit | little | format, measure | - | - | - |

`PROJECT.json` lists all components with their files and status, and the hazards
with the line where each bites.

## 2. Modules

| Module | What it is |
|---|---|
| `ScanPipeline` | the scan step: `execute`, dispatcher, executor, result loop, committer, trackers, over several runs of the process |
| `ScanInvariants` | the inductive invariant `SafetyInv` and the refinement mapping |
| `ResumableScan` | abstract: what a resumable scan promises its operator |
| `ScanClaims` | statements of comments and docs that the code does not keep |
| `MCScanPipeline` | instances for TLC |
| `SpeedController` | pause flags, gate channel, waiters |
| `LeakyBucket` | token channel, ticker, replenisher, `Acquire`, `Close` |
| `DispatchPacing` | composes the two: a dispatcher takes a token, passes the gate, sends |
| `PauseControl` | composes `SpeedController` (by INSTANCE) with poller, keyboard, dispatcher at the gate, and process exit |
| `Dashboard` | adds to `PauseControl` the goroutine that shows the pause state |
| `PressureSource` | one sample: endpoints, token cache, time |
| `PressureView`, `MCPressureView` | what the poller and the dashboard make of the samples |
| `SnapshotSave` | temp file, sync, rename, with failures at every call |
| `CommandFlags` | which numeric flags a command accepts, with the integer width |
| `InterruptEscalation` | extends both: a process from its flags over its work and its save to the exit code, with interrupts at any time |
| `PrePing` | `RunPrePing`: feeder, workers, the ping's classification, collector, output file |
| `TargetGroups` | operators: rows to groups of tasks, rich and basic |
| `UnreachableList` | operators: pre-ping's CSV and what generate-buckets reads back |
| `ExpansionLimits`, `InputRows`, `SnapshotFile` | operators: the estimate; parsed rows and the duplicate table; what a snapshot file holds |
| `TargetPlan`, `MCTargetPlan` | generate-buckets and the runs of the scan over one CIDR file |
| `TargetPrep`, `MCTargetPrep` | the tools in front of `TargetPlan`, which they feed |
| `ResultFiles`, `MCResultFiles` | the result files record by record, over several runs |
| `ScanPipelineProofs`, `PrePingProofs`, `ResultFilesProofs` | theorems of the module they are named after |
| `DispatchPacingProofs` | theorems of `SpeedController`, `LeakyBucket` and their composition |
| `InterruptEscalationProofs` | theorems of `SnapshotSave`, `CommandFlags` and the process around them |
| `DashboardProofs` | theorems of `PauseControl` and `Dashboard` |
| `PressureProofs` | theorems of `PressureSource` and `PressureView` |
| `TargetPlanProofs` | theorems of `TargetGroups`, `ExpansionLimits`, `InputRows`, `TargetPlan` and `TargetPrep` |

### ScanPipeline and the code

Disk state (`scanFile`, `openFile`, `saved`) survives a run, everything else is
reset by `Exit`. A task is a pair (chunk, index); a row is its task. `OpenTasks` says
which probes answer "open", hence which rows also go to the open-only file.

* `StartRun` is `execute` from the snapshot load to the goroutines: cursors from
  the snapshot, files appended to if the snapshot names them and new otherwise.
  `RefuseRun` stands for every earlier return (descriptor limit, inputs, snapshot,
  authorization, limits, plan, output, cancelled context): none touches the
  snapshot or the files it names.
* `DispatchChunk ... DispatchClose` are the waits and state changes of
  `dispatchTasks` and of the goroutine around it; `dpc` names the wait.
  `DispatchFail` is an error of a step of the loop other than the context's.
* `WorkerTake ... WorkerReportFatal` are a worker's select, telemetry gate
  (`WorkerStart` refuses a probe once the executor is stopping), probe, the two-way
  send, the drain after a cancel, and the deferred recovery, which hands the task
  to `abandonedCh` and reports the fatal error. `WatchCancel` is the goroutine that
  marks the executor as stopping, `CloseExecutor` the one that closes the channels.
* `LoopApiErr ... LoopExit` are the select cases of `runResultLoop` and its last look at
  the pressure channel; `Accept`, `Commit`, `Finish` are the committer, `LoopFinish`
  and `Persist` the end of `execute`: rewind, decision to save, save, error
  precedence. `outcome` is the class of the returned error.

Choices:
* `scanFile` and `openFile` hold the rows that are *guaranteed* on disk (flushed). The
  buffered writer may spill earlier; that can only add rows, which the properties
  that matter allow.
* The cancel of a parent context and of its children is one step, as are the three
  closes of the closer goroutine (nobody can act on a part of them).
* The save is one step here; `SnapshotSave` shows that this is right.
* A `Crash` is the end of the process, not of the machine: flushed rows stay.
* `PressureFatal` may come at any time; `PauseControl` shows when it really does. The gate
  is one Boolean; `SpeedController` has the channels.
* Panics come from the probe, the one call in a worker that runs foreign code.
* Marked mutants in the modules are plausible bugs, used to show that each
  property can fail; no specification uses them.

### The other modules

`SpeedController` numbers the gate channels in order of creation; a waiter fetches one
under the lock and receives later, so it may hold an old one. `PauseControl` adds the
poller (`PollWait`, `PollSample`, `PollFail`, `PollApply`), the keyboard goroutine,
the goroutine that restores the terminal, and `os.Exit`, after which nothing moves.
`LeakyBucket` gives the ticker its one-slot channel (ticks are dropped) and splits
`Close` into its look and its close. `SnapshotSave` has one action per filesystem
call; what the filesystem does is external and pessimistic: unsynced bytes may be
torn by a power failure, and a rename may be lost with it.

`DispatchPacing` lets two dispatchers share both: the code has one, but the controller and
the bucket are written for several, and two make the races visible. `Dashboard` reads
the two pause flags apart, as `startControllerTelemetrySync` does.

`InterruptEscalation` runs one process after another. `scan` has a signal channel of two,
the escalation goroutine and `stop`; the other commands have `signal.NotifyContext` (a
cancel, nothing more), `validate` not even that, so that a signal ends it. The work of a command
is one state, left at any time; its save is `SnapshotSave`, call by call. A forced exit or a default
death cuts the save where it is. Flags are parsed before, from values at the edges of the integer
width (`CommandFlags`, `MaxInt` 127 for 2^63-1).

`PressureSource` counts time in small units relative to now: a token has the time left
as the server counts it and as the client believes. Requests take up to `Timeout`. A body is a sequence of
entries, some of which the code skips. `PressureView` adds failures in a row and
the values shown.

`TargetPlan`: addresses are numbers, segments aligned intervals, tasks pairs of address
and port. `StatInput`, `ReadInput`, `EndInput` are the two size checks; `GenerateGroups`, `BuildChunk`,
`Interrupt`, `SaveBuckets` are generate-buckets; `LegacyBuckets` and `NewerSnapshot` put the
snapshot of another build on the disk; a file is read twice, and refused when the number of its records changed between the count and the parse; `Execute` is `execute` from the load to the plan, with all its
refusals; `StopScan` ends a run with any cursors that `ScanPipeline` allows. `original` and
`scanned` are history. The blocklist is what pre-ping would have written for the dead
addresses (`UnreachableList`), or a file that somebody edited.
`TargetPrep` runs the tools row by row; a write may fail, and buffered rows reach the disk when
the writer pleases. Its result becomes the input of `TargetPlan` (`UsePrepared`).
Lists are sorted and filtered with `Sorted` (the k-th element has k - 1 others before it) and `Selected`, two plain
definitions of which the proofs can say what they return. `InputsAssumption` and `SourcesAssumption` say
what a file may be: any number of records, a segment of any positive size at any place, any port number; flags and
reasons come from small sets in which one value stands for all that the code treats alike. The sizes in a list of
segments divide each other, as powers of two do.

`ResultFiles` keeps the order of the records, which `ScanPipeline` drops. A buffer is written
in pieces; a piece may end within a record, or exactly before the newline of the header (a "bare" header). The tasks
are dispatched in order; their results come in any order (`queued` is the queue and the workers in one), late ones after a
failure (`AcceptLate`) or not at all (`Abandon`: a panic, or no probe after a stop). `MarkUnwritten`, `RewindUnwritten` and
`Persist` are the tracker's mark, the rewind and the save, which may fail. Between runs the operator may once remove,
empty or replace a file. `ClassifyDialError` gives the status of a row by platform.

`PrePing` numbers the unique addresses and keeps a history of what each ping really
did (`answer`), which the code never sees whole. `Handoff` is the meeting of feeder and
worker at the unbuffered channel; `Ping`, `CheckContext` and `Classify` are `CheckDetailed`
with its two looks at a context apart, because a cancel can come between them;
`Checked`, `Report`, `Fail` and `CancelPool` are the rest of a worker's round;
`Collect` and `CollectEnd` the collector; `CheckListed ... PrintPath` the end of `RunPrePing`.
The pool reads one flag, `RunDone`: cancelled by the operator or by a worker.

## 3. Runs

| Run | Instance | Shows |
|---|---|---|
| `scan_resume` | chunks of 2 and 1, 2 workers, flush every 2, 2 runs; interrupt, kill, panic, output and save failures | no skipped row, silent success is complete, no late probe, cursors grow, refinement of `ResumableScan` |
| `scan_paused_stop` | one chunk of 4, 1 worker (queues of 2: the dispatcher blocks), gate may stay closed; refusals, interrupt, panic, failing dispatcher, pressure and output failures | every stop ends the run, no fatal error is lost |
| `dispatch_pacing` | 2 dispatchers, capacity 2, 2 ticks, 3 channels, a closer | no lost wake-up, one release per pause, rate bound, resume releases, a cancelled dispatcher returns |
| `pause_control` | 1 high sample, 2 keys | three in a row, automatic pause ends, terminal restored on cancel, the dashboard catches up |
| `pressure_source` | 2 endpoints, tokens of 5 time units, margin 3, timeout 1 | a cached token outlives its request, a sample is the maximum of all sources or an error, the screen says so |
| `pre_ping` | 3 addresses, 2 workers; interrupt, kill, every outcome of a ping, failing output | list complete and true, no invented cancel, always ends |
| `snapshot_save` | 3 saves, 3 interrupts per process, flags at the edges | whole destination, true report, old or new, true exit code, only the second interrupt cuts, and it always ends the scan, accepted flags fit |
| `target_plan` | some 3,000 inputs: files of up to 3 lines over nested and disjoint segments, limits around the width, blocklists, source tables | targets keep their index, every target once, disjoint segments always resume, limits hold, duplicates are found, no closed target, no opened one lost |
| `result_files` | 2 open ports, flush every 2, 3 runs, 2 names; results in any order, abandoned tasks, failing writes and saves, kills, an operator | loss bounded by cut records, one header, rows stay, a summary tells what its run wrote although rows above a rewound cursor are repeated |
| `scan_success_claim`, `row_port_claim`, `output_failure_claim` | small | refute a statement of the repository, see section 6 |

Why the bounds are enough to be interesting: two workers let results overtake
each other, so that a hole below the cursor appears; two chunks let one batch span
chunks and let a run end between them; a batch of two leaves a part batch at every
stop; two runs let a run inherit a rewound snapshot. A single worker with queues of two and four
tasks fills the queue, so the dispatcher blocks in its send. Three gate channels allow two
pauses, one of which a waiter can sleep through. Three addresses and two workers let one worker fail while the other holds an
address and a third is still with the feeder. Three interrupts are one more than the escalation
needs, so that one comes during the forced exit. A /31 inside a /30 and a segment apart are the smallest
nested and disjoint ones; three rows make an owner, a rival and a deny row. Two tasks and three runs
let a run append to a record torn by a run that had itself appended; with batches of two, the last flush of a run leaves a
committed row above a task that was abandoned, and the next run repeats it. There every port is open: the theorems hold for every set
of statuses, and `output_failure_claim` has three. The proofs cover the rest for the core.

Bounds: `MaxRuns` (starts of the process), `MaxGates` (channels; the pause that would
create one more does not happen; `PauseControl` never reaches it), `MaxHigh`
(high samples: the pressure is not high for ever), `MaxKeys`, `MaxTicks`, `MaxSaves`,
`MaxInterrupts`, `MaxSeq` (names tried in one second), `MaxTotal`
(tasks of a chunk), `MaxEntries` (entries of a body). In `ResultFiles` a finished scan is not started again, and a new snapshot counts as a start.
`target_plan`, its claim and `snapshot_save` check no deadlock: a refused input, a finished scan and the last process really stop.

### Fairness

Weak fairness of goroutines: the Go scheduler runs whatever can run.

* `Dispatcher`: a token is eventually granted (the bucket refills while the
  run lives) and the delay ends. At a closed gate it can only move on a cancel.
* `Worker(w)`: a dial ends by its timeout. `CloseExecutor`, `ResultLoop`, `Persist`:
  goroutines that wait for channels. `WatchCancel` gets none: no property needs it.
* `Poller`: the ticker ticks and a sample returns (the request has a timeout).
* `PrePing`: every worker, the feeder, the closer and `RunPrePing` itself; a ping ends by the
  timeout of its process.
* `Replenisher` and the dispatchers of `DispatchPacing` whose wait can end; the bucket's ticks have
  none, so that a cancelled dispatcher must return without one.
* `InterruptEscalation`: the escalation goroutine and the exit that it forces. The command's work and its save
  have none: `SecondInterruptEnds` holds even if they hang.
* `Dashboard`: the goroutine of `PauseControl` and the sync loop, whose ticker ticks while the run lasts.
* Interrupts, crashes, panics, failures, key presses, pauses and ticks of the bucket: none.

`StopEndsRun` needs no fairness of the gate; that is its point.

## 4. Proofs

For every number of chunks, tasks, workers, runs, every flush interval and every set
of faults that `ScanAssumption` admits (natural numbers, a finite non-empty set of workers):

* `TypeCorrect`: type correctness, from the stronger `TypeInv`, which also says which
  places of a worker hold a task and where the dispatcher's index is relative to the cursor.
* `Invariant`: `SafetyInv`. `NoSkippedRow` is not inductive: to save a cursor safely, each
  task below it must be on disk or marked. `Accounted` says that a dispatched task
  is on disk, in a channel, at a worker, in the batch, or marked (`Settled`);
  `Shutdown` says that at the save all those places are empty, because the
  loop waits for the channels, the channels for the workers, and the workers for
  the queue; `BatchKnown` says a failed commit marks its whole batch; `Ranges` keeps
  marks above the cursor that the run started from, so that a rewind never
  undoes an earlier run; `UnnamedIsEmpty` lets a fresh file begin at zero;
  `DispatchDone` ties a nil dispatch error to the end of every chunk, for `SilentReturn`.
* From it: `NothingSkipped`, `SilentReturn`, `CursorGrows`, `NoLateProbe` (with a
  small invariant of its own) and `Refinement`, each step of the pipeline being a step or a stutter
  of `ResumableScan`.
* `FatalSurvives`: `FatalErrorSurvives`, from `FatalKept`: a panic is with a worker that will report it, in `errCh`,
  or in the run's error; `errCh` is closed only after its workers, and the loop leaves only when it is drained.
* `ControllerInvariant`, `NeverLost`, `AtMostOneRelease` for any number of waiters and
  channels. `BucketInvariant`, `RateLimit` for any capacity (clamped as in
  `NewLeakyBucket`), callers, closers and ticks. The composition keeps both: `PacingImplementsBucket`
  maps each step of the dispatchers to a step or a stutter of the bucket; the controller has one step less than
  they need, since a cancelled dispatcher leaves the gate while it is closed, so `PacingInvariant` shows that
  this step, too, keeps `ControllerInv`. Together: `PacingIsSafe`.
* `PauseImplementsController`: whatever poller, keyboard, dispatcher and dashboard do to the controller is one of its
  operations, hence all that is proved of it holds of them. `OnlyAfterThree` rests on `PollInv`: the poller's counter is never
  ahead of the failures that really came in a row, and it is gone once it has reported.
* `SaveInvariant`, `AlwaysLoadable`, `TrueReport`, `AtomicReplace` for any number of saves; `ProcessImplementsSave` and
  `ProcessKeepsSnapshot` carry them to the processes with their interrupts. `TrueExitCode` and `FirstNeverCuts` need
  `ProcInv`: signals waiting and taken are never more than were sent (`InterruptsAreReal`), a save runs only while the
  process listens to them (`SavesListen`), and what main carries to its exit is what the save has reported (`EndIsTrue`).
  `FlagsAreTrue` holds for every `MaxInt` and every unit: the guards divide before anything is multiplied.
* `PressureInvariant`, `FreshToken`, `TrueSample`, `TrueView` for any number of endpoints, any lifetimes and answers.
  `FreshToken` needs that the margin is longer than two timeouts (`PressureAssumption`; in the code
  30 seconds against 2): the answer that brought the token may be one timeout old, the request that carries it
  takes another (`TokenInv`).
* `FilesInvariant`, `BoundedLoss`, `HeaderOnce`, `RecordsStay` for any number of tasks, runs and names, any flush
  interval, and writes and kills that tear any record. `LossIsBounded` speaks of stopped scans only; what is inductive is
  `CostInv`, a ledger: the tasks that have no row, and one more if the file now ends in a cut record, since the next
  one to be appended will be glued to it. A run pays at most one more, and only for a cut of its own. That the rows which
  count are on the disk is `RowsInv`, that a header is written exactly into an empty file `StreamInv`, that a
  resumed run has the file and the cursor it was told of `RunInv`. Results come in any order, so `RowsInv` says of each
  dispatched task that it is waited for, lies at or above the first mark, or has a row (`Settled`): a rewind to the
  first mark leaves only tasks with rows below it.
* `PrePingInvariant`, `TrueList`, `HonestCancel` for any number of addresses and any `-workers`. A true
  list needs `CompleteInv`: as long as nothing is cancelled, an address that left the feeder is with a
  worker or settled (it answered, or its miss is collected or on its way). An honest
  cancel needs `CancelInv`: a "canceled" in the results channel has a real
  failure before it, unless the operator cancelled; that the worker sends its error before
  it cancels the pool is what keeps it.

* `TrueSummaries`: the completion summary of a run counts, by status, rows that this run has added to the file. When no write
  has failed it counts all of them (but for one glued to a cut record); a failed batch is counted by nobody; and the run
  moves the cursor over no more tasks than it reports. `CountInv` says that the counts are a tally of the flushed rows, and
  `Settled` that each task which the cursor passes is one of them. The summaries of several runs do not add up to the number of
  tasks: a row committed above an abandoned task is written and counted again after the rewind, as
  `resume_manager.go:18-21` and `:64` say.
* `TargetPlanProofs`, for CIDR files of any length. `RichGroupsAreDisjoint`, `RichGroupsAreComplete`: the first row to bring a
  task is a least index, so each task has one owner. `FallbackGroupsAreDisjoint`, `FallbackGroupsAreComplete`: the first
  segment that has an address is the one with the fewest rows before it. `FilteredGroupsStay`: if segments do not overlap,
  a segment owns whatever its rows bring, hence any file with the same rows of that segment and the same deny rows,
  as `FilterRecords` leaves them, gives it the same group. `CountIsExact`: the guard that divides says the same as the product
  that it avoids. `RichTasksFit`, `FallbackAddressesFit`: what a run holds is never more than the estimate. Loops (the
  estimate, the duplicate table, `FlattenSeq`) are recursive functions; that such a function exists, and what it
  computes, is shown by looking at the least place where it would fail, which needs no induction theorem.
* `DuplicateTableIsExact`: the table has at least as many slots as rows, so the probe of a row meets an empty slot or an equal row; every
  row placed is reached from its hash through occupied slots only. `DuplicatesFound` carries this to the state machine.

The state machine of the targets, from the source tables over the tools, the buckets and all runs of the scan
(`PrepSpec`), has four inductive invariants:

* `PlanInv`: the tasks that the chunks stand for are those of the plan, the snapshot on disk has a chunk for each group with
  its total and its ports, what lies below a cursor is scanned, and a run has the original tasks of every unfinished chunk.
  The last part is the heart. A resumed run builds groups from the rows of the unfinished segments only, so a segment may
  have lost rivals. Its group can then only have grown; the run accepts it only if the total is still the same; a set
  that grew and has the same size is the same set, and sorted it is the same sequence. From it `PlansKept` and, with
  the fact that pre-ping's list has exactly the dead addresses among those that rows ask for, `TargetsOnce`.
* `LimitInv`: the limits of a run come from a flag, the snapshot or the defaults, and the estimate for the unfinished
  segments bounds what their groups store. From it `RunsStayWithinLimits`.
* `ResumeInv`: buckets exist only for a file whose rows lie inside their segments. From it and `FilteredGroupsStay`
  `DisjointAlwaysResumes`: without overlaps the rebuilt groups have not even grown.
* `ToolInv`: what a tool has written, holds in its buffer and has still to write is its output, in this order; a
  tool that returned 0 has written all of it and its input was whole; every line of a prepared file has the form and the segment
  that its tool gives it. `ClosedNeverPlanned` adds that segments nest (`SegmentsNest`: of two aligned blocks with an
  address in common, whose sizes divide each other, the larger contains the smaller): the segment written for a host in a listed closed
  segment is the smallest that has the host, hence inside the closed one, hence dropped. `OpenAlwaysScanned` goes the
  other way: a line that is dropped has a closed segment around its host; and the loader has no complaint about a line that is kept.

What these theorems assume. `PlansKept`, `TargetsOnce`, `RunsStayWithinLimits` and `DisjointAlwaysResumes` are about files
without row ports: rich files, and basic files with fallback ports. With row ports `PlanKeepsTargets` is false (section 6).
`TargetsOnce` and `OpenAlwaysScanned` need `ListFits`: the blocklist is pre-ping's, or a file with just the dead addresses;
with an operator's own list something else is to be scanned. `RunsStayWithinLimits` needs `SizesFit`: sizes of segments fit
the integer width, which 32-bit addresses in 64-bit counters always do. `ClosedNeverPlanned` has no hypothesis.

Only model-checked:

* all liveness properties (`StopEndsRun`, `ResumeReleases`, `CancelledDispatcherReturns`, `AutomaticPauseEnds`,
  `CancelRestoresTerminal`, `DashboardCatchesUp`, `PrePingEnds`, `SecondInterruptEnds`), which are beyond the prover, as is `ENABLED`;
* the properties of `TargetPlan` on basic files with ports of their own, as far as `target_plan` has such files.

## 5. Abstractions and limits

CSV and JSON text, timing, log output and row metadata are abstracted away; a conversion is
modelled by what it accepts and what becomes of it. `ScanPipeline` has indices, `TargetPlan` has what they
stand for, and each takes from the other what that one shows: that cursors only grow
and a snapshot is saved when something is left, or after an error or a cancel; that an index keeps its target.
The byte limit of the port file is not modelled (it is the reader of the CIDR file, whose limit is), its record limit is. A CIDR file
that is written to while it is loaded may be refused as changed; the rows are those of the second reading.
All chunks of an older snapshot have ports or none has; any of them may lack a total. `ResultFiles` has one chunk, and does
not order a cancel against the worker's two looks at it, as `ScanPipeline` does.

Not modelled, and why: log and progress wording, build information (no state that decides anything); the layout and the
task counters of the dashboard; string and Boolean flags; the `validate` command beyond the load it shares; HTTP, DNS and
the dial (given by their outcomes); two processes at once on the same files (see
section 6); the performance harness, test kit, end-to-end tools and labs, which are a third of the Go
lines and exercise the program without being part of it.

## 6. Where documents and code disagree

Refuted by a run:

* `SuccessIsComplete`: a Ctrl+C after the last task was queued abandons the queue, saves
  an incomplete snapshot and still returns nil, so the process exits 0, not 130 as
  `docs/interrupt-handling.md` says. No row is lost: the snapshot is right.
* `PlanKeepsTargets` on rows with ports of their own in overlapping segments. Take
  (10.0.0.10, 10.0.0.10/31, 80), (10.0.0.11, 10.0.0.10/31, 443), (10.0.0.10/31, 10.0.0.8/29, 443), (10.0.0.10, 10.0.0.8/29, 80).
  The first two rows own 10.0.0.10:80 and 10.0.0.11:443. When their chunks are done, a resumed run rebuilds only the
  rows of the /29, now without their rivals: the chunk with port 443 gets 10.0.0.11 instead of 10.0.0.10, has the same
  `total_count` and is accepted. 10.0.0.10:443 is never scanned. The comment at `chunk_lifecycle.go:95-101` says
  such a change is "caught loudly". With disjoint segments all is well (`target_plan`).
* `CoversEveryTarget`: after a failed write the file may end within a record; the resumed run appends to it, and
  its first row is glued to the torn one. README.md:388 says the resumed run "covers every target".
  `LossIsBounded` shows that one row per torn record is all that is lost.

Observed while modelling, without a run:

* `runResultLoop`'s comment says "the first non-nil runErr wins" (`scan_result_loop.go:49-50`);
  an output error (lines 112-115, 152-155) is assigned without that check and replaces an
  earlier one. `FatalErrorSurvives` still holds: some fatal error is returned.
* In `CheckDetailed` a cancel between the two looks at the context (lines 71 and 80 of
  `reachability.go`) turns a broken ping into a missing reply. `TrueList` shows that
  no such answer gets into a published list, because the run ends as cancelled or failed.
* `WithAPIEnabled`'s comment says `SetAPIPaused` has no effect if disabled; the option
  only clears the flag at construction, and `controller_test.go` expects the pause to work.
* `LeakyBucket.Close` looks and closes in two steps: two concurrent calls can both
  close the channel. A scan has one caller, and `CloseInv` shows that it is safe then.
* After `Close` the replenisher may still add a token, when its select prefers a tick.
* `openResultCSV`'s comment (`output_files.go:50-51`) says a graceful stop leaves a file that matches the
  cursor; with out-of-order results it may hold rows beyond it, which the next run repeats.
* SPEC-08 (lines 111-113) says the keyboard loop "restores terminal state on exit"; the goroutine that does so waits for
  the cancel, nobody waits for it, and `os.Exit` may come first.
* Names of result files are looked for and created in two steps: two scans started at the same moment can share files
  (README.md:379 calls them "collision-safe within the same second").
* A record torn within a quoted field swallows more than one following line.
* `validateAppendHeader` (`output_files.go:105-110`) takes the end of the file for the end of the header line: after a write
  that was cut exactly before the newline of the header the file counts as headed, and its first row is glued to the
  header. `OneHeader` says so, and `LossIsBounded` counts it as a cut record.
* `csv-transform` defers its flush and close and ignores their errors, so that it can exit 0 with a truncated file
  (its README: "Transform succeeded, output file written"); with no data rows it leaves an old output in place and exits 0.
* `csv-transform` writes one fixed segment for every host; hosts outside of it, such as the 192.168.1.1 of its own README,
  are rejected by the scan's parser. A blank service label makes the scan reject an enriched row.
  `preprocess` filters by segments, not by hosts.
* Metadata merged from a row that a resumed run filters out is lost, although a comment speaks of byte-for-byte identity.
* `parsePressureInterval` multiplies seconds by `time.Second` and may wrap; so may `expires_in` (harmless: the token is
  fetched again). A token that the server refuses or revokes stays cached until it is about to expire.
* pre-ping and generate-buckets take one interrupt; a second Ctrl+C is swallowed until they end.
* A blocklist file that does not exist is silently an empty one.
* A dispatcher that panics between send and cursor and is recovered counts a task twice; only the displayed count is off.

## 7. Plan

Done: the core, the life of a process, the targets from the source tables to the resumed scan, the files,
pressure and dashboard; proofs of all safety properties that the runs check, with the hypotheses named in section 4. Left:

1. Basic files with row ports whose segments do not overlap: `PlanKeepsTargets` and `DisjointResumes` hold there in
   `target_plan`; a proof needs what `RowPortGroups` computes, as `FallbackTasks` has it for the fallback ports.
2. `PauseControl`: what the controller promises (`NoLostWakeup`, `OneReleasePerPause`), restated for the goroutines of a scan.
3. `ScanPipeline` and `TargetPlan` meet in prose (section 5): `StopScan` takes any cursors that `ScanPipeline` allows. A module
   that maps the one to the other would make this a theorem.
