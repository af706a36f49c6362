---------------------------- MODULE ScanPipeline ----------------------------
(***************************************************************************)
(* The scan step of port-scan: the dispatcher, the bounded task queue, the *)
(* probe workers, the result loop with its output committer, the per-chunk *)
(* trackers and the resume snapshot, across several runs of the process.   *)
(*                                                                         *)
(* Every goroutine of pkg/scanapp is a group of actions.  The disk (the    *)
(* two result files and the bucket snapshot) survives a run; everything    *)
(* else is lost when the process ends or is killed.                        *)
(***************************************************************************)
EXTENDS Integers, Sequences, FiniteSets

CONSTANTS
    NumChunks,      \* chunks of the bucket snapshot, scanned in this order
    TotalCount,     \* total_count of every chunk
    Workers,        \* the worker goroutines
    FlushInterval,  \* -output-flush-results; 0 commits only at the end
    OpenTasks,      \* tasks whose probe answers "open" (also in the open-only file)
    Faults,         \* what the environment may do, a subset of FaultKinds
    MaxRuns         \* bound: how often the operator starts the scan

Chunks == 1..NumChunks

\* A scanTask: the chunk and the index in it (chunkIdx, taskIdx).
Tasks == UNION {{c} \X (0..(TotalCount[c] - 1)) : c \in Chunks}

FaultKinds ==
    {"start", "interrupt", "crash", "panic", "dispatch", "output", "api", "save", "pause"}

ASSUME ScanAssumption ==
    /\ NumChunks \in Nat
    /\ TotalCount \in [1..NumChunks -> Nat]
    /\ Workers # {}
    /\ IsFiniteSet(Workers)
    /\ FlushInterval \in Nat
    /\ OpenTasks \subseteq Tasks
    /\ Faults \subseteq FaultKinds
    /\ MaxRuns \in Nat

VARIABLES
    \* On disk.
    scanFile, openFile,   \* rows flushed to the result files the snapshot names
    saved,                \* the bucket file: next_index, scanned_count, status, output paths
    \* The operator's view.
    run, outcome, snapshotWritten,
    \* runResultLoop and the end of execute.
    pc, drained, runErr, dispatchErr, apiErrCh, panicked,
    \* Contexts: runCtx cancelled; stopExecutor called.
    ctxDone, execStopped,
    \* Chunk trackers.
    nextIndex, scannedCount, status, firstUnwritten,
    \* Dispatcher.
    dpc, dChunk, dIndex, dErr, dispatchErrCh, gateOpen,
    taskCh, taskClosed,
    \* Executor.
    wpc, wtask, resultCh, abandonedCh, execClosed, errCh,
    stopping, totalStarted, startedAtStop,
    \* Output committer.
    failed, buffered, earliestTask, chunkPending, pendingCount

diskVars       == <<scanFile, openFile, saved>>
operatorVars   == <<run, outcome, snapshotWritten>>
errVars        == <<runErr, dispatchErr, apiErrCh, panicked>>
loopVars       == <<pc, drained, runErr, dispatchErr, apiErrCh, panicked>>
ctxVars        == <<ctxDone, execStopped>>
trackerVars    == <<nextIndex, scannedCount, status, firstUnwritten>>
dispatcherVars == <<dpc, dChunk, dIndex, dErr, dispatchErrCh, gateOpen>>
queueVars      == <<taskCh, taskClosed>>
telemetryVars  == <<stopping, totalStarted, startedAtStop>>
workerVars     == <<wpc, wtask, resultCh, abandonedCh, execClosed, errCh>>
committerVars  == <<failed, buffered, earliestTask, chunkPending, pendingCount>>

vars == <<diskVars, operatorVars, loopVars, ctxVars, trackerVars, dispatcherVars,
          queueVars, workerVars, telemetryVars, committerVars>>

NoTask == <<0, 0>>

\* queueCapacityFor: two slots per worker in each of the three queues.
QueueCapacity == 2 * Cardinality(Workers)

\* The channels whose end the result loop waits for.
Drains == {"dispatch", "result", "abandoned", "executorErr"}

ExecutorDone == ctxDone \/ execStopped

Elems(q) == {q[k] : k \in 1..Len(q)}

\* A row is durable when it is flushed to every file it belongs to.
Durable == {t \in scanFile : t \in OpenTasks => t \in openFile}

-----------------------------------------------------------------------------
(* chunkStateTracker *)

\* updateStatus, with the counters the chunk has after the change.
UpdatedStatus(c, old, next, scanned) ==
    IF scanned >= TotalCount[c] THEN "completed"
    ELSE IF scanned > 0 \/ next > 0 THEN "scanning"
    ELSE old

AdvanceNextIndex(c, i) ==
    /\ nextIndex' = [nextIndex EXCEPT ![c] = i]
    /\ status' = [status EXCEPT ![c] = UpdatedStatus(c, @, i, scannedCount[c])]
    /\ UNCHANGED <<scannedCount, firstUnwritten>>

\* Mutant: the last mark wins, not the lowest.
LastMark(first, i) == i

\* What MarkUnwritten(i) makes of a tracker's firstUnwritten.
Lowered(first, i) == IF first < 0 \/ i < first THEN i ELSE first

MarkUnwritten(t) ==
    /\ firstUnwritten' = [firstUnwritten EXCEPT ![t[1]] = Lowered(@, t[2])]
    /\ UNCHANGED <<nextIndex, scannedCount, status>>

\* Mutants of the rewind: left out, and back to the start of the chunk.
RewindForgotten == nextIndex
RewindToStart ==
    [c \in Chunks |-> IF firstUnwritten[c] < 0 THEN nextIndex[c] ELSE 0]

\* RewindUnwritten of every chunk: the cursor and the count fall back to the
\* first unwritten task.
RewoundNext ==
    [c \in Chunks |-> IF firstUnwritten[c] < 0 THEN nextIndex[c] ELSE firstUnwritten[c]]

RewoundScanned ==
    [c \in Chunks |-> IF firstUnwritten[c] < 0 THEN scannedCount[c] ELSE firstUnwritten[c]]

RewoundStatus ==
    [c \in Chunks |->
        IF firstUnwritten[c] < 0 THEN status[c]
        ELSE IF firstUnwritten[c] = 0 THEN "pending"
        ELSE UpdatedStatus(c, status[c], firstUnwritten[c], firstUnwritten[c])]

-----------------------------------------------------------------------------
(* Process start and end *)

\* The volatile state of a process that is not running.
Idle ==
    /\ pc = "down"
    /\ drained = {} /\ runErr = "nil" /\ dispatchErr = "nil"
    /\ apiErrCh = "empty" /\ panicked = FALSE
    /\ ctxDone = FALSE /\ execStopped = FALSE
    /\ nextIndex = [c \in Chunks |-> 0]
    /\ scannedCount = [c \in Chunks |-> 0]
    /\ status = [c \in Chunks |-> "pending"]
    /\ firstUnwritten = [c \in Chunks |-> -1]
    /\ dpc = "done" /\ dChunk = 1 /\ dIndex = 0 /\ dErr = "nil"
    /\ dispatchErrCh = "empty" /\ gateOpen = TRUE
    /\ taskCh = <<>> /\ taskClosed = FALSE
    /\ wpc = [w \in Workers |-> "exited"]
    /\ wtask = [w \in Workers |-> NoTask]
    /\ resultCh = <<>> /\ abandonedCh = <<>>
    /\ execClosed = FALSE /\ errCh = "open"
    /\ stopping = FALSE /\ totalStarted = 0 /\ startedAtStop = 0
    /\ failed = FALSE /\ buffered = {}
    /\ earliestTask = [c \in Chunks |-> -1]
    /\ chunkPending = [c \in Chunks |-> 0]
    /\ pendingCount = 0

\* The process ends and its memory is gone.
Exit ==
    /\ pc' = "down"
    /\ drained' = {} /\ runErr' = "nil" /\ dispatchErr' = "nil"
    /\ apiErrCh' = "empty" /\ panicked' = FALSE
    /\ ctxDone' = FALSE /\ execStopped' = FALSE
    /\ nextIndex' = [c \in Chunks |-> 0]
    /\ scannedCount' = [c \in Chunks |-> 0]
    /\ status' = [c \in Chunks |-> "pending"]
    /\ firstUnwritten' = [c \in Chunks |-> -1]
    /\ dpc' = "done" /\ dChunk' = 1 /\ dIndex' = 0 /\ dErr' = "nil"
    /\ dispatchErrCh' = "empty" /\ gateOpen' = TRUE
    /\ taskCh' = <<>> /\ taskClosed' = FALSE
    /\ wpc' = [w \in Workers |-> "exited"]
    /\ wtask' = [w \in Workers |-> NoTask]
    /\ resultCh' = <<>> /\ abandonedCh' = <<>>
    /\ execClosed' = FALSE /\ errCh' = "open"
    /\ stopping' = FALSE /\ totalStarted' = 0 /\ startedAtStop' = 0
    /\ failed' = FALSE /\ buffered' = {}
    /\ earliestTask' = [c \in Chunks |-> -1]
    /\ chunkPending' = [c \in Chunks |-> 0]
    /\ pendingCount' = 0

\* The snapshot that generate-buckets writes: no progress, no output recorded.
Init ==
    /\ scanFile = {} /\ openFile = {}
    /\ saved = [next |-> [c \in Chunks |-> 0], scanned |-> [c \in Chunks |-> 0],
                status |-> [c \in Chunks |-> "pending"], output |-> "none"]
    /\ run = 0 /\ outcome = "none" /\ snapshotWritten = FALSE
    /\ Idle

\* execute up to the start of the goroutines: load the snapshot, rebuild the
\* runtimes, open the recorded files for append or create new ones.
StartRun ==
    /\ pc = "down" /\ run < MaxRuns
    /\ run' = run + 1 /\ outcome' = "none" /\ snapshotWritten' = FALSE
    /\ scanFile' = IF saved.output = "recorded" THEN scanFile ELSE {}
    /\ openFile' = IF saved.output = "recorded" THEN openFile ELSE {}
    /\ nextIndex' = saved.next
    /\ scannedCount' = saved.scanned
    /\ status' = [c \in Chunks |->
                     IF saved.next[c] >= TotalCount[c] THEN "completed" ELSE saved.status[c]]
    /\ firstUnwritten' = [c \in Chunks |-> -1]
    /\ pc' = "loop"
    /\ dpc' = "chunk"
    /\ wpc' = [w \in Workers |-> "select"]
    /\ UNCHANGED <<saved, drained, errVars, ctxVars, dChunk, dIndex, dErr,
                   dispatchErrCh, gateOpen, queueVars, wtask, resultCh, abandonedCh,
                   execClosed, errCh, telemetryVars, committerVars>>

\* execute returns before any goroutine starts: a flag, an input file or the
\* snapshot is not accepted, the context is cancelled already, or a result file
\* cannot be opened.  The snapshot and the files it names stay as they are.
RefuseRun ==
    /\ "start" \in Faults /\ pc = "down" /\ run < MaxRuns
    /\ run' = run + 1 /\ outcome' = "refused" /\ snapshotWritten' = FALSE
    /\ UNCHANGED <<diskVars, loopVars, ctxVars, trackerVars, dispatcherVars, queueVars,
                   workerVars, telemetryVars, committerVars>>

-----------------------------------------------------------------------------
(* The environment *)

\* First Ctrl+C: the parent context is cancelled.
Interrupt ==
    /\ "interrupt" \in Faults /\ pc # "down" /\ ~ctxDone
    /\ ctxDone' = TRUE
    /\ UNCHANGED <<diskVars, operatorVars, loopVars, execStopped, trackerVars,
                   dispatcherVars, queueVars, workerVars, telemetryVars, committerVars>>

\* kill -9, or the forced exit of a second Ctrl+C: unflushed rows are lost.
Crash ==
    /\ "crash" \in Faults /\ pc # "down"
    /\ outcome' = "crashed"
    /\ Exit
    /\ UNCHANGED <<diskVars, run, snapshotWritten>>

\* The speed controller opens or closes the dispatch gate.
TogglePause ==
    /\ "pause" \in Faults /\ pc # "down"
    /\ gateOpen' = ~gateOpen
    /\ UNCHANGED <<diskVars, operatorVars, loopVars, ctxVars, trackerVars, dpc, dChunk,
                   dIndex, dErr, dispatchErrCh, queueVars, workerVars, telemetryVars,
                   committerVars>>

\* pollPressureAPI reports its third failure in a row, once, without blocking.
PressureFatal ==
    /\ "api" \in Faults /\ pc # "down" /\ apiErrCh = "empty"
    /\ apiErrCh' = "err"
    /\ UNCHANGED <<diskVars, operatorVars, pc, drained, runErr, dispatchErr, panicked,
                   ctxVars, trackerVars, dispatcherVars, queueVars, workerVars,
                   telemetryVars, committerVars>>

-----------------------------------------------------------------------------
(* dispatchTasks and the goroutine that runs it *)

DispatchUnchanged ==
    UNCHANGED <<diskVars, operatorVars, loopVars, ctxVars, gateOpen, workerVars,
                telemetryVars, committerVars>>

\* The dispatcher returns; the goroutine reports the error next.
DispatchReturn(err) ==
    /\ dpc' = "return" /\ dErr' = err
    /\ UNCHANGED <<dChunk, dIndex, dispatchErrCh, queueVars, trackerVars>>

\* Outer loop: skip a finished chunk, or start at its next_index.
DispatchChunk ==
    /\ dpc = "chunk"
    /\ \/ /\ dChunk > NumChunks
          /\ DispatchReturn("nil")
       \/ /\ dChunk <= NumChunks
          /\ AdvanceNextIndex(dChunk, nextIndex[dChunk])
          /\ IF nextIndex[dChunk] >= TotalCount[dChunk]
             THEN dChunk' = dChunk + 1 /\ UNCHANGED <<dpc, dIndex>>
             ELSE dIndex' = nextIndex[dChunk] /\ dpc' = "top" /\ UNCHANGED dChunk
          /\ UNCHANGED <<dErr, dispatchErrCh, queueVars>>
    /\ DispatchUnchanged

\* Inner loop head: the end of the chunk, or the ctx.Err check.
DispatchTop ==
    /\ dpc = "top"
    /\ \/ /\ dIndex >= TotalCount[dChunk]
          /\ dpc' = "chunk" /\ dChunk' = dChunk + 1
          /\ UNCHANGED <<dIndex, dErr, dispatchErrCh, queueVars, trackerVars>>
       \/ /\ dIndex < TotalCount[dChunk] /\ ctxDone
          /\ DispatchReturn("ctx")
       \/ /\ dIndex < TotalCount[dChunk] /\ ~ctxDone
          /\ dpc' = "acquire"
          /\ UNCHANGED <<dChunk, dIndex, dErr, dispatchErrCh, queueVars, trackerVars>>
    /\ DispatchUnchanged

\* Past one of the waits: the bucket token, the gate, the delay.
DispatchPass(from, to) ==
    /\ dpc = from /\ dpc' = to
    /\ UNCHANGED <<dChunk, dErr, dispatchErrCh, queueVars, trackerVars>>
    /\ DispatchUnchanged

DispatchAcquire == DispatchPass("acquire", "gate") /\ UNCHANGED dIndex

DispatchGate == gateOpen /\ DispatchPass("gate", "send") /\ UNCHANGED dIndex

\* select { ctx.Done; taskCh <- task }, the send case.
DispatchSend ==
    /\ dpc = "send" /\ Len(taskCh) < QueueCapacity
    /\ taskCh' = Append(taskCh, <<dChunk, dIndex>>)
    /\ dpc' = "advance"
    /\ UNCHANGED <<dChunk, dIndex, dErr, dispatchErrCh, taskClosed, trackerVars>>
    /\ DispatchUnchanged

\* The cursor moves only after the task is in the queue.
DispatchAdvance ==
    /\ dpc = "advance"
    /\ AdvanceNextIndex(dChunk, dIndex + 1)
    /\ dpc' = "delay"
    /\ UNCHANGED <<dChunk, dIndex, dErr, dispatchErrCh, queueVars>>
    /\ DispatchUnchanged

DispatchDelay == DispatchPass("delay", "top") /\ dIndex' = dIndex + 1

\* Mutant: the wait at the gate ignores the context.
GateIgnoresCancel ==
    /\ dpc \in {"acquire", "send", "delay"} /\ ctxDone
    /\ DispatchReturn("ctx")
    /\ DispatchUnchanged

\* Each of the four waits also selects on ctx.Done.
DispatchCancelled ==
    /\ dpc \in {"acquire", "gate", "send", "delay"} /\ ctxDone
    /\ DispatchReturn("ctx")
    /\ DispatchUnchanged

\* A recovered panic (in an observer, say) or an index without a target.
DispatchFail ==
    /\ "dispatch" \in Faults
    /\ dpc \in {"chunk", "top", "acquire", "gate", "send", "advance", "delay"}
    /\ DispatchReturn("other")
    /\ DispatchUnchanged

DispatchReport ==
    /\ dpc = "return"
    /\ dispatchErrCh' = dErr /\ dpc' = "close"
    /\ UNCHANGED <<dChunk, dIndex, dErr, queueVars, trackerVars>>
    /\ DispatchUnchanged

DispatchClose ==
    /\ dpc = "close"
    /\ taskClosed' = TRUE /\ dpc' = "done"
    /\ UNCHANGED <<dChunk, dIndex, dErr, dispatchErrCh, taskCh, trackerVars>>
    /\ DispatchUnchanged

Dispatcher ==
    \/ DispatchChunk \/ DispatchTop \/ DispatchAcquire \/ DispatchGate \/ DispatchSend
    \/ DispatchAdvance \/ DispatchDelay \/ DispatchCancelled
    \/ DispatchReport \/ DispatchClose

-----------------------------------------------------------------------------
(* startCancellableScanExecutor *)

WorkerUnchanged ==
    UNCHANGED <<diskVars, operatorVars, pc, drained, runErr, dispatchErr, apiErrCh,
                ctxDone, trackerVars, dispatcherVars, taskClosed, execClosed, committerVars>>

\* markStopping, effective the first time only.
MarkStopping ==
    /\ stopping' = TRUE
    /\ startedAtStop' = IF stopping THEN startedAtStop ELSE totalStarted
    /\ UNCHANGED totalStarted

\* finishProbe marks the stop when it notices the cancelled context.
FinishProbe == IF ExecutorDone THEN MarkStopping ELSE UNCHANGED telemetryVars

WorkerGoto(w, from, to) == wpc[w] = from /\ wpc' = [wpc EXCEPT ![w] = to]

\* Receive the next task, in the worker loop or while draining the queue.
WorkerReceive(w, from, to) ==
    /\ WorkerGoto(w, from, to)
    /\ taskCh # <<>>
    /\ wtask' = [wtask EXCEPT ![w] = Head(taskCh)]
    /\ taskCh' = Tail(taskCh)
    /\ UNCHANGED <<resultCh, abandonedCh, errCh, execStopped, panicked, telemetryVars>>
    /\ WorkerUnchanged

WorkerTake(w)  == WorkerReceive(w, "select", "got")
WorkerDrain(w) == WorkerReceive(w, "drain", "drainput")

\* The queue is closed and empty: the worker returns.
WorkerExit(w) ==
    /\ WorkerGoto(w, "select", "exited") \/ WorkerGoto(w, "drain", "exited")
    /\ taskClosed /\ taskCh = <<>>
    /\ UNCHANGED <<wtask, taskCh, resultCh, abandonedCh, errCh, execStopped, panicked,
                   telemetryVars>>
    /\ WorkerUnchanged

\* select chose executorCtx.Done.
WorkerStop(w) ==
    /\ WorkerGoto(w, "select", "drain")
    /\ ExecutorDone
    /\ MarkStopping
    /\ UNCHANGED <<wtask, taskCh, resultCh, abandonedCh, errCh, execStopped, panicked>>
    /\ WorkerUnchanged

\* Mutant: the start looks at the parent context only.
StartOnParentContext(w) ==
    /\ \/ /\ WorkerGoto(w, "got", "abandon") /\ ctxDone
          /\ UNCHANGED totalStarted
       \/ /\ WorkerGoto(w, "got", "probing") /\ ~ctxDone
          /\ totalStarted' = totalStarted + 1
    /\ UNCHANGED <<wtask, taskCh, resultCh, abandonedCh, errCh, execStopped, panicked,
                   stopping, startedAtStop>>
    /\ WorkerUnchanged

\* startProbe: the stop check and the count are one critical section.
WorkerStart(w) ==
    /\ \/ /\ WorkerGoto(w, "got", "abandon")
          /\ stopping \/ ExecutorDone
          /\ UNCHANGED totalStarted
       \/ /\ WorkerGoto(w, "got", "probing")
          /\ ~stopping /\ ~ExecutorDone
          /\ totalStarted' = totalStarted + 1
    /\ UNCHANGED <<wtask, taskCh, resultCh, abandonedCh, errCh, execStopped, panicked,
                   stopping, startedAtStop>>
    /\ WorkerUnchanged

\* ScanTCP answered or timed out.
WorkerFinish(w) ==
    /\ WorkerGoto(w, "probing", "sending")
    /\ FinishProbe
    /\ UNCHANGED <<wtask, taskCh, resultCh, abandonedCh, errCh, execStopped, panicked>>
    /\ WorkerUnchanged

\* The dial function panicked: the deferred recover takes over.
WorkerPanic(w) ==
    /\ "panic" \in Faults
    /\ WorkerGoto(w, "probing", "panicput")
    /\ FinishProbe
    /\ panicked' = TRUE
    /\ UNCHANGED <<wtask, taskCh, resultCh, abandonedCh, errCh, execStopped>>
    /\ WorkerUnchanged

WorkerSendResult(w) ==
    /\ WorkerGoto(w, "sending", "select")
    /\ Len(resultCh) < QueueCapacity
    /\ resultCh' = Append(resultCh, wtask[w])
    /\ wtask' = [wtask EXCEPT ![w] = NoTask]
    /\ UNCHANGED <<taskCh, abandonedCh, errCh, execStopped, panicked, telemetryVars>>
    /\ WorkerUnchanged

\* Hand an unstarted (or panicked) task to the result loop.
WorkerAbandon(w) ==
    /\ \/ WorkerGoto(w, "abandon", "select")
       \/ WorkerGoto(w, "drainput", "drain")
       \/ WorkerGoto(w, "panicput", "fatal")
    /\ Len(abandonedCh) < QueueCapacity
    /\ abandonedCh' = Append(abandonedCh, wtask[w])
    /\ wtask' = [wtask EXCEPT ![w] = NoTask]
    /\ UNCHANGED <<taskCh, resultCh, errCh, execStopped, panicked, telemetryVars>>
    /\ WorkerUnchanged

\* reportFatal: the first one stops the executor, sends the error and closes errCh.
WorkerReportFatal(w) ==
    /\ WorkerGoto(w, "fatal", "drain")
    /\ IF errCh = "open"
       THEN errCh' = "err" /\ execStopped' = TRUE /\ MarkStopping
       ELSE UNCHANGED <<errCh, execStopped, telemetryVars>>
    /\ UNCHANGED <<wtask, taskCh, resultCh, abandonedCh, panicked>>
    /\ WorkerUnchanged

Worker(w) ==
    \/ WorkerTake(w) \/ WorkerDrain(w) \/ WorkerExit(w) \/ WorkerStop(w) \/ WorkerStart(w)
    \/ WorkerFinish(w) \/ WorkerSendResult(w) \/ WorkerAbandon(w) \/ WorkerReportFatal(w)

\* The goroutine that waits for ctx.Done and marks the stop.
WatchCancel ==
    /\ pc # "down" /\ ctxDone /\ ~stopping
    /\ MarkStopping
    /\ UNCHANGED <<diskVars, operatorVars, loopVars, ctxVars, trackerVars, dispatcherVars,
                   queueVars, workerVars, committerVars>>

\* The goroutine behind workerWG.Wait closes the executor's channels.
CloseExecutor ==
    /\ pc # "down" /\ ~execClosed
    /\ \A w \in Workers : wpc[w] = "exited"
    /\ execStopped' = TRUE /\ execClosed' = TRUE
    /\ errCh' = IF errCh = "open" THEN "closed" ELSE errCh
    /\ UNCHANGED <<diskVars, operatorVars, loopVars, ctxDone, trackerVars, dispatcherVars,
                   queueVars, wpc, wtask, resultCh, abandonedCh, telemetryVars,
                   committerVars>>

-----------------------------------------------------------------------------
(* outputCommitter.  early, counts and buf are the pending batch.          *)

FlushResults == IF "output" \in Faults THEN BOOLEAN ELSE {TRUE}

\* fail: the earliest pending task of every chunk is unwritten; the result
\* loop then records the output error over any earlier one and cancels.
Fail(early) ==
    /\ firstUnwritten' =
           [c \in Chunks |-> IF early[c] < 0 THEN firstUnwritten[c]
                             ELSE Lowered(firstUnwritten[c], early[c])]
    /\ failed' = TRUE
    /\ runErr' = "output" /\ ctxDone' = TRUE
    /\ UNCHANGED <<nextIndex, scannedCount, status>>

\* commit: flush both files, then count the batch; both flushes are attempted.
Commit(early, counts, total, buf) ==
    \E scanOk, openOk \in FlushResults :
        /\ scanFile' = IF scanOk THEN scanFile \cup buf ELSE scanFile
        /\ openFile' = IF openOk THEN openFile \cup (buf \cap OpenTasks) ELSE openFile
        /\ \/ /\ scanOk /\ openOk
              /\ scannedCount' = [c \in Chunks |-> scannedCount[c] + counts[c]]
              /\ status' = [c \in Chunks |->
                     IF counts[c] = 0 THEN status[c]
                     ELSE UpdatedStatus(c, status[c], nextIndex[c], scannedCount'[c])]
              /\ earliestTask' = [c \in Chunks |-> -1]
              /\ chunkPending' = [c \in Chunks |-> 0]
              /\ pendingCount' = 0 /\ buffered' = {}
              /\ UNCHANGED <<nextIndex, firstUnwritten, failed, runErr, ctxDone>>
           \/ /\ ~(scanOk /\ openOk)
              /\ earliestTask' = early /\ chunkPending' = counts
              /\ pendingCount' = total /\ buffered' = buf
              /\ Fail(early)

\* Accept: a late result of a failed committer is unwritten; otherwise the row
\* joins the batch, is written to both buffers, and a full batch is committed.
Accept(t) ==
    LET early  == [earliestTask EXCEPT ![t[1]] = Lowered(@, t[2])]
        counts == [chunkPending EXCEPT ![t[1]] = @ + 1]
        total  == pendingCount + 1
    IN  \/ /\ failed
           /\ MarkUnwritten(t)
           /\ UNCHANGED <<scanFile, openFile, committerVars, runErr, ctxDone>>
        \/ /\ ~failed /\ "output" \in Faults     \* a buffered write fails
           /\ earliestTask' = early /\ chunkPending' = counts /\ pendingCount' = total
           /\ Fail(early)
           /\ UNCHANGED <<scanFile, openFile, buffered>>
        \/ /\ ~failed /\ ~(FlushInterval > 0 /\ total >= FlushInterval)
           /\ earliestTask' = early /\ chunkPending' = counts /\ pendingCount' = total
           /\ buffered' = buffered \cup {t}
           /\ UNCHANGED <<scanFile, openFile, trackerVars, failed, runErr, ctxDone>>
        \/ /\ ~failed /\ FlushInterval > 0 /\ total >= FlushInterval
           /\ Commit(early, counts, total, buffered \cup {t})

\* Finish: commit what is pending, unless an earlier batch failed.
Finish ==
    IF failed \/ pendingCount = 0
    THEN UNCHANGED <<scanFile, openFile, trackerVars, committerVars, runErr, ctxDone>>
    ELSE Commit(earliestTask, chunkPending, pendingCount, buffered)

-----------------------------------------------------------------------------
(* runResultLoop: one action per select case *)

LoopUnchanged ==
    UNCHANGED <<saved, operatorVars, panicked, execStopped, dpc, dChunk, dIndex, dErr,
                gateOpen, queueVars, wpc, wtask, execClosed, telemetryVars>>

\* A fatal error is kept, and cancels the run, only when it is the first.
KeepFirst(err) ==
    IF runErr = "nil" THEN runErr' = err /\ ctxDone' = TRUE
    ELSE UNCHANGED <<runErr, ctxDone>>

LoopApiErr ==
    /\ pc = "loop" /\ apiErrCh = "err"
    /\ apiErrCh' = "spent"
    /\ KeepFirst("api")
    /\ UNCHANGED <<pc, drained, dispatchErr, dispatchErrCh, scanFile, openFile, trackerVars,
                   resultCh, abandonedCh, errCh, committerVars>>
    /\ LoopUnchanged

LoopExecutorErr ==
    /\ pc = "loop" /\ errCh = "err"
    /\ errCh' = "closed"
    /\ KeepFirst("executor")
    /\ UNCHANGED <<pc, drained, dispatchErr, apiErrCh, dispatchErrCh, scanFile, openFile,
                   trackerVars, resultCh, abandonedCh, committerVars>>
    /\ LoopUnchanged

LoopDispatchErr ==
    /\ pc = "loop" /\ dispatchErrCh # "empty"
    /\ dispatchErr' = dispatchErrCh /\ dispatchErrCh' = "empty"
    /\ drained' = drained \cup {"dispatch"}
    /\ UNCHANGED <<pc, runErr, apiErrCh, ctxDone, scanFile, openFile, trackerVars, resultCh,
                   abandonedCh, errCh, committerVars>>
    /\ LoopUnchanged

LoopResult ==
    /\ pc = "loop" /\ resultCh # <<>>
    /\ resultCh' = Tail(resultCh)
    /\ Accept(Head(resultCh))
    /\ UNCHANGED <<pc, drained, dispatchErr, apiErrCh, dispatchErrCh, abandonedCh, errCh>>
    /\ LoopUnchanged

LoopAbandoned ==
    /\ pc = "loop" /\ abandonedCh # <<>>
    /\ abandonedCh' = Tail(abandonedCh)
    /\ MarkUnwritten(Head(abandonedCh))
    /\ UNCHANGED <<pc, drained, runErr, dispatchErr, apiErrCh, ctxDone, dispatchErrCh,
                   scanFile, openFile, resultCh, errCh, committerVars>>
    /\ LoopUnchanged

\* A closed, empty channel is set to nil and never selected again.
LoopClosed ==
    /\ pc = "loop"
    /\ \/ /\ execClosed /\ resultCh = <<>>
          /\ drained' = drained \cup {"result"}
       \/ /\ execClosed /\ abandonedCh = <<>>
          /\ drained' = drained \cup {"abandoned"}
       \/ /\ errCh = "closed"
          /\ drained' = drained \cup {"executorErr"}
    /\ drained' # drained
    /\ UNCHANGED <<pc, runErr, dispatchErr, apiErrCh, ctxDone, dispatchErrCh, scanFile,
                   openFile, trackerVars, resultCh, abandonedCh, errCh, committerVars>>
    /\ LoopUnchanged

\* Mutant: a pressure error still in its buffer is dropped.
ExitDropsError ==
    /\ pc = "loop" /\ drained = Drains
    /\ pc' = "finish"
    /\ UNCHANGED <<apiErrCh, runErr, ctxDone, drained, dispatchErr, dispatchErrCh, scanFile,
                   openFile, trackerVars, resultCh, abandonedCh, errCh, committerVars>>
    /\ LoopUnchanged

\* The loop ends; a pressure error still in its buffer is taken now.
LoopExit ==
    /\ pc = "loop" /\ drained = Drains
    /\ pc' = "finish"
    /\ IF runErr = "nil" /\ apiErrCh = "err"
       THEN apiErrCh' = "spent" /\ KeepFirst("api")
       ELSE UNCHANGED <<apiErrCh, runErr, ctxDone>>
    /\ UNCHANGED <<drained, dispatchErr, dispatchErrCh, scanFile, openFile, trackerVars,
                   resultCh, abandonedCh, errCh, committerVars>>
    /\ LoopUnchanged

LoopFinish ==
    /\ pc = "finish"
    /\ pc' = "persist"
    /\ Finish
    /\ UNCHANGED <<drained, dispatchErr, apiErrCh, dispatchErrCh, resultCh, abandonedCh, errCh>>
    /\ LoopUnchanged

ResultLoop ==
    \/ LoopApiErr \/ LoopExecutorErr \/ LoopDispatchErr \/ LoopResult \/ LoopAbandoned
    \/ LoopClosed \/ LoopExit \/ LoopFinish

-----------------------------------------------------------------------------
(* persistResumeSnapshotWithSaver and the return of execute *)

\* hasIncomplete, after the rewind.
Incomplete == \E c \in Chunks : RewoundScanned[c] < TotalCount[c]

\* Mutant: unfinished chunks alone do not ask for a save.
SaveOnErrorOnly == runErr # "nil" \/ dispatchErr = "ctx"

NeedsSave == Incomplete \/ runErr # "nil" \/ dispatchErr = "ctx"

\* The error precedence of execute: runErr, then dispatchErr.
ReturnedError == IF runErr # "nil" THEN runErr ELSE dispatchErr

\* The snapshot is replaced as a whole or not at all; a failed save is the
\* outcome of the run.
Persist ==
    /\ pc = "persist"
    /\ \/ /\ ~NeedsSave
          /\ outcome' = ReturnedError /\ snapshotWritten' = FALSE
          /\ UNCHANGED saved
       \/ /\ NeedsSave
          /\ outcome' = ReturnedError /\ snapshotWritten' = TRUE
          /\ saved' = [next |-> RewoundNext, scanned |-> RewoundScanned,
                       status |-> RewoundStatus, output |-> "recorded"]
       \/ /\ NeedsSave /\ "save" \in Faults
          /\ outcome' = "save" /\ snapshotWritten' = FALSE
          /\ UNCHANGED saved
    /\ Exit
    /\ UNCHANGED <<scanFile, openFile, run>>

\* The operator stops starting runs.
Stopped == pc = "down" /\ run = MaxRuns /\ UNCHANGED vars

Next ==
    \/ StartRun \/ RefuseRun \/ Interrupt \/ Crash \/ TogglePause \/ PressureFatal
    \/ Dispatcher \/ DispatchFail
    \/ \E w \in Workers : Worker(w) \/ WorkerPanic(w)
    \/ WatchCancel \/ CloseExecutor
    \/ ResultLoop \/ Persist
    \/ Stopped

Spec == Init /\ [][Next]_vars

\* The Go scheduler runs every goroutine that can move, a dial ends by its
\* timeout, and a bucket refills.  Nothing makes the environment act.
Fairness ==
    /\ WF_vars(Dispatcher)
    /\ \A w \in Workers : WF_vars(Worker(w))
    /\ WF_vars(CloseExecutor)
    /\ WF_vars(ResultLoop)
    /\ WF_vars(Persist)

FairSpec == Spec /\ Fairness

-----------------------------------------------------------------------------
(* What the scan promises *)

DispatcherPCs == {"chunk", "top", "acquire", "gate", "send", "advance", "delay",
                  "return", "close", "done"}
WorkerPCs == {"select", "got", "probing", "sending", "abandon", "drain", "drainput",
              "panicput", "fatal", "exited"}
Statuses == {"pending", "scanning", "completed"}
RunErrors == {"nil", "api", "executor", "output"}
DispatchErrors == {"nil", "ctx", "other"}

DiskType ==
    /\ scanFile \subseteq Tasks /\ openFile \subseteq Tasks
    /\ saved \in [next : [Chunks -> Nat], scanned : [Chunks -> Nat],
                  status : [Chunks -> Statuses], output : {"none", "recorded"}]

LoopType ==
    /\ run \in 0..MaxRuns
    /\ outcome \in RunErrors \cup DispatchErrors \cup {"none", "refused", "crashed", "save"}
    /\ pc \in {"down", "loop", "finish", "persist"}
    /\ drained \subseteq Drains
    /\ runErr \in RunErrors /\ dispatchErr \in DispatchErrors
    /\ apiErrCh \in {"empty", "err", "spent"}

TrackerType ==
    /\ nextIndex \in [Chunks -> Nat] /\ scannedCount \in [Chunks -> Nat]
    /\ status \in [Chunks -> Statuses]
    /\ firstUnwritten \in [Chunks -> Nat \cup {-1}]

DispatcherType ==
    /\ dpc \in DispatcherPCs /\ dChunk \in 1..(NumChunks + 1) /\ dIndex \in Nat
    /\ dErr \in DispatchErrors /\ dispatchErrCh \in DispatchErrors \cup {"empty"}
    /\ taskCh \in Seq(Tasks)

ExecutorType ==
    /\ wpc \in [Workers -> WorkerPCs] /\ wtask \in [Workers -> Tasks \cup {NoTask}]
    /\ resultCh \in Seq(Tasks) /\ abandonedCh \in Seq(Tasks)
    /\ errCh \in {"open", "err", "closed"}
    /\ totalStarted \in Nat /\ startedAtStop \in Nat

CommitterType ==
    /\ buffered \subseteq Tasks
    /\ earliestTask \in [Chunks -> Nat \cup {-1}]
    /\ chunkPending \in [Chunks -> Nat] /\ pendingCount \in Nat

FlagType ==
    /\ snapshotWritten \in BOOLEAN /\ panicked \in BOOLEAN /\ ctxDone \in BOOLEAN
    /\ execStopped \in BOOLEAN /\ gateOpen \in BOOLEAN /\ taskClosed \in BOOLEAN
    /\ execClosed \in BOOLEAN /\ stopping \in BOOLEAN /\ failed \in BOOLEAN

\* The shape of the state, component by component.
TypeOK ==
    /\ DiskType /\ LoopType /\ TrackerType /\ DispatcherType /\ ExecutorType
    /\ CommitterType /\ FlagType

\* The saved cursor never passes a row that is missing from a result file,
\* whatever interrupt, panic, output failure or kill ended the runs before:
\* a resumed scan cannot skip an unwritten row.
NoSkippedRow ==
    \A c \in Chunks : \A i \in 0..(saved.next[c] - 1) : <<c, i>> \in Durable

\* A run that returns no error and leaves the old snapshot in place has put
\* every row into the result files.
SilentReturnIsComplete ==
    outcome = "nil" /\ ~snapshotWritten => Tasks \subseteq Durable

\* A saved cursor never falls behind the one it replaces: progress that one
\* run recorded is not given up by a later one.
CursorNeverRegresses ==
    [][\A c \in Chunks : saved'.next[c] >= saved.next[c]]_vars

\* Once the executor is marked as stopping, no further probe starts.
NoProbeAfterStop == stopping => totalStarted = startedAtStop

\* A worker panic, or a pressure error reported while the loop ran, is never
\* lost: the loop cannot end without an error to return.
FatalErrorSurvives ==
    [][pc = "loop" /\ pc' = "finish" /\ (panicked \/ apiErrCh # "empty")
         => runErr' # "nil"]_vars

\* A cancel, a fatal pressure error, an output failure (all of which cancel the
\* context) or a worker panic ends the run even while the dispatch gate stays
\* closed: no queue, no wait group and no select keeps it alive.
StopEndsRun == ctxDone \/ apiErrCh = "err" \/ panicked ~> pc = "down"
=============================================================================
