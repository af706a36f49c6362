-------------------------- MODULE ScanInvariants --------------------------
(***************************************************************************)
(* The inductive invariant behind the safety properties of ScanPipeline:   *)
(* every task below a chunk's cursor is on disk, on its way through a      *)
(* channel, a worker or the committer's batch, or marked unwritten, so that*)
(* the rewind before the save gives its index back.                        *)
(***************************************************************************)
EXTENDS ScanPipeline

\* The places of a worker in which it holds a task.
Holding == {"got", "probing", "sending", "abandon", "drainput", "panicput"}

\* A worker holds a task exactly between its receive and its send.
WorkerTasks ==
    \A w \in Workers :
        IF wpc[w] \in Holding THEN wtask[w] \in Tasks ELSE wtask[w] = NoTask

\* The dispatcher's loop index is the cursor of its chunk, or one behind it
\* between the advance and the end of the iteration.
DispatcherPlace ==
    /\ dpc \in {"top", "acquire", "gate", "send", "advance"} =>
           dChunk <= NumChunks /\ dIndex = nextIndex[dChunk]
    /\ dpc \in {"acquire", "gate", "send", "advance"} => dIndex < TotalCount[dChunk]
    /\ dpc = "delay" => dChunk <= NumChunks /\ dIndex + 1 = nextIndex[dChunk]

\* No state of an earlier run is left when the next one starts.
DownIsIdle == pc = "down" => Idle

TypeInv == TypeOK /\ WorkerTasks /\ DispatcherPlace /\ DownIsIdle

\* The order in which a run shuts down: the dispatcher closes the queue, the
\* workers empty it and leave, the executor closes its channels, the result
\* loop empties them and only then finishes the output.
Shutdown ==
    /\ taskClosed => dpc = "done"
    /\ pc # "down" => \A w \in Workers : wpc[w] = "exited" => taskClosed /\ taskCh = <<>>
    /\ execClosed => \A w \in Workers : wpc[w] = "exited"
    /\ "result" \in drained => execClosed /\ resultCh = <<>>
    /\ "abandoned" \in drained => execClosed /\ abandonedCh = <<>>
    /\ pc \in {"finish", "persist"} => drained = Drains
    /\ pc # "down" => outcome = "none"

\* Tasks that left the dispatcher and are neither flushed nor given up.
InFlight ==
    Elems(taskCh) \cup {wtask[w] : w \in Workers} \cup Elems(resultCh)
        \cup Elems(abandonedCh) \cup buffered

\* The indices the current run may have dispatched in a chunk.
Dispatched(c) == saved.next[c]..nextIndex[c]

\* No run handles an index outside its own range: below the cursor it started
\* from, beyond the current one, or beyond the chunk.
Ranges ==
    /\ \A c \in Chunks : saved.next[c] <= TotalCount[c] /\ nextIndex[c] <= TotalCount[c]
    /\ pc # "down" => \A c \in Chunks : saved.next[c] <= nextIndex[c]
    /\ \A t \in Tasks : t \in InFlight => t[2] \in Dispatched(t[1])
    /\ \A c \in Chunks : firstUnwritten[c] >= 0 =>
           firstUnwritten[c] \in Dispatched(c) /\ firstUnwritten[c] < TotalCount[c]
    /\ \A c \in Chunks : earliestTask[c] >= 0 =>
           earliestTask[c] \in Dispatched(c) /\ earliestTask[c] < TotalCount[c]

\* The rewind will give this task back to the next run.
Marked(t) == 0 <= firstUnwritten[t[1]] /\ firstUnwritten[t[1]] <= t[2]

\* The committer knows the first task of its batch, and has given up the whole
\* batch once it failed.
BatchKnown ==
    /\ \A t \in buffered : 0 <= earliestTask[t[1]] /\ earliestTask[t[1]] <= t[2]
    /\ failed => \A t \in buffered : Marked(t)
    /\ ~failed /\ pendingCount = 0 => buffered = {}
    /\ pc = "persist" /\ ~failed => buffered = {}

Settled(t) == t \in Durable \/ t \in InFlight \/ Marked(t)

\* No task below a cursor is lost between the goroutines.
Accounted ==
    /\ \A t \in Tasks : t[2] < nextIndex[t[1]] => Settled(t)
    /\ dpc = "advance" => Settled(<<dChunk, dIndex>>)

\* A snapshot that records no output files records no progress either.
UnnamedIsEmpty == saved.output = "none" => \A c \in Chunks : saved.next[c] = 0

\* A dispatcher that returns no error has moved every cursor to the end.
DispatchDone ==
    /\ \A c \in Chunks : c < dChunk => nextIndex[c] = TotalCount[c]
    /\ pc # "down" /\ dpc \in {"return", "close", "done"} /\ dErr = "nil" => dChunk > NumChunks
    /\ dispatchErrCh # "empty" => dispatchErrCh = dErr /\ dpc \in {"close", "done"}
    /\ "dispatch" \in drained => dispatchErr = dErr /\ dpc \in {"close", "done"}

\* Every task below a cursor stays accounted for until its row is on disk or
\* its index is given back, through every hand-over of the shutdown.
SafetyInv ==
    /\ TypeInv /\ Shutdown /\ Ranges /\ BatchKnown /\ Accounted
    /\ UnnamedIsEmpty /\ NoSkippedRow /\ DispatchDone /\ SilentReturnIsComplete

\* A panic is known to a worker that will report it, waits in errCh, or is kept;
\* a pressure error that was taken from its channel is kept.
FatalKept ==
    /\ panicked => \/ errCh = "err" \/ runErr # "nil"
                   \/ \E w \in Workers : wpc[w] \in {"panicput", "fatal"}
    /\ errCh = "closed" => execClosed \/ runErr # "nil"
    /\ "executorErr" \in drained => errCh = "closed"
    /\ apiErrCh = "spent" => runErr # "nil"

\* The operator's view of the scan.
Promise == INSTANCE ResumableScan
    WITH rows <- Durable, cursor <- saved.next, named <- saved.output, running <- pc # "down"

\* The scan pipeline implements the resumable scan: whatever its goroutines do,
\* the files only grow during a run, and a new snapshot moves the cursors
\* forward over rows that are in the files.
ImplementsResumableScan == Promise!Spec
=============================================================================
