------------------------ MODULE ScanPipelineProofs ------------------------
(***************************************************************************)
(* Proofs about ScanPipeline for any number of chunks, tasks, workers and  *)
(* runs, and any set of faults.                                            *)
(***************************************************************************)
EXTENDS ScanInvariants, TLAPS

-----------------------------------------------------------------------------
(* Channels *)

\* A send adds one element to what a channel holds.
LEMMA AppendElems ==
    ASSUME NEW S, NEW q \in Seq(S), NEW x \in S
    PROVE  /\ Append(q, x) \in Seq(S)
           /\ Elems(Append(q, x)) = Elems(q) \cup {x}
  <1> DEFINE a == Append(q, x)
  <1>1. a \in Seq(S) /\ Len(q) \in Nat /\ Len(a) = Len(q) + 1
    OBVIOUS
  <1>2. (\A k \in 1..Len(q) : a[k] = q[k]) /\ a[Len(q) + 1] = x
    OBVIOUS
  <1> HIDE DEF a
  <1>3. Elems(a) \subseteq Elems(q) \cup {x}
    <2>1. SUFFICES ASSUME NEW k \in 1..Len(a) PROVE a[k] \in Elems(q) \cup {x}
      BY DEF Elems
    <2>2. k \in 1..Len(q) \/ k = Len(q) + 1
      BY <1>1
    <2>3. QED BY <1>2, <2>2 DEF Elems
  <1>4. Elems(q) \cup {x} \subseteq Elems(a)
    <2>1. ASSUME NEW k \in 1..Len(q) PROVE q[k] \in Elems(a)
      <3>1. k \in 1..Len(a) BY <1>1
      <3>2. QED BY <1>2, <3>1 DEF Elems
    <2>2. x \in Elems(a)
      <3>1. Len(q) + 1 \in 1..Len(a) BY <1>1
      <3>2. QED BY <1>2, <3>1 DEF Elems
    <2>3. QED BY <2>1, <2>2 DEF Elems
  <1>5. QED BY <1>1, <1>3, <1>4 DEF a

\* A receive splits a channel into its head and the rest.
LEMMA ReceiveElems ==
    ASSUME NEW S, NEW q \in Seq(S), q # <<>>
    PROVE  /\ Head(q) \in S
           /\ Tail(q) \in Seq(S)
           /\ Elems(q) = Elems(Tail(q)) \cup {Head(q)}
  <1> DEFINE r == Tail(q)
  <1>1. Head(q) \in S /\ r \in Seq(S) /\ Len(q) \in Nat /\ Len(q) > 0
        /\ Len(r) = Len(q) - 1 /\ Head(q) = q[1]
    OBVIOUS
  <1>2. \A k \in 1..Len(r) : r[k] = q[k + 1]
    OBVIOUS
  <1> HIDE DEF r
  <1>3. Elems(q) \subseteq Elems(r) \cup {Head(q)}
    <2>1. SUFFICES ASSUME NEW k \in 1..Len(q), k # 1 PROVE q[k] \in Elems(r)
      BY <1>1 DEF Elems
    <2>2. k - 1 \in 1..Len(r) /\ (k - 1) + 1 = k
      BY <1>1, <2>1
    <2>3. QED BY <1>2, <2>2 DEF Elems
  <1>4. Elems(r) \cup {Head(q)} \subseteq Elems(q)
    <2>1. ASSUME NEW k \in 1..Len(r) PROVE r[k] \in Elems(q)
      <3>1. k + 1 \in 1..Len(q) BY <1>1
      <3>2. QED BY <1>2, <3>1 DEF Elems
    <2>2. Head(q) \in Elems(q)
      <3>1. 1 \in 1..Len(q) BY <1>1
      <3>2. QED BY <1>1, <3>1 DEF Elems
    <2>3. QED BY <2>1, <2>2 DEF Elems
  <1>5. QED BY <1>1, <1>3, <1>4 DEF r

\* An empty channel holds nothing.
LEMMA EmptyElems == <<>> \in Seq(Tasks) /\ Elems(<<>>) = {}
  <1>1. Len(<<>>) = 0 OBVIOUS
  <1>2. QED BY <1>1 DEF Elems
-----------------------------------------------------------------------------
(* Tasks *)

\* A task is a pair of a chunk and an index below the chunk's total.
LEMMA TaskFacts ==
    /\ \A t \in Tasks : /\ t[1] \in Chunks
                        /\ t[2] \in Nat /\ t[2] < TotalCount[t[1]]
                        /\ t = <<t[1], t[2]>>
    /\ \A c \in Chunks, i \in Nat : i < TotalCount[c] => <<c, i>> \in Tasks
    /\ NoTask \notin Tasks
    /\ \A c \in Chunks : c \in Nat /\ c <= NumChunks /\ TotalCount[c] \in Nat
  <1>1. \A c \in Chunks : c \in Nat /\ c > 0 /\ c <= NumChunks /\ TotalCount[c] \in Nat
    BY ScanAssumption DEF Chunks
  <1>2. \A t \in Tasks : /\ t[1] \in Chunks
                         /\ t[2] \in Nat /\ t[2] < TotalCount[t[1]]
                         /\ t = <<t[1], t[2]>>
    <2>1. TAKE t \in Tasks
    <2>2. PICK c \in Chunks : t \in {c} \X (0..(TotalCount[c] - 1))
      BY DEF Tasks
    <2>3. QED BY <1>1, <2>2
  <1>3. \A c \in Chunks, i \in Nat : i < TotalCount[c] => <<c, i>> \in Tasks
    <2>1. SUFFICES ASSUME NEW c \in Chunks, NEW i \in Nat, i < TotalCount[c]
                   PROVE  <<c, i>> \in {c} \X (0..(TotalCount[c] - 1))
      BY DEF Tasks
    <2>2. QED BY <1>1, <2>1
  <1>4. NoTask \notin Tasks
    BY <1>1, <1>2 DEF NoTask
  <1>5. QED BY <1>1, <1>2, <1>3, <1>4

-----------------------------------------------------------------------------
(* Types.  The conjunct WorkerTasks makes what the workers send a task, and *)
(* DispatcherPlace makes what the dispatcher sends one.                     *)

\* A chunk status stays a status, and a mark is an index.
LEMMA TrackerOps ==
    /\ \A c \in Chunks, old \in Statuses, n \in Nat, k \in Nat :
           UpdatedStatus(c, old, n, k) \in Statuses
    /\ \A f \in Nat \cup {-1}, i \in Nat :
           /\ Lowered(f, i) \in Nat
           /\ Lowered(f, i) <= i
           /\ f >= 0 => Lowered(f, i) <= f
           /\ (Lowered(f, i) = i \/ (Lowered(f, i) = f /\ f >= 0))
  BY DEF UpdatedStatus, Statuses, Lowered

\* The first state is well typed.
LEMMA TypeInit == Init => TypeInv
  <1>1. SUFFICES ASSUME Init PROVE TypeInv
    OBVIOUS
  <1>2. DiskType /\ TrackerType /\ CommitterType
    BY <1>1 DEF Init, Idle, DiskType, TrackerType, CommitterType, Statuses
  <1>3. LoopType
    BY <1>1, ScanAssumption DEF Init, Idle, LoopType, RunErrors, DispatchErrors
  <1>4. DispatcherType /\ ExecutorType
    BY <1>1, ScanAssumption, EmptyElems DEF Init, Idle, DispatcherType, ExecutorType,
       DispatchErrors, DispatcherPCs, WorkerPCs
  <1>5. FlagType
    BY <1>1, Zenon DEF Init, Idle, FlagType
  <1>6. WorkerTasks /\ DispatcherPlace
    BY <1>1 DEF Init, Idle, WorkerTasks, DispatcherPlace, Holding
  <1>7. QED BY <1>1, <1>2, <1>3, <1>4, <1>5, <1>6 DEF Init, TypeInv, TypeOK, DownIsIdle

\* A process that ends leaves the memory of a process that never started.
LEMMA ExitIdle == Exit => Idle'
  BY DEF Exit, Idle, Chunks, NoTask

\* The memory of a process that is not running is well typed.
LEMMA IdleType ==
    ASSUME Idle'
    PROVE  /\ TrackerType' /\ CommitterType' /\ DispatcherType' /\ ExecutorType'
           /\ WorkerTasks' /\ DispatcherPlace'
           /\ pc' = "down" /\ drained' = {} /\ runErr' = "nil" /\ dispatchErr' = "nil"
           /\ apiErrCh' = "empty"
           /\ snapshotWritten' \in BOOLEAN => FlagType'
  <1>1. TrackerType' /\ CommitterType'
    BY DEF Idle, TrackerType, CommitterType, Statuses
  <1>2. DispatcherType' /\ ExecutorType'
    BY ScanAssumption, EmptyElems DEF Idle, DispatcherType, ExecutorType,
       DispatchErrors, DispatcherPCs, WorkerPCs
  <1>3. snapshotWritten' \in BOOLEAN => FlagType'
    BY Zenon DEF Idle, FlagType
  <1>4. WorkerTasks' /\ DispatcherPlace'
    BY DEF Idle, WorkerTasks, DispatcherPlace, Holding
  <1>5. QED BY <1>1, <1>2, <1>3, <1>4 DEF Idle

\* The tuples of variables are only names for what an action leaves alone.
USE DEF diskVars, operatorVars, errVars, loopVars, ctxVars, trackerVars, dispatcherVars,
        queueVars, workerVars, telemetryVars, committerVars

\* The type of everything but the flags, and what it needs to be inductive.
DataInv ==
    /\ DiskType /\ LoopType /\ TrackerType /\ DispatcherType /\ ExecutorType
    /\ CommitterType /\ WorkerTasks /\ DispatcherPlace /\ DownIsIdle

\* Starting, ending and disturbing a run.
LEMMA DataEnvironment ==
    ASSUME DataInv
    PROVE  StartRun \/ RefuseRun \/ Interrupt \/ Crash \/ TogglePause \/ PressureFatal
               \/ Persist \/ Stopped => DataInv'
  <1> USE DEF DataInv
  <1>1. ASSUME StartRun PROVE DataInv'
    <2>1. DiskType' /\ LoopType' /\ CommitterType'
      BY <1>1, ScanAssumption DEF StartRun, DiskType, LoopType, CommitterType
    <2>2. TrackerType'
      BY <1>1 DEF StartRun, DiskType, TrackerType, Statuses
    <2>3. DispatcherType' /\ DispatcherPlace'
      BY <1>1 DEF StartRun, DispatcherType, DispatcherPCs, DispatcherPlace
    <2>4. ExecutorType'
      BY <1>1 DEF StartRun, ExecutorType, WorkerPCs
    <2>5. WorkerTasks'
      BY <1>1 DEF StartRun, DownIsIdle, Idle, WorkerTasks, Holding, NoTask
    <2>6. DownIsIdle'
      BY <1>1 DEF StartRun, DownIsIdle
    <2>7. QED BY <2>1, <2>2, <2>3, <2>4, <2>5, <2>6
  <1>2. ASSUME Crash PROVE DataInv'
    <2>1. Idle' BY <1>2, ExitIdle DEF Crash
    <2>2. DiskType' BY <1>2 DEF Crash, DiskType
    <2>3. LoopType' BY <1>2, <2>1, IdleType DEF Crash, LoopType, RunErrors, DispatchErrors
    <2>4. QED BY <2>1, <2>2, <2>3, IdleType DEF DownIsIdle
  <1>3. ASSUME Persist PROVE DataInv'
    <2>1. Idle' BY <1>3, ExitIdle DEF Persist
    <2>2. DiskType'
      <3>1. RewoundNext \in [Chunks -> Nat] /\ RewoundScanned \in [Chunks -> Nat]
        BY DEF TrackerType, RewoundNext, RewoundScanned
      <3>2. RewoundStatus \in [Chunks -> Statuses]
        BY DEF TrackerType, RewoundStatus, UpdatedStatus, Statuses
      <3>3. saved' \in [next : [Chunks -> Nat], scanned : [Chunks -> Nat],
                        status : [Chunks -> Statuses], output : {"none", "recorded"}]
        BY <1>3, <3>1, <3>2 DEF Persist, DiskType
      <3>4. QED BY <1>3, <3>3 DEF Persist, DiskType
    <2>3. LoopType'
      <3>1. outcome' \in RunErrors \cup DispatchErrors \cup {"none", "refused", "crashed", "save"}
        BY <1>3 DEF Persist, LoopType, ReturnedError
      <3>2. QED BY <1>3, <2>1, <3>1, IdleType DEF Persist, LoopType, RunErrors, DispatchErrors
    <2>4. QED BY <2>1, <2>2, <2>3, IdleType DEF DownIsIdle
  <1>4. ASSUME Interrupt \/ TogglePause \/ PressureFatal PROVE DataInv'
    <2>1. LoopType' BY <1>4 DEF Interrupt, TogglePause, PressureFatal, LoopType
    <2>2. QED
      BY <1>4, <2>1 DEF Interrupt, TogglePause, PressureFatal, DiskType, TrackerType,
         DispatcherType, ExecutorType, CommitterType, WorkerTasks, DispatcherPlace,
         DownIsIdle
  <1>5. ASSUME Stopped PROVE DataInv'
    BY <1>5 DEF Stopped, vars, DiskType, LoopType, TrackerType, DispatcherType,
       ExecutorType, CommitterType, WorkerTasks, DispatcherPlace, DownIsIdle, Idle,
       NoTask, Chunks
  <1>6. ASSUME RefuseRun PROVE DataInv'
    <2>1. LoopType' BY <1>6, ScanAssumption DEF RefuseRun, LoopType
    <2>2. QED
      BY <1>6, <2>1 DEF RefuseRun, DiskType, TrackerType, DispatcherType, ExecutorType,
         CommitterType, WorkerTasks, DispatcherPlace, DownIsIdle, Idle
  <1>7. QED BY <1>1, <1>2, <1>3, <1>4, <1>5, <1>6

\* The goroutine of the dispatcher.
LEMMA DataDispatcher ==
    ASSUME DataInv
    PROVE  Dispatcher \/ DispatchFail => DataInv'
  <1> USE DEF DataInv
  <1>1. SUFFICES ASSUME Dispatcher \/ DispatchFail PROVE DataInv'
    OBVIOUS
  <1>2. DiskType' /\ LoopType' /\ ExecutorType' /\ CommitterType' /\ WorkerTasks'
    BY <1>1 DEF Dispatcher, DispatchChunk, DispatchTop, DispatchAcquire, DispatchGate,
       DispatchSend, DispatchAdvance, DispatchDelay, DispatchCancelled, DispatchReport,
       DispatchClose, DispatchFail, DispatchPass, DispatchUnchanged,
       DiskType, LoopType, ExecutorType, CommitterType, WorkerTasks
  <1>3. DownIsIdle'
    BY <1>1 DEF Dispatcher, DispatchChunk, DispatchTop, DispatchAcquire, DispatchGate,
       DispatchSend, DispatchAdvance, DispatchDelay, DispatchCancelled, DispatchReport,
       DispatchClose, DispatchFail, DispatchPass, DispatchUnchanged, DownIsIdle, Idle
  <1> DEFINE Place == TrackerType' /\ DispatcherType' /\ DispatcherPlace'
  <1>4. ASSUME DispatchChunk PROVE Place
    <2>1. CASE dChunk > NumChunks
      <3>1. DispatchReturn("nil")
        BY <1>4, <2>1, ScanAssumption DEF DispatchChunk, DispatcherType
      <3>2. QED
        BY <3>1 DEF DispatchReturn, DispatcherType, DispatcherPlace, TrackerType,
           DispatcherPCs, DispatchErrors
    <2>2. CASE dChunk <= NumChunks
      <3>1. dChunk \in Chunks
        BY <2>2 DEF DispatcherType, Chunks
      <3>2. AdvanceNextIndex(dChunk, nextIndex[dChunk])
        BY <1>4, <2>2, ScanAssumption DEF DispatchChunk, DispatcherType
      <3>3. TrackerType' /\ nextIndex' = nextIndex
        BY <3>1, <3>2, TrackerOps DEF AdvanceNextIndex, TrackerType
      <3>4. /\ \/ dChunk' = dChunk + 1 /\ UNCHANGED <<dpc, dIndex>>
               \/ dIndex' = nextIndex[dChunk] /\ dpc' = "top" /\ UNCHANGED dChunk
            /\ UNCHANGED <<dErr, dispatchErrCh, queueVars>> /\ dpc = "chunk"
        BY <1>4, <2>2, ScanAssumption DEF DispatchChunk, DispatcherType
      <3>5. dChunk' \in 1..(NumChunks + 1) /\ dIndex' \in Nat
        BY <2>2, <3>1, <3>4, ScanAssumption DEF DispatcherType, TrackerType, Chunks
      <3>6. DispatcherType'
        BY <3>4, <3>5 DEF DispatcherType, DispatcherPCs
      <3>7. DispatcherPlace'
        BY <2>2, <3>3, <3>4 DEF DispatcherPlace
      <3>8. QED BY <3>3, <3>6, <3>7
    <2>3. QED BY <2>1, <2>2, ScanAssumption DEF DispatcherType
  <1>5. ASSUME DispatchTop PROVE Place
    BY <1>5, ScanAssumption, TaskFacts DEF DispatchTop, DispatchReturn, DispatcherType,
       DispatcherPlace, TrackerType, DispatcherPCs, DispatchErrors, Chunks
  <1>6. ASSUME DispatchSend PROVE Place
    <2>1. dChunk \in Chunks /\ <<dChunk, dIndex>> \in Tasks
      BY <1>6, TaskFacts DEF DispatchSend, DispatcherType, DispatcherPlace, Chunks
    <2>2. taskCh' \in Seq(Tasks)
      BY <1>6, <2>1, AppendElems DEF DispatchSend, DispatcherType
    <2>3. QED
      BY <1>6, <2>2 DEF DispatchSend, DispatcherType, DispatcherPlace, TrackerType,
         DispatcherPCs
  <1>7. ASSUME DispatchAdvance PROVE Place
    <2>1. dChunk \in Chunks /\ dIndex + 1 \in Nat /\ dChunk <= NumChunks
      BY <1>7 DEF DispatchAdvance, DispatcherType, DispatcherPlace, Chunks
    <2>2. TrackerType' /\ nextIndex'[dChunk] = dIndex + 1
      BY <1>7, <2>1, TrackerOps DEF DispatchAdvance, AdvanceNextIndex, TrackerType
    <2>3. QED
      BY <1>7, <2>1, <2>2 DEF DispatchAdvance, DispatcherType, DispatcherPlace, DispatcherPCs
  <1>8. ASSUME DispatchAcquire \/ DispatchGate \/ DispatchDelay PROVE Place
    BY <1>8 DEF DispatchAcquire, DispatchGate, DispatchDelay, DispatchPass,
       DispatcherType, DispatcherPlace, TrackerType, DispatcherPCs
  <1>9. ASSUME DispatchCancelled \/ DispatchFail \/ DispatchReport \/ DispatchClose
        PROVE  Place
    BY <1>9 DEF DispatchCancelled, DispatchFail, DispatchReport, DispatchClose,
       DispatchReturn, DispatcherType, DispatcherPlace, TrackerType, DispatcherPCs,
       DispatchErrors
  <1>10. QED
    BY <1>1, <1>2, <1>3, <1>4, <1>5, <1>6, <1>7, <1>8, <1>9 DEF Dispatcher

\* The workers and the executor's own goroutines.
LEMMA DataExecutor ==
    ASSUME DataInv
    PROVE  (\E w \in Workers : Worker(w) \/ WorkerPanic(w)) \/ WatchCancel \/ CloseExecutor
               => DataInv'
  <1> USE DEF DataInv
  <1>1. ASSUME NEW w \in Workers, Worker(w) \/ WorkerPanic(w) PROVE DataInv'
    <2> USE DEF Worker, WorkerTake, WorkerDrain, WorkerReceive, WorkerExit, WorkerStop,
        WorkerStart, WorkerFinish, WorkerPanic, WorkerSendResult, WorkerAbandon,
        WorkerReportFatal, WorkerGoto, WorkerUnchanged
    <2>1. DiskType' /\ LoopType' /\ TrackerType' /\ CommitterType' /\ DispatcherPlace'
      BY <1>1 DEF DiskType, LoopType, TrackerType, CommitterType, DispatcherPlace
    <2>2. DownIsIdle'
      BY <1>1 DEF DownIsIdle, Idle
    <2>3. wpc' \in [Workers -> WorkerPCs] /\ errCh' \in {"open", "err", "closed"}
      BY <1>1 DEF ExecutorType, WorkerPCs
    <2>4. totalStarted' \in Nat /\ startedAtStop' \in Nat
      BY <1>1 DEF ExecutorType, MarkStopping, FinishProbe
    <2>5. ASSUME WorkerTake(w) \/ WorkerDrain(w)
          PROVE  DispatcherType' /\ ExecutorType' /\ WorkerTasks'
      <3>1. taskCh # <<>> /\ taskCh' = Tail(taskCh)
            /\ wtask' = [wtask EXCEPT ![w] = Head(taskCh)]
            /\ UNCHANGED <<resultCh, abandonedCh>>
        BY <2>5
      <3>2. Head(taskCh) \in Tasks /\ taskCh' \in Seq(Tasks)
        BY <3>1, ReceiveElems DEF DispatcherType
      <3>3. \E to \in {"got", "drainput"} : wpc' = [wpc EXCEPT ![w] = to]
        BY <2>5
      <3>4. WorkerTasks'
        BY <3>1, <3>2, <3>3 DEF WorkerTasks, ExecutorType, Holding, NoTask
      <3>5. QED
        BY <2>3, <2>4, <2>5, <3>1, <3>2, <3>4 DEF DispatcherType, ExecutorType
    <2>6. ASSUME WorkerSendResult(w) \/ WorkerAbandon(w)
          PROVE  DispatcherType' /\ ExecutorType' /\ WorkerTasks'
      <3>1. wtask[w] \in Tasks
        BY <2>6 DEF WorkerTasks, Holding
      <3>2. resultCh' \in Seq(Tasks) /\ abandonedCh' \in Seq(Tasks)
        <4>1. /\ Append(resultCh, wtask[w]) \in Seq(Tasks)
              /\ Append(abandonedCh, wtask[w]) \in Seq(Tasks)
          BY <3>1, AppendElems DEF ExecutorType
        <4>2. QED BY <2>6, <4>1 DEF ExecutorType
      <3>3. wtask' = [wtask EXCEPT ![w] = NoTask]
            /\ \E to \in {"select", "drain", "fatal"} : wpc' = [wpc EXCEPT ![w] = to]
        BY <2>6
      <3>4. WorkerTasks'
        BY <3>3 DEF WorkerTasks, ExecutorType, Holding, NoTask
      <3>5. QED
        BY <2>3, <2>4, <2>6, <3>2, <3>3, <3>4 DEF DispatcherType, ExecutorType
    <2>7. ASSUME WorkerExit(w) \/ WorkerStop(w) \/ WorkerStart(w) \/ WorkerFinish(w)
                 \/ WorkerPanic(w) \/ WorkerReportFatal(w)
          PROVE  DispatcherType' /\ ExecutorType' /\ WorkerTasks'
      <3>1. UNCHANGED <<wtask, taskCh, resultCh, abandonedCh>>
        BY <2>7
      <3>2. WorkerTasks'
        BY <2>7, <3>1 DEF WorkerTasks, ExecutorType, Holding, NoTask
      <3>3. QED
        BY <2>3, <2>4, <2>7, <3>1, <3>2 DEF DispatcherType, ExecutorType
    <2>8. QED BY <1>1, <2>1, <2>2, <2>5, <2>6, <2>7
  <1>2. ASSUME WatchCancel PROVE DataInv'
    BY <1>2 DEF WatchCancel, MarkStopping, DiskType, LoopType, TrackerType,
       DispatcherType, ExecutorType, CommitterType, WorkerTasks, DispatcherPlace,
       DownIsIdle
  <1>3. ASSUME CloseExecutor PROVE DataInv'
    BY <1>3 DEF CloseExecutor, DiskType, LoopType, TrackerType,
       DispatcherType, ExecutorType, CommitterType, WorkerTasks, DispatcherPlace,
       DownIsIdle
  <1>4. QED BY <1>1, <1>2, <1>3

\* Giving up a batch keeps the tracker's type.
LEMMA FailType ==
    ASSUME DataInv, NEW early \in [Chunks -> Nat \cup {-1}], Fail(early)
    PROVE  TrackerType' /\ runErr' \in RunErrors /\ nextIndex' = nextIndex
  <1>1. ASSUME NEW c \in Chunks
        PROVE  (IF early[c] < 0 THEN firstUnwritten[c]
                ELSE Lowered(firstUnwritten[c], early[c])) \in Nat \cup {-1}
    <2>1. firstUnwritten[c] \in Nat \cup {-1} /\ early[c] \in Nat \cup {-1}
      BY DEF DataInv, TrackerType
    <2>2. QED BY <2>1 DEF Lowered
  <1>2. QED BY <1>1 DEF Fail, DataInv, TrackerType, RunErrors

\* What a commit makes of the files, the trackers and the batch.
LEMMA DataCommit ==
    ASSUME DataInv,
           NEW early \in [Chunks -> Nat \cup {-1}], NEW counts \in [Chunks -> Nat],
           NEW total \in Nat, NEW buf \in SUBSET Tasks,
           Commit(early, counts, total, buf)
    PROVE  /\ scanFile' \in SUBSET Tasks /\ openFile' \in SUBSET Tasks
           /\ TrackerType' /\ CommitterType' /\ runErr' \in RunErrors
           /\ nextIndex' = nextIndex
  <1> USE DEF DataInv
  <1>1. PICK scanOk \in FlushResults, openOk \in FlushResults :
           /\ scanFile' = IF scanOk THEN scanFile \cup buf ELSE scanFile
           /\ openFile' = IF openOk THEN openFile \cup (buf \cap OpenTasks) ELSE openFile
           /\ \/ /\ scannedCount' = [c \in Chunks |-> scannedCount[c] + counts[c]]
                 /\ status' = [c \in Chunks |->
                        IF counts[c] = 0 THEN status[c]
                        ELSE UpdatedStatus(c, status[c], nextIndex[c], scannedCount'[c])]
                 /\ earliestTask' = [c \in Chunks |-> -1]
                 /\ chunkPending' = [c \in Chunks |-> 0]
                 /\ pendingCount' = 0 /\ buffered' = {}
                 /\ UNCHANGED <<nextIndex, firstUnwritten, runErr>>
              \/ /\ earliestTask' = early /\ chunkPending' = counts
                 /\ pendingCount' = total /\ buffered' = buf
                 /\ Fail(early)
    BY DEF Commit
  <1>2. scanFile' \in SUBSET Tasks /\ openFile' \in SUBSET Tasks
    BY <1>1 DEF DiskType
  <1>3. CommitterType' /\ runErr' \in RunErrors /\ nextIndex' = nextIndex
    BY <1>1 DEF CommitterType, LoopType, Fail, RunErrors
  <1>4. TrackerType'
    <2>1. CASE Fail(early)
      BY <2>1, FailType
    <2>2. CASE /\ scannedCount' = [c \in Chunks |-> scannedCount[c] + counts[c]]
               /\ status' = [c \in Chunks |->
                      IF counts[c] = 0 THEN status[c]
                      ELSE UpdatedStatus(c, status[c], nextIndex[c], scannedCount'[c])]
               /\ UNCHANGED <<nextIndex, firstUnwritten, runErr>>
      <3>1. scannedCount' \in [Chunks -> Nat]
        BY <2>2 DEF TrackerType
      <3>2. status' \in [Chunks -> Statuses]
        BY <2>2, <3>1, TrackerOps DEF TrackerType
      <3>3. QED BY <2>2, <3>1, <3>2 DEF TrackerType
    <2>3. QED BY <1>1, <2>1, <2>2
  <1>5. QED BY <1>2, <1>3, <1>4

\* The batch with one more result is well typed.
LEMMA BatchType ==
    ASSUME DataInv, NEW t \in Tasks
    PROVE  /\ [earliestTask EXCEPT ![t[1]] = Lowered(@, t[2])] \in [Chunks -> Nat \cup {-1}]
           /\ [chunkPending EXCEPT ![t[1]] = @ + 1] \in [Chunks -> Nat]
           /\ pendingCount + 1 \in Nat
           /\ buffered \cup {t} \in SUBSET Tasks
  BY TaskFacts, TrackerOps DEF DataInv, CommitterType

\* Marking one task keeps the tracker's type.
LEMMA MarkType ==
    ASSUME DataInv, NEW t \in Tasks, MarkUnwritten(t)
    PROVE  TrackerType' /\ nextIndex' = nextIndex
  <1>1. t[1] \in Chunks /\ Lowered(firstUnwritten[t[1]], t[2]) \in Nat
    BY TaskFacts, TrackerOps DEF DataInv, TrackerType
  <1>2. QED BY <1>1 DEF DataInv, TrackerType, MarkUnwritten

\* Taking a result keeps the types.
LEMMA DataAccept ==
    ASSUME DataInv, NEW t \in Tasks, Accept(t)
    PROVE  /\ scanFile' \in SUBSET Tasks /\ openFile' \in SUBSET Tasks
           /\ TrackerType' /\ CommitterType' /\ runErr' \in RunErrors
           /\ nextIndex' = nextIndex
  <1> USE DEF DataInv
  <1> DEFINE early == [earliestTask EXCEPT ![t[1]] = Lowered(@, t[2])]
             counts == [chunkPending EXCEPT ![t[1]] = @ + 1]
             total == pendingCount + 1
             buf == buffered \cup {t}
  <1>1. /\ early \in [Chunks -> Nat \cup {-1}] /\ counts \in [Chunks -> Nat]
        /\ total \in Nat /\ buf \in SUBSET Tasks
    BY BatchType
  <1>2. \/ /\ MarkUnwritten(t)
           /\ UNCHANGED <<scanFile, openFile, committerVars, runErr>>
        \/ /\ earliestTask' = early /\ chunkPending' = counts /\ pendingCount' = total
           /\ Fail(early)
           /\ UNCHANGED <<scanFile, openFile, buffered>>
        \/ /\ earliestTask' = early /\ chunkPending' = counts /\ pendingCount' = total
           /\ buffered' = buf
           /\ UNCHANGED <<scanFile, openFile, trackerVars, runErr>>
        \/ Commit(early, counts, total, buf)
    BY DEF Accept
  <1> HIDE DEF early, counts, total, buf
  <1>3. CASE MarkUnwritten(t) /\ UNCHANGED <<scanFile, openFile, committerVars, runErr>>
    BY <1>3, MarkType DEF DiskType, CommitterType, LoopType
  <1>4. CASE /\ earliestTask' = early /\ chunkPending' = counts /\ pendingCount' = total
             /\ Fail(early)
             /\ UNCHANGED <<scanFile, openFile, buffered>>
    <2>1. TrackerType' /\ runErr' \in RunErrors /\ nextIndex' = nextIndex
      BY <1>1, <1>4, FailType
    <2>2. QED BY <1>1, <1>4, <2>1 DEF DiskType, CommitterType
  <1>5. CASE /\ earliestTask' = early /\ chunkPending' = counts /\ pendingCount' = total
             /\ buffered' = buf
             /\ UNCHANGED <<scanFile, openFile, trackerVars, runErr>>
    BY <1>1, <1>5 DEF DiskType, CommitterType, TrackerType, LoopType
  <1>6. CASE Commit(early, counts, total, buf)
    BY <1>1, <1>6, DataCommit
  <1>7. QED BY <1>2, <1>3, <1>4, <1>5, <1>6

\* The result loop.
LEMMA DataLoop ==
    ASSUME DataInv
    PROVE  ResultLoop => DataInv'
  <1> USE DEF DataInv
  <1>1. SUFFICES ASSUME ResultLoop PROVE DataInv'
    OBVIOUS
  <1> USE DEF ResultLoop, LoopApiErr, LoopExecutorErr, LoopDispatchErr, LoopResult,
      LoopAbandoned, LoopClosed, LoopExit, LoopFinish, LoopUnchanged
  <1>2. DownIsIdle' /\ WorkerTasks'
    BY <1>1 DEF DownIsIdle, WorkerTasks
  <1>3. /\ pc' \in {"loop", "finish", "persist"} /\ drained' \in SUBSET Drains
        /\ dispatchErr' \in DispatchErrors /\ apiErrCh' \in {"empty", "err", "spent"}
        /\ errCh' \in {"open", "err", "closed"}
        /\ dispatchErrCh' \in DispatchErrors \cup {"empty"}
    BY <1>1 DEF LoopType, DispatcherType, ExecutorType, Drains
  <1> DEFINE Rest ==
        /\ scanFile' \in SUBSET Tasks /\ openFile' \in SUBSET Tasks
        /\ TrackerType' /\ CommitterType' /\ runErr' \in RunErrors
        /\ nextIndex' = nextIndex
        /\ resultCh' \in Seq(Tasks) /\ abandonedCh' \in Seq(Tasks)
  <1>4. ASSUME LoopResult PROVE Rest
    <2>1. Head(resultCh) \in Tasks /\ Tail(resultCh) \in Seq(Tasks)
      BY <1>4, ReceiveElems DEF ExecutorType
    <2>2. QED BY <1>4, <2>1, DataAccept DEF ExecutorType
  <1>5. ASSUME LoopAbandoned PROVE Rest
    <2>1. Head(abandonedCh) \in Tasks /\ Tail(abandonedCh) \in Seq(Tasks)
      BY <1>5, ReceiveElems DEF ExecutorType
    <2>2. QED
      BY <1>5, <2>1, MarkType DEF ExecutorType, DiskType, CommitterType, LoopType
  <1>6. ASSUME LoopFinish PROVE Rest
    <2>1. CASE UNCHANGED <<scanFile, openFile, trackerVars, committerVars, runErr>>
      BY <1>6, <2>1 DEF DiskType, TrackerType, CommitterType, LoopType, ExecutorType
    <2>2. CASE Commit(earliestTask, chunkPending, pendingCount, buffered)
      BY <1>6, <2>2, DataCommit DEF CommitterType, ExecutorType
    <2>3. QED BY <1>6, <2>1, <2>2 DEF Finish
  <1>7. ASSUME LoopApiErr \/ LoopExecutorErr \/ LoopDispatchErr \/ LoopClosed \/ LoopExit
        PROVE  Rest
    <2>1. runErr' \in RunErrors
      BY <1>7 DEF KeepFirst, LoopType, RunErrors
    <2>2. QED
      BY <1>7, <2>1 DEF DiskType, TrackerType, CommitterType, ExecutorType
  <1>8. Rest
    BY <1>1, <1>4, <1>5, <1>6, <1>7
  <1>9. DiskType' /\ LoopType'
    BY <1>1, <1>3, <1>8 DEF DiskType, LoopType
  <1>10. DispatcherType' /\ DispatcherPlace'
    BY <1>1, <1>3, <1>8 DEF DispatcherType, DispatcherPlace
  <1>11. ExecutorType'
    BY <1>1, <1>3, <1>8 DEF ExecutorType
  <1>12. QED BY <1>2, <1>8, <1>9, <1>10, <1>11

\* Flags only ever become TRUE or FALSE.
LEMMA FlagStep ==
    ASSUME FlagType
    PROVE  Next => FlagType'
  <1>1. SUFFICES ASSUME Next PROVE FlagType'
    OBVIOUS
  <1>2. ASSUME StartRun \/ RefuseRun \/ Interrupt \/ TogglePause \/ PressureFatal
               \/ WatchCancel \/ CloseExecutor \/ Stopped
        PROVE  FlagType'
    <2>1. CASE StartRun BY <2>1, Zenon DEF StartRun, FlagType
    <2>2. CASE Interrupt BY <2>2, Zenon DEF Interrupt, FlagType
    <2>3. CASE TogglePause BY <2>3, Zenon DEF TogglePause, FlagType
    <2>4. CASE PressureFatal BY <2>4, Zenon DEF PressureFatal, FlagType
    <2>5. CASE WatchCancel BY <2>5, Zenon DEF WatchCancel, MarkStopping, FlagType
    <2>6. CASE CloseExecutor BY <2>6, Zenon DEF CloseExecutor, FlagType
    <2>7. CASE Stopped BY <2>7, Zenon DEF Stopped, vars, FlagType
    <2>8. CASE RefuseRun BY <2>8, Zenon DEF RefuseRun, FlagType
    <2>9. QED BY <1>2, <2>1, <2>2, <2>3, <2>4, <2>5, <2>6, <2>7, <2>8
  <1>3. ASSUME Crash \/ Persist PROVE FlagType'
    <2>1. Idle' /\ snapshotWritten' \in BOOLEAN
      BY <1>3, ExitIdle, Zenon DEF Crash, Persist, FlagType
    <2>2. QED BY <2>1, IdleType, Zenon
  <1>4. ASSUME Dispatcher \/ DispatchFail PROVE FlagType'
    <2> USE DEF Dispatcher, DispatchChunk, DispatchTop, DispatchAcquire, DispatchGate,
        DispatchSend, DispatchAdvance, DispatchDelay, DispatchCancelled, DispatchReport,
        DispatchClose, DispatchFail
    <2>1. DispatchUnchanged
      BY <1>4 DEF DispatchPass
    <2>2. taskClosed' = TRUE \/ taskClosed' = taskClosed
      BY <1>4 DEF DispatchPass, DispatchReturn
    <2>3. QED BY <2>1, <2>2, Zenon DEF DispatchUnchanged, FlagType
  <1>5. ASSUME NEW w \in Workers, Worker(w) \/ WorkerPanic(w) PROVE FlagType'
    <2> USE DEF Worker, WorkerTake, WorkerDrain, WorkerReceive, WorkerExit, WorkerStop,
        WorkerStart, WorkerFinish, WorkerPanic, WorkerSendResult, WorkerAbandon,
        WorkerReportFatal
    <2>1. WorkerUnchanged
      BY <1>5
    <2>2. /\ stopping' = TRUE \/ stopping' = stopping
          /\ execStopped' = TRUE \/ execStopped' = execStopped
          /\ panicked' = TRUE \/ panicked' = panicked
      BY <1>5 DEF MarkStopping, FinishProbe
    <2>3. QED BY <2>1, <2>2, Zenon DEF WorkerUnchanged, FlagType
  <1>6. ASSUME ResultLoop PROVE FlagType'
    <2>1. UNCHANGED <<snapshotWritten, panicked, execStopped, gateOpen, taskClosed,
                      execClosed, stopping>>
      BY <1>6, Zenon DEF ResultLoop, LoopApiErr, LoopExecutorErr, LoopDispatchErr, LoopResult,
         LoopAbandoned, LoopClosed, LoopExit, LoopFinish, LoopUnchanged
    <2>2. ctxDone' \in BOOLEAN /\ failed' \in BOOLEAN
      BY <1>6, Zenon DEF ResultLoop, LoopApiErr, LoopExecutorErr, LoopDispatchErr, LoopResult,
         LoopAbandoned, LoopClosed, LoopExit, LoopFinish, KeepFirst, Accept, Finish,
         Commit, Fail, FlagType
    <2>3. QED BY <2>1, <2>2, Zenon DEF FlagType
  <1>7. QED BY <1>1, <1>2, <1>3, <1>4, <1>5, <1>6 DEF Next

\* Every step keeps the types.
LEMMA TypeStep == TypeInv /\ [Next]_vars => TypeInv'
  <1>1. SUFFICES ASSUME TypeInv, [Next]_vars PROVE TypeInv'
    OBVIOUS
  <1>2. DataInv /\ FlagType
    BY <1>1 DEF TypeInv, TypeOK, DataInv
  <1>3. CASE Next
    <2>1. DataInv'
      BY <1>2, <1>3, DataEnvironment, DataDispatcher, DataExecutor, DataLoop DEF Next
    <2>2. FlagType'
      BY <1>2, <1>3, FlagStep
    <2>3. QED BY <2>1, <2>2 DEF TypeInv, TypeOK, DataInv
  <1>4. CASE UNCHANGED vars
    <2>1. Stopped => DataInv'
      BY <1>2, DataEnvironment
    <2>2. QED
      BY <1>1, <1>4 DEF vars, TypeInv, TypeOK, DiskType, LoopType, TrackerType,
         DispatcherType, ExecutorType, CommitterType, FlagType, WorkerTasks,
         DispatcherPlace, DownIsIdle, Idle, NoTask, Chunks
  <1>5. QED BY <1>1, <1>3, <1>4

\* Type correctness: in every run every channel carries tasks of the bucket,
\* every cursor and count is a natural number, and every goroutine is at a
\* known place, whatever faults occur.
THEOREM TypeCorrect == Spec => []TypeOK
  <1>1. Spec => []TypeInv
    BY TypeInit, TypeStep, PTL DEF Spec
  <1>2. TypeInv => TypeOK
    BY DEF TypeInv
  <1>3. QED BY <1>1, <1>2, PTL

-----------------------------------------------------------------------------
(* The order of the shutdown *)

\* A process that is not running has not shut down out of order.
LEMMA ShutdownInit == Init => Shutdown
  BY DEF Init, Idle, Shutdown

\* Neither has one that has just ended.
LEMMA ShutdownIdle == Idle' => Shutdown'
  BY DEF Idle, Shutdown

\* Every step keeps the order of the shutdown.
LEMMA ShutdownStep == TypeInv /\ Shutdown /\ [Next]_vars => Shutdown'
  <1>1. SUFFICES ASSUME TypeInv, Shutdown, [Next]_vars PROVE Shutdown'
    OBVIOUS
  <1> USE <1>1
  <1>2. ASSUME StartRun PROVE Shutdown'
    BY <1>2 DEF StartRun, Shutdown, TypeInv, DownIsIdle, Idle
  <1>3. ASSUME Crash \/ Persist PROVE Shutdown'
    BY <1>3, ExitIdle, ShutdownIdle DEF Crash, Persist
  <1>4. ASSUME RefuseRun \/ Interrupt \/ TogglePause \/ PressureFatal \/ WatchCancel
        PROVE  Shutdown'
    BY <1>4 DEF RefuseRun, Interrupt, TogglePause, PressureFatal, WatchCancel, Shutdown
  <1>5. ASSUME UNCHANGED vars PROVE Shutdown'
    BY <1>5 DEF vars, Shutdown
  <1>6. ASSUME Dispatcher \/ DispatchFail PROVE Shutdown'
    <2> USE DEF Dispatcher, DispatchChunk, DispatchTop, DispatchAcquire, DispatchGate,
        DispatchSend, DispatchAdvance, DispatchDelay, DispatchCancelled, DispatchReport,
        DispatchClose, DispatchFail, DispatchPass
    <2>1. dpc # "done" /\ DispatchUnchanged /\ pc # "down"
      BY <1>6 DEF DispatchUnchanged, TypeInv, DownIsIdle, Idle
    <2>2. ~taskClosed /\ \A w \in Workers : wpc[w] # "exited"
      BY <2>1 DEF Shutdown
    <2>3. taskClosed' => dpc' = "done"
      BY <1>6, <2>2 DEF DispatchReturn
    <2>4. QED BY <2>1, <2>2, <2>3 DEF Shutdown, DispatchUnchanged
  <1>7. ASSUME NEW w \in Workers, Worker(w) \/ WorkerPanic(w) PROVE Shutdown'
    <2> USE DEF Worker, WorkerTake, WorkerDrain, WorkerReceive, WorkerExit, WorkerStop,
        WorkerStart, WorkerFinish, WorkerPanic, WorkerSendResult, WorkerAbandon,
        WorkerReportFatal, WorkerGoto
    <2>1. WorkerUnchanged /\ wpc[w] # "exited"
      BY <1>7
    <2>2. pc # "down" /\ ~execClosed
      BY <2>1 DEF Shutdown, TypeInv, DownIsIdle, Idle
    <2>3. ASSUME NEW v \in Workers, wpc'[v] = "exited"
          PROVE  taskClosed /\ taskCh' = <<>>
      <3>1. CASE WorkerExit(w)
        BY <3>1
      <3>2. CASE ~WorkerExit(w)
        <4>1. wpc[v] = "exited"
          BY <1>7, <2>3, <3>2 DEF TypeInv, TypeOK, ExecutorType
        <4>2. taskClosed /\ taskCh = <<>>
          BY <2>2, <4>1 DEF Shutdown
        <4>3. taskCh' = taskCh
          BY <1>7, <4>2
        <4>4. QED BY <4>2, <4>3
      <3>3. QED BY <3>1, <3>2
    <2>4. QED
      BY <2>1, <2>2, <2>3 DEF Shutdown, WorkerUnchanged
  <1>8. ASSUME CloseExecutor PROVE Shutdown'
    BY <1>8 DEF CloseExecutor, Shutdown
  <1>9. ASSUME ResultLoop PROVE Shutdown'
    <2> USE DEF ResultLoop, LoopApiErr, LoopExecutorErr, LoopDispatchErr, LoopResult,
        LoopAbandoned, LoopClosed, LoopExit, LoopFinish, LoopUnchanged
    <2>1. /\ UNCHANGED <<outcome, dpc, queueVars, wpc, execClosed>>
          /\ pc # "down" /\ pc' # "down"
      BY <1>9
    <2>2. /\ pc' \in {"finish", "persist"} => drained' = Drains
          /\ "result" \in drained' => execClosed /\ resultCh' = <<>>
          /\ "abandoned" \in drained' => execClosed /\ abandonedCh' = <<>>
      BY <1>9 DEF Shutdown, Drains
    <2>3. QED BY <2>1, <2>2 DEF Shutdown, Drains
  <1>10. QED
    BY <1>2, <1>3, <1>4, <1>5, <1>6, <1>7, <1>8, <1>9 DEF Next, Stopped

-----------------------------------------------------------------------------
(* What the committer does to a batch *)

\* The batch is known by the first task of each of its chunks.
Covers(early, buf) == \A t \in buf : 0 <= early[t[1]] /\ early[t[1]] <= t[2]

\* Giving up a batch marks all its tasks and unmarks none.
LEMMA FailEffects ==
    ASSUME TypeInv, NEW early \in [Chunks -> Nat \cup {-1}], Fail(early)
    PROVE  /\ failed'
           /\ \A t \in Tasks : Marked(t) => Marked(t)'
           /\ \A t \in Tasks : 0 <= early[t[1]] /\ early[t[1]] <= t[2] => Marked(t)'
           /\ \A c \in Chunks : \/ firstUnwritten'[c] = firstUnwritten[c]
                                \/ firstUnwritten'[c] = early[c] /\ early[c] >= 0
  <1>1. firstUnwritten \in [Chunks -> Nat \cup {-1}]
    BY DEF TypeInv, TypeOK, TrackerType
  <1>2. failed'
    BY DEF Fail
  <1>3. \A c \in Chunks :
          firstUnwritten'[c] = IF early[c] < 0 THEN firstUnwritten[c]
                               ELSE Lowered(firstUnwritten[c], early[c])
    BY DEF Fail
  <1>4. \A c \in Chunks :
          /\ firstUnwritten[c] \in Nat \cup {-1} /\ early[c] \in Nat \cup {-1}
          /\ \/ firstUnwritten'[c] = firstUnwritten[c]
             \/ firstUnwritten'[c] = early[c] /\ early[c] >= 0
          /\ firstUnwritten[c] >= 0 =>
                 firstUnwritten'[c] >= 0 /\ firstUnwritten'[c] <= firstUnwritten[c]
          /\ early[c] >= 0 => firstUnwritten'[c] >= 0 /\ firstUnwritten'[c] <= early[c]
    BY <1>1, <1>3 DEF Lowered
  <1>5. ASSUME NEW t \in Tasks
        PROVE  /\ Marked(t) => Marked(t)'
               /\ 0 <= early[t[1]] /\ early[t[1]] <= t[2] => Marked(t)'
    <2>1. t[1] \in Chunks /\ t[2] \in Nat
      BY TaskFacts
    <2>2. firstUnwritten'[t[1]] \in Int
      BY <1>4, <2>1
    <2>3. QED BY <1>4, <2>1, <2>2 DEF Marked
  <1>6. QED BY <1>2, <1>4, <1>5

\* After a commit every row of the batch is on disk or marked.
LEMMA CommitEffects ==
    ASSUME TypeInv, ~failed,
           NEW early \in [Chunks -> Nat \cup {-1}], NEW counts \in [Chunks -> Nat],
           NEW total \in Nat, NEW buf \in SUBSET Tasks, Covers(early, buf),
           Commit(early, counts, total, buf)
    PROVE  /\ buffered' \subseteq buf
           /\ Covers(earliestTask', buffered')
           /\ failed' => \A t \in buffered' : Marked(t)'
           /\ ~failed' => buffered' = {}
           /\ Durable \subseteq Durable'
           /\ \A t \in buf : t \in Durable' \/ Marked(t)'
           /\ \A t \in Tasks : Marked(t) => Marked(t)'
           /\ \A c \in Chunks : \/ firstUnwritten'[c] = firstUnwritten[c]
                                \/ firstUnwritten'[c] = early[c] /\ early[c] >= 0
           /\ \A c \in Chunks : earliestTask'[c] = -1 \/ earliestTask'[c] = early[c]
           /\ nextIndex' = nextIndex
  <1>1. PICK scanOk \in FlushResults, openOk \in FlushResults :
           /\ scanFile' = IF scanOk THEN scanFile \cup buf ELSE scanFile
           /\ openFile' = IF openOk THEN openFile \cup (buf \cap OpenTasks) ELSE openFile
           /\ \/ /\ scanOk /\ openOk
                 /\ earliestTask' = [c \in Chunks |-> -1]
                 /\ buffered' = {}
                 /\ UNCHANGED <<nextIndex, firstUnwritten, failed>>
              \/ /\ earliestTask' = early /\ buffered' = buf
                 /\ Fail(early)
    BY DEF Commit
  <1>2. Durable \subseteq Durable'
    BY <1>1 DEF Durable
  <1>3. CASE /\ scanOk /\ openOk
             /\ earliestTask' = [c \in Chunks |-> -1]
             /\ buffered' = {}
             /\ UNCHANGED <<nextIndex, firstUnwritten, failed>>
    <2>1. \A t \in buf : t \in Durable'
      BY <1>1, <1>3 DEF Durable
    <2>2. \A t \in Tasks : Marked(t) => Marked(t)'
      BY <1>3 DEF Marked
    <2>3. QED BY <1>2, <1>3, <2>1, <2>2 DEF Covers
  <1>4. CASE earliestTask' = early /\ buffered' = buf /\ Fail(early)
    <2>1. \A t \in buf : Marked(t)'
      BY <1>4, FailEffects DEF Covers
    <2>2. nextIndex' = nextIndex
      BY <1>4 DEF Fail
    <2>3. QED BY <1>2, <1>4, <2>1, <2>2, FailEffects
  <1>5. QED BY <1>1, <1>3, <1>4

\* Marking a task unmarks none.
LEMMA MarkEffects ==
    ASSUME TypeInv, NEW t0 \in Tasks, MarkUnwritten(t0)
    PROVE  /\ Marked(t0)'
           /\ \A t \in Tasks : Marked(t) => Marked(t)'
           /\ \A c \in Chunks : \/ firstUnwritten'[c] = firstUnwritten[c]
                                \/ c = t0[1] /\ firstUnwritten'[c] = t0[2]
           /\ nextIndex' = nextIndex
  <1>1. t0[1] \in Chunks /\ t0[2] \in Nat
    BY TaskFacts
  <1>2. firstUnwritten \in [Chunks -> Nat \cup {-1}] /\ nextIndex' = nextIndex
    BY DEF TypeInv, TypeOK, TrackerType, MarkUnwritten
  <1>3. \A c \in Chunks : firstUnwritten'[c] = IF c = t0[1]
            THEN Lowered(firstUnwritten[c], t0[2]) ELSE firstUnwritten[c]
    BY <1>1, <1>2 DEF MarkUnwritten
  <1>4. \A t \in Tasks : Marked(t) => Marked(t)'
    <2>1. TAKE t \in Tasks
    <2>2. t[1] \in Chunks /\ t[2] \in Nat
      BY TaskFacts
    <2>3. QED BY <1>1, <1>2, <1>3, <2>2 DEF Marked, Lowered
  <1>5. Marked(t0)'
    BY <1>1, <1>2, <1>3 DEF Marked, Lowered
  <1>6. \A c \in Chunks : \/ firstUnwritten'[c] = firstUnwritten[c]
                          \/ c = t0[1] /\ firstUnwritten'[c] = t0[2]
    BY <1>1, <1>2, <1>3 DEF Lowered
  <1>7. QED BY <1>2, <1>4, <1>5, <1>6

\* The result loop takes a result t0: its row is on disk, in the batch or marked.
LEMMA AcceptEffects ==
    ASSUME TypeInv, BatchKnown, NEW t0 \in Tasks, Accept(t0)
    PROVE  /\ buffered' \subseteq buffered \cup {t0}
           /\ Covers(earliestTask', buffered')
           /\ failed' => \A t \in buffered' : Marked(t)'
           /\ ~failed' /\ pendingCount' = 0 => buffered' = {}
           /\ Durable \subseteq Durable'
           /\ \A t \in buffered \cup {t0} : t \in Durable' \/ t \in buffered' \/ Marked(t)'
           /\ \A t \in Tasks : Marked(t) => Marked(t)'
           /\ \A c \in Chunks : \/ firstUnwritten'[c] = firstUnwritten[c]
                                \/ firstUnwritten'[c] = earliestTask[c]
                                \/ c = t0[1] /\ firstUnwritten'[c] = t0[2]
           /\ \A c \in Chunks : \/ earliestTask'[c] = -1
                                \/ earliestTask'[c] = earliestTask[c]
                                \/ c = t0[1] /\ earliestTask'[c] = t0[2]
           /\ nextIndex' = nextIndex
  <1> DEFINE early == [earliestTask EXCEPT ![t0[1]] = Lowered(@, t0[2])]
             counts == [chunkPending EXCEPT ![t0[1]] = @ + 1]
             total == pendingCount + 1
             buf == buffered \cup {t0}
  <1>1. /\ early \in [Chunks -> Nat \cup {-1}] /\ counts \in [Chunks -> Nat]
        /\ total \in Nat /\ buf \in SUBSET Tasks
    BY BatchType DEF TypeInv, TypeOK, DataInv
  <1>2. t0[1] \in Chunks /\ t0[2] \in Nat
    BY TaskFacts
  <1>3. earliestTask \in [Chunks -> Nat \cup {-1}] /\ pendingCount \in Nat
        /\ firstUnwritten \in [Chunks -> Nat \cup {-1}] /\ buffered \subseteq Tasks
    BY DEF TypeInv, TypeOK, CommitterType, TrackerType
  <1>4. \A c \in Chunks :
          /\ early[c] = earliestTask[c] \/ (c = t0[1] /\ early[c] = t0[2])
          /\ earliestTask[c] >= 0 => early[c] >= 0 /\ early[c] <= earliestTask[c]
    BY <1>2, <1>3 DEF Lowered
  <1>5. early[t0[1]] >= 0 /\ early[t0[1]] <= t0[2]
    BY <1>2, <1>3 DEF Lowered
  <1>6. Covers(early, buf)
    <2>1. SUFFICES ASSUME NEW t \in buffered PROVE 0 <= early[t[1]] /\ early[t[1]] <= t[2]
      BY <1>5 DEF Covers
    <2>2. t[1] \in Chunks /\ t[2] \in Nat
      BY <1>3, TaskFacts
    <2>3. 0 <= earliestTask[t[1]] /\ earliestTask[t[1]] <= t[2]
      BY DEF BatchKnown
    <2>4. early[t[1]] \in Nat \cup {-1} /\ earliestTask[t[1]] \in Nat \cup {-1}
      BY <1>1, <1>3, <2>2
    <2>5. early[t[1]] >= 0 /\ early[t[1]] <= earliestTask[t[1]]
      BY <1>4, <2>2, <2>3
    <2> HIDE DEF early
    <2>6. QED BY <2>2, <2>3, <2>4, <2>5
  <1>7. \/ /\ failed /\ MarkUnwritten(t0)
           /\ UNCHANGED <<scanFile, openFile, committerVars>>
        \/ /\ earliestTask' = early
           /\ Fail(early)
           /\ UNCHANGED <<scanFile, openFile, buffered>>
        \/ /\ ~failed /\ earliestTask' = early /\ pendingCount' = total
           /\ buffered' = buf
           /\ UNCHANGED <<scanFile, openFile, trackerVars, failed>>
        \/ ~failed /\ Commit(early, counts, total, buf)
    BY DEF Accept
  <1> HIDE DEF early, counts, total
  <1>8. CASE /\ failed /\ MarkUnwritten(t0)
             /\ UNCHANGED <<scanFile, openFile, committerVars>>
    <2>1. Durable' = Durable
      BY <1>8 DEF Durable
    <2>2. Covers(earliestTask', buffered')
      BY <1>8 DEF BatchKnown, Covers
    <2>3. \A t \in buffered' : Marked(t)'
      BY <1>3, <1>8, MarkEffects DEF BatchKnown
    <2>4. QED BY <1>8, <2>1, <2>2, <2>3, MarkEffects
  <1>9. CASE /\ earliestTask' = early
             /\ Fail(early)
             /\ UNCHANGED <<scanFile, openFile, buffered>>
    <2>1. \A t \in buf : Marked(t)'
      BY <1>1, <1>6, <1>9, FailEffects DEF Covers
    <2>2. Durable' = Durable /\ nextIndex' = nextIndex
      BY <1>9 DEF Durable, Fail
    <2>3. Covers(earliestTask', buffered')
      BY <1>6, <1>9 DEF Covers
    <2>4. QED BY <1>1, <1>4, <1>9, <2>1, <2>2, <2>3, FailEffects
  <1>10. CASE /\ ~failed /\ earliestTask' = early /\ pendingCount' = total
              /\ buffered' = buf
              /\ UNCHANGED <<scanFile, openFile, trackerVars, failed>>
    <2>1. total # 0
      BY <1>3 DEF total
    <2>2. Durable' = Durable
      BY <1>10 DEF Durable
    <2>3. \A t \in Tasks : Marked(t) => Marked(t)'
      BY <1>10 DEF Marked
    <2>4. QED BY <1>4, <1>6, <1>10, <2>1, <2>2, <2>3
  <1>11. CASE ~failed /\ Commit(early, counts, total, buf)
    BY <1>1, <1>4, <1>6, <1>11, CommitEffects
  <1>12. QED BY <1>7, <1>8, <1>9, <1>10, <1>11

-----------------------------------------------------------------------------
(* Where the tasks are *)

\* Workers move tasks between the channels and lose none.
LEMMA WorkerFlight ==
    ASSUME TypeInv, NEW w \in Workers, Worker(w) \/ WorkerPanic(w), NEW t \in Tasks
    PROVE  t \in InFlight' <=> t \in InFlight
  <1> USE DEF Worker, WorkerTake, WorkerDrain, WorkerReceive, WorkerExit, WorkerStop,
      WorkerStart, WorkerFinish, WorkerPanic, WorkerSendResult, WorkerAbandon,
      WorkerReportFatal, WorkerGoto
  <1>1. wtask \in [Workers -> Tasks \cup {NoTask}] /\ t # NoTask
    BY TaskFacts DEF TypeInv, TypeOK, ExecutorType
  <1>2. buffered' = buffered
    BY DEF WorkerUnchanged
  <1>3. CASE WorkerTake(w) \/ WorkerDrain(w)
    <2>1. wtask[w] = NoTask
      BY <1>3 DEF TypeInv, WorkerTasks, Holding
    <2>2. taskCh # <<>> /\ taskCh' = Tail(taskCh)
          /\ wtask' = [wtask EXCEPT ![w] = Head(taskCh)]
          /\ UNCHANGED <<resultCh, abandonedCh>>
      BY <1>3
    <2>3. Elems(taskCh) = Elems(taskCh') \cup {Head(taskCh)}
      BY <2>2, ReceiveElems DEF TypeInv, TypeOK, DispatcherType
    <2>4. (\E v \in Workers : wtask'[v] = t) <=>
              (t = Head(taskCh) \/ \E v \in Workers : wtask[v] = t)
      BY <1>1, <2>1, <2>2
    <2>5. QED BY <1>2, <2>2, <2>3, <2>4 DEF InFlight
  <1>4. CASE WorkerSendResult(w) \/ WorkerAbandon(w)
    <2>1. wtask[w] \in Tasks
      BY <1>4 DEF TypeInv, WorkerTasks, Holding
    <2>2. wtask' = [wtask EXCEPT ![w] = NoTask] /\ taskCh' = taskCh
          /\ \/ resultCh' = Append(resultCh, wtask[w]) /\ abandonedCh' = abandonedCh
             \/ abandonedCh' = Append(abandonedCh, wtask[w]) /\ resultCh' = resultCh
      BY <1>4
    <2>3. /\ Elems(Append(resultCh, wtask[w])) = Elems(resultCh) \cup {wtask[w]}
          /\ Elems(Append(abandonedCh, wtask[w])) = Elems(abandonedCh) \cup {wtask[w]}
      BY <2>1, AppendElems DEF TypeInv, TypeOK, ExecutorType
    <2>4. (\E v \in Workers : wtask[v] = t) <=>
              (t = wtask[w] \/ \E v \in Workers : wtask'[v] = t)
      BY <1>1, <2>2
    <2>5. QED BY <1>2, <2>2, <2>3, <2>4 DEF InFlight
  <1>5. CASE WorkerExit(w) \/ WorkerStop(w) \/ WorkerStart(w) \/ WorkerFinish(w)
             \/ WorkerPanic(w) \/ WorkerReportFatal(w)
    <2>1. UNCHANGED <<wtask, taskCh, resultCh, abandonedCh>>
      BY <1>5
    <2>2. QED BY <1>2, <2>1 DEF InFlight
  <1>6. QED BY <1>3, <1>4, <1>5

\* A process that is not running holds no task.
LEMMA IdleFlight == ASSUME Idle, NEW t \in Tasks PROVE t \notin InFlight
  BY EmptyElems, TaskFacts DEF Idle, InFlight

\* The same of the state after a step.
LEMMA IdleFlightNext == ASSUME Idle', NEW t \in Tasks PROVE t \notin InFlight'
  BY EmptyElems, TaskFacts DEF Idle, InFlight, NoTask

\* When the result loop has ended, only a failed batch is left in memory.
LEMMA DrainedFlight ==
    ASSUME TypeInv, Shutdown, pc \in {"finish", "persist"},
           NEW t \in Tasks, t \in InFlight
    PROVE  t \in buffered
  <1>1. execClosed /\ resultCh = <<>> /\ abandonedCh = <<>>
    BY DEF Shutdown, Drains
  <1>2. \A w \in Workers : wpc[w] = "exited"
    BY <1>1 DEF Shutdown
  <1>3. taskCh = <<>>
    BY <1>2, ScanAssumption DEF Shutdown
  <1>4. \A w \in Workers : wtask[w] # t
    BY <1>2, TaskFacts DEF TypeInv, WorkerTasks, Holding
  <1>5. QED BY <1>1, <1>3, <1>4, EmptyElems DEF InFlight

\* The dispatcher puts the task at its cursor into the queue, then moves the
\* cursor past it, and does nothing else to tasks or cursors.
LEMMA DispatcherEffects ==
    ASSUME TypeInv, Dispatcher \/ DispatchFail
    PROVE  /\ DispatchUnchanged /\ pc # "down" /\ firstUnwritten' = firstUnwritten
           /\ \/ nextIndex' = nextIndex /\ InFlight' = InFlight /\ dpc' # "advance"
              \/ /\ dpc = "send" /\ dpc' = "advance" /\ nextIndex' = nextIndex
                 /\ dChunk \in Chunks /\ <<dChunk, dIndex>> \in Tasks
                 /\ dIndex = nextIndex[dChunk] /\ UNCHANGED <<dChunk, dIndex>>
                 /\ InFlight' = InFlight \cup {<<dChunk, dIndex>>}
              \/ /\ dpc = "advance" /\ dpc' = "delay"
                 /\ dChunk \in Chunks /\ dIndex < TotalCount[dChunk]
                 /\ dIndex = nextIndex[dChunk]
                 /\ nextIndex' = [nextIndex EXCEPT ![dChunk] = dIndex + 1]
                 /\ InFlight' = InFlight
  <1> USE DEF Dispatcher, DispatchChunk, DispatchTop, DispatchAcquire, DispatchGate,
      DispatchSend, DispatchAdvance, DispatchDelay, DispatchCancelled, DispatchReport,
      DispatchClose, DispatchFail, DispatchPass, DispatchReturn, AdvanceNextIndex
  <1>1. DispatchUnchanged /\ pc # "down" /\ firstUnwritten' = firstUnwritten
    BY DEF DispatchUnchanged, TypeInv, DownIsIdle, Idle
  <1>2. CASE DispatchSend
    <2>1. dChunk \in Chunks /\ <<dChunk, dIndex>> \in Tasks /\ dIndex = nextIndex[dChunk]
      BY <1>2, TaskFacts DEF TypeInv, TypeOK, DispatcherType, DispatcherPlace, Chunks
    <2>2. Elems(taskCh') = Elems(taskCh) \cup {<<dChunk, dIndex>>}
      BY <1>2, <2>1, AppendElems DEF TypeInv, TypeOK, DispatcherType
    <2>3. InFlight' = InFlight \cup {<<dChunk, dIndex>>}
      BY <1>1, <2>2 DEF InFlight, DispatchUnchanged
    <2>4. QED BY <1>1, <1>2, <2>1, <2>3
  <1>3. CASE DispatchAdvance
    <2>1. InFlight' = InFlight
      BY <1>1, <1>3 DEF InFlight, DispatchUnchanged
    <2>2. dChunk \in Chunks /\ dIndex < TotalCount[dChunk] /\ dIndex = nextIndex[dChunk]
      BY <1>3 DEF TypeInv, TypeOK, DispatcherType, DispatcherPlace, Chunks
    <2>3. QED BY <1>1, <1>3, <2>1, <2>2
  <1>4. CASE ~DispatchSend /\ ~DispatchAdvance
    <2>1. taskCh' = taskCh /\ dpc' # "advance"
      BY <1>4
    <2>2. InFlight' = InFlight
      BY <1>1, <2>1 DEF InFlight, DispatchUnchanged
    <2>3. nextIndex' = nextIndex
      BY <1>4 DEF TypeInv, TypeOK, TrackerType
    <2>4. QED BY <1>1, <2>1, <2>2, <2>3
  <1>5. QED BY <1>2, <1>3, <1>4

\* The range of every index a run handles.
LEMMA RangesInit == Init => Ranges
  <1>1. SUFFICES ASSUME Init PROVE Ranges
    OBVIOUS
  <1>2. Idle BY <1>1 DEF Init
  <1>3. /\ \A t \in Tasks : t \notin InFlight
        /\ \A c \in Chunks : TotalCount[c] \in Nat
    BY <1>2, IdleFlight, TaskFacts
  <1>4. /\ pc = "down"
        /\ \A c \in Chunks : /\ saved.next[c] = 0 /\ nextIndex[c] = 0
                             /\ firstUnwritten[c] = -1 /\ earliestTask[c] = -1
    BY <1>1, <1>2 DEF Init, Idle
  <1>5. QED BY <1>3, <1>4 DEF Ranges

\* Every step keeps the indices of a run in their range.
LEMMA RangesStep ==
    TypeInv /\ TypeInv' /\ Shutdown /\ BatchKnown /\ Ranges /\ [Next]_vars => Ranges'
  <1>1. SUFFICES ASSUME TypeInv, TypeInv', Shutdown, BatchKnown, Ranges, [Next]_vars
                 PROVE  Ranges'
    OBVIOUS
  <1> USE <1>1
  <1>2. /\ \A c \in Chunks : /\ saved.next[c] \in Nat /\ nextIndex[c] \in Nat
                             /\ firstUnwritten[c] \in Nat \cup {-1}
                             /\ earliestTask[c] \in Nat \cup {-1}
                             /\ TotalCount[c] \in Nat
        /\ \A t \in Tasks : t[1] \in Chunks /\ t[2] \in Nat /\ t[2] < TotalCount[t[1]]
    BY TaskFacts DEF TypeInv, TypeOK, DiskType, TrackerType, CommitterType
  <1>3. ASSUME StartRun PROVE Ranges'
    <2>1. Idle
      BY <1>3 DEF StartRun, TypeInv, DownIsIdle
    <2>2. InFlight' = InFlight
      BY <1>3 DEF StartRun, InFlight
    <2>3. \A t \in Tasks : t \notin InFlight'
      BY <2>1, <2>2, IdleFlight
    <2>4. saved' = saved /\ nextIndex' = saved.next
          /\ \A c \in Chunks : firstUnwritten'[c] = -1 /\ earliestTask'[c] = -1
      BY <1>3, <2>1 DEF StartRun, Idle
    <2>5. QED BY <1>2, <2>3, <2>4 DEF Ranges
  <1>4. ASSUME Crash \/ Persist PROVE Ranges'
    <2>1. Idle'
      BY <1>4, ExitIdle DEF Crash, Persist
    <2>2. \A c \in Chunks : saved'.next[c] <= TotalCount[c]
      BY <1>2, <1>4 DEF Crash, Persist, RewoundNext, Ranges
    <2>3. \A c \in Chunks : nextIndex'[c] = 0 /\ firstUnwritten'[c] = -1 /\ earliestTask'[c] = -1
      BY <2>1 DEF Idle
    <2>4. pc' = "down"
      BY <2>1 DEF Idle
    <2>5. QED BY <1>2, <2>1, <2>2, <2>3, <2>4, IdleFlightNext DEF Ranges
  <1>5. ASSUME \/ RefuseRun \/ Interrupt \/ TogglePause \/ PressureFatal \/ WatchCancel
               \/ CloseExecutor \/ UNCHANGED vars
        PROVE  Ranges'
    <2>1. UNCHANGED <<saved, nextIndex, pc, firstUnwritten, earliestTask, taskCh, wtask,
                      resultCh, abandonedCh, buffered>>
      BY <1>5 DEF RefuseRun, Interrupt, TogglePause, PressureFatal, WatchCancel,
         CloseExecutor, vars
    <2>2. InFlight' = InFlight
      BY <2>1 DEF InFlight
    <2>3. QED BY <2>1, <2>2 DEF Ranges, Dispatched
  <1>6. ASSUME Dispatcher \/ DispatchFail PROVE Ranges'
    <2>1. UNCHANGED <<saved, pc, firstUnwritten, earliestTask>> /\ pc # "down"
      BY <1>6, DispatcherEffects DEF DispatchUnchanged
    <2>2. \A c \in Chunks : nextIndex'[c] \in Nat /\ nextIndex'[c] >= nextIndex[c]
                            /\ nextIndex'[c] <= TotalCount[c]
      BY <1>2, <1>6, DispatcherEffects DEF Ranges, TypeInv, TypeOK, TrackerType
    <2>3. \A t \in Tasks : t \in InFlight' => t[2] \in Dispatched(t[1])
      BY <1>2, <1>6, <2>1, DispatcherEffects DEF Ranges, Dispatched
    <2>4. \A c \in Chunks : \A i \in Dispatched(c) : i \in Dispatched(c)'
      BY <1>2, <2>1, <2>2 DEF Dispatched
    <2>5. QED BY <1>2, <2>1, <2>2, <2>3, <2>4 DEF Ranges
  <1>7. ASSUME NEW w \in Workers, Worker(w) \/ WorkerPanic(w) PROVE Ranges'
    <2>1. WorkerUnchanged
      BY <1>7 DEF Worker, WorkerTake, WorkerDrain, WorkerReceive, WorkerExit, WorkerStop,
         WorkerStart, WorkerFinish, WorkerPanic, WorkerSendResult, WorkerAbandon,
         WorkerReportFatal
    <2>2. QED BY <1>7, <2>1, WorkerFlight DEF WorkerUnchanged, Ranges, Dispatched
  <1>8. ASSUME ResultLoop PROVE Ranges'
    <2> USE DEF ResultLoop, LoopApiErr, LoopExecutorErr, LoopDispatchErr, LoopResult,
        LoopAbandoned, LoopClosed, LoopExit, LoopFinish
    <2>1. UNCHANGED <<saved, taskCh, wtask>> /\ pc # "down" /\ pc' # "down"
      BY <1>8 DEF LoopUnchanged
    <2> DEFINE InRange(c, i) == i \in Dispatched(c) /\ i < TotalCount[c]
               Moves ==
                 /\ nextIndex' = nextIndex
                 /\ \A t \in Tasks : t \in InFlight' => t \in InFlight
                 /\ \A c \in Chunks : firstUnwritten'[c] >= 0 => InRange(c, firstUnwritten'[c])
                 /\ \A c \in Chunks : earliestTask'[c] >= 0 => InRange(c, earliestTask'[c])
    <2>2. /\ \A c \in Chunks : firstUnwritten[c] >= 0 => InRange(c, firstUnwritten[c])
          /\ \A c \in Chunks : earliestTask[c] >= 0 => InRange(c, earliestTask[c])
          /\ \A t \in Tasks : t \in InFlight => InRange(t[1], t[2])
      BY <1>2 DEF Ranges
    <2>3. ASSUME LoopResult PROVE Moves
      <3>1. /\ Head(resultCh) \in Tasks
            /\ Elems(resultCh) = Elems(resultCh') \cup {Head(resultCh)}
        BY <2>3, ReceiveElems DEF TypeInv, TypeOK, ExecutorType
      <3>2. Head(resultCh) \in InFlight
        BY <3>1 DEF InFlight
      <3>3. InRange(Head(resultCh)[1], Head(resultCh)[2])
        BY <2>2, <3>1, <3>2
      <3>4. \A t \in Tasks : t \in InFlight' => t \in InFlight
        BY <2>1, <2>3, <3>1, AcceptEffects DEF InFlight
      <3> HIDE DEF InRange
      <3>5. QED BY <2>2, <2>3, <3>1, <3>3, <3>4, AcceptEffects
    <2>4. ASSUME LoopAbandoned PROVE Moves
      <3>1. /\ Head(abandonedCh) \in Tasks
            /\ Elems(abandonedCh) = Elems(abandonedCh') \cup {Head(abandonedCh)}
        BY <2>4, ReceiveElems DEF TypeInv, TypeOK, ExecutorType
      <3>2. InRange(Head(abandonedCh)[1], Head(abandonedCh)[2])
        BY <2>2, <3>1 DEF InFlight
      <3>3. \A t \in Tasks : t \in InFlight' => t \in InFlight
        BY <2>1, <2>4, <3>1 DEF InFlight
      <3>4. \A c \in Chunks : \/ firstUnwritten'[c] = firstUnwritten[c]
                              \/ /\ c = Head(abandonedCh)[1]
                                 /\ firstUnwritten'[c] = Head(abandonedCh)[2]
        BY <2>4, <3>1, MarkEffects
      <3>5. nextIndex' = nextIndex /\ earliestTask' = earliestTask
        BY <2>4 DEF MarkUnwritten
      <3> HIDE DEF InRange
      <3>6. QED BY <2>2, <3>2, <3>3, <3>4, <3>5
    <2>5. ASSUME LoopFinish PROVE Moves
      <3>1. CASE failed \/ pendingCount = 0
        <4>1. UNCHANGED <<nextIndex, firstUnwritten, earliestTask, buffered, resultCh, abandonedCh>>
          BY <2>5, <3>1 DEF Finish
        <4>2. InFlight' = InFlight
          BY <2>1, <4>1 DEF InFlight
        <4>3. QED BY <2>2, <4>1, <4>2 DEF Dispatched
      <3>2. CASE ~(failed \/ pendingCount = 0)
        <4>1. Commit(earliestTask, chunkPending, pendingCount, buffered) /\ ~failed
          BY <2>5, <3>2 DEF Finish
        <4>2. /\ earliestTask \in [Chunks -> Nat \cup {-1}] /\ chunkPending \in [Chunks -> Nat]
              /\ pendingCount \in Nat /\ buffered \in SUBSET Tasks
              /\ Covers(earliestTask, buffered)
          BY DEF TypeInv, TypeOK, CommitterType, BatchKnown, Covers
        <4>3. \A t \in Tasks : t \in InFlight' => t \in InFlight
          BY <2>1, <2>5, <4>1, <4>2, CommitEffects DEF InFlight
        <4> HIDE DEF InRange
        <4>4. QED BY <2>2, <4>1, <4>2, <4>3, CommitEffects
      <3>3. QED BY <3>1, <3>2
    <2>6. ASSUME LoopApiErr \/ LoopExecutorErr \/ LoopDispatchErr \/ LoopClosed \/ LoopExit
          PROVE  Moves
      <3>1. UNCHANGED <<nextIndex, firstUnwritten, earliestTask, buffered, resultCh, abandonedCh>>
        BY <2>6
      <3>2. InFlight' = InFlight
        BY <2>1, <3>1 DEF InFlight
      <3>3. QED BY <2>2, <3>1, <3>2
    <2>7. Moves
      BY <1>8, <2>3, <2>4, <2>5, <2>6
    <2>8. QED BY <2>1, <2>2, <2>7 DEF Ranges, Dispatched
  <1>9. QED
    BY <1>3, <1>4, <1>5, <1>6, <1>7, <1>8 DEF Next, Stopped

\* The committer's knowledge of its batch.
LEMMA BatchInit == Init => BatchKnown
  BY DEF Init, Idle, BatchKnown

\* Every step keeps the committer's knowledge of its batch.
LEMMA BatchStep == TypeInv /\ BatchKnown /\ [Next]_vars => BatchKnown'
  <1>1. SUFFICES ASSUME TypeInv, BatchKnown, [Next]_vars PROVE BatchKnown'
    OBVIOUS
  <1> USE <1>1
  <1>2. ASSUME StartRun PROVE BatchKnown'
    BY <1>2 DEF StartRun, TypeInv, DownIsIdle, Idle, BatchKnown
  <1>3. ASSUME Crash \/ Persist PROVE BatchKnown'
    BY <1>3 DEF Crash, Persist, Exit, BatchKnown
  <1>4. ASSUME UNCHANGED <<firstUnwritten, committerVars>> /\ (pc' = pc \/ pc' = "finish")
        PROVE  BatchKnown'
    BY <1>4 DEF BatchKnown, Marked
  <1>5. ASSUME \/ RefuseRun \/ Interrupt \/ TogglePause \/ PressureFatal \/ WatchCancel
               \/ CloseExecutor \/ UNCHANGED vars
        PROVE  BatchKnown'
    BY <1>4, <1>5 DEF RefuseRun, Interrupt, TogglePause, PressureFatal, WatchCancel,
       CloseExecutor, vars
  <1>6. ASSUME Dispatcher \/ DispatchFail PROVE BatchKnown'
    BY <1>4, <1>6, DispatcherEffects DEF DispatchUnchanged
  <1>7. ASSUME NEW w \in Workers, Worker(w) \/ WorkerPanic(w) PROVE BatchKnown'
    <2>1. WorkerUnchanged
      BY <1>7 DEF Worker, WorkerTake, WorkerDrain, WorkerReceive, WorkerExit, WorkerStop,
         WorkerStart, WorkerFinish, WorkerPanic, WorkerSendResult, WorkerAbandon,
         WorkerReportFatal
    <2>2. QED BY <1>4, <2>1 DEF WorkerUnchanged
  <1>8. ASSUME ResultLoop PROVE BatchKnown'
    <2> USE DEF ResultLoop, LoopApiErr, LoopExecutorErr, LoopDispatchErr, LoopResult,
        LoopAbandoned, LoopClosed, LoopExit, LoopFinish
    <2>1. ASSUME LoopResult PROVE BatchKnown'
      <3>1. Head(resultCh) \in Tasks
        BY <2>1, ReceiveElems DEF TypeInv, TypeOK, ExecutorType
      <3>2. QED BY <2>1, <3>1, AcceptEffects DEF BatchKnown, Covers
    <2>2. ASSUME LoopAbandoned PROVE BatchKnown'
      <3>1. Head(abandonedCh) \in Tasks
        BY <2>2, ReceiveElems DEF TypeInv, TypeOK, ExecutorType
      <3>2. QED BY <2>2, <3>1, MarkEffects DEF BatchKnown, TypeInv, TypeOK, CommitterType
    <2>3. ASSUME LoopFinish PROVE BatchKnown'
      <3>1. CASE failed \/ pendingCount = 0
        BY <2>3, <3>1 DEF Finish, BatchKnown, Marked
      <3>2. CASE ~(failed \/ pendingCount = 0)
        <4>1. Commit(earliestTask, chunkPending, pendingCount, buffered) /\ ~failed
          BY <2>3, <3>2 DEF Finish
        <4>2. /\ earliestTask \in [Chunks -> Nat \cup {-1}] /\ chunkPending \in [Chunks -> Nat]
              /\ pendingCount \in Nat /\ buffered \in SUBSET Tasks
              /\ Covers(earliestTask, buffered)
          BY DEF TypeInv, TypeOK, CommitterType, BatchKnown, Covers
        <4>3. QED BY <4>1, <4>2, CommitEffects DEF BatchKnown, Covers
      <3>3. QED BY <3>1, <3>2
    <2>4. ASSUME LoopApiErr \/ LoopExecutorErr \/ LoopDispatchErr \/ LoopClosed \/ LoopExit
          PROVE  BatchKnown'
      BY <1>4, <2>4
    <2>5. QED BY <1>8, <2>1, <2>2, <2>3, <2>4
  <1>9. QED
    BY <1>2, <1>3, <1>5, <1>6, <1>7, <1>8 DEF Next, Stopped

-----------------------------------------------------------------------------
(* No row is skipped *)

\* The part of the invariant that follows the rows.
RowsInv == Accounted /\ UnnamedIsEmpty /\ NoSkippedRow

\* What the other parts say while the rows are followed.
BaseInv == TypeInv /\ Shutdown /\ Ranges /\ BatchKnown

\* At the start there is no row to account for.
LEMMA RowsInit == Init => RowsInv
  BY TaskFacts DEF Init, Idle, RowsInv, Accounted, UnnamedIsEmpty, NoSkippedRow

\* A step that keeps the cursors and the snapshot, and settles what was settled.
LEMMA RowsKept ==
    ASSUME BaseInv, RowsInv, UNCHANGED <<saved, nextIndex, dpc, dChunk, dIndex>>,
           Durable \subseteq Durable', \A t \in Tasks : Settled(t) => Settled(t)'
    PROVE  RowsInv'
  <1>1. dpc = "advance" => <<dChunk, dIndex>> \in Tasks
    BY TaskFacts DEF BaseInv, TypeInv, TypeOK, DispatcherType, DispatcherPlace, Chunks
  <1>2. Accounted'
    BY <1>1 DEF RowsInv, Accounted
  <1>3. UnnamedIsEmpty' /\ NoSkippedRow'
    BY DEF RowsInv, UnnamedIsEmpty, NoSkippedRow
  <1>4. QED BY <1>2, <1>3 DEF RowsInv

\* The cursor that is saved covers only rows on disk.
LEMMA RewoundIsDurable ==
    ASSUME BaseInv, RowsInv, pc = "persist", NEW c \in Chunks, NEW i \in Nat,
           i < RewoundNext[c]
    PROVE  <<c, i>> \in Durable
  <1>1. /\ nextIndex[c] \in Nat /\ nextIndex[c] <= TotalCount[c] /\ TotalCount[c] \in Nat
        /\ firstUnwritten[c] \in Nat \cup {-1}
        /\ firstUnwritten[c] >= 0 => firstUnwritten[c] <= nextIndex[c]
    BY TaskFacts DEF BaseInv, TypeInv, TypeOK, TrackerType, Ranges, Dispatched, DiskType
  <1>2. i < nextIndex[c] /\ (firstUnwritten[c] >= 0 => i < firstUnwritten[c])
    BY <1>1 DEF RewoundNext
  <1>3. <<c, i>> \in Tasks
    BY <1>1, <1>2, TaskFacts
  <1>4. Settled(<<c, i>>)
    BY <1>2, <1>3 DEF RowsInv, Accounted
  <1>5. ~Marked(<<c, i>>)
    BY <1>1, <1>2 DEF Marked
  <1>6. <<c, i>> \notin InFlight
    <2>1. ASSUME <<c, i>> \in InFlight PROVE FALSE
      <3>1. <<c, i>> \in buffered
        BY <1>3, <2>1, DrainedFlight DEF BaseInv
      <3>2. QED BY <1>5, <3>1 DEF BaseInv, BatchKnown
    <2>2. QED BY <2>1
  <1>7. QED BY <1>4, <1>5, <1>6 DEF Settled

\* Every step keeps every row below a cursor accounted for.
LEMMA RowsStep == BaseInv /\ RowsInv /\ [Next]_vars => RowsInv'
  <1>1. SUFFICES ASSUME BaseInv, RowsInv, [Next]_vars PROVE RowsInv'
    OBVIOUS
  <1> USE <1>1
  <1>2. TypeInv /\ Shutdown /\ BatchKnown
    BY DEF BaseInv
  <1>3. ASSUME StartRun PROVE RowsInv'
    <2>1. /\ saved' = saved /\ nextIndex' = saved.next /\ dpc' = "chunk"
          /\ saved.output \in {"none", "recorded"}
          /\ \A c \in Chunks : saved.next[c] \in Nat
      BY <1>2, <1>3 DEF StartRun, TypeInv, TypeOK, DiskType
    <2>2. CASE saved.output = "recorded"
      <3>1. Durable' = Durable
        BY <1>3, <2>2 DEF StartRun, Durable
      <3>2. ASSUME NEW t \in Tasks, t[2] < saved.next[t[1]] PROVE t \in Durable
        <4>1. t[1] \in Chunks /\ t[2] \in Nat /\ t = <<t[1], t[2]>>
          BY TaskFacts
        <4>2. t[2] \in 0..(saved.next[t[1]] - 1)
          BY <2>1, <3>2, <4>1
        <4>3. <<t[1], t[2]>> \in Durable
          BY <4>1, <4>2 DEF RowsInv, NoSkippedRow
        <4>4. QED BY <4>1, <4>3
      <3>3. QED
        BY <2>1, <3>1, <3>2 DEF RowsInv, Accounted, Settled, UnnamedIsEmpty, NoSkippedRow
    <2>3. CASE saved.output = "none"
      <3>1. \A c \in Chunks : saved.next[c] = 0
        BY <2>3 DEF RowsInv, UnnamedIsEmpty
      <3>2. Accounted'
        BY <2>1, <3>1, TaskFacts DEF Accounted
      <3>3. QED BY <2>1, <3>1, <3>2 DEF RowsInv, UnnamedIsEmpty, NoSkippedRow
    <2>4. QED BY <2>1, <2>2, <2>3
  <1>4. ASSUME Crash \/ Persist PROVE RowsInv'
    <2>1. Idle'
      BY <1>4, ExitIdle DEF Crash, Persist
    <2>2. Accounted'
      BY <2>1, TaskFacts DEF Idle, Accounted
    <2>3. Durable' = Durable
      BY <1>4 DEF Crash, Persist, Durable
    <2>4. CASE saved' = saved
      BY <2>2, <2>3, <2>4 DEF RowsInv, UnnamedIsEmpty, NoSkippedRow
    <2>5. CASE saved' # saved
      <3>1. Persist /\ pc = "persist" /\ saved'.next = RewoundNext
            /\ saved'.output = "recorded"
        BY <1>4, <2>5 DEF Crash, Persist
      <3>2. \A c \in Chunks : RewoundNext[c] \in Nat
        BY <1>2 DEF RewoundNext, TypeInv, TypeOK, TrackerType
      <3>3. \A c \in Chunks : \A i \in 0..(RewoundNext[c] - 1) : <<c, i>> \in Durable
        <4>1. TAKE c \in Chunks
        <4>a. TAKE i \in 0..(RewoundNext[c] - 1)
        <4>2. i \in Nat /\ i < RewoundNext[c]
          BY <3>2, <4>a
        <4>3. QED BY <3>1, <4>2, RewoundIsDurable
      <3>4. QED BY <2>2, <2>3, <3>1, <3>3 DEF RowsInv, UnnamedIsEmpty, NoSkippedRow
    <2>6. QED BY <2>4, <2>5
  <1>5. ASSUME \/ RefuseRun \/ Interrupt \/ TogglePause \/ PressureFatal \/ WatchCancel
               \/ CloseExecutor \/ UNCHANGED vars
        PROVE  RowsInv'
    <2>1. UNCHANGED <<scanFile, openFile, saved, nextIndex, firstUnwritten, dpc, dChunk,
                      dIndex, taskCh, wtask, resultCh, abandonedCh, buffered>>
      BY <1>5 DEF RefuseRun, Interrupt, TogglePause, PressureFatal, WatchCancel,
         CloseExecutor, vars
    <2>2. InFlight' = InFlight /\ Durable' = Durable
      BY <2>1 DEF InFlight, Durable
    <2>3. \A t \in Tasks : Settled(t) => Settled(t)'
      BY <2>1, <2>2 DEF Settled, Marked
    <2>4. QED BY <2>1, <2>2, <2>3, RowsKept
  <1>6. ASSUME Dispatcher \/ DispatchFail PROVE RowsInv'
    <2>1. DispatchUnchanged /\ firstUnwritten' = firstUnwritten
      BY <1>2, <1>6, DispatcherEffects
    <2>2. Durable' = Durable /\ saved' = saved
      BY <2>1 DEF DispatchUnchanged, Durable
    <2>3. InFlight \subseteq InFlight'
      BY <1>2, <1>6, DispatcherEffects
    <2>4. \A t : Settled(t) => Settled(t)'
      BY <2>1, <2>2, <2>3 DEF Settled, Marked
    <2>5. dpc' = "advance" => Settled(<<dChunk, dIndex>>)' /\ UNCHANGED <<dChunk, dIndex>>
      BY <1>2, <1>6, DispatcherEffects DEF Settled
    <2>6. ASSUME NEW t \in Tasks, t[2] < nextIndex'[t[1]] PROVE Settled(t)
      <3>1. t[1] \in Chunks /\ t[2] \in Nat /\ t = <<t[1], t[2]>> /\ nextIndex[t[1]] \in Nat
        BY <1>2, TaskFacts DEF TypeInv, TypeOK, TrackerType
      <3>2. CASE t[2] < nextIndex[t[1]]
        BY <3>2 DEF RowsInv, Accounted
      <3>3. CASE ~(t[2] < nextIndex[t[1]])
        <4>1. dpc = "advance" /\ t[1] = dChunk /\ t[2] = dIndex
          BY <1>2, <1>6, <2>6, <3>1, <3>3, DispatcherEffects
          DEF TypeInv, TypeOK, TrackerType
        <4>2. QED BY <3>1, <4>1 DEF RowsInv, Accounted
      <3>4. QED BY <3>2, <3>3
    <2>7. Accounted'
      BY <2>4, <2>5, <2>6 DEF Accounted
    <2>8. QED BY <2>2, <2>7 DEF RowsInv, UnnamedIsEmpty, NoSkippedRow
  <1>7. ASSUME NEW w \in Workers, Worker(w) \/ WorkerPanic(w) PROVE RowsInv'
    <2>1. WorkerUnchanged
      BY <1>7 DEF Worker, WorkerTake, WorkerDrain, WorkerReceive, WorkerExit, WorkerStop,
         WorkerStart, WorkerFinish, WorkerPanic, WorkerSendResult, WorkerAbandon,
         WorkerReportFatal
    <2>2. Durable' = Durable
      BY <2>1 DEF WorkerUnchanged, Durable
    <2>3. \A t \in Tasks : Settled(t) => Settled(t)'
      BY <1>2, <1>7, <2>1, <2>2, WorkerFlight DEF Settled, Marked, WorkerUnchanged
    <2>4. QED BY <2>1, <2>2, <2>3, RowsKept DEF WorkerUnchanged
  <1>8. ASSUME ResultLoop PROVE RowsInv'
    <2> USE DEF ResultLoop, LoopApiErr, LoopExecutorErr, LoopDispatchErr, LoopResult,
        LoopAbandoned, LoopClosed, LoopExit, LoopFinish
    <2>1. UNCHANGED <<saved, dpc, dChunk, dIndex, taskCh, wtask>>
      BY <1>8 DEF LoopUnchanged
    <2> DEFINE Kept == /\ nextIndex' = nextIndex /\ Durable \subseteq Durable'
                       /\ \A t \in Tasks : Settled(t) => Settled(t)'
    <2>2. ASSUME LoopResult PROVE Kept
      <3>1. /\ Head(resultCh) \in Tasks
            /\ Elems(resultCh) = Elems(resultCh') \cup {Head(resultCh)}
        BY <1>2, <2>2, ReceiveElems DEF TypeInv, TypeOK, ExecutorType
      <3>2. \A t \in Tasks : t \in InFlight =>
                t \in InFlight' \/ t \in buffered \cup {Head(resultCh)}
        BY <2>1, <2>2, <3>1 DEF InFlight
      <3>3. buffered' \subseteq InFlight'
        BY DEF InFlight
      <3>4. QED BY <1>2, <2>2, <3>1, <3>2, <3>3, AcceptEffects DEF Settled
    <2>3. ASSUME LoopAbandoned PROVE Kept
      <3>1. /\ Head(abandonedCh) \in Tasks
            /\ Elems(abandonedCh) = Elems(abandonedCh') \cup {Head(abandonedCh)}
        BY <1>2, <2>3, ReceiveElems DEF TypeInv, TypeOK, ExecutorType
      <3>2. \A t \in Tasks : t \in InFlight => t \in InFlight' \/ t = Head(abandonedCh)
        BY <2>1, <2>3, <3>1 DEF InFlight
      <3>3. Durable' = Durable
        BY <2>3 DEF Durable
      <3>4. QED BY <1>2, <2>3, <3>1, <3>2, <3>3, MarkEffects DEF Settled
    <2>4. ASSUME LoopFinish PROVE Kept
      <3>1. CASE failed \/ pendingCount = 0
        <4>1. UNCHANGED <<scanFile, openFile, nextIndex, firstUnwritten, buffered, resultCh,
                          abandonedCh>>
          BY <2>4, <3>1 DEF Finish
        <4>2. InFlight' = InFlight /\ Durable' = Durable
          BY <2>1, <4>1 DEF InFlight, Durable
        <4>3. QED BY <4>1, <4>2 DEF Settled, Marked
      <3>2. CASE ~(failed \/ pendingCount = 0)
        <4>1. Commit(earliestTask, chunkPending, pendingCount, buffered) /\ ~failed
          BY <2>4, <3>2 DEF Finish
        <4>2. /\ earliestTask \in [Chunks -> Nat \cup {-1}] /\ chunkPending \in [Chunks -> Nat]
              /\ pendingCount \in Nat /\ buffered \in SUBSET Tasks
              /\ Covers(earliestTask, buffered)
          BY <1>2 DEF TypeInv, TypeOK, CommitterType, BatchKnown, Covers
        <4>3. \A t \in Tasks : t \in InFlight => t \in InFlight' \/ t \in buffered
          BY <2>1, <2>4 DEF InFlight
        <4>4. QED BY <1>2, <4>1, <4>2, <4>3, CommitEffects DEF Settled
      <3>3. QED BY <3>1, <3>2
    <2>5. ASSUME LoopApiErr \/ LoopExecutorErr \/ LoopDispatchErr \/ LoopClosed \/ LoopExit
          PROVE  Kept
      <3>1. UNCHANGED <<scanFile, openFile, nextIndex, firstUnwritten, buffered, resultCh,
                        abandonedCh>>
        BY <2>5
      <3>2. InFlight' = InFlight /\ Durable' = Durable
        BY <2>1, <3>1 DEF InFlight, Durable
      <3>3. QED BY <3>1, <3>2 DEF Settled, Marked
    <2>6. Kept
      BY <1>8, <2>2, <2>3, <2>4, <2>5
    <2>7. QED BY <2>1, <2>6, RowsKept
  <1>9. QED
    BY <1>3, <1>4, <1>5, <1>6, <1>7, <1>8 DEF Next, Stopped

-----------------------------------------------------------------------------
(* The steps between the start of a run and its end *)

\* Only a start, its refusal, a kill and the end of execute change the snapshot, the
\* operator's view or whether the process runs; the files only grow.
LEMMA Inside ==
    ASSUME TypeInv, Next, ~StartRun, ~RefuseRun, ~Crash, ~Persist
    PROVE  /\ saved' = saved /\ UNCHANGED operatorVars
           /\ pc' = "down" <=> pc = "down"
           /\ pc = "down" => UNCHANGED <<scanFile, openFile>>
           /\ scanFile \subseteq scanFile' /\ openFile \subseteq openFile'
  <1>1. CASE Interrupt \/ TogglePause \/ PressureFatal \/ WatchCancel \/ CloseExecutor \/ Stopped
    BY <1>1 DEF Interrupt, TogglePause, PressureFatal, WatchCancel, CloseExecutor, Stopped, vars
  <1>2. CASE Dispatcher \/ DispatchFail
    BY <1>2, DispatcherEffects DEF DispatchUnchanged
  <1>3. ASSUME NEW w \in Workers, Worker(w) \/ WorkerPanic(w)
        PROVE  UNCHANGED <<scanFile, openFile, saved, operatorVars, pc>>
    BY <1>3 DEF Worker, WorkerTake, WorkerDrain, WorkerReceive, WorkerExit, WorkerStop,
       WorkerStart, WorkerFinish, WorkerPanic, WorkerSendResult, WorkerAbandon,
       WorkerReportFatal, WorkerUnchanged
  <1>4. CASE ResultLoop
    <2> USE DEF ResultLoop, LoopApiErr, LoopExecutorErr, LoopDispatchErr, LoopResult,
        LoopAbandoned, LoopClosed, LoopExit, LoopFinish
    <2>1. saved' = saved /\ UNCHANGED operatorVars /\ pc # "down" /\ pc' # "down"
      BY <1>4 DEF LoopUnchanged
    <2>2. scanFile \subseteq scanFile' /\ openFile \subseteq openFile'
      BY <1>4 DEF Accept, Finish, Commit
    <2>3. QED BY <2>1, <2>2
  <1>5. QED BY <1>1, <1>2, <1>3, <1>4 DEF Next

-----------------------------------------------------------------------------
(* A run that returns no error has dispatched everything *)

\* The dispatcher's progress and the run's outcome.
ReturnInv == DispatchDone /\ SilentReturnIsComplete

\* At the start nothing was dispatched or returned.
LEMMA ReturnInit == Init => ReturnInv
  <1>1. SUFFICES ASSUME Init PROVE ReturnInv
    OBVIOUS
  <1>2. \A c \in Chunks : ~(c < dChunk)
    BY <1>1, ScanAssumption DEF Init, Idle, Chunks
  <1>3. pc = "down" /\ dispatchErrCh = "empty" /\ drained = {} /\ outcome = "none"
    BY <1>1 DEF Init, Idle
  <1>4. QED BY <1>2, <1>3 DEF ReturnInv, DispatchDone, SilentReturnIsComplete

\* The dispatcher finishes its chunks in order and reports how it ended.
LEMMA DoneStep == TypeInv /\ Ranges /\ Shutdown /\ DispatchDone /\ [Next]_vars => DispatchDone'
  <1>1. SUFFICES ASSUME TypeInv, Ranges, Shutdown, DispatchDone, [Next]_vars
                 PROVE  DispatchDone'
    OBVIOUS
  <1> USE <1>1
  <1>2. /\ dChunk \in Nat /\ NumChunks \in Nat /\ dIndex \in Nat
        /\ \A c \in Chunks : /\ c \in Nat /\ c >= 1 /\ c <= NumChunks
                             /\ TotalCount[c] \in Nat /\ nextIndex[c] \in Nat
                             /\ nextIndex[c] <= TotalCount[c]
    BY ScanAssumption, TaskFacts DEF TypeInv, TypeOK, DispatcherType, TrackerType, Ranges, Chunks
  <1>3. ASSUME StartRun PROVE DispatchDone'
    <2>1. Idle
      BY <1>3 DEF StartRun, TypeInv, DownIsIdle
    <2>2. dChunk' = 1 /\ dispatchErrCh' = "empty" /\ drained' = {} /\ dpc' = "chunk"
      BY <1>3, <2>1 DEF StartRun, Idle
    <2>3. QED BY <1>2, <2>2 DEF DispatchDone
  <1>4. ASSUME Crash \/ Persist PROVE DispatchDone'
    <2>1. Idle'
      BY <1>4, ExitIdle DEF Crash, Persist
    <2>2. dChunk' = 1 /\ dispatchErrCh' = "empty" /\ drained' = {} /\ pc' = "down"
      BY <2>1 DEF Idle
    <2>3. QED BY <1>2, <2>2 DEF DispatchDone
  <1>5. ASSUME \/ RefuseRun \/ Interrupt \/ TogglePause \/ PressureFatal \/ WatchCancel
               \/ CloseExecutor \/ UNCHANGED vars
        PROVE  DispatchDone'
    BY <1>5 DEF RefuseRun, Interrupt, TogglePause, PressureFatal, WatchCancel,
         CloseExecutor, vars,
       DispatchDone
  <1>6. ASSUME NEW w \in Workers, Worker(w) \/ WorkerPanic(w) PROVE DispatchDone'
    <2>1. WorkerUnchanged
      BY <1>6 DEF Worker, WorkerTake, WorkerDrain, WorkerReceive, WorkerExit, WorkerStop,
         WorkerStart, WorkerFinish, WorkerPanic, WorkerSendResult, WorkerAbandon,
         WorkerReportFatal
    <2>2. QED BY <2>1 DEF WorkerUnchanged, DispatchDone
  <1>7. ASSUME ResultLoop PROVE DispatchDone'
    <2>1. UNCHANGED <<dpc, dChunk, dErr>> /\ nextIndex' = nextIndex /\ pc # "down" /\ pc' # "down"
      BY <1>7 DEF ResultLoop, LoopApiErr, LoopExecutorErr, LoopDispatchErr, LoopResult,
         LoopAbandoned, LoopClosed, LoopExit, LoopFinish, LoopUnchanged, Accept,
         Finish, Commit, Fail, MarkUnwritten
    <2>2. \/ UNCHANGED <<dispatchErrCh, dispatchErr>> /\ ("dispatch" \in drained' <=> "dispatch" \in drained)
          \/ /\ dispatchErrCh # "empty" /\ dispatchErr' = dispatchErrCh
             /\ dispatchErrCh' = "empty"
      BY <1>7 DEF ResultLoop, LoopApiErr, LoopExecutorErr, LoopDispatchErr, LoopResult,
         LoopAbandoned, LoopClosed, LoopExit, LoopFinish
    <2>3. QED BY <2>1, <2>2 DEF DispatchDone
  <1>8. ASSUME Dispatcher \/ DispatchFail PROVE DispatchDone'
    <2>1. DispatchUnchanged /\ pc # "down"
      BY <1>8, DispatcherEffects
    <2>2. \A c \in Chunks : c < dChunk => nextIndex'[c] = TotalCount[c]
      <3>1. TAKE c \in Chunks
      <3>2. HAVE c < dChunk
      <3>3. nextIndex[c] = TotalCount[c]
        BY <3>2 DEF DispatchDone
      <3>4. nextIndex'[c] = nextIndex[c]
        BY <1>2, <1>8, <3>2, DispatcherEffects DEF TypeInv, TypeOK, TrackerType
      <3>5. QED BY <3>3, <3>4
    <2> USE DEF Dispatcher, DispatchChunk, DispatchTop, DispatchAcquire, DispatchGate,
        DispatchSend, DispatchAdvance, DispatchDelay, DispatchCancelled, DispatchReport,
        DispatchClose, DispatchFail, DispatchPass
    <2>3. dChunk' = dChunk \/ (dChunk' = dChunk + 1 /\ nextIndex'[dChunk] = TotalCount[dChunk])
      <3>1. CASE DispatchChunk
        BY <1>2, <3>1 DEF DispatchReturn, AdvanceNextIndex, TypeInv, TypeOK, TrackerType, Chunks,
           DispatcherType
      <3>2. CASE DispatchTop
        BY <1>2, <3>2 DEF DispatchReturn, TypeInv, TypeOK, DispatcherType, DispatcherPlace, Chunks
      <3>3. CASE ~DispatchChunk /\ ~DispatchTop
        BY <1>8, <3>3 DEF DispatchReturn
      <3>4. QED BY <3>1, <3>2, <3>3
    <2>4. \A c \in Chunks : c < dChunk' => nextIndex'[c] = TotalCount[c]
      BY <1>2, <2>2, <2>3
    <2>5. /\ dispatchErrCh' # "empty" => dispatchErrCh' = dErr' /\ dpc' \in {"close", "done"}
          /\ "dispatch" \in drained => dispatchErr = dErr' /\ dpc' \in {"close", "done"}
      BY <1>8 DEF DispatchDone, DispatchReturn
    <2>6. dpc' \in {"return", "close", "done"} /\ dErr' = "nil" => dChunk' > NumChunks
      BY <1>8, <2>1 DEF DispatchDone, DispatchReturn
    <2>7. QED BY <2>1, <2>4, <2>5, <2>6 DEF DispatchDone, DispatchUnchanged
  <1>9. QED
    BY <1>3, <1>4, <1>5, <1>6, <1>7, <1>8 DEF Next, Stopped

\* A run that ends with no error and no save leaves no row behind.
LEMMA SilentStep ==
    BaseInv /\ RowsInv /\ ReturnInv /\ [Next]_vars => SilentReturnIsComplete'
  <1>1. SUFFICES ASSUME BaseInv, RowsInv, ReturnInv, [Next]_vars,
                        outcome' = "nil", ~snapshotWritten'
                 PROVE  Tasks \subseteq Durable'
    BY DEF SilentReturnIsComplete
  <1>2. CASE Persist
    <2>1. /\ pc = "persist" /\ ~NeedsSave /\ ReturnedError = "nil" /\ Durable' = Durable
      BY <1>1, <1>2 DEF Persist, Durable
    <2>2. dispatchErr = "nil" /\ \A c \in Chunks : ~(RewoundScanned[c] < TotalCount[c])
      BY <2>1 DEF NeedsSave, ReturnedError, Incomplete
    <2>3. \A c \in Chunks : nextIndex[c] = TotalCount[c]
      <3>1. "dispatch" \in drained
        BY <1>1, <2>1 DEF BaseInv, Shutdown, Drains
      <3>2. dErr = "nil" /\ dpc \in {"close", "done"}
        BY <1>1, <2>2, <3>1 DEF ReturnInv, DispatchDone
      <3>3. dChunk > NumChunks
        BY <1>1, <2>1, <3>2 DEF ReturnInv, DispatchDone
      <3>4. \A c \in Chunks : c < dChunk
        BY <1>1, <3>3, ScanAssumption
        DEF BaseInv, TypeInv, TypeOK, DispatcherType, Chunks
      <3>5. QED BY <1>1, <3>4 DEF ReturnInv, DispatchDone
    <2>4. \A c \in Chunks : RewoundNext[c] = TotalCount[c]
      <3>1. TAKE c \in Chunks
      <3>2. /\ firstUnwritten[c] \in Nat \cup {-1} /\ TotalCount[c] \in Nat
            /\ firstUnwritten[c] >= 0 => firstUnwritten[c] < TotalCount[c]
        BY <1>1, TaskFacts DEF BaseInv, TypeInv, TypeOK, TrackerType, Ranges
      <3>3. firstUnwritten[c] < 0
        BY <2>2, <3>2 DEF RewoundScanned
      <3>4. QED BY <2>3, <3>3 DEF RewoundNext
    <2>5. ASSUME NEW t \in Tasks PROVE t \in Durable
      <3>1. t[1] \in Chunks /\ t[2] \in Nat /\ t[2] < RewoundNext[t[1]] /\ t = <<t[1], t[2]>>
        BY <2>4, TaskFacts
      <3>2. <<t[1], t[2]>> \in Durable
        BY <1>1, <2>1, <3>1, RewoundIsDurable
      <3>3. QED BY <3>1, <3>2
    <2>6. QED BY <2>1, <2>5
  <1>3. CASE ~Persist
    <2>1. outcome' \notin {"none", "refused", "crashed"}
      BY <1>1
    <2>2. ~StartRun /\ ~RefuseRun /\ ~Crash
      BY <2>1 DEF StartRun, RefuseRun, Crash
    <2>3. Next => UNCHANGED operatorVars /\ (pc = "down" => UNCHANGED <<scanFile, openFile>>)
      BY <1>1, <1>3, <2>2, Inside DEF BaseInv
    <2>4. pc = "down" /\ Tasks \subseteq Durable
      BY <1>1, <2>3 DEF ReturnInv, SilentReturnIsComplete, BaseInv, Shutdown, vars
    <2>5. UNCHANGED <<scanFile, openFile>>
      BY <1>1, <2>3, <2>4 DEF vars
    <2>6. QED BY <2>4, <2>5 DEF Durable
  <1>4. QED BY <1>2, <1>3

-----------------------------------------------------------------------------
(* The theorems *)

\* The whole invariant is inductive: the parts are shown one after the other,
\* each from those before it.
THEOREM Invariant == Spec => []SafetyInv
  <1>1. Spec => [](TypeInv /\ Shutdown)
    BY TypeInit, TypeStep, ShutdownInit, ShutdownStep, PTL DEF Spec
  <1>2. Spec => []BatchKnown
    BY <1>1, BatchInit, BatchStep, PTL DEF Spec
  <1>3. Spec => []Ranges
    BY <1>1, <1>2, RangesInit, RangesStep, PTL DEF Spec
  <1>4. Spec => []BaseInv
    <2>1. TypeInv /\ Shutdown /\ BatchKnown /\ Ranges => BaseInv
      BY DEF BaseInv
    <2>2. QED BY <1>1, <1>2, <1>3, <2>1, PTL
  <1>5. Spec => []RowsInv
    BY <1>4, RowsInit, RowsStep, PTL DEF Spec
  <1>6. Spec => []ReturnInv
    <2>1. BaseInv /\ RowsInv /\ ReturnInv /\ [Next]_vars => ReturnInv'
      BY DoneStep, SilentStep DEF BaseInv, ReturnInv
    <2>2. QED BY <1>4, <1>5, <2>1, ReturnInit, PTL DEF Spec
  <1>7. BaseInv /\ RowsInv /\ ReturnInv => SafetyInv
    BY DEF BaseInv, RowsInv, ReturnInv, SafetyInv
  <1>8. QED BY <1>4, <1>5, <1>6, <1>7, PTL

\* The saved cursor never passes a row that is missing from a result file, for
\* any number of chunks, tasks, workers and runs, and for any mix of interrupts,
\* kills, panics, dispatcher, output, pressure and save failures.
THEOREM NothingSkipped == Spec => []NoSkippedRow
  <1>1. SafetyInv => NoSkippedRow
    BY DEF SafetyInv
  <1>2. QED BY <1>1, Invariant, PTL

\* A run that returns nil and leaves the old snapshot in place has put every
\* row of the bucket into the result files.
THEOREM SilentReturn == Spec => []SilentReturnIsComplete
  <1>1. SafetyInv => SilentReturnIsComplete
    BY DEF SafetyInv
  <1>2. QED BY <1>1, Invariant, PTL

\* The saved cursor of every chunk only grows, from run to run.
THEOREM CursorGrows == Spec => CursorNeverRegresses
  <1>1. SafetyInv /\ [Next]_vars => [\A c \in Chunks : saved'.next[c] >= saved.next[c]]_vars
    <2>1. SUFFICES ASSUME SafetyInv, [Next]_vars
                   PROVE  \A c \in Chunks : saved'.next[c] >= saved.next[c]
      OBVIOUS
    <2>2. TAKE c \in Chunks
    <2>3. /\ saved.next[c] \in Nat /\ nextIndex[c] \in Nat
          /\ firstUnwritten[c] \in Nat \cup {-1}
      BY <2>1 DEF SafetyInv, TypeInv, TypeOK, DiskType, TrackerType
    <2>4. CASE saved' = saved
      BY <2>3, <2>4
    <2>5. CASE saved' # saved
      <3>1. Persist /\ pc = "persist" /\ saved'.next = RewoundNext
        <4>1. Persist
          BY <2>1, <2>5, Inside DEF SafetyInv, StartRun, RefuseRun, Crash, vars
        <4>2. QED BY <2>5, <4>1 DEF Persist
      <3>2. /\ saved.next[c] <= nextIndex[c]
            /\ firstUnwritten[c] >= 0 => saved.next[c] <= firstUnwritten[c]
        BY <2>1, <2>3, <3>1 DEF SafetyInv, Ranges, Dispatched
      <3>3. QED BY <2>3, <3>1, <3>2 DEF RewoundNext
    <2>6. QED BY <2>4, <2>5
  <1>2. QED BY <1>1, Invariant, PTL DEF Spec, CursorNeverRegresses

\* Once the executor is marked as stopping, no further probe starts, whichever
\* of the cancel watcher, the workers and a panic marked it.
THEOREM NoLateProbe == Spec => []NoProbeAfterStop
  <1>1. Init => NoProbeAfterStop
    BY DEF Init, Idle, NoProbeAfterStop
  <1>2. SafetyInv /\ NoProbeAfterStop /\ [Next]_vars => NoProbeAfterStop'
    <2>1. SUFFICES ASSUME SafetyInv, NoProbeAfterStop, [Next]_vars PROVE NoProbeAfterStop'
      OBVIOUS
    <2> USE <2>1 DEF NoProbeAfterStop
    <2>2. CASE Crash \/ Persist
      BY <2>2 DEF Crash, Persist, Exit
    <2>3. CASE \/ StartRun \/ RefuseRun \/ Interrupt \/ TogglePause \/ PressureFatal
               \/ CloseExecutor \/ UNCHANGED vars
      BY <2>3 DEF StartRun, RefuseRun, Interrupt, TogglePause, PressureFatal, CloseExecutor, vars
    <2>4. CASE Dispatcher \/ DispatchFail
      BY <2>4, DispatcherEffects DEF DispatchUnchanged, SafetyInv
    <2>5. CASE WatchCancel
      BY <2>5 DEF WatchCancel, MarkStopping
    <2>6. ASSUME NEW w \in Workers, Worker(w) \/ WorkerPanic(w) PROVE NoProbeAfterStop'
      <3>1. CASE WorkerStart(w)
        BY <3>1 DEF WorkerStart
      <3>2. CASE ~WorkerStart(w)
        <4>1. MarkStopping \/ UNCHANGED telemetryVars
          BY <2>6, <3>2 DEF Worker, WorkerTake, WorkerDrain, WorkerReceive, WorkerExit,
             WorkerStop, WorkerFinish, WorkerPanic, WorkerSendResult, WorkerAbandon,
             WorkerReportFatal, FinishProbe
        <4>2. CASE MarkStopping
          <5>1. totalStarted' = totalStarted
            BY <4>2 DEF MarkStopping
          <5>2. startedAtStop' = totalStarted
            BY <4>2 DEF MarkStopping
          <5>3. QED BY <5>1, <5>2
        <4>3. CASE UNCHANGED telemetryVars
          BY <4>3
        <4>4. QED BY <4>1, <4>2, <4>3
      <3>3. QED BY <3>1, <3>2
    <2>7. CASE ResultLoop
      BY <2>7 DEF ResultLoop, LoopApiErr, LoopExecutorErr, LoopDispatchErr, LoopResult,
         LoopAbandoned, LoopClosed, LoopExit, LoopFinish, LoopUnchanged
    <2>8. QED BY <2>2, <2>3, <2>4, <2>5, <2>6, <2>7 DEF Next, Stopped
  <1>3. QED BY <1>1, <1>2, Invariant, PTL DEF Spec

\* An output failure, like every other error, leaves runErr set.
LEMMA ErrorStays ==
    ASSUME ResultLoop, runErr # "nil"
    PROVE  runErr' # "nil"
  <1>1. CASE LoopResult
    BY <1>1 DEF LoopResult, Accept, MarkUnwritten, Commit, Fail, committerVars, trackerVars
  <1>2. CASE LoopFinish
    BY <1>2 DEF LoopFinish, Finish, Commit, Fail
  <1>3. QED
    BY <1>1, <1>2 DEF ResultLoop, LoopApiErr, LoopExecutorErr, LoopDispatchErr,
       LoopAbandoned, LoopClosed, LoopExit, KeepFirst

\* No step loses a panic or a pressure error.
LEMMA FatalStep == TypeInv /\ Shutdown /\ FatalKept /\ [Next]_vars => FatalKept'
  <1>1. SUFFICES ASSUME TypeInv, Shutdown, FatalKept, [Next]_vars PROVE FatalKept'
    OBVIOUS
  <1> USE <1>1
  <1>2. CASE Crash \/ Persist
    BY <1>2 DEF Crash, Persist, Exit, FatalKept
  <1>3. CASE StartRun
    BY <1>3 DEF StartRun, FatalKept, TypeInv, DownIsIdle, Idle
  <1>4. CASE RefuseRun \/ Interrupt \/ TogglePause \/ PressureFatal \/ WatchCancel \/ UNCHANGED vars
    BY <1>4 DEF RefuseRun, Interrupt, TogglePause, PressureFatal, WatchCancel, vars, FatalKept
  <1>5. CASE Dispatcher \/ DispatchFail
    <2>1. UNCHANGED <<panicked, errCh, runErr, wpc, execClosed, drained, apiErrCh>>
      BY <1>5, DispatcherEffects DEF DispatchUnchanged
    <2>2. QED BY <2>1 DEF FatalKept
  <1>6. ASSUME NEW w \in Workers, Worker(w) \/ WorkerPanic(w) PROVE FatalKept'
    <2> USE DEF Worker, WorkerTake, WorkerDrain, WorkerReceive, WorkerExit, WorkerStop,
        WorkerStart, WorkerFinish, WorkerPanic, WorkerSendResult, WorkerAbandon,
        WorkerReportFatal, WorkerGoto
    <2>1. /\ UNCHANGED <<runErr, execClosed, drained, apiErrCh>>
          /\ wpc[w] # "exited" /\ ~execClosed
      BY <1>6 DEF WorkerUnchanged, Shutdown
    <2>2. /\ wpc' = [wpc EXCEPT ![w] = wpc'[w]] /\ wpc \in [Workers -> WorkerPCs]
          /\ wpc[w] = "fatal" => WorkerReportFatal(w)
          /\ wpc[w] = "panicput" => wpc'[w] = "fatal"
      BY <1>6 DEF TypeInv, TypeOK, ExecutorType
    <2>3. errCh' = errCh \/ (errCh = "open" /\ errCh' = "err")
      BY <1>6
    <2>4. wpc[w] = "fatal" => errCh' = "err" \/ errCh = "closed"
      BY <2>2 DEF TypeInv, TypeOK, ExecutorType
    <2>5. panicked' => panicked \/ wpc'[w] = "panicput"
      BY <1>6, <2>2 DEF TypeInv, TypeOK, ExecutorType
    <2>6. panicked' => \/ errCh' = "err" \/ runErr' # "nil"
                       \/ \E v \in Workers : wpc'[v] \in {"panicput", "fatal"}
      <3>1. CASE panicked /\ \E v \in Workers : wpc[v] \in {"panicput", "fatal"}
        <4>1. PICK v \in Workers : wpc[v] \in {"panicput", "fatal"}
          BY <3>1
        <4>2. CASE v # w
          BY <2>2, <4>1, <4>2
        <4>3. CASE v = w
          BY <2>1, <2>2, <2>4, <4>1, <4>3 DEF FatalKept
        <4>4. QED BY <4>2, <4>3
      <3>2. CASE ~panicked
        BY <2>5, <3>2
      <3>3. QED BY <2>1, <2>3, <3>1, <3>2 DEF FatalKept
    <2>7. QED BY <2>1, <2>3, <2>6 DEF FatalKept
  <1>7. CASE CloseExecutor
    BY <1>7 DEF CloseExecutor, FatalKept
  <1>8. CASE ResultLoop
    <2> USE DEF ResultLoop, LoopApiErr, LoopExecutorErr, LoopDispatchErr, LoopResult,
        LoopAbandoned, LoopClosed, LoopExit, LoopFinish, LoopUnchanged, KeepFirst
    <2>1. UNCHANGED <<panicked, wpc, execClosed>>
      BY <1>8
    <2>2. errCh' = errCh \/ (errCh' = "closed" /\ runErr' # "nil")
      BY <1>8
    <2>3. "executorErr" \in drained' => "executorErr" \in drained \/ errCh' = "closed"
      BY <1>8
    <2>4. apiErrCh' = apiErrCh \/ runErr' # "nil"
      BY <1>8
    <2> USE DEF FatalKept
    <2>5. runErr # "nil" => runErr' # "nil"
      BY <1>8, ErrorStays
    <2> HIDE DEF ResultLoop
    <2>6. QED BY <2>1, <2>2, <2>3, <2>4, <2>5
  <1>9. QED
    BY <1>2, <1>3, <1>4, <1>5, <1>6, <1>7, <1>8 DEF Next, Stopped

\* No panic and no pressure error is lost on its way to the error that the loop
\* returns, for any number of workers that panic at the same time: when the loop
\* ends the workers are gone, so what they had to report is in errCh or kept, and
\* errCh is closed.
THEOREM FatalSurvives == Spec => FatalErrorSurvives
  <1>1. Init => FatalKept
    BY DEF Init, Idle, FatalKept
  <1>2. SafetyInv => TypeInv /\ Shutdown
    BY DEF SafetyInv
  <1>3. Spec => []FatalKept
    BY <1>1, <1>2, FatalStep, Invariant, PTL DEF Spec
  <1>4. TypeInv /\ Shutdown /\ FatalKept /\ [Next]_vars =>
          [pc = "loop" /\ pc' = "finish" /\ (panicked \/ apiErrCh # "empty") => runErr' # "nil"]_vars
    <2>1. SUFFICES ASSUME TypeInv, Shutdown, FatalKept, [Next]_vars, pc = "loop", pc' = "finish",
                          panicked \/ apiErrCh # "empty"
                   PROVE  runErr' # "nil"
      OBVIOUS
    <2>2. LoopExit
      <3>1. SUFFICES ASSUME ~LoopExit PROVE pc' # "finish" \/ pc # "loop"
        BY <2>1
      <3>2. CASE Dispatcher \/ DispatchFail
        BY <2>1, <3>2, DispatcherEffects DEF DispatchUnchanged
      <3>3. ASSUME NEW w \in Workers, Worker(w) \/ WorkerPanic(w) PROVE pc' = pc
        BY <3>3 DEF Worker, WorkerTake, WorkerDrain, WorkerReceive, WorkerExit, WorkerStop,
           WorkerStart, WorkerFinish, WorkerPanic, WorkerSendResult, WorkerAbandon,
           WorkerReportFatal, WorkerUnchanged
      <3>4. CASE ResultLoop
        BY <3>1, <3>4 DEF ResultLoop, LoopApiErr, LoopExecutorErr, LoopDispatchErr, LoopResult,
           LoopAbandoned, LoopClosed, LoopFinish
      <3>5. CASE \/ RefuseRun \/ Interrupt \/ TogglePause \/ PressureFatal \/ WatchCancel
                 \/ CloseExecutor \/ UNCHANGED vars
        BY <3>5 DEF RefuseRun, Interrupt, TogglePause, PressureFatal, WatchCancel, CloseExecutor, vars
      <3>6. CASE StartRun \/ Crash \/ Persist
        BY <3>6 DEF StartRun, Crash, Persist, Exit
      <3>7. QED BY <2>1, <3>2, <3>3, <3>4, <3>5, <3>6 DEF Next, Stopped
    <2>3. execClosed /\ errCh = "closed" /\ \A w \in Workers : wpc[w] = "exited"
      BY <2>1, <2>2 DEF LoopExit, Drains, Shutdown, FatalKept
    <2>4. panicked => runErr # "nil"
      BY <2>1, <2>3 DEF FatalKept
    <2>5. apiErrCh = "spent" => runErr # "nil"
      BY <2>1 DEF FatalKept
    <2>6. apiErrCh \in {"empty", "err", "spent"}
      BY <2>1 DEF TypeInv, TypeOK, LoopType
    <2>7. QED BY <2>1, <2>2, <2>4, <2>5, <2>6 DEF LoopExit, KeepFirst
  <1>5. QED BY <1>2, <1>3, <1>4, Invariant, PTL DEF Spec, FatalErrorSurvives

\* The pipeline implements the abstract resumable scan: the first state is an
\* initial state of it, StartRun begins a run, Crash and Persist end one, and
\* every other step only adds rows.
THEOREM Refinement == Spec => ImplementsResumableScan
  <1>1. Init => Promise!Init
    BY DEF Init, Idle, Promise!Init, Durable
  <1>2. SafetyInv /\ [Next]_vars => [Promise!Next]_(Promise!vars)
    <2>1. SUFFICES ASSUME SafetyInv, [Next]_vars
                   PROVE  Promise!Next \/ UNCHANGED Promise!vars
      OBVIOUS
    <2>2. CASE StartRun
      <3>1. Durable' = IF saved.output = "recorded" THEN Durable ELSE {}
        BY <2>2 DEF StartRun, Durable
      <3>2. Promise!Begin
        BY <2>2, <3>1 DEF StartRun, Promise!Begin
      <3>3. QED BY <3>2 DEF Promise!Next
    <2>3. CASE Crash
      <3>1. Promise!EndWithoutSave
        BY <2>3 DEF Crash, Exit, Promise!EndWithoutSave, Durable
      <3>2. QED BY <3>1 DEF Promise!Next
    <2>4. CASE Persist
      <3>1. pc = "persist" /\ pc' = "down" /\ Durable' = Durable
        BY <2>4 DEF Persist, Exit, Durable
      <3>2. CASE saved' = saved
        BY <3>1, <3>2 DEF Promise!Next, Promise!EndWithoutSave
      <3>3. CASE saved' # saved
        <4>1. saved'.next = RewoundNext /\ saved'.output = "recorded"
          BY <2>4, <3>3 DEF Persist
        <4>2. RewoundNext \in [Chunks -> Nat]
          BY <2>1 DEF RewoundNext, SafetyInv, TypeInv, TypeOK, TrackerType
        <4>3. Promise!Covered(RewoundNext, Durable)
          <5>1. SUFFICES ASSUME NEW c \in Chunks, NEW i \in 0..(RewoundNext[c] - 1)
                         PROVE  <<c, i>> \in Durable
            BY DEF Promise!Covered
          <5>2. i \in Nat /\ i < RewoundNext[c]
            BY <4>2, <5>1
          <5>3. BaseInv /\ RowsInv
            BY <2>1 DEF SafetyInv, BaseInv, RowsInv
          <5>4. QED BY <3>1, <5>2, <5>3, RewoundIsDurable
        <4>4. \A c \in Chunks : RewoundNext[c] >= saved.next[c]
          BY <2>1, <3>1 DEF RewoundNext, SafetyInv, TypeInv, TypeOK, TrackerType, DiskType,
             Ranges, Dispatched
        <4>5. Promise!EndWithSave
          BY <3>1, <4>1, <4>2, <4>3, <4>4 DEF Promise!EndWithSave
        <4>6. QED BY <4>5 DEF Promise!Next
      <3>4. QED BY <3>2, <3>3
    <2>5. CASE Next /\ ~StartRun /\ ~RefuseRun /\ ~Crash /\ ~Persist
      <3>1. /\ saved' = saved /\ (pc' = "down" <=> pc = "down")
            /\ pc = "down" => Durable' = Durable
            /\ Durable \subseteq Durable'
        BY <2>1, <2>5, Inside DEF SafetyInv, Durable
      <3>2. Durable' \subseteq Tasks
        <4>1. TypeInv'
          BY <2>1, TypeStep DEF SafetyInv
        <4>2. QED BY <4>1 DEF TypeInv, TypeOK, DiskType, Durable
      <3>3. CASE pc = "down"
        BY <3>1, <3>3 DEF Promise!vars
      <3>4. CASE pc # "down"
        BY <3>1, <3>2, <3>4 DEF Promise!Next, Promise!Write
      <3>5. QED BY <3>3, <3>4
    <2>6. CASE RefuseRun \/ UNCHANGED vars
      BY <2>6 DEF RefuseRun, vars, Promise!vars, Durable
    <2>7. QED BY <2>1, <2>2, <2>3, <2>4, <2>5, <2>6
  <1>3. QED BY <1>1, <1>2, Invariant, PTL DEF Spec, ImplementsResumableScan, Promise!Spec

=============================================================================
