---------------------- MODULE InterruptEscalationProofs ----------------------
(***************************************************************************)
(* The save of the snapshot for any number of saves, failures and stops,   *)
(* and the process around it for any number of interrupts and any width of *)
(* the integers in its flags.                                              *)
(***************************************************************************)
EXTENDS InterruptEscalation, TLAPS

\* Snapshots are numbered.
LEMMA Successor == \A n \in Nat : n + 1 \in Nat
OBVIOUS

\* Every call of the save, its failure included, preserves the invariant.
LEMMA SaveKeepsInv == SaveInv /\ Save => SaveInv'
<1> SUFFICES ASSUME SaveInv, Save PROVE SaveInv'
    OBVIOUS
<1>0. version \in Nat
    BY DEF SaveInv, TypeOK
<1> USE DEF SaveInv, TypeOK, DestinationIsWhole, CleanDirectory, ReportIsTrue, Stages,
            Torn, Absent, fileVars, tempVars, saveVars
<1>1. CASE Begin
    <2>1. /\ spc' = "limits" /\ temp' = "none" /\ result' = "none" /\ removeErr' = "none"
          /\ dest' = dest /\ older' = older /\ previous' = dest
          /\ destSynced' = destSynced /\ synced' = synced
        BY <1>1 DEF Begin
    <2>2. version' \in Nat
        BY <1>0, <1>1, Successor, Zenon DEF Begin
    <2>3. \/ stat' = "unknown"
          \/ stat' = "absent" /\ dest = Absent
          \/ stat' = "exists" /\ dest # Absent
        BY <1>1 DEF Begin
    <2> QED BY <2>1, <2>2, <2>3
<1>2. CASE CheckLimits
    BY <1>2 DEF CheckLimits
<1>3. CASE CreateTemp
    BY <1>3 DEF CreateTemp, Report
<1>4. CASE Chmod \/ Encode
    BY <1>4 DEF Chmod, Encode, Stage
<1>5. CASE Flush
    BY <1>5 DEF Flush, Stage
<1>6. CASE Sync
    BY <1>6 DEF Sync, Stage
<1>7. CASE Close
    BY <1>7 DEF Close, Stage
<1>8. CASE Rename
    <2>1. /\ spc = "rename" /\ temp = "whole" /\ synced = "yes" /\ dest = previous
          /\ version' = version /\ previous' = previous /\ stat' = stat
          /\ synced' = synced /\ removeErr' = removeErr
        BY <1>8 DEF Rename
    <2>2. CASE spc' = "cleanup" /\ UNCHANGED <<fileVars, temp, result>>
        BY <2>1, <2>2
    <2>3. CASE /\ dest' = version /\ destSynced' = "yes" /\ older' = dest
               /\ temp' = "none" /\ spc' = "idle" /\ result' = "saved"
        BY <2>1, <2>3
    <2> QED BY <1>8, <2>1, <2>2, <2>3 DEF Rename
<1>9. CASE Cleanup
    BY <1>9 DEF Cleanup, Report
<1> QED BY <1>1, <1>2, <1>3, <1>4, <1>5, <1>6, <1>7, <1>8, <1>9 DEF Save

\* A step that changes nothing preserves the invariant.
LEMMA StutterStep == SaveInv /\ UNCHANGED vars => SaveInv'
<1> SUFFICES ASSUME SaveInv, UNCHANGED vars PROVE SaveInv'
    OBVIOUS
<1>1. /\ dest' = dest /\ destSynced' = destSynced /\ older' = older /\ temp' = temp
      /\ synced' = synced /\ spc' = spc /\ version' = version /\ previous' = previous
      /\ stat' = stat /\ result' = result /\ removeErr' = removeErr
    BY DEF vars, fileVars, tempVars, saveVars
<1>2. TypeOK'
    BY <1>1 DEF SaveInv, TypeOK
<1>3. DestinationIsWhole' /\ CleanDirectory' /\ ReportIsTrue'
    BY <1>1 DEF SaveInv, DestinationIsWhole, CleanDirectory, ReportIsTrue
<1> QED BY <1>1, <1>2, <1>3 DEF SaveInv

\* A kill or a power failure between any two calls preserves it as well.
LEMMA StopStep == SaveInv /\ (Kill \/ PowerFailure \/ UNCHANGED vars) => SaveInv'
<1> SUFFICES ASSUME SaveInv, Kill \/ PowerFailure \/ UNCHANGED vars PROVE SaveInv'
    OBVIOUS
<1> USE DEF SaveInv, TypeOK, DestinationIsWhole, CleanDirectory, ReportIsTrue, Stages,
            Torn, Absent, fileVars, tempVars, saveVars
<1>1. CASE Kill
    BY <1>1 DEF Kill
<1>2. CASE PowerFailure
    <2>1. dest' \in {older, dest} /\ older' = dest' /\ destSynced' = "yes"
        BY <1>2 DEF PowerFailure
    <2>2. /\ spc' = "idle" /\ result' = "killed"
          /\ temp' = temp /\ synced' = synced /\ version' = version
          /\ previous' = previous /\ stat' = stat /\ removeErr' = removeErr
        BY <1>2 DEF PowerFailure
    <2> QED BY <2>1, <2>2
<1>3. CASE UNCHANGED vars
    BY <1>3, StutterStep
<1> QED BY <1>1, <1>2, <1>3

\* The invariant of the save: before the rename the destination is untouched,
\* and what the rename publishes is whole and synced.
THEOREM SaveInvariant == Spec => []SaveInv
<1>1. Init => SaveInv
    BY DEF Init, SaveInv, TypeOK, DestinationIsWhole, CleanDirectory, ReportIsTrue, Stages,
           Torn, Absent
<1> QED BY <1>1, SaveKeepsInv, StopStep, PTL DEF Spec, Next

\* The snapshot on disk is always one that a run can load.
THEOREM AlwaysLoadable == Spec => []DestinationIsWhole
<1>1. SaveInv => DestinationIsWhole
    BY DEF SaveInv
<1> QED BY <1>1, SaveInvariant, PTL

\* The report of a save is true.
THEOREM TrueReport == Spec => []ReportIsTrue
<1>1. SaveInv => ReportIsTrue
    BY DEF SaveInv
<1> QED BY <1>1, SaveInvariant, PTL

\* The process replaces the old snapshot by the new one in a single step.
THEOREM AtomicReplace == Spec => OldOrNew
<1>1. SaveInv /\ [Next]_vars
        => [Save => dest' = dest \/ (dest = previous /\ dest' = version)]_vars
    <2> SUFFICES ASSUME SaveInv, Save
                 PROVE  dest' = dest \/ (dest = previous /\ dest' = version)
        OBVIOUS
    <2>1. CASE Rename
        BY <2>1 DEF Rename, SaveInv, fileVars
    <2>2. CASE Begin \/ CheckLimits \/ CreateTemp \/ Cleanup
        BY <2>2 DEF Begin, CheckLimits, CreateTemp, Cleanup, fileVars
    <2>3. CASE Chmod \/ Encode \/ Flush \/ Sync \/ Close
        BY <2>3 DEF Chmod, Encode, Flush, Sync, Close, Stage, fileVars
    <2> QED BY <2>1, <2>2, <2>3 DEF Save
<1> QED BY <1>1, SaveInvariant, PTL DEF Spec, OldOrNew
-----------------------------------------------------------------------------
(* The flags *)

\* A remainder of a number below the divisor is the number.
LEMMA SmallRemainder == \A a \in Nat, b \in Nat : a < b => a % b = a
OBVIOUS

\* A product below a quotient stays below the dividend.
LEMMA ProductFits ==
    ASSUME NEW m \in Nat, NEW u \in Nat \ {0}, NEW v \in Nat, v <= m \div u
    PROVE  v * u \in Nat /\ v * u <= m
<1> DEFINE q == m \div u
<1>1. q \in Nat /\ q * u <= m
    OBVIOUS
<1>2. v * u <= q * u
    BY <1>1
<1> QED BY <1>1, <1>2

\* An accepted size limit is the product that was asked for.
LEMMA SizeLimitFits ==
    ASSUME NEW v \in Int, SizeLimit(v) # Rejected
    PROVE  SizeLimit(v) = v * Unit
<1> DEFINE x == v * Unit
           n == x + MaxInt + 1
<1>1. v \in Nat /\ v <= MaxInt \div Unit
    BY FlagAssumption DEF SizeLimit, MultiplyLimit
<1>2. x \in Nat /\ x <= MaxInt
    BY <1>1, ProductFits, FlagAssumption
<1>3. n \in Nat /\ 2 * (MaxInt + 1) \in Nat /\ n < 2 * (MaxInt + 1)
    BY <1>2, FlagAssumption
<1>4. n % (2 * (MaxInt + 1)) = n
    BY <1>3, SmallRemainder
<1>5. Wrapped(x) = x
    BY <1>2, <1>4, FlagAssumption DEF Wrapped
<1> QED BY <1>1, <1>5, FlagAssumption DEF SizeLimit, MultiplyLimit

\* So is the memory limit, which has one bit more.
LEMMA MemoryLimitFits ==
    ASSUME NEW v \in Int, MemoryLimit(v) # Rejected
    PROVE  MemoryLimit(v) = v * Unit
<1>1. v \in Nat /\ 2 * MaxInt + 1 \in Nat /\ v <= (2 * MaxInt + 1) \div Unit
    BY FlagAssumption DEF MemoryLimit
<1>2. v * Unit \in Nat /\ v * Unit <= 2 * MaxInt + 1
    BY <1>1, ProductFits, FlagAssumption
<1>3. (v * Unit) % (2 * (MaxInt + 1)) = v * Unit
    BY <1>2, SmallRemainder, FlagAssumption
<1> QED BY <1>1, <1>3 DEF MemoryLimit

\* Whatever integers the flags of a size limit are, a scan that accepts them has
\* the limits that were asked for.
LEMMA AcceptedFits == \A f : SizesAreIntegers(f) => FlagsFit(f)
<1> SUFFICES ASSUME NEW f, SizesAreIntegers(f), ParseScan(f)
             PROVE  /\ \A v \in {f.cidrSizeGB, f.portSizeMB, f.snapshotSizeGB, f.responseSizeMB} :
                           SizeLimit(v) = v * Unit
                    /\ MemoryLimit(f.targetMemoryGB) = f.targetMemoryGB * Unit
                    /\ PressureKind(f) = "authenticated" => f.authURL /\ f.clientID /\ f.clientSecret
                    /\ f.pingTimeout > 0 => ParseValidate(f) /\ ParsePrePing(f)
                    /\ f.bucketsOut => ParseGenerateBuckets(f)
    BY DEF FlagsFit
<1>1. /\ SizeLimit(f.cidrSizeGB) # Rejected /\ SizeLimit(f.portSizeMB) # Rejected
      /\ SizeLimit(f.snapshotSizeGB) # Rejected /\ SizeLimit(f.responseSizeMB) # Rejected
      /\ MemoryLimit(f.targetMemoryGB) # Rejected
    BY Zenon DEF ParseScan, CommonValid, PortLimitsValid, SnapshotLimitsValid, ResponseLimitsValid
<1>2. \A v \in {f.cidrSizeGB, f.portSizeMB, f.snapshotSizeGB, f.responseSizeMB} :
          SizeLimit(v) = v * Unit
    BY <1>1, SizeLimitFits, Zenon DEF SizesAreIntegers
<1>3. MemoryLimit(f.targetMemoryGB) = f.targetMemoryGB * Unit
    BY <1>1, MemoryLimitFits, Zenon DEF SizesAreIntegers
<1>4. PressureKind(f) = "authenticated" => f.authURL /\ f.clientID /\ f.clientSecret
    BY DEF PressureKind, ParseScan, PressureValid
<1>5. f.pingTimeout > 0 => ParseValidate(f) /\ ParsePrePing(f)
    BY Zenon DEF ParseScan, ParseValidate, ParsePrePing
<1>6. f.bucketsOut => ParseGenerateBuckets(f)
    BY Zenon DEF ParseScan, ParseGenerateBuckets
<1> QED BY <1>2, <1>3, <1>4, <1>5, <1>6

\* The flag sets the processes start with have such flags.
LEMMA FlagSetsAreTyped == \A f \in FlagSets \cup {Defaults} : SizesAreIntegers(f)
<1> SUFFICES ASSUME NEW f \in FlagSets \cup {Defaults} PROVE SizesAreIntegers(f)
    OBVIOUS
<1>1. Edges \subseteq Int
    BY FlagAssumption DEF Edges
<1>2. CASE f = Defaults
    BY <1>2 DEF Defaults, SizesAreIntegers
<1>3. CASE f \in TextFlags
    <2>1. ASSUME NEW k \in {"cidrFile", "columns", "resume", "bucketsOut"}, NEW v,
                 f = [Defaults EXCEPT ![k] = v]
          PROVE  SizesAreIntegers(f)
        BY <2>1 DEF Defaults, SizesAreIntegers
    <2>2. CASE f \in {[Defaults EXCEPT !.format = "xml"], [Defaults EXCEPT !.dataURLs = "blank"],
                     [Defaults EXCEPT !.disableAPI = TRUE]}
        BY <2>2 DEF Defaults, SizesAreIntegers
    <2> QED BY <1>3, <2>1, <2>2 DEF TextFlags
<1>4. CASE f \in LimitFlags
    <2>1. PICK k \in LimitNames, v \in Edges : f = [Defaults EXCEPT ![k] = v]
        BY <1>4 DEF LimitFlags
    <2>2. v \in Int
        BY <1>1
    <2> USE <2>1, <2>2 DEF Defaults, LimitNames
    <2>3. f.cidrSizeGB \in Int
        OBVIOUS
    <2>4. f.portSizeMB \in Int
        OBVIOUS
    <2>5. f.snapshotSizeGB \in Int
        OBVIOUS
    <2>6. f.responseSizeMB \in Int
        OBVIOUS
    <2>7. f.targetMemoryGB \in Int
        OBVIOUS
    <2> HIDE DEF Defaults, LimitNames
    <2> QED BY <2>3, <2>4, <2>5, <2>6, <2>7 DEF SizesAreIntegers
<1>5. CASE f \in RangeFlags
    <2>1. PICK k \in {"workers", "rate", "capacity"}, v \in {0, 1, MaxWorkers, MaxInt} :
              f = [Defaults EXCEPT ![k] = v]
        BY <1>5 DEF RangeFlags
    <2> QED BY <2>1 DEF Defaults, SizesAreIntegers
<1>6. CASE f \in IntervalFlags
    <2>1. ASSUME NEW i, f = [Defaults EXCEPT !.interval = i]
          PROVE  SizesAreIntegers(f)
        BY <2>1 DEF Defaults, SizesAreIntegers
    <2> QED BY <1>6, <2>1 DEF IntervalFlags
<1>7. CASE f \in AuthFlags
    <2>1. PICK d \in {"none", "some"}, g \in SUBSET {"authURL", "clientID", "clientSecret", "disableAPI"} :
              f = WithAuth(d, g)
        BY <1>7 DEF AuthFlags
    <2> QED BY <2>1 DEF WithAuth, Defaults, SizesAreIntegers
<1> QED BY <1>2, <1>3, <1>4, <1>5, <1>6, <1>7 DEF FlagSets
-----------------------------------------------------------------------------
(* The process *)

\* Whatever the process does to the snapshot is a call of the save, its end or
\* a power failure.
LEMMA ProcStepIsSaveStep == [ProcNext]_procVars => [Next]_vars
<1> SUFFICES ASSUME [ProcNext]_procVars PROVE Next \/ UNCHANGED vars
    OBVIOUS
<1>1. CASE UNCHANGED procVars
    BY <1>1 DEF procVars
<1>2. CutShort => Next \/ UNCHANGED vars
    BY DEF CutShort, Next
<1>3. CASE StartProcess \/ Parse \/ SaveReturns
    BY <1>3 DEF StartProcess, Parse, SaveReturns
<1>4. CASE WorkEnds
    BY <1>4 DEF WorkEnds, Next, Save
<1>5. CASE SaveStep
    BY <1>5 DEF SaveStep, Next
<1>6. CASE Finish
    BY <1>6 DEF Finish, StopSignals, CloseDone, ExitMain
<1>7. CASE OperatorInterrupts
    BY <1>2, <1>7 DEF OperatorInterrupts
<1>8. CASE Escalation
    BY <1>2, <1>8 DEF Escalation, TakeFirst, CancelRun, ForceExit, LeaveSelect
<1>9. CASE Killed
    BY <1>2, <1>9 DEF Killed, Next
<1> QED BY <1>1, <1>3, <1>4, <1>5, <1>6, <1>7, <1>8, <1>9 DEF ProcNext

\* The processes, with their interrupts and their ends, implement the save as it
\* is specified on its own.
THEOREM ProcessImplementsSave == ProcSpec => Spec
<1>1. ProcInit => Init
    BY DEF ProcInit
<1> QED BY <1>1, ProcStepIsSaveStep, PTL DEF ProcSpec, Spec

\* The state of the process has its shape.
LEMMA ProcTypeStep ==
    ASSUME ProcTypeOK, version \in Nat, [ProcNext]_procVars
    PROVE  ProcTypeOK'
<1> USE DEF ProcTypeOK, Commands, mainVars, signalVars, endVars, Ends
<1>1. CASE UNCHANGED procVars
    BY <1>1 DEF procVars
<1>2. CASE StartProcess
    BY <1>2 DEF StartProcess
<1>3. CASE Parse
    BY <1>3 DEF Parse
<1>4. CASE WorkEnds
    BY <1>4 DEF WorkEnds
<1>5. CASE SaveStep
    BY <1>5 DEF SaveStep
<1>6. CASE SaveReturns
    BY <1>6 DEF SaveReturns
<1>7. CASE Finish
    BY <1>7 DEF Finish, StopSignals, CloseDone, ExitMain, ExitCode
<1>8. CASE OperatorInterrupts
    BY <1>8 DEF OperatorInterrupts, Buffer
<1>9. CASE Escalation
    BY <1>9 DEF Escalation, TakeFirst, CancelRun, ForceExit, LeaveSelect
<1>10. CASE Killed
    BY <1>10 DEF Killed
<1> QED BY <1>1, <1>2, <1>3, <1>4, <1>5, <1>6, <1>7, <1>8, <1>9, <1>10 DEF ProcNext

\* Only the parser reads the flags, and it puts them aside.
LEMMA FlagsStep ==
    ASSUME SizesAreIntegers(flags), [ProcNext]_procVars
    PROVE  SizesAreIntegers(flags')
<1>1. CASE StartProcess
    <2>1. flags' \in FlagSets \cup {Defaults}
        BY <1>1 DEF StartProcess
    <2> QED BY <2>1, FlagSetsAreTyped, Zenon
<1>2. CASE Parse
    <2>1. flags' = Defaults
        BY <1>2 DEF Parse
    <2> QED BY <2>1, FlagSetsAreTyped, Zenon
<1>3. CASE flags' = flags
    BY <1>3
<1>4. CASE ProcNext /\ ~StartProcess /\ ~Parse
    <2>1. flags' = flags
        BY <1>4 DEF ProcNext, WorkEnds, SaveStep, SaveReturns, Finish, StopSignals, CloseDone,
           ExitMain, OperatorInterrupts, Escalation, TakeFirst, CancelRun, ForceExit,
           LeaveSelect, Killed, mainVars
    <2> QED BY <1>3, <2>1
<1>5. UNCHANGED procVars => flags' = flags
    BY DEF procVars, mainVars
<1> QED BY <1>1, <1>2, <1>3, <1>4, <1>5

\* Interrupts are counted before they are acted on.
LEMMA InterruptsStep ==
    ASSUME ProcTypeOK, InterruptsAreReal, SavesListen, [ProcNext]_procVars
    PROVE  InterruptsAreReal'
<1> USE DEF ProcTypeOK, InterruptsAreReal, SavesListen, mainVars, signalVars, endVars, Ends
<1>1. CASE UNCHANGED procVars
    BY <1>1 DEF procVars
<1>2. CASE StartProcess
    BY <1>2 DEF StartProcess
<1>3. CASE Parse
    BY <1>3 DEF Parse
<1>4. CASE WorkEnds
    BY <1>4 DEF WorkEnds
<1>5. CASE SaveStep \/ SaveReturns
    BY <1>5 DEF SaveStep, SaveReturns
<1>6. CASE Finish
    BY <1>6 DEF Finish, StopSignals, CloseDone, ExitMain, ExitCode
<1>7. CASE OperatorInterrupts
    BY <1>7 DEF OperatorInterrupts, Buffer
<1>8. CASE Escalation
    BY <1>8 DEF Escalation, TakeFirst, CancelRun, ForceExit, LeaveSelect
<1>9. CASE Killed
    BY <1>9 DEF Killed
<1> QED BY <1>1, <1>2, <1>3, <1>4, <1>5, <1>6, <1>7, <1>8, <1>9 DEF ProcNext

\* A kill ends the save.
LEMMA CutIsIdle == CutShort => spc' = "idle" /\ dest' = dest /\ version' = version
    BY DEF CutShort, Kill, vars, fileVars, saveVars

\* The save keeps to its place in the process.
LEMMA ListenStep ==
    ASSUME ProcTypeOK, SavesListen, [ProcNext]_procVars
    PROVE  SavesListen'
<1> USE DEF ProcTypeOK, Commands, SavesListen, mainVars, signalVars, endVars, Ends
<1>0. UNCHANGED vars => spc' = spc
    BY DEF vars
<1>1. CASE UNCHANGED procVars
    BY <1>0, <1>1 DEF procVars
<1>2. CASE StartProcess
    BY <1>0, <1>2 DEF StartProcess
<1>3. CASE Parse
    BY <1>0, <1>3 DEF Parse
<1>4. CASE WorkEnds
    BY <1>0, <1>4 DEF WorkEnds
<1>5. CASE SaveStep
    BY <1>5 DEF SaveStep
<1>6. CASE SaveReturns
    BY <1>0, <1>6 DEF SaveReturns
<1>7. CASE Finish
    BY <1>0, <1>7 DEF Finish, StopSignals, CloseDone, ExitMain
<1>8. CASE OperatorInterrupts
    BY <1>0, <1>8, CutIsIdle DEF OperatorInterrupts
<1>9. CASE Escalation
    BY <1>0, <1>9, CutIsIdle DEF Escalation, TakeFirst, CancelRun, ForceExit, LeaveSelect
<1>10. CASE Killed
    BY <1>10, CutIsIdle DEF Killed, PowerFailure
<1> QED BY <1>1, <1>2, <1>3, <1>4, <1>5, <1>6, <1>7, <1>8, <1>9, <1>10 DEF ProcNext

\* The process says of its save what the save reported.
LEMMA EndStep ==
    ASSUME ProcTypeOK, SavesListen, EndIsTrue, ReportIsTrue, version \in Nat,
           [ProcNext]_procVars
    PROVE  EndIsTrue'
<1> USE DEF ProcTypeOK, SavesListen, EndIsTrue, mainVars, signalVars, endVars, Ends
<1>0. UNCHANGED vars => dest' = dest /\ version' = version
    BY DEF vars, fileVars, saveVars
<1>1. CASE UNCHANGED procVars
    BY <1>0, <1>1 DEF procVars
<1>2. CASE StartProcess
    BY <1>0, <1>2 DEF StartProcess
<1>3. CASE Parse
    BY <1>0, <1>3 DEF Parse
<1>4. CASE WorkEnds
    BY <1>0, <1>4 DEF WorkEnds
<1>5. CASE SaveStep
    BY <1>5 DEF SaveStep
<1>6. CASE SaveReturns
    BY <1>0, <1>6 DEF SaveReturns, ReportIsTrue
<1>7. CASE Finish
    BY <1>0, <1>7 DEF Finish, StopSignals, CloseDone, ExitMain, ExitCode
<1>8. CASE OperatorInterrupts
    BY <1>0, <1>8, CutIsIdle DEF OperatorInterrupts
<1>9. CASE Escalation
    BY <1>0, <1>9, CutIsIdle DEF Escalation, TakeFirst, CancelRun, ForceExit, LeaveSelect
<1>10. CASE Killed
    BY <1>10 DEF Killed
<1> QED BY <1>1, <1>2, <1>3, <1>4, <1>5, <1>6, <1>7, <1>8, <1>9, <1>10 DEF ProcNext

\* The invariant of the process: interrupts are counted before they act, a save
\* runs only while the process listens to them, and what the process will say
\* of its save is what the save reported.
THEOREM ProcInvariant == ProcSpec => []ProcInv
<1>1. ProcInit => ProcInv
    <2> SUFFICES ASSUME ProcInit PROVE ProcInv
        OBVIOUS
    <2>1. SizesAreIntegers(flags)
        BY FlagSetsAreTyped, Zenon DEF ProcInit
    <2>2. ProcTypeOK /\ InterruptsAreReal /\ SavesListen /\ EndIsTrue
        BY DEF ProcInit, Init, ProcTypeOK, InterruptsAreReal, SavesListen, EndIsTrue, Commands
    <2> QED BY <2>1, <2>2 DEF ProcInv
<1>2. SaveInv /\ ProcInv /\ [ProcNext]_procVars => ProcInv'
    <2> SUFFICES ASSUME SaveInv, ProcInv, [ProcNext]_procVars PROVE ProcInv'
        OBVIOUS
    <2>1. version \in Nat /\ ReportIsTrue
        BY DEF SaveInv, TypeOK
    <2>2. SizesAreIntegers(flags) /\ ProcTypeOK /\ InterruptsAreReal /\ SavesListen /\ EndIsTrue
        BY DEF ProcInv
    <2>3. SizesAreIntegers(flags')
        BY <2>2, FlagsStep
    <2>4. ProcTypeOK'
        BY <2>1, <2>2, ProcTypeStep
    <2>5. InterruptsAreReal'
        BY <2>2, InterruptsStep
    <2>6. SavesListen'
        BY <2>2, ListenStep
    <2>7. EndIsTrue'
        BY <2>1, <2>2, EndStep
    <2> QED BY <2>3, <2>4, <2>5, <2>6, <2>7 DEF ProcInv, SizesAreIntegers
<1> QED BY <1>1, <1>2, ProcessImplementsSave, SaveInvariant, PTL DEF ProcSpec

\* The exit code tells what is on the disk, and 130 follows an interrupt.
THEOREM TrueExitCode == ProcSpec => []ExitCodeIsTrue
<1>1. ProcInv => ExitCodeIsTrue
    BY DEF ProcInv, EndIsTrue, InterruptsAreReal, ExitCodeIsTrue
<1> QED BY <1>1, ProcInvariant, PTL

\* The flags a scan accepts stand for the limits that were asked for, whatever
\* the width of the integers and the unit.
THEOREM FlagsAreTrue == ProcSpec => []AcceptedFlagsFit
<1>1. ProcInv => AcceptedFlagsFit
    BY AcceptedFits, Zenon DEF ProcInv, AcceptedFlagsFit
<1> QED BY <1>1, ProcInvariant, PTL

\* An interrupt cuts a save short only as the second one of a scan.
THEOREM FirstNeverCuts == ProcSpec => OnlyTheSecondCuts
<1>1. ProcInv /\ [ProcNext]_procVars
        => [spc # "idle" /\ result' = "killed" /\ ended' \in {"forced", "default"}
              => ended' = "forced" /\ interrupts >= 2]_procVars
    <2> SUFFICES ASSUME ProcInv, ProcNext, spc # "idle", ended' \in {"forced", "default"}
                 PROVE  ended' = "forced" /\ interrupts >= 2
        OBVIOUS
    <2>1. main = "save" /\ notified /\ ended = "none"
        BY DEF ProcInv, ProcTypeOK, SavesListen
    <2>2. ForceExit
        BY <2>1 DEF ProcNext, StartProcess, Parse, WorkEnds, SaveStep, SaveReturns, Finish,
           StopSignals, CloseDone, ExitMain, OperatorInterrupts, Escalation, TakeFirst, CancelRun,
           LeaveSelect, Killed, Ends, endVars
    <2>3. ended' = "forced" /\ first /\ signals > 0
        BY <2>2 DEF ForceExit, Ends
    <2>4. signals + 1 <= interrupts /\ signals \in Nat /\ interrupts \in Nat
        BY <2>3 DEF ProcInv, ProcTypeOK, InterruptsAreReal
    <2> QED BY <2>3, <2>4
<1> QED BY <1>1, ProcInvariant, PTL DEF ProcSpec, OnlyTheSecondCuts

\* The promises of the save hold in the processes.
THEOREM ProcessKeepsSnapshot ==
    ProcSpec => []DestinationIsWhole /\ []ReportIsTrue /\ OldOrNew
    BY ProcessImplementsSave, AlwaysLoadable, TrueReport, AtomicReplace, PTL
=============================================================================
