------------------------- MODULE InterruptEscalation -------------------------
(***************************************************************************)
(* One process after the other of the port-scan command, from its flags to *)
(* its exit code: the command's own work, the save of the snapshot at its  *)
(* end, call by call (SnapshotSave), and the interrupts of the operator,   *)
(* which come at any time.  scan escalates (pkg/state/signal.go): the      *)
(* first interrupt cancels the run, the second forces the exit.  The other *)
(* commands only cancel (signal.NotifyContext), and validate not even that.*)
(***************************************************************************)
EXTENDS SnapshotSave, CommandFlags

CONSTANTS MaxInterrupts   \* bound: interrupts during one process

VARIABLES
    command,      \* the command of this process
    flags,        \* its flags, until they are parsed
    main,         \* its main goroutine: "off", "parse", "run", "save", "returned", "stopping", "stopped"
    runErr,       \* what Run or GenerateBuckets returns: "nil", "canceled", "fatal" or "save"
    notified,     \* signal.Notify is in effect; without it an interrupt ends the process
    signals,      \* interrupts in the channel of capacity 2
    ctxDone,      \* the context of the run is cancelled
    done,         \* stop has closed the channel done
    gpc, first,   \* the escalation goroutine: its place, and that it has had its first interrupt
    interrupts,   \* history: interrupts of this process
    began,        \* history: snapshots attempted before this process
    ended, code   \* how the last process ended, and its exit code

mainVars   == <<command, flags, main, runErr, began>>
signalVars == <<notified, signals, ctxDone, done, gpc, first, interrupts>>
endVars    == <<ended, code>>
procVars   == <<vars, mainVars, signalVars, endVars>>

Commands == {"scan", "pre-ping", "generate-buckets", "validate"}

ProcInit ==
    /\ Init
    /\ command = "scan" /\ flags = Defaults /\ main = "off" /\ runErr = "nil" /\ began = 0
    /\ notified = FALSE /\ signals = 0 /\ ctxDone = FALSE /\ done = FALSE
    /\ gpc = "none" /\ first = FALSE /\ interrupts = 0
    /\ ended = "none" /\ code = 0

-----------------------------------------------------------------------------
(* The end of a process *)

Ends(how, c) == main' = "off" /\ gpc' = "none" /\ ended' = how /\ code' = c

\* A save that the end cuts short.
CutShort == IF spc = "idle" THEN UNCHANGED vars ELSE Kill

\* The operating system ends the process, or the machine stops.
Killed ==
    /\ Ends("killed", 137)
    /\ (main # "off" /\ CutShort) \/ PowerFailure
    /\ UNCHANGED <<command, flags, runErr, began, notified, signals, ctxDone, done, first, interrupts>>

-----------------------------------------------------------------------------
(* runMain and the command handlers *)

\* Flags leave nothing behind, so only processes before the first save vary them.
StartProcess ==
    /\ main = "off" /\ version < MaxSaves
    /\ command' \in Commands /\ flags' \in (IF version = 0 THEN FlagSets ELSE {Defaults})
    /\ main' = "parse" /\ runErr' = "nil" /\ began' = version
    /\ notified' = FALSE /\ signals' = 0 /\ ctxDone' = FALSE /\ done' = FALSE
    /\ gpc' = "none" /\ first' = FALSE /\ interrupts' = 0
    /\ ended' = "none" /\ code' = 0
    /\ UNCHANGED vars

\* Flags that the command does not accept end it with 2; others go to the work
\* under a context that listens to interrupts.
Parse ==
    /\ main = "parse" /\ flags' = Defaults
    /\ \/ /\ ~Parses(command, flags) /\ Ends("main", 2)
          /\ UNCHANGED notified
       \/ /\ Parses(command, flags)
          /\ main' = "run" /\ notified' = (command # "validate")
          /\ gpc' = IF command = "scan" THEN "select" ELSE "none"
          /\ UNCHANGED endVars
    /\ UNCHANGED <<vars, command, runErr, began, signals, ctxDone, done, first, interrupts>>

\* execute, RunPrePing, GenerateBuckets or Inputs comes to its end.  A scan saves
\* what is left of it, generate-buckets the buckets it made; a cancel is
\* reported only by a command whose context is cancelled.
WorkEnds ==
    /\ main = "run"
    /\ \E e \in {"nil", "canceled", "fatal"} :
          /\ e = "canceled" => ctxDone
          /\ runErr' = e
          /\ \/ /\ ~(command = "generate-buckets" /\ e = "nil")
                /\ main' = "returned" /\ UNCHANGED vars
             \/ /\ \/ command = "scan" /\ (e # "nil" \/ ctxDone)
                   \/ command = "generate-buckets" /\ e = "nil"
                /\ main' = "save" /\ Begin
    /\ UNCHANGED <<command, flags, began, signalVars, endVars>>

\* The calls of the save.
SaveStep ==
    /\ main = "save" /\ spc # "idle" /\ Save
    /\ UNCHANGED <<mainVars, signalVars, endVars>>

\* Mutant: the error of the run hides that of the save.
SaveKeepsRunErr ==
    /\ main = "save" /\ spc = "idle"
    /\ main' = "returned"
    /\ UNCHANGED <<vars, command, flags, runErr, began, signalVars, endVars>>

\* A failed save is what the command returns, whatever it would have returned.
SaveReturns ==
    /\ main = "save" /\ spc = "idle"
    /\ runErr' = IF result = "saved" THEN runErr ELSE "save"
    /\ main' = "returned"
    /\ UNCHANGED <<vars, command, flags, began, signalVars, endVars>>

\* Mutant: the interrupts are given back before the snapshot is saved.
StopEarly ==
    /\ main \in {"save", "returned"} /\ notified
    /\ notified' = FALSE /\ main' = IF main = "save" THEN "save" ELSE "stopping"
    /\ UNCHANGED <<vars, command, flags, runErr, began, signals, ctxDone, done, gpc, first, interrupts, endVars>>

\* The deferred stop: signal.Stop first ...
StopSignals ==
    /\ main = "returned"
    /\ notified' = FALSE /\ main' = "stopping"
    /\ UNCHANGED <<vars, command, flags, runErr, began, signals, ctxDone, done, gpc, first, interrupts, endVars>>

\* ... then done is closed and the context cancelled.
CloseDone ==
    /\ main = "stopping"
    /\ done' = TRUE /\ ctxDone' = TRUE /\ main' = "stopped"
    /\ UNCHANGED <<vars, command, flags, runErr, began, notified, signals, gpc, first, interrupts, endVars>>

ExitCode == CASE runErr = "nil" -> 0 [] runErr = "canceled" -> 130 [] OTHER -> 1

\* os.Exit in main.
ExitMain ==
    /\ main = "stopped" /\ Ends("main", ExitCode)
    /\ UNCHANGED <<vars, command, flags, runErr, began, notified, signals, ctxDone, done, first, interrupts>>

-----------------------------------------------------------------------------
(* Interrupts *)

\* Mutant: a channel of capacity 1.
BufferOne(n) == IF n < 1 THEN n + 1 ELSE n

\* The runtime sends to the channel without blocking.
Buffer(n) == IF n < 2 THEN n + 1 ELSE n

\* The operator's interrupt goes to the channel of scan, cancels the context of
\* the commands that only listen, or ends a process that does not.
OperatorInterrupts ==
    /\ main # "off" /\ interrupts < MaxInterrupts
    /\ interrupts' = interrupts + 1
    /\ \/ /\ notified /\ command = "scan"
          /\ signals' = Buffer(signals)
          /\ UNCHANGED <<vars, ctxDone, main, gpc, endVars>>
       \/ /\ notified /\ command # "scan"
          /\ ctxDone' = TRUE
          /\ UNCHANGED <<vars, signals, main, gpc, endVars>>
       \/ /\ ~notified
          /\ Ends("default", 130) /\ CutShort
          /\ UNCHANGED <<signals, ctxDone>>
    /\ UNCHANGED <<command, flags, runErr, began, notified, done, first>>

\* The goroutine of withInterruptChannel takes the first interrupt and tells
\* the operator ...
TakeFirst ==
    /\ gpc = "select" /\ signals > 0 /\ ~first
    /\ signals' = signals - 1 /\ first' = TRUE /\ gpc' = "onFirst"
    /\ UNCHANGED <<vars, mainVars, notified, ctxDone, done, interrupts, endVars>>

\* ... and only then cancels the run.
CancelRun ==
    /\ gpc = "onFirst"
    /\ ctxDone' = TRUE /\ gpc' = "select"
    /\ UNCHANGED <<vars, mainVars, notified, signals, done, first, interrupts, endVars>>

\* A later interrupt calls os.Exit(130), whatever the run is doing.
ForceExit ==
    /\ gpc = "select" /\ signals > 0 /\ first
    /\ Ends("forced", 130) /\ CutShort
    /\ UNCHANGED <<command, flags, runErr, began, notified, signals, ctxDone, done, first, interrupts>>

\* done is closed; with an interrupt pending the select may choose either.
LeaveSelect ==
    /\ gpc = "select" /\ done /\ gpc' = "none"
    /\ UNCHANGED <<vars, mainVars, notified, signals, ctxDone, done, first, interrupts, endVars>>

Escalation == TakeFirst \/ CancelRun \/ ForceExit \/ LeaveSelect

Finish == StopSignals \/ CloseDone \/ ExitMain

ProcNext ==
    \/ StartProcess \/ Parse \/ WorkEnds \/ SaveStep \/ SaveReturns \/ Finish
    \/ OperatorInterrupts \/ Escalation \/ Killed

\* The goroutine and the few statements after the run are scheduled; the run
\* and the calls of the save may hang for ever.
ProcSpec ==
    ProcInit /\ [][ProcNext]_procVars /\ WF_procVars(Escalation) /\ WF_procVars(Finish)

-----------------------------------------------------------------------------
(* What the operator may rely on *)

\* An interrupt cuts a save short only as the second one of a scan, through the
\* forced exit: never the first one, never in the moment around stop
\* (docs/interrupt-handling.md, withInterruptChannel).
OnlyTheSecondCuts ==
    [][spc # "idle" /\ result' = "killed" /\ ended' \in {"forced", "default"}
        => ended' = "forced" /\ interrupts >= 2]_procVars

\* The exit code tells the operator what is on the disk: 0 and the 130 of a
\* graceful stop mean that the snapshot this process tried to save is there,
\* and 130 only ever follows an interrupt.
ExitCodeIsTrue ==
    /\ ended = "main" /\ code \in {0, 130} /\ version > began => dest = version
    /\ code = 130 => interrupts > 0

\* Every flag set a scan accepts stands for the limits that were asked for and
\* is accepted by the other commands too (the four Parse functions).
AcceptedFlagsFit == main = "parse" => FlagsFit(flags)

\* The second interrupt ends a scan even if its run or its save hangs, although
\* both may arrive before the first is taken.
SecondInterruptEnds ==
    [](command = "scan" /\ main # "off" /\ interrupts >= 2 => <>(main = "off"))
-----------------------------------------------------------------------------
(* Why it holds *)

\* The shape of the state, as far as the argument needs it.
ProcTypeOK ==
    /\ command \in Commands
    /\ main \in {"off", "parse", "run", "save", "returned", "stopping", "stopped"}
    /\ runErr \in {"nil", "canceled", "fatal", "save"}
    /\ gpc \in {"none", "select", "onFirst"}
    /\ signals \in Nat /\ interrupts \in Nat /\ began \in Nat /\ code \in Nat

\* Every interrupt the process has acted on, or will, was sent by the operator.
InterruptsAreReal ==
    /\ signals + (IF first THEN 1 ELSE 0) <= interrupts
    /\ gpc = "onFirst" => first
    /\ main \in {"parse", "run"} /\ ctxDone => interrupts > 0
    /\ runErr = "canceled" => interrupts > 0
    /\ code = 130 => interrupts > 0

\* A save runs only between Notify and Stop, and only in a command that listens.
SavesListen ==
    /\ spc # "idle" => main = "save"
    /\ main \in {"run", "save"} => notified = (command # "validate")
    /\ main = "save" => command # "validate"
    /\ main # "off" => ended = "none" /\ code = 0

\* What the process will say of its save is what the save reported.
EndIsTrue ==
    /\ main \in {"parse", "run"} => version = began
    /\ main \in {"returned", "stopping", "stopped"} /\ runErr # "save" /\ version > began
          => dest = version
    /\ ended = "main" /\ code \in {0, 130} /\ version > began => dest = version

\* The flags of a size limit are integers.
SizesAreIntegers(f) ==
    /\ f.cidrSizeGB \in Int /\ f.portSizeMB \in Int /\ f.snapshotSizeGB \in Int
    /\ f.responseSizeMB \in Int /\ f.targetMemoryGB \in Int

ProcInv == SizesAreIntegers(flags) /\ ProcTypeOK /\ InterruptsAreReal /\ SavesListen /\ EndIsTrue
=============================================================================
