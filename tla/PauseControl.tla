---------------------------- MODULE PauseControl ----------------------------
(***************************************************************************)
(* Who pauses and resumes a scan: the pressure poller, the keyboard loop   *)
(* and the dispatcher that waits at the gate, around one SpeedController,  *)
(* up to the end of the process.                                           *)
(***************************************************************************)
EXTENDS Integers

CONSTANTS
    APIEnabled,   \* a pressure source is configured
    IsTerminal,   \* stdin is a terminal
    MaxHigh,      \* bound: samples at or above the limit
    MaxKeys       \* bound: how often the operator presses the space bar

Dispatcher == "dispatcher"

\* A bound that no run reaches: one channel per pause and the first one.
MaxGates == 1 + MaxHigh + MaxKeys

VARIABLES
    apiPaused, manualPaused, gate, closed, wstate, held, passes,
    ctxDone,      \* runCtx is cancelled
    ppc, sample, failures, apiErrCh, highs,   \* pollPressureAPI
    streak,       \* history: bad samples in a row
    kpc, keys, terminal,                      \* StartKeyboardLoop
    dpc, mpc      \* the dispatcher; execute and the process around it

Ctl == INSTANCE SpeedController WITH Waiters <- {Dispatcher}

ctlVars  == <<apiPaused, manualPaused, gate, closed, wstate, held, passes>>
pollVars == <<ppc, sample, failures, apiErrCh, highs, streak>>
keyVars  == <<kpc, keys, terminal>>
vars     == <<ctlVars, ctxDone, pollVars, keyVars, dpc, mpc>>

\* execute has started the goroutines; without a terminal there is no keyboard
\* loop, without a pressure source no poller.
Init ==
    /\ Ctl!Init /\ ctxDone = FALSE
    /\ ppc = IF APIEnabled THEN "wait" ELSE "done"
    /\ sample = "none" /\ failures = 0 /\ apiErrCh = "empty" /\ highs = 0 /\ streak = 0
    /\ kpc = IF IsTerminal THEN "top" ELSE "done"
    /\ keys = 0
    /\ terminal = IF IsTerminal THEN "raw" ELSE "restored"
    /\ dpc = "run" /\ mpc = "running"

Alive == mpc # "exited"

-----------------------------------------------------------------------------
(* pollPressureAPI *)

PollUnchanged == UNCHANGED <<ctxDone, keyVars, dpc, mpc>>

\* select { ctx.Done; ticker }
PollWait ==
    /\ ppc = "wait"
    /\ \/ ppc' = "sampling"
       \/ ctxDone /\ ppc' = "done"
    /\ UNCHANGED <<ctlVars, sample, failures, apiErrCh, highs, streak>>
    /\ PollUnchanged

\* source.Sample: at or above the limit, below it, or bad (an error, or a value
\* that is not finite).  A cancelled run drops the sample.
PollSample ==
    /\ ppc = "sampling"
    /\ \E s \in {"high", "low", "bad"} :
          /\ s = "high" => highs < MaxHigh
          /\ sample' = s
          /\ highs' = IF s = "high" THEN highs + 1 ELSE highs
          /\ streak' = IF s = "bad" THEN streak + 1 ELSE 0
    /\ ppc' = IF ctxDone THEN "done" ELSE "apply"
    /\ UNCHANGED <<ctlVars, failures, apiErrCh>>
    /\ PollUnchanged

\* Mutants: the poller gives up in silence; a good sample does not forgive the
\* failures before it.
FailSilently ==
    /\ ppc = "apply" /\ sample = "bad"
    /\ failures' = failures + 1
    /\ ppc' = IF failures' <= 2 THEN "wait" ELSE "done"
    /\ sample' = "none" /\ UNCHANGED <<ctlVars, highs, streak, apiErrCh>>
    /\ PollUnchanged

ApplyWithoutReset ==
    /\ ppc = "apply" /\ sample # "bad"
    /\ Ctl!SetAPIPaused(sample = "high")
    /\ ppc' = "wait"
    /\ sample' = "none" /\ UNCHANGED <<failures, highs, streak, apiErrCh>>
    /\ PollUnchanged

\* A bad sample: the third one in a row is fatal; errCh is sent to without
\* blocking.
PollFail ==
    /\ ppc = "apply" /\ sample = "bad"
    /\ failures' = failures + 1
    /\ \/ failures' <= 2 /\ ppc' = "wait" /\ UNCHANGED apiErrCh
       \/ failures' > 2 /\ ppc' = "done"
          /\ apiErrCh' = IF apiErrCh = "empty" THEN "err" ELSE apiErrCh
    /\ sample' = "none" /\ UNCHANGED <<ctlVars, highs, streak>>
    /\ PollUnchanged

PollApply ==
    /\ ppc = "apply" /\ sample # "bad"
    /\ failures' = 0
    /\ Ctl!SetAPIPaused(sample = "high")
    /\ ppc' = "wait"
    /\ sample' = "none" /\ UNCHANGED <<highs, streak, apiErrCh>>
    /\ PollUnchanged

Poller == Alive /\ (PollWait \/ PollSample \/ PollFail \/ PollApply)

-----------------------------------------------------------------------------
(* StartKeyboardLoop *)

\* The loop returns; its deferred call restores the terminal.
KeyReturn == kpc' = "done" /\ terminal' = "restored" /\ UNCHANGED <<keys, ctlVars>>

\* ctx.Done before the read.
KeyTop ==
    /\ kpc = "top"
    /\ \/ ctxDone /\ KeyReturn
       \/ ~ctxDone /\ kpc' = "read" /\ UNCHANGED <<keys, terminal, ctlVars>>

\* input.Read blocks; it ends with a byte or with an error.
KeyRead ==
    /\ kpc = "read"
    /\ \/ KeyReturn
       \/ kpc' = "check" /\ UNCHANGED <<keys, terminal, ctlVars>>

\* ctx.Done after the read; a space bar toggles the pause, another key nothing.
KeyCheck ==
    /\ kpc = "check"
    /\ \/ ctxDone /\ KeyReturn
       \/ /\ ~ctxDone /\ kpc' = "top" /\ UNCHANGED terminal
          /\ \/ keys < MaxKeys /\ keys' = keys + 1 /\ Ctl!ToggleManualPaused
             \/ UNCHANGED <<keys, ctlVars>>

Keyboard ==
    /\ Alive /\ (KeyTop \/ KeyCheck)
    /\ UNCHANGED <<ctxDone, pollVars, dpc, mpc>>

\* The operator, who need never press a key.
KeyPress == Alive /\ KeyRead /\ UNCHANGED <<ctxDone, pollVars, dpc, mpc>>

\* Mutant: nobody waits for the cancel while the loop is blocked in its read.
RestoreAfterRead ==
    /\ Alive /\ ctxDone /\ terminal = "raw" /\ kpc # "read"
    /\ terminal' = "restored"
    /\ UNCHANGED <<ctlVars, ctxDone, pollVars, kpc, keys, dpc, mpc>>

\* The goroutine that waits for ctx.Done and restores the terminal, once.
RestoreOnCancel ==
    /\ Alive /\ ctxDone /\ terminal = "raw"
    /\ terminal' = "restored"
    /\ UNCHANGED <<ctlVars, ctxDone, pollVars, kpc, keys, dpc, mpc>>

-----------------------------------------------------------------------------
(* The dispatcher at the gate, the result loop, and the end of the process *)

\* One iteration of dispatchTasks' gate wait; the last release ends it.
Dispatch ==
    /\ Alive /\ dpc = "run"
    /\ \/ (Ctl!FetchGate(Dispatcher) \/ Ctl!ReceiveGate(Dispatcher)) /\ UNCHANGED dpc
       \/ wstate[Dispatcher] = "released" /\ dpc' = "done" /\ UNCHANGED ctlVars
       \/ ctxDone /\ dpc' = "done" /\ UNCHANGED ctlVars
    /\ UNCHANGED <<ctxDone, pollVars, keyVars, mpc>>

\* runResultLoop takes a fatal pressure error and cancels the run.
TakeAPIError ==
    /\ Alive /\ apiErrCh = "err"
    /\ apiErrCh' = "spent" /\ ctxDone' = TRUE
    /\ UNCHANGED <<ctlVars, ppc, sample, failures, highs, streak, keyVars, dpc, mpc>>

\* First Ctrl+C.
Interrupt ==
    /\ Alive /\ ~ctxDone /\ ctxDone' = TRUE
    /\ UNCHANGED <<ctlVars, pollVars, keyVars, dpc, mpc>>

\* main calls os.Exit: no goroutine takes another step.
ProcessExit ==
    /\ mpc = "returned" /\ mpc' = "exited"
    /\ UNCHANGED <<ctlVars, ctxDone, pollVars, keyVars, dpc>>

Exited == mpc = "exited" /\ UNCHANGED vars

-----------------------------------------------------------------------------
(* What the pause control promises *)

\* A pressure source stops the scan only after three bad samples in a row: a
\* good one in between forgives the failures before it.
ThreeInARow == apiErrCh # "empty" => streak >= 3

\* Unless the operator keeps it paused, a scan never waits at the gate for
\* good: the pressure falls, or the poller fails and the run is cancelled.
AutomaticPauseEnds ==
    (<>[]~manualPaused) =>
        []<>(wstate[Dispatcher] # "waiting" \/ dpc = "done" \/ ~Alive)

\* A cancelled run gives the terminal back while the process lives, although
\* the keyboard loop may be blocked in its read for ever.
CancelRestoresTerminal == ctxDone ~> terminal = "restored" \/ ~Alive

\* Why three in a row holds: the poller never counts more failures than there
\* were bad samples in a row, the one it has not yet counted included, and it
\* has sent its error as its last step.
PollInv ==
    /\ failures \in Nat /\ streak \in Nat
    /\ ppc \in {"wait", "sampling", "apply", "done"}
    /\ ppc \in {"wait", "sampling"} => failures <= streak
    /\ ppc = "apply" /\ sample = "bad" => failures + 1 <= streak
    /\ apiErrCh # "empty" => streak >= 3 /\ ppc = "done"
=============================================================================
