------------------------------ MODULE Dashboard ------------------------------
(***************************************************************************)
(* What shows a scan's pause state to its operator, beside the goroutines  *)
(* of PauseControl: startControllerTelemetrySync copies the flags to the   *)
(* dashboard, and execute stops the dashboard's renderer and waits for it  *)
(* before it cancels the run and returns.                                  *)
(***************************************************************************)
EXTENDS PauseControl

VARIABLES
    syncpc, readManual,   \* startControllerTelemetrySync, and the flag it has read
    shown                 \* dashboardState: the pause flags

dashVars      == <<syncpc, readManual, shown>>
dashboardVars == <<vars, dashVars>>

\* execute has made the dashboard; its first sync is a call.
DashboardInit ==
    /\ Init
    /\ syncpc = "tick" /\ readManual = FALSE /\ shown = [manual |-> FALSE, api |-> FALSE]

-----------------------------------------------------------------------------

\* ManualPaused and APIPaused are two reads, each under its own lock.
SyncManual ==
    /\ syncpc = "tick"
    /\ readManual' = manualPaused /\ syncpc' = "api" /\ UNCHANGED shown

\* Mutant: the flags are copied once.
SyncOnce ==
    /\ syncpc = "api"
    /\ shown' = [manual |-> readManual, api |-> apiPaused]
    /\ readManual' = FALSE /\ syncpc' = "done"

SyncAPI ==
    /\ syncpc = "api"
    /\ shown' = [manual |-> readManual, api |-> apiPaused]
    /\ readManual' = FALSE /\ syncpc' = "tick"

SyncLeaves == syncpc = "tick" /\ ctxDone /\ syncpc' = "done" /\ UNCHANGED <<readManual, shown>>

Sync == Alive /\ (SyncManual \/ SyncAPI \/ SyncLeaves) /\ UNCHANGED vars

\* The deferred dashboard.Stop cancels the renderer, which is between two
\* frames, in one, or gone since a frame that it could not write; ...
StopDashboard ==
    /\ mpc = "running" /\ dpc = "done" /\ mpc' = "stopping"
    /\ UNCHANGED <<ctlVars, ctxDone, pollVars, keyVars, dpc, dashVars>>

\* ... it waits until the renderer is done; only then the run is cancelled.
ReturnAfterStop ==
    /\ mpc = "stopping" /\ mpc' = "returned" /\ ctxDone' = TRUE
    /\ UNCHANGED <<ctlVars, pollVars, keyVars, dpc, dashVars>>

\* What PauseControl does beside the return of execute.
PauseStep ==
    /\ \/ Poller \/ Keyboard \/ KeyPress \/ RestoreOnCancel \/ Dispatch \/ TakeAPIError
       \/ Interrupt \/ ProcessExit \/ Exited
    /\ UNCHANGED dashVars

DashboardNext == PauseStep \/ Sync \/ StopDashboard \/ ReturnAfterStop

\* Goroutines that can move are scheduled, tickers tick and samples return.
\* Writes to the terminal may block for ever, and execute with them.
DashboardSpec ==
    /\ DashboardInit /\ [][DashboardNext]_dashboardVars
    /\ WF_vars(Poller) /\ WF_vars(Keyboard) /\ WF_vars(RestoreOnCancel)
    /\ WF_vars(Dispatch) /\ WF_vars(TakeAPIError) /\ WF_dashboardVars(Sync)

-----------------------------------------------------------------------------
(* What the operator sees *)

\* The two flags are read apart, so that the dashboard may for a moment show a
\* pair that never was; but as long as the run lasts it comes back to the truth,
\* also after the last change.
DashboardCatchesUp ==
    []<>(ctxDone \/ shown = [manual |-> manualPaused, api |-> apiPaused])
=============================================================================
