--------------------------- MODULE DashboardProofs ---------------------------
(***************************************************************************)
(* The pressure poller, the keyboard loop and the dispatcher around one    *)
(* controller, for any number of samples and keys.                         *)
(***************************************************************************)
EXTENDS Dashboard, TLAPS

-----------------------------------------------------------------------------
(* The poller *)

\* The steps of the poller itself.
LEMMA PollerKeepsInv == PollInv /\ Poller => PollInv'
<1> SUFFICES ASSUME PollInv, Poller PROVE PollInv'
    OBVIOUS
<1> USE DEF PollInv
<1>1. CASE PollWait
    BY <1>1 DEF PollWait
<1>2. CASE PollSample
    BY <1>2 DEF PollSample
<1>3. CASE PollFail
    BY <1>3 DEF PollFail
<1>4. CASE PollApply
    BY <1>4 DEF PollApply
<1> QED BY <1>1, <1>2, <1>3, <1>4 DEF Poller

\* Only the result loop touches the poller's state besides, when it takes the
\* error.
LEMMA OthersKeepPoll ==
    ASSUME [DashboardNext]_dashboardVars
    PROVE  \/ Poller
           \/ UNCHANGED pollVars
           \/ apiErrCh # "empty" /\ UNCHANGED <<ppc, sample, failures, highs, streak>>
<1>1. CASE Keyboard \/ KeyPress \/ RestoreOnCancel \/ Dispatch \/ Interrupt \/ ProcessExit \/ Exited
    BY <1>1 DEF Keyboard, KeyPress, RestoreOnCancel, Dispatch, Interrupt, ProcessExit, Exited, vars
<1>2. CASE TakeAPIError
    BY <1>2 DEF TakeAPIError
<1>3. CASE Sync \/ StopDashboard \/ ReturnAfterStop \/ UNCHANGED dashboardVars
    BY <1>3 DEF Sync, StopDashboard, ReturnAfterStop, dashboardVars, vars
<1> QED BY <1>1, <1>2, <1>3 DEF DashboardNext, PauseStep

\* The invariant of the poller.
THEOREM PollInvariant == DashboardSpec => []PollInv
<1>1. DashboardInit => PollInv
    BY DEF DashboardInit, Init, PollInv
<1>2. PollInv /\ [DashboardNext]_dashboardVars => PollInv'
    <2> SUFFICES ASSUME PollInv, [DashboardNext]_dashboardVars PROVE PollInv'
        OBVIOUS
    <2>1. CASE Poller
        BY <2>1, PollerKeepsInv
    <2>2. CASE \/ UNCHANGED pollVars
               \/ apiErrCh # "empty" /\ UNCHANGED <<ppc, sample, failures, highs, streak>>
        BY <2>2 DEF PollInv, pollVars
    <2> QED BY <2>1, <2>2, OthersKeepPoll
<1> QED BY <1>1, <1>2, PTL DEF DashboardSpec

\* A pressure source stops the scan only after three bad samples in a row.
THEOREM OnlyAfterThree == DashboardSpec => []ThreeInARow
<1>1. PollInv => ThreeInARow
    BY DEF PollInv, ThreeInARow
<1> QED BY <1>1, PollInvariant, PTL

-----------------------------------------------------------------------------
(* The controller in the middle *)

\* Whatever the goroutines do to the controller is one of its operations.
LEMMA DashboardStepIsControllerStep ==
    ASSUME [DashboardNext]_dashboardVars
    PROVE  [Ctl!Next]_(Ctl!vars)
<1>0. UNCHANGED ctlVars => UNCHANGED Ctl!vars
    BY DEF ctlVars, Ctl!vars, Ctl!flagVars, Ctl!gateVars, Ctl!waiterVars
<1>1. CASE PollApply
    <2>1. (sample = "high") \in BOOLEAN
        OBVIOUS
    <2>2. Ctl!SetAPIPaused(sample = "high")
        BY <1>1 DEF PollApply
    <2> QED BY <2>1, <2>2, Zenon DEF Ctl!Next, Ctl!Callers
<1>2. CASE PollWait \/ PollSample \/ PollFail
    BY <1>0, <1>2 DEF PollWait, PollSample, PollFail
<1>3. CASE KeyTop \/ KeyRead
    BY <1>0, <1>3 DEF KeyTop, KeyRead, KeyReturn
<1>4. CASE KeyCheck
    BY <1>0, <1>4 DEF KeyCheck, KeyReturn, Ctl!Next, Ctl!Callers
<1>5. CASE Dispatch
    BY <1>0, <1>5 DEF Dispatch, Ctl!Next
<1>6. CASE RestoreOnCancel \/ TakeAPIError \/ Interrupt \/ ProcessExit \/ Exited
    BY <1>0, <1>6 DEF RestoreOnCancel, TakeAPIError, Interrupt, ProcessExit, Exited, vars
<1>7. CASE Sync \/ StopDashboard \/ ReturnAfterStop \/ UNCHANGED dashboardVars
    BY <1>0, <1>7 DEF Sync, StopDashboard, ReturnAfterStop, dashboardVars, vars
<1> QED BY <1>1, <1>2, <1>3, <1>4, <1>5, <1>6, <1>7
        DEF DashboardNext, PauseStep, Poller, Keyboard, KeyPress

\* The goroutines of a scan use the controller as it is specified on its own.
THEOREM PauseImplementsController == DashboardSpec => Ctl!Spec
<1>1. DashboardInit => Ctl!Init
    BY DEF DashboardInit, Init
<1> QED BY <1>1, DashboardStepIsControllerStep, PTL DEF DashboardSpec, Ctl!Spec
=============================================================================
