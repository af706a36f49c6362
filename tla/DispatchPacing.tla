--------------------------- MODULE DispatchPacing ---------------------------
(***************************************************************************)
(* The two waits of dispatchTasks together: for each task a dispatcher     *)
(* takes a token of the bucket, then waits at the gate of the controller,  *)
(* then sends.  Its context ends either wait.                              *)
(***************************************************************************)
EXTENDS SpeedController, LeakyBucket

ASSUME PacingAssumption == Acquirers = Waiters

VARIABLE at   \* a dispatcher is at "bucket", "gate" or "send", or has "returned"

pacingVars == <<vars, limiterVars, at>>

PacingInit == Init /\ BucketInit /\ at = [d \in Waiters |-> "bucket"]

Goes(d, from, to) == at[d] = from /\ at' = [at EXCEPT ![d] = to]

\* The check of the context at the top of the loop, then rt.bkt.Acquire.
Acquire(d) ==
    /\ UNCHANGED vars
    /\ \/ CallAcquire(d) /\ ~cancelled[d] /\ Goes(d, "bucket", "bucket")
       \/ TakeToken(d) /\ Goes(d, "bucket", "gate")
       \/ AcquireCancelled(d) /\ Goes(d, "bucket", "returned")

\* select { ctx.Done; ctrl.Gate() }
PassGate(d) ==
    /\ UNCHANGED limiterVars
    /\ \/ FetchGate(d) /\ Goes(d, "gate", "gate")
       \/ ReceiveGate(d) /\ Goes(d, "gate", "send")

LeaveGate(d) ==
    /\ wstate[d] = "waiting" /\ cancelled[d] /\ Goes(d, "gate", "returned")
    /\ wstate' = [wstate EXCEPT ![d] = "idle"] /\ held' = [held EXCEPT ![d] = 0]
    /\ UNCHANGED <<flagVars, gateVars, passes, limiterVars>>

Send(d) == Goes(d, "send", "bucket") /\ UNCHANGED <<vars, limiterVars>>

\* The context is seen at the send, or at the top of the loop.
Return(d) ==
    /\ cancelled[d] /\ apc[d] = "idle" /\ UNCHANGED <<vars, limiterVars>>
    /\ Goes(d, "send", "returned") \/ Goes(d, "bucket", "returned")

Dispatcher(d) == Acquire(d) \/ PassGate(d) \/ LeaveGate(d) \/ Send(d) \/ Return(d)

\* execute closes the buckets when the dispatcher has returned.
CloseBucket ==
    /\ \A d \in Waiters : at[d] = "returned"
    /\ \E c \in Closers : CloseSelect(c) \/ CloseStop(c)
    /\ UNCHANGED <<vars, at>>

PacingNext ==
    \/ Callers /\ UNCHANGED <<limiterVars, at>>
    \/ (Tick \/ Replenisher) /\ UNCHANGED <<vars, at>>
    \/ \E d \in Waiters : CancelContext(d) /\ UNCHANGED <<vars, at>>
    \/ \E d \in Waiters : Dispatcher(d)
    \/ CloseBucket

\* Goroutines that can run are scheduled.
PacingSpec ==
    /\ PacingInit /\ [][PacingNext]_pacingVars
    /\ WF_pacingVars(Replenisher /\ UNCHANGED <<vars, at>>)
    /\ \A d \in Waiters : WF_pacingVars(Dispatcher(d))

-----------------------------------------------------------------------------
(* What the two waits promise together *)

\* A dispatcher whose context is cancelled returns: from an empty bucket that
\* nobody refills, and from the gate of a pause that nobody ends.
CancelledDispatcherReturns == \A d \in Waiters : cancelled[d] ~> at[d] = "returned"
=============================================================================
