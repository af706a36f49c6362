------------------------ MODULE DispatchPacingProofs ------------------------
(***************************************************************************)
(* The promises of the controller, for any number of waiters and pauses,   *)
(* and of the bucket, for every capacity and any number of callers and     *)
(* ticks; and both of them in the dispatcher that waits at one after the   *)
(* other.                                                                  *)
(***************************************************************************)
EXTENDS DispatchPacing, TLAPS

-----------------------------------------------------------------------------
(* The controller *)

\* recomputeLocked keeps the channels in step with the pause flags: after it the
\* gate is closed exactly while nothing pauses.
LEMMA RecomputeGate ==
    ASSUME GateInv, TypeOK, NEW paused, Recompute(paused)
    PROVE  /\ gate' \in Nat \ {0} /\ closed' \subseteq Nat
           /\ 1..(gate' - 1) \subseteq closed' /\ closed' \subseteq 1..gate'
           /\ gate' \in closed' <=> ~paused
<1>1. /\ gate \in Nat \ {0} /\ closed \subseteq Nat
      /\ 1..(gate - 1) \subseteq closed /\ closed \subseteq 1..gate
    BY Zenon DEF GateInv, TypeOK
<1>2. \/ paused /\ gate \in closed /\ gate' = gate + 1 /\ closed' = closed
      \/ paused /\ gate \notin closed /\ gate' = gate /\ closed' = closed
      \/ ~paused /\ gate' = gate /\ closed' = closed \cup {gate}
    BY Zenon DEF Recompute
<1>3. ASSUME gate \in closed, gate' = gate + 1, closed' = closed
      PROVE  /\ gate' \in Nat \ {0} /\ closed' \subseteq Nat
             /\ 1..(gate' - 1) \subseteq closed' /\ closed' \subseteq 1..gate'
             /\ gate' \notin closed'
    BY <1>1, <1>3
<1>4. ASSUME gate' = gate, closed' = closed \cup {gate}
      PROVE  /\ gate' \in Nat \ {0} /\ closed' \subseteq Nat
             /\ 1..(gate' - 1) \subseteq closed' /\ closed' \subseteq 1..gate'
             /\ gate' \in closed'
    BY <1>1, <1>4
<1> QED BY <1>1, <1>2, <1>3, <1>4, Zenon

\* The waiters' part of the invariant survives recomputeLocked: a new pause
\* starts their counts afresh, and every channel fetched before it is older.
LEMMA RecomputeWaiters ==
    ASSUME ControllerInv, NEW paused \in BOOLEAN, Recompute(paused),
           UNCHANGED <<wstate, held>>, IsPaused' = paused
    PROVE  WaiterInv' /\ passes' \in [Waiters -> Nat]
<1> USE DEF ControllerInv, GateInv, WaiterInv, TypeOK, Recompute
<1>1. CASE paused /\ gate \in closed
    BY <1>1
<1>2. CASE paused /\ gate \notin closed
    BY <1>2
<1>3. CASE ~paused
    BY <1>3
<1> QED BY <1>1, <1>2, <1>3

\* Every call of a setter preserves the invariant.
LEMMA CallerStep == ControllerInv /\ Callers => ControllerInv'
<1> SUFFICES ASSUME ControllerInv, Callers
             PROVE  ControllerInv'
    OBVIOUS
<1>1. ASSUME NEW v \in BOOLEAN, SetAPIPaused(v)
      PROVE  ControllerInv'
    <2>1. (v \/ manualPaused) \in BOOLEAN /\ IsPaused' = (v \/ manualPaused)
        BY <1>1, Zenon DEF SetAPIPaused, IsPaused, ControllerInv, TypeOK
    <2>2. WaiterInv' /\ passes' \in [Waiters -> Nat]
        BY <1>1, <2>1, RecomputeWaiters DEF SetAPIPaused
    <2>3. GateInv' /\ gate' \in Nat \ {0} /\ closed' \subseteq Nat
        BY <1>1, <2>1, RecomputeGate DEF SetAPIPaused, ControllerInv, GateInv
    <2> QED BY <1>1, <2>2, <2>3, Zenon DEF SetAPIPaused, ControllerInv, TypeOK
<1>2. ASSUME NEW v \in BOOLEAN, SetManualPaused(v)
      PROVE  ControllerInv'
    <2>1. (apiPaused \/ v) \in BOOLEAN /\ IsPaused' = (apiPaused \/ v)
        BY <1>2, Zenon DEF SetManualPaused, IsPaused, ControllerInv, TypeOK
    <2>2. WaiterInv' /\ passes' \in [Waiters -> Nat]
        BY <1>2, <2>1, RecomputeWaiters DEF SetManualPaused
    <2>3. GateInv' /\ gate' \in Nat \ {0} /\ closed' \subseteq Nat
        BY <1>2, <2>1, RecomputeGate DEF SetManualPaused, ControllerInv, GateInv
    <2> QED BY <1>2, <2>2, <2>3, Zenon DEF SetManualPaused, ControllerInv, TypeOK
<1>3. CASE ToggleManualPaused
    BY <1>2, <1>3, Zenon DEF ToggleManualPaused
<1> QED BY <1>1, <1>2, <1>3, Zenon DEF Callers

\* Every fetch and every receive of a waiter preserves the invariant.
LEMMA WaiterStep ==
    ASSUME ControllerInv, NEW w \in Waiters, FetchGate(w) \/ ReceiveGate(w)
    PROVE  ControllerInv'
<1> USE DEF ControllerInv, GateInv, WaiterInv, IsPaused
<1>0. /\ apiPaused' = apiPaused /\ manualPaused' = manualPaused
      /\ gate' = gate /\ closed' = closed
    BY DEF FetchGate, ReceiveGate, flagVars, gateVars
<1>1. apiPaused' \in BOOLEAN /\ manualPaused' \in BOOLEAN /\ GateInv'
    BY <1>0, Zenon DEF TypeOK
<1>2. CASE FetchGate(w)
    <2>1. TypeOK' BY <1>1, <1>2 DEF TypeOK, FetchGate, flagVars, gateVars
    <2>2. WaiterInv'
        BY <1>2 DEF TypeOK, FetchGate, flagVars, gateVars
    <2> QED BY <1>1, <2>1, <2>2
<1>3. CASE ReceiveGate(w)
    <2>1. TypeOK' BY <1>1, <1>3 DEF TypeOK, ReceiveGate, flagVars, gateVars
    <2>2. IsPaused => held[w] < gate /\ passes[w] = 0
        BY <1>3 DEF TypeOK, ReceiveGate
    <2>3. WaiterInv'
        BY <1>3, <2>2 DEF TypeOK, ReceiveGate, flagVars, gateVars
    <2> QED BY <1>1, <2>1, <2>3
<1> QED BY <1>2, <1>3

\* A new controller: the gate is open and nobody waits.
LEMMA InitialController == Init => ControllerInv
<1> SUFFICES ASSUME Init PROVE ControllerInv
    OBVIOUS
<1>1. apiPaused \in BOOLEAN /\ manualPaused \in BOOLEAN /\ ~IsPaused
    BY Zenon DEF Init, IsPaused
<1>2. gate = 1 /\ closed = {1}
    BY DEF Init
<1>3. /\ gate \in Nat \ {0} /\ closed \subseteq Nat /\ gate \in closed
      /\ 1..(gate - 1) \subseteq closed /\ closed \subseteq 1..gate
    BY <1>2
<1>4. /\ wstate \in [Waiters -> {"idle", "waiting", "released"}]
      /\ held \in [Waiters -> Nat] /\ passes \in [Waiters -> Nat]
      /\ \A w \in Waiters : wstate[w] # "waiting"
    BY DEF Init
<1> QED BY <1>1, <1>3, <1>4, Zenon DEF ControllerInv, TypeOK, GateInv, WaiterInv

\* Every step of the controller preserves the invariant.
LEMMA ControllerStep == ControllerInv /\ [Next]_vars => ControllerInv'
<1> SUFFICES ASSUME ControllerInv, [Next]_vars PROVE ControllerInv'
    OBVIOUS
<1>1. CASE UNCHANGED vars
    BY <1>1, Zenon DEF vars, flagVars, gateVars, waiterVars, ControllerInv, TypeOK,
       GateInv, WaiterInv, IsPaused
<1> QED BY <1>1, CallerStep, WaiterStep DEF Next

\* What the invariant says of a waiter that blocks ...
LEMMA WakeupFromInv == ControllerInv => NoLostWakeup
    BY DEF ControllerInv, TypeOK, GateInv, WaiterInv, NoLostWakeup

\* ... and of one that was released.
LEMMA ReleaseFromInv == ControllerInv => OneReleasePerPause
    BY DEF ControllerInv, WaiterInv, OneReleasePerPause

\* The invariant of the controller: pause flags, channels and waiters agree.
THEOREM ControllerInvariant == Spec => []ControllerInv
    BY InitialController, ControllerStep, PTL DEF Spec

\* No lost wake-up: a blocked waiter is blocked by the current pause, on the
\* channel that the end of this pause will close.
THEOREM NeverLost == Spec => []NoLostWakeup
    BY WakeupFromInv, ControllerInvariant, PTL

\* Each pause lets a waiter through at most once.
THEOREM AtMostOneRelease == Spec => []OneReleasePerPause
    BY ReleaseFromInv, ControllerInvariant, PTL

-----------------------------------------------------------------------------
(* The bucket *)

\* The clamp of NewLeakyBucket leaves a usable size.
LEMMA SizePositive == Size \in Nat \ {0}
BY BucketAssumption DEF Size, MaxCapacity

\* The ledger is inductive: a token comes from the first filling or from a tick
\* that was not used before, and leaves the bucket once.
THEOREM BucketInvariant == BucketSpec => []BucketInv
<1>1. BucketInit => BucketInv
    <2>1. BucketInit => BucketTypeOK
        <3>1. BucketInit => stopClosed \in BOOLEAN /\ panicked \in BOOLEAN
            BY Zenon DEF BucketInit
        <3>2. BucketInit => tokens \in 0..Size /\ tickPending \in 0..1 /\ ticks \in Nat /\ granted \in Nat
            BY SizePositive DEF BucketInit
        <3>3. BucketInit => /\ rpc \in {"select", "put", "done"}
                      /\ apc \in [Acquirers -> {"idle", "waiting"}]
                      /\ clpc \in [Closers -> {"select", "close", "done"}]
            BY DEF BucketInit
        <3> QED BY <3>1, <3>2, <3>3 DEF BucketTypeOK
    <2>2. BucketInit => Ledger
        BY SizePositive DEF BucketInit, Ledger, Due
    <2>3. BucketInit => CloseInv
        BY Zenon DEF BucketInit, CloseInv
    <2> QED BY <2>1, <2>2, <2>3 DEF BucketInv
<1>2. BucketInv /\ [BucketNext]_limiterVars => BucketInv'
    <2> SUFFICES ASSUME BucketInv, [BucketNext]_limiterVars PROVE BucketInv'
        OBVIOUS
    <2> USE DEF BucketInv
    <2>1. ASSUME UNCHANGED closeVars PROVE CloseInv'
        BY <2>1 DEF CloseInv, closeVars
    <2>2. BucketTypeOK' /\ Ledger'
        <3> USE SizePositive DEF BucketTypeOK, Ledger, Due
        <3>1. CASE Tick
            BY <3>1 DEF Tick, closeVars, callVars
        <3>2. CASE TakeTick
            BY <3>2 DEF TakeTick, closeVars, callVars
        <3>3. CASE PutToken
            BY <3>3 DEF PutToken, closeVars, callVars
        <3>4. CASE StopReplenisher
            BY <3>4 DEF StopReplenisher, closeVars, callVars
        <3>5. ASSUME NEW a \in Acquirers, CallAcquire(a) \/ TakeToken(a)
              PROVE  BucketTypeOK' /\ Ledger'
            BY <3>5 DEF CallAcquire, TakeToken, bucketVars, closeVars
        <3>6. ASSUME NEW a \in Acquirers, AcquireCancelled(a) \/ CancelContext(a)
              PROVE  BucketTypeOK' /\ Ledger'
            BY <3>6 DEF AcquireCancelled, CancelContext, bucketVars, closeVars
        <3>7. ASSUME NEW c \in Closers, CloseSelect(c)
              PROVE  BucketTypeOK' /\ Ledger'
            BY <3>7 DEF CloseSelect, bucketVars, callVars
        <3>8. ASSUME NEW c \in Closers, CloseStop(c)
              PROVE  BucketTypeOK' /\ Ledger'
            BY <3>8 DEF CloseStop, bucketVars, callVars
        <3>9. CASE UNCHANGED limiterVars
            BY <3>9 DEF limiterVars, bucketVars, closeVars, callVars
        <3> QED BY <3>1, <3>2, <3>3, <3>4, <3>5, <3>6, <3>7, <3>8, <3>9
                DEF BucketNext, Replenisher
    <2>3. ASSUME NEW c \in Closers, CloseSelect(c) PROVE CloseInv'
        BY <2>3 DEF CloseSelect, CloseInv, BucketTypeOK
    <2>4. ASSUME NEW c \in Closers, CloseStop(c) PROVE CloseInv'
        BY <2>4 DEF CloseStop, CloseInv, BucketTypeOK
    <2>5. CloseInv'
        <3>1. CASE UNCHANGED closeVars
            BY <3>1, <2>1
        <3>2. UNCHANGED closeVars \/ \E c \in Closers : CloseSelect(c) \/ CloseStop(c)
            BY DEF BucketNext, Replenisher, limiterVars, Tick, TakeTick, PutToken, StopReplenisher,
                   CallAcquire, TakeToken, AcquireCancelled, CancelContext
        <3> QED BY <3>1, <3>2, <2>3, <2>4
    <2> QED BY <2>2, <2>5
<1> QED BY <1>1, <1>2, PTL DEF BucketSpec

\* Acquire never grants more than the burst and one token per tick.
THEOREM RateLimit == BucketSpec => []RateBound
<1>1. BucketInv => RateBound
    BY SizePositive DEF BucketInv, BucketTypeOK, Ledger, Due, RateBound
<1> QED BY <1>1, BucketInvariant, PTL

-----------------------------------------------------------------------------
(* The dispatcher *)

\* A dispatcher whose context ends the wait at the gate leaves nothing behind.
LEMMA LeaveStep ==
    ASSUME ControllerInv, NEW d \in Waiters, LeaveGate(d)
    PROVE  ControllerInv'
<1>1. /\ apiPaused' = apiPaused /\ manualPaused' = manualPaused
      /\ gate' = gate /\ closed' = closed /\ passes' = passes
    BY DEF LeaveGate, flagVars, gateVars
<1>2. /\ wstate' = [wstate EXCEPT ![d] = "idle"] /\ held' = [held EXCEPT ![d] = 0]
    BY DEF LeaveGate
<1>3. /\ wstate \in [Waiters -> {"idle", "waiting", "released"}]
      /\ held \in [Waiters -> Nat] /\ passes \in [Waiters -> Nat]
    BY Zenon DEF ControllerInv, TypeOK
<1>4. /\ wstate' \in [Waiters -> {"idle", "waiting", "released"}]
      /\ held' \in [Waiters -> Nat] /\ passes' \in [Waiters -> Nat]
    BY <1>1, <1>2, <1>3
<1>5. apiPaused' \in BOOLEAN /\ manualPaused' \in BOOLEAN /\ (IsPaused' <=> IsPaused)
    BY <1>1, Zenon DEF ControllerInv, TypeOK, IsPaused
<1>6. TypeOK' /\ GateInv'
    BY <1>1, <1>4, <1>5, Zenon DEF ControllerInv, TypeOK, GateInv
<1>7. WaiterInv'
    <2> SUFFICES ASSUME NEW w \in Waiters
                 PROVE  /\ wstate'[w] = "waiting" => held'[w] \in 1..gate'
                        /\ IsPaused' /\ wstate'[w] = "waiting" /\ held'[w] < gate' => passes'[w] = 0
                        /\ IsPaused' => passes'[w] <= 1
        BY DEF WaiterInv
    <2>1. /\ wstate[w] = "waiting" => held[w] \in 1..gate
          /\ IsPaused /\ wstate[w] = "waiting" /\ held[w] < gate => passes[w] = 0
          /\ IsPaused => passes[w] <= 1
        BY DEF ControllerInv, WaiterInv
    <2>2. w = d => wstate'[w] = "idle"
        BY <1>2, <1>3
    <2>3. w # d => wstate'[w] = wstate[w] /\ held'[w] = held[w]
        BY <1>2, <1>3
    <2> QED BY <1>1, <1>5, <2>1, <2>2, <2>3
<1> QED BY <1>6, <1>7 DEF ControllerInv

\* What a step of the two waits together is for each of them.
LEMMA PacingStep ==
    ASSUME [PacingNext]_pacingVars
    PROVE  /\ [Next]_vars \/ \E d \in Waiters : LeaveGate(d)
           /\ [BucketNext]_limiterVars
<1>1. CASE Callers /\ UNCHANGED <<limiterVars, at>>
    BY <1>1 DEF Next
<1>2. CASE (Tick \/ Replenisher) /\ UNCHANGED <<vars, at>>
    BY <1>2 DEF BucketNext
<1>3. ASSUME NEW d \in Waiters, CancelContext(d) /\ UNCHANGED <<vars, at>>
      PROVE  [Next]_vars /\ [BucketNext]_limiterVars
    BY <1>3, PacingAssumption DEF BucketNext
<1>4. ASSUME NEW d \in Waiters, Acquire(d)
      PROVE  [Next]_vars /\ [BucketNext]_limiterVars
    BY <1>4, PacingAssumption DEF Acquire, BucketNext
<1>5. ASSUME NEW d \in Waiters, PassGate(d)
      PROVE  [Next]_vars /\ [BucketNext]_limiterVars
    BY <1>5 DEF PassGate, Next
<1>6. ASSUME NEW d \in Waiters, LeaveGate(d)
      PROVE  [BucketNext]_limiterVars
    BY <1>6 DEF LeaveGate
<1>7. ASSUME NEW d \in Waiters, Send(d) \/ Return(d)
      PROVE  [Next]_vars /\ [BucketNext]_limiterVars
    BY <1>7 DEF Send, Return
<1>8. CASE CloseBucket
    BY <1>8 DEF CloseBucket, BucketNext
<1>9. CASE UNCHANGED pacingVars
    BY <1>9 DEF pacingVars
<1> QED BY <1>1, <1>2, <1>3, <1>4, <1>5, <1>6, <1>7, <1>8, <1>9 DEF PacingNext, Dispatcher

\* The dispatchers use the bucket as it is specified on its own: whatever order
\* its tokens, the gate, the cancels and the close come in.
THEOREM PacingImplementsBucket == PacingSpec => BucketSpec
<1>1. PacingInit => BucketInit
    BY DEF PacingInit
<1> QED BY <1>1, PacingStep, PTL DEF PacingSpec, BucketSpec

\* The controller's invariant survives dispatchers that leave the gate.
THEOREM PacingInvariant == PacingSpec => []ControllerInv
<1>1. PacingInit => ControllerInv
    BY InitialController DEF PacingInit
<1>2. ControllerInv /\ [PacingNext]_pacingVars => ControllerInv'
    BY PacingStep, ControllerStep, LeaveStep
<1> QED BY <1>1, <1>2, PTL DEF PacingSpec

\* In the dispatchers, too, no wake-up is lost, a pause releases each of them at
\* most once, and the rate limit holds.
THEOREM PacingIsSafe ==
    PacingSpec => []NoLostWakeup /\ []OneReleasePerPause /\ []RateBound
    BY PacingInvariant, WakeupFromInv, ReleaseFromInv, PacingImplementsBucket, RateLimit, PTL
=============================================================================
