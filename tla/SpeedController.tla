--------------------------- MODULE SpeedController ---------------------------
(***************************************************************************)
(* pkg/speedctrl: the pause state and the dispatch gate.                   *)
(*                                                                         *)
(* The gate is a channel.  An open gate is a closed channel; a pause puts  *)
(* a fresh channel in its place, and the end of the pause closes that one. *)
(* A waiter fetches the channel under the lock and receives from it later, *)
(* so it may hold a channel that has been replaced in between.  Channels   *)
(* are numbered in the order of their creation.                            *)
(***************************************************************************)
EXTENDS Integers

CONSTANTS
    Waiters,      \* goroutines that wait at the gate
    APIEnabled,   \* WithAPIEnabled
    MaxGates      \* bound: channels created

ASSUME ControllerAssumption == APIEnabled \in BOOLEAN /\ MaxGates \in Nat

VARIABLES
    apiPaused, manualPaused,
    gate,         \* the current channel
    closed,       \* the closed channels
    wstate,       \* a waiter is "idle", "waiting" or "released"
    held,         \* the channel it fetched; 0 for none
    passes        \* history: its releases during the current pause

flagVars   == <<apiPaused, manualPaused>>
gateVars   == <<gate, closed>>
waiterVars == <<wstate, held, passes>>
vars       == <<flagVars, gateVars, waiterVars>>

\* NewController makes a channel and closes it; WithAPIEnabled(false) clears
\* apiPaused, which is clear already.
Init ==
    /\ apiPaused = FALSE /\ manualPaused = FALSE
    /\ gate = 1 /\ closed = {1}
    /\ wstate = [w \in Waiters |-> "idle"]
    /\ held = [w \in Waiters |-> 0]
    /\ passes = [w \in Waiters |-> 0]

IsPaused == apiPaused \/ manualPaused

\* Mutant: the pause replaces the channel without looking whether it is closed.
RecomputeReplaces(paused) ==
    \/ /\ paused /\ gate < MaxGates
       /\ gate' = gate + 1 /\ passes' = [w \in Waiters |-> 0]
       /\ UNCHANGED closed
    \/ /\ ~paused
       /\ closed' = closed \cup {gate}
       /\ UNCHANGED <<gate, passes>>

\* recomputeLocked: a receive on the gate succeeds iff the channel is closed.
Recompute(paused) ==
    \/ /\ paused /\ gate \in closed /\ gate < MaxGates
       /\ gate' = gate + 1 /\ passes' = [w \in Waiters |-> 0]
       /\ UNCHANGED closed
    \/ /\ paused /\ gate \notin closed
       /\ UNCHANGED <<gate, closed, passes>>
    \/ /\ ~paused
       /\ closed' = closed \cup {gate}
       /\ UNCHANGED <<gate, passes>>

\* Mutant: the API call alone decides on the gate.
APIDecides(v) ==
    /\ apiPaused' = v /\ Recompute(v)
    /\ UNCHANGED <<manualPaused, wstate, held>>

SetAPIPaused(v) ==
    /\ apiPaused' = v /\ Recompute(v \/ manualPaused)
    /\ UNCHANGED <<manualPaused, wstate, held>>

SetManualPaused(v) ==
    /\ manualPaused' = v /\ Recompute(apiPaused \/ v)
    /\ UNCHANGED <<apiPaused, wstate, held>>

ToggleManualPaused == SetManualPaused(~manualPaused)

\* ctrl.Gate(): the channel of this moment.
FetchGate(w) ==
    /\ wstate[w] # "waiting"
    /\ wstate' = [wstate EXCEPT ![w] = "waiting"]
    /\ held' = [held EXCEPT ![w] = gate]
    /\ UNCHANGED <<flagVars, gateVars, passes>>

\* Mutant: a waiter that finds its channel replaced goes on waiting.
ReceiveCurrentOnly(w) ==
    /\ wstate[w] = "waiting" /\ held[w] \in closed /\ held[w] = gate
    /\ wstate' = [wstate EXCEPT ![w] = "released"]
    /\ held' = [held EXCEPT ![w] = 0]
    /\ passes' = [passes EXCEPT ![w] = IF IsPaused THEN @ + 1 ELSE @]
    /\ UNCHANGED <<flagVars, gateVars>>

\* The receive on the fetched channel succeeds once that channel is closed.
ReceiveGate(w) ==
    /\ wstate[w] = "waiting" /\ held[w] \in closed
    /\ wstate' = [wstate EXCEPT ![w] = "released"]
    /\ held' = [held EXCEPT ![w] = 0]
    /\ passes' = [passes EXCEPT ![w] = IF IsPaused THEN @ + 1 ELSE @]
    /\ UNCHANGED <<flagVars, gateVars>>

Callers ==
    \/ \E v \in BOOLEAN : SetAPIPaused(v) \/ SetManualPaused(v)
    \/ ToggleManualPaused

Next == Callers \/ \E w \in Waiters : FetchGate(w) \/ ReceiveGate(w)

Spec == Init /\ [][Next]_vars

-----------------------------------------------------------------------------
(* What the controller promises *)

\* The shape of the state.
TypeOK ==
    /\ apiPaused \in BOOLEAN /\ manualPaused \in BOOLEAN
    /\ gate \in Nat \ {0} /\ closed \subseteq Nat
    /\ wstate \in [Waiters -> {"idle", "waiting", "released"}]
    /\ held \in [Waiters -> Nat] /\ passes \in [Waiters -> Nat]

\* No lost wake-up: a waiter that blocks is blocked by the current pause, on
\* the very channel that the end of this pause closes, however many pauses and
\* resumes (SetAPIPaused, SetManualPaused, ToggleManualPaused) it slept through.
NoLostWakeup ==
    \A w \in Waiters :
        wstate[w] = "waiting" /\ held[w] \notin closed => held[w] = gate /\ IsPaused

\* A pause lets every waiter through at most once: the channel it fetched
\* before the pause.  One more task per dispatcher, never two.
OneReleasePerPause == IsPaused => \A w \in Waiters : passes[w] <= 1

\* Once both pauses are over for good, nobody stays at the gate.
ResumeReleases ==
    \A w \in Waiters : (<>[]~IsPaused) => []<>(wstate[w] # "waiting")

\* The pause state and the channel agree: every replaced channel is closed, and
\* the current one is closed exactly while nothing pauses.
GateInv ==
    /\ 1..(gate - 1) \subseteq closed /\ closed \subseteq 1..gate
    /\ gate \in closed <=> ~IsPaused

\* Whoever waits holds a channel that exists; a release during a pause was
\* fetched before it.
WaiterInv ==
    \A w \in Waiters :
        /\ wstate[w] = "waiting" => held[w] \in 1..gate
        /\ IsPaused /\ wstate[w] = "waiting" /\ held[w] < gate => passes[w] = 0
        /\ IsPaused => passes[w] <= 1

\* The pause flags, the channels and the waiters fit together (recomputeLocked
\* keeps them so): the inductive invariant behind the two promises.
ControllerInv == TypeOK /\ GateInv /\ WaiterInv
=============================================================================
