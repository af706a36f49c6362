----------------------------- MODULE PressureView -----------------------------
(***************************************************************************)
(* What the poller makes of the samples of PressureSource: the failures it *)
(* counts, and what the dashboard shows of the pressure and the health of  *)
(* every source.                                                           *)
(***************************************************************************)
EXTENDS PressureSource

CONSTANT Percent      \* one percent, in the unit of the endpoints' values

ASSUME PercentAssumption == Percent \in Nat \ {0}

VARIABLES
    ctxDone,          \* runCtx is cancelled
    failures,         \* pollPressureAPI: consecutiveFailures
    sources,          \* dashboardState: per source, the value shown and the failures in a row
    shown             \* dashboardState: the maximum, and the streak of the health text

viewVars == <<ctxDone, failures, sources, shown>>
vars == <<pressureVars, viewVars>>

Init ==
    /\ PressureInit /\ ctxDone = FALSE /\ failures = 0
    /\ sources = [s \in 1..NSources |-> [has |-> FALSE, value |-> 0, streak |-> 0]]
    /\ shown = [maximum |-> 0, streak |-> 0]

\* int(): towards zero.
Truncated(v) == IF v >= 0 THEN v \div Percent ELSE -((-v) \div Percent)

\* Mutant: a failed sample leaves the streaks of its sources.
SourcesOnSuccess ==
    IF sample.failed # 0 THEN sources
    ELSE [s \in 1..NSources |->
            IF kind = "simple" THEN sources[s]
            ELSE [has |-> TRUE, value |-> Truncated(Largest(Values(reply[s]))), streak |-> 0]]

\* OnPressurePoll, the sources: a failure keeps the value that was shown last.
\* The simple kind reports no sources.
PolledSources ==
    [s \in 1..NSources |->
        IF kind = "simple" THEN sources[s]
        ELSE IF BodyFails(reply[s]) THEN [sources[s] EXCEPT !.streak = @ + 1]
        ELSE [has |-> TRUE, value |-> Truncated(Largest(Values(reply[s]))), streak |-> 0]]

\* ... and the whole.
PolledHealth ==
    IF sample.failed # 0
    THEN [shown EXCEPT !.streak = failures + 1]
    ELSE [maximum |-> Truncated(sample.maximum), streak |-> 0]

Poll == ~ctxDone /\ BeginSample /\ UNCHANGED viewVars

Sampled == Sampling /\ UNCHANGED viewVars

\* A sample that returns after the cancel is dropped; the third failure in a
\* row is the poller's last.
UseSample ==
    /\ round = "sampled" /\ ~ctxDone
    /\ sources' = PolledSources /\ shown' = PolledHealth
    /\ failures' = IF sample.failed # 0 THEN failures + 1 ELSE 0
    /\ round' = IF failures' > 2 THEN "gone" ELSE "wait"
    /\ Forget /\ UNCHANGED ctxDone

PollerLeaves ==
    /\ ctxDone /\ round \in {"wait", "sampled"} /\ round' = "gone"
    /\ Forget /\ UNCHANGED viewVars

Cancel ==
    /\ ~ctxDone /\ ctxDone' = TRUE
    /\ UNCHANGED <<pressureVars, failures, sources, shown>>

TimePasses == Tick /\ UNCHANGED viewVars

Next == Poll \/ Sampled \/ UseSample \/ PollerLeaves \/ Cancel \/ TimePasses

Spec == Init /\ [][Next]_vars

-----------------------------------------------------------------------------

\* When the health of the pressure reads "ok" after a poll, the maximum that is
\* shown is the highest of the pressures shown beside it, each rounded on its
\* own; when it reads "fail streak n", some source shows a streak, and none a
\* longer one, so that no source is ever shown failing for longer than the
\* three polls that stop the scan (OnPressurePoll, pollPressureAPI).
ShownIsTruth ==
    kind = "authenticated" =>
        /\ shown.streak = failures
        /\ \A s \in Active : sources[s].streak <= failures
        /\ failures > 0 => \E s \in Active : sources[s].streak > 0
        /\ failures = 0 /\ (\E s \in Active : sources[s].has) =>
              /\ \A s \in Active : sources[s].has
              /\ shown.maximum = Max({sources[s].value : s \in Active})

\* The shape of what is shown, and the truth of it.
ShownInv ==
    /\ failures \in Nat /\ DOMAIN sources = 1..NSources
    /\ \A s \in 1..NSources :
          DOMAIN sources[s] = {"has", "value", "streak"} /\ sources[s].streak \in Nat
    /\ DOMAIN shown = {"maximum", "streak"}
    /\ ShownIsTruth
=============================================================================
