---------------------------- MODULE PrePingProofs ----------------------------
(***************************************************************************)
(* The list that pre-ping publishes is complete and true, for any number   *)
(* of addresses and workers.                                               *)
(***************************************************************************)
EXTENDS PrePing, TLAPS

Result == [note : Notes, ip : IPs]

\* A send appends one result and leaves the others where they are.
LEMMA SendFacts ==
    ASSUME NEW w \in Pool, PrePingInv, Send(w), wpc[w] \in {"report", "fail"}
    PROVE  /\ results' \in Seq(Result) /\ Len(results') = Len(results) + 1
           /\ \A k \in 1..Len(results) : results'[k] = results[k]
           /\ results'[Len(results) + 1] = [note |-> wnote[w], ip |-> wip[w]]
<1>1. results \in Seq(Result)
    BY DEF PrePingInv, TypeOK, StateType, Result
<1>2. [note |-> wnote[w], ip |-> wip[w]] \in Result
    <2>1. wip[w] \in 1..(next - 1) /\ next \in 1..(NumIPs + 1)
        BY DEF PrePingInv, NoteInv, Holding, TypeOK, StateType
    <2>2. wip[w] \in IPs
        BY <2>1, PrePingAssumption DEF IPs
    <2>3. wnote[w] \in Notes
        BY DEF PrePingInv, TypeOK, StateType
    <2> QED BY <2>2, <2>3 DEF Result
<1> QED BY <1>1, <1>2 DEF Send

\* A receive takes the first result and moves the others up.
LEMMA CollectFacts ==
    ASSUME PrePingInv, Collect
    PROVE  /\ results' \in Seq(Result) /\ Len(results') = Len(results) - 1
           /\ Len(results) \in Nat \ {0}
           /\ \A k \in 1..Len(results') : results'[k] = results[k + 1]
           /\ Head(results) = results[1] /\ results[1] \in Result
           /\ results[1].note \in {"noreply", "canceled", "fatal"}
<1>1. results \in Seq(Result) /\ results # <<>> /\ results' = Tail(results)
    BY DEF PrePingInv, TypeOK, StateType, Result, Collect
<1>2. Len(results) \in Nat \ {0} /\ Head(results) = results[1] /\ results[1] \in Result
    BY <1>1
<1>3. results[1].note \in {"noreply", "canceled", "fatal"}
    BY <1>2 DEF PrePingInv, CancelInv
<1> QED BY <1>1, <1>2, <1>3

\* The flags stay Boolean.
LEMMA FlagStep ==
    ASSUME PrePingInv, [Next]_vars PROVE FlagType'
<1>1. ASSUME \/ Start \/ Interrupt \/ Kill \/ FeedEnd \/ CloseResults \/ Collect
              \/ CollectEnd \/ CheckListed \/ CreateOutput \/ WriteRows \/ RenameOutput
              \/ PrintPath \/ UNCHANGED vars
              \/ \E w \in Pool :
                    \/ Handoff(w) \/ WorkerLeave(w) \/ Ping(w) \/ CheckContext(w) \/ Classify(w)
                    \/ Checked(w) \/ Report(w) \/ Fail(w) \/ CancelPool(w)
      PROVE  FlagType'
    <2> USE PrePingAssumption DEF
            PrePingInv, TypeOK, FlagType, StateType, Notes, Stages, IPs, poolVars,
            collectVars, outputVars, history
    <2>1. CASE Start
        BY <2>1 DEF Start, Return
    <2>2. CASE Interrupt
        BY <2>2 DEF Interrupt
    <2>3. CASE Kill
        BY <2>3 DEF Kill
    <2>4. CASE FeedEnd
        BY <2>4 DEF FeedEnd, PoolUnchanged
    <2>5. CASE CloseResults
        BY <2>5 DEF CloseResults, PoolUnchanged
    <2>6. CASE Collect
        BY <2>6 DEF Collect
    <2>7. CASE CollectEnd
        BY <2>7 DEF CollectEnd, Return
    <2>8. CASE CheckListed
        BY <2>8 DEF CheckListed, Return
    <2>9. CASE CreateOutput
        BY <2>9 DEF CreateOutput, Return
    <2>10. CASE WriteRows
        BY <2>10 DEF WriteRows, Return
    <2>11. CASE RenameOutput
        BY <2>11 DEF RenameOutput, Return
    <2>12. CASE PrintPath
        BY <2>12 DEF PrintPath, Return
    <2>13. ASSUME NEW w \in Pool, Handoff(w) PROVE FlagType'
        BY <2>13 DEF Handoff, PoolUnchanged
    <2>14. ASSUME NEW w \in Pool, WorkerLeave(w) PROVE FlagType'
        BY <2>14 DEF WorkerLeave, WorkerGoto, PoolUnchanged
    <2>15. ASSUME NEW w \in Pool, Ping(w) PROVE FlagType'
        BY <2>15 DEF Ping, WorkerGoto, PoolUnchanged
    <2>16. ASSUME NEW w \in Pool, CheckContext(w) PROVE FlagType'
        BY <2>16 DEF CheckContext, WorkerGoto, PoolUnchanged
    <2>17. ASSUME NEW w \in Pool, Classify(w) PROVE FlagType'
        BY <2>17 DEF Classify, WorkerGoto, PoolUnchanged
    <2>18. ASSUME NEW w \in Pool, Checked(w) PROVE FlagType'
        BY <2>18 DEF Checked, WorkerGoto, PoolUnchanged
    <2>19. ASSUME NEW w \in Pool, Report(w) PROVE FlagType'
        BY <2>19 DEF Report, WorkerGoto, PoolUnchanged
    <2>20. ASSUME NEW w \in Pool, Fail(w) PROVE FlagType'
        BY <2>20 DEF Fail, WorkerGoto, PoolUnchanged
    <2>21. ASSUME NEW w \in Pool, CancelPool(w) PROVE FlagType'
        BY <2>21 DEF CancelPool, WorkerGoto, PoolUnchanged
    <2>22. CASE UNCHANGED vars
        BY <2>22 DEF vars
    <2> QED BY <1>1,
            <2>1, <2>2, <2>3, <2>4, <2>5, <2>6, <2>7, <2>8, <2>9, <2>10, <2>11, <2>12,
            <2>13, <2>14, <2>15, <2>16, <2>17, <2>18, <2>19, <2>20, <2>21, <2>22
<1> QED
    BY <1>1 DEF Next, Main, Worker, Ended

\* The shape of the state is kept.
LEMMA StateStep ==
    ASSUME PrePingInv, [Next]_vars PROVE StateType'
<1>1. ASSUME \/ Start \/ Interrupt \/ Kill \/ FeedEnd \/ CloseResults \/ CollectEnd
              \/ CheckListed \/ CreateOutput \/ WriteRows \/ PrintPath \/ UNCHANGED vars
              \/ \E w \in Pool :
                    \/ Handoff(w) \/ WorkerLeave(w) \/ CheckContext(w) \/ Classify(w) \/ Checked(w)
                    \/ CancelPool(w)
      PROVE  StateType'
    <2> USE PrePingAssumption DEF
            PrePingInv, TypeOK, FlagType, StateType, Notes, Stages, IPs, poolVars,
            collectVars, outputVars, history
    <2>1. CASE Start
        BY <2>1 DEF Start, Return
    <2>2. CASE Interrupt
        BY <2>2 DEF Interrupt
    <2>3. CASE Kill
        BY <2>3 DEF Kill
    <2>4. CASE FeedEnd
        BY <2>4 DEF FeedEnd, PoolUnchanged
    <2>5. CASE CloseResults
        BY <2>5 DEF CloseResults, PoolUnchanged
    <2>6. CASE CollectEnd
        BY <2>6 DEF CollectEnd, Return
    <2>7. CASE CheckListed
        BY <2>7 DEF CheckListed, Return
    <2>8. CASE CreateOutput
        BY <2>8 DEF CreateOutput, Return
    <2>9. CASE WriteRows
        BY <2>9 DEF WriteRows, Return
    <2>10. CASE PrintPath
        BY <2>10 DEF PrintPath, Return
    <2>11. ASSUME NEW w \in Pool, Handoff(w) PROVE StateType'
        BY <2>11 DEF Handoff, PoolUnchanged
    <2>12. ASSUME NEW w \in Pool, WorkerLeave(w) PROVE StateType'
        BY <2>12 DEF WorkerLeave, WorkerGoto, PoolUnchanged
    <2>13. ASSUME NEW w \in Pool, CheckContext(w) PROVE StateType'
        BY <2>13 DEF CheckContext, WorkerGoto, PoolUnchanged
    <2>14. ASSUME NEW w \in Pool, Classify(w) PROVE StateType'
        BY <2>14 DEF Classify, WorkerGoto, PoolUnchanged
    <2>15. ASSUME NEW w \in Pool, Checked(w) PROVE StateType'
        BY <2>15 DEF Checked, WorkerGoto, PoolUnchanged
    <2>16. ASSUME NEW w \in Pool, CancelPool(w) PROVE StateType'
        BY <2>16 DEF CancelPool, WorkerGoto, PoolUnchanged
    <2>17. CASE UNCHANGED vars
        BY <2>17 DEF vars
    <2> QED BY <1>1,
            <2>1, <2>2, <2>3, <2>4, <2>5, <2>6, <2>7, <2>8, <2>9, <2>10, <2>11, <2>12,
            <2>13, <2>14, <2>15, <2>16, <2>17
<1>2. CASE Collect
    <2>1. fatalErr' \in {"nil", "fatal", "canceled"}
        BY <1>2, CollectFacts DEF Collect, PrePingInv, TypeOK, StateType
    <2>2. unreachable' \subseteq IPs
        BY <1>2, CollectFacts DEF Collect, Result, PrePingInv, TypeOK, StateType
    <2>3. results' \in Seq([note : Notes, ip : IPs])
        BY <1>2, CollectFacts DEF Result
    <2> QED BY <1>2, <2>1, <2>2, <2>3
        DEF Collect, poolVars, collectVars, outputVars, history, PrePingInv, TypeOK,
            StateType
<1>3. CASE RenameOutput
    <2>1. /\ published' = unreachable \/ published' = published
          /\ unreachable \subseteq IPs /\ published \subseteq 0..NumIPs
        BY <1>3
        DEF RenameOutput, Return, poolVars, collectVars, outputVars, history,
            PrePingInv, TypeOK, StateType
    <2>2. IPs \subseteq 0..NumIPs
        BY PrePingAssumption DEF IPs
    <2>3. published' \subseteq 0..NumIPs
        BY <2>1, <2>2
    <2> QED BY <1>3, <2>3
        DEF RenameOutput, Return, poolVars, collectVars, outputVars, history,
            PrePingInv, TypeOK, StateType
<1>4. ASSUME NEW w \in Pool, Ping(w) PROVE StateType'
    <2>1. PICK a \in {"reply", "noreply", "broken", "cut"} :
              /\ wpc' = [wpc EXCEPT ![w] = IF a = "reply" THEN "checked" ELSE "ctxcheck"]
              /\ answer' = [answer EXCEPT ![wip[w]] = a] /\ wnote' = [wnote EXCEPT ![w] = a]
        BY <1>4 DEF Ping, WorkerGoto
    <2>2. wpc' \in [Pool -> Stages] /\ wnote' \in [Pool -> Notes] /\ answer' \in [IPs -> Notes]
        BY <2>1 DEF Stages, Notes, PrePingInv, TypeOK, StateType
    <2> QED BY <1>4, <2>2
        DEF Ping, WorkerGoto, PoolUnchanged, poolVars, collectVars, outputVars,
            history, PrePingInv, TypeOK, StateType
<1>5. ASSUME NEW w \in Pool, Report(w) PROVE StateType'
    <2>1. results' \in Seq([note : Notes, ip : IPs])
        BY <1>5, SendFacts
        DEF Report, WorkerGoto, PoolUnchanged, poolVars, collectVars, outputVars,
            history, Result, PrePingInv, TypeOK, StateType
    <2> QED BY <1>5, <2>1
        DEF Report, WorkerGoto, PoolUnchanged, poolVars, collectVars, outputVars,
            history, Stages, PrePingInv, TypeOK, StateType
<1>6. ASSUME NEW w \in Pool, Fail(w) PROVE StateType'
    <2>1. results' \in Seq([note : Notes, ip : IPs])
        BY <1>6, SendFacts
        DEF Fail, WorkerGoto, PoolUnchanged, poolVars, collectVars, outputVars,
            history, Result, PrePingInv, TypeOK, StateType
    <2> QED BY <1>6, <2>1
        DEF Fail, WorkerGoto, PoolUnchanged, poolVars, collectVars, outputVars,
            history, Stages, PrePingInv, TypeOK, StateType
<1> QED
    BY <1>1, <1>2, <1>3, <1>4, <1>5, <1>6 DEF Next, Main, Worker, Ended

\* A worker's note stays true of its ping.
LEMMA NoteStep ==
    ASSUME PrePingInv, [Next]_vars PROVE NoteInv'
<1>1. ASSUME \/ Start \/ Interrupt \/ Kill \/ FeedEnd \/ CloseResults \/ Collect
              \/ CollectEnd \/ CheckListed \/ CreateOutput \/ WriteRows \/ RenameOutput
              \/ PrintPath \/ UNCHANGED vars
              \/ \E w \in Pool :
                    \/ Handoff(w) \/ WorkerLeave(w) \/ CheckContext(w) \/ Classify(w) \/ Checked(w)
                    \/ Report(w) \/ Fail(w) \/ CancelPool(w)
      PROVE  NoteInv'
    <2> USE PrePingAssumption DEF
            PrePingInv, TypeOK, FlagType, StateType, Notes, Stages, IPs, NoteInv,
            Holding, RunDone, poolVars, collectVars, outputVars, history
    <2>1. CASE Start
        BY <2>1 DEF Start, Return
    <2>2. CASE Interrupt
        BY <2>2 DEF Interrupt
    <2>3. CASE Kill
        BY <2>3 DEF Kill
    <2>4. CASE FeedEnd
        BY <2>4 DEF FeedEnd, PoolUnchanged
    <2>5. CASE CloseResults
        BY <2>5 DEF CloseResults, PoolUnchanged
    <2>6. CASE Collect
        BY <2>6 DEF Collect
    <2>7. CASE CollectEnd
        BY <2>7 DEF CollectEnd, Return
    <2>8. CASE CheckListed
        BY <2>8 DEF CheckListed, Return
    <2>9. CASE CreateOutput
        BY <2>9 DEF CreateOutput, Return
    <2>10. CASE WriteRows
        BY <2>10 DEF WriteRows, Return
    <2>11. CASE RenameOutput
        BY <2>11 DEF RenameOutput, Return
    <2>12. CASE PrintPath
        BY <2>12 DEF PrintPath, Return
    <2>13. ASSUME NEW w \in Pool, Handoff(w) PROVE NoteInv'
        BY <2>13 DEF Handoff, PoolUnchanged
    <2>14. ASSUME NEW w \in Pool, WorkerLeave(w) PROVE NoteInv'
        BY <2>14 DEF WorkerLeave, WorkerGoto, PoolUnchanged
    <2>15. ASSUME NEW w \in Pool, CheckContext(w) PROVE NoteInv'
        BY <2>15 DEF CheckContext, WorkerGoto, PoolUnchanged
    <2>16. ASSUME NEW w \in Pool, Classify(w) PROVE NoteInv'
        BY <2>16 DEF Classify, WorkerGoto, PoolUnchanged
    <2>17. ASSUME NEW w \in Pool, Checked(w) PROVE NoteInv'
        BY <2>17 DEF Checked, WorkerGoto, PoolUnchanged
    <2>18. ASSUME NEW w \in Pool, Report(w) PROVE NoteInv'
        BY <2>18 DEF Report, WorkerGoto, PoolUnchanged
    <2>19. ASSUME NEW w \in Pool, Fail(w) PROVE NoteInv'
        BY <2>19 DEF Fail, WorkerGoto, PoolUnchanged
    <2>20. ASSUME NEW w \in Pool, CancelPool(w) PROVE NoteInv'
        BY <2>20 DEF CancelPool, WorkerGoto, PoolUnchanged
    <2>21. CASE UNCHANGED vars
        BY <2>21 DEF vars
    <2> QED BY <1>1,
            <2>1, <2>2, <2>3, <2>4, <2>5, <2>6, <2>7, <2>8, <2>9, <2>10, <2>11, <2>12,
            <2>13, <2>14, <2>15, <2>16, <2>17, <2>18, <2>19, <2>20, <2>21
<1>2. ASSUME NEW w \in Pool, Ping(w) PROVE NoteInv'
    <2>1. /\ wip[w] \in IPs /\ wpc[w] = "ping" /\ wip' = wip /\ next' = next /\ (RunDone <=> RunDone')
          /\ \A v \in Pool : v # w => wpc'[v] = wpc[v] /\ wnote'[v] = wnote[v]
          /\ wpc'[w] = IF wnote'[w] = "reply" THEN "checked" ELSE "ctxcheck"
          /\ wnote'[w] \in {"reply", "noreply", "broken", "cut"} /\ (wnote'[w] = "cut" => RunDone)
          /\ answer'[wip[w]] = wnote'[w]
          /\ \A i \in IPs : i # wip[w] => answer'[i] = answer[i]
        BY <1>2, PrePingAssumption
        DEF Ping, WorkerGoto, PoolUnchanged, poolVars, collectVars, outputVars,
            history, RunDone, NoteInv, Holding, IPs, PrePingInv, TypeOK, StateType
    <2>2. \A v \in Pool : v # w /\ wpc[v] \in Holding => wip[v] \in IPs /\ wip[v] # wip[w]
        BY <2>1, PrePingAssumption
        DEF OnceInv, NoteInv, Holding, IPs, PrePingInv, TypeOK, StateType
    <2> QED BY <2>1, <2>2 DEF NoteInv, Holding, PrePingInv
<1> QED
    BY <1>1, <1>2 DEF Next, Main, Worker, Ended

\* Nobody but the operator cancels before a failure is known.
LEMMA CancelStep ==
    ASSUME PrePingInv, [Next]_vars PROVE CancelInv'
<1>1. ASSUME \/ Start \/ Interrupt \/ Kill \/ FeedEnd \/ CloseResults \/ CollectEnd
              \/ CheckListed \/ CreateOutput \/ WriteRows \/ RenameOutput \/ PrintPath
              \/ UNCHANGED vars
              \/ \E w \in Pool :
                    \/ Handoff(w) \/ WorkerLeave(w) \/ Ping(w) \/ CheckContext(w) \/ Classify(w)
                    \/ Checked(w) \/ CancelPool(w)
      PROVE  CancelInv'
    <2> USE PrePingAssumption DEF
            PrePingInv, TypeOK, FlagType, StateType, Notes, Stages, IPs, CancelInv,
            FailureKnown, RunDone, poolVars, collectVars, outputVars, history
    <2>1. CASE Start
        BY <2>1 DEF Start, Return
    <2>2. CASE Interrupt
        BY <2>2 DEF Interrupt
    <2>3. CASE Kill
        BY <2>3 DEF Kill
    <2>4. CASE FeedEnd
        BY <2>4 DEF FeedEnd, PoolUnchanged
    <2>5. CASE CloseResults
        BY <2>5 DEF CloseResults, PoolUnchanged
    <2>6. CASE CollectEnd
        BY <2>6 DEF CollectEnd, Return
    <2>7. CASE CheckListed
        BY <2>7 DEF CheckListed, Return
    <2>8. CASE CreateOutput
        BY <2>8 DEF CreateOutput, Return
    <2>9. CASE WriteRows
        BY <2>9 DEF WriteRows, Return
    <2>10. CASE RenameOutput
        BY <2>10 DEF RenameOutput, Return
    <2>11. CASE PrintPath
        BY <2>11 DEF PrintPath, Return
    <2>12. ASSUME NEW w \in Pool, Handoff(w) PROVE CancelInv'
        BY <2>12 DEF Handoff, PoolUnchanged
    <2>13. ASSUME NEW w \in Pool, WorkerLeave(w) PROVE CancelInv'
        BY <2>13 DEF WorkerLeave, WorkerGoto, PoolUnchanged
    <2>14. ASSUME NEW w \in Pool, Ping(w) PROVE CancelInv'
        BY <2>14 DEF Ping, WorkerGoto, PoolUnchanged
    <2>15. ASSUME NEW w \in Pool, CheckContext(w) PROVE CancelInv'
        BY <2>15 DEF CheckContext, WorkerGoto, PoolUnchanged
    <2>16. ASSUME NEW w \in Pool, Classify(w) PROVE CancelInv'
        BY <2>16 DEF Classify, WorkerGoto, PoolUnchanged
    <2>17. ASSUME NEW w \in Pool, Checked(w) PROVE CancelInv'
        BY <2>17 DEF Checked, WorkerGoto, PoolUnchanged
    <2>18. ASSUME NEW w \in Pool, CancelPool(w) PROVE CancelInv'
        BY <2>18 DEF CancelPool, WorkerGoto, PoolUnchanged
    <2>19. CASE UNCHANGED vars
        BY <2>19 DEF vars
    <2> QED BY <1>1,
            <2>1, <2>2, <2>3, <2>4, <2>5, <2>6, <2>7, <2>8, <2>9, <2>10, <2>11, <2>12,
            <2>13, <2>14, <2>15, <2>16, <2>17, <2>18, <2>19
<1>2. CASE Collect
    <2>1. /\ parentDone' = parentDone /\ poolCancelled' = poolCancelled /\ wpc' = wpc
          /\ CancelInv /\ fatalErr \in {"nil", "fatal", "canceled"}
        BY <1>2 DEF Collect, PrePingInv, TypeOK, StateType
    <2>2. /\ Len(results') = Len(results) - 1 /\ Len(results) \in Nat \ {0}
          /\ \A k \in 1..Len(results') : results'[k] = results[k + 1]
          /\ results[1].note \in {"noreply", "canceled", "fatal"}
        BY <1>2, CollectFacts
    <2>3. fatalErr' = IF fatalErr = "nil" /\ results[1].note # "noreply" THEN results[1].note ELSE fatalErr
        BY <1>2, CollectFacts DEF Collect
    <2>4. \A k \in 1..Len(results') : results'[k].note \in {"noreply", "canceled", "fatal"}
        BY <2>1, <2>2 DEF CancelInv
    <2>5. CASE parentDone
        BY <2>1, <2>2, <2>3, <2>4, <2>5 DEF CancelInv
    <2>6. CASE ~parentDone /\ fatalErr = "fatal"
        BY <2>1, <2>2, <2>3, <2>4, <2>6 DEF CancelInv, FailureKnown
    <2>7. CASE ~parentDone /\ fatalErr = "nil"
        <3>1. results[1].note # "canceled"
            BY <2>1, <2>2, <2>7 DEF CancelInv
        <3>2. CASE results[1].note = "fatal"
            BY <2>1, <2>2, <2>3, <2>4, <2>7, <3>2 DEF CancelInv, FailureKnown
        <3>3. CASE results[1].note = "noreply"
            <4>1. fatalErr' = "nil"
                BY <2>3, <2>7, <3>3
            <4>2. ASSUME NEW k \in 1..Len(results), results[k].note = "fatal"
                  PROVE  k - 1 \in 1..Len(results') /\ results'[k - 1] = results[k]
                <5>1. k # 1
                    BY <3>3, <4>2
                <5> QED BY <5>1, <2>2
            <4>3. FailureKnown => FailureKnown'
                <5>1. ASSUME FailureKnown
                      PROVE  \E k \in 1..Len(results') : results'[k].note = "fatal"
                    <6>1. PICK k \in 1..Len(results) : results[k].note = "fatal"
                        BY <5>1, <2>7 DEF FailureKnown
                    <6> QED BY <6>1, <4>2
                <5> QED BY <5>1 DEF FailureKnown
            <4>4. ASSUME NEW k \in 1..Len(results'), results'[k].note = "canceled"
                  PROVE  \E j \in 1..(k - 1) : results'[j].note = "fatal"
                <5>1. k + 1 \in 1..Len(results) /\ results[k + 1].note = "canceled"
                    BY <2>2, <4>4
                <5>2. PICK j \in 1..k : results[j].note = "fatal"
                    BY <5>1, <2>1, <2>7 DEF CancelInv
                <5>3. j \in 1..Len(results) /\ j # 1
                    BY <5>1, <5>2, <3>3
                <5>4. j - 1 \in 1..(k - 1) /\ results'[j - 1] = results[j]
                    BY <5>2, <5>3, <4>2
                <5> QED BY <5>2, <5>4
            <4> QED BY <2>1, <2>4, <2>7, <4>1, <4>3, <4>4 DEF CancelInv
        <3> QED BY <3>1, <3>2, <3>3, <2>2
    <2> QED BY <2>1, <2>5, <2>6, <2>7 DEF CancelInv
<1>3. ASSUME NEW w \in Pool, Report(w) PROVE CancelInv'
    <2>1. /\ parentDone' = parentDone /\ poolCancelled' = poolCancelled /\ fatalErr' = fatalErr
          /\ \A v \in Pool : v # w => wpc'[v] = wpc[v]
          /\ CancelInv /\ NoteInv
        BY <1>3
        DEF Report, WorkerGoto, PoolUnchanged, poolVars, collectVars, outputVars,
            history, PrePingInv, TypeOK, StateType
    <2>2. wnote[w] = "noreply" /\ wpc'[w] # "cancel"
        BY <1>3, <2>1
        DEF Report, WorkerGoto, PoolUnchanged, poolVars, collectVars, outputVars,
            history, NoteInv, PrePingInv, TypeOK, StateType
    <2>3. wnote[w] = "canceled" => parentDone \/ FailureKnown
        BY <2>2
    <2>4. CASE UNCHANGED results
        BY <2>1, <2>2, <2>3, <2>4 DEF CancelInv, FailureKnown, RunDone
    <2>5. CASE Send(w)
        <3>1. wpc[w] \in {"report", "fail"}
            BY <1>3
            DEF Report, WorkerGoto, PoolUnchanged, poolVars, collectVars, outputVars,
                history
        <3>2. /\ Len(results') = Len(results) + 1 /\ Len(results) \in Nat
              /\ \A k \in 1..Len(results) : results'[k] = results[k]
              /\ results'[Len(results) + 1].note = wnote[w]
            <4>1. Len(results) \in Nat
                BY DEF PrePingInv, TypeOK, StateType
            <4>2. /\ Len(results') = Len(results) + 1
                  /\ \A k \in 1..Len(results) : results'[k] = results[k]
                  /\ results'[Len(results) + 1] = [note |-> wnote[w], ip |-> wip[w]]
                BY <2>5, <3>1, SendFacts
            <4> QED BY <4>1, <4>2
        <3>3. FailureKnown => FailureKnown'
            BY <2>1, <3>2 DEF FailureKnown
        <3>4. wnote[w] = "fatal" => FailureKnown'
            BY <3>2 DEF FailureKnown
        <3>5. \A k \in 1..Len(results') : results'[k].note \in {"noreply", "canceled", "fatal"}
            BY <2>1, <2>2, <3>2 DEF CancelInv
        <3>6. ASSUME ~parentDone, fatalErr # "fatal",
                     NEW k \in 1..Len(results'), results'[k].note = "canceled"
              PROVE  \E j \in 1..(k - 1) : results'[j].note = "fatal"
            <4>1. CASE k \in 1..Len(results)
                <5>1. PICK j \in 1..(k - 1) : results[j].note = "fatal"
                    BY <4>1, <3>2, <3>6, <2>1 DEF CancelInv
                <5> QED BY <5>1, <4>1, <3>2
            <4>2. CASE k = Len(results) + 1
                <5>1. PICK j \in 1..Len(results) : results[j].note = "fatal"
                    BY <4>2, <3>2, <3>6, <2>1, <2>2, <2>3 DEF FailureKnown
                <5> QED BY <5>1, <4>2, <3>2
            <4> QED BY <4>1, <4>2, <3>2
        <3> QED BY <2>1, <2>2, <2>3, <3>3, <3>4, <3>5, <3>6 DEF CancelInv
    <2> QED BY <1>3, <2>4, <2>5
        DEF Report, WorkerGoto, PoolUnchanged, poolVars, collectVars, outputVars,
            history
<1>4. ASSUME NEW w \in Pool, Fail(w) PROVE CancelInv'
    <2>1. /\ parentDone' = parentDone /\ poolCancelled' = poolCancelled /\ fatalErr' = fatalErr
          /\ \A v \in Pool : v # w => wpc'[v] = wpc[v]
          /\ CancelInv /\ NoteInv
        BY <1>4
        DEF Fail, WorkerGoto, PoolUnchanged, poolVars, collectVars, outputVars,
            history, PrePingInv, TypeOK, StateType
    <2>2. /\ wnote[w] \in {"canceled", "fatal"} /\ wpc'[w] = "cancel"
          /\ Send(w) \/ RunDone
        BY <1>4, <2>1
        DEF Fail, WorkerGoto, PoolUnchanged, poolVars, collectVars, outputVars,
            history, NoteInv, PrePingInv, TypeOK, StateType
    <2>3. wnote[w] = "canceled" \/ RunDone => parentDone \/ FailureKnown
        BY <1>4, <2>1
        DEF Fail, WorkerGoto, PoolUnchanged, poolVars, collectVars, outputVars,
            history, NoteInv, CancelInv, RunDone
    <2>4. CASE UNCHANGED results /\ RunDone
        BY <2>1, <2>2, <2>3, <2>4 DEF CancelInv, FailureKnown, RunDone
    <2>5. CASE Send(w)
        <3>1. wpc[w] \in {"report", "fail"}
            BY <1>4
            DEF Fail, WorkerGoto, PoolUnchanged, poolVars, collectVars, outputVars,
                history
        <3>2. /\ Len(results') = Len(results) + 1 /\ Len(results) \in Nat
              /\ \A k \in 1..Len(results) : results'[k] = results[k]
              /\ results'[Len(results) + 1].note = wnote[w]
            <4>1. Len(results) \in Nat
                BY DEF PrePingInv, TypeOK, StateType
            <4>2. /\ Len(results') = Len(results) + 1
                  /\ \A k \in 1..Len(results) : results'[k] = results[k]
                  /\ results'[Len(results) + 1] = [note |-> wnote[w], ip |-> wip[w]]
                BY <2>5, <3>1, SendFacts
            <4> QED BY <4>1, <4>2
        <3>3. FailureKnown => FailureKnown'
            BY <2>1, <3>2 DEF FailureKnown
        <3>4. wnote[w] = "fatal" => FailureKnown'
            BY <3>2 DEF FailureKnown
        <3>5. \A k \in 1..Len(results') : results'[k].note \in {"noreply", "canceled", "fatal"}
            BY <2>1, <2>2, <3>2 DEF CancelInv
        <3>6. ASSUME ~parentDone, fatalErr # "fatal",
                     NEW k \in 1..Len(results'), results'[k].note = "canceled"
              PROVE  \E j \in 1..(k - 1) : results'[j].note = "fatal"
            <4>1. CASE k \in 1..Len(results)
                <5>1. PICK j \in 1..(k - 1) : results[j].note = "fatal"
                    BY <4>1, <3>2, <3>6, <2>1 DEF CancelInv
                <5> QED BY <5>1, <4>1, <3>2
            <4>2. CASE k = Len(results) + 1
                <5>1. PICK j \in 1..Len(results) : results[j].note = "fatal"
                    BY <4>2, <3>2, <3>6, <2>1, <2>2, <2>3 DEF FailureKnown
                <5> QED BY <5>1, <4>2, <3>2
            <4> QED BY <4>1, <4>2, <3>2
        <3> QED BY <2>1, <2>2, <2>3, <3>3, <3>4, <3>5, <3>6 DEF CancelInv
    <2> QED BY <1>4, <2>4, <2>5
        DEF Fail, WorkerGoto, PoolUnchanged, poolVars, collectVars, outputVars, history
<1> QED
    BY <1>1, <1>2, <1>3, <1>4 DEF Next, Main, Worker, Ended

\* Without a cancel, no address is lost between feeder, workers and collector.
LEMMA CompleteStep ==
    ASSUME PrePingInv, [Next]_vars PROVE CompleteInv'
<1>1. ASSUME \/ Interrupt \/ FeedEnd \/ UNCHANGED vars
      PROVE  CompleteInv'
    <2> USE PrePingAssumption DEF
            PrePingInv, TypeOK, FlagType, StateType, Notes, Stages, IPs, CompleteInv,
            Settled, Reported, Held, Holding, RunDone, poolVars, collectVars,
            outputVars, history
    <2>1. CASE Interrupt
        BY <2>1 DEF Interrupt
    <2>2. CASE FeedEnd
        BY <2>2 DEF FeedEnd, PoolUnchanged
    <2>3. CASE UNCHANGED vars
        BY <2>3 DEF vars
    <2> QED BY <1>1,
            <2>1, <2>2, <2>3
<1>2. CASE \/ Start \/ Kill \/ CloseResults \/ CollectEnd \/ CheckListed \/ CreateOutput
          \/ WriteRows \/ RenameOutput \/ PrintPath
    <2>1. /\ parentDone' = parentDone /\ poolCancelled' = poolCancelled /\ next' = next
          /\ fpc' = fpc /\ wpc' = wpc /\ wip' = wip /\ results' = results
          /\ unreachable' = unreachable /\ answer' = answer /\ CompleteInv
        BY <1>2
        DEF Start, Return, Kill, CloseResults, PoolUnchanged, CollectEnd, CheckListed,
            CreateOutput, WriteRows, RenameOutput, PrintPath, poolVars, collectVars,
            outputVars, history, PrePingInv
    <2> QED BY <2>1 DEF CompleteInv, Settled, Reported, Held, RunDone
<1>3. CASE Collect
    <2>a. RunDone' <=> RunDone
        BY <1>3 DEF Collect, poolVars, collectVars, outputVars, history, RunDone
    <2> SUFFICES ASSUME ~RunDone PROVE CompleteInv'
        BY <2>a DEF CompleteInv
    <2>0. CompleteInv /\ NoteInv /\ OnceInv /\ next \in 1..(NumIPs + 1)
        BY DEF PrePingInv, TypeOK, StateType
    <2>1. /\ answer' = answer /\ next' = next /\ wpc' = wpc /\ wip' = wip /\ fpc' = fpc
        BY <1>3 DEF Collect, poolVars, collectVars, outputVars, history
    <2>2. /\ Len(results') = Len(results) - 1 /\ Len(results) \in Nat \ {0}
          /\ \A k \in 1..Len(results') : results'[k] = results[k + 1]
          /\ results[1] = [note |-> results[1].note, ip |-> results[1].ip]
          /\ unreachable' = IF results[1].note = "noreply" THEN unreachable \cup {results[1].ip}
                            ELSE unreachable
        BY <1>3, CollectFacts DEF Collect, Result
    <2>3. ASSUME NEW i \in IPs PROVE Reported(i)' <=> Reported(i)
        <3>1. ASSUME NEW k \in 1..Len(results), results[k] = [note |-> "noreply", ip |-> i]
              PROVE  Reported(i)'
            <4>1. CASE k = 1
                BY <2>2, <3>1, <4>1 DEF Reported
            <4>2. CASE k # 1
                <5>1. k - 1 \in 1..Len(results') /\ results'[k - 1] = results[k]
                    BY <2>2, <4>2
                <5> QED BY <5>1, <3>1 DEF Reported
            <4> QED BY <4>1, <4>2
        <3>2. ASSUME NEW k \in 1..Len(results'), results'[k] = [note |-> "noreply", ip |-> i]
              PROVE  Reported(i)
            <4>1. k + 1 \in 1..Len(results) /\ results[k + 1] = [note |-> "noreply", ip |-> i]
                BY <2>2, <3>2
            <4> QED BY <4>1 DEF Reported
        <3>3. i \in unreachable => i \in unreachable'
            BY <2>2
        <3>4. i \in unreachable' => Reported(i)
            <4>1. CASE i \in unreachable
                BY <4>1 DEF Reported
            <4>2. CASE i \notin unreachable /\ i \in unreachable'
                <5>1. results[1] = [note |-> "noreply", ip |-> i] /\ 1 \in 1..Len(results)
                    BY <2>2, <4>2
                <5> QED BY <5>1 DEF Reported
            <4> QED BY <4>1, <4>2
        <3> QED BY <3>1, <3>2, <3>3, <3>4 DEF Reported
    <2>4. \A i \in 1..(next - 1) : (Settled(i)' <=> Settled(i)) /\ (Held(i)' <=> Held(i))
        BY <2>0, <2>1, <2>3, PrePingAssumption DEF Settled, Held, IPs
    <2> QED BY <2>0, <2>1, <2>3, <2>4 DEF CompleteInv
<1>4. ASSUME NEW w \in Pool, Handoff(w) PROVE CompleteInv'
    <2>a. RunDone' <=> RunDone
        BY <1>4
        DEF Handoff, PoolUnchanged, poolVars, collectVars, outputVars, history, RunDone
    <2> SUFFICES ASSUME ~RunDone PROVE CompleteInv'
        BY <2>a DEF CompleteInv
    <2>0. CompleteInv /\ NoteInv /\ OnceInv /\ next \in 1..(NumIPs + 1)
        BY DEF PrePingInv, TypeOK, StateType
    <2>1. /\ next' = next + 1 /\ fpc' = fpc /\ fpc # "done" /\ wpc[w] = "select"
          /\ wpc'[w] = "ping" /\ wip'[w] = next
          /\ \A v \in Pool : v # w => wpc'[v] = wpc[v] /\ wip'[v] = wip[v]
          /\ answer' = answer /\ results' = results /\ unreachable' = unreachable
        BY <1>4
        DEF Handoff, PoolUnchanged, poolVars, collectVars, outputVars, history,
            PrePingInv, TypeOK, StateType
    <2>2. \A i \in IPs : (Settled(i)' <=> Settled(i)) /\ (Reported(i)' <=> Reported(i))
        BY <2>1 DEF Settled, Reported
    <2>3. \A i \in 1..(next - 1) : Settled(i)' <=> Settled(i)
        BY <2>0, <2>2, PrePingAssumption DEF IPs
    <2>4. \A i \in 1..(next - 1) : Held(i) => Held(i)'
        BY <2>1 DEF Held, Holding
    <2>5. ASSUME NEW i, i = next PROVE Held(i)'
        BY <2>1, <2>5 DEF Held, Holding
    <2>6. \A i \in 1..(next' - 1) : i \in 1..(next - 1) \/ i = next
        BY <2>0, <2>1
    <2>7. \A i \in 1..(next' - 1) : Settled(i)' \/ Held(i)'
        BY <2>0, <2>3, <2>4, <2>5, <2>6 DEF CompleteInv
    <2>8. \A v \in Pool : wpc'[v] # "exited"
        BY <2>0, <2>1 DEF CompleteInv
    <2> QED BY <2>0, <2>1, <2>2, <2>7, <2>8 DEF CompleteInv
<1>5. ASSUME NEW w \in Pool, WorkerLeave(w) PROVE CompleteInv'
    <2>a. RunDone' <=> RunDone
        BY <1>5
        DEF WorkerLeave, WorkerGoto, PoolUnchanged, poolVars, collectVars, outputVars,
            history, RunDone
    <2> SUFFICES ASSUME ~RunDone PROVE CompleteInv'
        BY <2>a DEF CompleteInv
    <2>0. CompleteInv /\ NoteInv /\ OnceInv /\ next \in 1..(NumIPs + 1)
        BY DEF PrePingInv, TypeOK, StateType
    <2>1. /\ next' = next /\ fpc' = fpc /\ fpc = "done" /\ wip' = wip /\ wpc[w] = "select"
          /\ \A v \in Pool : v # w => wpc'[v] = wpc[v]
          /\ answer' = answer /\ results' = results /\ unreachable' = unreachable
        BY <1>5
        DEF WorkerLeave, WorkerGoto, PoolUnchanged, poolVars, collectVars, outputVars,
            history, PrePingInv, TypeOK, StateType
    <2>2. \A i : (Settled(i)' <=> Settled(i)) /\ (Reported(i)' <=> Reported(i))
        BY <2>1 DEF Settled, Reported
    <2>3. \A i : Held(i) => Held(i)'
        BY <2>1 DEF Held, Holding
    <2> QED BY <2>0, <2>1, <2>2, <2>3 DEF CompleteInv
<1>6. ASSUME NEW w \in Pool, Ping(w) PROVE CompleteInv'
    <2>a. RunDone' <=> RunDone
        BY <1>6
        DEF Ping, WorkerGoto, PoolUnchanged, poolVars, collectVars, outputVars,
            history, RunDone
    <2> SUFFICES ASSUME ~RunDone PROVE CompleteInv'
        BY <2>a DEF CompleteInv
    <2>0. CompleteInv /\ NoteInv /\ OnceInv /\ next \in 1..(NumIPs + 1)
        BY DEF PrePingInv, TypeOK, StateType
    <2>1. /\ next' = next /\ fpc' = fpc /\ wip' = wip
          /\ wpc[w] = "ping" /\ wpc'[w] \in {"checked", "ctxcheck"}
          /\ \A v \in Pool : v # w => wpc'[v] = wpc[v]
          /\ \A i \in IPs : i # wip[w] => answer'[i] = answer[i]
          /\ results' = results /\ unreachable' = unreachable
        BY <1>6
        DEF Ping, WorkerGoto, PoolUnchanged, poolVars, collectVars, outputVars,
            history, PrePingInv, TypeOK, StateType
    <2>2. wip[w] \in IPs /\ answer[wip[w]] = "none"
        BY <2>0, <2>1, PrePingAssumption DEF NoteInv, OnceInv, Holding, IPs
    <2>3. \A i \in IPs : Reported(i)' <=> Reported(i)
        BY <2>1 DEF Reported
    <2>4. \A i \in IPs : Reported(i) => i # wip[w]
        BY <2>0, <2>2 DEF CompleteInv
    <2>5. \A i \in IPs : (Settled(i) => Settled(i)') /\ (Held(i) => Held(i)')
        BY <2>1, <2>2, <2>3 DEF Settled, Held, Holding
    <2>6. \A i \in 1..(next - 1) : i \in IPs
        BY <2>0, PrePingAssumption DEF IPs
    <2> QED BY <2>0, <2>1, <2>3, <2>4, <2>5, <2>6 DEF CompleteInv
<1>7. ASSUME NEW w \in Pool, CheckContext(w) PROVE CompleteInv'
    <2>a. RunDone' <=> RunDone
        BY <1>7
        DEF CheckContext, WorkerGoto, PoolUnchanged, poolVars, collectVars, outputVars,
            history, RunDone
    <2> SUFFICES ASSUME ~RunDone PROVE CompleteInv'
        BY <2>a DEF CompleteInv
    <2>0. CompleteInv /\ NoteInv /\ OnceInv /\ next \in 1..(NumIPs + 1)
        BY DEF PrePingInv, TypeOK, StateType
    <2>1. /\ next' = next /\ fpc' = fpc /\ wip' = wip /\ wpc'[w] # "exited"
          /\ \A v \in Pool : v # w => wpc'[v] = wpc[v]
          /\ answer' = answer /\ results' = results /\ unreachable' = unreachable
        BY <1>7
        DEF CheckContext, WorkerGoto, PoolUnchanged, poolVars, collectVars, outputVars,
            history, PrePingInv, TypeOK, StateType
    <2>2. wpc'[w] \in Holding
        BY <1>7, <2>0, <2>1
        DEF CheckContext, WorkerGoto, PoolUnchanged, poolVars, collectVars, outputVars,
            history, NoteInv, Holding, RunDone, PrePingInv, TypeOK, StateType
    <2>3. \A i \in IPs : (Settled(i)' <=> Settled(i)) /\ (Reported(i)' <=> Reported(i))
        BY <2>1 DEF Settled, Reported
    <2>4. \A i \in 1..(next - 1) : i \in IPs
        BY <2>0, PrePingAssumption DEF IPs
    <2>5. \A i \in 1..(next - 1) : Held(i) => Settled(i) \/ Held(i)'
        BY <2>1, <2>2 DEF Held, Settled
    <2> QED BY <2>0, <2>1, <2>3, <2>4, <2>5 DEF CompleteInv
<1>8. ASSUME NEW w \in Pool, Classify(w) PROVE CompleteInv'
    <2>a. RunDone' <=> RunDone
        BY <1>8
        DEF Classify, WorkerGoto, PoolUnchanged, poolVars, collectVars, outputVars,
            history, RunDone
    <2> SUFFICES ASSUME ~RunDone PROVE CompleteInv'
        BY <2>a DEF CompleteInv
    <2>0. CompleteInv /\ NoteInv /\ OnceInv /\ next \in 1..(NumIPs + 1)
        BY DEF PrePingInv, TypeOK, StateType
    <2>1. /\ next' = next /\ fpc' = fpc /\ wip' = wip /\ wpc'[w] # "exited"
          /\ \A v \in Pool : v # w => wpc'[v] = wpc[v]
          /\ answer' = answer /\ results' = results /\ unreachable' = unreachable
        BY <1>8
        DEF Classify, WorkerGoto, PoolUnchanged, poolVars, collectVars, outputVars,
            history, PrePingInv, TypeOK, StateType
    <2>2. wpc'[w] \in Holding
        BY <1>8, <2>0, <2>1
        DEF Classify, WorkerGoto, PoolUnchanged, poolVars, collectVars, outputVars,
            history, NoteInv, Holding, RunDone, PrePingInv, TypeOK, StateType
    <2>3. \A i \in IPs : (Settled(i)' <=> Settled(i)) /\ (Reported(i)' <=> Reported(i))
        BY <2>1 DEF Settled, Reported
    <2>4. \A i \in 1..(next - 1) : i \in IPs
        BY <2>0, PrePingAssumption DEF IPs
    <2>5. \A i \in 1..(next - 1) : Held(i) => Settled(i) \/ Held(i)'
        BY <2>1, <2>2 DEF Held, Settled
    <2> QED BY <2>0, <2>1, <2>3, <2>4, <2>5 DEF CompleteInv
<1>9. ASSUME NEW w \in Pool, Checked(w) PROVE CompleteInv'
    <2>a. RunDone' <=> RunDone
        BY <1>9
        DEF Checked, WorkerGoto, PoolUnchanged, poolVars, collectVars, outputVars,
            history, RunDone
    <2> SUFFICES ASSUME ~RunDone PROVE CompleteInv'
        BY <2>a DEF CompleteInv
    <2>0. CompleteInv /\ NoteInv /\ OnceInv /\ next \in 1..(NumIPs + 1)
        BY DEF PrePingInv, TypeOK, StateType
    <2>1. /\ next' = next /\ fpc' = fpc /\ wip' = wip /\ wpc'[w] # "exited"
          /\ \A v \in Pool : v # w => wpc'[v] = wpc[v]
          /\ answer' = answer /\ results' = results /\ unreachable' = unreachable
        BY <1>9
        DEF Checked, WorkerGoto, PoolUnchanged, poolVars, collectVars, outputVars,
            history, PrePingInv, TypeOK, StateType
    <2>2. wpc'[w] \in Holding \/ answer[wip[w]] = "reply"
        BY <1>9, <2>0, <2>1
        DEF Checked, WorkerGoto, PoolUnchanged, poolVars, collectVars, outputVars,
            history, NoteInv, Holding, RunDone, PrePingInv, TypeOK, StateType
    <2>3. \A i \in IPs : (Settled(i)' <=> Settled(i)) /\ (Reported(i)' <=> Reported(i))
        BY <2>1 DEF Settled, Reported
    <2>4. \A i \in 1..(next - 1) : i \in IPs
        BY <2>0, PrePingAssumption DEF IPs
    <2>5. \A i \in 1..(next - 1) : Held(i) => Settled(i) \/ Held(i)'
        BY <2>1, <2>2 DEF Held, Settled
    <2> QED BY <2>0, <2>1, <2>3, <2>4, <2>5 DEF CompleteInv
<1>10. ASSUME NEW w \in Pool, Report(w) PROVE CompleteInv'
    <2>a. RunDone' <=> RunDone
        BY <1>10
        DEF Report, WorkerGoto, PoolUnchanged, poolVars, collectVars, outputVars,
            history, RunDone
    <2> SUFFICES ASSUME ~RunDone PROVE CompleteInv'
        BY <2>a DEF CompleteInv
    <2>0. CompleteInv /\ NoteInv /\ OnceInv /\ next \in 1..(NumIPs + 1)
        BY DEF PrePingInv, TypeOK, StateType
    <2>1. /\ next' = next /\ fpc' = fpc /\ wip' = wip /\ wpc'[w] = "select" /\ Send(w)
          /\ \A v \in Pool : v # w => wpc'[v] = wpc[v]
          /\ answer' = answer /\ unreachable' = unreachable /\ wpc[w] \in {"report", "fail"}
        BY <1>10
        DEF Report, WorkerGoto, PoolUnchanged, poolVars, collectVars, outputVars,
            history, PrePingInv, TypeOK, StateType
    <2>2. wnote[w] = "noreply" /\ answer[wip[w]] = "noreply" /\ wip[w] \in IPs
        BY <1>10, <2>0, PrePingAssumption
        DEF Report, WorkerGoto, PoolUnchanged, poolVars, collectVars, outputVars,
            history, NoteInv, Holding, IPs
    <2>3. /\ Len(results') = Len(results) + 1 /\ Len(results) \in Nat
          /\ \A k \in 1..Len(results) : results'[k] = results[k]
          /\ results'[Len(results) + 1] = [note |-> wnote[w], ip |-> wip[w]]
        <3>1. Len(results) \in Nat
            BY DEF PrePingInv, TypeOK, StateType
        <3> QED BY <2>1, <3>1, SendFacts
    <2>4. \A i \in IPs : Reported(i) => Reported(i)'
        BY <2>1, <2>3 DEF Reported
    <2>5. ASSUME NEW i \in IPs, Reported(i)' PROVE Reported(i) \/ i = wip[w]
        <3>1. ASSUME NEW k \in 1..Len(results'), results'[k] = [note |-> "noreply", ip |-> i]
              PROVE  Reported(i) \/ i = wip[w]
            <4>1. CASE k \in 1..Len(results)
                BY <4>1, <3>1, <2>3 DEF Reported
            <4>2. CASE k = Len(results) + 1
                BY <4>2, <3>1, <2>2, <2>3
            <4> QED BY <4>1, <4>2, <2>3
        <3> QED BY <3>1, <2>5, <2>1 DEF Reported
    <2>6. \A i \in 1..(next - 1) : i \in IPs
        BY <2>0, PrePingAssumption DEF IPs
    <2>7. \A i \in IPs : Settled(i) => Settled(i)'
        BY <2>1, <2>4 DEF Settled
    <2>8. ASSUME NEW i, i = wip[w] PROVE Reported(i)'
        <3>1. Len(results) + 1 \in 1..Len(results')
            BY <2>3
        <3> QED BY <3>1, <2>2, <2>3, <2>8 DEF Reported
    <2>9. \A i \in IPs : Held(i) => Settled(i)' \/ Held(i)'
        BY <2>1, <2>2, <2>8 DEF Held, Settled
    <2> QED BY <2>0, <2>1, <2>2, <2>5, <2>6, <2>7, <2>9 DEF CompleteInv
<1>11. ASSUME NEW w \in Pool, Fail(w) PROVE CompleteInv'
    <2>a. RunDone' <=> RunDone
        BY <1>11
        DEF Fail, WorkerGoto, PoolUnchanged, poolVars, collectVars, outputVars,
            history, RunDone
    <2> SUFFICES ASSUME ~RunDone PROVE CompleteInv'
        BY <2>a DEF CompleteInv
    <2>0. CompleteInv /\ NoteInv /\ OnceInv /\ next \in 1..(NumIPs + 1)
        BY DEF PrePingInv, TypeOK, StateType
    <2>1. /\ next' = next /\ fpc' = fpc /\ wip' = wip /\ wpc'[w] = "cancel" /\ Send(w)
          /\ \A v \in Pool : v # w => wpc'[v] = wpc[v]
          /\ answer' = answer /\ unreachable' = unreachable /\ wpc[w] \in {"report", "fail"}
        BY <1>11
        DEF Fail, WorkerGoto, PoolUnchanged, poolVars, collectVars, outputVars,
            history, PrePingInv, TypeOK, StateType
    <2>2. wnote[w] # "noreply"
        BY <1>11, <2>0, PrePingAssumption
        DEF Fail, WorkerGoto, PoolUnchanged, poolVars, collectVars, outputVars,
            history, NoteInv, Holding, IPs
    <2>3. /\ Len(results') = Len(results) + 1 /\ Len(results) \in Nat
          /\ \A k \in 1..Len(results) : results'[k] = results[k]
          /\ results'[Len(results) + 1] = [note |-> wnote[w], ip |-> wip[w]]
        <3>1. Len(results) \in Nat
            BY DEF PrePingInv, TypeOK, StateType
        <3> QED BY <2>1, <3>1, SendFacts
    <2>4. \A i \in IPs : Reported(i) => Reported(i)'
        BY <2>1, <2>3 DEF Reported
    <2>5. ASSUME NEW i \in IPs, Reported(i)' PROVE Reported(i)
        <3>1. ASSUME NEW k \in 1..Len(results'), results'[k] = [note |-> "noreply", ip |-> i]
              PROVE  Reported(i)
            <4>1. CASE k \in 1..Len(results)
                BY <4>1, <3>1, <2>3 DEF Reported
            <4>2. CASE k = Len(results) + 1
                BY <4>2, <3>1, <2>2, <2>3
            <4> QED BY <4>1, <4>2, <2>3
        <3> QED BY <3>1, <2>5, <2>1 DEF Reported
    <2>6. \A i \in 1..(next - 1) : i \in IPs
        BY <2>0, PrePingAssumption DEF IPs
    <2>7. \A i \in IPs : Settled(i) => Settled(i)'
        BY <2>1, <2>4 DEF Settled
    <2>8. \A i \in IPs : Held(i) => Held(i)'
        BY <2>1 DEF Held, Holding
    <2> QED BY <2>0, <2>1, <2>5, <2>6, <2>7, <2>8 DEF CompleteInv
<1>12. ASSUME NEW w \in Pool, CancelPool(w) PROVE CompleteInv'
    <2>1. RunDone'
        BY <1>12 DEF CancelPool, RunDone
    <2> QED BY <2>1 DEF CompleteInv
<1> QED
    BY <1>1, <1>2, <1>3, <1>4, <1>5, <1>6, <1>7, <1>8, <1>9, <1>10, <1>11, <1>12
    DEF Next, Main, Worker, Ended

\* No address is handed out twice.
LEMMA OnceStep ==
    ASSUME PrePingInv, [Next]_vars PROVE OnceInv'
<1>1. ASSUME \/ Start \/ Interrupt \/ Kill \/ FeedEnd \/ CloseResults \/ Collect
              \/ CollectEnd \/ CheckListed \/ CreateOutput \/ WriteRows \/ RenameOutput
              \/ PrintPath \/ UNCHANGED vars
              \/ \E w \in Pool :
                    \/ WorkerLeave(w) \/ Classify(w) \/ Checked(w) \/ Fail(w) \/ CancelPool(w)
      PROVE  OnceInv'
    <2> USE PrePingAssumption DEF
            PrePingInv, TypeOK, FlagType, StateType, Notes, Stages, IPs, OnceInv,
            Holding, poolVars, collectVars, outputVars, history
    <2>1. CASE Start
        BY <2>1 DEF Start, Return
    <2>2. CASE Interrupt
        BY <2>2 DEF Interrupt
    <2>3. CASE Kill
        BY <2>3 DEF Kill
    <2>4. CASE FeedEnd
        BY <2>4 DEF FeedEnd, PoolUnchanged
    <2>5. CASE CloseResults
        BY <2>5 DEF CloseResults, PoolUnchanged
    <2>6. CASE Collect
        BY <2>6 DEF Collect
    <2>7. CASE CollectEnd
        BY <2>7 DEF CollectEnd, Return
    <2>8. CASE CheckListed
        BY <2>8 DEF CheckListed, Return
    <2>9. CASE CreateOutput
        BY <2>9 DEF CreateOutput, Return
    <2>10. CASE WriteRows
        BY <2>10 DEF WriteRows, Return
    <2>11. CASE RenameOutput
        BY <2>11 DEF RenameOutput, Return
    <2>12. CASE PrintPath
        BY <2>12 DEF PrintPath, Return
    <2>13. ASSUME NEW w \in Pool, WorkerLeave(w) PROVE OnceInv'
        BY <2>13 DEF WorkerLeave, WorkerGoto, PoolUnchanged
    <2>14. ASSUME NEW w \in Pool, Classify(w) PROVE OnceInv'
        BY <2>14 DEF Classify, WorkerGoto, PoolUnchanged
    <2>15. ASSUME NEW w \in Pool, Checked(w) PROVE OnceInv'
        BY <2>15 DEF Checked, WorkerGoto, PoolUnchanged
    <2>16. ASSUME NEW w \in Pool, Fail(w) PROVE OnceInv'
        BY <2>16 DEF Fail, WorkerGoto, PoolUnchanged
    <2>17. ASSUME NEW w \in Pool, CancelPool(w) PROVE OnceInv'
        BY <2>17 DEF CancelPool, WorkerGoto, PoolUnchanged
    <2>18. CASE UNCHANGED vars
        BY <2>18 DEF vars
    <2> QED BY <1>1,
            <2>1, <2>2, <2>3, <2>4, <2>5, <2>6, <2>7, <2>8, <2>9, <2>10, <2>11, <2>12,
            <2>13, <2>14, <2>15, <2>16, <2>17, <2>18
<1>2. ASSUME NEW w \in Pool, Handoff(w) PROVE OnceInv'
    <2>1. /\ next' = next + 1 /\ next \in IPs /\ wpc'[w] = "ping" /\ wip'[w] = next /\ answer' = answer
          /\ \A v \in Pool : v # w => wpc'[v] = wpc[v] /\ wip'[v] = wip[v]
          /\ OnceInv /\ answer[next] = "none"
        BY <1>2, PrePingAssumption
        DEF Handoff, PoolUnchanged, poolVars, collectVars, outputVars, history, IPs,
            OnceInv, PrePingInv, TypeOK, StateType
    <2>2. \A v \in Pool : wpc[v] \in Holding => wip[v] \in 1..(next - 1)
        BY DEF NoteInv, PrePingInv
    <2>3. \A v \in Pool : v # w /\ wpc'[v] \in Holding => wip'[v] # wip'[w]
        BY <2>1, <2>2, PrePingAssumption DEF IPs
    <2>4. \A v \in Pool : wpc'[v] = "ping" => answer'[wip'[v]] = "none"
        BY <2>1 DEF OnceInv
    <2>5. \A i \in next'..NumIPs : i \in next..NumIPs
        BY <2>1, PrePingAssumption DEF IPs
    <2>6. ASSUME NEW u \in Pool, NEW v \in Pool,
                 wpc'[u] \in Holding, wpc'[v] \in Holding, wip'[u] = wip'[v]
          PROVE  u = v
        BY <2>1, <2>3, <2>6 DEF OnceInv
    <2> QED BY <2>1, <2>4, <2>5, <2>6 DEF OnceInv
<1>3. ASSUME NEW w \in Pool, Ping(w) PROVE OnceInv'
    <2>1. /\ next' = next /\ wip' = wip /\ wpc[w] = "ping" /\ wpc'[w] \in {"checked", "ctxcheck"}
          /\ \A v \in Pool : v # w => wpc'[v] = wpc[v]
          /\ \A i \in IPs : i # wip[w] => answer'[i] = answer[i]
          /\ OnceInv /\ NoteInv /\ next \in 1..(NumIPs + 1)
        BY <1>3
        DEF Ping, WorkerGoto, PoolUnchanged, poolVars, collectVars, outputVars,
            history, PrePingInv, TypeOK, StateType
    <2>2. \A v \in Pool : wpc[v] \in Holding => wip[v] \in 1..(next - 1) /\ wip[v] \in IPs
        BY <2>1, PrePingAssumption DEF NoteInv, IPs
    <2>3. wip[w] \in 1..(next - 1)
        BY <2>1, <2>2 DEF Holding
    <2>4. \A v \in Pool : v # w /\ wpc[v] = "ping" => wip[v] \in IPs /\ wip[v] # wip[w]
        BY <2>1, <2>2 DEF OnceInv, Holding
    <2>5. \A i \in next..NumIPs : i \in IPs /\ i # wip[w]
        BY <2>1, <2>3, PrePingAssumption DEF IPs
    <2>6. \A i \in next'..NumIPs : answer'[i] = "none"
        BY <2>1, <2>5 DEF OnceInv
    <2>7. \A v \in Pool : wpc'[v] = "ping" => answer'[wip'[v]] = "none"
        BY <2>1, <2>4 DEF OnceInv
    <2>8. \A v \in Pool : wpc'[v] \in Holding => wpc[v] \in Holding
        BY <2>1 DEF Holding
    <2> QED BY <2>1, <2>6, <2>7, <2>8 DEF OnceInv
<1>4. ASSUME NEW w \in Pool, CheckContext(w) PROVE OnceInv'
    <2>1. /\ next' = next /\ wip' = wip /\ wpc[w] \in Holding /\ wpc'[w] # "ping" /\ answer' = answer
          /\ (\A v \in Pool : v # w => wpc'[v] = wpc[v]) /\ OnceInv
        BY <1>4
        DEF CheckContext, WorkerGoto, PoolUnchanged, poolVars, collectVars, outputVars,
            history, Holding, PrePingInv, TypeOK, StateType
    <2> QED BY <2>1 DEF OnceInv
<1>5. ASSUME NEW w \in Pool, Report(w) PROVE OnceInv'
    <2>1. /\ next' = next /\ wip' = wip /\ wpc[w] \in Holding /\ wpc'[w] # "ping" /\ answer' = answer
          /\ (\A v \in Pool : v # w => wpc'[v] = wpc[v]) /\ OnceInv
        BY <1>5
        DEF Report, WorkerGoto, PoolUnchanged, poolVars, collectVars, outputVars,
            history, Holding, PrePingInv, TypeOK, StateType
    <2> QED BY <2>1 DEF OnceInv
<1> QED
    BY <1>1, <1>2, <1>3, <1>4, <1>5 DEF Next, Main, Worker, Ended

\* Nothing is published before the list is complete.
LEMMA OutputStep ==
    ASSUME PrePingInv, [Next]_vars PROVE OutputInv'
<1>1. ASSUME \/ Interrupt \/ Kill \/ FeedEnd \/ CloseResults \/ Collect \/ CheckListed
              \/ CreateOutput \/ WriteRows \/ RenameOutput \/ PrintPath \/ UNCHANGED vars
              \/ \E w \in Pool :
                    \/ Handoff(w) \/ WorkerLeave(w) \/ Ping(w) \/ CheckContext(w) \/ Classify(w)
                    \/ Checked(w) \/ Report(w) \/ Fail(w) \/ CancelPool(w)
      PROVE  OutputInv'
    <2> USE PrePingAssumption DEF
            PrePingInv, TypeOK, FlagType, StateType, Notes, Stages, IPs, OutputInv,
            Complete, NoFile, poolVars, collectVars, outputVars, history
    <2>1. CASE Interrupt
        BY <2>1 DEF Interrupt
    <2>2. CASE Kill
        BY <2>2 DEF Kill
    <2>3. CASE FeedEnd
        BY <2>3 DEF FeedEnd, PoolUnchanged
    <2>4. CASE CloseResults
        BY <2>4 DEF CloseResults, PoolUnchanged
    <2>5. CASE Collect
        BY <2>5 DEF Collect
    <2>6. CASE CheckListed
        BY <2>6 DEF CheckListed, Return
    <2>7. CASE CreateOutput
        BY <2>7 DEF CreateOutput, Return
    <2>8. CASE WriteRows
        BY <2>8 DEF WriteRows, Return
    <2>9. CASE RenameOutput
        BY <2>9 DEF RenameOutput, Return
    <2>10. CASE PrintPath
        BY <2>10 DEF PrintPath, Return
    <2>11. ASSUME NEW w \in Pool, Handoff(w) PROVE OutputInv'
        BY <2>11 DEF Handoff, PoolUnchanged
    <2>12. ASSUME NEW w \in Pool, WorkerLeave(w) PROVE OutputInv'
        BY <2>12 DEF WorkerLeave, WorkerGoto, PoolUnchanged
    <2>13. ASSUME NEW w \in Pool, Ping(w) PROVE OutputInv'
        BY <2>13 DEF Ping, WorkerGoto, PoolUnchanged
    <2>14. ASSUME NEW w \in Pool, CheckContext(w) PROVE OutputInv'
        BY <2>14 DEF CheckContext, WorkerGoto, PoolUnchanged
    <2>15. ASSUME NEW w \in Pool, Classify(w) PROVE OutputInv'
        BY <2>15 DEF Classify, WorkerGoto, PoolUnchanged
    <2>16. ASSUME NEW w \in Pool, Checked(w) PROVE OutputInv'
        BY <2>16 DEF Checked, WorkerGoto, PoolUnchanged
    <2>17. ASSUME NEW w \in Pool, Report(w) PROVE OutputInv'
        BY <2>17 DEF Report, WorkerGoto, PoolUnchanged
    <2>18. ASSUME NEW w \in Pool, Fail(w) PROVE OutputInv'
        BY <2>18 DEF Fail, WorkerGoto, PoolUnchanged
    <2>19. ASSUME NEW w \in Pool, CancelPool(w) PROVE OutputInv'
        BY <2>19 DEF CancelPool, WorkerGoto, PoolUnchanged
    <2>20. CASE UNCHANGED vars
        BY <2>20 DEF vars
    <2> QED BY <1>1,
            <2>1, <2>2, <2>3, <2>4, <2>5, <2>6, <2>7, <2>8, <2>9, <2>10, <2>11, <2>12,
            <2>13, <2>14, <2>15, <2>16, <2>17, <2>18, <2>19, <2>20
<1>2. CASE Start
    <2>1. CASE pc' = "listed"
        <3>1. unreachable' = {} /\ IPs = {}
            BY <1>2, <2>1
            DEF Start, Return, poolVars, collectVars, outputVars, history, OutputInv,
                IPs, PrePingInv
        <3>2. Complete'
            BY <3>1 DEF Complete
        <3> QED BY <1>2, <2>1, <3>2
            DEF Start, Return, poolVars, collectVars, outputVars, history, OutputInv,
                NoFile, PrePingInv, TypeOK, StateType
    <2>2. CASE pc' # "listed"
        BY <1>2, <2>2, PrePingAssumption
        DEF Start, Return, poolVars, collectVars, outputVars, history, OutputInv,
            Complete, NoFile, PrePingInv, TypeOK, StateType
    <2> QED BY <2>1, <2>2
<1>3. CASE CollectEnd
    <2>1. CASE pc' = "listed"
        <3>1. /\ ~parentDone /\ fatalErr = "nil" /\ results = <<>> /\ pc = "pool"
              /\ \A w \in Pool : wpc[w] = "exited"
              /\ NumIPs > 0 /\ next \in 1..(NumIPs + 1)
            BY <1>3, <2>1
            DEF CollectEnd, Return, poolVars, collectVars, outputVars, history,
                OutputInv, PrePingInv, TypeOK, StateType
        <3>2. ~RunDone
            BY <3>1 DEF CancelInv, FailureKnown, RunDone, PrePingInv
        <3>3. 1 \in Pool
            BY <3>1, PrePingAssumption DEF Pool
        <3>4. next > NumIPs
            BY <3>1, <3>2, <3>3 DEF CompleteInv, PrePingInv
        <3>5. \A i \in IPs : i \in 1..(next - 1) /\ ~Held(i)
            BY <3>1, <3>4, PrePingAssumption DEF IPs, Held, Holding
        <3>6. \A i \in IPs : Settled(i) /\ (Reported(i) => answer[i] = "noreply")
            BY <3>2, <3>5 DEF CompleteInv, PrePingInv
        <3>7. \A i \in IPs : Reported(i) <=> i \in unreachable
            BY <3>1 DEF Reported
        <3>8. Complete
            BY <3>6, <3>7 DEF Settled, Complete, PrePingInv, TypeOK, StateType
        <3> QED BY <1>3, <2>1, <3>1, <3>8
            DEF CollectEnd, Return, poolVars, collectVars, outputVars, history,
                OutputInv, Complete, NoFile, PrePingInv
    <2>2. CASE pc' # "listed"
        BY <1>3, <2>2
        DEF CollectEnd, Return, poolVars, collectVars, outputVars, history, CancelInv,
            OutputInv, Complete, NoFile, PrePingInv, TypeOK, StateType
    <2> QED BY <2>1, <2>2
<1> QED
    BY <1>1, <1>2, <1>3 DEF Next, Main, Worker, Ended

\* The invariant holds of every run of pre-ping: runReachabilityChecksWithProgress
\* keeps every address, every answer and every first failure until RunPrePing
\* has published its list or given up.
THEOREM PrePingInvariant == Spec => []PrePingInv
<1>1. Init => PrePingInv
    <2> SUFFICES ASSUME Init PROVE PrePingInv
        OBVIOUS
    <2>1. FlagType
        BY Zenon DEF Init, FlagType
    <2>2. StateType
        <3>1. next \in 1..(NumIPs + 1) /\ ticks \in Nat /\ published \subseteq 0..NumIPs
            BY PrePingAssumption DEF Init, NoFile
        <3>2. wpc \in [Pool -> Stages] /\ wnote \in [Pool -> Notes] /\ answer \in [IPs -> Notes]
            BY DEF Init, Stages, Notes
        <3>3. wip \in [Pool -> 0..NumIPs]
            BY PrePingAssumption DEF Init
        <3>4. results \in Seq([note : Notes, ip : IPs]) /\ unreachable \subseteq IPs
            BY DEF Init
        <3>5. /\ pc = "start" /\ fpc = "feed" /\ fatalErr = "nil" /\ tmp = "none"
              /\ outcome = "none"
            BY DEF Init
        <3> QED BY <3>1, <3>2, <3>3, <3>4, <3>5 DEF StateType
    <2>3. \A w \in Pool : wpc[w] = "select"
        BY DEF Init
    <2>4. \A i \in IPs : answer[i] = "none" /\ ~Reported(i)
        BY DEF Init, Reported
    <2>5. NoteInv
        BY <2>3 DEF NoteInv, Holding
    <2>6. CancelInv
        BY <2>3 DEF CancelInv, Init
    <2>7. CompleteInv
        BY <2>3, <2>4 DEF CompleteInv, Init
    <2>8. OnceInv
        <3>1. next..NumIPs = IPs
            BY DEF Init, IPs
        <3> QED BY <2>3, <2>4, <3>1 DEF OnceInv, Holding
    <2>9. OutputInv
        BY DEF OutputInv, Init
    <2> QED BY <2>1, <2>2, <2>5, <2>6, <2>7, <2>8, <2>9 DEF PrePingInv, TypeOK
<1>2. PrePingInv /\ [Next]_vars => PrePingInv'
    BY FlagStep, StateStep, NoteStep, CancelStep, CompleteStep, OnceStep, OutputStep
    DEF PrePingInv, TypeOK
<1> QED BY <1>1, <1>2, PTL DEF Spec

\* The list that RunPrePing publishes names exactly the addresses whose ping
\* got no reply, each of them pinged to its end.
THEOREM TrueList == Spec => []PublishedIsTruth
<1>1. PrePingInv => PublishedIsTruth
    <2> SUFFICES ASSUME PrePingInv PROVE PublishedIsTruth
        OBVIOUS
    <2>1. OutputInv
        BY DEF PrePingInv
    <2> QED BY <2>1 DEF OutputInv, Complete, PublishedIsTruth
<1> QED BY <1>1, PrePingInvariant, PTL

\* RunPrePing reports a cancel only if the operator cancelled: the collector
\* has a worker's failure before the cancel that failure causes.
THEOREM HonestCancel == Spec => []CancelIsNotInvented
<1>1. PrePingInv => CancelIsNotInvented
    BY DEF PrePingInv, OutputInv, CancelIsNotInvented
<1> QED BY <1>1, PrePingInvariant, PTL
=============================================================================
