------------------------------ MODULE PrePing ------------------------------
(***************************************************************************)
(* The pre-ping step: RunPrePing pings every unique address over a pool of *)
(* workers and publishes the list of those that did not answer.  The list  *)
(* is what generate-buckets leaves out of the scan, so a wrong or partial  *)
(* list makes the scan skip targets.                                       *)
(***************************************************************************)
EXTENDS Integers, Sequences

CONSTANTS
    NumIPs,      \* unique addresses; an address is its place in the sorted list
    NumWorkers   \* -workers

ASSUME PrePingAssumption == NumIPs \in Nat /\ NumWorkers \in Int

IPs == 1..NumIPs

\* At least one worker, and no more than there are addresses.
Pool ==
    LET wanted == IF NumWorkers <= 0 THEN 1 ELSE NumWorkers
    IN  1..(IF wanted > NumIPs THEN NumIPs ELSE wanted)

VARIABLES
    pc,            \* RunPrePing
    parentDone,    \* ctx, cancelled by Ctrl+C
    poolCancelled, \* cancel() of the pool was called
    fpc, next,     \* the feeder, and the address it offers
    wpc, wip, wnote, \* a worker: its place, its address, the failure it holds
    results, resultsClosed,
    unreachable, fatalErr,     \* what the collector has so far
    tmp, published, printed,   \* the output: temporary file, final file, path on stdout
    outcome,       \* the class of the error RunPrePing returns
    answer, ticks  \* history: what each ping really did; progress ticks

poolVars    == <<poolCancelled, fpc, next, wpc, wip, wnote, results, resultsClosed>>
collectVars == <<unreachable, fatalErr>>
outputVars  == <<tmp, published, printed>>
history     == <<answer, ticks>>
vars == <<pc, parentDone, poolVars, collectVars, outputVars, outcome, history>>

RunDone == parentDone \/ poolCancelled

NoFile == {0}    \* 0 is no address

Init ==
    /\ pc = "start" /\ parentDone = FALSE /\ poolCancelled = FALSE
    /\ fpc = "feed" /\ next = 1
    /\ wpc = [w \in Pool |-> "select"] /\ wip = [w \in Pool |-> 0]
    /\ wnote = [w \in Pool |-> "none"]
    /\ results = <<>> /\ resultsClosed = FALSE
    /\ unreachable = {} /\ fatalErr = "nil"
    /\ tmp = "none" /\ published = NoFile /\ printed = FALSE /\ outcome = "none"
    /\ answer = [i \in IPs |-> "none"] /\ ticks = 0

Return(err) == pc' = "done" /\ outcome' = err

-----------------------------------------------------------------------------
(* RunPrePing before the pool, and the environment *)

\* Configuration, input, limits and output paths are accepted, or not; without
\* an address there is no pool.
Start ==
    /\ pc = "start"
    /\ \/ ~parentDone /\ pc' = (IF NumIPs = 0 THEN "listed" ELSE "pool") /\ UNCHANGED outcome
       \/ parentDone /\ Return("canceled")
       \/ Return("error")
    /\ UNCHANGED <<parentDone, poolVars, collectVars, outputVars, history>>

Interrupt ==
    /\ pc \notin {"done", "killed"} /\ ~parentDone /\ parentDone' = TRUE
    /\ UNCHANGED <<pc, poolVars, collectVars, outputVars, outcome, history>>

Kill ==
    /\ pc \notin {"done", "killed"} /\ pc' = "killed"
    /\ UNCHANGED <<parentDone, poolVars, collectVars, outputVars, outcome, history>>

-----------------------------------------------------------------------------
(* The pool of runReachabilityChecksWithProgress *)

PoolUnchanged == UNCHANGED <<pc, parentDone, collectVars, outputVars, outcome>>

\* The jobs channel has no buffer: feeder and worker meet.
Handoff(w) ==
    /\ pc = "pool" /\ fpc = "feed" /\ next <= NumIPs /\ wpc[w] = "select"
    /\ next' = next + 1
    /\ wip' = [wip EXCEPT ![w] = next] /\ wpc' = [wpc EXCEPT ![w] = "ping"]
    /\ UNCHANGED <<poolCancelled, fpc, wnote, results, resultsClosed, history>>
    /\ PoolUnchanged

\* The feeder closes jobs, after the last address or on a cancel.
FeedEnd ==
    /\ pc = "pool" /\ fpc = "feed" /\ (next > NumIPs \/ RunDone)
    /\ fpc' = "done"
    /\ UNCHANGED <<poolCancelled, next, wpc, wip, wnote, results, resultsClosed, history>>
    /\ PoolUnchanged

WorkerGoto(w, from, to) ==
    /\ pc = "pool" /\ wpc[w] = from /\ wpc' = [wpc EXCEPT ![w] = to]

\* Mutant: nobody notices that jobs is closed.
LeaveOnCancelOnly(w) ==
    /\ WorkerGoto(w, "select", "exited") /\ RunDone
    /\ UNCHANGED <<poolCancelled, fpc, next, wip, wnote, results, resultsClosed, history>>
    /\ PoolUnchanged

WorkerLeave(w) ==
    /\ WorkerGoto(w, "select", "exited") /\ (RunDone \/ fpc = "done")
    /\ UNCHANGED <<poolCancelled, fpc, next, wip, wnote, results, resultsClosed, history>>
    /\ PoolUnchanged

\* CheckDetailed: the ping process answers, gets no reply in its time, cannot
\* be run, or is cut off by a cancel (one that starts after the cancel always is;
\* the model lets it answer as well, which only adds behaviours).
Ping(w) ==
    /\ \E a \in {"reply", "noreply", "broken"} \cup (IF RunDone THEN {"cut"} ELSE {}) :
          /\ WorkerGoto(w, "ping", IF a = "reply" THEN "checked" ELSE "ctxcheck")
          /\ answer' = [answer EXCEPT ![wip[w]] = a]
          /\ wnote' = [wnote EXCEPT ![w] = a]
    /\ UNCHANGED <<poolCancelled, fpc, next, wip, results, resultsClosed, ticks>>
    /\ PoolUnchanged

\* A failed process on a cancelled context is the cancel, not an answer.
CheckContext(w) ==
    /\ \/ ~RunDone /\ WorkerGoto(w, "ctxcheck", "classify") /\ UNCHANGED wnote
       \/ RunDone /\ WorkerGoto(w, "ctxcheck", "checked")
          /\ wnote' = [wnote EXCEPT ![w] = "canceled"]
    /\ UNCHANGED <<poolCancelled, fpc, next, wip, results, resultsClosed, history>>
    /\ PoolUnchanged

\* The process context is looked at after the one it descends from, so a cancel
\* in between passes for a missing reply.
Classify(w) ==
    /\ WorkerGoto(w, "classify", "checked")
    /\ wnote' = [wnote EXCEPT ![w] = IF RunDone \/ @ = "noreply" THEN "noreply" ELSE "fatal"]
    /\ UNCHANGED <<poolCancelled, fpc, next, wip, results, resultsClosed, history>>
    /\ PoolUnchanged

\* onChecked ticks the progress; then the answer decides.
Checked(w) ==
    /\ WorkerGoto(w, "checked",
          CASE wnote[w] = "reply" -> "select" [] wnote[w] = "noreply" -> "report"
            [] OTHER -> "fail")
    /\ ticks' = ticks + 1
    /\ UNCHANGED <<poolCancelled, fpc, next, wip, wnote, results, resultsClosed, answer>>
    /\ PoolUnchanged

Send(w) ==
    /\ Len(results) < NumIPs
    /\ results' = Append(results, [note |-> wnote[w], ip |-> wip[w]])

\* An unreachable address is sent, or the worker leaves on a cancel.
Report(w) ==
    /\ \/ WorkerGoto(w, "report", "select") /\ Send(w)
       \/ WorkerGoto(w, "report", "exited") /\ RunDone /\ UNCHANGED results
    /\ UNCHANGED <<poolCancelled, fpc, next, wip, wnote, resultsClosed, history>>
    /\ PoolUnchanged

\* Mutant: the pool is cancelled before the error is sent.
CancelBeforeSend(w) ==
    /\ WorkerGoto(w, "fail", "cancel") /\ poolCancelled' = TRUE
    /\ Send(w) \/ UNCHANGED results
    /\ UNCHANGED <<fpc, next, wip, wnote, resultsClosed, history>>
    /\ PoolUnchanged

\* An error is sent, or dropped if the run is cancelled already.
Fail(w) ==
    /\ WorkerGoto(w, "fail", "cancel")
    /\ Send(w) \/ (RunDone /\ UNCHANGED results)
    /\ UNCHANGED <<poolCancelled, fpc, next, wip, wnote, resultsClosed, history>>
    /\ PoolUnchanged

CancelPool(w) ==
    /\ WorkerGoto(w, "cancel", "exited") /\ poolCancelled' = TRUE
    /\ UNCHANGED <<fpc, next, wip, wnote, results, resultsClosed, history>>
    /\ PoolUnchanged

\* wg.Wait, then close(results).
CloseResults ==
    /\ pc = "pool" /\ ~resultsClosed /\ \A w \in Pool : wpc[w] = "exited"
    /\ resultsClosed' = TRUE
    /\ UNCHANGED <<poolCancelled, fpc, next, wpc, wip, wnote, results, history>>
    /\ PoolUnchanged

Worker(w) ==
    \/ Handoff(w) \/ WorkerLeave(w) \/ Ping(w) \/ CheckContext(w) \/ Classify(w)
    \/ Checked(w) \/ Report(w) \/ Fail(w) \/ CancelPool(w)

-----------------------------------------------------------------------------
(* The collector, and the output of RunPrePing *)

\* Mutant: the last error is the one reported.
CollectLast ==
    /\ pc = "pool" /\ results # <<>> /\ results' = Tail(results)
    /\ LET r == Head(results) IN
       IF r.note # "noreply" THEN fatalErr' = r.note /\ UNCHANGED unreachable
       ELSE unreachable' = unreachable \cup {r.ip} /\ UNCHANGED fatalErr
    /\ UNCHANGED <<pc, parentDone, poolCancelled, fpc, next, wpc, wip, wnote, resultsClosed,
                   outputVars, outcome, history>>

Collect ==
    /\ pc = "pool" /\ results # <<>> /\ results' = Tail(results)
    /\ LET r == Head(results) IN
       IF r.note # "noreply"
       THEN fatalErr' = (IF fatalErr = "nil" THEN r.note ELSE fatalErr) /\ UNCHANGED unreachable
       ELSE unreachable' = unreachable \cup {r.ip} /\ UNCHANGED fatalErr
    /\ UNCHANGED <<pc, parentDone, poolCancelled, fpc, next, wpc, wip, wnote, resultsClosed,
                   outputVars, outcome, history>>

\* The first error, then the context, then the list.
CollectEnd ==
    /\ pc = "pool" /\ resultsClosed /\ results = <<>>
    /\ \/ fatalErr = "canceled" /\ Return("canceled")
       \/ fatalErr = "fatal" /\ Return("error")
       \/ fatalErr = "nil" /\ parentDone /\ Return("canceled")
       \/ fatalErr = "nil" /\ ~parentDone /\ pc' = "listed" /\ UNCHANGED outcome
    /\ UNCHANGED <<parentDone, poolVars, collectVars, outputVars, history>>

\* The second look at the context; an interrupt after it comes too late.
CheckListed ==
    /\ pc = "listed"
    /\ IF parentDone THEN Return("canceled") ELSE pc' = "publish" /\ UNCHANGED outcome
    /\ UNCHANGED <<parentDone, poolVars, collectVars, outputVars, history>>

\* openUnreachableOutput creates the temporary file and its header.
CreateOutput ==
    /\ pc = "publish"
    /\ \/ pc' = "write" /\ tmp' = "header" /\ UNCHANGED outcome
       \/ Return("error") /\ tmp' \in {"none", "partial"}
    /\ UNCHANGED <<parentDone, poolVars, collectVars, published, printed, history>>

\* Every row is written and flushed, or Finalize(false) leaves the file behind.
WriteRows ==
    /\ pc = "write"
    /\ \/ pc' = "rename" /\ tmp' = "whole" /\ UNCHANGED outcome
       \/ Return("error") /\ tmp' = "partial"
    /\ UNCHANGED <<parentDone, poolVars, collectVars, published, printed, history>>

\* Finalize(true): close and rename.
RenameOutput ==
    /\ pc = "rename"
    /\ \/ pc' = "print" /\ tmp' = "none" /\ published' = unreachable /\ UNCHANGED outcome
       \/ Return("error") /\ UNCHANGED <<tmp, published>>
    /\ UNCHANGED <<parentDone, poolVars, collectVars, printed, history>>

PrintPath ==
    /\ pc = "print" /\ printed' = TRUE /\ Return("nil")
    /\ UNCHANGED <<parentDone, poolVars, collectVars, tmp, published, history>>

Main == Start \/ Collect \/ CollectEnd \/ CheckListed \/ CreateOutput \/ WriteRows
           \/ RenameOutput \/ PrintPath

Ended == pc \in {"done", "killed"} /\ UNCHANGED vars

Next ==
    \/ Main \/ FeedEnd \/ CloseResults \/ \E w \in Pool : Worker(w)
    \/ Interrupt \/ Kill \/ Ended

Spec == Init /\ [][Next]_vars

\* Goroutines that can move are scheduled, and a ping ends by its timeout.
FairSpec ==
    /\ Spec /\ WF_vars(Main) /\ WF_vars(FeedEnd) /\ WF_vars(CloseResults)
    /\ \A w \in Pool : WF_vars(Worker(w))

-----------------------------------------------------------------------------
(* What pre-ping promises *)

Notes == {"none", "reply", "noreply", "broken", "cut", "canceled", "fatal"}
Stages == {"select", "ping", "ctxcheck", "classify", "checked", "report", "fail", "cancel",
           "exited"}

FlagType ==
    /\ parentDone \in BOOLEAN /\ poolCancelled \in BOOLEAN
    /\ resultsClosed \in BOOLEAN /\ printed \in BOOLEAN

StateType ==
    /\ pc \in {"start", "pool", "listed", "publish", "write", "rename", "print", "done", "killed"}
    /\ fpc \in {"feed", "done"} /\ next \in 1..(NumIPs + 1)
    /\ wpc \in [Pool -> Stages] /\ wip \in [Pool -> 0..NumIPs] /\ wnote \in [Pool -> Notes]
    /\ results \in Seq([note : Notes, ip : IPs])
    /\ unreachable \subseteq IPs /\ fatalErr \in {"nil", "fatal", "canceled"}
    /\ tmp \in {"none", "header", "partial", "whole"}
    /\ published \subseteq 0..NumIPs
    /\ outcome \in {"none", "nil", "error", "canceled"}
    /\ answer \in [IPs -> Notes] /\ ticks \in Nat

\* The shape of the state.
TypeOK == FlagType /\ StateType

\* The list that generate-buckets reads exists only for a complete run of the
\* pool, and then names exactly the addresses that did not answer, whatever
\* errors, cancels and late results the workers had; its path is printed only
\* when the list is there.
PublishedIsTruth ==
    /\ published # NoFile =>
          /\ published = {i \in IPs : answer[i] = "noreply"}
          /\ \A i \in IPs : answer[i] \in {"reply", "noreply"}
    /\ outcome = "nil" <=> printed
    /\ printed => published # NoFile

\* Exit code 130 means that the operator cancelled: the cancel of the pool by a
\* failing worker never hides that worker's error behind "canceled".
CancelIsNotInvented == outcome = "canceled" => parentDone

\* Pre-ping always comes to an end: no worker, feeder or collector is left
\* waiting for another, whoever fails or cancels.
PrePingEnds == <>(pc \in {"done", "killed"})

-----------------------------------------------------------------------------
(* The inductive invariant *)

\* The places of a worker at which its address is not settled yet.
Holding == {"ping", "ctxcheck", "classify", "checked", "report", "fail", "cancel"}

\* A worker's note says what its ping did, as long as nothing was cancelled.
NoteInv ==
    \A w \in Pool :
        /\ wpc[w] \in Holding => wip[w] \in 1..(next - 1)
        /\ wpc[w] \in {"ctxcheck", "classify"} => wnote[w] \in {"noreply", "broken", "cut"}
        /\ wpc[w] \in {"ctxcheck", "classify"} => wnote[w] = answer[wip[w]]
        /\ wpc[w] = "ctxcheck" /\ wnote[w] = "cut" => RunDone
        /\ wpc[w] = "classify" => wnote[w] # "cut"
        /\ wpc[w] = "checked" =>
              wnote[w] \in {"reply", "noreply", "canceled", "fatal"}
        /\ wpc[w] \in {"checked", "report"} /\ wnote[w] \in {"reply", "noreply"} =>
              RunDone \/ wnote[w] = answer[wip[w]]
        /\ wpc[w] = "report" => wnote[w] = "noreply"
        /\ wpc[w] = "fail" => wnote[w] \in {"canceled", "fatal"}
        /\ wpc[w] \in {"checked", "fail"} /\ wnote[w] = "canceled" => RunDone

\* A real failure is on its way to the collector, or has been collected.
FailureKnown == fatalErr = "fatal" \/ \E k \in 1..Len(results) : results[k].note = "fatal"

\* Only the operator, or a failure that is known, cancels the pool, and before
\* any "canceled" that this cancel causes.
CancelInv ==
    /\ poolCancelled => parentDone \/ FailureKnown
    /\ \A w \in Pool : wpc[w] = "cancel" => parentDone \/ FailureKnown
    /\ fatalErr = "canceled" => parentDone
    /\ parentDone \/ fatalErr = "fatal" \/
          \A k \in 1..Len(results) : results[k].note = "canceled" =>
              \E j \in 1..(k - 1) : results[j].note = "fatal"
    /\ \A k \in 1..Len(results) : results[k].note \in {"noreply", "canceled", "fatal"}

\* The collector has this address, or will get it.
Reported(i) ==
    \/ i \in unreachable
    \/ \E k \in 1..Len(results) : results[k] = [note |-> "noreply", ip |-> i]

Settled(i) == answer[i] = "reply" \/ (answer[i] = "noreply" /\ Reported(i))

Held(i) == \E w \in Pool : wpc[w] \in Holding /\ wip[w] = i

\* As long as nothing was cancelled, every address that was handed out is with
\* a worker or settled, only a missing reply is reported, and nobody leaves early.
CompleteInv ==
    ~RunDone =>
        /\ \A i \in 1..(next - 1) : Settled(i) \/ Held(i)
        /\ \A i \in IPs : Reported(i) => answer[i] = "noreply"
        /\ fpc = "done" => next > NumIPs
        /\ \A w \in Pool : wpc[w] = "exited" => fpc = "done"

\* No two workers have the same address, and nothing ahead of the feeder was pinged.
OnceInv ==
    /\ \A v, w \in Pool :
          wpc[v] \in Holding /\ wpc[w] \in Holding /\ wip[v] = wip[w] => v = w
    /\ \A w \in Pool : wpc[w] = "ping" => answer[wip[w]] = "none"
    /\ \A i \in next..NumIPs : answer[i] = "none"

Complete ==
    /\ unreachable = {i \in IPs : answer[i] = "noreply"}
    /\ \A i \in IPs : answer[i] \in {"reply", "noreply"}

\* The order of RunPrePing: nothing is written before the list is complete.
OutputInv ==
    /\ pc = "pool" => NumIPs > 0
    /\ pc = "start" => next = 1 /\ results = <<>> /\ unreachable = {}
    /\ resultsClosed => \A w \in Pool : wpc[w] = "exited"
    /\ pc \in {"listed", "publish", "write", "rename", "print"} => Complete /\ outcome = "none"
    /\ pc \in {"start", "pool"} => published = NoFile /\ ~printed /\ outcome = "none"
    /\ pc \in {"listed", "publish", "write", "rename"} => published = NoFile /\ ~printed
    /\ pc = "print" => ~printed
    /\ published # NoFile => Complete /\ published = unreachable
    /\ pc = "print" => published # NoFile
    /\ outcome = "nil" <=> printed
    /\ printed => published # NoFile
    /\ outcome = "canceled" => parentDone

\* The pool loses no address and no failure on its way to the list: the
\* inductive invariant behind the promises.
PrePingInv ==
    /\ TypeOK /\ NoteInv /\ CancelInv /\ CompleteInv /\ OnceInv /\ OutputInv
=============================================================================
