---------------------------- MODULE ResultFiles ----------------------------
(***************************************************************************)
(* The result files of a scan, record by record, over the runs that append *)
(* to them: how a run finds or names them, what the buffered CSV writers   *)
(* leave on the disk when a run is stopped, fails or is killed, and what a *)
(* later run makes of that.  ScanPipeline has sets of rows; here a file is *)
(* the sequence of its records.                                            *)
(*                                                                         *)
(* A record is the row of a task, or a Mark: a header, an older build's    *)
(* header, a torn record (the beginning of one, at the end of the file), a *)
(* bare header (all of it but the newline) or a glued record (one of these *)
(* two and what was appended to it, on one line).  A torn record ends in   *)
(* an unquoted field; within a quoted one it would swallow more than one   *)
(* line.                                                                   *)
(*                                                                         *)
(* The scan has one chunk.  The workers are the set of the tasks that were *)
(* dispatched and have no result yet: results come in any order.           *)
(***************************************************************************)
EXTENDS Integers, FiniteSets, SequencesExt

CONSTANTS
    Nil,
    NumTasks,        \* the tasks 1..NumTasks are dispatched in this order
    FlushInterval,   \* -output-flush-results; 0 leaves only the last flush
    DialErrors,      \* what a dial may return: [errno, timeout]; Nil is success
    GOOS,
    Kills,           \* may the process be killed?
    MaxSeq,          \* the last -n suffix that is tried
    MaxRuns          \* bound: starts of the scan

ASSUME FilesAssumption ==
    NumTasks \in Nat /\ FlushInterval \in Nat /\ MaxSeq \in Nat /\ MaxRuns \in Nat

ASSUME KillsAssumption == Kills \in BOOLEAN

Kinds == {"scan", "open"}

\* Where a run is while it opens a file, and while it writes the header of it.
Opening == [scan |-> "open scan", open |-> "open opened"]
Heading == [scan |-> "head scan", open |-> "head opened"]

\* Where it is when both are open.
Scanning == {"scan", "stopping", "failed"}

Mark(m) == [task |-> 0, status |-> m]

\* How the last record of a file may be cut, and the records that end without a newline.
Cuts == {"none", "torn", "bare"}
Unended == {Mark("torn"), Mark("bare")}

VARIABLES
    files,       \* by kind and suffix, the records; Nil: no such file
    unreachable, \* suffixes that pre-ping has used in this second
    saved,       \* the snapshot: [seq, next], seq = Nil before the first save
    pc, seq, append,   \* the run, the suffix of its files, is it a resume?
    stream,      \* by kind, the records that the run gave to the writer
    onDisk,      \* by kind, how many of them were flushed
    cursor,      \* NextIndex: the tasks up to here were dispatched
    queued,      \* those of them without a result, queued or with a worker
    unwritten,   \* the first task that was marked as unwritten; 0: none
    summary,     \* of the committed rows of the run, by status
    told,        \* history: the files and the progress of the last run that kept its progress
    reported,    \* history: the completion summary of the last run; Nil: it has emitted none
    tears,       \* history: how often a run has left a cut record in a scan file
    lost,        \* history: the operator removed, emptied or replaced a file
    runs

fileVars   == <<files, unreachable>>
streamVars == <<stream, onDisk>>
runVars    == <<cursor, queued, unwritten, summary>>
histVars   == <<told, reported, tears, lost, runs>>
vars       == <<fileVars, saved, pc, seq, append, streamVars, runVars, histVars>>

-----------------------------------------------------------------------------
(* pkg/scanner *)

LocalErrnos(goos) ==
    {"EACCES", "EPERM", "EADDRNOTAVAIL", "EADDRINUSE", "ENOBUFS", "EMFILE", "ENFILE", "ENOMEM"}
    \cup IF goos = "windows"
         THEN {"WSAEACCES", "WSAEMFILE", "WSAEADDRINUSE", "WSAEADDRNOTAVAIL", "WSAENOBUFS", "WSAEPROCLIM"}
         ELSE {}

RefusedErrnos(goos) ==
    {"ECONNREFUSED", "ECONNRESET"}
    \cup IF goos = "windows" THEN {"WSAECONNREFUSED", "WSAECONNRESET"} ELSE {}

TimeoutErrnos(goos) == {"ETIMEDOUT"} \cup IF goos = "windows" THEN {"WSAETIMEDOUT"} ELSE {}

\* A known errno decides; only then the error is asked whether it is a timeout.
ClassifyDialError(goos, err) ==
    CASE err = Nil                           -> "open"
      [] err.errno \in LocalErrnos(goos)     -> "local_resource"
      [] err.errno \in RefusedErrnos(goos)   -> "refused"
      [] err.errno \in TimeoutErrnos(goos)   -> "timeout"
      [] OTHER -> IF err.timeout THEN "timeout" ELSE "indeterminate"

StatusForOutcome(outcome) ==
    CASE outcome = "open"           -> "open"
      [] outcome = "refused"        -> "close"
      [] outcome = "timeout"        -> "close(timeout)"
      [] outcome = "local_resource" -> "error(local)"
      [] OTHER                      -> "unknown"

Statuses == {"open", "close", "close(timeout)", "error(local)", "unknown"}

ScanTCP(err) == StatusForOutcome(ClassifyDialError(GOOS, err))

-----------------------------------------------------------------------------
(* Files *)

\* What follows a record without a newline is on its line.
Joined(base, tail) ==
    IF tail = <<>> \/ base = <<>> \/ Last(base) \notin Unended THEN base \o tail
    ELSE Front(base) \o <<IF Head(tail) \in Unended THEN Mark("torn") ELSE Mark("glued")>> \o Tail(tail)

Flushed(k, n, cut) == SubSeq(stream[k], 1, n) \o IF cut = "none" THEN <<>> ELSE <<Mark(cut)>>

\* The file as it is on the disk while the run has it open.
Content(k, n, cut) == Joined(files[k][seq], Flushed(k, n, cut))

NoStream ==
    /\ stream' = [k \in Kinds |-> <<>>] /\ onDisk' = [k \in Kinds |-> 0]

\* The run ends, files k hold n[k] of its records and perhaps a part of one more.
Leave(n, cut) ==
    /\ files' = [k \in Kinds |-> IF files[k][seq] = Nil THEN files[k]
                                 ELSE [files[k] EXCEPT ![seq] = Content(k, n[k], cut[k])]]
    /\ tears' = IF cut["scan"] = "none" THEN tears ELSE tears + 1
    /\ pc' = "down" /\ seq' = 0 /\ append' = FALSE /\ NoStream
    /\ cursor' = 0 /\ queued' = {} /\ unwritten' = 0 /\ summary' = [s \in Statuses |-> 0]
    /\ UNCHANGED <<unreachable, lost, runs>>

\* What a write or a flush that fails, or a kill, leaves of the records that were
\* not flushed: a full buffer is written wherever a record may be cut, and a write
\* that fails may have written a part.
Remains(n, cut) ==
    \A k \in Kinds :
        /\ n[k] \in onDisk[k]..Len(stream[k])
        /\ cut[k] # "none" => n[k] < Len(stream[k])
        /\ cut[k] = "bare" => stream[k][n[k] + 1] = Mark("header")

\* The run ends with its files as a failure or a kill has left them.
LeaveSome ==
    \E n \in [Kinds -> 0..(NumTasks + 1)], cut \in [Kinds -> Cuts] : Remains(n, cut) /\ Leave(n, cut)

Init ==
    /\ files = [k \in Kinds |-> [n \in 0..MaxSeq |-> Nil]]
    /\ unreachable \in SUBSET {0}
    /\ saved = [seq |-> Nil, next |-> 0]
    /\ pc = "down" /\ seq = 0 /\ append = FALSE
    /\ stream = [k \in Kinds |-> <<>>] /\ onDisk = [k \in Kinds |-> 0]
    /\ cursor = 0 /\ queued = {} /\ unwritten = 0 /\ summary = [s \in Statuses |-> 0]
    /\ told = saved /\ reported = Nil /\ tears = 0 /\ lost = FALSE /\ runs = 0

-----------------------------------------------------------------------------
(* The start of a run *)

\* Mutant: only the scan file is looked for.
FreeScanName(n) == files["scan"][n] = Nil

FreeName(n) == files["scan"][n] = Nil /\ files["open"][n] = Nil /\ n \notin unreachable

\* resolveBatchOutputPaths: the first suffix without any of the three files.
FirstFree(n) == FreeName(n) /\ \A m \in 0..(n - 1) : ~FreeName(m)

Begin(n, again) ==
    /\ seq' = n /\ append' = again /\ pc' = Opening["scan"] /\ NoStream
    /\ cursor' = saved.next /\ reported' = Nil /\ runs' = runs + 1
    /\ UNCHANGED <<fileVars, saved, queued, unwritten, summary, told, tears, lost>>

\* Bound: a scan that has finished is not started again from the same snapshot.
Start ==
    /\ pc = "down" /\ runs < MaxRuns /\ told.next < NumTasks
    /\ IF saved.seq # Nil THEN Begin(saved.seq, TRUE)
       ELSE \E n \in 0..MaxSeq : FirstFree(n) /\ Begin(n, FALSE)

\* "failed to allocate unique batch output paths"
NoNameLeft ==
    /\ pc = "down" /\ runs < MaxRuns /\ saved.seq = Nil /\ ~\E n \in 0..MaxSeq : FreeName(n)
    /\ runs' = runs + 1
    /\ UNCHANGED <<fileVars, saved, pc, seq, append, streamVars, runVars, told, reported, tears, lost>>

\* Mutant: an appending run writes its header whenever it has one.
HeaderAlways(lines) == TRUE

\* validateAppendHeader: a file that is empty or new needs a header.
NeedsHeader(lines) == lines = <<>>

Opened(k) == IF ~append \/ files[k][seq] = Nil THEN <<>> ELSE files[k][seq]

\* The first line is compared without its newline, and the end of the file may end it.
HeaderMatches(k) == Opened(k) # <<>> => Head(Opened(k)) \in {Mark("header"), Mark("bare")}

\* openResultCSV: a fresh run creates or empties the file, a resumed one appends.
OpenFile(k) ==
    /\ pc = Opening[k] /\ HeaderMatches(k)
    /\ files' = [files EXCEPT ![k][seq] = Opened(k)]
    /\ stream' = [stream EXCEPT ![k] = IF NeedsHeader(Opened(k)) THEN <<Mark("header")>> ELSE <<>>]
    /\ pc' = Heading[k]
    /\ UNCHANGED <<unreachable, saved, seq, append, onDisk, runVars, histVars>>

\* scanWriterForMode flushes the header before anything else happens.
WriteHeader(k) ==
    /\ pc = Heading[k] /\ onDisk' = [onDisk EXCEPT ![k] = Len(stream[k])]
    /\ pc' = IF k = "scan" THEN Opening["open"] ELSE "scan"
    /\ UNCHANGED <<fileVars, saved, seq, append, stream, runVars, histVars>>

\* The directory or a file cannot be made, the header of the file is another one,
\* or a header cannot be written: the run ends before the first probe and without
\* a save.
StartFails ==
    /\ \E k \in Kinds : pc \in {Opening[k], Heading[k]}
    /\ LeaveSome
    /\ UNCHANGED <<saved, told, reported>>

-----------------------------------------------------------------------------
(* The run *)

\* OpenOnlyWriter drops every other status.
RowsFor(k, row) == IF k = "scan" \/ row.status = "open" THEN <<row>> ELSE <<>>

\* A task is queued, then the cursor passes it.
Dispatch ==
    /\ pc = "scan" /\ cursor < NumTasks
    /\ cursor' = cursor + 1 /\ queued' = queued \cup {cursor + 1}
    /\ UNCHANGED <<fileVars, saved, pc, seq, append, streamVars, unwritten, summary, histVars>>

\* An interrupt, a fatal pressure error or the panic of a worker: no more tasks are
\* dispatched and no more probes begin.
Stop ==
    /\ pc = "scan" /\ pc' = "stopping"
    /\ UNCHANGED <<fileVars, saved, seq, append, streamVars, runVars, histVars>>

\* The rows of the current batch are those that were not flushed.
Pending == (onDisk["scan"] + 1)..Len(stream["scan"])

\* The result of any of the tasks; the committer gives it to both writers.
Accept(t) ==
    /\ pc \in {"scan", "stopping"} /\ t \in queued
    /\ FlushInterval > 0 => Cardinality(Pending) < FlushInterval
    /\ \E err \in DialErrors :
          stream' = [k \in Kinds |-> stream[k] \o RowsFor(k, [task |-> t, status |-> ScanTCP(err)])]
    /\ queued' = queued \ {t}
    /\ UNCHANGED <<fileVars, saved, pc, seq, append, onDisk, cursor, unwritten, summary, histVars>>

\* Mutant: the tracker keeps the last task that was marked.
MarkLast(t) == unwritten' = t

\* The tracker keeps the first task that was marked.
MarkUnwritten(t) == unwritten' = IF unwritten = 0 \/ t < unwritten THEN t ELSE unwritten

\* A result after the failure is not written but marked.
AcceptLate(t) ==
    /\ pc = "failed" /\ t \in queued /\ queued' = queued \ {t} /\ MarkUnwritten(t)
    /\ UNCHANGED <<fileVars, saved, pc, seq, append, streamVars, cursor, summary, histVars>>

\* A worker gives back a task without a probe, or the one at which it panicked.
Abandon(t) ==
    /\ pc \in {"stopping", "failed"} /\ t \in queued /\ queued' = queued \ {t} /\ MarkUnwritten(t)
    /\ UNCHANGED <<fileVars, saved, pc, seq, append, streamVars, cursor, summary, histVars>>

\* How many of these records have a status.
Tally(lines, idx, s) == Cardinality({i \in idx : lines[i].status = s})

\* mergeSummary: the rows of the current batch are added, by status.
Counted == [s \in Statuses |-> summary[s] + Tally(stream["scan"], Pending, s)]

\* Both writers are flushed; only then the batch counts.
Commit ==
    /\ pc \in {"scan", "stopping"} /\ Pending # {} /\ Cardinality(Pending) = FlushInterval
    /\ onDisk' = [k \in Kinds |-> Len(stream[k])] /\ summary' = Counted
    /\ UNCHANGED <<fileVars, saved, pc, seq, append, stream, cursor, queued, unwritten, histVars>>

\* A write or a flush fails: the first task of the batch is marked and the run is
\* cancelled.  What is on the disk shows at the end; flush goes on with the second
\* file when the first has failed.
OutputFails ==
    /\ pc \in {"scan", "stopping"}
    /\ \E i \in Pending : /\ \A j \in Pending : stream["scan"][i].task <= stream["scan"][j].task
                          /\ MarkUnwritten(stream["scan"][i].task)
    /\ pc' = "failed"
    /\ UNCHANGED <<fileVars, saved, seq, append, streamVars, cursor, queued, summary, histVars>>

\* RewindUnwritten, before the save: back to the first task that was marked.
RewindUnwritten == IF unwritten = 0 THEN cursor ELSE unwritten - 1

\* persistResumeSnapshot: a run that left something saves, and one that has failed or
\* was cancelled may; the save may fail.  A run that leaves nothing has nothing to save.
Persist ==
    LET now == [seq |-> seq, next |-> RewindUnwritten] IN
    \/ (now.next < NumTasks \/ pc # "scan") /\ saved' = now /\ told' = now
    \/ (now.next < NumTasks \/ pc # "scan") /\ UNCHANGED <<saved, told>>
    \/ now.next = NumTasks /\ told' = now /\ UNCHANGED saved

\* Every channel is drained: the last flush, the save, and the completion summary.
Finish ==
    /\ pc \in {"scan", "stopping"} /\ queued = {} /\ (pc = "scan" => cursor = NumTasks)
    /\ Leave([k \in Kinds |-> Len(stream[k])], [k \in Kinds |-> "none"])
    /\ Persist /\ reported' = Counted

\* Mutant: a batch counts although its flush has failed.
CountAnyway == Counted

CountOnFailure == summary

\* The same after a failure: nothing more is flushed.
FinishFailed ==
    /\ pc = "failed" /\ queued = {}
    /\ LeaveSome
    /\ Persist /\ reported' = CountOnFailure

\* A second interrupt, or a kill: the buffers are gone and nothing is saved.
Kill ==
    /\ Kills /\ pc # "down"
    /\ LeaveSome
    /\ UNCHANGED <<saved, told, reported>>

\* Between the runs a file may be removed or emptied, or one of an older build put
\* there; bound: once for each snapshot.
Operator ==
    /\ pc = "down" /\ ~lost /\ lost' = TRUE
    /\ \E k \in Kinds, n \in 0..MaxSeq, lines \in {Nil, <<>>, <<Mark("older")>>} :
          files[k][n] # Nil /\ files' = [files EXCEPT ![k][n] = lines]
    /\ UNCHANGED <<unreachable, saved, pc, seq, append, streamVars, runVars, told, reported, tears, runs>>

\* generate-buckets writes a snapshot without progress and without paths; bound: it
\* counts as a start.
NewSnapshot ==
    /\ pc = "down" /\ told.seq # Nil /\ runs < MaxRuns
    /\ saved' = [seq |-> Nil, next |-> 0] /\ told' = saved' /\ reported' = Nil
    /\ tears' = 0 /\ lost' = FALSE /\ runs' = runs + 1
    /\ UNCHANGED <<fileVars, pc, seq, append, streamVars, runVars>>

\* The bound on runs is reached.
Ended == pc = "down" /\ runs = MaxRuns /\ UNCHANGED vars

Next ==
    \/ Start \/ NoNameLeft \/ StartFails \/ Dispatch \/ Stop \/ Commit \/ OutputFails
    \/ \E t \in queued : Accept(t) \/ AcceptLate(t) \/ Abandon(t)
    \/ Finish \/ FinishFailed \/ Kill
    \/ \E k \in Kinds : OpenFile(k) \/ WriteHeader(k)
    \/ Operator \/ NewSnapshot \/ Ended

Spec == Init /\ [][Next]_vars

-----------------------------------------------------------------------------
(* What the files promise *)

\* Every record that ends in a newline is where it was.
Kept(old, new) ==
    \A i \in DOMAIN old : old[i] \notin Unended => i \in DOMAIN new /\ new[i] = old[i]

TaskHasRow(t) == \E r \in ToSet(files["scan"][told.seq]) : r.task = t

Unrecorded == {t \in 1..told.next : ~TaskHasRow(t)}

\* What a stop may cost: after any number of failed writes, late and abandoned
\* results, failed saves, kills and resumed runs a task that a run has left as done
\* has a readable row, except for one task per cut record, the one that
\* openResultCSV let the next run append to it.
LossIsBounded == pc = "down" /\ told.seq # Nil /\ ~lost => Cardinality(Unrecorded) <= tears

\* A file that holds rows begins with the header of this build and has no other,
\* however often it was left and opened again, removed, emptied or replaced.  After a
\* write that was cut exactly before the newline of the header validateAppendHeader
\* takes it for whole: there a row is glued to the header.
OneHeader ==
    \A k \in Kinds, n \in 0..MaxSeq :
        pc = "down" /\ files[k][n] # Nil /\ (\E r \in ToSet(files[k][n]) : r.task > 0) =>
            /\ Head(files[k][n]) \in {Mark("header"), Mark("glued")}
            /\ \A i \in 2..Len(files[k][n]) : files[k][n][i] # Mark("header")

Total(counts) ==
    counts["open"] + counts["close"] + counts["close(timeout)"] + counts["error(local)"] + counts["unknown"]

EndsTorn(lines) == lines # <<>> /\ Last(lines) \in Unended

RowCount(lines, s) == Tally(lines, DOMAIN lines, s)

\* What the completion summary of a run says, whatever has failed and in whatever order
\* the results came.  By status it counts rows that this run has added to the scan
\* file, all of them when no write has failed, but for one that was glued to a cut
\* record; and the run moves the cursor over no more tasks than it reports.
SummaryIsTrue ==
    [][pc # "down" /\ pc' = "down" /\ reported' # Nil =>
          LET old == files["scan"][seq]
              new == files'["scan"][seq]
          IN /\ \A s \in Statuses :
                   /\ reported'[s] <= RowCount(new, s) - RowCount(old, s) + IF EndsTorn(old) THEN 1 ELSE 0
                   /\ pc # "failed" => RowCount(new, s) - RowCount(old, s) <= reported'[s]
             /\ told'.next - told.next <= Total(reported')]_vars

\* No run takes a record out of a result file, or moves one: a new run never gets the
\* name of an old one, a resumed one never empties what it opens.  Only a cut record
\* may become another one.
RowsStay ==
    [][pc # "down" =>
          \A k \in Kinds, n \in 0..MaxSeq :
              files[k][n] # Nil => Kept(files[k][n], files'[k][n])]_vars

\* The claim of README.md: "The resumed run covers every target and appends to the
\* recorded output files", after an output write has failed.
CoversEveryTarget ==
    pc = "down" /\ told.seq # Nil /\ told.next = NumTasks /\ ~lost => Unrecorded = {}
-----------------------------------------------------------------------------
(* Why it holds *)

Records ==
    [task : Nat, status : {ScanTCP(err) : err \in DialErrors} \cup {"header", "older", "torn", "bare", "glued"}]

ASSUME NilAssumption == Nil \notin Nat /\ Nil \notin Seq(Records)

\* The shape of the state.
FilesTypeOK ==
    /\ files \in [Kinds -> [0..MaxSeq -> {Nil} \cup Seq(Records)]]
    /\ saved \in [seq : {Nil} \cup 0..MaxSeq, next : 0..NumTasks]
    /\ told \in [seq : {Nil} \cup 0..MaxSeq, next : 0..NumTasks]
    /\ pc \in {"down", "open scan", "head scan", "open opened", "head opened"} \cup Scanning
    /\ seq \in 0..MaxSeq /\ append \in BOOLEAN /\ lost \in BOOLEAN
    /\ stream \in [Kinds -> Seq(Records)] /\ onDisk \in [Kinds -> Nat]
    /\ cursor \in 0..NumTasks /\ queued \subseteq 1..NumTasks /\ unwritten \in 0..NumTasks
    /\ tears \in Nat

\* The run has file k open.
HasOpen(k) ==
    \/ pc \in Scanning \/ pc = Heading[k]
    \/ k = "scan" /\ pc \in {Opening["open"], Heading["open"]}

\* A run goes on where the last one has stopped, or has new files to itself.
RunInv ==
    /\ told.next < NumTasks => saved = told
    /\ told.seq = Nil => told.next = 0
    /\ told.seq # Nil /\ ~lost => files["scan"][told.seq] # Nil
    /\ pc # "down" =>
        /\ told.next < NumTasks /\ (append <=> saved.seq # Nil) /\ (append => seq = saved.seq)
        /\ ~append => \A k \in Kinds : files[k][seq] = IF HasOpen(k) THEN <<>> ELSE Nil
        /\ pc \notin Scanning => cursor = saved.next
    /\ pc \notin Scanning => queued = {} /\ unwritten = 0

\* What a run writes begins with a header exactly when the file is empty.
StreamInv ==
    \A k \in Kinds :
        IF HasOpen(k)
        THEN /\ files[k][seq] # Nil
             /\ \A i \in DOMAIN stream[k] : i > 1 => stream[k][i].task > 0
             /\ IF files[k][seq] = <<>> THEN stream[k] # <<>> /\ stream[k][1] = Mark("header")
                ELSE /\ files[k][seq][1] \in {Mark("header"), Mark("bare")}
                     /\ \A i \in DOMAIN stream[k] : stream[k][i].task > 0
        ELSE stream[k] = <<>> /\ onDisk[k] = 0

\* One header before the rows; nothing comes after a bare one.
HeadedOnce(lines) ==
    \A i \in DOMAIN lines : /\ i > 1 => lines[i] # Mark("header") /\ lines[1] # Mark("bare")
                            /\ lines[i].task > 0 => lines[1] \in {Mark("header"), Mark("glued")}

HeaderInv == \A k \in Kinds, n \in 0..MaxSeq : files[k][n] # Nil => HeadedOnce(files[k][n])

\* The tasks before the cursor that have no row, and one more when the next record
\* would be glued to a cut one.
Missing(lines, next) == {t \in 1..next : ~\E i \in DOMAIN lines : lines[i].task = t}

Cost(lines, next) == Cardinality(Missing(lines, next)) + IF EndsTorn(lines) THEN 1 ELSE 0

\* A task that was dispatched is waited for, or it is not before the first one that is
\* marked, or it has a row; after a failure, a row that was flushed.
Settled(t) ==
    \/ t \in queued
    \/ unwritten # 0 /\ unwritten <= t
    \/ \E i \in DOMAIN stream["scan"] : stream["scan"][i].task = t /\ (pc = "failed" => i <= onDisk["scan"])

RowsInv ==
    /\ onDisk["scan"] <= Len(stream["scan"])
    /\ HasOpen("scan") /\ pc # Heading["scan"] /\ files["scan"][seq] = <<>> => onDisk["scan"] >= 1
    /\ \A i \in DOMAIN stream["scan"] :
          stream["scan"][i].task > 0 => stream["scan"][i].task \in (saved.next + 1)..cursor
    /\ pc \in Scanning =>
        /\ saved.next <= cursor /\ unwritten \in {0} \cup (saved.next + 1)..cursor
        /\ queued \subseteq (saved.next + 1)..cursor
        /\ \A t \in (saved.next + 1)..cursor : Settled(t)

CostInv == told.seq # Nil /\ ~lost => Cost(files["scan"][told.seq], told.next) <= tears

\* A summary is a tally of what its run has flushed.
CountInv ==
    /\ summary = [s \in Statuses |-> Tally(stream["scan"], 1..onDisk["scan"], s)]
    /\ \A i \in DOMAIN stream["scan"] : stream["scan"][i].task > 0 => stream["scan"][i].status \in Statuses
    /\ pc # "down" => reported = Nil

FilesInv == FilesTypeOK /\ RunInv /\ StreamInv /\ HeaderInv /\ RowsInv /\ CostInv
=============================================================================
