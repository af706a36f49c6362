---------------------------- MODULE SnapshotSave ----------------------------
(***************************************************************************)
(* pkg/state: how the bucket snapshot is replaced on disk.  Each save      *)
(* writes a temporary sibling file and renames it over the destination;    *)
(* every filesystem call may fail, and the process or the machine may stop *)
(* between any two of them.  ScanPipeline takes the result, a save that    *)
(* replaces the whole snapshot or leaves the old one, as one step.         *)
(***************************************************************************)
EXTENDS Integers

CONSTANTS MaxSaves   \* bound: saves attempted

ASSUME SaveAssumption == MaxSaves \in Nat

Torn == -1     \* a destination that no load accepts
Absent == 0    \* no destination; snapshots are numbered from 1

VARIABLES
    dest,       \* the snapshot at the destination path
    destSynced, \* its bytes survive a power failure: "yes" or "no"
    older,      \* what the path falls back to when the rename is lost with the power
    temp,       \* the temporary file of this save: "none", "empty", "partial", "whole"
    synced,     \* the temporary file's bytes survive a power failure
    spc,        \* the next call of the save
    version,    \* the snapshot that is being saved, or was saved last
    previous,   \* the destination when the save began
    stat,       \* the answer of os.Stat: "exists", "absent" or "unknown"
    result,     \* what the save reported
    removeErr   \* "reported": the temporary file could not be removed

fileVars == <<dest, destSynced, older>>
tempVars == <<temp, synced>>
saveVars == <<version, previous, stat>>
vars     == <<fileVars, tempVars, spc, saveVars, result, removeErr>>

Init ==
    /\ dest = Absent /\ destSynced = "yes" /\ older = Absent
    /\ temp = "none" /\ synced = "no" /\ spc = "idle"
    /\ version = 0 /\ previous = Absent /\ stat = "absent"
    /\ result = "none" /\ removeErr = "none"

\* saveSnapshotWithFileOps: os.Stat, whose failure is remembered, then the limits.
Begin ==
    /\ spc = "idle" /\ version < MaxSaves
    /\ version' = version + 1 /\ previous' = dest
    /\ stat' \in {"unknown", IF dest = Absent THEN "absent" ELSE "exists"}
    /\ temp' = "none" /\ result' = "none" /\ removeErr' = "none" /\ spc' = "limits"
    /\ UNCHANGED <<fileVars, synced>>

\* validateSnapshotLimits refuses an oversized snapshot before any file exists.
CheckLimits ==
    /\ spc = "limits"
    /\ \/ spc' = "create" /\ UNCHANGED result
       \/ spc' = "idle" /\ result' = "refused"
    /\ UNCHANGED <<fileVars, tempVars, saveVars, removeErr>>

\* Mutant: the report counts on a previous snapshot.
ReportAssumes == spc' = "idle" /\ result' = "previous usable"

\* The report of a failed write, from the stat taken before it.
Report ==
    /\ spc' = "idle"
    /\ result' = CASE stat = "exists" -> "previous usable"
                   [] stat = "absent" -> "no previous"
                   [] OTHER -> "previous unknown"

CreateTemp ==
    /\ spc = "create"
    /\ \/ temp' = "empty" /\ synced' = "no" /\ spc' = "chmod" /\ UNCHANGED result
       \/ Report /\ UNCHANGED tempVars
    /\ UNCHANGED <<fileVars, saveVars, removeErr>>

\* One call of writeSnapshotViaTempRename: it succeeds, or the deferred clean-up
\* is next.
Stage(from, to) ==
    /\ spc = from /\ (spc' = to \/ spc' = "cleanup")
    /\ UNCHANGED <<fileVars, saveVars, result, removeErr>>

Chmod == Stage("chmod", "encode") /\ UNCHANGED tempVars

\* Mutant: the snapshot is written in place.
EncodeInPlace ==
    /\ spc = "encode" /\ spc' \in {"flush", "cleanup"}
    /\ dest' = Torn /\ temp' = "partial"
    /\ UNCHANGED <<destSynced, older, synced, saveVars, result, removeErr>>

\* encodeSnapshot fills the buffer; part of it may reach the file already.
Encode == Stage("encode", "flush") /\ temp' = "partial" /\ UNCHANGED synced

\* Mutant: an incomplete flush goes on.
FlushIgnoresError ==
    /\ spc = "flush" /\ spc' = "sync" /\ temp' \in {"whole", "partial"}
    /\ UNCHANGED <<fileVars, saveVars, result, removeErr, synced>>

Flush ==
    /\ Stage("flush", "sync")
    /\ temp' = IF spc' = "sync" THEN "whole" ELSE temp
    /\ UNCHANGED synced

Sync ==
    /\ Stage("sync", "close")
    /\ synced' = IF spc' = "close" THEN "yes" ELSE "no"
    /\ UNCHANGED temp

Close == Stage("close", "rename") /\ UNCHANGED tempVars

\* os.Rename replaces the destination or leaves it.  The new directory entry may
\* not be on disk yet.
Rename ==
    /\ spc = "rename"
    /\ \/ /\ dest' = IF temp = "whole" THEN version ELSE Torn
          /\ destSynced' = synced /\ older' = dest
          /\ temp' = "none" /\ spc' = "idle" /\ result' = "saved"
       \/ spc' = "cleanup" /\ UNCHANGED <<fileVars, temp, result>>
    /\ UNCHANGED <<synced, saveVars, removeErr>>

\* The deferred close and remove; a failed remove joins the report.
Cleanup ==
    /\ spc = "cleanup" /\ Report
    /\ \/ temp' = "none" /\ UNCHANGED removeErr
       \/ removeErr' = "reported" /\ UNCHANGED temp
    /\ UNCHANGED <<fileVars, synced, saveVars>>

\* The process is killed: the files stay as they are.
Kill ==
    /\ spc # "idle" /\ spc' = "idle" /\ result' = "killed"
    /\ UNCHANGED <<fileVars, tempVars, saveVars, removeErr>>

\* The machine loses its power: bytes that were not synced, and a rename that
\* has not reached the disk, may be gone.
PowerFailure ==
    /\ spc' = "idle" /\ result' = "killed"
    /\ dest' \in {older, IF destSynced = "yes" THEN dest ELSE Torn}
    /\ older' = dest' /\ destSynced' = "yes"
    /\ UNCHANGED <<tempVars, saveVars, removeErr>>

Save ==
    \/ Begin \/ CheckLimits \/ CreateTemp \/ Chmod \/ Encode \/ Flush \/ Sync \/ Close
    \/ Rename \/ Cleanup

Next == Save \/ Kill \/ PowerFailure

Spec == Init /\ [][Next]_vars

-----------------------------------------------------------------------------
(* What a save promises *)

Stages == {"chmod", "encode", "flush", "sync", "close", "rename"}

\* The shape of the state.
TypeOK ==
    /\ dest \in Nat \cup {Torn} /\ older \in Nat \cup {Torn}
    /\ temp \in {"none", "empty", "partial", "whole"}
    /\ spc \in {"idle", "limits", "create", "cleanup"} \cup Stages
    /\ version \in Nat /\ previous \in Nat \cup {Torn}
    /\ stat \in {"exists", "absent", "unknown"} /\ removeErr \in {"none", "reported"}
    /\ destSynced \in {"yes", "no"} /\ synced \in {"yes", "no"}

\* Whatever call fails and whenever the process or the machine stops, the
\* destination is absent or a whole snapshot: the next run can load it.
DestinationIsWhole == dest # Torn

\* What a failed save tells the operator about the previous snapshot is true,
\* and a save that reports success is the one on disk.
ReportIsTrue ==
    /\ result = "previous usable" => dest = previous /\ dest # Absent
    /\ result = "no previous" => dest = previous /\ dest = Absent
    /\ result \in {"previous unknown", "refused"} => dest = previous
    /\ result = "saved" => dest = version

\* A save that was not killed leaves no temporary file beside the snapshot,
\* unless it reports that the file could not be removed.
CleanDirectory == spc = "idle" /\ temp # "none" => result = "killed" \/ removeErr = "reported"

\* In the steps of the process the destination only ever changes from the
\* snapshot before the save to the one that is being saved.
OldOrNew == [][Save => dest' = dest \/ (dest = previous /\ dest' = version)]_vars

\* Before the rename the destination is the one the save began with, the
\* temporary file has what the calls so far have put there, and what is at the
\* destination has been synced.
SaveInv ==
    /\ TypeOK /\ DestinationIsWhole /\ CleanDirectory /\ ReportIsTrue
    /\ older # Torn /\ destSynced = "yes"
    /\ spc # "idle" => dest = previous /\ result = "none"
    /\ spc # "idle" /\ stat = "exists" => dest # Absent
    /\ spc # "idle" /\ stat = "absent" => dest = Absent
    /\ spc \in {"limits", "create"} => temp = "none"
    /\ spc \in {"sync", "close", "rename"} => temp = "whole"
    /\ spc \in {"close", "rename"} => synced = "yes"
=============================================================================
