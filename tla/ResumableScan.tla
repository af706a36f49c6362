-------------------------- MODULE ResumableScan --------------------------
(***************************************************************************)
(* What a resumable scan promises to its operator, with the goroutines     *)
(* hidden: a run adds rows to the result files; when it ends, by itself or *)
(* not, the snapshot is the old one or one whose cursors have moved forward*)
(* over rows that are all in the files.                                    *)
(***************************************************************************)
EXTENDS Integers

CONSTANTS
    Chunks,
    Tasks     \* the rows of a complete scan, pairs of a chunk and an index

VARIABLES
    rows,     \* rows complete in the result files
    cursor,   \* the saved next_index of every chunk
    named,    \* does the snapshot record the result files?
    running

vars == <<rows, cursor, named, running>>

\* Every row below the cursors is in the files.
Covered(cur, rs) == \A c \in Chunks : \A i \in 0..(cur[c] - 1) : <<c, i>> \in rs

Init ==
    /\ rows = {} /\ cursor = [c \in Chunks |-> 0]
    /\ named = "none" /\ running = FALSE

\* The recorded files are continued; without a record new ones are created.
Begin ==
    /\ ~running /\ running' = TRUE
    /\ rows' = IF named = "recorded" THEN rows ELSE {}
    /\ UNCHANGED <<cursor, named>>

Write ==
    /\ running /\ UNCHANGED <<running, cursor, named>>
    /\ rows \subseteq rows' /\ rows' \subseteq Tasks

\* A kill, a failed save or nothing to save: the old snapshot stays.
EndWithoutSave == running /\ running' = FALSE /\ UNCHANGED <<rows, cursor, named>>

EndWithSave ==
    /\ running /\ running' = FALSE
    /\ cursor' \in [Chunks -> Nat]
    /\ \A c \in Chunks : cursor'[c] >= cursor[c]
    /\ Covered(cursor', rows)
    /\ named' = "recorded"
    /\ UNCHANGED rows

Next == Begin \/ Write \/ EndWithoutSave \/ EndWithSave

Spec == Init /\ [][Next]_vars
=============================================================================
