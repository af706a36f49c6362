-------------------------- MODULE MCScanPipeline --------------------------
(* Small instances of ScanPipeline for TLC. *)
EXTENDS ScanClaims, ScanInvariants, TLC

\* Two chunks, so that a commit spans chunks and the dispatcher moves on.
MCTotalTwoChunks == <<2, 1>>

\* One chunk of two, three or four tasks; with one worker the queues hold two, so
\* the dispatcher blocks on a full queue.
MCTotalTwo == <<2>>
MCTotalThree == <<3>>
MCTotalFour == <<4>>

\* The first task of the first chunk finds an open port.
MCOpen == {<<1, 0>>}

WorkerSymmetry == Permutations(Workers)
=============================================================================
