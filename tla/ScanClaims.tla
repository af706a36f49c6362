---------------------------- MODULE ScanClaims ----------------------------
(***************************************************************************)
(* A statement that the documents of the repository make about the scan    *)
(* and that the code does not keep.  A run refutes it.                     *)
(***************************************************************************)
EXTENDS ScanPipeline

\* docs/interrupt-handling.md: after a graceful stop "the process exits 130".
\* Hence a run that returns no error (exit code 0, success=true in the
\* completion summary) has no target left to scan.
SuccessIsComplete == outcome = "nil" => Tasks \subseteq Durable
=============================================================================
