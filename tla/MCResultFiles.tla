--------------------------- MODULE MCResultFiles ---------------------------
(* Small instances of ResultFiles for TLC. *)
EXTENDS ResultFiles

\* Every port is open.
NoErrors == {Nil}

\* An open port, a silent one, and an error that no errno explains.
WindowsErrors ==
    {Nil, [errno |-> "WSAETIMEDOUT", timeout |-> FALSE], [errno |-> "none", timeout |-> FALSE]}
=============================================================================
