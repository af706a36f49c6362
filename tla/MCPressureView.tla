---------------------------- MODULE MCPressureView ----------------------------
(***************************************************************************)
(* The instance of PressureView that TLC checks.                           *)
(***************************************************************************)
EXTENDS PressureView

\* Negative and fractional pressures, an entry to skip, an infinite one, a list
\* over the limit of two.
MCBodies ==
    {Broken, <<5>>, <<Skip, -1>>, <<5, NonFinite>>, <<-1, -1, 5>>}
=============================================================================
