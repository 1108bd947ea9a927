----------------------------- MODULE MCHostWake -----------------------------
(***************************************************************************)
(* HostWake for TLC: two runs, a clock of a few instants.                  *)
(***************************************************************************)
EXTENDS HostWake
=============================================================================
