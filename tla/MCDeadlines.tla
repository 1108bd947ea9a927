---------------------------- MODULE MCDeadlines ----------------------------
(***************************************************************************)
(* Deadlines for TLC: two scopes, a clock of four instants.                *)
(***************************************************************************)
EXTENDS Deadlines
=============================================================================
