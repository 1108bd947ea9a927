---------------------------- MODULE MCAgentTurns ----------------------------
(***************************************************************************)
(* AgentTurns for TLC: messages of a person, and a report that the engine  *)
(* itself inserts.                                                         *)
(***************************************************************************)
EXTENDS AgentTurns

CONSTANTS hello, report
=============================================================================
