---------------------------- MODULE MCCronClock ----------------------------
(***************************************************************************)
(* CronClock for TLC: a cron of every minute and one of every second, so   *)
(* that some minutes have a slot of both.                                  *)
(***************************************************************************)
EXTENDS CronClock

CONSTANTS often, seldom

Every == [id \in Crons |-> IF id = often THEN Minute ELSE 2 * Minute]
MCPrev == [id \in Crons |-> [m \in Instants |-> m - (m % Every[id])]]
=============================================================================
