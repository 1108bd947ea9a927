----------------------------- MODULE MCRunQueue -----------------------------
(***************************************************************************)
(* RunQueue for TLC: an authored automation of concurrency 1 with two runs *)
(* and a cron slot, a model effect, and the agent's turn.                  *)
(***************************************************************************)
EXTENDS RunQueue, TLC

CONSTANTS sweep1, sweep2, slot1, effect1, turn1

MCAutos == {"sweep", "orders.effect.created", "agent.turn"}
MCCustom == {"sweep"}
MCEffects == {"orders.effect.created"}
MCTurns == {"agent.turn"}
MCCapacity == [a \in MCAutos |-> 1]
MCSlots == Runs \cap {slot1}
MCAutoOf ==
    [r \in Runs |-> CASE r \in {sweep1, sweep2, slot1} -> "sweep"
                      [] r = effect1 -> "orders.effect.created"
                      [] r = turn1 -> "agent.turn"]
Symmetry == Permutations({sweep1, sweep2} \cap Runs)

\* The runs that a behaviour has met.
Met == {r \in Runs : state[r] # "absent" \/ fired[r] # "none"}
\* The mixes that a behaviour explores: two runs of one authored automation, or
\* the two kinds that are claimed in bulk, without retries and faults.
Bulk ==
    /\ Met \subseteq {effect1, turn1}
    /\ faults = 0 /\ strays = 0 /\ \A r \in Runs : attempts[r] <= 1
Mix == (Met \subseteq {sweep1, sweep2} /\ faults + strays <= 1) \/ Bulk
=============================================================================
