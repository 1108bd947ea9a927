------------------------------ MODULE RunLife ------------------------------
(***************************************************************************)
(* What the run queue promises about each run, whatever the claims, lanes, *)
(* slots, stops, crashes and boots behind it.  A run is taken only while   *)
(* nobody executes it, and every taking is counted; its outcome is written *)
(* by the executor it was taken for, which may give it back only while     *)
(* attempts are left; a run whose executor is gone is recovered; and what  *)
(* has ended stays ended, whoever still executes it.                       *)
(*                                                                         *)
(* A step may move many runs at once: a claim takes them in bulk, a crash  *)
(* ends every executor, a boot recovers all that are left.                 *)
(***************************************************************************)
EXTENDS Naturals

CONSTANTS
    Runs,
    Limit    \* how often a run may be taken before its executor gives it back

VARIABLES
    state,   \* of each run
    alive,   \* the runs that have an executor
    takes    \* how often each was taken

vars == <<state, alive, takes>>

Ended == {"succeeded", "failed", "stopped"}

Init ==
    /\ state = [r \in Runs |-> "absent"]
    /\ alive = {}
    /\ takes = [r \in Runs |-> 0]

Becomes(r, S) == state'[r] \in S
Counted(r) == takes'[r] = takes[r]
Gone(r) == r \notin alive'
Held(r) == r \in alive' <=> r \in alive

Offer(r) == state[r] = "absent" /\ Becomes(r, {"queued"}) /\ Held(r) /\ Counted(r)

\* Claimed, or fired as a slot; the executor may be gone before it begins.
Take(r) ==
    /\ state[r] \in {"absent", "queued"} /\ r \notin alive
    /\ Becomes(r, {"running"})
    /\ takes'[r] = takes[r] + 1

\* The executor writes the outcome, and is gone.
Finish(r) ==
    /\ r \in alive /\ state[r] = "running" /\ Gone(r)
    /\ \/ Becomes(r, {"succeeded", "failed"})
       \/ Becomes(r, {"queued"}) /\ takes[r] < Limit
    /\ Counted(r)

\* It is gone without a word.
Leave(r) == r \in alive /\ Gone(r) /\ Becomes(r, {state[r]}) /\ Counted(r)

Recover(r) ==
    /\ r \notin alive /\ Gone(r)
    /\ state[r] = "running" /\ Becomes(r, {"queued", "failed"}) /\ Counted(r)

Stop(r) ==
    /\ state[r] \in {"queued", "running"} /\ Becomes(r, {"stopped"})
    /\ Held(r) /\ Counted(r)

Forget(r) ==
    /\ r \notin alive /\ Gone(r)
    /\ state[r] \in Ended /\ Becomes(r, {"pruned"}) /\ takes'[r] = 0

Rest(r) == Becomes(r, {state[r]}) /\ Held(r) /\ Counted(r)

Next ==
    \A r \in Runs :
        \/ Offer(r) \/ Take(r) \/ Finish(r) \/ Leave(r) \/ Recover(r) \/ Stop(r)
        \/ Forget(r) \/ Rest(r)

Spec == Init /\ [][Next]_vars
=============================================================================
