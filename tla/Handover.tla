------------------------------ MODULE Handover ------------------------------
(***************************************************************************)
(* What the queue of outbound messages promises its callers, whatever the  *)
(* deliveries, leases, retries and crashes behind it: a message is handed  *)
(* to the provider only while it is open; that closes it, unless the       *)
(* provider dedupes or answers with an error that is retried; and a        *)
(* message that is closed never opens again.                               *)
(***************************************************************************)
EXTENDS Naturals

CONSTANTS
    Messages,   \* outbound rows
    Deduped     \* those of an instance whose provider dedupes on `id`

VARIABLES
    open,       \* messages that may still be handed over
    handed,     \* how often each message was handed to the provider
    erred       \* how often it answered with an error that is retried

vars == <<open, handed, erred>>

Init ==
    /\ open \in SUBSET Messages
    /\ handed = [m \in Messages |-> 0] /\ erred = [m \in Messages |-> 0]

\* An open message is handed over; it may be again only if the provider dedupes
\* or answered with an error.
Take(m) ==
    /\ m \in open
    /\ handed' = [handed EXCEPT ![m] = @ + 1]
    /\ open' \in {open, open \ {m}}
    /\ \/ erred' = [erred EXCEPT ![m] = @ + 1]
       \/ erred' = erred /\ (m \notin Deduped => m \notin open')

\* Messages are settled: sent, failed, skipped, or given up as uncertain.
Close ==
    /\ open' \subseteq open
    /\ UNCHANGED <<handed, erred>>

Next == Close \/ \E m \in Messages : Take(m)

Spec == Init /\ [][Next]_vars
=============================================================================
