----------------------------- MODULE CronClock -----------------------------
(***************************************************************************)
(* The cron clock of an in-process host                                    *)
(* (packages/bolt/src/node/cron-clock.ts): a timer rings at every minute   *)
(* and visits each cron; a new slot is fired by a fiber of its id, or      *)
(* waits in `waiting` for the one in flight.                               *)
(*                                                                         *)
(* The loop over the crons yields at every fork, so the fibers' steps      *)
(* interleave with its visits.  The timer is the runtime's: it may ring a  *)
(* tick before the clock shows its instant.                                *)
(***************************************************************************)
EXTENDS Naturals, FiniteSets

CONSTANTS
    Crons,       \* the ids whose expression parses
    Minute,      \* ticks of a minute (60_000 ms)
    Prev,        \* Cron.prev one second past an instant: a cron's latest slot up to it
    Early,       \* ticks by which the timer may ring early
    MaxTime,     \* bound: the last tick of the clock
    MaxRestarts, \* bound: restarts of the host
    Absent,      \* the id is not in `waiting`: nothing of it is in flight
    Nothing      \* it is, with no slot waiting

\* The instants of the clock and of the minutes that the timer sleeps until.
Instants == 0..(MaxTime + Minute)

ASSUME MinuteAssumption ==
    Minute \in Nat \ {0} /\ MaxTime \in Nat /\ Minute <= MaxTime /\ Early \in {0, 1}
ASSUME PrevAssumption ==
    /\ Prev \in [Crons -> [Instants -> Instants]]
    /\ \A id \in Crons : \A m \in Instants :
         Prev[id][m] <= m /\ Prev[id][Prev[id][m]] = Prev[id][m]
    /\ \A id \in Crons : \A m, n \in Instants : m <= n => Prev[id][m] <= Prev[id][n]
ASSUME MarksAssumption == Absent \notin Nat /\ Nothing \notin Nat /\ Absent # Nothing

VARIABLES
    now,
    phase,     \* the loop: idle, asleep, walking (through the crons)
    minute,    \* the instant it sleeps until, and whose slots it fires
    todo,      \* the crons it has yet to visit
    through,   \* the last minute it has walked
    waiting,   \* waiting: an id in flight to the slot that waits for it
    flying,    \* the slots of an id being fired
    last,      \* history: the last slot fired, the start of the process before any
    restarts

vars == <<now, phase, minute, todo, through, waiting, flying, last, restarts>>

-----------------------------------------------------------------------------
\* The head of the loop: asleep until the next whole minute.
Sleep ==
    /\ phase = "idle"
    /\ phase' = "asleep"
    /\ minute' = now - (now % Minute) + Minute
    /\ UNCHANGED <<now, todo, through, waiting, flying, last, restarts>>

\* A mutant: the timer rings at its instant or never.
RingMutant ==
    /\ phase = "asleep" /\ now = minute
    /\ phase' = "walking"
    /\ todo' = Crons
    /\ UNCHANGED <<now, minute, through, waiting, flying, last, restarts>>
Ring ==
    /\ phase = "asleep" /\ now + Early >= minute
    /\ phase' = "walking"
    /\ todo' = Crons
    /\ UNCHANGED <<now, minute, through, waiting, flying, last, restarts>>

\* `source.fire`.
Fires(id, slot) ==
    /\ flying' = [flying EXCEPT ![id] = @ \cup {slot}]
    /\ last' = [last EXCEPT ![id] = slot]

\* Mutants: a slot is new whatever was walked; a slot that waits is kept when a
\* newer one comes; a fire in flight is not looked at.
VisitRepeats(id) ==
    /\ phase = "walking" /\ id \in todo
    /\ todo' = todo \ {id}
    /\ LET slot == Prev[id][minute] IN
         IF waiting[id] # Absent
           THEN waiting' = [waiting EXCEPT ![id] = slot] /\ UNCHANGED <<flying, last>>
           ELSE waiting' = [waiting EXCEPT ![id] = Nothing] /\ Fires(id, slot)
    /\ UNCHANGED <<now, phase, minute, through, restarts>>
VisitKeepsFirst(id) ==
    /\ phase = "walking" /\ id \in todo
    /\ todo' = todo \ {id}
    /\ LET slot == Prev[id][minute] IN
         IF slot <= through \/ waiting[id] \in Instants THEN UNCHANGED <<waiting, flying, last>>
         ELSE IF waiting[id] # Absent
           THEN waiting' = [waiting EXCEPT ![id] = slot] /\ UNCHANGED <<flying, last>>
           ELSE waiting' = [waiting EXCEPT ![id] = Nothing] /\ Fires(id, slot)
    /\ UNCHANGED <<now, phase, minute, through, restarts>>
VisitOverlaps(id) ==
    /\ phase = "walking" /\ id \in todo
    /\ todo' = todo \ {id}
    /\ LET slot == Prev[id][minute] IN
         IF slot <= through THEN UNCHANGED <<waiting, flying, last>>
         ELSE waiting' = [waiting EXCEPT ![id] = Nothing] /\ Fires(id, slot)
    /\ UNCHANGED <<now, phase, minute, through, restarts>>

\* One turn of the loop over the crons: nothing new; a slot for the id in flight,
\* over the one that waited; or a fiber of its own.
Visit(id) ==
    /\ phase = "walking" /\ id \in todo
    /\ todo' = todo \ {id}
    /\ LET slot == Prev[id][minute] IN
         IF slot <= through THEN UNCHANGED <<waiting, flying, last>>
         ELSE IF waiting[id] # Absent
           THEN waiting' = [waiting EXCEPT ![id] = slot] /\ UNCHANGED <<flying, last>>
           ELSE waiting' = [waiting EXCEPT ![id] = Nothing] /\ Fires(id, slot)
    /\ UNCHANGED <<now, phase, minute, through, restarts>>

Walked ==
    /\ phase = "walking" /\ todo = {}
    /\ phase' = "idle"
    /\ through' = minute
    /\ UNCHANGED <<now, minute, todo, waiting, flying, last, restarts>>

\* A fire answers or fails, which is logged; the slot that waits is fired next.
Drained(id) ==
    /\ \E slot \in flying[id] :
         IF waiting[id] \in Instants
           THEN /\ waiting' = [waiting EXCEPT ![id] = Nothing]
                /\ flying' = [flying EXCEPT ![id] = (@ \ {slot}) \cup {waiting[id]}]
                /\ last' = [last EXCEPT ![id] = waiting[id]]
           ELSE /\ waiting' = [waiting EXCEPT ![id] = Absent]
                /\ flying' = [flying EXCEPT ![id] = @ \ {slot}]
                /\ UNCHANGED last
    /\ UNCHANGED <<now, phase, minute, todo, through, restarts>>

\* The scope closes and a new process starts from now.
Restart ==
    /\ restarts < MaxRestarts /\ restarts' = restarts + 1
    /\ phase' = "idle" /\ todo' = {} /\ through' = now
    /\ waiting' = [id \in Crons |-> Absent] /\ flying' = [id \in Crons |-> {}]
    /\ last' = [id \in Crons |-> now]
    /\ UNCHANGED <<now, minute>>

Tick ==
    /\ now < MaxTime /\ now' = now + 1
    /\ UNCHANGED <<phase, minute, todo, through, waiting, flying, last, restarts>>

-----------------------------------------------------------------------------
Init ==
    /\ now \in 0..(Minute - 1)
    /\ phase = "idle" /\ minute = 0 /\ todo = {} /\ through = now
    /\ waiting = [id \in Crons |-> Absent] /\ flying = [id \in Crons |-> {}]
    /\ last = [id \in Crons |-> now]
    /\ restarts = 0

Next ==
    \/ Sleep \/ Ring \/ Walked \/ Restart \/ Tick
    \/ \E id \in Crons : Visit(id) \/ Drained(id)

\* The runtime runs every ready fiber, a fire answers, and time passes.
Fairness ==
    /\ WF_vars(Sleep) /\ WF_vars(Ring) /\ WF_vars(Walked) /\ WF_vars(Tick)
    /\ \A id \in Crons : WF_vars(Visit(id)) /\ WF_vars(Drained(id))

Spec == Init /\ [][Next]_vars
FairSpec == Spec /\ Fairness

-----------------------------------------------------------------------------
\* The loop's state keeps its types: no slot or minute lies past the next whole
\* minute, and only ids the clock knows are in flight.
TypeOK ==
    /\ now \in 0..MaxTime /\ phase \in {"idle", "asleep", "walking"} /\ minute \in Instants
    /\ todo \subseteq Crons /\ through \in Instants
    /\ waiting \in [Crons -> Instants \cup {Absent, Nothing}]
    /\ flying \in [Crons -> SUBSET Instants] /\ last \in [Crons -> Instants]
    /\ restarts \in Nat

\* One run per id at a time: whether the timer or the end of a fire starts the
\* next, no id has two fires in flight, and an id has one exactly while
\* `waiting` says so.
OneAtATime ==
    \A id \in Crons :
        /\ \A s, t \in flying[id] : s = t
        /\ flying[id] = {} <=> waiting[id] = Absent

\* The last minute whose slots the loop has looked at for an id.
Seen(id) == IF phase = "walking" /\ id \notin todo THEN minute ELSE through

\* No slot is skipped but for a newer one: of the slots since the start, the
\* latest that the loop has passed has been fired, or waits.
LatestIsKept ==
    \A id \in Crons :
        LET slot == Prev[id][Seen(id)] IN slot <= last[id] \/ waiting[id] = slot

\* Each slot is fired once and in order, however early the timer rings and
\* however long a fire takes: none from before the process started, and none
\* before the clock, give or take the timer's tick, shows it.
FiresInOrder ==
    [][\A id \in Crons : \A s \in flying'[id] \ flying[id] :
          s > last[id] /\ s <= now + Early]_vars

\* Every slot is fired in the end, or a newer one of its cron is.
SlotsAreFired ==
    \A id \in Crons : \A s \in 0..MaxTime :
        (Prev[id][s] = s /\ now >= s) ~> last[id] >= s
=============================================================================
