------------------------------ MODULE HostWake ------------------------------
(***************************************************************************)
(* How the Node host wakes a workspace (packages/bolt/src/node/host.ts):   *)
(* `due` is the next wake, the engine announces and settles it, and one    *)
(* fiber sleeps until it.  Against it run the commits that queue runs and  *)
(* then announce their due time, and the wake itself (`tick` of            *)
(* engine/runs/index.ts), which claims, runs, reads the next due time from *)
(* the database and settles with it.                                       *)
(*                                                                         *)
(* A statement is one step, and so is what the fiber does between two      *)
(* suspensions.  What a wake does with the runs it claims is RunQueue's.   *)
(***************************************************************************)
EXTENDS Naturals, FiniteSets

CONSTANTS
    Runs,     \* the runs that are queued
    MaxTime,  \* bound: the last instant of the clock and of any due time
    MaxFails, \* bound: wakes that fail
    ParkDelay, \* how soon the wake of a parked generation comes back (PARKED_WAKE_MS)
    None      \* no instant: `null`, no sleep, no timer

ASSUME TimeAssumption == MaxTime \in Nat /\ MaxFails \in Nat /\ ParkDelay \in Nat
ASSUME NoneAssumption == None \notin Nat

VARIABLES
    now,
    due,        \* the host's next wake
    nudge,      \* the sliding queue of one holds an element
    loop,       \* the fiber: reading `due`, asleep, waking (inside workspace.wake)
    until,      \* the instant it sleeps until, None for the next nudge
    tick,       \* the wake: none, claiming, working, settling (it has read the next due time)
    next,       \* what it settles with: what it read, or an earlier retry of its own
    dues,       \* the earliest retry its runs have left
    armed,      \* the timer a nudge has set within the wake
    row,        \* a run: absent, queued, running, ended, or left: running in the database
                \* only, the wake that claimed it is over
    dueAt,      \* due_at of a queued run
    untold,     \* queued by a commit that has not announced yet
    booted,     \* boot has settled with what the previous generation left
    parked,     \* the generation is closing
    closed,
    fails,
    missed      \* history: queued after a wake in progress read the next due time

vars == <<now, due, nudge, loop, until, tick, next, dues, armed, row, dueAt, untold, booted, parked,
          closed, fails, missed>>

At == 0..MaxTime
AtOrNone == At \cup {None}
Queued == {r \in Runs : row[r] = "queued"}
\* SELECT min(due_at) FROM sys_run WHERE state = 'queued'
NextDue ==
    IF Queued = {} THEN None
    ELSE CHOOSE t \in {dueAt[r] : r \in Queued} : \A r \in Queued : t <= dueAt[r]

-----------------------------------------------------------------------------
(* The port.                                                               *)

\* A mutant of `announce`: the fiber is not told.
AnnouncedMutant(at) ==
    IF due # None /\ due <= at THEN UNCHANGED <<due, nudge>>
    ELSE due' = at /\ UNCHANGED nudge
\* `announce`: an instant no earlier than `due` changes nothing.
Announced(at) ==
    IF due # None /\ due <= at THEN UNCHANGED <<due, nudge>>
    ELSE due' = at /\ nudge' = TRUE

\* `settle`: whatever `due` is.
SettledWith(at) == due' = at /\ nudge' = TRUE

Earlier(a, b) == IF a = None \/ b < a THEN b ELSE a

-----------------------------------------------------------------------------
(* The fiber.                                                              *)

\* The head of the loop: no wake to wait for, one to sleep until, or one due,
\* which is consumed before the wake begins.
Read ==
    /\ ~closed /\ loop = "reading"
    /\ IF due = None \/ due > now
         THEN /\ loop' = "asleep" /\ until' = due
              /\ UNCHANGED <<due, tick>>
         ELSE /\ loop' = "waking" /\ due' = None /\ tick' = "claiming"
              /\ UNCHANGED until
    /\ UNCHANGED <<now, nudge, next, dues, armed, row, dueAt, untold, booted, parked, closed, fails,
                   missed>>

\* A mutant: the sleep has no timeout.
RouseMutant ==
    /\ ~closed /\ loop = "asleep"
    /\ nudge /\ nudge' = FALSE
    /\ loop' = "reading" /\ until' = None
    /\ UNCHANGED <<now, due, tick, next, dues, armed, row, dueAt, untold, booted, parked, closed,
                   fails, missed>>

\* `Queue.take(nudge)`, with the timeout of the sleep.
Rouse ==
    /\ ~closed /\ loop = "asleep"
    /\ \/ nudge /\ nudge' = FALSE
       \/ until # None /\ until <= now /\ UNCHANGED nudge
    /\ loop' = "reading" /\ until' = None
    /\ UNCHANGED <<now, due, tick, next, dues, armed, row, dueAt, untold, booted, parked, closed,
                   fails, missed>>

\* `workspace.wake` answers, whichever way: a failure is logged.
Return ==
    /\ ~closed /\ loop = "waking" /\ tick = "none"
    /\ loop' = "reading"
    /\ UNCHANGED <<now, due, nudge, until, tick, next, dues, armed, row, dueAt, untold, booted,
                   parked, closed, fails, missed>>

-----------------------------------------------------------------------------
(* The wake.                                                               *)

\* The end of the wake's scope: its timer, its subscription and the fibers of the
\* runs it has just claimed go with it.
TickEnds ==
    /\ tick' = "none" /\ armed' = None /\ next' = None /\ dues' = None
    /\ row' = [r \in Runs |-> IF row[r] = "running" THEN "left" ELSE row[r]]

\* A parked generation's wake comes back soon, for the next one.
ParkedWake ==
    /\ ~closed /\ tick = "claiming" /\ parked
    /\ SettledWith(IF now + ParkDelay < MaxTime THEN now + ParkDelay ELSE MaxTime)
    /\ TickEnds
    /\ UNCHANGED <<now, loop, until, dueAt, untold, booted, parked, closed, fails, missed>>

DueRuns == {r \in Queued : dueAt[r] <= now}
Claims == row' = [r \in Runs |-> IF r \in DueRuns THEN "running" ELSE row[r]]

\* The first claim.
Claim ==
    /\ ~closed /\ tick = "claiming" /\ ~parked
    /\ tick' = "working"
    /\ Claims
    /\ UNCHANGED <<now, due, nudge, loop, until, next, dues, armed, dueAt, untold, booted, parked,
                   closed, fails, missed>>

\* A lane that has ended a run claims again.
LaneClaims ==
    /\ ~closed /\ tick = "working" /\ ~parked /\ DueRuns # {}
    /\ Claims
    /\ UNCHANGED <<now, due, nudge, loop, until, tick, next, dues, armed, dueAt, untold, booted,
                   parked, closed, fails, missed>>

\* The timer of a nudge claims again.
NudgeFires ==
    /\ ~closed /\ tick # "none" /\ armed # None /\ armed <= now
    /\ armed' = None
    /\ IF parked THEN UNCHANGED row ELSE Claims
    /\ UNCHANGED <<now, due, nudge, loop, until, tick, next, dues, dueAt, untold, booted, parked,
                   closed, fails, missed>>

\* A run of the wake ends, or is queued again for a retry that the wake keeps in
\* `dues` and does not announce.
RunEnds(r) ==
    /\ ~closed /\ tick \in {"claiming", "working"} /\ row[r] = "running"
    /\ \/ row' = [row EXCEPT ![r] = "ended"] /\ UNCHANGED <<dueAt, dues>>
       \/ \E at \in now..MaxTime :
            /\ row' = [row EXCEPT ![r] = "queued"] /\ dueAt' = [dueAt EXCEPT ![r] = at]
            /\ dues' = Earlier(dues, at)
    /\ UNCHANGED <<now, due, nudge, loop, until, tick, next, armed, untold, booted, parked, closed,
                   fails, missed>>

\* A mutant: the wake settles with the retries of its own runs.
SelectMutant ==
    /\ ~closed /\ tick = "working" /\ \A r \in Runs : row[r] # "running"
    /\ tick' = "settling"
    /\ next' = dues
    /\ missed' = {}
    /\ UNCHANGED <<now, due, nudge, loop, until, dues, armed, row, dueAt, untold, booted, parked,
                   closed, fails>>

\* `awaitEmpty`, the read of the next due time, and the earliest of it and the
\* retries.
Select ==
    /\ ~closed /\ tick = "working" /\ \A r \in Runs : row[r] # "running"
    /\ tick' = "settling"
    /\ next' = IF NextDue = None THEN dues ELSE Earlier(dues, NextDue)
    /\ missed' = {}
    /\ UNCHANGED <<now, due, nudge, loop, until, dues, armed, row, dueAt, untold, booted, parked,
                   closed, fails>>

Settle ==
    /\ ~closed /\ tick = "settling"
    /\ SettledWith(next) /\ TickEnds
    /\ UNCHANGED <<now, loop, until, dueAt, untold, booted, parked, closed, fails, missed>>

\* A statement of the wake fails: it does not settle, and `due` is as it is.
Fail ==
    /\ ~closed /\ tick # "none" /\ fails < MaxFails
    /\ fails' = fails + 1
    /\ TickEnds
    /\ UNCHANGED <<now, due, nudge, loop, until, dueAt, untold, booted, parked, closed, missed>>

-----------------------------------------------------------------------------
(* The engine outside a wake.                                              *)

\* The first statement of an activation is preceded by boot, which queues what
\* the previous generation left running and settles.
Boot ==
    /\ ~closed /\ ~booted
    /\ booted' = TRUE
    /\ row' = [r \in Runs |-> IF row[r] = "left" THEN "queued" ELSE row[r]]
    /\ dueAt' = [r \in Runs |-> IF row[r] = "left" THEN now ELSE dueAt[r]]
    /\ SettledWith(IF \E r \in Runs : row[r] = "left" THEN Earlier(NextDue, now) ELSE NextDue)
    /\ UNCHANGED <<now, loop, until, tick, next, dues, armed, untold, parked, closed, fails, missed>>

\* A mutation, an agent input, a webhook or a fire queues a run.
Commit(r) ==
    /\ ~closed /\ booted /\ row[r] = "absent"
    /\ row' = [row EXCEPT ![r] = "queued"]
    /\ \E at \in now..MaxTime : dueAt' = [dueAt EXCEPT ![r] = at]
    /\ untold' = untold \cup {r}
    /\ missed' = IF tick = "settling" THEN missed \cup {r} ELSE missed
    /\ UNCHANGED <<now, due, nudge, loop, until, tick, next, dues, armed, booted, parked, closed,
                   fails>>

\* `Wake.at` after the commit: the port's announce, and a nudge, which arms the
\* timer of the wake that has subscribed.
Announce(r) ==
    /\ ~closed /\ r \in untold
    /\ untold' = untold \ {r}
    /\ Announced(dueAt[r])
    /\ \/ tick # "none" /\ armed' = Earlier(armed, dueAt[r])
       \/ tick \in {"none", "claiming"} /\ UNCHANGED armed
    /\ missed' = IF tick = "none" THEN missed \ {r} ELSE missed
    /\ UNCHANGED <<now, loop, until, tick, next, dues, row, dueAt, booted, parked, closed, fails>>

Park ==
    /\ ~closed /\ booted /\ ~parked /\ parked' = TRUE
    /\ UNCHANGED <<now, due, nudge, loop, until, tick, next, dues, armed, row, dueAt, untold, booted,
                   closed, fails, missed>>

\* `teardown`, with the generation.
Teardown ==
    /\ ~closed /\ closed' = TRUE
    /\ due' = None
    /\ UNCHANGED <<now, nudge, loop, until, tick, next, dues, armed, row, dueAt, untold, booted,
                   parked, fails, missed>>

Tick ==
    /\ now < MaxTime /\ now' = now + 1
    /\ UNCHANGED <<due, nudge, loop, until, tick, next, dues, armed, row, dueAt, untold, booted,
                   parked, closed, fails, missed>>

-----------------------------------------------------------------------------
\* The previous generation may have left runs queued, or running.
Init ==
    /\ now = 0 /\ due = None /\ nudge = FALSE /\ loop = "reading" /\ until = None
    /\ tick = "none" /\ next = None /\ dues = None /\ armed = None
    /\ row \in [Runs -> {"absent", "queued", "left"}] /\ dueAt \in [Runs -> At]
    /\ untold = {} /\ booted = FALSE /\ parked = FALSE /\ closed = FALSE /\ fails = 0
    /\ missed = {}

Next ==
    \/ Read \/ Rouse \/ Return
    \/ ParkedWake \/ Claim \/ LaneClaims \/ NudgeFires \/ Select \/ Settle \/ Fail
    \/ Boot \/ Park \/ Teardown \/ Tick
    \/ \E r \in Runs : RunEnds(r) \/ Commit(r) \/ Announce(r)

\* The runtime runs every ready fiber, the database answers, runs end, and time
\* passes.
Fairness ==
    /\ WF_vars(Read) /\ WF_vars(Rouse) /\ WF_vars(Return) /\ WF_vars(Claim) /\ WF_vars(Select)
    /\ WF_vars(Settle) /\ WF_vars(Tick)
    /\ \A r \in Runs : WF_vars(RunEnds(r)) /\ WF_vars(Announce(r))

Spec == Init /\ [][Next]_vars
FairSpec == Spec /\ Fairness

-----------------------------------------------------------------------------
\* The state keeps its types; a wake runs only inside the fiber's call.
TypeOK ==
    /\ now \in At /\ due \in AtOrNone /\ nudge \in BOOLEAN
    /\ loop \in {"reading", "asleep", "waking"} /\ until \in AtOrNone
    /\ tick \in {"none", "claiming", "working", "settling"} /\ next \in AtOrNone
    /\ dues \in AtOrNone /\ armed \in AtOrNone
    /\ row \in [Runs -> {"absent", "queued", "running", "ended", "left"}]
    /\ dueAt \in [Runs -> At]
    /\ untold \subseteq Runs /\ missed \subseteq Runs
    /\ booted \in BOOLEAN /\ parked \in BOOLEAN /\ closed \in BOOLEAN /\ fails \in 0..MaxFails

\* No rousing is lost between the fiber's look at `due` and its sleep: it sleeps
\* until `due` as it is, or an element waits in its queue.
SleepsUntilDue == loop = "asleep" /\ ~closed => nudge \/ until = due

\* An instant that covers a run due at `at`.
Covers(t, at) == t # None /\ t <= at

\* Every queued run has a wake ahead of it, no later than its due time: `due`,
\* the announcement of its commit, or the wake in progress, which claims it or
\* reads it before it settles.  Left out are the runs queued after the wake read
\* the next due time, a parked generation, and a host whose wake has failed.
QueuedIsCovered ==
    booted /\ ~parked /\ ~closed /\ fails = 0 =>
        \A r \in Queued \ (untold \cup missed) :
            \/ tick \in {"claiming", "working"}
            \/ tick = "settling" /\ Covers(next, dueAt[r])
            \/ tick = "none" /\ Covers(due, dueAt[r])

\* Between wakes, a queued run that `due` covers is run in time, unless the
\* generation parks or closes or a wake fails: no later commit, settlement or
\* rousing of the fiber takes its wake away.
CoveredIsWoken ==
    \A r \in Runs :
        (r \in Queued /\ Covers(due, dueAt[r]) /\ tick = "none")
            ~> (r \notin Queued \/ parked \/ closed \/ fails > 0)

-----------------------------------------------------------------------------
\* docs/identity-automations.md: "that commit wakes the run queue for them":
\* between wakes, every announced run has a wake ahead of it.
CommitWakesQueue ==
    booted /\ ~parked /\ ~closed /\ fails = 0 /\ tick = "none" =>
        \A r \in Queued \ untold : Covers(due, dueAt[r])
=============================================================================
