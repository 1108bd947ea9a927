------------------------------ MODULE RunQueue ------------------------------
(***************************************************************************)
(* The life of a run (packages/bolt/src/engine/runs/index.ts and queue.ts):*)
(* the `sys_run` rows in the database, and what the generation that serves *)
(* the workspace holds in memory about them.  Generations follow one       *)
(* another: a planned close interrupts the fibers of one, a crash simply   *)
(* ends them, and the next one's boot recovers the rows they left behind.  *)
(*                                                                         *)
(* A database statement is one step (it is one transaction, and a claim    *)
(* takes the advisory lock bolt:runs:claim first); so is each stretch of a *)
(* fiber between two of them.  A statement in flight when its fiber is     *)
(* interrupted or its process dies may still commit, and does so before    *)
(* anything else.  Of a due time the model keeps whether it has come, and  *)
(* of an error whether it is the mark of a planned close.                  *)
(***************************************************************************)
EXTENDS Naturals, FiniteSets

CONSTANTS
    Runs,         \* run ids; a cron slot's id is the digest of (cron, slot)
    Slots,        \* the runs that only a cron fire inserts
    Autos,        \* automation names
    Custom,       \* authored automations (the manifest's)
    Effects,      \* model effects: <model>.effect.<verb>
    Turns,        \* the agent's turn run, which an overrun spares
    AutoOf,       \* the automation of a run
    Capacity,     \* concurrency.max of an automation, 1 by default
    Lanes,        \* LANES: authored runs side by side in one generation
    MaxAttempts,  \* the retry policy's attempts
    MaxLeases,    \* 3: the leases a run may lose
    MaxEnds,      \* bound: closes and crashes of a generation
    MaxFaults,    \* bound: statements that fail
    MaxStrays     \* bound: claims that a nudge starts while a wake settles

ASSUME RunsAssumption ==
    /\ IsFiniteSet(Runs) /\ Slots \subseteq Runs
    /\ Custom \subseteq Autos /\ Effects \subseteq Autos /\ Turns \subseteq Autos
    /\ Custom \cap Effects = {} /\ Turns \cap (Custom \cup Effects) = {}
    /\ AutoOf \in [Runs -> Autos]
ASSUME CapacityAssumption ==
    /\ Capacity \in [Autos -> Nat \ {0}]
    /\ \A a \in Autos \ Custom : Capacity[a] = 1
    /\ \A r \in Slots : AutoOf[r] \notin Effects /\ Capacity[AutoOf[r]] = 1
ASSUME BoundsAssumption ==
    /\ Lanes \in Nat \ {0} /\ MaxAttempts \in Nat \ {0} /\ MaxLeases \in Nat
    /\ MaxEnds \in Nat /\ MaxFaults \in Nat /\ MaxStrays \in Nat

VARIABLES
    \* sys_run
    state,      \* absent, queued, running, succeeded, failed, stopped, pruned
    ripe,       \* due_at <= now
    attempts, leases,
    error,      \* interrupted (the mark of a planned close), or none of interest
    \* the generation
    gen,        \* closed, cold (boot is owed to the database), up
    overran,    \* the previous generation was stopped past its CPU budget
    wake,       \* the tick: none, claiming (its first claim), working, settling
    asked,      \* claims sent to the database and not answered: bulk, custom
    exec,       \* a claimed run in memory: none, claimed (waiting for its permit), running
    fired,      \* a fired slot in memory: none, reading, writing (its row is written)
    stopping,   \* runs told to stop: their next crossing fails
    stopSeen,   \* the state that a stop in progress has read
    parked,     \* no, asked, answered
    \* history and bounds
    tainted,    \* runs that had an effect after their stop had committed
    crashes, ends, faults, strays

rows == <<state, ripe, attempts, leases, error>>
bounds == <<ends, faults, strays>>
vars == <<rows, gen, overran, wake, asked, exec, fired, stopping, stopSeen, parked,
          tainted, crashes, bounds>>

Kinds == {"bulk", "custom"}
Terminal == {"succeeded", "failed", "stopped"}
Up == gen = "up"
Authored(r) == AutoOf[r] \in Custom
\* `spec !== undefined`: a guest body runs it, parking counts it, a halt ends it.
Guested(r) == AutoOf[r] \in Custom \cup Effects
\* The runs inside parking, which are the ones with a halt.
Inside(e, f) == {r \in Runs : Guested(r) /\ (e[r] = "running" \/ f[r] # "none")}

-----------------------------------------------------------------------------
(* Claiming.                                                               *)

\* A mutant: runs that ended count against their automation's capacity too.
RunningMutant(a) == {r \in Runs : AutoOf[r] = a /\ state[r] \notin {"absent", "queued"}}
Running(a) == {r \in Runs : AutoOf[r] = a /\ state[r] = "running"}
\* A mutant: an automation's capacity is not looked at.
EligibleMutant(r) == state[r] = "queued" /\ ripe[r]
Eligible(r) ==
    /\ state[r] = "queued" /\ ripe[r]
    /\ Cardinality(Running(AutoOf[r])) < Capacity[AutoOf[r]]

\* What one claim statement may take: every eligible platform and effect run
\* (up to 1000), or one authored run.
Takes(kind) ==
    IF kind = "bulk"
      THEN {{r \in Runs : Eligible(r) /\ ~Authored(r)}}
      ELSE LET head == {r \in Runs : Eligible(r) /\ Authored(r)}
           IN IF head = {} THEN {{}} ELSE {{r} : r \in head}

\* The lanes in use: one per authored run in memory, one for a claim in flight.
LanesUsed ==
    Cardinality({r \in Runs : Authored(r) /\ exec[r] # "none"})
        + Cardinality(asked \cap {"custom"})

\* `tick`, unless the generation is parked, begins with a bulk claim.
BeginWake ==
    /\ Up /\ wake = "none" /\ parked = "no"
    /\ wake' = "claiming"
    /\ asked' = {"bulk"}
    /\ UNCHANGED <<rows, gen, overran, exec, fired, stopping, stopSeen, parked, tainted,
                   crashes, bounds>>

\* A nudge claims in bulk, a lane claims an authored run.  `claim` looks at the
\* parking before its statement, and only then.
AskClaim(kind) ==
    /\ Up /\ kind \notin asked /\ parked = "no"
    /\ kind = "custom" => LanesUsed < Lanes
    /\ \/ wake = "working" /\ UNCHANGED strays
       \/ wake = "settling" /\ strays < MaxStrays /\ strays' = strays + 1
    /\ asked' = asked \cup {kind}
    /\ UNCHANGED <<rows, gen, overran, wake, exec, fired, stopping, stopSeen, parked, tainted,
                   crashes, ends, faults>>

\* The claim's answer: its runs are started, and after a bulk claim the lanes.
CommitClaim(kind) ==
    /\ Up /\ kind \in asked
    /\ \E S \in Takes(kind) :
        /\ state' = [r \in Runs |-> IF r \in S THEN "running" ELSE state[r]]
        /\ attempts' = [r \in Runs |-> IF r \in S THEN attempts[r] + 1 ELSE attempts[r]]
        /\ exec' = [r \in Runs |-> IF r \in S THEN "claimed" ELSE exec[r]]
    /\ asked' = IF kind = "bulk" /\ parked = "no" /\ LanesUsed < Lanes
                  THEN (asked \ {"bulk"}) \cup {"custom"} ELSE asked \ {kind}
    /\ wake' = IF wake = "claiming" THEN "working" ELSE wake
    /\ UNCHANGED <<ripe, leases, error, gen, overran, fired, stopping, stopSeen, parked,
                   tainted, crashes, bounds>>

\* The statement failed: nothing is claimed, and a wake that only began ends.
FailClaim(kind) ==
    /\ Up /\ kind \in asked /\ faults < MaxFaults
    /\ faults' = faults + 1
    /\ asked' = asked \ {kind}
    /\ wake' = IF wake = "claiming" THEN "none" ELSE wake
    /\ UNCHANGED <<rows, gen, overran, exec, fired, stopping, stopSeen, parked, tainted,
                   crashes, ends, strays>>

\* `FiberSet.awaitEmpty`: no claim and no run of the wake is left.
SettleWake ==
    /\ Up /\ wake = "working" /\ asked = {}
    /\ \A r \in Runs : exec[r] = "none"
    /\ wake' = "settling"
    /\ UNCHANGED <<rows, gen, overran, asked, exec, fired, stopping, stopSeen, parked, tainted,
                   crashes, bounds>>

-----------------------------------------------------------------------------
(* Parking.                                                                *)

\* `settled`: park answers once no automation is inside.
Settled(p, within) == IF p = "asked" /\ within = {} THEN "answered" ELSE p

Park ==
    /\ Up /\ parked = "no"
    /\ parked' = Settled("asked", Inside(exec, fired))
    /\ UNCHANGED <<rows, gen, overran, wake, asked, exec, fired, stopping, stopSeen, tainted,
                   crashes, bounds>>

-----------------------------------------------------------------------------
(* Executing.                                                              *)

Executing(r) == exec[r] = "running" \/ fired[r] = "writing"

\* The permits of an automation that are taken.
Permits(a) ==
    Cardinality({r \in Runs : AutoOf[r] = a /\ (exec[r] = "running" \/ fired[r] # "none")})

\* A claimed run gets its permit and enters `execute`.
StartRun(r) ==
    /\ Up /\ exec[r] = "claimed"
    /\ Permits(AutoOf[r]) < Capacity[AutoOf[r]]
    /\ exec' = [exec EXCEPT ![r] = "running"]
    /\ UNCHANGED <<rows, gen, overran, wake, asked, fired, stopping, stopSeen, parked, tainted,
                   crashes, bounds>>

\* A crossing with an effect: refused once the run is told to stop.
Effect(r) ==
    /\ Up /\ Guested(r) /\ Executing(r) /\ r \notin stopping
    /\ tainted' = IF state[r] = "stopped" THEN tainted \cup {r} ELSE tainted
    /\ UNCHANGED <<rows, gen, overran, wake, asked, exec, fired, stopping, stopSeen, parked,
                   crashes, bounds>>

\* The `progress` crossing reads the row's state back, and obeys a stop it finds.
Progress(r) ==
    /\ Up /\ Guested(r) /\ Executing(r)
    /\ state[r] = "stopped" /\ r \notin stopping
    /\ stopping' = stopping \cup {r}
    /\ UNCHANGED <<rows, gen, overran, wake, asked, exec, fired, stopSeen, parked, tainted,
                   crashes, bounds>>

Outcomes == {"ok", "failed", "transient"}
\* A mutant: one attempt more.
RetriesMutant(r, outcome) == outcome = "transient" /\ attempts[r] <= MaxAttempts
Retries(r, outcome) == outcome = "transient" /\ attempts[r] < MaxAttempts

\* The `done` statement of `execute`: the outcome, unless the row was stopped.
Done(r, outcome) ==
    IF state[r] = "stopped" THEN UNCHANGED rows
    ELSE /\ state' = [state EXCEPT ![r] = IF Retries(r, outcome) THEN "queued"
                                          ELSE IF outcome = "ok" THEN "succeeded" ELSE "failed"]
         /\ ripe' = [ripe EXCEPT ![r] = ~Retries(r, outcome)]
         /\ error' = [error EXCEPT ![r] = "none"]
         /\ UNCHANGED <<attempts, leases>>

Finish(r) ==
    /\ Up /\ Executing(r)
    /\ \E outcome \in Outcomes : Done(r, outcome)
    /\ exec' = [exec EXCEPT ![r] = "none"] /\ fired' = [fired EXCEPT ![r] = "none"]
    /\ parked' = Settled(parked, Inside(exec', fired'))
    /\ stopping' = stopping \ {r}
    /\ UNCHANGED <<gen, overran, wake, asked, stopSeen, tainted, crashes, bounds>>

\* The `done` statement failed: the run leaves memory, its row stays running.
FinishFails(r) ==
    /\ Up /\ Executing(r) /\ faults < MaxFaults
    /\ faults' = faults + 1
    /\ exec' = [exec EXCEPT ![r] = "none"] /\ fired' = [fired EXCEPT ![r] = "none"]
    /\ parked' = Settled(parked, Inside(exec', fired'))
    /\ stopping' = stopping \ {r}
    /\ UNCHANGED <<rows, gen, overran, wake, asked, stopSeen, tainted, crashes, ends, strays>>

-----------------------------------------------------------------------------
(* Cron slots.                                                             *)

\* `fire`: the slot's run is executed at once, without a row, parked or not.
\* A slot is not fired again after the 90 days that prune its row.
Fire(r) ==
    /\ Up /\ r \in Slots /\ state[r] # "pruned"
    /\ Permits(AutoOf[r]) < Capacity[AutoOf[r]]
    /\ fired' = [fired EXCEPT ![r] = "reading"]
    /\ UNCHANGED <<rows, gen, overran, wake, asked, exec, stopping, stopSeen, parked, tainted,
                   crashes, bounds>>

\* A mutant of `record`: a repeated slot takes over the row of the first.
RecordMutant(r) ==
    /\ Up /\ fired[r] = "reading"
    /\ state' = [state EXCEPT ![r] = "running"]
    /\ attempts' = [attempts EXCEPT ![r] = 1]
    /\ ripe' = [ripe EXCEPT ![r] = TRUE]
    /\ fired' = [fired EXCEPT ![r] = "writing"]
    /\ UNCHANGED <<leases, error, gen, overran, wake, asked, exec, stopping, stopSeen, parked,
                   tainted, crashes, bounds>>

\* `record`, before the first effect: ON CONFLICT DO NOTHING decides the slot.
Record(r) ==
    /\ Up /\ fired[r] = "reading" /\ state[r] = "absent"
    /\ state' = [state EXCEPT ![r] = "running"]
    /\ attempts' = [attempts EXCEPT ![r] = 1]
    /\ ripe' = [ripe EXCEPT ![r] = TRUE]
    /\ fired' = [fired EXCEPT ![r] = "writing"]
    /\ UNCHANGED <<leases, error, gen, overran, wake, asked, exec, stopping, stopSeen, parked,
                   tainted, crashes, bounds>>

\* The slot already ran, or its run only read: it ends without a row.
FireEnds(r) ==
    /\ Up /\ fired[r] = "reading"
    /\ fired' = [fired EXCEPT ![r] = "none"]
    /\ parked' = Settled(parked, Inside(exec, fired'))
    /\ UNCHANGED <<rows, gen, overran, wake, asked, exec, stopping, stopSeen, tainted, crashes,
                   bounds>>

-----------------------------------------------------------------------------
(* Requests.                                                               *)

\* A write's effects, a schedule, a start or a webhook: `enqueue`.
Enqueue(r) ==
    /\ Up /\ r \notin Slots /\ state[r] = "absent"
    /\ state' = [state EXCEPT ![r] = "queued"]
    /\ \E due \in BOOLEAN : ripe' = [ripe EXCEPT ![r] = due]
    /\ UNCHANGED <<attempts, leases, error, gen, overran, wake, asked, exec, fired, stopping,
                   stopSeen, parked, tainted, crashes, bounds>>

Ripen(r) ==
    /\ state[r] = "queued" /\ ~ripe[r]
    /\ ripe' = [ripe EXCEPT ![r] = TRUE]
    /\ UNCHANGED <<state, attempts, leases, error, gen, overran, wake, asked, exec, fired,
                   stopping, stopSeen, parked, tainted, crashes, bounds>>

\* `stop` reads the row, for the viewer's authority, and then updates it.
StopRead(r) ==
    /\ Up /\ stopSeen[r] = "none" /\ state[r] \in {"queued", "running"}
    /\ stopSeen' = [stopSeen EXCEPT ![r] = state[r]]
    /\ UNCHANGED <<rows, gen, overran, wake, asked, exec, fired, stopping, parked, tainted,
                   crashes, bounds>>

StopCommit(r) ==
    /\ Up /\ stopSeen[r] # "none"
    /\ stopSeen' = [stopSeen EXCEPT ![r] = "none"]
    /\ IF state[r] \in {"queued", "running"}
         THEN /\ state' = [state EXCEPT ![r] = "stopped"]
              /\ error' = [error EXCEPT ![r] = "none"]
              /\ stopping' = IF stopSeen[r] = "running" \/ r \in Inside(exec, fired)
                               THEN stopping \cup {r} ELSE stopping
         ELSE UNCHANGED <<state, error, stopping>>
    /\ UNCHANGED <<ripe, attempts, leases, gen, overran, wake, asked, exec, fired, parked,
                   tainted, crashes, bounds>>

\* A mutant: the age of the row is not looked at.
PruneMutant(r) ==
    /\ Up /\ state[r] \in Terminal
    /\ state' = [state EXCEPT ![r] = "pruned"]
    /\ UNCHANGED <<ripe, attempts, leases, error, gen, overran, wake, asked, exec, fired,
                   stopping, stopSeen, parked, tainted, crashes, bounds>>

\* The day's prune: a row that ended 90 days ago, and so is in nobody's memory.
Prune(r) ==
    /\ Up /\ state[r] \in Terminal /\ exec[r] = "none" /\ fired[r] = "none"
    /\ state' = [state EXCEPT ![r] = "pruned"]
    /\ ripe' = [ripe EXCEPT ![r] = FALSE]
    /\ attempts' = [attempts EXCEPT ![r] = 0] /\ leases' = [leases EXCEPT ![r] = 0]
    /\ UNCHANGED <<error, gen, overran, wake, asked, exec, fired, stopping, stopSeen, parked,
                   tainted, crashes, bounds>>

-----------------------------------------------------------------------------
(* The end of a wake, and of a generation.                                 *)

\* The runs whose interruption marks their row: the ones inside `execute`, and
\* the authored ones claimed by a lane.  A bulk-claimed run that still waits for
\* its turn has no interruption handler.
Marked(withFired) ==
    {r \in Runs : /\ state[r] = "running"
                  /\ \/ exec[r] = "running"
                     \/ exec[r] = "claimed" /\ Authored(r)
                     \/ withFired /\ fired[r] # "none" /\ attempts[r] = 1}

\* Rows that interrupted claims may still take.
Landings(kinds) ==
    LET late(kind) == {{}} \cup (IF kind \in kinds THEN Takes(kind) ELSE {})
    IN UNION {{b \cup c : c \in late("custom")} : b \in late("bulk")}

\* The rows after an interruption: S claimed and F recorded with nobody to run
\* them, M marked.
Interrupted(S, F, M) ==
    /\ state' = [r \in Runs |-> IF r \in S \cup F THEN "running" ELSE state[r]]
    /\ attempts' = [r \in Runs |-> IF r \in S THEN attempts[r] + 1
                                   ELSE IF r \in F THEN 1 ELSE attempts[r]]
    /\ ripe' = [r \in Runs |-> ripe[r] \/ r \in F]
    /\ error' = [r \in Runs |-> IF r \in M THEN "interrupted" ELSE error[r]]
    /\ UNCHANGED leases

\* `interrupted` writes the marks of one fiber at a time; each write may fail.
Marks(all, M) ==
    /\ M \subseteq all
    /\ M # all => faults < MaxFaults
    /\ faults' = IF M = all THEN faults ELSE faults + 1

\* The tick has settled: its scope closes and interrupts what a nudge started
\* since `awaitEmpty`.  An authored claim is uninterruptible, and waited for.
EndWake ==
    /\ Up /\ wake = "settling" /\ "custom" \notin asked
    /\ wake' = "none" /\ asked' = {}
    /\ \E S \in Landings(asked), M \in SUBSET Marked(FALSE) :
        Interrupted(S, {}, M) /\ Marks(Marked(FALSE), M)
    /\ exec' = [r \in Runs |-> "none"]
    /\ parked' = Settled(parked, Inside(exec', fired))
    /\ UNCHANGED <<gen, overran, fired, stopping, stopSeen, tainted, crashes, ends, strays>>

\* What a generation holds in memory goes with it.
Gone ==
    /\ gen # "closed" /\ gen' = "closed"
    /\ ends < MaxEnds /\ ends' = ends + 1
    /\ wake' = "none" /\ asked' = {} /\ parked' = "no"
    /\ exec' = [r \in Runs |-> "none"] /\ fired' = [r \in Runs |-> "none"]
    /\ stopping' = {} /\ stopSeen' = [r \in Runs |-> "none"]

\* Slots whose `record` may be in flight.
Recording == {r \in Slots : fired[r] = "reading" /\ state[r] = "absent"}

\* A mutant: a close leaves no mark.
CloseMutant ==
    /\ "custom" \notin asked
    /\ \E S \in Landings(asked), F \in SUBSET Recording : Interrupted(S, F, {})
    /\ Gone /\ overran' = FALSE
    /\ UNCHANGED <<tainted, crashes, faults, strays>>

\* Rule 71a: a close interrupts every run, and `interrupted` marks its row.
Close ==
    /\ "custom" \notin asked
    /\ \E S \in Landings(asked), F \in SUBSET Recording, M \in SUBSET Marked(TRUE) :
        Interrupted(S, F, M) /\ Marks(Marked(TRUE), M)
    /\ Gone /\ overran' = FALSE
    /\ UNCHANGED <<tainted, crashes, strays>>

\* The process dies, or the kernel stops it past its CPU budget.
Crash ==
    /\ \E S \in Landings(asked), F \in SUBSET Recording : Interrupted(S, F, {})
    /\ Gone /\ overran' \in BOOLEAN
    /\ crashes' = crashes + 1
    /\ UNCHANGED <<tainted, faults, strays>>

Activate ==
    /\ gen = "closed"
    /\ gen' = "cold"
    /\ UNCHANGED <<rows, overran, wake, asked, exec, fired, stopping, stopSeen, parked, tainted,
                   crashes, bounds>>

-----------------------------------------------------------------------------
(* Boot.                                                                   *)

\* `closed` in the boot statement.
Excused(r) == error[r] = "interrupted"
\* A mutant of `fails`: one lease more.
FailsMutant(r) == (overran /\ AutoOf[r] \notin Turns) \/ (leases[r] > MaxLeases /\ ~Excused(r))
Fails(r) == (overran /\ AutoOf[r] \notin Turns) \/ (leases[r] >= MaxLeases /\ ~Excused(r))

\* A mutant: the mark of a close outlives the recovery it excuses.
ClearedMutant(r) == error[r]
Cleared(r) == IF overran \/ Excused(r) \/ leases[r] >= MaxLeases THEN "none" ELSE error[r]

\* `boot`: every row left running is queued again, or fails.
Boot ==
    /\ gen = "cold" /\ gen' = "up"
    /\ LET lost == {r \in Runs : state[r] = "running"} IN
        /\ state' = [r \in Runs |-> IF r \notin lost THEN state[r]
                                    ELSE IF Fails(r) THEN "failed" ELSE "queued"]
        /\ leases' = [r \in Runs |-> IF r \in lost /\ ~Excused(r) THEN leases[r] + 1
                                     ELSE leases[r]]
        /\ ripe' = [r \in Runs |-> r \in lost \/ ripe[r]]
        /\ error' = [r \in Runs |-> IF r \in lost THEN Cleared(r) ELSE error[r]]
    /\ UNCHANGED <<attempts, overran, wake, asked, exec, fired, stopping, stopSeen, parked,
                   tainted, crashes, bounds>>

-----------------------------------------------------------------------------
Init ==
    /\ state = [r \in Runs |-> "absent"] /\ ripe = [r \in Runs |-> FALSE]
    /\ attempts = [r \in Runs |-> 0] /\ leases = [r \in Runs |-> 0]
    /\ error = [r \in Runs |-> "none"]
    /\ gen = "closed" /\ overran = FALSE /\ wake = "none" /\ asked = {}
    /\ exec = [r \in Runs |-> "none"] /\ fired = [r \in Runs |-> "none"]
    /\ stopping = {} /\ stopSeen = [r \in Runs |-> "none"] /\ parked = "no"
    /\ tainted = {} /\ crashes = 0 /\ ends = 0 /\ faults = 0 /\ strays = 0

RunNext(r) ==
    \/ StartRun(r) \/ Effect(r) \/ Progress(r) \/ Finish(r) \/ FinishFails(r)
    \/ Fire(r) \/ Record(r) \/ FireEnds(r)
    \/ Enqueue(r) \/ Ripen(r) \/ StopRead(r) \/ StopCommit(r) \/ Prune(r)
ClaimNext(kind) == AskClaim(kind) \/ CommitClaim(kind) \/ FailClaim(kind)
Next ==
    \/ \E r \in Runs : RunNext(r)
    \/ \E kind \in Kinds : ClaimNext(kind)
    \/ BeginWake \/ SettleWake \/ EndWake \/ Park \/ Close \/ Crash \/ Activate \/ Boot

\* The host opens a generation and wakes it while a run is due; the runtime runs
\* every ready fiber, a permit goes to the waiters in turn, the database answers
\* and a run ends (the guest's budgets bound it).
Fairness ==
    /\ WF_vars(Activate) /\ WF_vars(Boot)
    /\ WF_vars(BeginWake) /\ WF_vars(SettleWake) /\ WF_vars(EndWake)
    /\ \A kind \in Kinds : WF_vars(CommitClaim(kind))
    /\ \A r \in Runs :
        /\ SF_vars(StartRun(r)) /\ WF_vars(Finish(r)) /\ WF_vars(FireEnds(r))
        /\ WF_vars(Ripen(r))

Spec == Init /\ [][Next]_vars
FairSpec == Spec /\ Fairness

-----------------------------------------------------------------------------
\* The rows, the executors and the marks keep their types, and a stop read is
\* of a run that it may stop.
TypeOK ==
    /\ state \in [Runs -> {"absent", "queued", "running", "pruned"} \cup Terminal]
    /\ ripe \in [Runs -> BOOLEAN]
    /\ attempts \in [Runs -> Nat] /\ leases \in [Runs -> Nat]
    /\ error \in [Runs -> {"none", "interrupted"}]
    /\ gen \in {"closed", "cold", "up"} /\ overran \in BOOLEAN
    /\ wake \in {"none", "claiming", "working", "settling"} /\ asked \subseteq Kinds
    /\ exec \in [Runs -> {"none", "claimed", "running"}]
    /\ fired \in [Runs -> {"none", "reading", "writing"}]
    /\ stopping \subseteq Runs /\ stopSeen \in [Runs -> {"none", "queued", "running"}]
    /\ parked \in {"no", "asked", "answered"} /\ tainted \subseteq Runs
    /\ crashes \in Nat /\ ends \in 0..MaxEnds /\ faults \in 0..MaxFaults
    /\ strays \in 0..MaxStrays

\* A run in memory, claimed or fired, still owns its row: nothing but a stop has
\* changed the row since, and no run is both claimed and fired.  A claim, a
\* repeated slot, a retry or a boot that took it twice would run it twice.
ExecutorOwnsRow ==
    \A r \in Runs :
        exec[r] # "none" \/ fired[r] = "writing" =>
            /\ Up /\ state[r] \in {"running", "stopped"}
            /\ exec[r] = "none" \/ fired[r] # "writing"

\* A run that ended stays as it ended until it is pruned, whatever its executor,
\* a late claim, a repeated cron slot or the next boot still write.
TerminalIsFinal ==
    [][\A r \in Runs : state[r] \in Terminal => state'[r] \in {state[r], "pruned"}]_vars

\* The executor of a run: a claimed run in memory, or a fired one with its row.
Alive == {r \in Runs : exec[r] # "none" \/ fired[r] = "writing"}
Life == INSTANCE RunLife WITH Limit <- MaxAttempts, alive <- Alive, takes <- attempts
\* The queue implements the abstract one: across lanes, slots, stops, retries,
\* crashes and boots, a run is taken only while nobody executes it, every taking
\* is counted, only its executor gives it back, within the policy's attempts, and
\* what has ended stays so.
KeepsRunLife == Life!Spec

\* The claims never admit more authored runs of an automation than its
\* concurrency.max, across lanes, wakes and generations.  (A fire is not claimed
\* and takes no account of the rows, so the slots are not counted.)
RunningWithinCapacity ==
    \A a \in Custom : Cardinality(Running(a) \ Slots) <= Capacity[a]

\* A run that loses a lease too many has failed, and none loses two: the
\* recovery reruns a run at most MaxLeases times, then fails it for good.
LeaseBudget ==
    \A r \in Runs :
        /\ leases[r] <= MaxLeases + 1
        /\ leases[r] > MaxLeases => state[r] = "failed"

\* The mark of a planned close never outlives the recovery it excuses: a row
\* that has it was left behind, and nobody runs it.  Were it still there when
\* the run executes again, a crash would cost the run no lease.
MarkIsNotStale ==
    \A r \in Runs :
        error[r] = "interrupted" => state[r] = "running" /\ ~Executing(r)

\* A restart costs an authored run no lease: only crashes and failed statements
\* do, whenever the close comes, before the run has its permit included.
ClosesCostNoLease ==
    \A r \in Runs \ Slots : Authored(r) => leases[r] <= crashes + faults

\* Left `running` by an interruption, with nobody to run it before the next boot.
Stranded(r) == Up /\ state[r] = "running" /\ exec[r] = "none" /\ fired[r] # "writing"

\* A due run is run to its end, through closes, crashes, retries and the permits
\* of its automation, unless it or another run of its automation is stranded.
DueRunEnds ==
    \A r \in Runs :
        (state[r] = "queued" /\ ripe[r]) ~>
            \/ state[r] \in Terminal \cup {"pruned"}
            \/ parked # "no"
            \/ \E q \in Runs : AutoOf[q] = AutoOf[r] /\ Stranded(q)

-----------------------------------------------------------------------------
(* What comments and tests say of the queue, and the code does not do.     *)

\* services.ts: "Stops a queued or running run": a stopped run has no effect
\* after its stop has committed.
StoppedHasNoEffect == tainted = {}
=============================================================================
