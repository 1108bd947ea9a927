--------------------------- MODULE RunQueueProofs ---------------------------
(***************************************************************************)
(* The safety of RunQueue for any runs, automations, capacities and        *)
(* bounds.  Owned is the inductive invariant the others rest on: outside   *)
(* an open generation nothing is in memory, a fired run is a slot, and a   *)
(* run in memory owns its row.                                             *)
(***************************************************************************)
EXTENDS RunQueue, FiniteSetTheorems, TLAPS

USE BoundsAssumption

\* A generation that is not up has claimed, asked, fired and stopped nothing.
NothingInMemory ==
    ~Up => /\ asked = {} /\ wake = "none"
           /\ \A r \in Runs : exec[r] = "none" /\ fired[r] = "none"
OnlySlotsFire == \A r \in Runs : fired[r] # "none" => r \in Slots
Owned == TypeOK /\ NothingInMemory /\ OnlySlotsFire /\ ExecutorOwnsRow

-----------------------------------------------------------------------------
\* A claim takes queued runs only: authored ones in lanes, the others in bulk.
LEMMA TakesQueued ==
    ASSUME NEW kind \in Kinds, NEW S \in Takes(kind)
    PROVE  /\ S \subseteq Runs
           /\ \A r \in S : state[r] = "queued" /\ (Authored(r) <=> kind = "custom")
<1>1. CASE kind = "bulk"
  <2>1. S = {r \in Runs : Eligible(r) /\ ~Authored(r)}
    BY <1>1 DEF Takes
  <2> QED BY <1>1, <2>1 DEF Eligible
<1>2. CASE kind = "custom"
  <2>1. S \subseteq {r \in Runs : Eligible(r) /\ Authored(r)}
    BY <1>2 DEF Takes
  <2> QED BY <1>2, <2>1 DEF Eligible
<1> QED BY <1>1, <1>2 DEF Kinds

\* So does a claim that lands after its interruption.
LEMMA LandingsQueued ==
    ASSUME NEW kinds, NEW S \in Landings(kinds)
    PROVE  /\ S \subseteq Runs
           /\ \A r \in S : state[r] = "queued" /\ (Authored(r) => "custom" \in kinds)
<1>1. PICK b \in {{}} \cup (IF "bulk" \in kinds THEN Takes("bulk") ELSE {}),
           c \in {{}} \cup (IF "custom" \in kinds THEN Takes("custom") ELSE {}) : S = b \cup c
  BY DEF Landings
<1>2. b \subseteq Runs /\ \A r \in b : state[r] = "queued" /\ ~Authored(r)
  BY <1>1, TakesQueued DEF Kinds
<1>3. c \subseteq Runs /\ \A r \in c : state[r] = "queued" /\ "custom" \in kinds
  BY <1>1, TakesQueued DEF Kinds
<1> QED BY <1>1, <1>2, <1>3

\* What the end of a generation leaves in the rows, close or crash.
LEMMA GoneRows ==
    ASSUME Owned, Close \/ Crash
    PROVE  \E S \in Landings(asked), F \in SUBSET Recording, M \in SUBSET Marked(TRUE) :
              Interrupted(S, F, M) /\ Gone
<1>1. CASE Close
  BY <1>1 DEF Close
<1>2. CASE Crash
  <2>1. {} \in SUBSET Marked(TRUE)
    OBVIOUS
  <2> QED BY <1>2, <2>1 DEF Crash
<1> QED BY <1>1, <1>2

\* An interruption keeps the types of the rows.
LEMMA InterruptedType ==
    ASSUME TypeOK, NEW S, NEW F, NEW M, Interrupted(S, F, M)
    PROVE  /\ state' \in [Runs -> {"absent", "queued", "running", "pruned"} \cup Terminal]
           /\ ripe' \in [Runs -> BOOLEAN]
           /\ attempts' \in [Runs -> Nat] /\ leases' \in [Runs -> Nat]
           /\ error' \in [Runs -> {"none", "interrupted"}]
<1>1. state' \in [Runs -> {"absent", "queued", "running", "pruned"} \cup Terminal]
  BY DEF Interrupted, TypeOK
<1>2. ripe' \in [Runs -> BOOLEAN]
  <2>1. \A r \in Runs : (ripe[r] \/ r \in F) \in BOOLEAN
    OBVIOUS
  <2> QED BY <2>1, Zenon DEF Interrupted, TypeOK
<1>3. attempts' \in [Runs -> Nat]
  BY DEF Interrupted, TypeOK
<1>4. leases' \in [Runs -> Nat] /\ error' \in [Runs -> {"none", "interrupted"}]
  BY DEF Interrupted, TypeOK
<1> QED BY <1>1, <1>2, <1>3, <1>4

\* The outcome of a run that is executed keeps the types of the rows.
LEMMA DoneType ==
    ASSUME TypeOK, NEW r \in Runs, NEW outcome \in Outcomes, Done(r, outcome)
    PROVE  /\ state' \in [Runs -> {"absent", "queued", "running", "pruned"} \cup Terminal]
           /\ ripe' \in [Runs -> BOOLEAN]
           /\ attempts' = attempts /\ leases' = leases
           /\ error' \in [Runs -> {"none", "interrupted"}]
           /\ \A q \in Runs \ {r} : state'[q] = state[q] /\ error'[q] = error[q]
<1>1. CASE state[r] = "stopped"
  BY <1>1 DEF Done, rows, TypeOK
<1>2. CASE state[r] # "stopped"
  <2> DEFINE next == IF Retries(r, outcome) THEN "queued"
                     ELSE IF outcome = "ok" THEN "succeeded" ELSE "failed"
  <2>1. next \in {"queued"} \cup Terminal
    BY DEF Terminal
  <2>2. state' = [state EXCEPT ![r] = next] /\ error' = [error EXCEPT ![r] = "none"]
        /\ attempts' = attempts /\ leases' = leases
    BY <1>2 DEF Done
  <2>3. ripe' \in [Runs -> BOOLEAN]
    <3>1. (~Retries(r, outcome)) \in BOOLEAN
      OBVIOUS
    <3>2. ripe' = [ripe EXCEPT ![r] = ~Retries(r, outcome)]
      BY <1>2 DEF Done
    <3> QED BY <3>1, <3>2, Zenon DEF TypeOK
  <2> HIDE DEF next
  <2> QED BY <2>1, <2>2, <2>3 DEF TypeOK
<1> QED BY <1>1, <1>2

LEMMA MarksType ==
    ASSUME TypeOK, NEW all, NEW M, Marks(all, M)
    PROVE  faults' \in 0..MaxFaults
<1>1. CASE M = all
  BY <1>1 DEF Marks, TypeOK
<1>2. CASE M # all
  BY <1>2 DEF Marks, TypeOK
<1> QED BY <1>1, <1>2

LEMMA SettledType ==
    ASSUME TypeOK, NEW within
    PROVE  Settled(parked, within) \in {"no", "asked", "answered"}
           /\ Settled("asked", within) \in {"no", "asked", "answered"}
BY DEF Settled, TypeOK

-----------------------------------------------------------------------------
\* The initial state is owned by nobody.
LEMMA InitOwned == Init => Owned
<1> SUFFICES ASSUME Init PROVE Owned
  OBVIOUS
<1>1. ripe \in [Runs -> BOOLEAN]
  <2>1. ripe = [r \in Runs |-> FALSE]
    BY DEF Init
  <2> QED BY <2>1, Zenon
<1>2. TypeOK
  <2>1. overran \in BOOLEAN
    BY Zenon DEF Init
  <2>2. /\ state \in [Runs -> {"absent", "queued", "running", "pruned"} \cup Terminal]
        /\ attempts \in [Runs -> Nat] /\ leases \in [Runs -> Nat]
        /\ error \in [Runs -> {"none", "interrupted"}]
        /\ exec \in [Runs -> {"none", "claimed", "running"}]
        /\ fired \in [Runs -> {"none", "reading", "writing"}]
        /\ stopSeen \in [Runs -> {"none", "queued", "running"}]
    BY DEF Init
  <2>3. /\ gen = "closed" /\ wake = "none" /\ asked = {} /\ stopping = {} /\ parked = "no"
        /\ tainted = {} /\ crashes = 0 /\ ends = 0 /\ faults = 0 /\ strays = 0
    BY DEF Init
  <2> QED BY <1>1, <2>1, <2>2, <2>3 DEF TypeOK
<1>3. NothingInMemory /\ OnlySlotsFire /\ ExecutorOwnsRow
  BY DEF Init, NothingInMemory, OnlySlotsFire, ExecutorOwnsRow
<1> QED BY <1>2, <1>3 DEF Owned

\* Types.
LEMMA NextTypeOK ==
    ASSUME Owned, [Next]_vars
    PROVE  TypeOK'
<1> USE DEF Owned
<1>1. ASSUME NEW r \in Runs,
             StartRun(r) \/ Effect(r) \/ Progress(r) \/ StopRead(r) \/ Fire(r)
      PROVE  TypeOK'
  BY <1>1 DEF StartRun, Effect, Progress, StopRead, Fire, TypeOK, rows, bounds
<1>2. ASSUME NEW r \in Runs, Finish(r) PROVE TypeOK'
  <2>1. PICK outcome \in Outcomes : Done(r, outcome)
    BY <1>2 DEF Finish
  <2>2. parked' \in {"no", "asked", "answered"}
    BY <1>2, SettledType DEF Finish
  <2> QED BY <1>2, <2>1, <2>2, DoneType DEF Finish, TypeOK, bounds
<1>3. ASSUME NEW r \in Runs, FinishFails(r) \/ FireEnds(r) PROVE TypeOK'
  <2>1. parked' \in {"no", "asked", "answered"}
    BY <1>3, SettledType DEF FinishFails, FireEnds
  <2> QED BY <1>3, <2>1 DEF FinishFails, FireEnds, TypeOK, rows, bounds
<1>4. ASSUME NEW r \in Runs, Enqueue(r) \/ Ripen(r) \/ Record(r) PROVE TypeOK'
  <2>1. ripe' \in [Runs -> BOOLEAN]
    BY <1>4, Zenon DEF Enqueue, Ripen, Record, TypeOK
  <2> QED BY <1>4, <2>1 DEF Enqueue, Ripen, Record, TypeOK, bounds
<1>5. ASSUME NEW r \in Runs, StopCommit(r) PROVE TypeOK'
  BY <1>5 DEF StopCommit, TypeOK, bounds, Terminal
<1>6. ASSUME NEW r \in Runs, Prune(r) PROVE TypeOK'
  BY <1>6 DEF Prune, TypeOK, bounds
<1>7. ASSUME NEW kind \in Kinds, CommitClaim(kind) PROVE TypeOK'
  BY <1>7 DEF CommitClaim, TypeOK, bounds, Kinds
<1>8. ASSUME NEW kind \in Kinds, AskClaim(kind) \/ FailClaim(kind) PROVE TypeOK'
  BY <1>8 DEF AskClaim, FailClaim, TypeOK, rows, bounds
<1>9. CASE BeginWake \/ SettleWake \/ Activate
  BY <1>9 DEF BeginWake, SettleWake, Activate, TypeOK, rows, bounds, Kinds
<1>10. CASE Park
  <2>1. parked' \in {"no", "asked", "answered"}
    BY <1>10, SettledType DEF Park
  <2> QED BY <1>10, <2>1 DEF Park, TypeOK, rows, bounds
<1>11. CASE EndWake
  <2>1. PICK S \in Landings(asked), M \in SUBSET Marked(FALSE) :
           Interrupted(S, {}, M) /\ Marks(Marked(FALSE), M)
    BY <1>11 DEF EndWake
  <2>2. parked' \in {"no", "asked", "answered"}
    BY <1>11, SettledType DEF EndWake
  <2>3. faults' \in 0..MaxFaults
    BY <2>1, MarksType
  <2>4. exec' \in [Runs -> {"none", "claimed", "running"}] /\ asked' \subseteq Kinds
        /\ wake' = "none"
    BY <1>11 DEF EndWake
  <2>5. UNCHANGED <<gen, overran, fired, stopping, stopSeen, tainted, crashes, ends, strays>>
    BY <1>11 DEF EndWake
  <2> QED BY <2>1, <2>2, <2>3, <2>4, <2>5, InterruptedType DEF TypeOK
<1>12. CASE Close \/ Crash
  <2>1. PICK S \in Landings(asked), F \in SUBSET Recording, M \in SUBSET Marked(TRUE) :
           Interrupted(S, F, M) /\ Gone
    BY <1>12, GoneRows
  <2>5. overran' \in BOOLEAN
    BY <1>12, Zenon DEF Close, Crash
  <2>6. UNCHANGED <<tainted, strays>>
    BY <1>12, Zenon DEF Close, Crash
  <2>2. crashes' \in Nat
    <3>1. crashes' = crashes \/ crashes' = crashes + 1
      BY <1>12, Zenon DEF Close, Crash
    <3> QED BY <3>1 DEF TypeOK
  <2>4. faults' \in 0..MaxFaults
    BY <1>12, MarksType DEF Close, Crash, TypeOK
  <2>3. /\ gen' = "closed" /\ ends' \in 0..MaxEnds /\ wake' = "none" /\ asked' \subseteq Kinds
        /\ parked' = "no" /\ exec' \in [Runs -> {"none", "claimed", "running"}]
        /\ fired' \in [Runs -> {"none", "reading", "writing"}] /\ stopping' \subseteq Runs
        /\ stopSeen' \in [Runs -> {"none", "queued", "running"}]
    BY <2>1 DEF Gone, TypeOK
  <2> QED BY <2>1, <2>2, <2>3, <2>4, <2>5, <2>6, InterruptedType DEF TypeOK
<1>13. CASE Boot
  <2>1. state' \in [Runs -> {"absent", "queued", "running", "pruned"} \cup Terminal]
    BY <1>13 DEF Boot, TypeOK, Terminal
  <2>2. ripe' \in [Runs -> BOOLEAN]
    <3>1. \A r \in Runs : (r \in {q \in Runs : state[q] = "running"} \/ ripe[r]) \in BOOLEAN
      OBVIOUS
    <3> QED BY <1>13, <3>1, Zenon DEF Boot, TypeOK
  <2>3. leases' \in [Runs -> Nat]
    BY <1>13 DEF Boot, TypeOK
  <2>4. error' \in [Runs -> {"none", "interrupted"}]
    BY <1>13 DEF Boot, TypeOK, Cleared
  <2> QED BY <1>13, <2>1, <2>2, <2>3, <2>4 DEF Boot, TypeOK, bounds
<1>14. CASE UNCHANGED vars
  BY <1>14 DEF vars, rows, bounds, TypeOK
<1> QED
  BY <1>1, <1>2, <1>3, <1>4, <1>5, <1>6, <1>7, <1>8, <1>9, <1>10, <1>11, <1>12, <1>13, <1>14
  DEF Next, RunNext, ClaimNext

\* Memory is only filled by a generation that is up, and only slots are fired.
LEMMA NextMemory ==
    ASSUME Owned, [Next]_vars
    PROVE  NothingInMemory' /\ OnlySlotsFire'
<1> USE DEF Owned, NothingInMemory, OnlySlotsFire, Up
<1>1. ASSUME NEW r \in Runs, RunNext(r) PROVE NothingInMemory' /\ OnlySlotsFire'
  <2>1. CASE Ripen(r)
    BY <2>1 DEF Ripen
  <2>2. CASE StartRun(r) \/ Effect(r) \/ Progress(r) \/ Enqueue(r) \/ StopRead(r)
             \/ StopCommit(r) \/ Prune(r)
    BY <2>2 DEF StartRun, Effect, Progress, Enqueue, StopRead, StopCommit, Prune
  <2>3. CASE Finish(r) \/ FinishFails(r) \/ FireEnds(r)
    BY <2>3 DEF Finish, FinishFails, FireEnds, TypeOK
  <2>4. CASE Fire(r) \/ Record(r)
    BY <2>4 DEF Fire, Record, TypeOK
  <2> QED BY <1>1, <2>1, <2>2, <2>3, <2>4 DEF RunNext
<1>2. ASSUME NEW kind \in Kinds, ClaimNext(kind) PROVE NothingInMemory' /\ OnlySlotsFire'
  BY <1>2 DEF ClaimNext, AskClaim, CommitClaim, FailClaim
<1>3. CASE BeginWake \/ SettleWake \/ EndWake \/ Park
  BY <1>3 DEF BeginWake, SettleWake, EndWake, Park
<1>4. CASE Close \/ Crash
  <2>1. Gone
    BY <1>4 DEF Close, Crash
  <2> QED BY <2>1 DEF Gone
<1>5. CASE Activate \/ Boot
  BY <1>5 DEF Activate, Boot
<1>6. CASE UNCHANGED vars
  BY <1>6 DEF vars
<1> QED BY <1>1, <1>2, <1>3, <1>4, <1>5, <1>6 DEF Next

\* A run in memory keeps its row.
LEMMA NextExecutor ==
    ASSUME Owned, [Next]_vars
    PROVE  ExecutorOwnsRow'
<1> USE DEF Owned
<1>1. ASSUME NEW r \in Runs, Finish(r) PROVE ExecutorOwnsRow'
  <2>1. PICK outcome \in Outcomes : Done(r, outcome)
    BY <1>1 DEF Finish
  <2>2. \A q \in Runs \ {r} : state'[q] = state[q] /\ exec'[q] = exec[q] /\ fired'[q] = fired[q]
    BY <1>1, <2>1, DoneType DEF Finish, TypeOK
  <2>3. exec'[r] = "none" /\ fired'[r] = "none" /\ gen' = gen
    BY <1>1 DEF Finish, TypeOK
  <2> QED BY <2>2, <2>3 DEF ExecutorOwnsRow, Up
<1>2. ASSUME NEW r \in Runs, FinishFails(r) \/ FireEnds(r) PROVE ExecutorOwnsRow'
  BY <1>2 DEF FinishFails, FireEnds, rows, TypeOK, ExecutorOwnsRow, Up
<1>3. ASSUME NEW r \in Runs, StartRun(r) \/ Effect(r) \/ Progress(r) \/ StopRead(r) \/ Ripen(r)
      PROVE  ExecutorOwnsRow'
  BY <1>3 DEF StartRun, Effect, Progress, StopRead, Ripen, rows, TypeOK, ExecutorOwnsRow, Up
<1>4. ASSUME NEW r \in Runs, Enqueue(r) \/ StopCommit(r) \/ Prune(r) PROVE ExecutorOwnsRow'
  BY <1>4 DEF Enqueue, StopCommit, Prune, TypeOK, ExecutorOwnsRow, Up
<1>5. ASSUME NEW r \in Runs, Fire(r) PROVE ExecutorOwnsRow'
  <2>1. \A q \in Runs : fired'[q] = "writing" => fired[q] = "writing"
    BY <1>5 DEF Fire, TypeOK
  <2> QED BY <1>5, <2>1 DEF Fire, rows, ExecutorOwnsRow, Up
<1>6. ASSUME NEW r \in Runs, Record(r) PROVE ExecutorOwnsRow'
  BY <1>6 DEF Record, TypeOK, ExecutorOwnsRow, Up
<1>7. ASSUME NEW kind \in Kinds, CommitClaim(kind) PROVE ExecutorOwnsRow'
  <2>1. PICK S \in Takes(kind) :
          /\ state' = [r \in Runs |-> IF r \in S THEN "running" ELSE state[r]]
          /\ exec' = [r \in Runs |-> IF r \in S THEN "claimed" ELSE exec[r]]
    BY <1>7 DEF CommitClaim
  <2>2. \A r \in S : state[r] = "queued"
    BY TakesQueued
  <2> QED BY <1>7, <2>1, <2>2 DEF CommitClaim, ExecutorOwnsRow, Up
<1>8. ASSUME NEW kind \in Kinds, AskClaim(kind) \/ FailClaim(kind) PROVE ExecutorOwnsRow'
  BY <1>8 DEF AskClaim, FailClaim, rows, ExecutorOwnsRow, Up
<1>9. CASE BeginWake \/ SettleWake \/ Park \/ UNCHANGED vars
  BY <1>9 DEF BeginWake, SettleWake, Park, vars, rows, ExecutorOwnsRow, Up
<1>10. CASE EndWake
  <2>1. PICK S \in Landings(asked), M \in SUBSET Marked(FALSE) : Interrupted(S, {}, M)
    BY <1>10 DEF EndWake
  <2>2. \A r \in S : state[r] = "queued"
    BY LandingsQueued
  <2>3. \A r \in Runs : fired[r] = "writing" => state'[r] = state[r]
    BY <2>1, <2>2 DEF Interrupted, ExecutorOwnsRow
  <2> QED BY <1>10, <2>3 DEF EndWake, ExecutorOwnsRow, Up
<1>11. CASE Close \/ Crash
  <2>1. Gone
    BY <1>11 DEF Close, Crash
  <2> QED BY <2>1 DEF Gone, ExecutorOwnsRow
<1>12. CASE Activate \/ Boot
  BY <1>12 DEF Activate, Boot, rows, NothingInMemory, ExecutorOwnsRow, Up
<1> QED
  BY <1>1, <1>2, <1>3, <1>4, <1>5, <1>6, <1>7, <1>8, <1>9, <1>10, <1>11, <1>12
  DEF Next, RunNext, ClaimNext

LEMMA NextOwned == Owned /\ [Next]_vars => Owned'
BY NextTypeOK, NextMemory, NextExecutor DEF Owned

\* The rows and the generation keep their types.
THEOREM TypeCorrect == Spec => []TypeOK
<1>1. Owned => TypeOK
  BY DEF Owned
<1> QED BY <1>1, InitOwned, NextOwned, PTL DEF Spec

\* No run is ever executed by two at once, and none whose row was taken away.
THEOREM ExecutorsOwnTheirRows == Spec => []ExecutorOwnsRow
<1>1. Owned => ExecutorOwnsRow
  BY DEF Owned
<1> QED BY <1>1, InitOwned, NextOwned, PTL DEF Spec

-----------------------------------------------------------------------------
\* What a step may do to the row of a run that has ended: prune it.
LEMMA TerminalStep ==
    ASSUME Owned, [Next]_vars, NEW r \in Runs, state[r] \in Terminal
    PROVE  \/ state'[r] = state[r] /\ leases'[r] = leases[r]
           \/ state'[r] = "pruned" /\ leases'[r] = 0
<1> USE DEF Owned
<1>1. ASSUME NEW q \in Runs, Finish(q) PROVE state'[r] = state[r] /\ leases'[r] = leases[r]
  <2>1. PICK outcome \in Outcomes : Done(q, outcome)
    BY <1>1 DEF Finish
  <2>2. CASE q = r
    <3>1. state[r] = "stopped"
      BY <1>1, <2>2 DEF Finish, Executing, ExecutorOwnsRow, Terminal
    <3> QED BY <2>1, <2>2, <3>1 DEF Done, rows
  <2>3. CASE q # r
    BY <2>1, <2>3, DoneType
  <2> QED BY <2>2, <2>3
<1>2. ASSUME NEW q \in Runs,
             \/ StartRun(q) \/ Effect(q) \/ Progress(q) \/ FinishFails(q) \/ Fire(q) \/ Record(q)
             \/ FireEnds(q) \/ Enqueue(q) \/ Ripen(q) \/ StopRead(q) \/ StopCommit(q)
      PROVE  state'[r] = state[r] /\ leases'[r] = leases[r]
  BY <1>2 DEF StartRun, Effect, Progress, FinishFails, Fire, Record, FireEnds, Enqueue, Ripen,
              StopRead, StopCommit, rows, Terminal, TypeOK
<1>3. ASSUME NEW q \in Runs, Prune(q)
      PROVE  \/ state'[r] = state[r] /\ leases'[r] = leases[r]
             \/ state'[r] = "pruned" /\ leases'[r] = 0
  BY <1>3 DEF Prune, TypeOK
<1>4. ASSUME NEW kind \in Kinds, CommitClaim(kind)
      PROVE  state'[r] = state[r] /\ leases'[r] = leases[r]
  BY <1>4, TakesQueued DEF CommitClaim, Terminal
<1>5. ASSUME NEW kind \in Kinds, AskClaim(kind) \/ FailClaim(kind)
      PROVE  state'[r] = state[r] /\ leases'[r] = leases[r]
  BY <1>5 DEF AskClaim, FailClaim, rows
<1>6. CASE BeginWake \/ SettleWake \/ Park \/ Activate \/ UNCHANGED vars
  BY <1>6 DEF BeginWake, SettleWake, Park, Activate, vars, rows
<1>7. CASE EndWake
  BY <1>7, LandingsQueued DEF EndWake, Interrupted, Terminal
<1>8. CASE Close \/ Crash
  <2>1. PICK S \in Landings(asked), F \in SUBSET Recording, M \in SUBSET Marked(TRUE) :
           Interrupted(S, F, M) /\ Gone
    BY <1>8, GoneRows
  <2>2. r \notin S /\ r \notin F
    BY LandingsQueued DEF Recording, Terminal
  <2> QED BY <2>1, <2>2 DEF Interrupted
<1>9. CASE Boot
  BY <1>9 DEF Boot, Terminal
<1> QED
  BY <1>1, <1>2, <1>3, <1>4, <1>5, <1>6, <1>7, <1>8, <1>9 DEF Next, RunNext, ClaimNext

\* A run that ended stays as it ended until it is pruned.
THEOREM EndsAreFinal == Spec => TerminalIsFinal
<1> DEFINE Final == \A r \in Runs : state[r] \in Terminal => state'[r] \in {state[r], "pruned"}
<1>1. Owned /\ [Next]_vars => [Final]_vars
  BY TerminalStep
<1> QED BY <1>1, InitOwned, NextOwned, PTL DEF Spec, TerminalIsFinal

\* Only a boot counts a lease, and only a prune forgets them.
LEMMA LeasesStep ==
    ASSUME Owned, [Next]_vars, ~Boot, NEW r \in Runs
    PROVE  leases'[r] = leases[r] \/ leases'[r] = 0
<1> USE DEF Owned
<1>1. ASSUME NEW q \in Runs, Finish(q) PROVE leases' = leases
  BY <1>1, DoneType DEF Finish
<1>2. ASSUME NEW q \in Runs,
             \/ StartRun(q) \/ Effect(q) \/ Progress(q) \/ FinishFails(q) \/ Fire(q) \/ Record(q)
             \/ FireEnds(q) \/ Enqueue(q) \/ Ripen(q) \/ StopRead(q) \/ StopCommit(q)
      PROVE  leases' = leases
  BY <1>2 DEF StartRun, Effect, Progress, FinishFails, Fire, Record, FireEnds, Enqueue, Ripen,
              StopRead, StopCommit, rows
<1>3. ASSUME NEW q \in Runs, Prune(q) PROVE leases'[r] = leases[r] \/ leases'[r] = 0
  BY <1>3 DEF Prune, TypeOK
<1>4. ASSUME NEW kind \in Kinds, ClaimNext(kind) PROVE leases' = leases
  BY <1>4 DEF ClaimNext, CommitClaim, AskClaim, FailClaim, rows
<1>5. CASE BeginWake \/ SettleWake \/ Park \/ Activate \/ UNCHANGED vars
  BY <1>5 DEF BeginWake, SettleWake, Park, Activate, vars, rows
<1>6. CASE EndWake \/ Close \/ Crash
  BY <1>6 DEF EndWake, Close, Crash, Interrupted
<1> QED BY <1>1, <1>2, <1>3, <1>4, <1>5, <1>6 DEF Next, RunNext

\* The recovery reruns a run within its budget of leases, for any budget.
THEOREM LeasesWithinBudget == Spec => []LeaseBudget
<1>1. Init => LeaseBudget
  BY DEF Init, LeaseBudget
<1>2. ASSUME Owned, LeaseBudget, [Next]_vars PROVE LeaseBudget'
  <2> SUFFICES ASSUME NEW r \in Runs
               PROVE  /\ leases'[r] <= MaxLeases + 1
                      /\ leases'[r] > MaxLeases => state'[r] = "failed"
    BY DEF LeaseBudget
  <2>1. leases[r] \in Nat /\ leases[r] <= MaxLeases + 1
        /\ (leases[r] > MaxLeases => state[r] = "failed")
    BY <1>2 DEF Owned, TypeOK, LeaseBudget
  <2>2. CASE ~Boot
    <3>1. leases'[r] = leases[r] \/ leases'[r] = 0
      BY <1>2, <2>2, LeasesStep
    <3>2. state[r] = "failed" => state'[r] = "failed" \/ leases'[r] = 0
      BY <1>2, TerminalStep DEF Terminal
    <3> QED BY <2>1, <3>1, <3>2
  <2>3. CASE Boot
    <3>1. CASE state[r] # "running"
      BY <2>1, <2>3, <3>1 DEF Boot
    <3>2. CASE state[r] = "running" /\ Excused(r)
      BY <2>1, <2>3, <3>2 DEF Boot
    <3>3. CASE state[r] = "running" /\ ~Excused(r)
      <4>1. leases'[r] = leases[r] + 1
            /\ state'[r] = IF Fails(r) THEN "failed" ELSE "queued"
        BY <2>3, <3>3 DEF Boot
      <4>2. leases[r] <= MaxLeases
        BY <2>1, <3>3
      <4>3. leases[r] >= MaxLeases => Fails(r)
        BY <3>3 DEF Fails
      <4> QED BY <2>1, <4>1, <4>2, <4>3
    <3> QED BY <3>1, <3>2, <3>3
  <2> QED BY <2>2, <2>3
<1> QED BY <1>1, <1>2, InitOwned, NextOwned, PTL DEF Spec

-----------------------------------------------------------------------------
\* A marked row was left behind: it is running and in nobody's memory.
LeftBehind ==
    \A r \in Runs : error[r] = "interrupted" =>
        state[r] = "running" /\ exec[r] = "none" /\ fired[r] # "writing"

LEMMA NextLeftBehind ==
    ASSUME Owned, LeftBehind, [Next]_vars
    PROVE  LeftBehind'
<1> USE DEF Owned
<1>1. ASSUME NEW r \in Runs, Finish(r) PROVE LeftBehind'
  <2>1. PICK outcome \in Outcomes : Done(r, outcome)
    BY <1>1 DEF Finish
  <2>2. error'[r] # "interrupted"
    <3>1. CASE state[r] = "stopped"
      BY <2>1, <3>1 DEF Done, rows, LeftBehind
    <3>2. CASE state[r] # "stopped"
      BY <2>1, <3>2 DEF Done, TypeOK
    <3> QED BY <3>1, <3>2
  <2>3. \A q \in Runs \ {r} : state'[q] = state[q] /\ error'[q] = error[q]
    BY <2>1, DoneType
  <2> QED BY <1>1, <2>2, <2>3 DEF Finish, LeftBehind, TypeOK
<1>2. ASSUME NEW r \in Runs, FinishFails(r) \/ FireEnds(r) PROVE LeftBehind'
  BY <1>2 DEF FinishFails, FireEnds, rows, TypeOK, LeftBehind
<1>3. ASSUME NEW r \in Runs, Effect(r) \/ Progress(r) \/ StopRead(r) \/ Ripen(r)
      PROVE  LeftBehind'
  BY <1>3 DEF Effect, Progress, StopRead, Ripen, rows, LeftBehind
<1>4. ASSUME NEW r \in Runs, StartRun(r) \/ Fire(r) \/ Record(r) PROVE LeftBehind'
  BY <1>4 DEF StartRun, Fire, Record, rows, TypeOK, LeftBehind
<1>5. ASSUME NEW r \in Runs, Enqueue(r) \/ StopCommit(r) \/ Prune(r) PROVE LeftBehind'
  BY <1>5 DEF Enqueue, StopCommit, Prune, TypeOK, LeftBehind, Terminal
<1>6. ASSUME NEW kind \in Kinds, CommitClaim(kind) PROVE LeftBehind'
  <2>1. PICK S \in Takes(kind) :
          /\ state' = [r \in Runs |-> IF r \in S THEN "running" ELSE state[r]]
          /\ exec' = [r \in Runs |-> IF r \in S THEN "claimed" ELSE exec[r]]
    BY <1>6 DEF CommitClaim
  <2>2. \A r \in S : state[r] = "queued"
    BY TakesQueued
  <2> QED BY <1>6, <2>1, <2>2 DEF CommitClaim, LeftBehind
<1>7. ASSUME NEW kind \in Kinds, AskClaim(kind) \/ FailClaim(kind) PROVE LeftBehind'
  BY <1>7 DEF AskClaim, FailClaim, rows, LeftBehind
<1>8. CASE BeginWake \/ SettleWake \/ Park \/ Activate \/ UNCHANGED vars
  BY <1>8 DEF BeginWake, SettleWake, Park, Activate, vars, rows, LeftBehind
<1>9. CASE EndWake
  <2>1. PICK S \in Landings(asked), M \in SUBSET Marked(FALSE) : Interrupted(S, {}, M)
    BY <1>9 DEF EndWake
  <2>2. \A r \in M : state[r] = "running" /\ exec[r] # "none"
    BY DEF Marked
  <2>3. \A r \in M : fired[r] # "writing"
    BY <2>2 DEF ExecutorOwnsRow, Marked
  <2>4. \A r \in Runs : state[r] = "running" => state'[r] = "running"
    BY <2>1 DEF Interrupted
  <2>5. \A r \in Runs : error'[r] = "interrupted" => r \in M \/ error[r] = "interrupted"
    BY <2>1 DEF Interrupted
  <2>6. \A r \in Runs : exec'[r] = "none" /\ fired'[r] = fired[r]
    BY <1>9 DEF EndWake
  <2> QED BY <2>2, <2>3, <2>4, <2>5, <2>6 DEF LeftBehind
<1>10. CASE Close \/ Crash
  <2>1. PICK S \in Landings(asked), F \in SUBSET Recording, M \in SUBSET Marked(TRUE) :
           Interrupted(S, F, M) /\ Gone
    BY <1>10, GoneRows
  <2>2. \A r \in M : state[r] = "running"
    BY DEF Marked
  <2> QED BY <2>1, <2>2 DEF Interrupted, Gone, LeftBehind
<1>11. CASE Boot
  BY <1>11 DEF Boot, Cleared, Excused, LeftBehind
<1> QED
  BY <1>1, <1>2, <1>3, <1>4, <1>5, <1>6, <1>7, <1>8, <1>9, <1>10, <1>11
  DEF Next, RunNext, ClaimNext

\* The mark of a close never outlives the recovery it excuses.
THEOREM MarksAreNotStale == Spec => []MarkIsNotStale
<1>1. Init => LeftBehind
  BY DEF Init, LeftBehind
<1>2. LeftBehind => MarkIsNotStale
  BY DEF LeftBehind, MarkIsNotStale, Executing
<1>3. Owned /\ LeftBehind /\ [Next]_vars => LeftBehind'
  BY NextLeftBehind
<1> QED BY <1>1, <1>2, <1>3, InitOwned, NextOwned, PTL DEF Spec

-----------------------------------------------------------------------------
\* An authored run that lies running with no mark and nobody to run it has met a
\* crash or a failed statement that no lease was counted for yet.
Abandoned(r) == state[r] = "running" /\ exec[r] = "none" /\ error[r] # "interrupted"
Paid ==
    \A r \in Runs \ Slots : Authored(r) =>
        /\ leases[r] <= crashes + faults
        /\ Abandoned(r) => leases[r] + 1 <= crashes + faults

LEMMA PaidStep ==
    ASSUME Owned, Paid, NEW r \in Runs \ Slots, Authored(r),
           leases'[r] = leases[r] \/ leases'[r] = 0,
           \/ crashes' = crashes /\ faults' = faults /\ (Abandoned(r)' => Abandoned(r))
           \/ crashes' = crashes + 1 /\ faults' = faults
           \/ crashes' = crashes /\ faults' = faults + 1
    PROVE  /\ leases'[r] <= crashes' + faults'
           /\ Abandoned(r)' => leases'[r] + 1 <= crashes' + faults'
<1>1. leases[r] \in Nat /\ crashes \in Nat /\ faults \in Nat
  BY DEF Owned, TypeOK
<1>2. leases[r] <= crashes + faults /\ (Abandoned(r) => leases[r] + 1 <= crashes + faults)
  BY DEF Paid
<1>3. CASE crashes' = crashes /\ faults' = faults /\ (Abandoned(r)' => Abandoned(r))
  <2>1. CASE Abandoned(r)'
    BY <1>1, <1>2, <1>3, <2>1
  <2>2. CASE ~Abandoned(r)'
    BY <1>1, <1>2, <1>3, <2>2
  <2> QED BY <2>1, <2>2
<1>4. CASE crashes' = crashes + 1 /\ faults' = faults
  BY <1>1, <1>2, <1>4
<1>5. CASE crashes' = crashes /\ faults' = faults + 1
  BY <1>1, <1>2, <1>5
<1> QED BY <1>3, <1>4, <1>5

\* A close with every mark written abandons no authored run.
LEMMA CloseMarksAuthored ==
    ASSUME Owned, LeftBehind, "custom" \notin asked, NEW S \in Landings(asked),
           NEW F \in SUBSET Slots, NEW withFired, NEW M, Interrupted(S, F, M),
           M = Marked(withFired), \A q \in Runs : exec'[q] = "none",
           NEW r \in Runs \ Slots, Authored(r), Abandoned(r)'
    PROVE  Abandoned(r)
<1>1. r \notin S /\ r \notin F
  BY LandingsQueued
<1>2. state[r] = "running"
  BY <1>1 DEF Interrupted, Abandoned
<1>3. r \notin M /\ error[r] # "interrupted"
  BY DEF Interrupted, Abandoned
<1>4. exec[r] \notin {"claimed", "running"}
  BY <1>2, <1>3 DEF Marked
<1>5. exec[r] = "none"
  BY <1>4 DEF Owned, TypeOK
<1> QED BY <1>2, <1>3, <1>5 DEF Abandoned

LEMMA NextPaid ==
    ASSUME Owned, LeftBehind, Paid, [Next]_vars
    PROVE  Paid'
<1> SUFFICES ASSUME NEW r \in Runs \ Slots, Authored(r)
             PROVE  /\ leases'[r] <= crashes' + faults'
                    /\ Abandoned(r)' => leases'[r] + 1 <= crashes' + faults'
  BY DEF Paid, Authored
<1>0. ~Boot => leases'[r] = leases[r] \/ leases'[r] = 0
  BY LeasesStep
<1> DEFINE Same == crashes' = crashes /\ faults' = faults /\ (Abandoned(r)' => Abandoned(r))
           Lost == \/ crashes' = crashes + 1 /\ faults' = faults
                   \/ crashes' = crashes /\ faults' = faults + 1
<1>1. ASSUME NEW q \in Runs, Finish(q) PROVE Same
  <2>1. PICK outcome \in Outcomes : Done(q, outcome)
    BY <1>1 DEF Finish
  <2>2. CASE q = r
    <3>1. state[r] \in {"running", "stopped"}
      BY <1>1, <2>2 DEF Finish, Executing, Owned, ExecutorOwnsRow
    <3>2. state'[r] # "running"
      BY <2>1, <2>2, <3>1 DEF Done, rows, Owned, TypeOK
    <3> QED BY <1>1, <3>2 DEF Finish, Abandoned, bounds
  <2>3. CASE q # r
    <3>1. state'[r] = state[r] /\ error'[r] = error[r]
      BY <2>1, <2>3, DoneType DEF Owned
    <3>2. exec'[r] = exec[r]
      BY <1>1, <2>3 DEF Finish, Owned, TypeOK
    <3> QED BY <1>1, <3>1, <3>2 DEF Finish, Abandoned, bounds
  <2> QED BY <2>2, <2>3
<1>2. ASSUME NEW q \in Runs,
             \/ StartRun(q) \/ Effect(q) \/ Progress(q) \/ Fire(q) \/ FireEnds(q) \/ Ripen(q)
             \/ StopRead(q)
      PROVE  Same
  BY <1>2 DEF StartRun, Effect, Progress, Fire, FireEnds, Ripen, StopRead, rows, bounds,
              Abandoned, Owned, TypeOK
<1>3. ASSUME NEW q \in Runs, Enqueue(q) \/ StopCommit(q) \/ Prune(q) PROVE Same
  BY <1>3 DEF Enqueue, StopCommit, Prune, bounds, Abandoned, Owned, TypeOK
<1>4. ASSUME NEW q \in Runs, Record(q) PROVE Same
  <2>1. q # r
    BY <1>4 DEF Record, Owned, OnlySlotsFire
  <2> QED BY <1>4, <2>1 DEF Record, bounds, Abandoned, Owned, TypeOK
<1>5. ASSUME NEW q \in Runs, FinishFails(q) PROVE Lost
  BY <1>5 DEF FinishFails
<1>6. ASSUME NEW kind \in Kinds, CommitClaim(kind) PROVE Same
  <2>1. PICK S \in Takes(kind) :
          /\ state' = [q \in Runs |-> IF q \in S THEN "running" ELSE state[q]]
          /\ exec' = [q \in Runs |-> IF q \in S THEN "claimed" ELSE exec[q]]
    BY <1>6 DEF CommitClaim
  <2> QED BY <1>6, <2>1 DEF CommitClaim, bounds, Abandoned
<1>7. ASSUME NEW kind \in Kinds, AskClaim(kind) PROVE Same
  BY <1>7 DEF AskClaim, rows, Abandoned
<1>8. ASSUME NEW kind \in Kinds, FailClaim(kind) PROVE Lost
  BY <1>8 DEF FailClaim
<1>9. CASE BeginWake \/ SettleWake \/ Park \/ Activate \/ UNCHANGED vars
  <2>1. Same
    BY <1>9 DEF BeginWake, SettleWake, Park, Activate, vars, rows, bounds, Abandoned
  <2> QED BY <1>0, <1>9, <2>1, PaidStep DEF BeginWake, SettleWake, Park, Activate, vars, rows
<1>10. ASSUME EndWake PROVE Same \/ Lost
  <2>1. PICK S \in Landings(asked), M \in SUBSET Marked(FALSE) :
           Interrupted(S, {}, M) /\ Marks(Marked(FALSE), M)
    BY <1>10 DEF EndWake
  <2>2. CASE M = Marked(FALSE)
    <3>1. Abandoned(r)' => Abandoned(r)
      BY <1>10, <2>1, <2>2, CloseMarksAuthored DEF EndWake
    <3> QED BY <1>10, <2>1, <2>2, <3>1 DEF EndWake, Marks
  <2>3. CASE M # Marked(FALSE)
    BY <1>10, <2>1, <2>3 DEF EndWake, Marks
  <2> QED BY <2>2, <2>3
<1>11. ASSUME Close PROVE Same \/ Lost
  <2>1. PICK S \in Landings(asked), F \in SUBSET Recording, M \in SUBSET Marked(TRUE) :
           Interrupted(S, F, M) /\ Marks(Marked(TRUE), M)
    BY <1>11 DEF Close
  <2>2. F \subseteq Slots /\ \A q \in Runs : exec'[q] = "none"
    BY <1>11 DEF Close, Gone, Recording
  <2>3. CASE M = Marked(TRUE)
    <3>1. Abandoned(r)' => Abandoned(r)
      BY <1>11, <2>1, <2>2, <2>3, CloseMarksAuthored DEF Close
    <3> QED BY <1>11, <2>1, <2>3, <3>1 DEF Close, Marks
  <2>4. CASE M # Marked(TRUE)
    BY <1>11, <2>1, <2>4 DEF Close, Marks
  <2> QED BY <2>3, <2>4
<1>12. ASSUME Crash PROVE Lost
  BY <1>12 DEF Crash
<1>13. ASSUME Same \/ Lost, ~Boot
       PROVE  /\ leases'[r] <= crashes' + faults'
              /\ Abandoned(r)' => leases'[r] + 1 <= crashes' + faults'
  BY <1>0, <1>13, PaidStep
<1>14. CASE Boot
  <2>1. leases[r] \in Nat /\ crashes \in Nat /\ faults \in Nat
    BY DEF Owned, TypeOK
  <2>2. leases[r] <= crashes + faults /\ (Abandoned(r) => leases[r] + 1 <= crashes + faults)
    BY DEF Paid
  <2>3. exec[r] = "none"
    BY <1>14 DEF Boot, Owned, NothingInMemory, Up
  <2>4. crashes' = crashes /\ faults' = faults /\ state'[r] # "running"
    BY <1>14 DEF Boot, bounds
  <2>5. leases'[r] = IF state[r] = "running" /\ ~Excused(r) THEN leases[r] + 1 ELSE leases[r]
    BY <1>14 DEF Boot
  <2>6. state[r] = "running" /\ ~Excused(r) => Abandoned(r)
    BY <2>3 DEF Abandoned, Excused
  <2>7. ~Abandoned(r)'
    BY <2>4 DEF Abandoned
  <2> QED BY <2>1, <2>2, <2>4, <2>5, <2>6, <2>7
<1> HIDE DEF Same, Lost
<1> QED
  BY <1>1, <1>2, <1>3, <1>4, <1>5, <1>6, <1>7, <1>8, <1>9, <1>10, <1>11, <1>12, <1>13, <1>14
  DEF Next, RunNext, ClaimNext

\* A planned close costs an authored run no lease, whenever it comes.
THEOREM AuthoredClosesCostNoLease == Spec => []ClosesCostNoLease
<1>1. Init => LeftBehind /\ Paid
  BY DEF Init, LeftBehind, Paid, Abandoned
<1>2. Owned /\ LeftBehind /\ Paid /\ [Next]_vars => LeftBehind' /\ Paid'
  BY NextLeftBehind, NextPaid
<1>3. Paid => ClosesCostNoLease
  BY DEF Paid, ClosesCostNoLease
<1> QED BY <1>1, <1>2, <1>3, InitOwned, NextOwned, PTL DEF Spec

-----------------------------------------------------------------------------
\* A step that admits at most one eligible run of an automation keeps it within
\* its capacity.
LEMMA OneAdmitted ==
    ASSUME RunningWithinCapacity, NEW a \in Custom,
           \/ \A r \in Runs \ Slots :
                AutoOf[r] = a /\ state'[r] = "running" => state[r] = "running"
           \/ \E x \in Runs :
                /\ AutoOf[x] = a /\ Eligible(x)
                /\ \A r \in Runs \ Slots : AutoOf[r] = a /\ state'[r] = "running" =>
                        state[r] = "running" \/ r = x
    PROVE  Cardinality(Running(a)' \ Slots) <= Capacity[a]
<1> DEFINE C == Running(a) \ Slots
           D == Running(a)' \ Slots
<1>1. Capacity[a] \in Nat
  BY RunsAssumption, CapacityAssumption
<1>2. IsFiniteSet(Running(a)) /\ Cardinality(Running(a)) \in Nat
  <2>1. Running(a) \subseteq Runs
    BY DEF Running
  <2> QED BY <2>1, RunsAssumption, FS_Subset, FS_CardinalityType
<1>3. /\ IsFiniteSet(C) /\ Cardinality(C) \in Nat
      /\ Cardinality(C) <= Cardinality(Running(a))
  <2>1. C \subseteq Running(a)
    OBVIOUS
  <2> QED BY <1>2, <2>1, FS_Subset, FS_CardinalityType
<1>4. CASE \A r \in Runs \ Slots :
             AutoOf[r] = a /\ state'[r] = "running" => state[r] = "running"
  <2>1. D \subseteq C
    BY <1>4 DEF Running
  <2>2. Cardinality(D) <= Cardinality(C) /\ Cardinality(D) \in Nat
    BY <1>3, <2>1, FS_Subset, FS_CardinalityType
  <2>3. Cardinality(C) <= Capacity[a]
    BY DEF RunningWithinCapacity
  <2> QED BY <1>1, <1>3, <2>2, <2>3
<1>5. ASSUME NEW x \in Runs, AutoOf[x] = a, Eligible(x),
             \A r \in Runs \ Slots : AutoOf[r] = a /\ state'[r] = "running" =>
                state[r] = "running" \/ r = x
      PROVE  Cardinality(D) <= Capacity[a]
  <2>1. D \subseteq C \cup {x}
    BY <1>5 DEF Running
  <2>2. x \notin C /\ Cardinality(Running(a)) < Capacity[a]
    BY <1>5 DEF Eligible, Running
  <2>3. IsFiniteSet(C \cup {x}) /\ Cardinality(C \cup {x}) = Cardinality(C) + 1
    BY <1>3, <2>2, FS_AddElement
  <2>4. Cardinality(D) <= Cardinality(C \cup {x}) /\ Cardinality(D) \in Nat
    BY <2>1, <2>3, FS_Subset, FS_CardinalityType
  <2> HIDE DEF C, D
  <2> QED BY <1>1, <1>2, <1>3, <2>2, <2>3, <2>4
<1> QED BY <1>4, <1>5

\* A claim admits at most one authored run, and an eligible one.
LEMMA LandsOne ==
    ASSUME NEW kinds, NEW S \in Landings(kinds)
    PROVE  \/ \A r \in S : ~Authored(r)
           \/ \E x \in Runs : Authored(x) /\ Eligible(x) /\ \A r \in S : Authored(r) => r = x
<1>1. PICK b \in {{}} \cup (IF "bulk" \in kinds THEN Takes("bulk") ELSE {}),
           c \in {{}} \cup (IF "custom" \in kinds THEN Takes("custom") ELSE {}) : S = b \cup c
  BY DEF Landings
<1>2. \A r \in b : ~Authored(r)
  BY <1>1, TakesQueued DEF Kinds
<1>3. c = {} \/ \E x \in Runs : Authored(x) /\ Eligible(x) /\ c = {x}
  <2>1. CASE c \in Takes("custom")
    BY <2>1 DEF Takes
  <2> QED BY <1>1, <2>1
<1> QED BY <1>1, <1>2, <1>3

LEMMA NextWithinCapacity ==
    ASSUME Owned, RunningWithinCapacity, [Next]_vars
    PROVE  RunningWithinCapacity'
<1> SUFFICES ASSUME NEW a \in Custom
             PROVE  Cardinality(Running(a)' \ Slots) <= Capacity[a]
  BY DEF RunningWithinCapacity
<1> USE DEF Owned
<1> DEFINE Nobody == \A r \in Runs \ Slots :
                       AutoOf[r] = a /\ state'[r] = "running" => state[r] = "running"
           One == \E x \in Runs :
                    /\ AutoOf[x] = a /\ Eligible(x)
                    /\ \A r \in Runs \ Slots : AutoOf[r] = a /\ state'[r] = "running" =>
                            state[r] = "running" \/ r = x
<1>1. ASSUME NEW q \in Runs, Finish(q) PROVE Nobody
  <2>1. PICK outcome \in Outcomes : Done(q, outcome)
    BY <1>1 DEF Finish
  <2>2. state'[q] = "running" => state[q] = "running"
    BY <2>1 DEF Done, rows, TypeOK
  <2> QED BY <2>1, <2>2, DoneType
<1>2. ASSUME NEW q \in Runs,
             \/ StartRun(q) \/ Effect(q) \/ Progress(q) \/ FinishFails(q) \/ Fire(q)
             \/ FireEnds(q) \/ Enqueue(q) \/ Ripen(q) \/ StopRead(q) \/ StopCommit(q) \/ Prune(q)
      PROVE  Nobody
  BY <1>2 DEF StartRun, Effect, Progress, FinishFails, Fire, FireEnds, Enqueue, Ripen,
              StopRead, StopCommit, Prune, rows, TypeOK
<1>3. ASSUME NEW q \in Runs, Record(q) PROVE Nobody
  <2>1. q \in Slots
    BY <1>3 DEF Record, OnlySlotsFire
  <2> QED BY <1>3, <2>1 DEF Record, TypeOK
<1>4. ASSUME NEW kind \in Kinds, AskClaim(kind) \/ FailClaim(kind) PROVE Nobody
  BY <1>4 DEF AskClaim, FailClaim, rows
<1>5. ASSUME NEW kind \in Kinds, CommitClaim(kind) PROVE Nobody \/ One
  <2>1. PICK S \in Takes(kind) : state' = [r \in Runs |-> IF r \in S THEN "running" ELSE state[r]]
    BY <1>5 DEF CommitClaim
  <2>2. S \in Landings({kind})
    <3>1. CASE kind = "bulk"
      BY <2>1, <3>1 DEF Landings
    <3>2. CASE kind = "custom"
      BY <2>1, <3>2 DEF Landings
    <3> QED BY <3>1, <3>2 DEF Kinds
  <2>3. CASE \A r \in S : ~Authored(r)
    BY <2>1, <2>3 DEF Authored
  <2>4. ASSUME NEW x \in Runs, Authored(x), Eligible(x), \A r \in S : Authored(r) => r = x
        PROVE  Nobody \/ One
    BY <2>1, <2>4 DEF Authored
  <2> QED BY <2>2, <2>3, <2>4, LandsOne
<1>6. CASE BeginWake \/ SettleWake \/ Park \/ Activate \/ UNCHANGED vars
  <2>1. Nobody
    BY <1>6 DEF BeginWake, SettleWake, Park, Activate, vars, rows
  <2> QED BY <2>1, OneAdmitted
<1>7. ASSUME EndWake \/ Close \/ Crash PROVE Nobody \/ One
  <2>1. PICK S \in Landings(asked), F \in SUBSET Slots :
          state' = [r \in Runs |-> IF r \in S \cup F THEN "running" ELSE state[r]]
    <3>1. CASE EndWake
      <4>1. {} \in SUBSET Slots
        OBVIOUS
      <4> QED BY <3>1, <4>1 DEF EndWake, Interrupted
    <3>2. CASE Close \/ Crash
      <4>1. Recording \subseteq Slots
        BY DEF Recording
      <4> QED BY <3>2, <4>1, GoneRows DEF Interrupted
    <3> QED BY <1>7, <3>1, <3>2
  <2>3. CASE \A r \in S : ~Authored(r)
    BY <2>1, <2>3 DEF Authored
  <2>4. ASSUME NEW x \in Runs, Authored(x), Eligible(x), \A r \in S : Authored(r) => r = x
        PROVE  Nobody \/ One
    BY <2>1, <2>4 DEF Authored
  <2> QED BY <2>3, <2>4, LandsOne
<1>8. ASSUME Boot PROVE Nobody
  BY <1>8 DEF Boot
<1>9. ASSUME Nobody \/ One PROVE Cardinality(Running(a)' \ Slots) <= Capacity[a]
  BY <1>9, OneAdmitted
<1> HIDE DEF Nobody, One
<1> QED BY <1>1, <1>2, <1>3, <1>4, <1>5, <1>6, <1>7, <1>8, <1>9 DEF Next, RunNext, ClaimNext

\* Claims keep every authored automation within its concurrency.max.
THEOREM WithinCapacity == Spec => []RunningWithinCapacity
<1>1. Init => RunningWithinCapacity
  <2> SUFFICES ASSUME Init, NEW a \in Custom
               PROVE  Cardinality(Running(a) \ Slots) <= Capacity[a]
    BY DEF RunningWithinCapacity
  <2>1. Running(a) \ Slots = {}
    BY DEF Init, Running
  <2>2. Capacity[a] \in Nat
    BY RunsAssumption, CapacityAssumption
  <2> QED BY <2>1, <2>2, FS_EmptySet
<1>2. Owned /\ RunningWithinCapacity /\ [Next]_vars => RunningWithinCapacity'
  BY NextWithinCapacity
<1> QED BY <1>1, <1>2, InitOwned, NextOwned, PTL DEF Spec

-----------------------------------------------------------------------------
(* The refinement of RunLife.                                              *)

\* A run that nobody has inserted was never taken.
Fresh == \A r \in Runs : state[r] = "absent" => attempts[r] = 0

Moved(r) ==
    \/ Life!Offer(r) \/ Life!Take(r) \/ Life!Finish(r) \/ Life!Leave(r) \/ Life!Recover(r)
    \/ Life!Stop(r) \/ Life!Forget(r) \/ Life!Rest(r)

\* A run that the step leaves alone rests, and one that only loses its executor
\* is left.
LEMMA RestsOrLeft ==
    ASSUME NEW r \in Runs, state'[r] = state[r], attempts'[r] = attempts[r],
           r \in Alive' => r \in Alive
    PROVE  Moved(r)
BY DEF Moved, Life!Leave, Life!Rest, Life!Becomes, Life!Counted, Life!Held, Life!Gone

\* Every step moves each run as RunLife lets it.
LEMMA RunMoves ==
    ASSUME Owned, Fresh, [Next]_vars, NEW r \in Runs
    PROVE  Moved(r)
<1> USE DEF Owned
<1>0. /\ r \in Alive <=> (exec[r] # "none" \/ fired[r] = "writing")
      /\ r \in Alive' <=> (exec'[r] # "none" \/ fired'[r] = "writing")
      /\ r \in Alive => state[r] \in {"running", "stopped"} /\ Up
      /\ attempts[r] \in Nat
  BY DEF Alive, ExecutorOwnsRow, TypeOK
<1>1. ASSUME UNCHANGED <<state, attempts>>, exec'[r] = exec[r] \/ exec'[r] = "none" \/ exec[r] # "none",
             fired'[r] = "writing" => fired[r] = "writing"
      PROVE  Moved(r)
  BY <1>0, <1>1, RestsOrLeft
<1>2. ASSUME NEW q \in Runs, Finish(q) PROVE Moved(r)
  <2>1. PICK outcome \in Outcomes : Done(q, outcome)
    BY <1>2 DEF Finish
  <2>2. CASE q # r
    <3>1. state'[r] = state[r] /\ attempts'[r] = attempts[r]
      BY <2>1, <2>2 DEF Done, rows, TypeOK
    <3>2. exec'[r] = exec[r] /\ fired'[r] = fired[r]
      BY <1>2, <2>2 DEF Finish, TypeOK
    <3> QED BY <1>0, <3>1, <3>2, RestsOrLeft
  <2>3. CASE q = r
    <3>1. r \in Alive /\ r \notin Alive'
      BY <1>0, <1>2, <2>3 DEF Finish, Executing, TypeOK
    <3>2. CASE state[r] = "stopped"
      BY <2>1, <2>3, <3>1, <3>2, RestsOrLeft DEF Done, rows
    <3>3. CASE state[r] = "running"
      <4>1. /\ attempts'[r] = attempts[r]
            /\ \/ state'[r] \in {"succeeded", "failed"}
               \/ state'[r] = "queued" /\ attempts[r] < MaxAttempts
        BY <2>1, <2>3, <3>3 DEF Done, Retries, TypeOK
      <4> QED BY <3>1, <3>3, <4>1 DEF Moved, Life!Finish, Life!Becomes, Life!Counted, Life!Gone
    <3> QED BY <1>0, <3>1, <3>2, <3>3
  <2> QED BY <2>2, <2>3
<1>3. ASSUME NEW q \in Runs, StartRun(q) \/ Effect(q) \/ Progress(q) \/ StopRead(q) \/ Ripen(q) \/ Fire(q)
                             \/ FireEnds(q) \/ FinishFails(q)
      PROVE  Moved(r)
  <2>1. UNCHANGED <<state, attempts>>
    BY <1>3 DEF StartRun, Effect, Progress, StopRead, Ripen, Fire, FireEnds, FinishFails, rows
  <2>2. exec'[r] = exec[r] \/ exec'[r] = "none" \/ exec[r] # "none"
    BY <1>3 DEF StartRun, Effect, Progress, StopRead, Ripen, Fire, FireEnds, FinishFails, TypeOK
  <2>3. fired'[r] = "writing" => fired[r] = "writing"
    BY <1>3 DEF StartRun, Effect, Progress, StopRead, Ripen, Fire, FireEnds, FinishFails, TypeOK
  <2> QED BY <1>1, <2>1, <2>2, <2>3
<1>4. ASSUME NEW q \in Runs, Record(q) \/ Enqueue(q) \/ StopCommit(q) \/ Prune(q) PROVE Moved(r)
  <2>1. CASE q # r
    <3>1. state'[r] = state[r] /\ attempts'[r] = attempts[r] /\ exec'[r] = exec[r] /\ fired'[r] = fired[r]
      BY <1>4, <2>1 DEF Record, Enqueue, StopCommit, Prune, TypeOK
    <3> QED BY <1>0, <3>1, RestsOrLeft
  <2>2. CASE q = r /\ Record(q)
    <3>1. state[r] = "absent" /\ state'[r] = "running" /\ attempts'[r] = 1 /\ attempts[r] = 0
      BY <2>2 DEF Record, TypeOK, Fresh
    <3> QED BY <1>0, <3>1 DEF Moved, Life!Take, Life!Becomes
  <2>3. CASE q = r /\ Enqueue(q)
    BY <1>0, <2>3 DEF Enqueue, TypeOK, Moved, Life!Offer, Life!Becomes, Life!Held, Life!Counted
  <2>4. CASE q = r /\ StopCommit(q)
    <3>1. /\ attempts' = attempts /\ exec' = exec /\ fired' = fired
          /\ state'[r] = state[r] \/ (state[r] \in {"queued", "running"} /\ state'[r] = "stopped")
      BY <2>4 DEF StopCommit, TypeOK
    <3> QED BY <1>0, <3>1, RestsOrLeft DEF Moved, Life!Stop, Life!Becomes, Life!Held, Life!Counted
  <2>5. CASE q = r /\ Prune(q)
    BY <1>0, <2>5 DEF Prune, Terminal, TypeOK, Moved, Life!Forget, Life!Ended, Life!Becomes, Life!Gone
  <2> QED BY <1>4, <2>1, <2>2, <2>3, <2>4, <2>5
<1>5. ASSUME NEW kind \in Kinds, CommitClaim(kind) PROVE Moved(r)
  <2>1. PICK S \in Takes(kind) :
          /\ state' = [q \in Runs |-> IF q \in S THEN "running" ELSE state[q]]
          /\ attempts' = [q \in Runs |-> IF q \in S THEN attempts[q] + 1 ELSE attempts[q]]
          /\ exec' = [q \in Runs |-> IF q \in S THEN "claimed" ELSE exec[q]]
    BY <1>5 DEF CommitClaim
  <2>2. r \in S => state[r] = "queued"
    BY TakesQueued
  <2>3. CASE r \in S
    BY <1>0, <2>1, <2>2, <2>3 DEF Moved, Life!Take, Life!Becomes
  <2>4. CASE r \notin S
    BY <1>0, <1>5, <2>1, <2>4, RestsOrLeft DEF CommitClaim
  <2> QED BY <2>3, <2>4
<1>6. ASSUME NEW kind \in Kinds, AskClaim(kind) \/ FailClaim(kind) PROVE Moved(r)
  BY <1>1, <1>6 DEF AskClaim, FailClaim, rows
<1>7. CASE BeginWake \/ SettleWake \/ Park \/ Activate \/ UNCHANGED vars
  BY <1>1, <1>7 DEF BeginWake, SettleWake, Park, Activate, vars, rows
<1>8. ASSUME NEW S \in Landings(asked), NEW F \in SUBSET Recording, NEW M, Interrupted(S, F, M),
             exec'[r] = "none", fired'[r] = "writing" => fired[r] = "writing"
      PROVE  Moved(r)
  <2>1. /\ r \in S => state[r] = "queued"
        /\ r \in F => state[r] = "absent"
    BY LandingsQueued DEF Recording
  <2>2. CASE r \in S \cup F
    <3>1. r \notin Alive
      BY <1>0, <2>1, <2>2
    <3>2. state'[r] = "running" /\ attempts'[r] = attempts[r] + 1
      BY <1>0, <1>8, <2>1, <2>2 DEF Interrupted, Fresh
    <3> QED BY <2>1, <2>2, <3>1, <3>2 DEF Moved, Life!Take, Life!Becomes
  <2>3. CASE r \notin S \cup F
    BY <1>0, <1>8, <2>3, RestsOrLeft DEF Interrupted
  <2> QED BY <2>2, <2>3
<1>9. CASE EndWake
  <2>1. {} \in SUBSET Recording
    OBVIOUS
  <2> QED BY <1>8, <1>9, <2>1 DEF EndWake
<1>10. CASE Close \/ Crash
  <2>1. PICK S \in Landings(asked), F \in SUBSET Recording, M \in SUBSET Marked(TRUE) :
           Interrupted(S, F, M) /\ Gone
    BY <1>10, GoneRows
  <2> QED BY <1>8, <2>1 DEF Gone
<1>11. CASE Boot
  <2>1. r \notin Alive /\ r \notin Alive' /\ attempts' = attempts
    BY <1>0, <1>11 DEF Boot, Up
  <2>2. state'[r] = state[r] \/ (state[r] = "running" /\ state'[r] \in {"queued", "failed"})
    BY <1>11 DEF Boot
  <2> QED BY <2>1, <2>2, RestsOrLeft DEF Moved, Life!Recover, Life!Becomes, Life!Counted, Life!Gone
<1> QED
  BY <1>2, <1>3, <1>4, <1>5, <1>6, <1>7, <1>9, <1>10, <1>11 DEF Next, RunNext, ClaimNext

\* The queue implements RunLife, for any runs, automations, capacities, attempts
\* and leases: whatever claims, fires, stops, crashes and boots meet, a run is
\* taken only while nobody executes it, and what has ended stays ended.
THEOREM ImplementsRunLife == Spec => KeepsRunLife
<1>1. Init => Fresh /\ Life!Init
  BY DEF Init, Fresh, Life!Init, Alive
<1>2. Owned /\ Fresh /\ [Next]_vars => Fresh'
  <2> SUFFICES ASSUME Owned, Fresh, [Next]_vars, NEW r \in Runs, state'[r] = "absent"
               PROVE  attempts'[r] = 0
    BY DEF Fresh
  <2>1. Moved(r) /\ (state[r] = "absent" => attempts[r] = 0)
    BY RunMoves DEF Fresh
  <2> QED BY <2>1 DEF Moved, Life!Offer, Life!Take, Life!Finish, Life!Leave, Life!Recover, Life!Stop,
             Life!Forget, Life!Rest, Life!Becomes, Life!Counted
<1>3. Owned /\ Fresh /\ [Next]_vars => [Life!Next]_(Life!vars)
  BY RunMoves DEF Moved, Life!Next
<1> QED BY <1>1, <1>2, <1>3, InitOwned, NextOwned, PTL DEF Spec, KeepsRunLife, Life!Spec
=============================================================================
