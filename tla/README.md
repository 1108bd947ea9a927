# A TLA+ verification of Bolt's engine

Bolt (`packages/bolt`) hosts workspaces: records over Postgres, pages,
automations, an agent and integrations with outside services. Almost everything
that happens later or twice goes through a few small pieces of state: rows of
`sys_run`, a next-wake instant, a map of fires in flight, a count of writes, the
queued messages of a conversation, the key and the receipt of a request. This
project models those pieces, checks them with TLC on small instances, and proves
their safety properties with TLAPS for every value of the constants.

Paths below are relative to `src/packages/bolt/src` unless they start with
`packages/`.

## Inventory

### Modelled

| Component | State | Operations | Interacts with | What is hard | What makes it correct |
|---|---|---|---|---|---|
| Deadline timer and in-process port (`engine/runs/deadlines.ts`) | a scope's instant and lane, `armedFor`, the timer fiber, the answers of wakes | announce, settle, retire, restore, takeDue, complete, onDue | wakes the engine; announced by commits | calls arrive while a wake of the scope runs or after its retirement; the fiber is replaced under its own callback | no wake-up lost, no overlap, announcements and retirements survive the end of a wake |
| Run queue (`engine/runs/index.ts`, `queue.ts`) and parking (`engine/parking.ts`) | `sys_run`; in memory the tick, its claims, the runs and slots executing, `stopping`, the parked flag | enqueue, claim, execute, retry, fire, stop, park, boot, prune | the database, the host's wake, the cron clock | statements in flight when a fiber is interrupted or the process dies; a slot fired again; two claim paths; stop, park and close in any order | one executor per run, ended runs final, capacity, a lease budget, due runs end |
| Deadline fiber of the Node host (`node/host.ts`) with the engine's wake and nudges | `due`, the sliding queue, the sleep; the tick's read of the next due time | announce, settle, teardown; commit, claim, nudge, settle | the run queue | announce and settle overlap; the fiber looks and then sleeps | no rousing lost, every queued run has a wake ahead |
| Cron clock (`node/cron-clock.ts`) | `through`, `waiting`, the fibers in flight | the minute loop, drain | fires slots into the run queue | timers ring early, fires outlast their period, the loop yields between crons | one fire per id, each slot once and in order or superseded, none forgotten |
| Identity memos (`engine/db/tenant-db.ts`, `engine/identity/actor.ts`, `session.ts`) | the count of identity writes, the remembered row, the session cache | write, row, authenticate, forget | every request, every change of people or sessions | reads overlap writes; requests share lookups and drop each other's entries; writes outlive their calls | a request sees every write answered before it began |
| Outbound messages (`engine/integrations/outbound.ts`, `engine/conversations/outbound.ts`, `status.ts`, `engine/sync/write.ts`) | `sys_message` rows: status, attempts, claim and presumption times, provider id, timeline; the queued delivery runs | sendPiece, deliver (clean, claim, hand over, answer, presume, wake), record of reports and replies, resume, pause and activation, release of a synced send | providers, links, the sync's outbox, the run queue | leases that run out during a send, answers that never come, reports before answers, inserts that commit late, a pause of the instance, a crash after the provider took a message | handed over again only after an error that is retried, in order, a report stays, a waiting row has its wake |
| Idempotent writes, transactions, audit trail (`engine/write/sql.ts`, `act.ts`, `engine/transactions.ts`, `audit-operation.ts`, `audit-retention.ts`, `host.ts`) | `bolt_idem`, `bolt_audit_receipt`, `bolt_audit_erase`, `bolt_history`; the host's intents and terminal events | gate, commit, recorded refusal, begin, finish, abort, settle, recover, drain of erasures, prune | the database, the host's audit store, clients that resend | a batch that lands after its caller gave up; a crash between append and acknowledgement; keys that age out; two settlements of one receipt | a request writes once, its answer is kept, the trail is true, no evidence is purged early, receipts settle |
| Agent messages and turns (`engine/agent/queue.ts`, `turns.ts`, `index.ts`, `callables.ts`, `engine/conversations/store.ts`) | `sys_message.state`, the conversation's status and lease, its `agent.turn` run, the fibers in `running` | post, schedule, due, remove, notes, resume, stop, kick, drain, claim, step, settle, exit, release, takeover | the run queue, parking, people | a message that lands as the turn ends, stops or breaks; a turn taken over after a crash | a queued message is heard, a consumed one is answered, a held one waits for the work |

### Not modelled yet, planned

| Component | State | Hard behaviour | Properties to state |
|---|---|---|---|
| Tenant database gate (`engine/db/tenant-db.ts`) | `owed`, `touched`, `writes` | `quietly` around statements of other fibers, payment of the debt by the first of several | the debt is paid before any statement and once; what `awake` may miss |
| Approvals (`engine/approvals`) | requests, locks, snapshots | decisions and withdrawals at once, rollback after partial application | one decision, locks released |
| Rate limits (`engine/access/rate.ts`), live hub (`engine/live/hub.ts`), sync (`engine/sync`), links and credentials (`engine/integrations`) | counters; sequence and views; cursors; tokens | windows, resync, retries, refresh races | stated with their modules |

### Left out

The write path, the query engine, access rules and schema plans compile a
declaration into one SQL statement: their atomicity is the database's and their
content is not a matter of states. Provider adapters, the server's ports, the
database adapters and the store are I/O. The shell, the UI, the app shell, the
command line and the compiler are batch or presentation code. `PROJECT.json`
names them one by one.

## Modules

### Deadlines

`held`, `active`, `armedFor` are the maps and the variable of `DeadlineTimer`,
`timer` what its fiber sleeps until; `lane` and `answers` belong to the port
(`onDue`, `waking`). `callbacks` counts timer fibers that have ended their sleep
and not yet looked (`OnDue`). One action per method, each ending in `Arm` where
the code calls `arm`; a wake succeeds, fails (`RetryDelay`) or dies of a defect.

### RunQueue

The first five variables are columns of `sys_run`; the rest is one generation's
memory. A database statement is a step; a claim is asked (`AskClaim`) and
committed (`CommitClaim`) separately, because everything that reads `parked`
does so at the first and the row changes at the second. Bulk and authored claims
are the two `Kinds`. `Finish` is the whole tail of `execute`: outcome, retry,
guarded write, leave of the parking. `EndWake`, `Close` and `Crash` interrupt
fibers: each run that has a handler at that point writes its mark
(`interrupted`), and a statement in flight commits before anything else or not
at all (`Landings`, `Recording`). `Boot` is the recovery statement.

`RunLife` is the abstract queue: a run is taken only while nobody executes it,
every taking is counted, only its executor writes its outcome or gives it back
within its attempts, one without an executor is recovered, and what has ended
stays so, whoever still executes it. A step of it may move many runs, as a claim,
a crash and a boot do. `KeepsRunLife` is the refinement, with `Alive` the runs in
memory.

Data left out: inputs, outputs, logs, due times (only whether one has come),
errors other than the mark. Of the crossings of a body (`crossing`, one case per
facility) the model keeps their guard and that they have an effect: `Effect`, and
`Progress` for the one that writes the run's row.

### HostWake

`due`, `nudge` and `loop` are the host's; `tick`, `next`, `dues` and `armed` are
the wake's. A commit queues a run (`Commit`) and announces it later
(`Announce`), as the code does after its statement. All due runs are claimed at
once: capacities are RunQueue's matter. `missed` remembers the runs queued
between a wake's read and its settlement.

### CronClock

`waiting` is the code's map (Absent: the id has no entry; Nothing: an entry
without a slot). The loop over the crons is a set `todo` visited one by one in
any order, which covers the order of the list. `Prev` is `Cron.prev` one second
past a minute, assumed idempotent, monotone and never ahead. A fire is of any
length, and failing is answering.

### IdentityMemo

One user id and one token. A write is its writer, and the database, or what a
read saw, is the set of the writes in it, so "has seen" is set inclusion. A
writer lands and is counted in two steps; a call that fails or times out is
counted all the same, and its statement may land later (`lost`). Session lookups
are shared: `entry` names the lookup that fills it, filled or pending, as
`Cache.get` does. The lookup's own write of `last_seen` is `LookupTouches`. A
member matched by address is read and never kept (`RowPasses`).

### Outbound and Handover

The rows of one instance, and the executions of `deliver`: the run (one at a
time, `Runner`) and a call in the fiber of whoever sends, which runs beside it. A
claim is read into `batch`; handing a message over is a step of the provider
(`HandOver`) and writing its answer another (`Answer`), so a lease can run out, a
report arrive or the process die between them. `handed` counts the hand-overs of a
message, which the provider may have taken whatever came back, and `erred` the
answers that the code retries: a refusal for now, and also a connection lost or a
receipt it cannot read after the hand-over (`upstream`), since only a timeout counts
as unsure. A failure before the hand-over is counted as one of these too. The claim
asks that the instance is active; `Pause` and `Activate` are a member's change of
it. A pause makes the claim pass over due rows (`passed`), and nothing of an
activation looks at them. An insert may commit after a later `seq` of its
conversation (`Later`), and a reply on a thread is matched whatever the row's
status; rows met by either are in `strayed`. Time is a small clock:
`next_attempt_at`, the lease, the presumption and the wakes in `runs` are instants
of it. `StatusAfter` with `RANK` and `TERMINAL` is `conversations/status.ts`. The
wire of a message, its attachments and the text of the timeline are left out; of
the timeline the replies it records are kept, since they decide what a second
reply matches.

`Handover` is the abstract queue: a message is handed over only while it is open,
that closes it unless its provider dedupes or answers with an error that is retried,
and what is closed never opens again. A row is open while it is queued, while it is
sending and its provider dedupes, and while an execution holds a claim of it that
it may still send or put back (`Open`, `InPlay`). `HandoverLife` is this
refinement, checked by TLC as a PROPERTY and proved (`ImplementsHandover`).

### Receipts

An operation is one execution of a request; a resend is another operation of the
same request. `Apply` is a batch: the gate, its changes or a recorded refusal, and
the receipt, in one step. A lost call leaves its batch `flying`, to land or sink
later. `Settle`, `Append` and `Ack` (or `Own`, without a receipt) are the three
statements of `settleAudit` inside `audited`; `Recover*` are those of the recovery
loop, and both append to one host store that refuses other content under an id it
has (`Agrees`). A transaction is a session: its snapshot (`Lease`), the gate behind
its advisory lock, COMMIT, or a rollback that `abort` reports. The clock counts in
units in which a request is admitted for one and its key kept for two (23 and 24
hours): one slack unit, as in the code. All requests write one record, which an
erasure ends; acknowledging and draining are one step. Left out: the 30-day
expiry of a receipt whose intent the host has lost, approvals, the stages of a
transaction.

### AgentTurns

One conversation. `msg` is `sys_message.state` (with the two kinds of `scheduled`
apart, and `answered` for a consumed message whose turn has replied); `run` and
`handler` are the queued and the claimed `agent.turn` run; `turn` is where the
fiber in `running` is, `kick` the detached fibers. A post takes its snapshot and
lands in two steps, because `enqueueTurn` decides on the first whether a run is
queued. A stop is three steps and a settle two, as in the code. What a step of the
model does is `StepOn`, `Reply`, `GiveUp` or `Break`.

Statements fail where the code ignores it or has no retry: the answer of a post
(`LandLost`), the look of a kick, which logs and ends (`KickFails`), the claim of a
turn and what follows it before the guarded body (`ClaimFails`), any statement of
`turnRun`, whose run then ends `failed` (`HandlerFails`), the exit and the release
(`ExitFails`, `ReleaseFails`), and the reply that a broken turn owes: `Break` answers
what was taken or, when the read or the write of the reply fails, answers nothing,
and `Exit` makes the conversation idle all the same. `Boot` runs lost runs again
(`run` is `lost` until then) or fails one whose lease budget is used up, which
RunQueue counts (`LeaseBudget`) and this module leaves open; it releases a
conversation whose run so failed, or whose lease has lapsed and that has no run, with
the reply of `gaveUp`, which may fail too.

`left` and `cut` remember which messages such an event has left without an owner or
without an answer, and `bare` that a turn run failed under a living turn. The
properties exempt exactly these, say by which events a message gets there, and say
that without one of them there are none.

Left out: what a model step says and does; `MayFinish` asks only for an empty queue
and drops the cards to confirm and the running sub-agents of `agent/queue.ts:186-187`,
so held messages are sent in more states than in the code; a timed message whose own
run fails, and stays timed; calls whose failure only their caller hears of.

RunQueue and HostWake look at one interface from its two sides: RunQueue assumes
that the host wakes it (fairness of `BeginWake`), and HostWake shows when the
Node host does. CronClock's fires are RunQueue's `Fire`, at any time and
repeatedly. AgentTurns' handler is an execution of a member of RunQueue's `Turns`:
that it is run again after a close or a crash, or failed (`Lost`, `Boot`), is RunQueue's `Boot`. The
delivery run of Outbound is one of RunQueue's too.

## Runs

| Run | Bounds | Shows |
|---|---|---|
| `deadlines` | two scopes, clock 0..3, two pending callbacks | `Armed`, `LaneNeverIdle`, `WakesNeverOverlap`, `AnnouncementSurvivesWake`, `RetiredLaneIsFenced`, and with fairness `DueIsWoken` |
| `runs` | two runs of one automation of concurrency 1 with one failed statement or one stray claim, or a model effect and an agent turn claimed in bulk; two attempts, one lease, two ends of a generation | `RunningWithinCapacity`, `LeaseBudget`, `MarkIsNotStale`, `ClosesCostNoLease` |
| `runs_live` | a run and a slot on one permit, two attempts, one end | `ExecutorOwnsRow`, `TerminalIsFinal`, the refinement `KeepsRunLife`, and with fairness `DueRunEnds` |
| `host_wake` | two runs, clock 0..2, one failed wake | `SleepsUntilDue`, `QueuedIsCovered`, `CoveredIsWoken` |
| `cron_clock` | two crons, minutes of two ticks, twelve ticks, two restarts, a timer one tick early | `OneAtATime`, `LatestIsKept`, `FiresInOrder`, `SlotsAreFired` |
| `identity_memo` | two writers, any two of two readers and two calls | `KeptIsCurrent`, `AnswersAreFresh` |
| `outbound` | a conversation of two rows, the first on a thread that is answered, the second synced and deduped, a row of another epoch and one of a personal account; the run and one call; two attempts, lease and backoff of one tick, clock 1..2, a bounce, and one event (a crash, a fault, a lost link, a pause, a late insert or a reply) | `TypeOK`, `AtMostOnce`, `ForeignStays`, `WakeKept`, `InOrder`, `ReportsStay`, `HandoverLife` |
| `receipts` | two operations: a resend, two requests of one key, a write and an erasure, a transaction twice or beside an erasure; admission 1, window 2, clock to 4; one trouble, and one more in the recovery | `OncePerRequest`, `AnswersKept`, `TrailTrue`, `EvidenceKept`, and with fairness `ReceiptsSettle` |
| `agent_turns` | a message and a report in one conversation, one trouble (a stop, an end of the process, a break, a failed statement or call) | `TypeOK`, `MessageIsCovered`, `ConsumedIsCarried`, `FinishAfterWork`, and with fairness `QueuedIsHeard` |
| `runs_stop`, `host_wake_lost`, `receipts_failed` | the smallest that shows it | a counterexample each, see Findings |

The types of the first five modules and of Receipts are proved (`TypeCorrect`) and
not checked again.

Why the bounds are enough: the conflicts are between two runs, two scopes, two
crons or two requests, and one writer more; a second end of a generation reaches
the recovery of a recovered run, and two leases reach the end of the budget. The
constraint `Mix` keeps the authored and the bulk runs of `runs` apart, which meet
only through the parking and the boot; `Pairs` lets two readers or calls begin, since
the two memos share nothing but the count. In Outbound two rows of a conversation
and two executions meet in every order, two attempts reach the give-up, and two
ticks let a lease run out and the wake that follows come. In Receipts a clock past
the window prunes and takes over a key; the invariants were checked with any two
troubles too. In AgentTurns one message and one report land at every point of
a turn and of its one mishap. The safety properties were checked with two and with
four troubles too (2 and 9 million states): two reach a mute break with a stop on its
way and the release of a lapsed conversation at boot. The theorems cover any number. `MaxTrouble`, `MaxCalls`, `Horizon`,
`MaxEnds`, `MaxFaults`, `MaxStrays`, `MaxFails`, `MaxRestarts`, `MaxCallbacks` and `MaxTime` cap what repeats for
ever. Deadlock is not checked where these caps, or callers that all have ended,
stop the model; Deadlines never stops.

### Fairness

Weak fairness of a fiber's next step says that the runtime runs ready fibers,
that the database answers, and that time passes.

* RunQueue: `Boot` stands for the first request that touches the database.
  `BeginWake` is the host's wake, examined in HostWake. `StartRun` is strongly
  fair: permits are a FIFO semaphore, so a slot fired again and again cannot pass
  a waiting run for ever. `Stop`, `Park`, `Close`, `Crash`, `Fire`, `Enqueue` and
  failures have none.
* HostWake: the fiber, the wake's steps, the announcement that follows a commit,
  the clock. Commits, failures, parking and teardown have none.
* CronClock: the loop and the fires. A fire that never answered would hold its
  id: the engine's call limits end it.
* Deadlines: the timer, its callbacks and the wakes that succeed; a scope whose
  wake fails or dies is excepted in the property.
* Receipts: an operation's own steps, the server's end of a batch in flight, and
  the recovery loop, which waits for its bus or five seconds. Nothing has to be
  sent, and time need not pass.
* AgentTurns: posts that have begun, kicks, the handler, the turn, a stop that has
  begun, the coming due of a run and the lapse of a lease; a parked generation is
  closed and the next boots (the host's cutover). A step of the model ends: its
  calls have timeouts. Nobody has to post, resume, stop or remove.

Outbound states no liveness: that a waiting row has its wake (`WakeKept`) is the
safety half, and the wake's coming is RunQueue's and HostWake's.

## Proofs

The theorems are of the form Spec => []P, Spec => [][A]_vars or Spec => Abstract!Spec
and hold for every value of the constants that satisfies the named assumptions of
its module: any finite sets of scopes, runs, rows and messages of a conversation,
any sets of crons, writers, callers, executions and requests, any bounds.

* **DeadlinesProofs**: `TypeCorrect`, `LanesNeverIdle`, `ArmedAlways`,
  `AnnouncementsSurvive`, `NoOverlap`, `RetiredFenced`. The invariant is TypeOK,
  Armed and LaneNeverIdle: Armed alone is kept by each `Arm` whatever the scan
  finds (`ArmArms`), and by the steps that do not arm because they change no
  waiting scope. The action properties rest on `OnlyCompletionIdles`.
* **RunQueueProofs**: `TypeCorrect`, `ExecutorsOwnTheirRows`, `EndsAreFinal`,
  `MarksAreNotStale`, `LeasesWithinBudget`, `AuthoredClosesCostNoLease`,
  `WithinCapacity`, `ImplementsRunLife`. `Owned` adds to ExecutorOwnsRow that a
  closed generation holds nothing in memory and that only slots fire; without these
  a claim could take a row whose old executor is alive. `LeftBehind` adds what a row left running
  looks like, for the marks; `Paid` says, for each authored run, that its leases
  and the one it is about to lose are matched by crashes and failed statements.
  Capacity is counted over finite sets: a claim takes one authored run of an
  automation whose running rows are below its maximum. The refinement is proved run
  by run (`RunMoves`): each action moves each run as RunLife lets it or leaves it
  alone, and `Fresh` (a run nobody has inserted was never taken) makes the count of
  a fired slot begin at one.
* **HostWakeProofs**: `TypeCorrect`, `NoRousingIsLost`, `QueueIsCovered`.
  `ReadCovers` says that what the wake read covers every queued run but the
  missed ones, which is what makes the settlement safe; `Unbooted` that nothing
  is announced before the boot settled.
* **CronClockProofs**: `TypeCorrect`, `NeverTwoAtOnce`, `NoSlotIsSkipped`,
  `FiredOnceInOrder`. `InOrder` relates the last slot fired, the one that waits,
  `through` and the minute being walked: a waiting slot is newer than the last
  fired, and neither is past what the loop has seen.
* **IdentityMemoProofs**: `TypeCorrect`, `MemosAreCurrent`,
  `RequestsSeeFinishedWrites`. The count moves past every stamp when a write is
  answered, so a stamp equal to it fences the read (`RowsRead`, `RowKept`,
  `SessionsRead`). `Waits` is the argument for the unchecked second read: the
  entry it finds was made after the call dropped the one it had.
* **OutboundProofs**: `TypeCorrect`, `TakenAtMostOnce`, `ImplementsHandover`,
  `ForeignNeverSent`, `ReportsAreKept`, `SentInOrder`, `WakeIsKept`, for any rows,
  conversations, threads, executions, reports and times. AtMostOnce is not
  inductive: `OwnClaims` says what one execution holds, `SentOnce` that over all
  executions at most one claim of a row may still be sent or put back, and only
  while each earlier hand-over was answered with an error that is retried. That much
  holds whatever leases run out; `Leased` adds that a claim is exclusive as long as
  none has, which is what reports and order need. `Told` ties a reported row to its
  stored answer, `Abandoned` keeps the rows that must not be sent out of every
  claim. The refinement follows step by step from the same parts: each action moves
  `handed`, `erred` and `Open` as one of Handover's or not at all. `SentInOrder` adds
  `InLine` (a row that is sending is the first that waits in its conversation, but
  for those that strayed), and `WakeIsKept` adds `WakeInv`: the head row has its run,
  an execution that claims again, or one that found nothing due and still looks when
  to wake. Nothing is assumed of the instance: the cases in which order or a wake is
  really lost are named in the properties by the history that records them
  (`strayed`, `overran`, `missed`, `passed`).
* **ReceiptsProofs**: `TypeCorrect`, `WritesOnce`, `AnswersAreKept`, `TrailIsTrue`,
  `EvidenceIsKept`, `DecisionsStand`, for any requests, keys, operations and
  windows. The idea is `Decided`: a request is decided once its key's row is its
  own, or once the window of the key has passed, and nothing undoes that, although
  the row is pruned or taken over. `Timely` says that what was admitted ends within
  the window; `Rowed` that a key's row tells whether its request wrote; `Sound`
  says, at each point of an operation and of the recovery beside it, what was
  read, appended and acknowledged; `Recovers` that what the recovery
  read is true when it appends it, and stored when it acknowledges.
* **AgentTurnsProofs**: `TypeCorrect`, `ConsumedCarried`, `FinishWaits`,
  `MessageCovered`, for any messages and any amount of trouble. `Owed` says who
  answers for what a turn has taken at each of its points, a takeover included, and
  that a turn under way has a run behind it or a handler that queues one (`Backed`),
  unless that run has failed; `Settled` that a turn which ended by itself left its
  conversation; `Awaited` that what is queued behind a turn that is ending has a
  kick, was left, or has the run of a closed generation. `Untroubled` is the same
  state without trouble, where nothing is left or cut, a conversation without a turn
  is idle and a message behind a turn that ends has its own kick: it gives the
  second half of the two invariants.

Writing these proofs corrected two definitions whose CASE arms overlapped
(`Answer` of Outbound, `Lost` of AgentTurns): TLC takes the first arm, while the
semantics leaves the choice open.

Model-checked only: the liveness properties `DueIsWoken`, `DueRunEnds`,
`CoveredIsWoken`, `SlotsAreFired`, `ReceiptsSettle` and `QueuedIsHeard`, since
liveness under fairness and ENABLED are out of the prover's reach. Every invariant
and every action property of the runs is proved, for the instances each theorem
names. No module uses recursion.

### Assumptions

* A statement is atomic, and a claim holds the advisory lock. A statement in
  flight when its fiber is interrupted commits before the next step or not at
  all (RunQueue); IdentityMemo and Receipts drop this and let it commit late.
* A slot's automation has capacity 1, and slots are not effects
  (`CapacityAssumption`).
* An operation, and a batch in flight, ends within the last hour of its key's
  window (Receipts, `Tick`): the limits of a call are far below that. The key of a
  transaction is its run attempt's own.
* A living turn renews its lease in time (AgentTurns, `LeaseLapses`).
* Of RunQueue's statements some variants are folded: `Enqueue` inserts a run and
  does not re-date a queued one (`replace`, `engine/runs/queue.ts:38-40`) or insert a
  refused webhook as `failed` at once (`engine/runs/index.ts:1886`), which no other
  action can tell from a run that fails; the outcome `interrupted` is the mark that
  `Close` writes; a run that has entered the parking has its `halt` at once, where the
  code sets it a few steps later (794-795). A slot's capacity is 1 in the run, while
  an automation may say up to 16 (`decl/runtime/automation.ts:80-94`).
* `Commit` of Receipts asks that the request is still admitted, where the code looks
  at its start; a batch that lands later is `Lose` with `Land`.
* The clock never goes back; a timer rings at most one tick early.
* One process serves a workspace: the count of identity writes is that
  process's, and what another writes is seen after MEMO_MS at the latest.

## Findings

Three runs end in a counterexample to a line of the repository:

* `runs_stop`: `stop` reads a run as queued, the run is claimed, the stop
  commits: the run executes with all its effects (`engine/services.ts:380`).
* `host_wake_lost`: a commit between the wake's read of the next due time and its
  settlement announces in vain: `settle` overwrites `due`
  (`docs/identity-automations.md:3`). The in-process port keeps the earlier of
  the two (`AnnouncementSurvivesWake`).
* `receipts_failed`: `audited` leaves an operation unresolved only for a failure
  with an 08 sqlstate, and an act wraps its failing commit into an error without
  one: a commit whose answer was lost gets the terminal status `failed`, and may
  commit afterwards (`engine/audit-operation.ts:241`, `docs/README.md:343`).

Met while modelling, with the actions in which they occur:

* `park` answers while a claim that passed the `parked` check is in flight; its
  run then starts (`Park`, `CommitClaim`; `engine/services.ts:372`).
* A close interrupts a bulk claim, or a run waiting for its permit, where no
  handler marks the row; the boot counts a lost lease (`Close`;
  `engine/runs/index.ts:566`).
* A nudge between the emptiness of the wake's fibers and the end of its scope
  claims runs that are interrupted at once and stay running until the next boot
  (`Stranded`).
* A wake that dies of a defect leaves its scope asleep for good (`WakeDies`); a
  failed wake of the Node host is not retried (`Fail`).
* An identity write counted when its call timed out commits afterwards; a row read
  in between is kept under the current count (`Land` of IdentityMemo;
  `engine/db/tenant-db.ts:71`).
* A message held for the finish that is inserted as its turn settles waits in an
  idle conversation (`Hold`, `Settle`; `engine/agent/callables.ts:162`).
* A post whose statement saw the run that a settling turn then deletes has only its
  kick; if the process dies before it, the message stays queued without a run
  (`Lost`; `engine/agent/queue.ts:2`).
* A broken turn whose reply cannot be read or written is idle with its input
  unanswered: both failures are ignored and `onExit` deletes the run (`Break`,
  `Exit`; `engine/agent/index.ts:2220-2231`). The next turn's finish then sends what
  was held for the work.
* A failed statement of `turnRun` ends the `agent.turn` run for good, since it is
  registered without a retry (`HandlerFails`, `ClaimFails`;
  `engine/agent/index.ts:2815`), and a kick that fails is only logged (`KickFails`;
  2294-2295): the message waits for the next post.
* A stop has marked the conversation, a post or a resume reopens it between the
  stop's statements and a new turn begins, that turn breaks and its exit statement
  fails, the run's handler comes to take over, and the stop's last statement
  interrupts it: the conversation stays running without a run, a kick is refused by
  the lease, and until the next boot releases it nothing looks again (`StopRemoves`,
  `ExitFails`, `ClaimRefused`; `engine/agent/index.ts:2396`). Found when
  `MessageIsCovered` turned out not to be inductive; such a message is in `left`.
* A message whose connection was lost, or whose receipt could not be read, after the
  hand-over is sent again, and a provider that does not dedupe may deliver it twice:
  only a timeout ends `uncertain` (`HandOver`, `Final`;
  `engine/integrations/outbound.ts:335-344`).
* A row that comes due while its instance is paused loses its wake: the claim passes
  it over (412), the last look queues a run only for later times, `resume` touches
  only rows that are not yet due, and an activation queues a run of the syncs only
  (`passed`, `Activate`; `engine/sync/write.ts:74-77`).
* A conversation is not always "delivered in order" (`engine/integrations/outbound.ts:1`):
  an insert may commit after a later row was sent (`Later`), and a reply on a thread
  turns a row `replied` that is being sent, so the next one is claimed before the
  first one's retry (`Replied`).
* The earliest wake may be a lease that has lapsed behind such a row: it lies in the
  past, and no run is queued for a later due time (`Least`, `Look`).
* The next due time of a delivery is dropped when the clock passes it between two
  readings (`missed`; `engine/integrations/outbound.ts:459`).
* A direct call of `deliver` that dies has consumed the due time its wake would
  carry on (`Crash`, `Fault` of Outbound); a reply on a thread is matched whatever
  the row's status (`Matches`); `parked` is reset after resume's statement
  (`engine/integrations/links.ts:435`, one step here).
* A transaction whose settlement fails asks for no recovery (`Leave`).
* A transaction that could not open its session, or whose COMMIT is refused,
  leaves its intent unresolved for ever (`LeaseFails`, `FinishFails`).

## Plan

1. TenantDb: the gate (`owe`, `ready`, `awake`, `quietly`), composed with the
   cold start that RunQueue calls `Boot`.
2. One fence (read, stamp, keep) that both identity memos refine, as TLC property
   and as a theorem.
3. Approvals and rate limits as modules of their own, the last with a reference
   definition of what it counts; the sync's write-back beside Outbound.
