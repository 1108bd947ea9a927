------------------------------ MODULE Outbound ------------------------------
(***************************************************************************)
(* Outbound conversation messages of one integration instance              *)
(* (packages/bolt/src/engine/integrations/outbound.ts): the `sys_message`  *)
(* rows, the executions of `deliver` that claim them under a lease, hand   *)
(* them to the provider and write what came of it, the reports and replies *)
(* that reach a row meanwhile, and the runs that wake `deliver` again.     *)
(*                                                                         *)
(* `deliver` runs as the platform run DELIVER, one at a time, and also     *)
(* directly in the fiber of whoever sends, beside it.  A statement is one  *)
(* step; a send is a step of the provider, and writing its answer another. *)
(* Of a timeline (`delivery`) the model keeps the replies recorded in it.  *)
(***************************************************************************)
EXTENDS Integers, FiniteSets

CONSTANTS
    Messages,     \* outbound rows, numbered by their `seq`
    ConvOf,       \* the conversation of a row
    Deduped,      \* rows of an instance that says `idempotentSends`
    Synced,       \* rows that a sync write releases
    Foreign,      \* rows of another epoch: a fork's or a restore's leftovers
    Personal,     \* rows of an instance that has become a member's own account
    Fibers,       \* executions of `deliver`
    Runner,       \* the one that the queue of runs starts
    Replies,      \* inbound replies
    OnThread,     \* the rows that carry the thread a reply came in on
    Quoted,       \* the rows whose provider id a reply quotes
    Kinds,        \* the report kinds a provider sends
    MaxAttempts,  \* MAX_ATTEMPTS
    Lease,        \* LEASE
    Backoff,      \* the wait after a failed attempt
    Parked,       \* PARKED_MS: the wait for a link that is down
    Quiet,        \* the provider's presumeAfterMs, 0 for none
    Horizon,      \* bound: the clock
    MaxCalls,     \* bound: the calls of `deliver` beside the run
    MaxEvents     \* bound: crashes, faults, lost links, pauses, late rows and replies
                  \* together

Reports == {"sent", "deferred", "delivered", "read", "opened", "bounced", "failed", "complained"}
TERMINAL == {"bounced", "failed", "complained", "skipped"}
Statuses == Reports \cup {"absent", "queued", "sending", "uncertain", "replied", "skipped"}
Waiting == {"queued", "sending"}

ASSUME RowsAssumption ==
    /\ Messages \subseteq Nat /\ IsFiniteSet(Messages)
    /\ Deduped \subseteq Messages /\ Synced \subseteq Messages
    /\ Foreign \subseteq Messages /\ Personal \subseteq Messages
    /\ Runner \in Fibers
    /\ OnThread \in [Replies -> SUBSET Messages] /\ Quoted \in [Replies -> SUBSET Messages]
    /\ Kinds \subseteq Reports
ASSUME TimesAssumption ==
    /\ MaxAttempts \in Nat \ {0} /\ Lease \in Nat \ {0} /\ Backoff \in Nat \ {0}
    /\ Parked \in Nat \ {0} /\ Quiet \in Nat /\ Horizon \in Nat /\ MaxCalls \in Nat
    /\ MaxEvents \in Nat

VARIABLES
    now,
    \* sys_message
    status, attempts,
    nextAt,      \* next_attempt_at, which is read of a queued row only
    claimedAt,   \* claimed_at, which is read of a sending row only
    presumeAt,   \* presume_at, 0 when it is null
    known,       \* the rows whose provider_id is stored
    answers,     \* the replies in a row's timeline
    \* around the rows
    release,     \* the outbox row of a synced message: waiting, acked, refused; or free
    active,      \* sys_integration.active: the instance is not paused
    parked,      \* flow.parked: something may wait for the link since it was held
    runs,        \* the due times of the queued DELIVER runs
    \* an execution of `deliver`
    pc,          \* idle, claim, message, quiet, presume, look
    batch,       \* its claimed rows, as the claim returned them
    hand,        \* the claim in hand and the answer of its send
    quiet,       \* the rows it presumes delivered
    readAt,      \* its last reading of the clock
    \* history and bounds
    handed,      \* how often a message was handed to the provider, which may have
                 \* taken it whatever the answer
    erred,       \* how often it answered with an error that is retried
    strayed,     \* rows that committed after a later one of their conversation,
                 \* or that a reply on their thread found waiting
    overran,     \* a lease ran out under an execution that lives
    missed,      \* a `deliver` may have ended without the wake it owed
    passed,      \* the last claim left due rows, as the instance was paused
    calls, events

rows == <<status, attempts, nextAt, claimedAt, presumeAt, known, answers>>
fibers == <<pc, batch, hand, quiet, readAt>>
history == <<handed, erred, strayed, overran, missed, passed, calls, events>>
around == <<release, active, parked>>
vars == <<now, rows, around, runs, fibers, history>>

Times == Nat
Claims == [m : Messages, was : Waiting, n : Int, at : Times]
\* What a send comes to: taken and answered; no answer in time; an error that
\* is retried (a refusal for now, an answer lost or not understood, or a failure
\* before the hand-over); one that is not; the link is down.
Outcomes == {"sent", "timeout", "retry", "fatal", "down"}
Hands == [c : Claims, got : Outcomes]

\* The rows, the executions and the histories keep their types; above all, a
\* claim is of a row that was queued or sending.
TypeOK ==
    /\ now \in Nat
    /\ status \in [Messages -> Statuses]
    /\ attempts \in [Messages -> Int]
    /\ nextAt \in [Messages -> Times] /\ claimedAt \in [Messages -> Times]
    /\ presumeAt \in [Messages -> Times]
    /\ known \subseteq Messages
    /\ answers \in [Messages -> SUBSET Replies]
    /\ release \in [Messages -> {"free", "waiting", "acked", "refused"}]
    /\ active \in BOOLEAN /\ parked \in BOOLEAN /\ runs \subseteq Times
    /\ pc \in [Fibers -> {"idle", "claim", "message", "quiet", "presume", "look"}]
    /\ batch \in [Fibers -> SUBSET Claims]
    /\ hand \in [Fibers -> SUBSET Hands]
    /\ quiet \in [Fibers -> SUBSET Messages]
    /\ readAt \in [Fibers -> Times]
    /\ handed \in [Messages -> Nat] /\ erred \in [Messages -> Nat] /\ strayed \subseteq Messages
    /\ overran \in BOOLEAN /\ missed \in BOOLEAN /\ passed \in BOOLEAN
    /\ calls \in Nat /\ events \in Nat

\* Rows that are queued and must not be sent here.
Barred == Foreign \cup Personal

\* The link has connected, and nothing has been sent.
Init ==
    /\ now = 1
    /\ status \in [Messages -> {"absent", "queued", "sending"}]
    /\ \A m \in Messages : IF m \in Barred THEN status[m] # "absent" ELSE status[m] = "absent"
    /\ attempts = [m \in Messages |-> 0]
    /\ nextAt = [m \in Messages |-> 0] /\ claimedAt = [m \in Messages |-> 0]
    /\ presumeAt = [m \in Messages |-> 0]
    /\ known = {} /\ answers = [m \in Messages |-> {}]
    /\ release = [m \in Messages |-> IF m \in Synced THEN "waiting" ELSE "free"]
    /\ active = TRUE /\ parked = FALSE /\ runs = {}
    /\ pc = [f \in Fibers |-> "idle"]
    /\ batch = [f \in Fibers |-> {}] /\ hand = [f \in Fibers |-> {}]
    /\ quiet = [f \in Fibers |-> {}]
    /\ readAt = [f \in Fibers |-> 0]
    /\ handed = [m \in Messages |-> 0] /\ erred = [m \in Messages |-> 0] /\ strayed = {}
    /\ overran = FALSE /\ missed = FALSE /\ passed = FALSE /\ calls = 0 /\ events = 0

Live(f) == pc[f] # "idle"
\* A claim that an execution still has to answer for.
Holds(f) == batch[f] \cup {h.c : h \in hand[f]}
Event == events < MaxEvents /\ events' = events + 1

-----------------------------------------------------------------------------
(* The status of a message (conversations/status.ts).                      *)

RANK(s) ==
    CASE s \in {"sent", "uncertain"} -> 1
      [] s = "deferred" -> 2
      [] s = "delivered" -> 3
      [] s \in {"read", "opened"} -> 4
      [] s = "replied" -> 5
      [] OTHER -> 0

\* A mutant: a terminal status gives way to a higher rank.
StatusAfterMutant(s, k) == IF k \in TERMINAL \/ RANK(k) > RANK(s) THEN k ELSE s
StatusAfter(s, k) ==
    IF /\ k # "auto_replied" /\ s \notin TERMINAL
       /\ k \in TERMINAL \/ RANK(k) > RANK(s)
      THEN k ELSE s

-----------------------------------------------------------------------------
(* Queueing.                                                               *)

\* `sendPiece`: the row, and a run that delivers it, unless a sync holds it.
\* `seq` is drawn when the row is inserted, and inserts commit in any order.
Later(m) == {p \in Messages : p > m /\ ConvOf[p] = ConvOf[m] /\ status[p] # "absent"}
Send(m) ==
    /\ status[m] = "absent"
    /\ IF Later(m) = {} THEN UNCHANGED events ELSE Event
    /\ strayed' = IF Later(m) = {} THEN strayed ELSE strayed \cup {m}
    /\ status' = [status EXCEPT ![m] = "queued"]
    /\ nextAt' = [nextAt EXCEPT ![m] = now]
    /\ runs' = IF m \in Synced THEN runs ELSE runs \cup {now}
    /\ UNCHANGED <<now, attempts, claimedAt, presumeAt, known, answers, around, fibers,
                   handed, erred, overran, missed, passed, calls>>

\* The sync's acknowledgement releases its sends.
Ack(m) ==
    /\ status[m] # "absent" /\ release[m] = "waiting"
    /\ release' = [release EXCEPT ![m] = "acked"]
    /\ runs' = runs \cup {now}
    /\ UNCHANGED <<now, rows, active, parked, fibers, history>>

\* A sync write that fails skips them.
Refuse(m) ==
    /\ status[m] # "absent" /\ release[m] = "waiting"
    /\ release' = [release EXCEPT ![m] = "refused"]
    /\ IF status[m] = "queued"
         THEN status' = [status EXCEPT ![m] = "skipped"] /\ runs' = runs \cup {now}
         ELSE UNCHANGED <<status, runs>>
    /\ UNCHANGED <<now, attempts, nextAt, claimedAt, presumeAt, known, answers, active, parked,
                   fibers, history>>

\* `resume`, when the link connects: what waits for it is due now.
Resumed == {m \in Messages : status[m] = "queued" /\ nextAt[m] > now}
Resume ==
    /\ active /\ parked /\ parked' = FALSE
    /\ nextAt' = [m \in Messages |-> IF m \in Resumed THEN now ELSE nextAt[m]]
    /\ runs' = IF Resumed # {} THEN runs \cup {now} ELSE runs
    /\ UNCHANGED <<now, status, attempts, claimedAt, presumeAt, known, answers, release, active,
                   fibers, history>>

\* A member pauses the instance, which shuts its link, and activates it again,
\* which opens a new one.  Neither looks at the rows: the outbox of the syncs
\* gets a run from it, the messages do not.
Pause ==
    /\ Event /\ active /\ active' = FALSE
    /\ UNCHANGED <<now, rows, release, parked, runs, fibers, handed, erred, strayed, overran,
                   missed, passed, calls>>
Activate ==
    /\ ~active /\ active' = TRUE /\ parked' = TRUE
    /\ UNCHANGED <<now, rows, release, runs, fibers, history>>

-----------------------------------------------------------------------------
(* `deliver`.                                                              *)

\* The statement it begins with settles rows of another epoch, of an account
\* that has an owner, and of refused syncs.
\* A mutant: the epoch is not looked at.
CleanedMutant(m) ==
    IF m \in Personal /\ status[m] \in Waiting THEN "failed"
    ELSE IF release[m] = "refused" /\ status[m] = "queued" THEN "skipped"
    ELSE status[m]
Cleaned(m) ==
    IF m \in Foreign /\ status[m] \in Waiting THEN "skipped"
    ELSE IF m \in Personal /\ status[m] \in Waiting THEN "failed"
    ELSE IF release[m] = "refused" /\ status[m] = "queued" THEN "skipped"
    ELSE status[m]
Begin(f) ==
    /\ pc[f] = "idle"
    /\ \/ f # Runner /\ calls < MaxCalls /\ calls' = calls + 1 /\ UNCHANGED runs
       \/ f = Runner /\ UNCHANGED calls /\ \E t \in runs : t <= now /\ runs' = runs \ {t}
    /\ status' = [m \in Messages |-> Cleaned(m)]
    /\ pc' = [pc EXCEPT ![f] = "claim"]
    /\ UNCHANGED <<now, attempts, nextAt, claimedAt, presumeAt, known, answers, around,
                   batch, hand, quiet, readAt, handed, erred, strayed, overran, missed, passed,
                   events>>

Released(m) == release[m] \in {"free", "acked"}
\* A mutant: an earlier row holds a later one back only while it is queued.
BehindMutant(m) == \E p \in Messages : p < m /\ ConvOf[p] = ConvOf[m] /\ status[p] = "queued"
Behind(m) == \E p \in Messages : p < m /\ ConvOf[p] = ConvOf[m] /\ status[p] \in Waiting
\* A mutant: a send that ended uncertain is claimed again.
ClaimableMutant(m) ==
    active /\ (status[m] = "uncertain" \/ (status[m] = "queued" /\ nextAt[m] <= now)) /\ Released(m) /\ ~Behind(m)
Due(m) ==
    /\ \/ status[m] = "queued" /\ nextAt[m] <= now
       \/ status[m] = "sending" /\ claimedAt[m] + Lease <= now
    /\ Released(m) /\ ~Behind(m)
Claimable(m) == active /\ Due(m)

\* A round's claim takes every row it may; the last one finds none.  That of a
\* paused instance finds none whatever is due.
Claim(f) ==
    LET taken == {m \in Messages : Claimable(m)}
    IN  /\ pc[f] = "claim"
        /\ status' = [m \in Messages |-> IF m \in taken THEN "sending" ELSE status[m]]
        /\ attempts' = [m \in Messages |-> IF m \in taken THEN attempts[m] + 1 ELSE attempts[m]]
        /\ claimedAt' = [m \in Messages |-> IF m \in taken THEN now ELSE claimedAt[m]]
        /\ nextAt' = [m \in Messages |-> IF m \in taken THEN 0 ELSE nextAt[m]]
        /\ batch' = [batch EXCEPT ![f] =
              {[m |-> m, was |-> status[m], n |-> attempts[m] + 1, at |-> now] : m \in taken}]
        /\ pc' = [pc EXCEPT ![f] = IF taken = {} THEN "quiet" ELSE "message"]
        /\ passed' = (~active /\ \E m \in Messages : Due(m))
        /\ UNCHANGED <<now, presumeAt, known, answers, around, runs, hand, quiet, readAt,
                       handed, erred, strayed, overran, missed, calls, events>>

\* A claim of a row whose lease ran out, of a provider that does not dedupe,
\* is not sent: the send of the first claim may have gone.
\* A mutant: it is sent whoever had it before.
UnansweredMutant(c) == FALSE
Unanswered(c) == c.was = "sending" /\ c.m \notin Deduped

\* `message`: the next row of the batch goes to the provider, or not.  What the
\* provider took may come back as any failure; only a timeout is told apart.
HandOver(f) ==
    /\ pc[f] = "message" /\ hand[f] = {}
    /\ \E c \in batch[f] : \E got \in Outcomes :
          /\ batch' = [batch EXCEPT ![f] = @ \ {c}]
          /\ hand' = [hand EXCEPT ![f] = {[c |-> c, got |-> got]}]
          /\ Unanswered(c) => got = "timeout"
          /\ handed' = IF Unanswered(c) \/ got = "down" THEN handed ELSE [handed EXCEPT ![c.m] = @ + 1]
          /\ erred' = IF got = "retry" THEN [erred EXCEPT ![c.m] = @ + 1] ELSE erred
          /\ IF got = "down" THEN Event /\ parked' = TRUE ELSE UNCHANGED <<events, parked>>
    /\ readAt' = [readAt EXCEPT ![f] = now]
    /\ UNCHANGED <<now, rows, release, active, runs, pc, quiet, strayed, overran, missed, passed,
                   calls>>

\* A mutant: a timeout is retried like any other failure.
FinalMutant(c, got) == got = "fatal" \/ c.n >= MaxAttempts
Final(c, got) ==
    \/ got = "fatal"
    \/ got = "timeout" /\ c.m \notin Deduped
    \/ c.n >= MaxAttempts
StatusOf(c, got) ==
    CASE got = "sent" -> "sent"
      [] got = "down" -> "queued"
      [] OTHER -> IF ~Final(c, got) THEN "queued"
                  ELSE IF got = "timeout" THEN "uncertain" ELSE "failed"

\* The answer is written by the row's id, whatever its status has become.
Answer(f) ==
    /\ pc[f] = "message"
    /\ \E h \in hand[f] :
        LET c == h.c
            got == h.got
            m == h.c.m
        IN
        /\ status' = [status EXCEPT ![m] = StatusOf(c, got)]
        /\ attempts' = IF got = "down" THEN [attempts EXCEPT ![m] = @ - 1] ELSE attempts
        /\ nextAt' = [nextAt EXCEPT ![m] =
              CASE StatusOf(c, got) # "queued" -> 0
                [] got = "down" -> readAt[f] + Parked
                [] OTHER -> readAt[f] + Backoff]
        /\ claimedAt' = [claimedAt EXCEPT ![m] = 0]
        /\ known' = IF got = "sent" THEN known \cup {m} ELSE known
        /\ presumeAt' = IF got # "sent" THEN presumeAt
                        ELSE [presumeAt EXCEPT ![m] = IF Quiet = 0 THEN 0 ELSE readAt[f] + Quiet]
    /\ hand' = [hand EXCEPT ![f] = {}]
    /\ pc' = [pc EXCEPT ![f] = IF batch[f] = {} THEN "claim" ELSE "message"]
    /\ readAt' = [readAt EXCEPT ![f] = 0]
    /\ UNCHANGED <<now, answers, around, runs, batch, quiet, history>>

\* A row that no report followed within its window is presumed delivered.
LookQuiet(f) ==
    /\ pc[f] = "quiet"
    /\ quiet' = [quiet EXCEPT ![f] =
          {m \in Messages : presumeAt[m] \in 1 .. now /\ status[m] \in {"sent", "deferred"}}]
    /\ readAt' = [readAt EXCEPT ![f] = now]
    /\ pc' = [pc EXCEPT ![f] = IF quiet'[f] = {} THEN "look" ELSE "presume"]
    /\ UNCHANGED <<now, rows, around, runs, batch, hand, history>>

\* `record`: one report on one row.
Record(m, k) ==
    /\ status' = [status EXCEPT ![m] = StatusAfter(@, k)]
    /\ presumeAt' = IF k \in {"sent", "deferred", "auto_replied"} THEN presumeAt
                  ELSE [presumeAt EXCEPT ![m] = 0]

Presume(f) ==
    /\ pc[f] = "presume"
    /\ \E m \in quiet[f] :
          /\ Record(m, "delivered")
          /\ quiet' = [quiet EXCEPT ![f] = @ \ {m}]
    /\ pc' = [pc EXCEPT ![f] = IF quiet'[f] = {} THEN "look" ELSE "presume"]
    /\ UNCHANGED <<now, attempts, nextAt, claimedAt, known, answers, around, runs, batch, hand,
                   readAt, history>>

\* The instants at which `deliver` has something to do again, seen from t.
\* A mutant: the leases are left out.
WakesMutant(t) ==
    {nextAt[m] : m \in {x \in Messages : status[x] = "queued" /\ nextAt[x] > t /\ Released(x)}}
        \cup {presumeAt[m] : m \in {x \in Messages :
                 status[x] \in {"sent", "deferred"} /\ presumeAt[x] # 0 /\ Released(x)}}
Wakes(t) ==
    {nextAt[m] : m \in {x \in Messages : status[x] = "queued" /\ nextAt[x] > t /\ Released(x)}}
        \cup {claimedAt[m] + Lease : m \in {x \in Messages : status[x] = "sending" /\ Released(x)}}
        \cup {presumeAt[m] : m \in {x \in Messages :
                 status[x] \in {"sent", "deferred"} /\ presumeAt[x] # 0 /\ Released(x)}}
Least(S) == IF S = {} THEN 0 ELSE CHOOSE t \in S : \A u \in S : t <= u

\* The next run is queued, when its time is still to come.
Look(f) ==
    LET due == Least(Wakes(readAt[f]))
    IN  /\ pc[f] = "look"
        /\ runs' = IF due > now THEN runs \cup {due} ELSE runs
        /\ pc' = [pc EXCEPT ![f] = "idle"] /\ readAt' = [readAt EXCEPT ![f] = 0]
        /\ UNCHANGED <<now, rows, around, batch, hand, quiet, history>>

-----------------------------------------------------------------------------
(* Reports and replies.                                                    *)

\* `delivered`: a report names the provider id, so it finds a row only once
\* the send's answer is written; one that comes sooner is dropped.
Report(m, k) ==
    /\ m \in known
    /\ Record(m, k)
    /\ UNCHANGED <<now, attempts, nextAt, claimedAt, known, answers, around, runs, fibers, history>>

\* `replied`: the newest row that carries the thread, or whose provider id is
\* quoted, and that has not recorded this reply.  An automatic answer is
\* recorded and moves nothing; any other ends the wait of a row that waits.
Matches(r) ==
    {m \in Messages : /\ status[m] # "absent" /\ r \notin answers[m]
                      /\ m \in OnThread[r] \/ (m \in Quoted[r] /\ m \in known)}
Replied(r, auto) ==
    Event /\ \E m \in Matches(r) :
        /\ \A x \in Matches(r) : x <= m
        /\ answers' = [answers EXCEPT ![m] = @ \cup {r}]
        /\ Record(m, IF auto THEN "auto_replied" ELSE "replied")
        /\ strayed' = IF status[m] \in Waiting /\ ~auto THEN strayed \cup {m} ELSE strayed
        /\ UNCHANGED <<now, attempts, nextAt, claimedAt, known, around, runs, fibers,
                       handed, erred, overran, missed, passed, calls>>

-----------------------------------------------------------------------------
(* Time and failures.                                                      *)

\* The clock.  A row is overrun when its lease ends under a living holder.
Tick ==
    /\ now < Horizon /\ now' = now + 1
    /\ overran' = (overran \/ \E f \in Fibers : \E c \in Holds(f) : c.at + Lease <= now')
    /\ missed' = (missed \/ \E f \in Fibers : pc[f] \in {"quiet", "presume", "look"})
    /\ UNCHANGED <<rows, around, runs, fibers, handed, erred, strayed, passed, calls, events>>

Ended(F) ==
    /\ pc' = [f \in Fibers |-> IF f \in F THEN "idle" ELSE pc[f]]
    /\ batch' = [f \in Fibers |-> IF f \in F THEN {} ELSE batch[f]]
    /\ hand' = [f \in Fibers |-> IF f \in F THEN {} ELSE hand[f]]
    /\ quiet' = [f \in Fibers |-> IF f \in F THEN {} ELSE quiet[f]]
    /\ readAt' = [f \in Fibers |-> IF f \in F THEN 0 ELSE readAt[f]]

\* The process dies; the next boot returns the run that was lost with it, and
\* nothing returns a call.
Crash ==
    /\ Event
    /\ \E f \in Fibers : Live(f)
    /\ Ended(Fibers)
    /\ runs' = IF Live(Runner) THEN runs \cup {now} ELSE runs
    /\ missed' = (missed \/ \E f \in Fibers \ {Runner} : Live(f))
    /\ parked' = TRUE
    /\ UNCHANGED <<now, rows, release, active, handed, erred, strayed, overran, passed, calls>>

\* A statement of `deliver` fails, and with it the execution: no retry.
Fault(f) ==
    /\ Event /\ Live(f)
    /\ Ended({f})
    /\ missed' = TRUE
    /\ UNCHANGED <<now, rows, around, runs, handed, erred, strayed, overran, passed, calls>>

Deliver(f) ==
    \/ Begin(f) \/ Claim(f) \/ HandOver(f) \/ Answer(f)
    \/ LookQuiet(f) \/ Presume(f) \/ Look(f)

Next ==
    \/ \E m \in Messages : Send(m) \/ Ack(m) \/ Refuse(m) \/ \E k \in Kinds : Report(m, k)
    \/ \E f \in Fibers : Deliver(f) \/ Fault(f)
    \/ \E r \in Replies, auto \in BOOLEAN : Replied(r, auto)
    \/ Resume \/ Pause \/ Activate \/ Tick \/ Crash

Spec == Init /\ [][Next]_vars

-----------------------------------------------------------------------------
(* Properties.                                                             *)

\* A message is handed to a provider that does not dedupe once, whatever leases
\* run out, processes die, statements fail and sends time out (`message`,
\* outbound.ts 237-376): what may have gone that way is given up as uncertain.
\* It is handed over again only after the provider answered with an error that
\* is retried, once for each such answer: the code takes an error that is not a
\* timeout as not taken (335-344), also a lost connection or a receipt that it
\* cannot read, and those messages a customer may get twice.
AtMostOnce == \A m \in Messages \ Deduped : handed[m] <= 1 + erred[m]

\* A row left by a fork or a restore, or of an account that has become a
\* member's own, is never handed over (the statement `deliver` begins with,
\* outbound.ts 380-404).
ForeignStays == \A m \in Barred : handed[m] = 0

\* The claim a fiber may still send, or whose answer puts the row back.
MayRetry(h) == h.got = "down" \/ (h.got # "sent" /\ ~Final(h.c, h.got))
InPlay(f, m) ==
    \/ \E c \in batch[f] : c.m = m /\ ~Unanswered(c)
    \/ \E h \in hand[f] : h.c.m = m /\ MayRetry(h)
Open(m) ==
    \/ status[m] \in {"absent", "queued"}
    \/ status[m] = "sending" /\ m \in Deduped
    \/ \E f \in Fibers : InPlay(f, m)
Life == INSTANCE Handover WITH open <- {m \in Messages : Open(m)}
\* The queue implements the abstract one: a message is handed over only while it
\* is open, that closes it unless the provider dedupes or answered with an error
\* that is retried, and one that was settled never comes back to the queue.
HandoverLife == Life!Spec

Overtaken(m) == {p \in Messages : p < m /\ ConvOf[p] = ConvOf[m] /\ status[p] \in Waiting}
\* A message is not sent while an earlier one of its conversation waits: what
\* the claim's NOT EXISTS means (outbound.ts 413-414) when two executions claim
\* and rows are retried.  The earlier one may wait only if it committed after a
\* later one, if a reply on its thread ended its wait and its own send's answer
\* queued it again, or if a lease ran out under an execution that still sends.
InOrder ==
    [][\A m \in Messages : (handed'[m] > handed[m] /\ ~overran) => Overtaken(m) \subseteq strayed]_vars

\* What a provider reported of a message is not taken back by the queue's own
\* writes (conversations/status.ts 1-2), unless a lease ran out under an
\* execution that still sends: a bounce stays, a delivery only advances.
ReportsStay ==
    [][~overran => \A m \in Messages :
          /\ status[m] \in {"bounced", "complained"} => status'[m] = status[m]
          /\ status[m] \in {"delivered", "read", "opened"} =>
                status'[m] \notin Waiting \cup {"sent", "uncertain", "deferred"}]_vars

\* A released row at the head of its conversation, and when it is next looked at.
Head(m) == m \notin Barred /\ status[m] \in Waiting /\ Released(m) /\ ~Behind(m)
DueAt(m) == IF status[m] = "queued" THEN nextAt[m] ELSE claimedAt[m] + Lease
Woken(m) == \E t \in runs : t <= now \/ t <= DueAt(m) + Lease
\* While nobody delivers, each head row has a run that comes within a lease of
\* its due time (outbound.ts 454-474), through crashes, and through pauses too
\* once a claim was made after them.  The wake is lost only when the last claim
\* found the instance paused and left due rows (412, and `resume` makes due what
\* is not), the clock moves after the last claim (459), a statement fails, a
\* caller's process dies while it delivers, a row committed late or was
\* answered on its thread while it waited (the next one then comes to the head
\* without a run), or a lease ran out under an execution that still sends.
WakeKept ==
    (/\ ~missed /\ ~overran /\ ~passed /\ strayed = {}
     /\ \A f \in Fibers : ~Live(f)) => \A m \in Messages : Head(m) => Woken(m)
=============================================================================
