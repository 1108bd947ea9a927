------------------------------ MODULE Receipts ------------------------------
(***************************************************************************)
(* Idempotent writes and their audit trail (packages/bolt/src/engine:      *)
(* write/sql.ts, write/act.ts, transactions.ts, audit-operation.ts,        *)
(* audit-retention.ts and the recovery loop of host.ts).                   *)
(*                                                                         *)
(* A request is executed by one or more operations: a client sends it      *)
(* again when no answer came.  Each operation stores an intent with the    *)
(* host, commits a batch whose gate admits one operation per key and whose *)
(* receipt tells which operation it was, and then settles: it appends what *)
(* the receipt and the history say to the host's store and acknowledges    *)
(* the receipt.  Recovery settles what an operation left.  A request is    *)
(* an act, one batch, or an interactive transaction, a session of its own. *)
(* All requests here write one record; an erasure ends it.                 *)
(***************************************************************************)
EXTENDS Integers, FiniteSets

CONSTANTS
    Ops,          \* executions, numbered so that a request's begin in order
    Requests,     \* an idempotency key with a digest
    Keys,
    KeyOf,        \* the key of a request
    Transactions, \* the requests that are interactive transactions
    Erasures,     \* the requests that erase the record
    Mixes,        \* which request each operation may execute
    Admit,        \* how old a request may be when it is admitted: 23 hours
    Window,       \* how long a key is kept: 24 hours
    Horizon,      \* bound: the clock
    MaxTrouble    \* bound: crashes, lost answers and failing stores together;
                  \* one more failure may hit the recovery

ASSUME RequestsAssumption ==
    /\ Ops \subseteq Nat /\ KeyOf \in [Requests -> Keys]
    /\ Transactions \subseteq Requests /\ Erasures \subseteq Requests \ Transactions
    /\ Mixes \subseteq [Ops -> Requests]
    /\ \A q, r \in Requests : (KeyOf[q] = KeyOf[r]) => (q \in Transactions <=> r \in Transactions)
ASSUME WindowAssumption ==
    Admit \in Nat /\ Window \in Nat /\ Admit < Window /\ Horizon \in Nat /\ MaxTrouble \in Nat

VARIABLES
    req,         \* the request of each operation
    now, issued, \* the clock; a request's issuedAt, 0 before it is sent
    \* the tenant's database
    idem,        \* bolt_idem with bolt_idem_outcome, at most one per key
    receipts,    \* bolt_audit_receipt
    acked,       \* those with acknowledged_at
    history,     \* the operations whose revisions are in bolt_history
    erases,      \* bolt_audit_erase: erasures whose purge of the history waits
    flying,      \* batches whose caller is gone and that may still commit
    \* the host's audit store
    prepared,    \* operations with an intent
    verdict,     \* the status of an operation's terminal event
    imaged,      \* terminal events that carry the revisions
    confirmed,   \* terminal events made from a receipt
    \* an operation
    pc, got,     \* where it is and what its answer will be
    view,        \* what it has read to settle
    seen,        \* the key's row in the snapshot of a transaction
    \* recovery
    rpc, todo, cur, rview,
    bus,         \* a request for recovery waits
    unresolved,  \* the last scan left something
    \* history and bounds
    wrote,       \* the operations whose changes are committed
    trouble

db == <<idem, receipts, acked, history, erases, wrote>>
host == <<prepared, verdict, imaged, confirmed>>
ops == <<pc, got, view, seen>>
recovery == <<rpc, todo, cur, rview, bus, unresolved>>
vars == <<req, now, issued, db, flying, host, ops, recovery, trouble>>

Recorded == {"committed", "refused"}
Answers == Recorded \cup {"none", "reuse", "turned", "lost", "unsure"}
Verdicts == Recorded \cup {"reuse", "turned", "failed"}
Views == [verdict : {"none", "absent", "acked", "reuse"} \cup Recorded, images : BOOLEAN]
Nothing == [verdict |-> "none", images |-> FALSE]
Rows == [by : Requests, at : Nat, kind : Recorded]

\* The tables, the host's store, the operations and the recovery keep their
\* types; what is acknowledged has a receipt, and what has revisions was written.
TypeOK ==
    /\ req \in [Ops -> Requests] /\ now \in Nat /\ issued \in [Requests -> Nat]
    /\ idem \in [Keys -> SUBSET Rows]
    /\ receipts \subseteq Ops /\ acked \subseteq receipts
    /\ wrote \subseteq Ops /\ history \subseteq wrote /\ erases \subseteq wrote
    /\ flying \in [Ops -> {"none", "commit", "record"}]
    /\ prepared \subseteq Ops /\ verdict \in [Ops -> Verdicts \cup {"none"}]
    /\ imaged \subseteq Ops /\ confirmed \subseteq Ops
    /\ pc \in [Ops -> {"idle", "work", "record", "lease", "gate", "open", "abort",
                       "settle", "append", "ack", "own", "done"}]
    /\ got \in [Ops -> Answers] /\ view \in [Ops -> Views] /\ seen \in [Ops -> SUBSET Rows]
    /\ rpc \in {"boot", "wait", "settle", "append", "ack"}
    /\ todo \subseteq Ops /\ cur \subseteq Ops /\ rview \in Views
    /\ bus \in BOOLEAN /\ unresolved \in BOOLEAN /\ trouble \in Nat

Init ==
    /\ req \in Mixes /\ now = 1 /\ issued = [r \in Requests |-> 0]
    /\ idem = [k \in Keys |-> {}]
    /\ receipts = {} /\ acked = {} /\ history = {} /\ erases = {} /\ wrote = {}
    /\ flying = [o \in Ops |-> "none"]
    /\ prepared = {} /\ verdict = [o \in Ops |-> "none"] /\ imaged = {} /\ confirmed = {}
    /\ pc = [o \in Ops |-> "idle"] /\ got = [o \in Ops |-> "none"]
    /\ view = [o \in Ops |-> Nothing] /\ seen = [o \in Ops |-> {}]
    /\ rpc = "wait" /\ todo = {} /\ cur = {} /\ rview = Nothing
    /\ bus = FALSE /\ unresolved = FALSE /\ trouble = 0

Key(o) == KeyOf[req[o]]
Native(o) == req[o] \in Transactions
Live(o) == pc[o] \notin {"idle", "done"}
Written(r) == \E o \in wrote : req[o] = r
Gone == \E o \in wrote : req[o] \in Erasures
Trouble == trouble < MaxTrouble /\ trouble' = trouble + 1
To(o, p) == pc' = [pc EXCEPT ![o] = p]
Gets(o, a) == got' = [got EXCEPT ![o] = a]

-----------------------------------------------------------------------------
(* The gate and the stored outcome (write/sql.ts).                         *)

Unacknowledged(k) == \E o \in receipts \ acked : Key(o) = k
\* A mutant: an old key is taken over while its receipt is not acknowledged.
FreshMutant(o) == \A i \in idem[Key(o)] : i.at + Window < issued[req[o]]
\* The key is new, or so old that it may be taken over.
Fresh(o) ==
    \A i \in idem[Key(o)] : i.at + Window < issued[req[o]] /\ ~Unacknowledged(Key(o))
\* A mutant: the digest is not compared.
StoredKindMutant(o, i) == i.kind
StoredKind(o, i) == IF i.by = req[o] THEN i.kind ELSE "reuse"

\* A batch: the gate, its changes or a refusal, and the receipt in any case.
Apply(o, kind) ==
    /\ receipts' = receipts \cup {o}
    /\ UNCHANGED acked
    /\ IF Fresh(o)
         THEN /\ idem' = [idem EXCEPT ![Key(o)] =
                            {[by |-> req[o], at |-> issued[req[o]], kind |-> kind]}]
              /\ IF kind = "committed"
                   THEN /\ wrote' = wrote \cup {o} /\ history' = history \cup {o}
                        /\ erases' = IF req[o] \in Erasures THEN erases \cup {o} ELSE erases
                   ELSE UNCHANGED <<wrote, history, erases>>
         ELSE UNCHANGED <<idem, wrote, history, erases>>
Answered(o, kind) ==
    IF Fresh(o) THEN kind ELSE StoredKind(o, CHOOSE i \in idem[Key(o)] : TRUE)

-----------------------------------------------------------------------------
(* An act (write/act.ts) inside `audited` (audit-operation.ts).            *)

\* A mutant: a request is admitted however old it is.
AdmittedMutant(o) == TRUE
Admitted(o) == now <= issued[req[o]] + Admit

\* `prepareAudit`, and for a transaction the lookup that comes before it.  The
\* key of a transaction is its run attempt's, which is over before `Admit`.
Start(o) ==
    /\ pc[o] = "idle"
    /\ \A p \in Ops : (p < o /\ req[p] = req[o]) => pc[p] # "idle"
    /\ Native(o) => issued[req[o]] = 0 \/ Admitted(o)
    /\ issued' = IF issued[req[o]] = 0 THEN [issued EXCEPT ![req[o]] = now] ELSE issued
    /\ IF Native(o) /\ idem[Key(o)] # {}
         THEN /\ \E i \in idem[Key(o)] : Gets(o, StoredKind(o, i))
              /\ To(o, "done") /\ UNCHANGED prepared
         ELSE /\ prepared' = prepared \cup {o}
              /\ To(o, IF Native(o) THEN "lease" ELSE "work") /\ UNCHANGED got
    /\ UNCHANGED <<req, now, db, flying, verdict, imaged, confirmed, view, seen, recovery, trouble>>

\* The act answers without a batch: expired, answered from the stored outcome
\* of a marked retry, or refused by a check that is not recorded.
TurnAway(o) ==
    /\ pc[o] = "work"
    /\ \/ Gets(o, "turned")
       \/ /\ Admitted(o)
          /\ \E i \in idem[Key(o)] : i.at + Window > issued[req[o]] /\ Gets(o, StoredKind(o, i))
    /\ To(o, "settle")
    /\ UNCHANGED <<req, now, issued, db, flying, host, view, seen, recovery, trouble>>

\* A read of the act fails and nothing was sent.  `audited` is unsure of a lost
\* connection only; the 20 s wall is a failure like others.
ReadFails(o) ==
    /\ pc[o] = "work" /\ Trouble
    /\ (Gets(o, "unsure") \/ Gets(o, "lost")) /\ To(o, "settle")
    /\ UNCHANGED <<req, now, issued, db, flying, host, view, seen, recovery>>

\* The batch commits and its answer arrives.
Commit(o) ==
    /\ pc[o] = "work" /\ Admitted(o) /\ (Fresh(o) => ~Gone)
    /\ Apply(o, "committed") /\ Gets(o, Answered(o, "committed"))
    /\ To(o, "settle")
    /\ UNCHANGED <<req, now, issued, flying, host, view, seen, recovery, trouble>>

\* The database decides against it: nothing is written, the refusal is recorded.
Decide(o) ==
    /\ pc[o] = "work" /\ Admitted(o) /\ Fresh(o)
    /\ To(o, "record")
    /\ UNCHANGED <<req, now, issued, db, flying, host, got, view, seen, recovery, trouble>>
RecordOutcome(o) ==
    /\ pc[o] = "record"
    /\ Apply(o, "refused") /\ Gets(o, Answered(o, "refused"))
    /\ To(o, "settle")
    /\ UNCHANGED <<req, now, issued, flying, host, view, seen, recovery, trouble>>

\* The call fails (its connection, or the 20 s wall) with the batch on its way;
\* the error of a commit never tells which it was.
Lose(o) ==
    /\ pc[o] \in {"work", "record"} /\ Admitted(o) /\ Trouble
    /\ flying' = [flying EXCEPT ![o] = IF pc[o] = "work" THEN "commit" ELSE "record"]
    /\ Gets(o, "lost") \/ (pc[o] = "record" /\ Gets(o, "unsure"))
    /\ To(o, "settle")
    /\ UNCHANGED <<req, now, issued, db, host, view, seen, recovery>>

\* The server commits such a batch, or rolls it back.
Land(o) ==
    /\ flying[o] # "none" /\ (flying[o] = "commit" /\ Fresh(o) => ~Gone)
    /\ Apply(o, IF flying[o] = "commit" THEN "committed" ELSE "refused")
    /\ flying' = [flying EXCEPT ![o] = "none"]
    /\ UNCHANGED <<req, now, issued, host, ops, recovery, trouble>>
Sink(o) ==
    /\ flying[o] # "none"
    /\ flying' = [flying EXCEPT ![o] = "none"]
    /\ UNCHANGED <<req, now, issued, db, host, ops, recovery, trouble>>

-----------------------------------------------------------------------------
(* An interactive transaction (transactions.ts): one serializable session. *)

Held(k) == \E p \in Ops : Key(p) = k /\ Native(p) /\ (pc[p] = "open" \/ flying[p] # "none")

\* The session opens; its first statement takes the snapshot.
Lease(o) ==
    /\ pc[o] = "lease"
    /\ seen' = [seen EXCEPT ![o] = idem[Key(o)]] /\ To(o, "gate")
    /\ UNCHANGED <<req, now, issued, db, flying, host, got, view, recovery, trouble>>
\* No session is to be had: nothing says what became of the intent.
LeaseFails(o) ==
    /\ pc[o] = "lease" /\ Trouble
    /\ Gets(o, "turned") /\ To(o, "done")
    /\ UNCHANGED <<req, now, issued, db, flying, host, view, seen, recovery>>

\* The gate behind its advisory lock: a key that changed since the snapshot
\* fails the session, one that is taken answers its stored outcome.
Gate(o) ==
    /\ pc[o] = "gate" /\ ~Held(Key(o))
    /\ \/ idem[Key(o)] # seen[o] /\ Gets(o, "turned") /\ To(o, "abort")
       \/ /\ idem[Key(o)] = seen[o] /\ ~Fresh(o)
          /\ Gets(o, Answered(o, "committed")) /\ To(o, "abort")
       \/ idem[Key(o)] = seen[o] /\ Fresh(o) /\ To(o, "open") /\ UNCHANGED got
    /\ UNCHANGED <<req, now, issued, db, flying, host, view, seen, recovery, trouble>>

\* `finish`: the outcome and the receipt are written, COMMIT is sent.
Finish(o) ==
    /\ pc[o] = "open" /\ ~Gone
    /\ Apply(o, "committed") /\ Gets(o, "committed")
    /\ To(o, "settle")
    /\ UNCHANGED <<req, now, issued, flying, host, view, seen, recovery, trouble>>
FinishLost(o) ==
    /\ pc[o] = "open" /\ Trouble
    /\ flying' = [flying EXCEPT ![o] = "commit"]
    /\ Gets(o, "unsure") /\ To(o, "settle")
    /\ UNCHANGED <<req, now, issued, db, host, view, seen, recovery>>
\* COMMIT itself is refused: the receipt is rolled back with the rest.
FinishFails(o) ==
    /\ pc[o] = "open"
    /\ Gets(o, "turned") /\ To(o, "settle")
    /\ UNCHANGED <<req, now, issued, db, flying, host, view, seen, recovery, trouble>>

\* The session ends before COMMIT: a refused write, its deadline, the guest.
Rollback(o) ==
    /\ pc[o] \in {"gate", "open"}
    /\ Gets(o, "turned") /\ To(o, "abort")
    /\ UNCHANGED <<req, now, issued, db, flying, host, view, seen, recovery, trouble>>
\* `abort` reports it, unless the host's store fails.
Abort(o) ==
    /\ pc[o] = "abort"
    /\ \/ verdict' = [verdict EXCEPT ![o] = "failed"] /\ UNCHANGED trouble
       \/ Trouble /\ UNCHANGED verdict
    /\ To(o, "done")
    /\ UNCHANGED <<req, now, issued, db, flying, prepared, imaged, confirmed, got, view, seen, recovery>>

-----------------------------------------------------------------------------
(* `settleAudit` by the operation itself.                                  *)

\* Receipt, outcome and images in one snapshot.
Settled(o) ==
    IF o \notin receipts THEN [verdict |-> "absent", images |-> FALSE]
    ELSE IF o \in acked THEN [verdict |-> "acked", images |-> FALSE]
    ELSE [verdict |-> IF \E i \in idem[Key(o)] : i.by = req[o]
                        THEN (CHOOSE i \in idem[Key(o)] : TRUE).kind ELSE "reuse",
          images |-> o \in history]

Settle(o) ==
    LET v == Settled(o)
    IN  /\ pc[o] = "settle"
        /\ \/ v.verdict = "absent" /\ To(o, IF Native(o) THEN "done" ELSE "own") /\ UNCHANGED view
           \/ v.verdict = "acked" /\ To(o, "done") /\ UNCHANGED view
           \/ v.verdict \notin {"absent", "acked"} /\ To(o, "append")
              /\ view' = [view EXCEPT ![o] = v]
        /\ UNCHANGED <<req, now, issued, db, flying, host, got, seen, recovery, trouble>>

\* The host's store refuses other data under an id that it has.
Agrees(o, v) == verdict[o] = "none" \/ (verdict[o] = v.verdict /\ o \in confirmed)
Stores(o, v) ==
    /\ Agrees(o, v)
    /\ verdict' = [verdict EXCEPT ![o] = v.verdict]
    /\ confirmed' = confirmed \cup {o}
    /\ imaged' = IF verdict[o] = "none" /\ v.images THEN imaged \cup {o} ELSE imaged
    /\ UNCHANGED prepared

\* What `audited` leaves unsettled, recovery is asked for; a transaction asks not.
\* A mutant: nobody asks.
LeaveMutant(o) ==
    /\ To(o, "done") /\ view' = [view EXCEPT ![o] = Nothing]
    /\ UNCHANGED <<req, now, issued, db, flying, host, got, seen, recovery>>
Leave(o) ==
    /\ To(o, "done") /\ view' = [view EXCEPT ![o] = Nothing]
    /\ bus' = (bus \/ ~Native(o))
    /\ UNCHANGED <<req, now, issued, db, flying, host, got, seen, rpc, todo, cur, rview, unresolved>>

Append(o) ==
    /\ pc[o] = "append"
    /\ \/ /\ Stores(o, view[o]) /\ To(o, "ack")
          /\ UNCHANGED <<req, now, issued, db, flying, got, view, seen, recovery, trouble>>
       \/ ~Agrees(o, view[o]) /\ Leave(o) /\ UNCHANGED trouble

\* `drainAuditErases`: an erasure purges the history once every operation that
\* has revisions in it is acknowledged.
\* A mutant: only the erasure's own receipt is looked at.
PurgeableMutant(done) == erases \cap done
Purgeable(done) == IF history \subseteq done THEN erases \cap done ELSE {}
Purge(done) ==
    /\ erases' = erases \ Purgeable(done)
    /\ history' = IF Purgeable(done) # {} THEN {} ELSE history
Ack(o) ==
    /\ pc[o] = "ack"
    /\ acked' = acked \cup {o} /\ Purge(acked')
    /\ To(o, "done") /\ view' = [view EXCEPT ![o] = Nothing]
    /\ UNCHANGED <<req, now, issued, idem, receipts, wrote, flying, host, got, seen, recovery, trouble>>

\* `audited` without a receipt: the answer itself is what it reports.  Only a
\* bare connection failure is left to recovery: a failing commit is not one.
OwnVerdict(a) == IF a = "lost" THEN "failed" ELSE a
Own(o) ==
    /\ pc[o] = "own"
    /\ \/ /\ got[o] # "unsure" /\ verdict[o] = "none"
          /\ verdict' = [verdict EXCEPT ![o] = OwnVerdict(got[o])]
          /\ To(o, "done")
          /\ UNCHANGED <<req, now, issued, db, flying, prepared, imaged, confirmed, got, view, seen,
                         recovery, trouble>>
       \/ (got[o] = "unsure" \/ verdict[o] # "none") /\ Leave(o) /\ UNCHANGED trouble

\* A read, an append or an acknowledgement fails.
Fault(o) ==
    /\ pc[o] \in {"settle", "append", "ack", "own"} /\ Trouble
    /\ Leave(o)

-----------------------------------------------------------------------------
(* Recovery (`recoverAudit`, and its loop in host.ts).                     *)

Pending == {o \in prepared : verdict[o] = "none"}

\* At boot, when asked, or every five seconds while something is unresolved.
Scan ==
    /\ rpc = "boot" \/ (rpc = "wait" /\ (bus \/ unresolved))
    /\ todo' = Pending /\ bus' = FALSE /\ rpc' = "settle"
    /\ UNCHANGED <<req, now, issued, db, flying, host, ops, cur, rview, unresolved, trouble>>
Recover(o) ==
    LET v == Settled(o)
    IN  /\ rpc = "settle" /\ o \in todo
        /\ todo' = todo \ {o}
        /\ IF v.verdict \in {"absent", "acked"} THEN UNCHANGED <<cur, rview, rpc>>
           ELSE cur' = {o} /\ rview' = v /\ rpc' = "append"
        /\ UNCHANGED <<req, now, issued, db, flying, host, ops, bus, unresolved, trouble>>
GiveUp ==
    /\ rpc' = "wait" /\ unresolved' = TRUE
    /\ todo' = {} /\ cur' = {} /\ rview' = Nothing
    /\ UNCHANGED <<req, now, issued, db, flying, host, ops, bus>>
RecoverAppend ==
    /\ rpc = "append"
    /\ \E o \in cur :
          \/ /\ Stores(o, rview) /\ rpc' = "ack"
             /\ UNCHANGED <<req, now, issued, db, flying, ops, todo, cur, rview, bus, unresolved, trouble>>
          \/ ~Agrees(o, rview) /\ GiveUp /\ UNCHANGED trouble
RecoverAck ==
    /\ rpc = "ack" /\ acked' = acked \cup cur /\ Purge(acked')
    /\ cur' = {} /\ rview' = Nothing /\ rpc' = "settle"
    /\ UNCHANGED <<req, now, issued, idem, receipts, wrote, flying, host, ops, todo, bus, unresolved,
                   trouble>>
\* Receipts whose terminal event is there are acknowledged, erasures drained;
\* the loop keeps what is left.
RecoverReceipts ==
    /\ rpc = "settle" /\ todo = {}
    /\ acked' = acked \cup (receipts \cap confirmed) /\ Purge(acked')
    /\ unresolved' = (Pending # {} \/ receipts # acked' \/ erases' # {})
    /\ rpc' = "wait"
    /\ UNCHANGED <<req, now, issued, idem, receipts, wrote, flying, host, ops, todo, cur, rview, bus,
                   trouble>>
\* A read, an append or an acknowledgement fails: the loop scans again.
RecoverFails ==
    /\ rpc \notin {"boot", "wait"} /\ trouble <= MaxTrouble /\ trouble' = trouble + 1
    /\ GiveUp

-----------------------------------------------------------------------------
(* Time, retention and crashes.                                            *)

\* Bound: an operation, and a batch in flight, ends within its key's window:
\* one that was admitted in time has the last hour of it.
Tick ==
    /\ now < Horizon /\ now' = now + 1 /\ \E r \in Requests : issued[r] # 0
    /\ \A o \in Ops : (Live(o) \/ flying[o] # "none") => now' <= issued[req[o]] + Window
    /\ UNCHANGED <<req, issued, db, flying, host, ops, recovery, trouble>>

\* `prune` removes keys past the window, unless a receipt still needs them.
Prune(k) ==
    /\ \E i \in idem[k] : i.at + Window < now
    /\ ~Unacknowledged(k) /\ ~Held(k)
    /\ idem' = [idem EXCEPT ![k] = {}]
    /\ UNCHANGED <<req, now, issued, receipts, acked, history, erases, wrote, flying, host, ops,
                   recovery, trouble>>

\* What the process had sent may still commit; a session not at COMMIT is lost.
Crash ==
    /\ Trouble
    /\ \E F \in SUBSET {o \in Ops : pc[o] \in {"work", "record", "open"} /\ Admitted(o)} :
          flying' = [o \in Ops |-> IF o \notin F THEN flying[o]
                                  ELSE IF pc[o] = "record" THEN "record" ELSE "commit"]
    /\ pc' = [o \in Ops |-> IF Live(o) THEN "done" ELSE pc[o]]
    /\ got' = [o \in Ops |-> IF Live(o) THEN "none" ELSE got[o]]
    /\ view' = [o \in Ops |-> Nothing] /\ seen' = [o \in Ops |-> {}]
    /\ rpc' = "boot" /\ todo' = {} /\ cur' = {} /\ rview' = Nothing
    /\ bus' = FALSE /\ unresolved' = FALSE
    /\ UNCHANGED <<req, now, issued, db, host>>

Act(o) == TurnAway(o) \/ ReadFails(o) \/ Commit(o) \/ Decide(o) \/ RecordOutcome(o) \/ Lose(o)
Transact(o) ==
    \/ Lease(o) \/ LeaseFails(o) \/ Gate(o) \/ Rollback(o) \/ Abort(o)
    \/ Finish(o) \/ FinishLost(o) \/ FinishFails(o)
Closing(o) == Settle(o) \/ Append(o) \/ Ack(o) \/ Own(o)
Recovering ==
    \/ Scan \/ RecoverAppend \/ RecoverAck \/ RecoverReceipts
    \/ \E o \in Ops : Recover(o)

Next ==
    \/ \E o \in Ops : Start(o) \/ Act(o) \/ Transact(o) \/ Closing(o) \/ Fault(o) \/ Land(o) \/ Sink(o)
    \/ Recovering \/ RecoverFails
    \/ Tick \/ Crash \/ \E k \in Keys : Prune(k)

Spec == Init /\ [][Next]_vars
\* Operations and recovery run on; the server ends what is in flight.
Fairness ==
    /\ \A o \in Ops : WF_vars(Act(o) \/ Transact(o) \/ Closing(o)) /\ WF_vars(Land(o) \/ Sink(o))
    /\ WF_vars(Recovering)
FairSpec == Spec /\ Fairness

-----------------------------------------------------------------------------
(* Properties.                                                             *)

\* However often a request is sent, answered, lost, retried or pruned, one of
\* its operations writes at most (rules 20 and 31: the gate of write/sql.ts
\* 128-137, `expired` of write/act.ts and the retention of bolt_idem).
OncePerRequest == \A o, p \in wrote : req[o] = req[p] => o = p

\* Answers are kept: a request answered as committed is committed, and one
\* answered with a recorded refusal is never committed by a later retry.
AnswersKept ==
    \A o \in Ops :
        /\ got[o] = "committed" => Written(req[o])
        /\ got[o] = "refused" => ~Written(req[o])

\* The trail says what happened: the terminal event of an operation that wrote
\* says so unless a lost commit was reported as failed, and a status that
\* claims a commit or a refusal is true of the request.
TrailTrue ==
    \A o \in Ops :
        /\ (o \in wrote /\ verdict[o] # "none") =>
              verdict[o] = "committed" \/ (verdict[o] = "failed" /\ ~Native(o))
        /\ verdict[o] = "committed" => Written(req[o])
        /\ verdict[o] = "refused" => ~Written(req[o])

\* The revisions of a committed operation are in the history or in the event
\* that the host has stored, also when its record is erased ("Acknowledgement
\* follows a durable full external append", audit-retention.ts 4).
EvidenceKept == \A o \in wrote : o \in history \/ o \in imaged

\* "A missing receipt remains unresolved" (audit-operation.ts 241): an operation
\* that the trail reports as failed has not committed, and does not.
FailedStays == \A o \in Ops : verdict[o] = "failed" => o \notin wrote

\* Every receipt of an act is settled in the end, through crashes and failing
\* stores: the operation, or the recovery it asks for, acknowledges it, unless
\* its lost commit was reported as failed.
ReceiptsSettle ==
    \A o \in Ops :
        (o \in receipts /\ ~Native(o)) ~> (o \in acked \/ verdict[o] = "failed")
=============================================================================
