---------------------------- MODULE IdentityMemo ----------------------------
(***************************************************************************)
(* What one generation remembers of a person and their session: the row of *)
(* `Authorities.row` (engine/identity/actor.ts) and the session cache of   *)
(* `authenticate` (engine/identity/session.ts), both fenced by the count   *)
(* of finished statements on people or sessions that TenantDb.typed keeps  *)
(* (engine/db/tenant-db.ts, identityWrites).                               *)
(*                                                                         *)
(* One user id and one token: ids and tokens share nothing but the count   *)
(* and the capacity.  A write is the writer that makes it, and what the    *)
(* database holds, or a read has seen, is the set of the writes in it.     *)
(***************************************************************************)
EXTENDS Naturals, FiniteSets

CONSTANTS
    Writers,   \* statements on people or sessions, one each
    Readers,   \* calls of Authorities.row
    Calls,     \* calls of authenticate
    None       \* nothing kept, nothing awaited

\* A lookup of the session cache is known by the call that starts it, and by
\* which of the call's two reads does.
Lookups == Calls \X {1, 2}

ASSUME NoneAssumption == None \notin Lookups
ASSUME CallersAssumption == Readers \cap Calls = {}

VARIABLES
    db,        \* the writes that the database holds
    identity,  \* identity: finished statements on people or sessions
    writer,    \* a writer: idle, sent, landed, lost (given up, still on its way), ended
    acked,     \* history: the writes whose callers have been answered
    fresh,     \* last_seen and refreshed_at are recent: a lookup need not touch them
    held,      \* this.rows of the id: what it saw and its stamp, or None
    row,       \* a reader: idle, reading, read, done, failed
    rowStamp, rowSeen,
    entry,     \* sessions of the token: the lookup that fills it, or None
    lookup,    \* a lookup: none, reading, old, read, ok, refused
    stamp, seen,
    auth,      \* a call: idle, first, again, second, done, refused
    using,     \* the lookup whose answer it waits for
    floor      \* history: `acked` when a reader or a call began

writes == <<db, writer, acked>>
rowVars == <<held, row, rowStamp, rowSeen>>
cacheVars == <<entry, lookup, stamp, seen>>
authVars == <<auth, using>>
vars == <<db, identity, writer, acked, fresh, held, row, rowStamp, rowSeen,
          entry, lookup, stamp, seen, auth, using, floor>>

-----------------------------------------------------------------------------
(* The database and the count of its identity statements *)

Send(w) ==
    /\ writer[w] = "idle"
    /\ writer' = [writer EXCEPT ![w] = "sent"]
    /\ UNCHANGED <<db, identity, acked, fresh, rowVars, cacheVars, authVars, floor>>

\* The statement commits, and its answer is on its way to the adapter.
Land(w) ==
    /\ writer[w] \in {"sent", "lost"}
    /\ db' = db \cup {w}
    /\ writer' = [writer EXCEPT ![w] = IF @ = "sent" THEN "landed" ELSE "ended"]
    /\ UNCHANGED <<identity, acked, fresh, rowVars, cacheVars, authVars, floor>>

\* `wrote`, before the caller goes on.
Counted == identity' = identity + 1

Answer(w) ==
    /\ writer[w] = "landed"
    /\ writer' = [writer EXCEPT ![w] = "ended"]
    /\ acked' = acked \cup {w}
    /\ Counted
    /\ UNCHANGED <<db, fresh, rowVars, cacheVars, authVars, floor>>

\* The call fails, is interrupted or times out, and counts all the same: the
\* statement never ran, or has committed, or is left to the server, whose
\* connection is destroyed.
Fail(w) ==
    /\ \/ writer[w] = "sent" /\ \E s \in {"ended", "lost"} : writer' = [writer EXCEPT ![w] = s]
       \/ writer[w] = "landed" /\ writer' = [writer EXCEPT ![w] = "ended"]
    /\ Counted
    /\ UNCHANGED <<db, acked, fresh, rowVars, cacheVars, authVars, floor>>

-----------------------------------------------------------------------------
(* Authorities.row *)

\* From memory, or the stamp is taken and the read sent.
RowCall(r) ==
    /\ row[r] = "idle"
    /\ floor' = [floor EXCEPT ![r] = acked]
    /\ IF held # None /\ held.stamp = identity
         THEN /\ row' = [row EXCEPT ![r] = "done"]
              /\ rowSeen' = [rowSeen EXCEPT ![r] = held.seen]
              /\ UNCHANGED <<held, rowStamp>>
         ELSE /\ row' = [row EXCEPT ![r] = "reading"]
              /\ rowStamp' = [rowStamp EXCEPT ![r] = identity]
              /\ held' = None
              /\ UNCHANGED rowSeen
    /\ UNCHANGED <<writes, identity, fresh, cacheVars, authVars>>

RowReads(r) ==
    /\ row[r] = "reading"
    /\ row' = [row EXCEPT ![r] = "read"]
    /\ rowSeen' = [rowSeen EXCEPT ![r] = db]
    /\ UNCHANGED <<writes, identity, fresh, held, rowStamp, cacheVars, authVars, floor>>

\* A mutant: the stamp as the answer arrives.
RowKeepsMutant(r) ==
    /\ row[r] = "read"
    /\ row' = [row EXCEPT ![r] = "done"]
    /\ held' = [stamp |-> identity, seen |-> rowSeen[r]]
    /\ UNCHANGED <<writes, identity, fresh, rowStamp, rowSeen, cacheVars, authVars, floor>>
RowKeeps(r) ==
    /\ row[r] = "read"
    /\ row' = [row EXCEPT ![r] = "done"]
    /\ held' = [stamp |-> rowStamp[r], seen |-> rowSeen[r]]
    /\ UNCHANGED <<writes, identity, fresh, rowStamp, rowSeen, cacheVars, authVars, floor>>

\* No active member, a member matched by address, or a failed read: not kept.
RowPasses(r) ==
    /\ \/ row[r] = "read" /\ row' = [row EXCEPT ![r] = "done"]
       \/ row[r] = "reading" /\ row' = [row EXCEPT ![r] = "failed"]
    /\ UNCHANGED <<writes, identity, fresh, held, rowStamp, rowSeen, cacheVars, authVars, floor>>

\* MEMO_MS has passed, or the map is at its limit.
RowExpires ==
    /\ held # None /\ held' = None
    /\ UNCHANGED <<writes, identity, fresh, row, rowStamp, rowSeen, cacheVars, authVars, floor>>

-----------------------------------------------------------------------------
(* authenticate and its cache *)

\* Cache.get: the entry, filled or being filled, else a lookup of its own.
Get(c, round) ==
    IF entry # None
      THEN using' = [using EXCEPT ![c] = entry] /\ UNCHANGED cacheVars
      ELSE /\ using' = [using EXCEPT ![c] = <<c, round>>]
           /\ entry' = <<c, round>>
           /\ lookup' = [lookup EXCEPT ![<<c, round>>] = "reading"]
           /\ stamp' = [stamp EXCEPT ![<<c, round>>] = identity]
           /\ UNCHANGED seen

AuthCall(c) ==
    /\ auth[c] = "idle"
    /\ auth' = [auth EXCEPT ![c] = "first"]
    /\ floor' = [floor EXCEPT ![c] = acked]
    /\ Get(c, 1)
    /\ UNCHANGED <<writes, identity, fresh, rowVars>>

LookupReads(l) ==
    /\ lookup[l] = "reading"
    /\ lookup' = [lookup EXCEPT ![l] = IF fresh THEN "read" ELSE "old"]
    /\ seen' = [seen EXCEPT ![l] = db]
    /\ UNCHANGED <<writes, identity, fresh, rowVars, entry, stamp, authVars, floor>>

\* The lookup writes last_seen or refreshed_at: an identity statement of its own,
\* which outdates the stamp that the lookup carries.
LookupTouches(l) ==
    /\ lookup[l] = "old"
    /\ lookup' = [lookup EXCEPT ![l] = "read"]
    /\ fresh' = TRUE
    /\ Counted
    /\ UNCHANGED <<writes, rowVars, entry, stamp, seen, authVars, floor>>

\* It answers a session, or none, or fails.
LookupEnds(l) ==
    /\ \/ lookup[l] = "read" /\ \E s \in {"ok", "refused"} : lookup' = [lookup EXCEPT ![l] = s]
       \/ lookup[l] \in {"reading", "old"} /\ lookup' = [lookup EXCEPT ![l] = "refused"]
    /\ UNCHANGED <<writes, identity, fresh, rowVars, entry, stamp, seen, authVars, floor>>

\* A mutant: the first answer is taken as it is.
AuthFirstMutant(c) ==
    /\ auth[c] = "first" /\ lookup[using[c]] = "ok"
    /\ auth' = [auth EXCEPT ![c] = "done"]
    /\ UNCHANGED <<writes, identity, fresh, rowVars, cacheVars, using, floor>>
\* The first answer: current, or the entry, whosever it is now, is dropped.
AuthFirst(c) ==
    /\ auth[c] = "first" /\ lookup[using[c]] = "ok"
    /\ IF stamp[using[c]] = identity
         THEN auth' = [auth EXCEPT ![c] = "done"] /\ UNCHANGED entry
         ELSE auth' = [auth EXCEPT ![c] = "again"] /\ entry' = None
    /\ UNCHANGED <<writes, identity, fresh, rowVars, lookup, stamp, seen, using, floor>>

AuthAgain(c) ==
    /\ auth[c] = "again"
    /\ auth' = [auth EXCEPT ![c] = "second"]
    /\ Get(c, 2)
    /\ UNCHANGED <<writes, identity, fresh, rowVars, floor>>

\* The second answer is not compared again.
AuthSecond(c) ==
    /\ auth[c] = "second" /\ lookup[using[c]] = "ok"
    /\ auth' = [auth EXCEPT ![c] = "done"]
    /\ UNCHANGED <<writes, identity, fresh, rowVars, cacheVars, using, floor>>

\* The lookup refused or failed (tapError), or the session has expired since.
AuthRefused(c) ==
    /\ auth[c] \in {"first", "second"} /\ lookup[using[c]] \in {"ok", "refused"}
    /\ auth' = [auth EXCEPT ![c] = "refused"]
    /\ entry' = None
    /\ UNCHANGED <<writes, identity, fresh, rowVars, lookup, stamp, seen, using, floor>>

\* `forget`, or the cache's time to live and capacity.
Forget ==
    /\ entry # None /\ entry' = None
    /\ UNCHANGED <<writes, identity, fresh, rowVars, lookup, stamp, seen, authVars, floor>>

-----------------------------------------------------------------------------
Init ==
    /\ db = {} /\ identity = 0 /\ acked = {} /\ fresh \in BOOLEAN
    /\ writer = [w \in Writers |-> "idle"]
    /\ held = None /\ row = [r \in Readers |-> "idle"]
    /\ rowStamp = [r \in Readers |-> 0] /\ rowSeen = [r \in Readers |-> {}]
    /\ entry = None /\ lookup = [l \in Lookups |-> "none"]
    /\ stamp = [l \in Lookups |-> 0] /\ seen = [l \in Lookups |-> {}]
    /\ auth = [c \in Calls |-> "idle"] /\ using = [c \in Calls |-> None]
    /\ floor = [c \in Readers \cup Calls |-> {}]

Next ==
    \/ \E w \in Writers : Send(w) \/ Land(w) \/ Answer(w) \/ Fail(w)
    \/ \E r \in Readers : RowCall(r) \/ RowReads(r) \/ RowKeeps(r) \/ RowPasses(r)
    \/ \E c \in Calls :
         AuthCall(c) \/ AuthFirst(c) \/ AuthAgain(c) \/ AuthSecond(c) \/ AuthRefused(c)
    \/ \E l \in Lookups : LookupReads(l) \/ LookupTouches(l) \/ LookupEnds(l)
    \/ RowExpires \/ Forget

Spec == Init /\ [][Next]_vars

-----------------------------------------------------------------------------
Memo == [stamp : 0..identity, seen : SUBSET Writers]

\* The memos and their readers keep their types; no stamp is ahead of the count.
TypeOK ==
    /\ db \subseteq Writers /\ identity \in Nat /\ acked \subseteq db /\ fresh \in BOOLEAN
    /\ writer \in [Writers -> {"idle", "sent", "landed", "lost", "ended"}]
    /\ held \in Memo \cup {None}
    /\ row \in [Readers -> {"idle", "reading", "read", "done", "failed"}]
    /\ rowStamp \in [Readers -> 0..identity] /\ rowSeen \in [Readers -> SUBSET Writers]
    /\ entry \in Lookups \cup {None}
    /\ lookup \in [Lookups -> {"none", "reading", "old", "read", "ok", "refused"}]
    /\ stamp \in [Lookups -> 0..identity] /\ seen \in [Lookups -> SUBSET Writers]
    /\ auth \in [Calls -> {"idle", "first", "again", "second", "done", "refused"}]
    /\ using \in [Calls -> Lookups \cup {None}]
    /\ floor \in [Readers \cup Calls -> SUBSET acked]

\* A lookup has its rows.
HasRead(l) == lookup[l] \in {"old", "read", "ok"}

\* What a memo would answer now is no older than any finished write: a row or
\* a session whose stamp is the count has seen every write that was answered.
KeptIsCurrent ==
    /\ held # None /\ held.stamp = identity => acked \subseteq held.seen
    /\ entry # None /\ HasRead(entry) /\ stamp[entry] = identity => acked \subseteq seen[entry]

\* A deactivation, a sign-out or a change of rights that its caller has been
\* told of holds for every request that begins after it: what `row` and
\* `authenticate` answer has seen each write answered before they were called,
\* whether it comes from memory, from a lookup another call began, or from the
\* second read, which nobody compares.
AnswersAreFresh ==
    /\ \A r \in Readers : row[r] = "done" => floor[r] \subseteq rowSeen[r]
    /\ \A c \in Calls : auth[c] = "done" => floor[c] \subseteq seen[using[c]]
=============================================================================
