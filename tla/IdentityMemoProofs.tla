------------------------- MODULE IdentityMemoProofs -------------------------
(***************************************************************************)
(* Proofs about IdentityMemo, for any writers, readers and calls.          *)
(*                                                                         *)
(* The count moves only past the stamps that were taken, so a stamp that   *)
(* equals it fences a read with no write answered since.  What a call      *)
(* reads the second time needs no stamp: the entry it finds was made after *)
(* the call dropped the one it had.                                        *)
(***************************************************************************)
EXTENDS IdentityMemo, TLAPS

\* A reader that has its row saw what was answered before it began, and, while
\* its stamp is the count, all that has been answered.
RowsRead ==
    \A r \in Readers :
        /\ row[r] = "read" /\ rowStamp[r] = identity => acked \subseteq rowSeen[r]
        /\ row[r] \in {"read", "done"} => floor[r] \subseteq rowSeen[r]

\* The row that is kept, while its stamp is the count.
RowKept == held # None /\ held.stamp = identity => acked \subseteq held.seen

\* A lookup that has its rows, while its stamp is the count.
SessionsRead ==
    \A l \in Lookups : HasRead(l) /\ stamp[l] = identity => acked \subseteq seen[l]

\* A call waits for a lookup; one that dropped an entry finds, or has found,
\* only lookups that read after it began.
WaitsFor(c) ==
    /\ auth[c] # "idle" => using[c] \in Lookups
    /\ auth[c] = "again" /\ entry # None /\ HasRead(entry) => floor[c] \subseteq seen[entry]
    /\ auth[c] = "second" /\ HasRead(using[c]) => floor[c] \subseteq seen[using[c]]
    /\ auth[c] = "done" => floor[c] \subseteq seen[using[c]]
Waits == \A c \in Calls : WaitsFor(c)

\* A writer whose statement has committed is in the database.
Landed == \A w \in Writers : writer[w] = "landed" => w \in db

IInv == TypeOK /\ Landed /\ RowsRead /\ RowKept /\ SessionsRead /\ Waits

\* What Cache.get does: the call waits for the entry, which is the one there was
\* or a lookup that has yet to read.
LEMMA GetEntry ==
    ASSUME TypeOK, NEW c \in Calls, NEW k \in {1, 2}, Get(c, k)
    PROVE  /\ entry' \in Lookups /\ using' = [using EXCEPT ![c] = entry'] /\ seen' = seen
           /\ lookup' \in [Lookups -> {"none", "reading", "old", "read", "ok", "refused"}]
           /\ stamp' \in [Lookups -> 0..identity]
           /\ \A l \in Lookups :
                (lookup'[l] = lookup[l] /\ stamp'[l] = stamp[l]) \/ lookup'[l] = "reading"
           /\ entry' = entry \/ lookup'[entry'] = "reading"
<1>1. <<c, k>> \in Lookups
  BY DEF Lookups
<1>2. CASE entry # None
  BY <1>2 DEF Get, TypeOK, cacheVars
<1>3. CASE entry = None
  <2>1. /\ using' = [using EXCEPT ![c] = <<c, k>>] /\ entry' = <<c, k>> /\ seen' = seen
        /\ lookup' = [lookup EXCEPT ![<<c, k>>] = "reading"]
        /\ stamp' = [stamp EXCEPT ![<<c, k>>] = identity]
    BY <1>3 DEF Get
  <2>2. identity \in 0..identity
    BY DEF TypeOK
  <2> HIDE DEF Lookups
  <2> QED BY <1>1, <2>1, <2>2 DEF TypeOK
<1> QED BY <1>2, <1>3

LEMMA InitInv == Init => IInv
BY NoneAssumption DEF Init, IInv, TypeOK, Landed, RowsRead, RowKept, SessionsRead, Waits, WaitsFor, HasRead, Memo

\* The types of the memos: each action of the writers, `row` and `authenticate`.
LEMMA TypeStep == ASSUME IInv, [Next]_vars PROVE TypeOK'
<1> USE DEF IInv
<1> HIDE DEF Lookups
<1>a. identity \in Nat /\ 0..identity \subseteq 0..(identity + 1) /\ identity + 1 \in Nat
      /\ identity \in 0..identity
  BY DEF TypeOK
<1>1. ASSUME NEW w \in Writers, Send(w) \/ Land(w) PROVE TypeOK'
  BY <1>1 DEF Send, Land, TypeOK, Memo, rowVars, cacheVars, authVars
<1>2. ASSUME NEW w \in Writers, Answer(w) \/ Fail(w) PROVE TypeOK'
  <2>1. writer' \in [Writers -> {"idle", "sent", "landed", "lost", "ended"}]
    BY <1>2 DEF Answer, Fail, TypeOK
  <2>2. /\ identity' = identity + 1 /\ db' = db /\ fresh' = fresh
        /\ UNCHANGED <<rowVars, cacheVars, authVars, floor>>
    BY <1>2 DEF Answer, Fail, Counted
  <2>3. acked \subseteq acked' /\ acked' \subseteq db
    BY <1>2 DEF Answer, Fail, TypeOK, Landed
  <2> QED BY <2>1, <2>2, <2>3, <1>a DEF TypeOK, Memo, rowVars, cacheVars, authVars
<1>3. ASSUME NEW r \in Readers, RowCall(r) PROVE TypeOK'
  BY <1>3, <1>a DEF RowCall, TypeOK, Memo, writes, cacheVars, authVars
<1>4. ASSUME NEW r \in Readers, RowReads(r) \/ RowKeeps(r) \/ RowPasses(r) PROVE TypeOK'
  BY <1>4 DEF RowReads, RowKeeps, RowPasses, TypeOK, Memo, writes, cacheVars, authVars
<1>5. ASSUME NEW c \in Calls, AuthCall(c) \/ AuthAgain(c) PROVE TypeOK'
  <2>1. PICK k \in {1, 2} : Get(c, k)
    BY <1>5 DEF AuthCall, AuthAgain
  <2> QED BY <1>5, <2>1, GetEntry DEF AuthCall, AuthAgain, TypeOK, Memo, writes, rowVars
<1>6. ASSUME NEW c \in Calls, AuthFirst(c) \/ AuthSecond(c) \/ AuthRefused(c) PROVE TypeOK'
  BY <1>6 DEF AuthFirst, AuthSecond, AuthRefused, TypeOK, Memo, writes, rowVars, cacheVars
<1>7. ASSUME NEW l \in Lookups, LookupReads(l) \/ LookupEnds(l) PROVE TypeOK'
  BY <1>7 DEF LookupReads, LookupEnds, TypeOK, Memo, writes, rowVars, authVars
<1>8. ASSUME NEW l \in Lookups, LookupTouches(l) PROVE TypeOK'
  BY <1>8, <1>a DEF LookupTouches, Counted, TypeOK, Memo, writes, rowVars, authVars
<1>9. CASE RowExpires \/ Forget \/ UNCHANGED vars
  BY <1>9 DEF RowExpires, Forget, TypeOK, Memo, writes, rowVars, cacheVars, authVars, vars
<1> QED BY <1>1, <1>2, <1>3, <1>4, <1>5, <1>6, <1>7, <1>8, <1>9 DEF Next

\* What the readers hold and keep.
LEMMA RowStep == ASSUME IInv, [Next]_vars PROVE RowsRead' /\ RowKept'
<1> USE DEF IInv
<1> HIDE DEF Lookups
<1>a. /\ identity \in Nat /\ acked \subseteq db
      /\ \A r \in Readers : rowStamp[r] \in 0..identity /\ floor[r] \subseteq acked
      /\ held # None => held.stamp \in 0..identity
  BY DEF TypeOK, Memo
<1>1. ASSUME NEW w \in Writers, Send(w) \/ Land(w) PROVE RowsRead' /\ RowKept'
  BY <1>1 DEF Send, Land, RowsRead, RowKept, rowVars
<1>2. ASSUME UNCHANGED rowVars, UNCHANGED floor, identity' = identity + 1
      PROVE  RowsRead' /\ RowKept'
  <2>1. \A r \in Readers : rowStamp[r] # identity + 1
    BY <1>a
  <2>2. held # None => held.stamp # identity + 1
    BY <1>a
  <2> QED BY <1>2, <2>1, <2>2 DEF RowsRead, RowKept, rowVars
<1>3. ASSUME NEW r \in Readers, RowCall(r) PROVE RowsRead' /\ RowKept'
  <2>1. \A q \in Readers : q # r => row'[q] = row[q] /\ rowStamp'[q] = rowStamp[q]
                                      /\ rowSeen'[q] = rowSeen[q] /\ floor'[q] = floor[q]
    BY <1>3 DEF RowCall, TypeOK
  <2>2. row'[r] \in {"read", "done"} => row'[r] = "done" /\ floor'[r] \subseteq rowSeen'[r]
    BY <1>3 DEF RowCall, TypeOK, RowKept
  <2>3. (held' = held \/ held' = None) /\ identity' = identity /\ acked' = acked
    BY <1>3 DEF RowCall, writes
  <2> QED BY <2>1, <2>2, <2>3 DEF RowsRead, RowKept
<1>4. ASSUME NEW r \in Readers, RowReads(r) \/ RowKeeps(r) \/ RowPasses(r)
      PROVE RowsRead' /\ RowKept'
  <2>1. \A q \in Readers : q # r => row'[q] = row[q] /\ rowStamp'[q] = rowStamp[q]
                                      /\ rowSeen'[q] = rowSeen[q]
    BY <1>4 DEF RowReads, RowKeeps, RowPasses, TypeOK
  <2>2. floor' = floor /\ identity' = identity /\ acked' = acked /\ rowStamp' = rowStamp
    BY <1>4 DEF RowReads, RowKeeps, RowPasses, writes
  <2>3. CASE RowReads(r)
    <3>1. rowSeen'[r] = db /\ held' = held
      BY <2>3 DEF RowReads, TypeOK
    <3> QED BY <2>1, <2>2, <3>1, <1>a DEF RowsRead, RowKept
  <2>4. CASE RowKeeps(r)
    <3>1. /\ row[r] = "read" /\ row'[r] = "done" /\ rowSeen' = rowSeen
          /\ held'.stamp = rowStamp[r] /\ held'.seen = rowSeen[r]
      BY <2>4 DEF RowKeeps, TypeOK
    <3> QED BY <2>1, <2>2, <3>1 DEF RowsRead, RowKept
  <2>5. CASE RowPasses(r)
    <3>1. /\ rowSeen' = rowSeen /\ held' = held
          /\ (row[r] = "read" /\ row'[r] = "done") \/ row'[r] = "failed"
      BY <2>5 DEF RowPasses, TypeOK
    <3> QED BY <2>1, <2>2, <3>1 DEF RowsRead, RowKept
  <2> QED BY <1>4, <2>3, <2>4, <2>5
<1>5. ASSUME NEW c \in Calls, AuthCall(c) PROVE RowsRead' /\ RowKept'
  <2>1. \A r \in Readers : floor'[r] = floor[r]
    BY <1>5, CallersAssumption DEF AuthCall, TypeOK
  <2> QED BY <1>5, <2>1 DEF AuthCall, RowsRead, RowKept, writes, rowVars
<1>6. ASSUME UNCHANGED rowVars, UNCHANGED floor, UNCHANGED <<identity, acked>>
      PROVE  RowsRead' /\ RowKept'
  BY <1>6 DEF RowsRead, RowKept, rowVars
<1>7. ASSUME NEW c \in Calls, AuthFirst(c) \/ AuthAgain(c) \/ AuthSecond(c) \/ AuthRefused(c)
      PROVE RowsRead' /\ RowKept'
  BY <1>6, <1>7 DEF AuthFirst, AuthAgain, AuthSecond, AuthRefused, writes
<1>8. ASSUME NEW l \in Lookups, LookupReads(l) \/ LookupEnds(l) PROVE RowsRead' /\ RowKept'
  BY <1>6, <1>8 DEF LookupReads, LookupEnds, writes
<1>9. ASSUME NEW l \in Lookups, LookupTouches(l) PROVE RowsRead' /\ RowKept'
  BY <1>2, <1>9 DEF LookupTouches, Counted
<1>10. CASE RowExpires
  BY <1>10 DEF RowExpires, RowsRead, RowKept, writes
<1>11. CASE Forget \/ UNCHANGED vars
  BY <1>6, <1>11 DEF Forget, vars, writes, rowVars
<1>12. ASSUME NEW w \in Writers, Answer(w) \/ Fail(w) PROVE RowsRead' /\ RowKept'
  BY <1>2, <1>12 DEF Answer, Fail, Counted
<1> QED
  BY <1>1, <1>3, <1>4, <1>5, <1>7, <1>8, <1>9, <1>10, <1>11, <1>12 DEF Next

LEMMA LandedStep == ASSUME IInv, [Next]_vars PROVE Landed'
<1> USE DEF IInv
<1>1. ASSUME NEW w \in Writers, Send(w) \/ Land(w) \/ Answer(w) \/ Fail(w) PROVE Landed'
  BY <1>1 DEF Send, Land, Answer, Fail, TypeOK, Landed
<1>2. ASSUME UNCHANGED writes PROVE Landed'
  BY <1>2 DEF Landed, writes
<1>3. (\E w \in Writers : Send(w) \/ Land(w) \/ Answer(w) \/ Fail(w)) \/ UNCHANGED writes
  BY DEF Next, RowCall, RowReads, RowKeeps, RowPasses, AuthCall, AuthFirst, AuthAgain, AuthSecond,
     AuthRefused, LookupReads, LookupTouches, LookupEnds, RowExpires, Forget, vars, writes
<1> QED BY <1>1, <1>2, <1>3

\* The lookups and the calls that wait for them.
LEMMA SessionStep == ASSUME IInv, [Next]_vars PROVE SessionsRead' /\ Waits'
<1> USE DEF IInv
<1> HIDE DEF Lookups
<1>a. /\ identity \in Nat /\ acked \subseteq db
      /\ \A l \in Lookups : stamp[l] \in 0..identity
      /\ \A c \in Calls : floor[c] \subseteq acked
  BY DEF TypeOK
<1>1. ASSUME UNCHANGED cacheVars, UNCHANGED authVars, \A c \in Calls : floor'[c] = floor[c],
             UNCHANGED <<identity, acked>>
      PROVE  SessionsRead' /\ Waits'
  BY <1>1 DEF SessionsRead, Waits, WaitsFor, HasRead, cacheVars, authVars
<1>2. ASSUME UNCHANGED cacheVars, UNCHANGED authVars, UNCHANGED floor, identity' = identity + 1
      PROVE  SessionsRead' /\ Waits'
  <2>1. \A l \in Lookups : stamp[l] # identity + 1
    BY <1>a
  <2> QED BY <1>2, <2>1 DEF SessionsRead, Waits, WaitsFor, HasRead, cacheVars, authVars
<1>3. ASSUME NEW w \in Writers, Send(w) \/ Land(w) PROVE SessionsRead' /\ Waits'
  BY <1>1, <1>3 DEF Send, Land
<1>4. ASSUME NEW w \in Writers, Answer(w) \/ Fail(w) PROVE SessionsRead' /\ Waits'
  BY <1>2, <1>4 DEF Answer, Fail, Counted
<1>5. ASSUME NEW r \in Readers, RowCall(r) PROVE SessionsRead' /\ Waits'
  <2>1. \A c \in Calls : floor'[c] = floor[c]
    BY <1>5, CallersAssumption DEF RowCall, TypeOK
  <2> QED BY <1>1, <1>5, <2>1 DEF RowCall, writes
<1>6. ASSUME NEW r \in Readers, RowReads(r) \/ RowKeeps(r) \/ RowPasses(r)
      PROVE SessionsRead' /\ Waits'
  BY <1>1, <1>6 DEF RowReads, RowKeeps, RowPasses, writes
<1>7. ASSUME NEW c \in Calls, NEW k \in {1, 2}, Get(c, k), UNCHANGED <<identity, acked>>,
             \A d \in Calls : d # c => auth'[d] = auth[d] /\ floor'[d] = floor[d],
             \/ auth'[c] = "first"
             \/ auth[c] = "again" /\ auth'[c] = "second" /\ floor'[c] = floor[c]
      PROVE  SessionsRead' /\ Waits'
  <2>1. /\ entry' \in Lookups /\ using'[c] = entry' /\ seen' = seen
        /\ \A d \in Calls : d # c => using'[d] = using[d]
        /\ \A l \in Lookups :
             (lookup'[l] = lookup[l] /\ stamp'[l] = stamp[l]) \/ lookup'[l] = "reading"
        /\ entry' = entry \/ lookup'[entry'] = "reading"
    BY <1>7, GetEntry DEF TypeOK
  <2>2. SessionsRead'
    BY <1>7, <2>1 DEF SessionsRead, HasRead
  <2>3. ASSUME NEW d \in Calls, d # c PROVE WaitsFor(d)'
    BY <1>7, <2>1, <2>3, NoneAssumption DEF Waits, WaitsFor, HasRead
  <2>4. WaitsFor(c)'
    BY <1>7, <2>1, NoneAssumption DEF Waits, WaitsFor, HasRead
  <2> QED BY <2>2, <2>3, <2>4 DEF Waits
<1>8. ASSUME NEW c \in Calls, AuthCall(c) \/ AuthAgain(c) PROVE SessionsRead' /\ Waits'
  <2>1. PICK k \in {1, 2} : Get(c, k)
    BY <1>8 DEF AuthCall, AuthAgain
  <2>2. UNCHANGED <<identity, acked>>
    BY <1>8 DEF AuthCall, AuthAgain, writes
  <2>3. \A d \in Calls : d # c => auth'[d] = auth[d] /\ floor'[d] = floor[d]
    BY <1>8 DEF AuthCall, AuthAgain, TypeOK
  <2>4. \/ auth'[c] = "first"
        \/ auth[c] = "again" /\ auth'[c] = "second" /\ floor'[c] = floor[c]
    BY <1>8 DEF AuthCall, AuthAgain, TypeOK
  <2> QED BY <1>7, <2>1, <2>2, <2>3, <2>4
<1>9. ASSUME NEW c \in Calls, AuthFirst(c) \/ AuthSecond(c) \/ AuthRefused(c)
      PROVE SessionsRead' /\ Waits'
  <2>1. /\ UNCHANGED <<identity, acked, lookup, stamp, seen, using, floor>>
        /\ entry' = entry \/ entry' = None
        /\ \A d \in Calls : d # c => auth'[d] = auth[d]
    BY <1>9 DEF AuthFirst, AuthSecond, AuthRefused, TypeOK, writes, cacheVars
  <2>2. \/ auth[c] = "first" /\ HasRead(using[c]) /\ stamp[using[c]] = identity /\ auth'[c] = "done"
        \/ auth[c] = "first" /\ auth'[c] = "again" /\ entry' = None
        \/ auth[c] = "second" /\ HasRead(using[c]) /\ auth'[c] = "done"
        \/ auth[c] # "idle" /\ auth'[c] = "refused"
    BY <1>9 DEF AuthFirst, AuthSecond, AuthRefused, TypeOK, HasRead
  <2>3. SessionsRead'
    BY <2>1 DEF SessionsRead, HasRead
  <2>4. ASSUME NEW d \in Calls, d # c PROVE WaitsFor(d)'
    BY <2>1, <2>4 DEF Waits, WaitsFor, HasRead
  <2>5. WaitsFor(c)'
    BY <2>1, <2>2, <1>a DEF Waits, WaitsFor, SessionsRead, HasRead
  <2> QED BY <2>3, <2>4, <2>5 DEF Waits
<1>10. ASSUME NEW l \in Lookups, LookupReads(l) PROVE SessionsRead' /\ Waits'
  <2>1. /\ UNCHANGED <<identity, acked, stamp, entry, auth, using, floor>>
        /\ seen'[l] = db
        /\ \A k \in Lookups : k # l => lookup'[k] = lookup[k] /\ seen'[k] = seen[k]
    BY <1>10 DEF LookupReads, TypeOK, writes, authVars
  <2>2. \A c \in Calls : floor[c] \subseteq seen'[l]
    BY <2>1, <1>a
  <2>3. SessionsRead'
    BY <2>1, <1>a DEF SessionsRead, HasRead
  <2>4. entry = None \/ entry \in Lookups
    BY DEF TypeOK
  <2>5. ASSUME NEW c \in Calls PROVE WaitsFor(c)'
    BY <2>1, <2>2, <2>4 DEF Waits, WaitsFor, HasRead
  <2> QED BY <2>3, <2>5 DEF Waits
<1>11. ASSUME NEW l \in Lookups, LookupTouches(l) \/ LookupEnds(l)
       PROVE SessionsRead' /\ Waits'
  <2>1. /\ UNCHANGED <<acked, stamp, seen, entry, auth, using, floor>>
        /\ identity' = identity \/ identity' = identity + 1
        /\ \A k \in Lookups : HasRead(k)' => HasRead(k)
    BY <1>11 DEF LookupTouches, LookupEnds, Counted, TypeOK, HasRead, writes, authVars
  <2>2. SessionsRead'
    BY <2>1, <1>a DEF SessionsRead
  <2>3. entry = None \/ entry \in Lookups
    BY DEF TypeOK
  <2>4. ASSUME NEW c \in Calls PROVE WaitsFor(c)'
    BY <2>1, <2>3 DEF Waits, WaitsFor, HasRead
  <2> QED BY <2>2, <2>4 DEF Waits
<1>12. CASE RowExpires \/ UNCHANGED vars
  BY <1>1, <1>12 DEF RowExpires, vars, writes, cacheVars, authVars
<1>13. CASE Forget
  BY <1>13 DEF Forget, SessionsRead, Waits, WaitsFor, HasRead, writes, authVars
<1> QED
  BY <1>3, <1>4, <1>5, <1>6, <1>8, <1>9, <1>10, <1>11, <1>12, <1>13 DEF Next

LEMMA Invariance == Spec => []IInv
<1>1. IInv /\ [Next]_vars => IInv'
  BY TypeStep, LandedStep, RowStep, SessionStep DEF IInv
<1> QED BY InitInv, <1>1, PTL DEF Spec

\* The memos of actor.ts and session.ts keep their types, and no stamp is ahead.
THEOREM TypeCorrect == Spec => []TypeOK
BY Invariance, PTL DEF IInv

\* What `row` or the session cache would answer now has seen every write that
\* was answered.
THEOREM MemosAreCurrent == Spec => []KeptIsCurrent
<1>1. IInv => KeptIsCurrent
  BY DEF IInv, TypeOK, RowKept, SessionsRead, KeptIsCurrent
<1> QED BY Invariance, <1>1, PTL

\* Every request sees the identity writes that were answered before it began.
THEOREM RequestsSeeFinishedWrites == Spec => []AnswersAreFresh
<1>1. IInv => AnswersAreFresh
  BY DEF IInv, RowsRead, Waits, WaitsFor, AnswersAreFresh
<1> QED BY Invariance, <1>1, PTL
=============================================================================
