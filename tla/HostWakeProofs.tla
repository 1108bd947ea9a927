--------------------------- MODULE HostWakeProofs ---------------------------
(***************************************************************************)
(* The safety of HostWake for any set of runs, any clock and any number of *)
(* failed wakes.                                                           *)
(*                                                                         *)
(* QueuedIsCovered is not inductive.  Boot settles `due` and not what a    *)
(* wake has read: Unbooted says that no wake begins before boot, since     *)
(* nothing has told the host of any.  And a commit may announce after the  *)
(* wake has read its run: ReadCovers says that what the wake read covers   *)
(* it already.                                                             *)
(***************************************************************************)
EXTENDS HostWake, WellFoundedInduction, TLAPS

USE TimeAssumption, NoneAssumption

Unbooted == ~booted => due = None /\ tick = "none" /\ untold = {}

ReadCovers == tick = "settling" => \A r \in Queued \ missed : Covers(next, dueAt[r])

IInv == TypeOK /\ SleepsUntilDue /\ QueuedIsCovered /\ Unbooted /\ ReadCovers

-----------------------------------------------------------------------------
\* A nonempty set of naturals has a least element.
LEMMA HasLeast ==
    ASSUME NEW T, T \subseteq Nat, T # {}
    PROVE  \E t \in T : \A u \in T : t <= u
<1>1. PICK t \in T : \A u \in T : ~ (<<u, t>> \in OpToRel(<, Nat))
  BY NatLessThanWellFounded, WFMin
<1>2. ASSUME NEW u \in T PROVE t <= u
  <2>1. u < t => <<u, t>> \in OpToRel(<, Nat)
    BY DEF OpToRel
  <2>2. ~ (u < t)
    BY <1>1, <2>1
  <2> QED BY <2>2
<1> QED BY <1>2

\* SELECT min(due_at): an instant no later than any queued run's.
LEMMA NextDueIsLeast ==
    ASSUME TypeOK
    PROVE  /\ NextDue \in AtOrNone
           /\ NextDue = None <=> Queued = {}
           /\ \A r \in Queued : Covers(NextDue, dueAt[r])
<1>1. CASE Queued = {}
  BY <1>1 DEF NextDue, AtOrNone
<1>2. CASE Queued # {}
  <2> DEFINE T == {dueAt[r] : r \in Queued}
  <2>1. T \subseteq At /\ T \subseteq Nat /\ T # {}
    BY <1>2 DEF Queued, TypeOK, At
  <2>2. \E t \in T : \A u \in T : t <= u
    BY <2>1, HasLeast
  <2>3. \E t \in T : \A r \in Queued : t <= dueAt[r]
    BY <2>2
  <2>4. /\ NextDue \in T
        /\ \A r \in Queued : NextDue <= dueAt[r]
    BY <1>2, <2>3 DEF NextDue
  <2>5. NextDue # None
    BY <2>1, <2>4
  <2> QED BY <1>2, <2>1, <2>4, <2>5 DEF AtOrNone, Covers
<1> QED BY <1>1, <1>2

\* The earlier of an instant, if there is one, and another.
LEMMA EarlierIsEarlier ==
    ASSUME NEW a \in AtOrNone, NEW b \in At
    PROVE  /\ Earlier(a, b) \in At
           /\ Earlier(a, b) <= b
           /\ a # None => Earlier(a, b) <= a
BY DEF Earlier, AtOrNone, At

\* What is covered stays so when the instant gets earlier.
LEMMA CoversEarlier ==
    ASSUME NEW a \in AtOrNone, NEW b \in At, NEW t \in At, Covers(a, t) \/ Covers(b, t)
    PROVE  Covers(Earlier(a, b), t)
BY DEF Earlier, AtOrNone, At, Covers

\* `announce` leaves `due` no later than it was and than the instant announced.
LEMMA AnnouncedCovers ==
    ASSUME TypeOK, NEW at \in At, Announced(at)
    PROVE  /\ due' \in AtOrNone /\ nudge' \in BOOLEAN
           /\ (due' = due /\ nudge' = nudge) \/ nudge' = TRUE
           /\ \A t \in At : Covers(due, t) \/ Covers(at, t) => Covers(due', t)
<1>1. CASE due # None /\ due <= at
  <2>1. due' = due /\ nudge' = nudge
    BY <1>1 DEF Announced
  <2>2. due \in At /\ \A t \in At : at <= t => due <= t
    BY <1>1 DEF TypeOK, AtOrNone, At
  <2> QED BY <1>1, <2>1, <2>2 DEF TypeOK, Covers
<1>2. CASE ~(due # None /\ due <= at)
  <2>1. due' = at /\ nudge' = TRUE
    BY <1>2 DEF Announced
  <2>2. at # None /\ \A t \in At : due # None /\ due <= t => at <= t
    BY <1>2 DEF TypeOK, AtOrNone, At
  <2> QED BY <2>1, <2>2 DEF AtOrNone, Covers
<1> QED BY <1>1, <1>2

LEMMA InitInv == Init => IInv
<1> SUFFICES ASSUME Init PROVE IInv
  OBVIOUS
<1>1. TypeOK
  <2>1. 0 \in At /\ None \in AtOrNone /\ 0 \in 0..MaxFails
    BY DEF At, AtOrNone
  <2>2. row \in [Runs -> {"absent", "queued", "running", "ended", "left"}]
    BY DEF Init
  <2> QED BY <2>1, <2>2 DEF Init, TypeOK
<1> QED BY <1>1 DEF Init, IInv, SleepsUntilDue, QueuedIsCovered, Unbooted, ReadCovers

-----------------------------------------------------------------------------
(* The type invariant.                                                     *)

LEMMA TypeStep == ASSUME IInv, [Next]_vars PROVE TypeOK'
<1> USE DEF IInv
<1>1. CASE Read
  BY <1>1 DEF Read, TypeOK, AtOrNone
<1>2. CASE Rouse
  BY <1>2 DEF Rouse, TypeOK, AtOrNone
<1>3. CASE Return
  BY <1>3 DEF Return, TypeOK
<1>4. CASE ParkedWake
  <2>1. (IF now + ParkDelay < MaxTime THEN now + ParkDelay ELSE MaxTime) \in At
    BY DEF TypeOK, At
  <2> QED BY <1>4, <2>1 DEF ParkedWake, TickEnds, SettledWith, TypeOK, AtOrNone
<1>5. CASE Claim
  BY <1>5 DEF Claim, Claims, TypeOK
<1>6. CASE LaneClaims
  BY <1>6 DEF LaneClaims, Claims, TypeOK
<1>7. CASE NudgeFires
  BY <1>7 DEF NudgeFires, Claims, TypeOK, AtOrNone
<1>8. CASE Select
  <2>1. (IF NextDue = None THEN dues ELSE Earlier(dues, NextDue)) \in AtOrNone
    BY NextDueIsLeast DEF TypeOK, Earlier, AtOrNone
  <2> QED BY <1>8, <2>1 DEF Select, TypeOK
<1>9. CASE Settle
  BY <1>9 DEF Settle, TickEnds, SettledWith, TypeOK, AtOrNone
<1>10. CASE Fail
  BY <1>10 DEF Fail, TickEnds, TypeOK, AtOrNone
<1>11. CASE Boot
  <2>1. Earlier(NextDue, now) \in At
    BY NextDueIsLeast, EarlierIsEarlier DEF TypeOK
  <2>2. due' \in AtOrNone /\ nudge' \in BOOLEAN
    BY <1>11, <2>1, NextDueIsLeast DEF Boot, SettledWith, AtOrNone
  <2> QED BY <1>11, <2>2 DEF Boot, TypeOK
<1>12. CASE Park
  BY <1>12 DEF Park, TypeOK
<1>13. CASE Teardown
  BY <1>13 DEF Teardown, TypeOK, AtOrNone
<1>14. CASE Tick
  BY <1>14 DEF Tick, TypeOK, At
<1>15. ASSUME NEW r \in Runs, RunEnds(r) PROVE TypeOK'
  <2>1. CASE row' = [row EXCEPT ![r] = "ended"] /\ UNCHANGED <<dueAt, dues>>
    BY <1>15, <2>1 DEF RunEnds, TypeOK
  <2>2. ASSUME NEW at \in now..MaxTime, row' = [row EXCEPT ![r] = "queued"],
               dueAt' = [dueAt EXCEPT ![r] = at], dues' = Earlier(dues, at)
        PROVE  TypeOK'
    <3>1. at \in At
      BY DEF TypeOK, At
    <3>2. dues' \in AtOrNone
      BY <2>2, <3>1, EarlierIsEarlier DEF TypeOK, AtOrNone
    <3> QED BY <1>15, <2>2, <3>1, <3>2 DEF RunEnds, TypeOK
  <2> QED BY <1>15, <2>1, <2>2 DEF RunEnds
<1>16. ASSUME NEW r \in Runs, Commit(r) PROVE TypeOK'
  <2>1. PICK at \in now..MaxTime : dueAt' = [dueAt EXCEPT ![r] = at]
    BY <1>16 DEF Commit
  <2>2. at \in At
    BY DEF TypeOK, At
  <2> QED BY <1>16, <2>1, <2>2 DEF Commit, TypeOK
<1>17. ASSUME NEW r \in Runs, Announce(r) PROVE TypeOK'
  <2>1. dueAt[r] \in At
    BY DEF TypeOK
  <2>2. due' \in AtOrNone /\ nudge' \in BOOLEAN
    BY <1>17, <2>1, AnnouncedCovers DEF Announce
  <2>3. armed' \in AtOrNone
    BY <1>17, <2>1, EarlierIsEarlier DEF Announce, TypeOK, AtOrNone
  <2> QED BY <1>17, <2>2, <2>3 DEF Announce, TypeOK
<1>18. CASE UNCHANGED vars
  BY <1>18 DEF vars, TypeOK
<1> QED BY <1>1, <1>2, <1>3, <1>4, <1>5, <1>6, <1>7, <1>8, <1>9, <1>10, <1>11, <1>12, <1>13,
           <1>14, <1>15, <1>16, <1>17, <1>18 DEF Next

-----------------------------------------------------------------------------
(* The sleep of the fiber.                                                 *)

LEMMA SleepStep == ASSUME IInv, [Next]_vars PROVE SleepsUntilDue'
<1> USE DEF IInv, SleepsUntilDue
<1>1. ASSUME NEW r \in Runs, Announce(r) PROVE SleepsUntilDue'
  <2>1. dueAt[r] \in At
    BY DEF TypeOK
  <2>2. (due' = due /\ nudge' = nudge) \/ nudge' = TRUE
    BY <1>1, <2>1, AnnouncedCovers DEF Announce
  <2> QED BY <1>1, <2>2 DEF Announce
<1>2. CASE Read \/ Rouse \/ Return
  BY <1>2 DEF Read, Rouse, Return
<1>3. CASE ParkedWake \/ Settle \/ Boot
  BY <1>3 DEF ParkedWake, Settle, Boot, SettledWith
<1>4. CASE Claim \/ LaneClaims \/ NudgeFires \/ Select \/ Fail
  BY <1>4 DEF Claim, LaneClaims, NudgeFires, Select, Fail
<1>5. CASE Park \/ Teardown \/ Tick
  BY <1>5 DEF Park, Teardown, Tick
<1>6. ASSUME NEW r \in Runs, RunEnds(r) \/ Commit(r) PROVE SleepsUntilDue'
  BY <1>6 DEF RunEnds, Commit
<1>7. CASE UNCHANGED vars
  BY <1>7 DEF vars
<1> QED BY <1>1, <1>2, <1>3, <1>4, <1>5, <1>6, <1>7 DEF Next

LEMMA UnbootedStep == ASSUME IInv, [Next]_vars PROVE Unbooted'
<1> USE DEF IInv, Unbooted
<1>1. CASE Read \/ Rouse \/ Return
  BY <1>1 DEF Read, Rouse, Return
<1>2. CASE ParkedWake \/ Claim \/ LaneClaims \/ NudgeFires \/ Select \/ Settle \/ Fail
  BY <1>2 DEF ParkedWake, Claim, LaneClaims, NudgeFires, Select, Settle, Fail
<1>3. CASE Boot \/ Park \/ Teardown \/ Tick
  BY <1>3 DEF Boot, Park, Teardown, Tick
<1>4. ASSUME NEW r \in Runs, RunEnds(r) \/ Commit(r) \/ Announce(r) PROVE Unbooted'
  BY <1>4 DEF RunEnds, Commit, Announce
<1>5. CASE UNCHANGED vars
  BY <1>5 DEF vars
<1> QED BY <1>1, <1>2, <1>3, <1>4, <1>5 DEF Next

-----------------------------------------------------------------------------
(* The coverage of the queue.                                              *)

LEMMA ReadStep == ASSUME IInv, [Next]_vars PROVE ReadCovers'
<1> SUFFICES ASSUME tick' = "settling", NEW q \in Queued' \ missed'
             PROVE  Covers(next', dueAt'[q])
  BY DEF ReadCovers
<1> q \in Runs /\ row'[q] = "queued"
  BY DEF Queued
<1> USE DEF IInv
<1>0. ASSUME tick = "settling", row[q] = "queued", q \notin missed
      PROVE  Covers(next, dueAt[q])
  BY <1>0 DEF ReadCovers, Queued
<1>1. CASE Read \/ Rouse \/ Return
  BY <1>1, <1>0 DEF Read, Rouse, Return
<1>2. CASE ParkedWake \/ Claim \/ LaneClaims \/ Settle \/ Fail
  BY <1>2 DEF ParkedWake, Claim, LaneClaims, Settle, Fail, TickEnds
<1>3. CASE NudgeFires
  <2>1. row[q] = "queued"
    BY <1>3 DEF NudgeFires, Claims
  <2> QED BY <1>3, <2>1, <1>0 DEF NudgeFires
<1>4. CASE Select
  <2>1. q \in Queued /\ dueAt[q] \in At
    BY <1>4 DEF Select, Queued, TypeOK
  <2>2. NextDue \in At /\ Covers(NextDue, dueAt[q])
    BY <2>1, NextDueIsLeast DEF AtOrNone, Covers
  <2>3. Covers(Earlier(dues, NextDue), dueAt[q])
    BY <2>1, <2>2, CoversEarlier DEF TypeOK
  <2>4. NextDue # None
    BY <2>2 DEF Covers
  <2> QED BY <1>4, <2>3, <2>4 DEF Select
<1>5. CASE Boot
  BY <1>5 DEF Boot, Unbooted
<1>6. CASE Park \/ Teardown \/ Tick
  BY <1>6, <1>0 DEF Park, Teardown, Tick
<1>7. ASSUME NEW r \in Runs, RunEnds(r) PROVE FALSE
  BY <1>7 DEF RunEnds
<1>8. ASSUME NEW r \in Runs, Commit(r) PROVE Covers(next', dueAt'[q])
  <2>1. q # r /\ q \notin missed
    BY <1>8 DEF Commit
  <2>2. row[q] = "queued" /\ dueAt'[q] = dueAt[q]
    BY <1>8, <2>1 DEF Commit, TypeOK
  <2> QED BY <1>8, <2>1, <2>2, <1>0 DEF Commit
<1>9. ASSUME NEW r \in Runs, Announce(r) PROVE Covers(next', dueAt'[q])
  BY <1>9, <1>0 DEF Announce
<1>10. CASE UNCHANGED vars
  BY <1>10, <1>0 DEF vars
<1> QED BY <1>1, <1>2, <1>3, <1>4, <1>5, <1>6, <1>7, <1>8, <1>9, <1>10 DEF Next

LEMMA CoverStep == ASSUME IInv, [Next]_vars PROVE QueuedIsCovered'
<1> SUFFICES ASSUME booted', ~parked', ~closed', fails' = 0,
                    NEW q \in Queued' \ (untold' \cup missed')
             PROVE  \/ tick' \in {"claiming", "working"}
                    \/ tick' = "settling" /\ Covers(next', dueAt'[q])
                    \/ tick' = "none" /\ Covers(due', dueAt'[q])
  BY DEF QueuedIsCovered
<1> q \in Runs /\ row'[q] = "queued"
  BY DEF Queued
<1> USE DEF IInv
<1> DEFINE Before == \/ tick \in {"claiming", "working"}
                     \/ tick = "settling" /\ Covers(next, dueAt[q])
                     \/ tick = "none" /\ Covers(due, dueAt[q])
<1>0. ASSUME booted, ~parked, ~closed, fails = 0, row[q] = "queued", q \notin untold,
             q \notin missed
      PROVE  Before
  BY <1>0 DEF QueuedIsCovered, Queued
<1>1. CASE Read
  BY <1>1, <1>0 DEF Read, Covers, TypeOK
<1>2. CASE Rouse \/ Return
  <2>1. UNCHANGED <<due, tick, next, row, dueAt, untold, booted, parked, closed, fails, missed>>
    BY <1>2 DEF Rouse, Return
  <2> QED BY <2>1, <1>0 DEF Covers
<1>3. CASE ParkedWake
  BY <1>3 DEF ParkedWake
<1>4. CASE Claim
  BY <1>4 DEF Claim
<1>5. CASE LaneClaims
  BY <1>5 DEF LaneClaims
<1>6. CASE NudgeFires
  <2>1. row[q] = "queued"
    BY <1>6 DEF NudgeFires, Claims
  <2> QED BY <1>6, <2>1, <1>0 DEF NudgeFires
<1>7. CASE Select
  <2>1. ReadCovers'
    BY ReadStep
  <2> QED BY <1>7, <2>1 DEF Select, ReadCovers
<1>8. CASE Settle
  <2>1. row[q] = "queued"
    BY <1>8 DEF Settle, TickEnds
  <2> QED BY <1>8, <2>1, <1>0 DEF Settle, SettledWith, TickEnds
<1>9. CASE Fail
  BY <1>9 DEF Fail, TypeOK
<1>10. CASE Boot
  <2>1. tick' = "none"
    BY <1>10 DEF Boot, Unbooted
  <2>2. NextDue \in AtOrNone /\ now \in At /\ dueAt[q] \in At
    BY NextDueIsLeast DEF TypeOK
  <2>3. CASE row[q] = "left"
    <3>1. dueAt'[q] = now /\ due' = Earlier(NextDue, now)
      BY <1>10, <2>3 DEF Boot, SettledWith
    <3>2. Covers(now, now)
      BY <2>2 DEF Covers, At
    <3> QED BY <2>1, <2>2, <3>1, <3>2, CoversEarlier
  <2>4. CASE row[q] # "left"
    <3>1. q \in Queued /\ dueAt'[q] = dueAt[q]
      BY <1>10, <2>4 DEF Boot, Queued
    <3>2. Covers(NextDue, dueAt[q])
      BY <3>1, NextDueIsLeast
    <3>3. Covers(Earlier(NextDue, now), dueAt[q])
      BY <2>2, <3>2, CoversEarlier
    <3> QED BY <1>10, <2>1, <3>1, <3>2, <3>3 DEF Boot, SettledWith
  <2> QED BY <2>3, <2>4
<1>11. CASE Park \/ Teardown \/ Tick
  <2>1. UNCHANGED <<due, tick, next, row, dueAt, untold, booted, parked, closed, fails, missed>>
    BY <1>11 DEF Park, Teardown, Tick
  <2> QED BY <2>1, <1>0 DEF Covers
<1>12. ASSUME NEW r \in Runs, RunEnds(r)
       PROVE  tick' \in {"claiming", "working"}
  BY <1>12 DEF RunEnds
<1>13. ASSUME NEW r \in Runs, Commit(r)
       PROVE  Before /\ dueAt'[q] = dueAt[q]
  <2>1. q # r
    BY <1>13 DEF Commit
  <2>2. row[q] = "queued" /\ dueAt'[q] = dueAt[q]
    BY <1>13, <2>1 DEF Commit, TypeOK
  <2>3. q \notin untold /\ q \notin missed
    BY <1>13, <2>1 DEF Commit
  <2> QED BY <1>13, <2>2, <2>3, <1>0 DEF Commit
<1>14. ASSUME NEW r \in Runs, Announce(r)
       PROVE  \/ tick' \in {"claiming", "working"}
              \/ tick' = "settling" /\ Covers(next', dueAt'[q])
              \/ tick' = "none" /\ Covers(due', dueAt'[q])
  <2>1. dueAt[r] \in At /\ dueAt[q] \in At /\ row[q] = "queued" /\ dueAt' = dueAt
    BY <1>14 DEF TypeOK, Announce
  <2>2. \A t \in At : Covers(due, t) \/ Covers(dueAt[r], t) => Covers(due', t)
    BY <1>14, <2>1, AnnouncedCovers DEF Announce
  <2>3. CASE tick = "none"
    <3>1. CASE q = r
      <4>1. Covers(dueAt[r], dueAt[r])
        BY <2>1 DEF Covers, At
      <4> QED BY <1>14, <2>1, <2>2, <2>3, <3>1, <4>1 DEF Announce
    <3>2. CASE q # r
      <4>1. q \notin untold /\ q \notin missed
        BY <1>14, <2>3, <3>2 DEF Announce
      <4>2. Before
        BY <1>14, <2>1, <4>1, <1>0 DEF Announce
      <4> QED BY <1>14, <2>1, <2>2, <2>3, <4>2 DEF Announce
    <3> QED BY <3>1, <3>2
  <2>4. CASE tick = "settling"
    <3>1. ReadCovers'
      BY ReadStep
    <3> QED BY <1>14, <2>4, <3>1 DEF Announce, ReadCovers
  <2> QED BY <1>14, <2>3, <2>4 DEF Announce, TypeOK
<1>15. CASE UNCHANGED vars
  BY <1>15, <1>0 DEF vars
<1> QED BY <1>1, <1>2, <1>3, <1>4, <1>5, <1>6, <1>7, <1>8, <1>9, <1>10, <1>11, <1>12, <1>13,
           <1>14, <1>15 DEF Next, Commit

LEMMA Inductive == IInv /\ [Next]_vars => IInv'
BY TypeStep, SleepStep, UnbootedStep, ReadStep, CoverStep DEF IInv

LEMMA Invariance == Spec => []IInv
BY InitInv, Inductive, PTL DEF Spec

-----------------------------------------------------------------------------
\* `due`, the sleep and the wake keep their types (node/host.ts, `tick`).
THEOREM TypeCorrect == Spec => []TypeOK
BY Invariance, PTL DEF IInv

\* The fiber never sleeps past a change of `due` it has not been told of: what
\* `announce` and `settle` offer to the queue of one suffices.
THEOREM NoRousingIsLost == Spec => []SleepsUntilDue
BY Invariance, PTL DEF IInv

\* Every announced run that a wake did not just miss has a wake ahead of it, for
\* any number of runs, commits, retries and wakes.
THEOREM QueueIsCovered == Spec => []QueuedIsCovered
BY Invariance, PTL DEF IInv
=============================================================================
