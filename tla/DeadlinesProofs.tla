-------------------------- MODULE DeadlinesProofs --------------------------
(***************************************************************************)
(* The safety of Deadlines for any set of scopes, any clock and any bound  *)
(* on pending callbacks.  The inductive invariant is the conjunction of    *)
(* the type invariant, Armed and LaneNeverIdle.                            *)
(***************************************************************************)
EXTENDS Deadlines, WellFoundedInduction, TLAPS

USE BoundsAssumption, NoneAssumption

IInv == TypeOK /\ Armed /\ LaneNeverIdle

-----------------------------------------------------------------------------
\* A nonempty set of naturals has a least element.
LEMMA HasLeast ==
    ASSUME NEW T, T \subseteq Nat, T # {}
    PROVE  \E t \in T : \A u \in T : t <= u
<1>1. PICK t \in T : \A u \in T : ~ (<<u, t>> \in OpToRel(<, Nat))
  BY NatLessThanWellFounded, WFMin
<1>2. ASSUME NEW u \in T PROVE t <= u
  <2>1. u < t => <<u, t>> \in OpToRel(<, Nat)
    BY DEF OpToRel
  <2>2. ~ (u < t)
    BY <1>1, <2>1
  <2> QED BY <2>2
<1> QED BY <1>2

\* The scan of `arm` answers None exactly when no scope waits, else an instant.
LEMMA EarliestType ==
    ASSUME NEW h \in [Keys -> AtOrNone], NEW a
    PROVE  Earliest(h, a) \in AtOrNone
<1>1. CASE Waiting(h, a) = {}
  BY <1>1 DEF Earliest, AtOrNone
<1>2. CASE Waiting(h, a) # {}
  <2> DEFINE T == {h[k] : k \in Waiting(h, a)}
  <2>1. T \subseteq At /\ T # {}
    BY <1>2 DEF Waiting, AtOrNone
  <2>2. T \subseteq Nat
    BY <2>1 DEF At
  <2>3. \E t \in T : \A u \in T : t <= u
    BY <2>1, <2>2, HasLeast
  <2>4. \E t \in T : \A k \in Waiting(h, a) : t <= h[k]
    BY <2>3
  <2>5. (CHOOSE t \in T : \A k \in Waiting(h, a) : t <= h[k]) \in T
    BY <2>4
  <2> QED BY <1>2, <2>1, <2>5 DEF Earliest, AtOrNone
<1> QED BY <1>1, <1>2

\* What `arm` leaves behind: a fiber asleep until the earliest instant.
LEMMA ArmArms ==
    ASSUME TypeOK, Armed, NEW h \in [Keys -> AtOrNone], NEW a, Arm(h, a, stopped)
    PROVE  /\ armedFor' \in AtOrNone /\ timer' \in AtOrNone
           /\ ~stopped => timer' = armedFor' /\ armedFor' = Earliest(h, a)
<1>1. Earliest(h, a) \in AtOrNone
  BY EarliestType
<1> QED BY <1>1 DEF Arm, TypeOK, Armed, AtOrNone

LEMMA InitInv == Init => IInv
<1> SUFFICES ASSUME Init PROVE IInv
  OBVIOUS
<1>1. TypeOK
  <2>1. 0 \in At /\ 0 \in 0..MaxCallbacks /\ None \in AtOrNone
    BY DEF At, AtOrNone
  <2> QED BY <2>1 DEF Init, TypeOK
<1>2. Waiting(held, active) = {}
  BY DEF Init, Waiting
<1>3. Armed
  BY <1>2 DEF Init, Armed, Earliest
<1>4. LaneNeverIdle
  BY DEF Init, LaneNeverIdle
<1> QED BY <1>1, <1>3, <1>4 DEF IInv

LEMMA EarlierType ==
    ASSUME NEW x \in AtOrNone, NEW y \in AtOrNone
    PROVE  Earlier(x, y) \in AtOrNone
BY DEF Earlier

\* Every step of the timer, the port and the callbacks keeps the invariant.
LEMMA NextInv == IInv /\ [Next]_vars => IInv'
<1> SUFFICES ASSUME IInv, [Next]_vars PROVE IInv'
  OBVIOUS
<1> USE DEF IInv
<1>1. CASE Tick
  BY <1>1 DEF Tick, TypeOK, Armed, LaneNeverIdle, At
<1>2. CASE TimerFires
  BY <1>2 DEF TimerFires, TypeOK, Armed, LaneNeverIdle, AtOrNone
<1>3. CASE OnDue
  <2>1. ASSUME NEW k \in Keys, k \in EarliestDue, Take(k), ~stopped
        PROVE  IInv'
    <3>1. held' \in [Keys -> AtOrNone] /\ active' \in [Keys -> {"idle", "live", "retired"}]
      BY <2>1 DEF Take, TypeOK, AtOrNone
    <3>2. armedFor' \in AtOrNone /\ timer' \in AtOrNone
                      /\ (~stopped => timer' = armedFor' /\ armedFor' = Earliest(held', active'))
      BY <2>1, <3>1, ArmArms DEF Take
    <3>3. TypeOK'
      BY <1>3, <2>1, <3>1, <3>2 DEF OnDue, Take, TypeOK
    <3>4. Armed'
      BY <1>3, <3>2 DEF OnDue, Armed
    <3>5. LaneNeverIdle'
      BY <2>1 DEF Take, LaneNeverIdle, TypeOK
    <3> QED BY <3>3, <3>4, <3>5
  <2>2. ASSUME Arm(held, active, stopped), UNCHANGED <<held, active, lane>>
        PROVE  IInv'
    <3>1. armedFor' \in AtOrNone /\ timer' \in AtOrNone
          /\ (~stopped => timer' = armedFor' /\ armedFor' = Earliest(held, active))
      BY <2>2, ArmArms DEF TypeOK
    <3>2. callbacks' \in 0..MaxCallbacks
      BY <1>3 DEF OnDue, TypeOK
    <3>3. TypeOK'
      BY <1>3, <2>2, <3>1, <3>2 DEF OnDue, TypeOK
    <3>4. Armed'
      BY <1>3, <2>2, <3>1 DEF OnDue, Armed, Earliest, Waiting
    <3>5. LaneNeverIdle'
      BY <2>2 DEF LaneNeverIdle
    <3> QED BY <3>3, <3>4, <3>5
  <2>3. EarliestDue \subseteq Keys
    BY DEF EarliestDue, Due, Waiting
  <2> QED BY <1>3, <2>1, <2>2, <2>3 DEF OnDue
<1>4. CASE Stop
  BY <1>4 DEF Stop, TypeOK, Armed, LaneNeverIdle, AtOrNone
<1>5. CASE Shutdown
  BY <1>5 DEF Shutdown, TypeOK, Armed, LaneNeverIdle, AtOrNone
<1>6. ASSUME NEW k \in Keys, Retire(k) PROVE IInv'
  <2>1. held' \in [Keys -> AtOrNone] /\ active' \in [Keys -> {"idle", "live", "retired"}]
    BY <1>6 DEF Retire, TypeOK, AtOrNone
  <2>2. armedFor' \in AtOrNone /\ timer' \in AtOrNone
        /\ (~stopped => timer' = armedFor' /\ armedFor' = Earliest(held', active'))
    BY <1>6, <2>1, ArmArms DEF Retire
  <2> QED BY <1>6, <2>1, <2>2 DEF Retire, TypeOK, Armed, LaneNeverIdle
<1>7. ASSUME NEW k \in Keys, BeginWake(k) \/ WakeDies(k) PROVE IInv'
  BY <1>7 DEF BeginWake, WakeDies, TypeOK, Armed, LaneNeverIdle, AtOrNone
<1>8. ASSUME NEW k \in Keys, NEW at \in AtOrNone, NEW merge \in BOOLEAN,
             Complete(k, at, merge), UNCHANGED <<now, callbacks, stopped>>
      PROVE  IInv'
  <2>1. held' \in [Keys -> AtOrNone] /\ active' \in [Keys -> {"idle", "live", "retired"}]
    <3>1. Earlier(at, held[k]) \in AtOrNone
      BY EarlierType DEF TypeOK
    <3> QED BY <1>8, <3>1 DEF Complete, TypeOK
  <2>2. armedFor' \in AtOrNone /\ timer' \in AtOrNone
        /\ (~stopped => timer' = armedFor' /\ armedFor' = Earliest(held', active'))
    BY <1>8, <2>1, ArmArms DEF Complete
  <2>3. TypeOK'
    BY <1>8, <2>1, <2>2 DEF Complete, TypeOK, AtOrNone
  <2>4. Armed'
    BY <1>8, <2>2 DEF Armed
  <2>5. LaneNeverIdle'
    BY <1>8 DEF Complete, LaneNeverIdle, TypeOK
  <2> QED BY <2>3, <2>4, <2>5
<1>9. ASSUME NEW k \in Keys, WakeSucceeds(k) PROVE IInv'
  <2>1. answers[k] \in AtOrNone
    BY DEF TypeOK
  <2> QED BY <1>8, <1>9, <2>1 DEF WakeSucceeds
<1>10. ASSUME NEW k \in Keys, WakeFails(k) PROVE IInv'
  <2>1. now + RetryDelay \in AtOrNone
    BY <1>10 DEF WakeFails, TypeOK, AtOrNone, At
  <2> QED BY <1>8, <1>10, <2>1 DEF WakeFails
<1>11. ASSUME NEW k \in Keys, NEW at \in AtOrNone, Settle(k, at) PROVE IInv'
  <2>1. CASE lane[k] \in {"waking", "dead"}
    BY <1>11, <2>1 DEF Settle, TypeOK, Armed, LaneNeverIdle
  <2>2. CASE lane[k] \notin {"waking", "dead"}
    <3>1. held' \in [Keys -> AtOrNone]
      BY <1>11, <2>2 DEF Settle, TypeOK
    <3>2. armedFor' \in AtOrNone /\ timer' \in AtOrNone
          /\ (~stopped => timer' = armedFor' /\ armedFor' = Earliest(held', active))
      BY <1>11, <2>2, <3>1, ArmArms DEF Settle
    <3> QED BY <1>11, <2>2, <3>1, <3>2 DEF Settle, TypeOK, Armed, LaneNeverIdle
  <2> QED BY <2>1, <2>2
<1>12. ASSUME NEW k \in Keys, NEW at \in At, Announce(k, at) \/ Restore(k, at) PROVE IInv'
  <2>1. held' \in [Keys -> AtOrNone]
    BY <1>12 DEF Announce, Restore, TypeOK, AtOrNone
  <2>2. Arm(held', active, stopped)
    BY <1>12 DEF Announce, Restore
  <2>3. armedFor' \in AtOrNone /\ timer' \in AtOrNone
        /\ (~stopped => timer' = armedFor' /\ armedFor' = Earliest(held', active))
    BY <2>1, <2>2, ArmArms
  <2> QED BY <1>12, <2>1, <2>3 DEF Announce, Restore, TypeOK, Armed, LaneNeverIdle
<1>13. CASE UNCHANGED vars
  BY <1>13 DEF vars, TypeOK, Armed, LaneNeverIdle
<1>14. None \in AtOrNone /\ At \subseteq AtOrNone
  BY DEF AtOrNone
<1> QED
  BY <1>1, <1>2, <1>3, <1>4, <1>5, <1>6, <1>7, <1>9, <1>10, <1>11, <1>12, <1>13, <1>14 DEF Next

\* The variables of the deadline state keep their types.
THEOREM TypeCorrect == Spec => []TypeOK
<1>1. IInv => TypeOK
  BY DEF IInv
<1> QED BY <1>1, InitInv, NextInv, PTL DEF Spec

\* `complete` always finds its lane, so it never throws.
THEOREM LanesNeverIdle == Spec => []LaneNeverIdle
<1>1. IInv => LaneNeverIdle
  BY DEF IInv
<1> QED BY <1>1, InitInv, NextInv, PTL DEF Spec

\* No wake-up is lost in `arm`, whatever the scopes and the calls on them.
THEOREM ArmedAlways == Spec => []Armed
<1>1. IInv => Armed
  BY DEF IInv
<1> QED BY <1>1, InitInv, NextInv, PTL DEF Spec

-----------------------------------------------------------------------------
\* Which steps close a scope's lane: the end of its wake, and no other.
LEMMA OnlyCompletionIdles ==
    ASSUME IInv, [Next]_vars, NEW k \in Keys, active[k] # "idle", active'[k] = "idle"
    PROVE  WakeSucceeds(k) \/ WakeFails(k)
<1>1. CASE OnDue
  <2>1. ASSUME NEW j \in Keys, Take(j) PROVE FALSE
    BY <2>1 DEF Take, IInv, TypeOK
  <2>2. EarliestDue \subseteq Keys
    BY DEF EarliestDue, Due, Waiting
  <2> QED BY <1>1, <2>1, <2>2 DEF OnDue
<1>2. CASE Tick \/ TimerFires \/ Stop \/ Shutdown \/ UNCHANGED vars
  BY <1>2 DEF Tick, TimerFires, Stop, Shutdown, vars
<1>3. ASSUME NEW j \in Keys,
             Retire(j) \/ BeginWake(j) \/ WakeDies(j) \/ Settle(j, None)
               \/ \E at \in At : Announce(j, at) \/ Settle(j, at) \/ Restore(j, at)
      PROVE  FALSE
  BY <1>3 DEF Retire, BeginWake, WakeDies, Settle, Announce, Restore, IInv, TypeOK
<1>4. ASSUME NEW j \in Keys, WakeSucceeds(j) \/ WakeFails(j) PROVE j = k
  BY <1>4 DEF WakeSucceeds, WakeFails, Complete, IInv, TypeOK
<1> QED BY <1>1, <1>2, <1>3, <1>4 DEF Next

\* An announcement that arrives during a wake outlives it, success or failure.
THEOREM AnnouncementsSurvive == Spec => AnnouncementSurvivesWake
<1> DEFINE Kept == \A k \in Keys :
        (active[k] = "live" /\ active'[k] = "idle" /\ ~stopped /\ held[k] # None)
            => held'[k] # None /\ (held'[k] <= held[k] \/ held'[k] <= now + RetryDelay)
<1>1. ASSUME IInv, [Next]_vars PROVE Kept
  <2> SUFFICES ASSUME NEW k \in Keys, active[k] = "live", active'[k] = "idle", ~stopped,
                      held[k] # None
               PROVE  held'[k] # None /\ (held'[k] <= held[k] \/ held'[k] <= now + RetryDelay)
    OBVIOUS
  <2>1. WakeSucceeds(k) \/ WakeFails(k)
    BY <1>1, OnlyCompletionIdles
  <2>2. held[k] \in Nat /\ answers[k] \in Nat \cup {None} /\ now \in Nat
    BY <1>1 DEF IInv, TypeOK, AtOrNone, At
  <2>3. CASE WakeSucceeds(k)
    <3>1. held'[k] = Earlier(answers[k], held[k])
      BY <1>1, <2>3 DEF WakeSucceeds, Complete, IInv, TypeOK
    <3> QED BY <2>2, <3>1 DEF Earlier
  <2>4. CASE WakeFails(k)
    <3>1. held'[k] = now + RetryDelay
      BY <1>1, <2>4 DEF WakeFails, Complete, IInv, TypeOK
    <3> QED BY <2>2, <3>1
  <2> QED BY <2>1, <2>3, <2>4
<1>2. IInv /\ [Next]_vars => [Kept]_vars
  BY <1>1
<1> QED BY <1>2, InitInv, NextInv, PTL DEF Spec, AnnouncementSurvivesWake

\* takeDue never opens a second lane of a scope that is being woken.
THEOREM NoOverlap == Spec => WakesNeverOverlap
<1> DEFINE Apart == \A k \in Keys : lane[k] = "waking" => lane'[k] # "taken"
<1>1. ASSUME IInv, [Next]_vars PROVE Apart
  <2> SUFFICES ASSUME NEW k \in Keys, lane[k] = "waking" PROVE lane'[k] # "taken"
    OBVIOUS
  <2>1. CASE OnDue
    <3>1. ASSUME NEW j \in EarliestDue, Take(j) PROVE lane'[k] # "taken"
      <4>1. j \in Keys /\ active[j] = "idle"
        BY <3>1 DEF EarliestDue, Due, Waiting
      <4>2. j # k
        BY <1>1, <4>1 DEF IInv, LaneNeverIdle
      <4> QED BY <1>1, <3>1, <4>2 DEF Take, IInv, TypeOK
    <3> QED BY <2>1, <3>1 DEF OnDue
  <2>2. CASE Tick \/ TimerFires \/ Stop \/ Shutdown \/ UNCHANGED vars
    BY <2>2 DEF Tick, TimerFires, Stop, Shutdown, vars
  <2>3. ASSUME NEW j \in Keys,
               Retire(j) \/ BeginWake(j) \/ WakeDies(j) \/ Settle(j, None)
                 \/ \E at \in At : Announce(j, at) \/ Settle(j, at) \/ Restore(j, at)
        PROVE  lane'[k] # "taken"
    BY <1>1, <2>3 DEF Retire, BeginWake, WakeDies, Settle, Announce, Restore, IInv, TypeOK
  <2>4. ASSUME NEW j \in Keys, WakeSucceeds(j) \/ WakeFails(j) PROVE lane'[k] # "taken"
    BY <1>1, <2>4 DEF WakeSucceeds, WakeFails, Complete, IInv, TypeOK
  <2> QED BY <1>1, <2>1, <2>2, <2>3, <2>4 DEF Next
<1>2. IInv /\ [Next]_vars => [Apart]_vars
  BY <1>1
<1> QED BY <1>2, InitInv, NextInv, PTL DEF Spec, WakesNeverOverlap

\* The callback of a retired scope never writes a deadline back.
THEOREM RetiredFenced == Spec => RetiredLaneIsFenced
<1> DEFINE Fenced == \A k \in Keys :
        active[k] = "retired" /\ active'[k] = "idle" => held'[k] = held[k]
<1>1. ASSUME IInv, [Next]_vars PROVE Fenced
  <2> SUFFICES ASSUME NEW k \in Keys, active[k] = "retired", active'[k] = "idle"
               PROVE  held'[k] = held[k]
    OBVIOUS
  <2>1. WakeSucceeds(k) \/ WakeFails(k)
    BY <1>1, OnlyCompletionIdles
  <2> QED BY <2>1 DEF WakeSucceeds, WakeFails, Complete
<1>2. IInv /\ [Next]_vars => [Fenced]_vars
  BY <1>1
<1> QED BY <1>2, InitInv, NextInv, PTL DEF Spec, RetiredLaneIsFenced
=============================================================================
