-------------------------- MODULE CronClockProofs --------------------------
(***************************************************************************)
(* The safety of CronClock for any crons, any length of a minute and any   *)
(* number of restarts.                                                     *)
(*                                                                         *)
(* InOrder is what the order of the fires rests on: neither a fired slot   *)
(* nor one that waits is past what the loop has walked, and the loop never *)
(* sleeps until a minute before one it has walked, though the timer may    *)
(* ring a tick early.                                                      *)
(***************************************************************************)
EXTENDS CronClock, TLAPS

USE MinuteAssumption, PrevAssumption, MarksAssumption

InOrder ==
    /\ through <= now + Early
    /\ phase # "idle" => through <= minute
    /\ phase = "walking" => minute <= now + Early
    /\ \A id \in Crons :
         /\ last[id] <= Seen(id)
         /\ waiting[id] \in Instants => last[id] < waiting[id] /\ waiting[id] <= Seen(id)

IInv == TypeOK /\ OneAtATime /\ InOrder /\ LatestIsKept

-----------------------------------------------------------------------------
\* The minute that the loop sleeps until is ahead of the clock.
LEMMA NextMinute ==
    ASSUME TypeOK
    PROVE  /\ now - (now % Minute) + Minute \in Instants
           /\ now - (now % Minute) + Minute > now
<1>1. now \in Nat /\ now <= MaxTime
  BY DEF TypeOK
<1>2. now % Minute \in 0..(Minute - 1) /\ now % Minute <= now
  BY <1>1
<1> QED BY <1>1, <1>2 DEF Instants

\* A cron's latest slot is the same at two minutes when it is not past the first.
LEMMA SameSlot ==
    ASSUME NEW id \in Crons, NEW m \in Instants, NEW n \in Instants, m <= n, Prev[id][n] <= m
    PROVE  Prev[id][m] = Prev[id][n]
<1>1. Prev[id][n] \in Instants /\ Prev[id][m] \in Instants
  OBVIOUS
<1>2. Prev[id][Prev[id][n]] = Prev[id][n]
  OBVIOUS
<1>3. Prev[id][Prev[id][n]] <= Prev[id][m]
  BY <1>1
<1>4. Prev[id][m] <= Prev[id][n]
  OBVIOUS
<1> QED BY <1>1, <1>2, <1>3, <1>4 DEF Instants

\* The map, the fires and the history of the other crons are as they were.
Others(id) ==
    \A x \in Crons \ {id} : waiting'[x] = waiting[x] /\ flying'[x] = flying[x] /\ last'[x] = last[x]

\* They keep their types.
Typed ==
    /\ waiting' \in [Crons -> Instants \cup {Absent, Nothing}]
    /\ flying' \in [Crons -> SUBSET Instants] /\ last' \in [Crons -> Instants]

\* What a visit of a cron does: nothing, or a slot it has not seen waits or is
\* fired.
LEMMA VisitCases ==
    ASSUME NEW id \in Crons, Visit(id), TypeOK
    PROVE  /\ Others(id) /\ Typed
           /\ Prev[id][minute] \in Instants /\ Prev[id][minute] <= minute
           /\ \/ /\ Prev[id][minute] <= through
                 /\ waiting'[id] = waiting[id] /\ flying'[id] = flying[id] /\ last'[id] = last[id]
              \/ /\ Prev[id][minute] > through /\ waiting[id] # Absent
                 /\ waiting'[id] = Prev[id][minute]
                 /\ flying'[id] = flying[id] /\ last'[id] = last[id]
              \/ /\ Prev[id][minute] > through /\ waiting[id] = Absent
                 /\ waiting'[id] = Nothing /\ flying'[id] = flying[id] \cup {Prev[id][minute]}
                 /\ last'[id] = Prev[id][minute]
<1> DEFINE slot == Prev[id][minute]
<1>1. slot \in Instants /\ slot <= minute
  BY DEF TypeOK
<1>2. slot <= through \/ slot > through
  BY <1>1 DEF TypeOK, Instants
<1>3. flying[id] \cup {slot} \in SUBSET Instants
  BY <1>1 DEF TypeOK
<1>4. CASE slot <= through
  BY <1>1, <1>4 DEF Visit, Others, Typed, TypeOK
<1>5. CASE slot > through /\ waiting[id] # Absent
  <2>1. ~(slot <= through)
    BY <1>1, <1>5 DEF TypeOK, Instants
  <2>2. waiting' = [waiting EXCEPT ![id] = slot] /\ UNCHANGED <<flying, last>>
    BY <1>5, <2>1 DEF Visit
  <2> QED BY <1>1, <1>5, <2>2 DEF Others, Typed, TypeOK
<1>6. CASE slot > through /\ waiting[id] = Absent
  <2>1. ~(slot <= through)
    BY <1>1, <1>6 DEF TypeOK, Instants
  <2>2. /\ waiting' = [waiting EXCEPT ![id] = Nothing]
        /\ flying' = [flying EXCEPT ![id] = flying[id] \cup {slot}]
        /\ last' = [last EXCEPT ![id] = slot]
    BY <1>6, <2>1 DEF Visit, Fires
  <2> QED BY <1>1, <1>3, <1>6, <2>2 DEF Others, Typed, TypeOK
<1> QED BY <1>2, <1>4, <1>5, <1>6

\* What the end of a fire does: the slot that waits is fired, or the id rests.
LEMMA DrainedCases ==
    ASSUME NEW id \in Crons, Drained(id), TypeOK, OneAtATime
    PROVE  /\ Others(id) /\ Typed
           /\ \/ /\ waiting[id] \in Instants /\ waiting'[id] = Nothing
                 /\ flying'[id] = {waiting[id]} /\ last'[id] = waiting[id]
              \/ /\ waiting[id] \notin Instants /\ waiting'[id] = Absent
                 /\ flying'[id] = {} /\ last'[id] = last[id]
<1>1. PICK slot \in flying[id] :
        IF waiting[id] \in Instants
          THEN /\ waiting' = [waiting EXCEPT ![id] = Nothing]
               /\ flying' = [flying EXCEPT ![id] = (flying[id] \ {slot}) \cup {waiting[id]}]
               /\ last' = [last EXCEPT ![id] = waiting[id]]
          ELSE /\ waiting' = [waiting EXCEPT ![id] = Absent]
               /\ flying' = [flying EXCEPT ![id] = flying[id] \ {slot}]
               /\ UNCHANGED last
  BY DEF Drained
<1>2. flying[id] \ {slot} = {}
  BY DEF OneAtATime
<1>3. CASE waiting[id] \in Instants
  <2>1. (flying[id] \ {slot}) \cup {waiting[id]} = {waiting[id]}
    BY <1>2
  <2>2. {waiting[id]} \in SUBSET Instants
    BY <1>3
  <2>3. /\ waiting' = [waiting EXCEPT ![id] = Nothing]
        /\ flying' = [flying EXCEPT ![id] = {waiting[id]}]
        /\ last' = [last EXCEPT ![id] = waiting[id]]
    BY <1>1, <1>3, <2>1
  <2> QED BY <1>3, <2>2, <2>3 DEF Others, Typed, TypeOK
<1>4. CASE waiting[id] \notin Instants
  <2>1. /\ waiting' = [waiting EXCEPT ![id] = Absent]
        /\ flying' = [flying EXCEPT ![id] = {}]
        /\ last' = last
    BY <1>1, <1>2, <1>4
  <2> QED BY <1>4, <2>1 DEF Others, Typed, TypeOK
<1> QED BY <1>3, <1>4

LEMMA InitInv == Init => IInv
<1> SUFFICES ASSUME Init PROVE IInv
  OBVIOUS
<1>1. now \in 0..MaxTime /\ now \in Instants /\ 0 \in Instants
  BY DEF Init, Instants
<1>2. TypeOK
  BY <1>1 DEF Init, TypeOK
<1>3. InOrder
  BY <1>1 DEF Init, InOrder, Seen, Instants
<1>4. LatestIsKept
  BY <1>1 DEF Init, LatestIsKept, Seen
<1> QED BY <1>2, <1>3, <1>4 DEF Init, IInv, OneAtATime

LEMMA TypeStep == ASSUME IInv, [Next]_vars PROVE TypeOK'
<1> USE DEF IInv
<1>1. CASE Sleep
  BY <1>1, NextMinute DEF Sleep, TypeOK
<1>2. CASE Ring \/ Walked
  BY <1>2 DEF Ring, Walked, TypeOK
<1>3. CASE Restart
  BY <1>3 DEF Restart, TypeOK, Instants
<1>4. CASE Tick
  BY <1>4 DEF Tick, TypeOK
<1>5. ASSUME NEW id \in Crons, Visit(id) PROVE TypeOK'
  <2>1. Typed
    BY <1>5, VisitCases
  <2> QED BY <1>5, <2>1 DEF Visit, Typed, TypeOK
<1>6. ASSUME NEW id \in Crons, Drained(id) PROVE TypeOK'
  <2>1. Typed
    BY <1>6, DrainedCases
  <2> QED BY <1>6, <2>1 DEF Drained, Typed, TypeOK
<1>7. CASE UNCHANGED vars
  BY <1>7 DEF vars, TypeOK
<1> QED BY <1>1, <1>2, <1>3, <1>4, <1>5, <1>6, <1>7 DEF Next

LEMMA OneStep == ASSUME IInv, [Next]_vars PROVE OneAtATime'
<1> USE DEF IInv, OneAtATime
<1>1. ASSUME NEW id \in Crons, Visit(id) PROVE OneAtATime'
  <2>1. Absent \notin Instants
    BY DEF Instants
  <2>2. \/ waiting'[id] = waiting[id] /\ flying'[id] = flying[id]
        \/ waiting[id] # Absent /\ waiting'[id] # Absent /\ flying'[id] = flying[id]
        \/ /\ waiting[id] = Absent /\ waiting'[id] = Nothing
           /\ flying'[id] = flying[id] \cup {Prev[id][minute]}
    BY <1>1, <2>1, VisitCases
  <2>3. /\ \A s, t \in flying'[id] : s = t
        /\ flying'[id] = {} <=> waiting'[id] = Absent
    BY <2>2
  <2>4. Others(id)
    BY <1>1, VisitCases
  <2>5. ASSUME NEW x \in Crons
        PROVE  /\ \A s, t \in flying'[x] : s = t
               /\ flying'[x] = {} <=> waiting'[x] = Absent
    <3>1. CASE x = id
      BY <2>3, <3>1
    <3>2. CASE x # id
      <4>1. flying'[x] = flying[x] /\ waiting'[x] = waiting[x]
        BY <2>4, <3>2 DEF Others
      <4>2. /\ \A s, t \in flying[x] : s = t
            /\ flying[x] = {} <=> waiting[x] = Absent
        OBVIOUS
      <4> QED BY <4>1, <4>2
    <3> QED BY <3>1, <3>2
  <2> QED BY <2>5
<1>2. ASSUME NEW id \in Crons, Drained(id) PROVE OneAtATime'
  <2>1. \/ flying'[id] = {waiting[id]} /\ waiting'[id] = Nothing
        \/ flying'[id] = {} /\ waiting'[id] = Absent
    BY <1>2, DrainedCases
  <2>2. /\ \A s, t \in flying'[id] : s = t
        /\ flying'[id] = {} <=> waiting'[id] = Absent
    BY <2>1
  <2>3. Others(id)
    BY <1>2, DrainedCases
  <2>5. ASSUME NEW x \in Crons
        PROVE  /\ \A s, t \in flying'[x] : s = t
               /\ flying'[x] = {} <=> waiting'[x] = Absent
    <3>1. CASE x = id
      BY <2>2, <3>1
    <3>2. CASE x # id
      <4>1. flying'[x] = flying[x] /\ waiting'[x] = waiting[x]
        BY <2>3, <3>2 DEF Others
      <4>2. /\ \A s, t \in flying[x] : s = t
            /\ flying[x] = {} <=> waiting[x] = Absent
        OBVIOUS
      <4> QED BY <4>1, <4>2
    <3> QED BY <3>1, <3>2
  <2> QED BY <2>5
<1>3. CASE Sleep \/ Ring \/ Walked \/ Restart \/ Tick \/ UNCHANGED vars
  BY <1>3 DEF Sleep, Ring, Walked, Restart, Tick, vars
<1> QED BY <1>1, <1>2, <1>3 DEF Next

LEMMA OrderStep == ASSUME IInv, [Next]_vars PROVE InOrder'
<1> USE DEF IInv, InOrder
<1>0. /\ now \in Nat /\ through \in Nat /\ minute \in Nat /\ Early \in Nat
      /\ last \in [Crons -> Nat]
  BY DEF TypeOK, Instants
<1>1. CASE Sleep
  <2>1. minute' > now /\ minute' \in Nat
    BY <1>1, NextMinute DEF Sleep, Instants
  <2>2. through <= minute'
    BY <1>0, <2>1
  <2> QED BY <1>1, <2>2 DEF Sleep, Seen
<1>2. CASE Ring
  BY <1>2 DEF Ring, Seen
<1>3. CASE Walked
  BY <1>3 DEF Walked, Seen
<1>4. CASE Restart
  BY <1>0, <1>4 DEF Restart, Seen, Instants
<1>5. CASE Tick
  BY <1>0, <1>5 DEF Tick, Seen
<1>6. ASSUME NEW id \in Crons, Visit(id) PROVE InOrder'
  <2>1. Seen(id) = through /\ Seen(id)' = minute /\ \A x \in Crons \ {id} : Seen(x)' = Seen(x)
    BY <1>6 DEF Visit, Seen
  <2>2. /\ Prev[id][minute] \in Nat /\ Prev[id][minute] <= minute
        /\ through <= minute /\ last[id] <= through /\ Nothing \notin Instants
    BY <1>6, <2>1, VisitCases DEF Instants, Visit
  <2>3. /\ last'[id] <= minute
        /\ waiting'[id] \in Instants => last'[id] < waiting'[id] /\ waiting'[id] <= minute
    <3>1. CASE waiting'[id] = waiting[id] /\ last'[id] = last[id]
      BY <1>0, <2>1, <2>2, <3>1 DEF Instants
    <3>2. CASE /\ Prev[id][minute] > through
               /\ waiting'[id] = Prev[id][minute] /\ last'[id] = last[id]
      BY <1>0, <2>2, <3>2
    <3>3. CASE waiting'[id] = Nothing /\ last'[id] = Prev[id][minute]
      BY <2>2, <3>3
    <3> QED BY <1>6, <3>1, <3>2, <3>3, VisitCases
  <2>4. Others(id)
    BY <1>6, VisitCases
  <2> QED BY <1>6, <2>1, <2>3, <2>4 DEF Visit, Others
<1>7. ASSUME NEW id \in Crons, Drained(id) PROVE InOrder'
  <2>1. \A x \in Crons : Seen(x)' = Seen(x)
    BY <1>7 DEF Drained, Seen
  <2>2. last'[id] <= Seen(id) /\ waiting'[id] \notin Instants
    <3>1. Absent \notin Instants /\ Nothing \notin Instants
      BY DEF Instants
    <3> QED BY <1>7, <3>1, DrainedCases
  <2>3. Others(id)
    BY <1>7, DrainedCases
  <2>4. UNCHANGED <<now, phase, minute, through>>
    BY <1>7 DEF Drained
  <2>5. ASSUME NEW x \in Crons
        PROVE  /\ last'[x] <= Seen(x)'
               /\ waiting'[x] \in Instants => last'[x] < waiting'[x] /\ waiting'[x] <= Seen(x)'
    BY <2>1, <2>2, <2>3 DEF Others
  <2> QED BY <2>4, <2>5
<1>8. CASE UNCHANGED vars
  BY <1>8 DEF vars, Seen
<1> QED BY <1>1, <1>2, <1>3, <1>4, <1>5, <1>6, <1>7, <1>8 DEF Next

LEMMA KeptStep == ASSUME IInv, [Next]_vars PROVE LatestIsKept'
<1> USE DEF IInv
<1>1. CASE Sleep \/ Ring \/ Tick \/ UNCHANGED vars
  BY <1>1 DEF Sleep, Ring, Tick, vars, LatestIsKept, Seen
<1>2. CASE Walked
  BY <1>2 DEF Walked, LatestIsKept, Seen
<1>3. CASE Restart
  <2>1. now \in Instants
    BY DEF TypeOK, Instants
  <2> QED BY <1>3, <2>1 DEF Restart, LatestIsKept, Seen
<1>4. ASSUME NEW id \in Crons, Visit(id) PROVE LatestIsKept'
  <2>1. Seen(id) = through /\ Seen(id)' = minute /\ \A x \in Crons \ {id} : Seen(x)' = Seen(x)
    BY <1>4 DEF Visit, Seen
  <2>2. Others(id)
    BY <1>4, VisitCases
  <2>3. Prev[id][minute] <= last'[id] \/ waiting'[id] = Prev[id][minute]
    <3>1. CASE /\ Prev[id][minute] <= through
               /\ waiting'[id] = waiting[id] /\ last'[id] = last[id]
      <4>1. through \in Instants /\ minute \in Instants /\ through <= minute
        BY <1>4 DEF TypeOK, InOrder, Visit
      <4>2. Prev[id][through] = Prev[id][minute]
        BY <3>1, <4>1, SameSlot
      <4> QED BY <2>1, <3>1, <4>2 DEF LatestIsKept
    <3>2. CASE last'[id] = Prev[id][minute]
      <4>1. Prev[id][minute] \in Nat
        BY <1>4, VisitCases DEF Instants
      <4> QED BY <3>2, <4>1
    <3> QED BY <1>4, <3>1, <3>2, VisitCases
  <2> QED BY <2>1, <2>2, <2>3 DEF LatestIsKept, Others
<1>5. ASSUME NEW id \in Crons, Drained(id) PROVE LatestIsKept'
  <2>1. \A x \in Crons : Seen(x)' = Seen(x)
    BY <1>5 DEF Drained, Seen
  <2>2. Prev[id][Seen(id)] \in Instants
    BY DEF Seen, TypeOK
  <2>3. Prev[id][Seen(id)] <= last[id] \/ waiting[id] = Prev[id][Seen(id)]
    BY DEF LatestIsKept
  <2>4. Prev[id][Seen(id)] <= last'[id]
    <3>1. CASE waiting[id] \in Instants /\ last'[id] = waiting[id]
      <4>1. last[id] < waiting[id] /\ last[id] \in Instants
        BY <3>1 DEF InOrder, TypeOK
      <4> QED BY <2>2, <2>3, <3>1, <4>1 DEF Instants
    <3>2. CASE waiting[id] \notin Instants /\ last'[id] = last[id]
      BY <2>2, <2>3, <3>2
    <3> QED BY <1>5, <3>1, <3>2, DrainedCases
  <2>5. Others(id)
    BY <1>5, DrainedCases
  <2> QED BY <2>1, <2>4, <2>5 DEF LatestIsKept, Others
<1> QED BY <1>1, <1>2, <1>3, <1>4, <1>5 DEF Next

LEMMA Inductive == IInv /\ [Next]_vars => IInv'
BY TypeStep, OneStep, OrderStep, KeptStep DEF IInv

LEMMA Invariance == Spec => []IInv
BY InitInv, Inductive, PTL DEF Spec

-----------------------------------------------------------------------------
\* The clock's map, fibers and minutes keep their types (cron-clock.ts).
THEOREM TypeCorrect == Spec => []TypeOK
BY Invariance, PTL DEF IInv

\* No id is ever fired while a fire of it is in flight.
THEOREM NeverTwoAtOnce == Spec => []OneAtATime
BY Invariance, PTL DEF IInv

\* A slot the loop has passed has been fired, or waits, or gave way to a newer.
THEOREM NoSlotIsSkipped == Spec => []LatestIsKept
BY Invariance, PTL DEF IInv

\* Slots are fired once, in order and not ahead of the clock.
THEOREM FiredOnceInOrder == Spec => FiresInOrder
<1> DEFINE New == \A id \in Crons : \A s \in flying'[id] \ flying[id] :
                     s > last[id] /\ s <= now + Early
<1>1. IInv /\ [Next]_vars => [New]_vars
  <2> SUFFICES ASSUME IInv, Next, NEW x \in Crons, NEW s \in flying'[x] \ flying[x]
               PROVE  s > last[x] /\ s <= now + Early
    OBVIOUS
  <2> USE DEF IInv, InOrder
  <2>0. /\ now \in Nat /\ through \in Nat /\ minute \in Nat /\ Early \in Nat
        /\ last[x] \in Nat
    BY DEF TypeOK, Instants
  <2>1. ASSUME NEW id \in Crons, Visit(id) PROVE s > last[x] /\ s <= now + Early
    <3>1. x = id /\ s = Prev[id][minute] /\ s > through /\ s <= minute /\ s \in Nat
      <4>1. x = id
        BY <2>1, VisitCases DEF Others
      <4> QED BY <2>1, <4>1, VisitCases DEF Instants
    <3>2. last[x] <= through /\ minute <= now + Early
      BY <2>1, <3>1 DEF Visit, Seen
    <3> QED BY <2>0, <3>1, <3>2
  <2>2. ASSUME NEW id \in Crons, Drained(id) PROVE s > last[x] /\ s <= now + Early
    <3>1. x = id /\ s = waiting[id] /\ waiting[id] \in Instants
      <4>1. x = id
        BY <2>2, DrainedCases DEF Others
      <4> QED BY <2>2, <4>1, DrainedCases
    <3>2. last[x] < s /\ s <= Seen(x) /\ s \in Nat
      BY <3>1 DEF Instants
    <3>3. Seen(x) <= now + Early /\ Seen(x) \in Nat
      BY <2>0 DEF Seen
    <3> QED BY <2>0, <3>2, <3>3
  <2>3. CASE Sleep \/ Ring \/ Walked \/ Restart \/ Tick
    BY <2>3 DEF Sleep, Ring, Walked, Restart, Tick
  <2> QED BY <2>1, <2>2, <2>3 DEF Next
<1> QED BY <1>1, Invariance, PTL DEF Spec, FiresInOrder
=============================================================================
