--------------------------- MODULE OutboundProofs ---------------------------
(***************************************************************************)
(* Proofs about Outbound, for any rows, conversations, executions, reports *)
(* and times.                                                              *)
(*                                                                         *)
(* The invariant has five parts.  What one execution holds is its own      *)
(* affair (OwnClaims).  Over all executions, at most one claim of a row    *)
(* may still be sent, and only while each time it was handed over was      *)
(* answered with an error that is retried (SentOnce): that holds whatever  *)
(* leases run out.  Rows that must not be sent are out of the queue before *)
(* the first claim (Abandoned).  What was reported is of a row whose       *)
(* answer is stored (Told).  And until a lease runs out under an execution *)
(* that lives, a claim is exclusive (Leased).                              *)
(***************************************************************************)
EXTENDS Outbound, WellFoundedInduction, TLAPS

\* What an execution holds: claims only while it hands them over, one in hand,
\* and one of each row.
Own(f) ==
    /\ pc[f] # "message" => batch[f] = {} /\ hand[f] = {}
    /\ pc[f] # "presume" => quiet[f] = {}
    /\ \A c, d \in batch[f] : c.m = d.m => c = d
    /\ \A h \in hand[f] : \A c \in batch[f] : c.m # h.c.m
    /\ \A h, k \in hand[f] : h = k
OwnClaims == \A f \in Fibers : Own(f)

\* Of a provider that does not dedupe: one claim of a row may still be sent, or
\* put it back, and then the row is out of the queue and every time it was handed
\* over so far was answered with an error that is retried.
Once(m) ==
    /\ \A f, g \in Fibers : InPlay(f, m) /\ InPlay(g, m) => f = g
    /\ \A f \in Fibers : InPlay(f, m) => handed[m] <= erred[m] /\ status[m] \notin {"absent", "queued"}
    /\ status[m] \in {"absent", "queued"} => handed[m] <= erred[m]
    /\ handed[m] <= 1 + erred[m]
SentOnce == \A m \in Messages \ Deduped : Once(m)

\* Rows that must not be sent: nobody claims them, and none waits once somebody
\* delivers.
Abandoned ==
    \A m \in Barred :
        /\ handed[m] = 0 /\ status[m] # "absent"
        /\ \A f \in Fibers : \A c \in Holds(f) : c.m # m
        /\ (\E f \in Fibers : Live(f)) => status[m] \notin Waiting

\* What came of a send is said of a row whose provider id is stored.
ToldStatuses == {"sent", "deferred", "delivered", "read", "opened", "bounced", "complained"}
Told ==
    /\ \A m \in Messages : status[m] \in ToldStatuses \/ presumeAt[m] # 0 => m \in known
    /\ \A f \in Fibers : quiet[f] \subseteq known

\* A claim is exclusive while its lease lasts, and what is answered stays out
\* of the queue.
LeaseHolds ==
    /\ \A f \in Fibers : \A c \in Holds(f) :
          /\ claimedAt[c.m] = c.at /\ now < c.at + Lease
          /\ status[c.m] \notin {"absent", "queued"} /\ c.m \notin known
    /\ \A f, g \in Fibers : \A c \in Holds(f), d \in Holds(g) : c.m = d.m => f = g
    /\ \A m \in known : status[m] \notin Waiting \cup {"absent"}
    /\ \A m \in Messages : presumeAt[m] # 0 => status[m] \in {"sent", "deferred"}
Leased == ~overran => LeaseHolds

SafeInv == TypeOK /\ OwnClaims /\ SentOnce /\ Abandoned /\ Told /\ Leased

\* A row that is sending, or held, is the first that waits in its conversation,
\* but for those that strayed.
InLine ==
    ~overran =>
        /\ \A f \in Fibers : \A c \in Holds(f) :
              (status[c.m] = "sending" \/ c.m \in strayed) /\ Overtaken(c.m) \subseteq strayed
        /\ \A m \in Messages \ Barred : status[m] = "sending" => Overtaken(m) \subseteq strayed

\* The times at which a presumption is due and not yet made, and who makes it.
Overdue(m) == presumeAt[m] \in 1 .. now
Presumes(f, m) == pc[f] \in {"claim", "message", "quiet"} \/ m \in quiet[f]
\* A head row has its run, or an execution that claims again, or one that found
\* nothing due and will look when to wake.
Covered(m) ==
    \/ Woken(m)
    \/ \E f \in Fibers : pc[f] \in {"claim", "message"}
    \/ DueAt(m) > now /\ \E f \in Fibers : Live(f)
WakeInv ==
    /\ \A m \in Synced \ Barred : status[m] = "absent" => release[m] = "waiting"
    /\ (~missed /\ ~overran /\ ~passed /\ strayed = {}) => \A m \in Messages : Head(m) => Covered(m)
    /\ (~missed /\ ~overran) =>
          /\ \A f \in Fibers : pc[f] \in {"presume", "look"} => readAt[f] = now
          /\ (\E f \in Fibers : pc[f] \in {"presume", "look"}) =>
                \A m \in Messages : Overdue(m) => \E g \in Fibers : Presumes(g, m)
OrderInv == SafeInv /\ InLine /\ WakeInv

-----------------------------------------------------------------------------
(* The operators of the model.                                             *)

\* A nonempty set of naturals has a least element.
LEMMA HasLeast ==
    ASSUME NEW T, T \subseteq Nat, T # {}
    PROVE  \E t \in T : \A u \in T : t <= u
<1>1. PICK t \in T : \A u \in T : ~ (<<u, t>> \in OpToRel(<, Nat))
  BY NatLessThanWellFounded, WFMin
<1>2. ASSUME NEW u \in T PROVE t <= u
  <2>1. u < t => <<u, t>> \in OpToRel(<, Nat)
    BY DEF OpToRel
  <2>2. ~ (u < t)
    BY <1>1, <2>1
  <2> QED BY <2>2
<1> QED BY <1>2

\* `Least` is the earliest of the wakes.
LEMMA LeastIsLeast ==
    ASSUME NEW S, S \subseteq Nat
    PROVE  /\ Least(S) \in Nat
           /\ S # {} => Least(S) \in S /\ \A u \in S : Least(S) <= u
<1>1. CASE S = {}
  BY <1>1 DEF Least
<1>2. CASE S # {}
  BY <1>2, HasLeast DEF Least
<1> QED BY <1>1, <1>2

\* The instants of the wakes are times.
LEMMA WakesAreTimes ==
    ASSUME TypeOK, NEW t \in Nat
    PROVE  Wakes(t) \subseteq Nat
BY TimesAssumption DEF TypeOK, Times, Wakes

\* A report moves a status to its own kind or not at all: never into the queue,
\* never from a terminal status, and never down.
LEMMA StatusMoves ==
    ASSUME NEW s \in Statuses, NEW k \in Reports \cup {"replied", "auto_replied"}
    PROVE  /\ StatusAfter(s, k) \in {s, k}
           /\ StatusAfter(s, k) \in Statuses
           /\ s \in TERMINAL => StatusAfter(s, k) = s
           /\ s \in {"delivered", "read", "opened"} =>
                 StatusAfter(s, k) \notin Waiting \cup {"sent", "uncertain", "deferred"}
BY DEF StatusAfter, Statuses, Reports, TERMINAL, RANK, Waiting

\* What an answer writes; the row is queued again just when it may be retried.
LEMMA AnswerWrites ==
    ASSUME NEW h \in Hands
    PROVE  /\ StatusOf(h.c, h.got) \in {"sent", "queued", "uncertain", "failed"}
           /\ StatusOf(h.c, h.got) = "queued" <=> MayRetry(h)
           /\ StatusOf(h.c, h.got) = "sent" <=> h.got = "sent"
BY DEF StatusOf, MayRetry, Hands, Outcomes

\* A reply, automatic or not, is a kind of report.
LEMMA HoldsAreClaims ==
    ASSUME TypeOK, NEW f \in Fibers
    PROVE  Holds(f) \subseteq Claims
BY DEF TypeOK, Holds, Hands

-----------------------------------------------------------------------------
(* Types.                                                                  *)

LEMMA InitType == Init => TypeOK
<1> SUFFICES ASSUME Init PROVE TypeOK
  OBVIOUS
<1> USE DEF Init, Times
<1>1. now \in Nat /\ status \in [Messages -> Statuses] /\ attempts \in [Messages -> Int]
  BY DEF Statuses
<1>2. /\ nextAt \in [Messages -> Nat] /\ claimedAt \in [Messages -> Nat]
      /\ presumeAt \in [Messages -> Nat]
      /\ known \subseteq Messages /\ answers \in [Messages -> SUBSET Replies]
  OBVIOUS
<1>3. /\ release \in [Messages -> {"free", "waiting", "acked", "refused"}]
      /\ active \in BOOLEAN /\ parked \in BOOLEAN /\ runs \subseteq Nat
      /\ pc \in [Fibers -> {"idle", "claim", "message", "quiet", "presume", "look"}]
  OBVIOUS
<1>4. /\ batch \in [Fibers -> SUBSET Claims] /\ hand \in [Fibers -> SUBSET Hands]
      /\ quiet \in [Fibers -> SUBSET Messages] /\ readAt \in [Fibers -> Nat]
  OBVIOUS
<1>5. /\ handed \in [Messages -> Nat] /\ erred \in [Messages -> Nat] /\ strayed \subseteq Messages
      /\ overran \in BOOLEAN /\ missed \in BOOLEAN /\ passed \in BOOLEAN /\ calls \in Nat /\ events \in Nat
  OBVIOUS
<1> QED BY <1>1, <1>2, <1>3, <1>4, <1>5 DEF TypeOK

\* One action after the other keeps the types.
LEMMA TypeStep ==
    ASSUME TypeOK, [Next]_vars
    PROVE  TypeOK'
<1> USE DEF Times
<1>1. ASSUME NEW m \in Messages, Send(m) \/ Ack(m) \/ Refuse(m) PROVE TypeOK'
  <2>1. CASE Send(m)
    <3>1. /\ status' \in [Messages -> Statuses] /\ nextAt' \in [Messages -> Nat] /\ runs' \subseteq Nat
          /\ strayed' \subseteq Messages /\ events' \in Nat
      BY <2>1 DEF TypeOK, Send, Statuses, Event
    <3> QED BY <2>1, <3>1 DEF TypeOK, Send, around, fibers, history
  <2>2. CASE Ack(m)
    <3>1. release' \in [Messages -> {"free", "waiting", "acked", "refused"}] /\ runs' \subseteq Nat
      BY <2>2 DEF TypeOK, Ack
    <3> QED BY <2>2, <3>1 DEF TypeOK, Ack, rows, fibers, history
  <2>3. CASE Refuse(m)
    <3>1. /\ release' \in [Messages -> {"free", "waiting", "acked", "refused"}] /\ runs' \subseteq Nat
          /\ status' \in [Messages -> Statuses]
      BY <2>3 DEF TypeOK, Refuse, Statuses
    <3> QED BY <2>3, <3>1 DEF TypeOK, Refuse, fibers, history
  <2> QED BY <1>1, <2>1, <2>2, <2>3
<1>2. ASSUME NEW m \in Messages, NEW k \in Kinds, Report(m, k) PROVE TypeOK'
  <2>1. StatusAfter(status[m], k) \in Statuses
    BY StatusMoves, RowsAssumption DEF TypeOK
  <2> QED BY <1>2, <2>1 DEF TypeOK, Report, Record, around, fibers, history
<1>3. ASSUME NEW r \in Replies, NEW auto \in BOOLEAN, Replied(r, auto) PROVE TypeOK'
  <2>1. PICK m \in Messages :
          /\ answers' = [answers EXCEPT ![m] = @ \cup {r}]
          /\ Record(m, IF auto THEN "auto_replied" ELSE "replied")
          /\ strayed' \subseteq strayed \cup {m} /\ events' = events + 1
          /\ UNCHANGED <<now, attempts, nextAt, claimedAt, known, around, runs, fibers, handed, erred,
                         overran, missed, passed, calls>>
    BY <1>3 DEF Replied, Matches, Event
  <2>2. StatusAfter(status[m], IF auto THEN "auto_replied" ELSE "replied") \in Statuses
    BY StatusMoves DEF TypeOK
  <2> QED BY <2>1, <2>2 DEF TypeOK, Record, around, fibers, history
<1>4. ASSUME NEW f \in Fibers, Begin(f) PROVE TypeOK'
  <2>1. status' \in [Messages -> Statuses]
    <3>1. status' = [m \in Messages |-> Cleaned(m)]
      BY <1>4 DEF Begin
    <3>2. \A m \in Messages : Cleaned(m) \in Statuses
      BY DEF TypeOK, Statuses, Reports, Cleaned
    <3> QED BY <3>1, <3>2
  <2>2. runs' \subseteq Nat /\ calls' \in Nat
    <3>1. calls' = calls + 1 \/ calls' = calls
      BY <1>4 DEF Begin
    <3>2. runs' \subseteq runs
      BY <1>4 DEF Begin
    <3> QED BY <3>1, <3>2 DEF TypeOK
  <2>3. pc' \in [Fibers -> {"idle", "claim", "message", "quiet", "presume", "look"}]
    BY <1>4 DEF TypeOK, Begin
  <2> QED BY <1>4, <2>1, <2>2, <2>3 DEF TypeOK, Begin, around
<1>5. ASSUME NEW f \in Fibers, Claim(f) PROVE TypeOK'
  <2> DEFINE taken == {m \in Messages : Claimable(m)}
             got == {[m |-> m, was |-> status[m], n |-> attempts[m] + 1, at |-> now] : m \in taken}
  <2>1. got \subseteq Claims
    BY DEF TypeOK, Claimable, Due, Claims, Waiting
  <2>2. batch' \in [Fibers -> SUBSET Claims]
    BY <1>5, <2>1 DEF Claim, TypeOK
  <2>3. /\ status' \in [Messages -> Statuses] /\ attempts' \in [Messages -> Int]
        /\ claimedAt' \in [Messages -> Nat] /\ nextAt' \in [Messages -> Nat]
        /\ pc' \in [Fibers -> {"idle", "claim", "message", "quiet", "presume", "look"}]
        /\ passed' \in BOOLEAN
    BY <1>5 DEF Claim, TypeOK, Statuses
  <2> QED BY <1>5, <2>2, <2>3 DEF Claim, TypeOK, around, history
<1>6. ASSUME NEW f \in Fibers, HandOver(f) PROVE TypeOK'
  <2>1. PICK c \in batch[f], got \in Outcomes :
          /\ batch' = [batch EXCEPT ![f] = @ \ {c}]
          /\ hand' = [hand EXCEPT ![f] = {[c |-> c, got |-> got]}]
          /\ handed' = [handed EXCEPT ![c.m] = @ + 1] \/ UNCHANGED handed
          /\ erred' = [erred EXCEPT ![c.m] = @ + 1] \/ UNCHANGED erred
          /\ IF got = "down" THEN Event /\ parked' = TRUE ELSE UNCHANGED <<events, parked>>
    BY <1>6 DEF HandOver
  <2>2. c \in Claims /\ c.m \in Messages
    BY DEF TypeOK, Claims
  <2>3. [c |-> c, got |-> got] \in Hands
    BY <2>2 DEF Hands
  <2>4. batch' \in [Fibers -> SUBSET Claims] /\ hand' \in [Fibers -> SUBSET Hands]
    BY <2>1, <2>2, <2>3 DEF TypeOK
  <2>5. /\ handed' \in [Messages -> Nat] /\ erred' \in [Messages -> Nat]
        /\ events' \in Nat /\ parked' \in BOOLEAN
    <3>1. handed' \in [Messages -> Nat] /\ erred' \in [Messages -> Nat]
      BY <2>1, <2>2 DEF TypeOK
    <3>2. events' \in Nat
      BY <2>1 DEF TypeOK, Event
    <3>3. parked' \in BOOLEAN
      BY <2>1, Zenon DEF TypeOK
    <3> QED BY <3>1, <3>2, <3>3
  <2> QED BY <1>6, <2>4, <2>5 DEF TypeOK, HandOver, rows
<1>7. ASSUME NEW f \in Fibers, Answer(f) PROVE TypeOK'
  <2>1. PICK h \in hand[f] :
          /\ status' = [status EXCEPT ![h.c.m] = StatusOf(h.c, h.got)]
          /\ attempts' = IF h.got = "down" THEN [attempts EXCEPT ![h.c.m] = @ - 1] ELSE attempts
          /\ nextAt' = [nextAt EXCEPT ![h.c.m] =
                CASE StatusOf(h.c, h.got) # "queued" -> 0
                  [] h.got = "down" -> readAt[f] + Parked
                  [] OTHER -> readAt[f] + Backoff]
          /\ claimedAt' = [claimedAt EXCEPT ![h.c.m] = 0]
          /\ known' = IF h.got = "sent" THEN known \cup {h.c.m} ELSE known
          /\ presumeAt' =
                IF h.got # "sent" THEN presumeAt
                ELSE [presumeAt EXCEPT ![h.c.m] = IF Quiet = 0 THEN 0 ELSE readAt[f] + Quiet]
    BY <1>7 DEF Answer
  <2>2. h \in Hands /\ h.c.m \in Messages
    BY DEF TypeOK, Hands, Claims
  <2>3. status' \in [Messages -> Statuses]
    BY <2>1, <2>2, AnswerWrites DEF TypeOK, Statuses, Reports
  <2>4. /\ attempts' \in [Messages -> Int] /\ claimedAt' \in [Messages -> Nat]
        /\ known' \subseteq Messages
    BY <2>1, <2>2 DEF TypeOK
  <2>5. readAt[f] \in Nat /\ readAt[f] + Parked \in Nat /\ readAt[f] + Backoff \in Nat
          /\ readAt[f] + Quiet \in Nat
    BY TimesAssumption DEF TypeOK
  <2>6. nextAt' \in [Messages -> Nat]
    <3> DEFINE v == CASE StatusOf(h.c, h.got) # "queued" -> 0
                      [] h.got = "down" -> readAt[f] + Parked
                      [] OTHER -> readAt[f] + Backoff
    <3>1. v \in Nat
      BY <2>5
    <3> QED BY <3>1, <2>1, <2>2 DEF TypeOK
  <2>7. presumeAt' \in [Messages -> Nat]
    BY <2>1, <2>2, <2>5 DEF TypeOK
  <2>8. /\ hand' \in [Fibers -> SUBSET Hands] /\ readAt' \in [Fibers -> Nat]
        /\ pc' \in [Fibers -> {"idle", "claim", "message", "quiet", "presume", "look"}]
    BY <1>7 DEF Answer, TypeOK
  <2> QED BY <1>7, <2>3, <2>4, <2>6, <2>7, <2>8 DEF Answer, TypeOK, around, history
<1>8. ASSUME NEW f \in Fibers, LookQuiet(f) PROVE TypeOK'
  BY <1>8 DEF TypeOK, LookQuiet, rows, around, history
<1>9. ASSUME NEW f \in Fibers, Presume(f) PROVE TypeOK'
  <2>1. PICK m \in quiet[f] : Record(m, "delivered") /\ quiet' = [quiet EXCEPT ![f] = @ \ {m}]
    BY <1>9 DEF Presume
  <2>2. m \in Messages /\ StatusAfter(status[m], "delivered") \in Statuses
    BY StatusMoves DEF TypeOK, Reports
  <2> QED BY <1>9, <2>1, <2>2 DEF TypeOK, Presume, Record, around, history
<1>10. ASSUME NEW f \in Fibers, Look(f) PROVE TypeOK'
  <2>1. Least(Wakes(readAt[f])) \in Nat
    BY WakesAreTimes, LeastIsLeast DEF TypeOK
  <2> QED BY <1>10, <2>1 DEF TypeOK, Look, rows, around, history
<1>11. ASSUME NEW f \in Fibers, Fault(f) PROVE TypeOK'
  BY <1>11 DEF TypeOK, Fault, Event, Ended, rows, around
<1>12. CASE Resume
  BY <1>12 DEF TypeOK, Resume, Resumed, fibers, history
<1>13. CASE Tick
  <2>1. now' \in Nat /\ overran' \in BOOLEAN /\ missed' \in BOOLEAN
    BY <1>13 DEF Tick, TypeOK
  <2> QED BY <1>13, <2>1 DEF TypeOK, Tick, rows, around, fibers
<1>14. CASE Crash
  BY <1>14 DEF TypeOK, Crash, Event, Ended, rows
<1>15. CASE UNCHANGED vars
  BY <1>15 DEF TypeOK, vars, rows, around, fibers, history
<1>16. CASE Pause \/ Activate
  <2>1. active' \in BOOLEAN /\ parked' \in BOOLEAN
    BY <1>16, Zenon DEF TypeOK, Pause, Activate
  <2>2. events' \in Nat
    BY <1>16 DEF TypeOK, Pause, Activate, Event, history
  <2> QED BY <1>16, <2>1, <2>2 DEF TypeOK, Pause, Activate, rows, fibers, history
<1> QED BY <1>1, <1>2, <1>3, <1>4, <1>5, <1>6, <1>7, <1>8, <1>9, <1>10, <1>11, <1>12, <1>13,
           <1>14, <1>15, <1>16 DEF Next, Deliver

\* The rows, the executions and the histories keep their types, above all every
\* claim is of a row that was queued or sending (deliver's claim).
THEOREM TypeCorrect == Spec => []TypeOK
<1>1. TypeOK /\ [Next]_vars => TypeOK'
  BY TypeStep
<1> QED BY InitType, <1>1, PTL DEF Spec

-----------------------------------------------------------------------------
(* What one execution holds.                                               *)

\* The steps that leave every execution as it is.
Aside ==
    \/ \E m \in Messages : Send(m) \/ Ack(m) \/ Refuse(m) \/ \E k \in Kinds : Report(m, k)
    \/ \E r \in Replies, auto \in BOOLEAN : Replied(r, auto)
    \/ Resume \/ Pause \/ Activate \/ Tick \/ UNCHANGED vars

LEMMA AsideKeepsFibers ==
    ASSUME Aside
    PROVE  UNCHANGED <<pc, batch, hand, quiet, readAt>>
<1>1. ASSUME NEW m \in Messages,
             Send(m) \/ Ack(m) \/ Refuse(m) \/ \E k \in Kinds : Report(m, k)
      PROVE  UNCHANGED fibers
  BY <1>1 DEF Send, Ack, Refuse, Report
<1>2. ASSUME NEW r \in Replies, NEW auto \in BOOLEAN, Replied(r, auto)
      PROVE  UNCHANGED fibers
  BY <1>2 DEF Replied
<1>3. Resume \/ Pause \/ Activate \/ Tick \/ UNCHANGED vars => UNCHANGED fibers
  BY DEF Resume, Pause, Activate, Tick, vars
<1> QED BY <1>1, <1>2, <1>3 DEF Aside, fibers

\* Every step is aside, of one execution, or ends some.
LEMMA Steps ==
    ASSUME [Next]_vars
    PROVE  Aside \/ Crash \/ \E f \in Fibers : Deliver(f) \/ Fault(f)
BY DEF Next, Aside

LEMMA OwnStep ==
    ASSUME TypeOK, OwnClaims, [Next]_vars
    PROVE  OwnClaims'
<1>1. CASE Aside
  BY <1>1, AsideKeepsFibers DEF OwnClaims, Own
<1>2. CASE Crash
  BY <1>2 DEF Crash, Ended, OwnClaims, Own
<1>3. ASSUME NEW f \in Fibers, Deliver(f) \/ Fault(f) PROVE OwnClaims'
  <2> SUFFICES ASSUME NEW g \in Fibers PROVE Own(g)'
    BY DEF OwnClaims
  <2>0. Own(g) /\ Own(f)
    BY DEF OwnClaims
  <2>1. CASE g # f
    <3>1. /\ pc'[g] = pc[g] /\ batch'[g] = batch[g] /\ hand'[g] = hand[g]
          /\ quiet'[g] = quiet[g]
      BY <1>3, <2>1 DEF Deliver, Begin, Claim, HandOver, Answer, LookQuiet, Presume, Look, Fault,
            Ended, TypeOK
    <3> QED BY <3>1, <2>0 DEF Own
  <2>2. CASE g = f
    <3>1. CASE Begin(f)
      BY <2>0, <2>2, <3>1 DEF Begin, Own, TypeOK
    <3>2. CASE Claim(f)
      <4> DEFINE taken == {m \in Messages : Claimable(m)}
                 got == {[m |-> m, was |-> status[m], n |-> attempts[m] + 1, at |-> now] :
                           m \in taken}
      <4>1. /\ batch'[f] = got /\ hand'[f] = {} /\ quiet'[f] = {}
            /\ pc'[f] = IF taken = {} THEN "quiet" ELSE "message"
        BY <2>0, <3>2 DEF Claim, Own, TypeOK
      <4>2. \A c, d \in got : c.m = d.m => c = d
        OBVIOUS
      <4>3. taken = {} => got = {}
        OBVIOUS
      <4> QED BY <2>2, <4>1, <4>2, <4>3 DEF Own
    <3>3. CASE HandOver(f)
      <4>1. PICK c \in batch[f], got \in Outcomes :
              batch'[f] = batch[f] \ {c} /\ hand'[f] = {[c |-> c, got |-> got]}
        BY <3>3 DEF HandOver, TypeOK
      <4>2. pc'[f] = "message" /\ quiet'[f] = {}
        BY <2>0, <3>3 DEF HandOver, Own
      <4>3. \A d \in batch'[f] : d.m # c.m
        BY <2>0, <4>1 DEF Own
      <4> QED BY <2>0, <2>2, <4>1, <4>2, <4>3 DEF Own
    <3>4. CASE Answer(f)
      <4>1. /\ batch'[f] = batch[f] /\ hand'[f] = {} /\ quiet'[f] = {}
            /\ pc'[f] = IF batch[f] = {} THEN "claim" ELSE "message"
        BY <2>0, <3>4 DEF Answer, Own, TypeOK
      <4> QED BY <2>0, <2>2, <4>1 DEF Own
    <3>5. CASE LookQuiet(f) \/ Presume(f)
      <4>1. /\ batch'[f] = {} /\ hand'[f] = {}
            /\ pc'[f] = IF quiet'[f] = {} THEN "look" ELSE "presume"
        BY <2>0, <3>5 DEF LookQuiet, Presume, Own, TypeOK
      <4> QED BY <2>2, <4>1 DEF Own
    <3>6. CASE Look(f)
      BY <2>0, <2>2, <3>6 DEF Look, Own, TypeOK
    <3>7. CASE Fault(f)
      BY <2>2, <3>7 DEF Fault, Ended, Own, TypeOK
    <3> QED BY <1>3, <3>1, <3>2, <3>3, <3>4, <3>5, <3>6, <3>7 DEF Deliver
  <2> QED BY <2>1, <2>2
<1> QED BY <1>1, <1>2, <1>3, Steps

-----------------------------------------------------------------------------
(* What a step does to one row.                                            *)

Unsettled == {"absent", "queued"}
NoMorePlay(m) == \A g \in Fibers : InPlay(g, m)' => InPlay(g, m)

\* It does not bring the row nearer to the provider, ...
Rests(m) ==
    /\ handed'[m] = handed[m] /\ erred'[m] = erred[m] /\ NoMorePlay(m)
    /\ status'[m] \in Unsettled => status[m] \in Unsettled
    /\ status'[m] = "sending" => status[m] = "sending"
\* ... or claims it, ...
Claimed(f, m) ==
    /\ handed'[m] = handed[m] /\ erred'[m] = erred[m]
    /\ status[m] \in Waiting /\ status'[m] = "sending"
    /\ \A g \in Fibers : InPlay(g, m)' => g = f \/ InPlay(g, m)
    /\ InPlay(f, m)' => status[m] = "queued" \/ m \in Deduped
\* ... or hands it over, ...
Taken(f, m) ==
    /\ handed'[m] = handed[m] + 1 /\ status'[m] = status[m]
    /\ InPlay(f, m) /\ NoMorePlay(m)
    /\ \/ erred'[m] = erred[m] + 1
       \/ erred'[m] = erred[m] /\ (m \notin Deduped => ~InPlay(f, m)')
\* ... or puts it back.
PutBack(f, m) ==
    /\ handed'[m] = handed[m] /\ erred'[m] = erred[m]
    /\ InPlay(f, m) /\ NoMorePlay(m) /\ ~InPlay(f, m)'
Moved(m) == Rests(m) \/ \E f \in Fibers : Claimed(f, m) \/ Taken(f, m) \/ PutBack(f, m)

LEMMA AsideRests ==
    ASSUME TypeOK, Aside, NEW m \in Messages
    PROVE  Rests(m)
<1>1. NoMorePlay(m)
  BY AsideKeepsFibers DEF NoMorePlay, InPlay
<1>2. ASSUME NEW x \in Messages, Send(x) \/ Ack(x) \/ Refuse(x) PROVE Rests(m)
  BY <1>1, <1>2 DEF Rests, Send, Ack, Refuse, TypeOK, rows, history, Unsettled
<1>3. ASSUME NEW x \in Messages, NEW k \in Reports \cup {"replied", "auto_replied"}, Record(x, k),
             UNCHANGED <<handed, erred>>
      PROVE  Rests(m)
  <2>1. /\ status' = [status EXCEPT ![x] = StatusAfter(status[x], k)]
        /\ handed' = handed /\ erred' = erred
    BY <1>3 DEF Record
  <2>2. StatusAfter(status[x], k) \in {status[x], k}
    BY StatusMoves DEF TypeOK
  <2>3. k \notin Unsettled \cup {"sending"}
    BY DEF Reports, Unsettled
  <2> QED BY <1>1, <2>1, <2>2, <2>3 DEF Rests, TypeOK
<1>4. ASSUME NEW x \in Messages, NEW k \in Kinds, Report(x, k) PROVE Rests(m)
  BY <1>3, <1>4, RowsAssumption DEF Report, history
<1>5. ASSUME NEW r \in Replies, NEW auto \in BOOLEAN, Replied(r, auto) PROVE Rests(m)
  <2>1. PICK x \in Messages : Record(x, IF auto THEN "auto_replied" ELSE "replied")
                              /\ UNCHANGED <<handed, erred>>
    BY <1>5 DEF Replied, Matches
  <2> QED BY <1>3, <2>1
<1>6. CASE Resume \/ Pause \/ Activate \/ Tick \/ UNCHANGED vars
  BY <1>1, <1>6 DEF Rests, Resume, Pause, Activate, Tick, vars, rows, history
<1> QED BY <1>2, <1>4, <1>5, <1>6 DEF Aside

\* What HandOver takes from the batch, and what becomes of it.
LEMMA HandedOver ==
    ASSUME TypeOK, OwnClaims, NEW f \in Fibers, HandOver(f)
    PROVE  \E c \in batch[f], got \in Outcomes :
              /\ c \in Claims /\ c.m \in Messages /\ [c |-> c, got |-> got] \in Hands
              /\ hand[f] = {}
              /\ batch'[f] = batch[f] \ {c} /\ hand'[f] = {[c |-> c, got |-> got]}
              /\ \A g \in Fibers : g # f => batch'[g] = batch[g] /\ hand'[g] = hand[g]
              /\ \A d \in batch'[f] : d.m # c.m
              /\ Unanswered(c) => got = "timeout"
              /\ \/ /\ ~Unanswered(c) /\ handed' = [handed EXCEPT ![c.m] = @ + 1]
                    /\ IF got = "retry" THEN erred' = [erred EXCEPT ![c.m] = @ + 1] ELSE erred' = erred
                 \/ handed' = handed /\ erred' = erred
              /\ MayRetry([c |-> c, got |-> got]) => ~Unanswered(c)
              /\ (c.m \notin Deduped /\ got \notin {"retry", "down"})
                    => ~MayRetry([c |-> c, got |-> got])
              /\ got = "down" => handed' = handed
              /\ UNCHANGED rows
<1>1. PICK c \in batch[f], got \in Outcomes :
          /\ batch' = [batch EXCEPT ![f] = @ \ {c}]
          /\ hand' = [hand EXCEPT ![f] = {[c |-> c, got |-> got]}]
          /\ Unanswered(c) => got = "timeout"
          /\ handed' = IF Unanswered(c) \/ got = "down" THEN handed
                       ELSE [handed EXCEPT ![c.m] = @ + 1]
          /\ erred' = IF got = "retry" THEN [erred EXCEPT ![c.m] = @ + 1] ELSE erred
  BY DEF HandOver
<1>2. c \in Claims /\ c.m \in Messages
  BY DEF TypeOK, Claims
<1>3. [c |-> c, got |-> got] \in Hands
  BY <1>2 DEF Hands
<1>4. \A d \in batch[f] \ {c} : d.m # c.m
  BY DEF OwnClaims, Own
<1>5. (c.m \notin Deduped /\ got \notin {"retry", "down"}) => ~MayRetry([c |-> c, got |-> got])
  BY DEF MayRetry, Final, Outcomes
<1>6. MayRetry([c |-> c, got |-> got]) => ~Unanswered(c)
  BY <1>1, <1>5 DEF Unanswered
<1>7. hand[f] = {} /\ UNCHANGED rows
  BY DEF HandOver
<1>8. /\ batch'[f] = batch[f] \ {c} /\ hand'[f] = {[c |-> c, got |-> got]}
      /\ \A g \in Fibers : g # f => batch'[g] = batch[g] /\ hand'[g] = hand[g]
  BY <1>1 DEF TypeOK
<1>9. \A d \in batch'[f] : d.m # c.m
  BY <1>4, <1>8
<1>10. /\ \/ /\ ~Unanswered(c) /\ handed' = [handed EXCEPT ![c.m] = @ + 1]
             /\ IF got = "retry" THEN erred' = [erred EXCEPT ![c.m] = @ + 1] ELSE erred' = erred
          \/ handed' = handed /\ erred' = erred
       /\ got = "down" => handed' = handed
  BY <1>1
<1> QED BY <1>1, <1>2, <1>3, <1>5, <1>6, <1>7, <1>8, <1>9, <1>10, Zenon

\* A claim that is handed over was in play, if its send may be repeated or counts.
LEMMA HandOverPlays ==
    ASSUME TypeOK, OwnClaims, NEW f \in Fibers, HandOver(f)
    PROVE  \E c \in batch[f] :
              /\ c.m \in Messages
              /\ \A g \in Fibers, x \in Messages \ {c.m} : InPlay(g, x)' <=> InPlay(g, x)
              /\ \A x \in Messages \ {c.m} : handed'[x] = handed[x] /\ erred'[x] = erred[x]
              /\ NoMorePlay(c.m)
              /\ \/ handed' = handed /\ erred' = erred
                 \/ /\ Taken(f, c.m) /\ handed' = [handed EXCEPT ![c.m] = @ + 1]
                    /\ erred' \in {erred, [erred EXCEPT ![c.m] = @ + 1]}
              /\ UNCHANGED rows
<1>1. PICK c \in batch[f], got \in Outcomes :
              /\ c \in Claims /\ c.m \in Messages /\ [c |-> c, got |-> got] \in Hands
              /\ hand[f] = {}
              /\ batch'[f] = batch[f] \ {c} /\ hand'[f] = {[c |-> c, got |-> got]}
              /\ \A g \in Fibers : g # f => batch'[g] = batch[g] /\ hand'[g] = hand[g]
              /\ \A d \in batch'[f] : d.m # c.m
              /\ Unanswered(c) => got = "timeout"
              /\ \/ /\ ~Unanswered(c) /\ handed' = [handed EXCEPT ![c.m] = @ + 1]
                    /\ IF got = "retry" THEN erred' = [erred EXCEPT ![c.m] = @ + 1] ELSE erred' = erred
                 \/ handed' = handed /\ erred' = erred
              /\ MayRetry([c |-> c, got |-> got]) => ~Unanswered(c)
              /\ (c.m \notin Deduped /\ got \notin {"retry", "down"})
                    => ~MayRetry([c |-> c, got |-> got])
              /\ got = "down" => handed' = handed
              /\ UNCHANGED rows
  BY HandedOver
<1>2. ASSUME NEW g \in Fibers, NEW x \in Messages \ {c.m} PROVE InPlay(g, x)' <=> InPlay(g, x)
  <2>1. CASE g # f
    BY <1>1, <2>1 DEF InPlay
  <2>2. CASE g = f
    <3>1. ~ \E h \in hand[f] : h.c.m = x
      BY <1>1
    <3>2. ~ \E h \in hand'[f] : h.c.m = x
      BY <1>1
    <3>3. (\E d \in batch'[f] : d.m = x /\ ~Unanswered(d)) <=>
            (\E d \in batch[f] : d.m = x /\ ~Unanswered(d))
      BY <1>1
    <3> QED BY <2>2, <3>1, <3>2, <3>3 DEF InPlay
  <2> QED BY <2>1, <2>2
<1>3. InPlay(f, c.m)' => ~Unanswered(c) /\ MayRetry([c |-> c, got |-> got])
  BY <1>1 DEF InPlay
<1>4. ~Unanswered(c) => InPlay(f, c.m)
  BY <1>1 DEF InPlay
<1>5. NoMorePlay(c.m)
  <2> SUFFICES ASSUME NEW g \in Fibers, InPlay(g, c.m)' PROVE InPlay(g, c.m)
    BY DEF NoMorePlay
  <2>1. CASE g # f
    BY <1>1, <2>1 DEF InPlay
  <2>2. CASE g = f
    BY <1>3, <1>4, <2>2
  <2> QED BY <2>1, <2>2
<1>6. \A x \in Messages \ {c.m} : handed'[x] = handed[x] /\ erred'[x] = erred[x]
  BY <1>1 DEF TypeOK
<1>7. ASSUME ~(handed' = handed /\ erred' = erred)
      PROVE  /\ Taken(f, c.m) /\ handed' = [handed EXCEPT ![c.m] = @ + 1]
             /\ erred' \in {erred, [erred EXCEPT ![c.m] = @ + 1]}
  <2>1. /\ ~Unanswered(c) /\ handed' = [handed EXCEPT ![c.m] = @ + 1]
        /\ IF got = "retry" THEN erred' = [erred EXCEPT ![c.m] = @ + 1] ELSE erred' = erred
    BY <1>1, <1>7
  <2>2. /\ handed'[c.m] = handed[c.m] + 1 /\ status'[c.m] = status[c.m] /\ got # "down"
        /\ erred'[c.m] = IF got = "retry" THEN erred[c.m] + 1 ELSE erred[c.m]
    <3>1. status' = status
      BY <1>1 DEF rows
    <3>2. handed'[c.m] = handed[c.m] + 1 /\ handed[c.m] \in Nat
      BY <1>1, <2>1 DEF TypeOK
    <3>3. erred'[c.m] = IF got = "retry" THEN erred[c.m] + 1 ELSE erred[c.m]
      BY <1>1, <2>1 DEF TypeOK
    <3> QED BY <1>1, <3>1, <3>2, <3>3
  <2>3. (got # "retry" /\ c.m \notin Deduped) => ~InPlay(f, c.m)'
    BY <1>1, <1>3, <2>2
  <2> QED BY <1>4, <1>5, <2>1, <2>2, <2>3 DEF Taken
<1> QED BY <1>1, <1>2, <1>5, <1>6, <1>7

\* Every step moves a row in one of the four ways.
LEMMA Moves ==
    ASSUME TypeOK, OwnClaims, [Next]_vars, NEW m \in Messages
    PROVE  Moved(m)
<1>1. CASE Aside
  BY <1>1, AsideRests DEF Moved
<1>2. ASSUME NEW F \in SUBSET Fibers, Ended(F), UNCHANGED <<rows, handed, erred>> PROVE Rests(m)
  <2>1. ASSUME NEW g \in Fibers, InPlay(g, m)' PROVE InPlay(g, m)
    BY <1>2, <2>1 DEF Ended, InPlay
  <2> QED BY <1>2, <2>1 DEF Rests, NoMorePlay, rows
<1>3. CASE Crash
  BY <1>2, <1>3 DEF Crash, Moved
<1>4. ASSUME NEW f \in Fibers, Fault(f) PROVE Rests(m)
  BY <1>2, <1>4 DEF Fault
<1>5. ASSUME NEW f \in Fibers, Begin(f) \/ LookQuiet(f) \/ Presume(f) \/ Look(f) PROVE Rests(m)
  <2>1. UNCHANGED <<batch, hand, handed, erred>>
    BY <1>5 DEF Begin, LookQuiet, Presume, Look, history
  <2>2. NoMorePlay(m)
    BY <2>1 DEF NoMorePlay, InPlay
  <2>3. status'[m] = status[m] \/ status'[m] \in {"skipped", "failed", "delivered"}
    <3>1. CASE Begin(f)
      BY <3>1 DEF Begin, Cleaned
    <3>2. CASE LookQuiet(f) \/ Look(f)
      BY <3>2 DEF LookQuiet, Look, rows
    <3>3. CASE Presume(f)
      <4>1. PICK x \in Messages : status' = [status EXCEPT ![x] = StatusAfter(status[x], "delivered")]
        BY <3>3 DEF Presume, Record, TypeOK
      <4>2. StatusAfter(status[x], "delivered") \in {status[x], "delivered"}
        BY StatusMoves DEF TypeOK, Reports
      <4> QED BY <4>1, <4>2 DEF TypeOK
    <3> QED BY <1>5, <3>1, <3>2, <3>3
  <2> QED BY <2>1, <2>2, <2>3 DEF Rests, Unsettled
<1>6. ASSUME NEW f \in Fibers, Claim(f) PROVE Rests(m) \/ Claimed(f, m)
  <2> DEFINE taken == {x \in Messages : Claimable(x)}
             got == {[m |-> x, was |-> status[x], n |-> attempts[x] + 1, at |-> now] : x \in taken}
  <2>1. /\ batch' = [batch EXCEPT ![f] = got] /\ hand' = hand /\ handed' = handed /\ erred' = erred
        /\ status'[m] = IF m \in taken THEN "sending" ELSE status[m]
    BY <1>6 DEF Claim, history
  <2>2. hand[f] = {}
    BY <1>6 DEF Claim, OwnClaims, Own
  <2>3. ASSUME NEW g \in Fibers, g # f, InPlay(g, m)' PROVE InPlay(g, m)
    BY <2>1, <2>3 DEF InPlay, TypeOK
  <2>4. ASSUME InPlay(f, m)' PROVE m \in taken /\ (status[m] # "sending" \/ m \in Deduped)
    BY <2>1, <2>2, <2>4 DEF InPlay, Unanswered, TypeOK
  <2>5. CASE m \notin taken
    <3>1. NoMorePlay(m)
      BY <2>3, <2>4, <2>5 DEF NoMorePlay
    <3> QED BY <2>1, <2>5, <3>1 DEF Rests
  <2>6. CASE m \in taken
    <3>1. status[m] \in Waiting
      BY <2>6 DEF Claimable, Due, Waiting
    <3>2. Claimed(f, m)
      BY <2>1, <2>3, <2>4, <2>6, <3>1 DEF Claimed, Waiting
    <3> QED BY <3>2
  <2> QED BY <2>5, <2>6
<1>7. ASSUME NEW f \in Fibers, HandOver(f) PROVE Rests(m) \/ Taken(f, m)
  <2>1. PICK c \in batch[f] :
              /\ c.m \in Messages
              /\ \A g \in Fibers, x \in Messages \ {c.m} : InPlay(g, x)' <=> InPlay(g, x)
              /\ \A x \in Messages \ {c.m} : handed'[x] = handed[x] /\ erred'[x] = erred[x]
              /\ NoMorePlay(c.m)
              /\ \/ handed' = handed /\ erred' = erred
                 \/ /\ Taken(f, c.m) /\ handed' = [handed EXCEPT ![c.m] = @ + 1]
                    /\ erred' \in {erred, [erred EXCEPT ![c.m] = @ + 1]}
              /\ UNCHANGED rows
    BY <1>7, HandOverPlays
  <2>2. NoMorePlay(m) /\ status' = status
    BY <2>1 DEF NoMorePlay, rows
  <2> QED BY <2>1, <2>2 DEF Rests
<1>8. ASSUME NEW f \in Fibers, Answer(f) PROVE Rests(m) \/ PutBack(f, m)
  <2>1. PICK h \in hand[f] : status' = [status EXCEPT ![h.c.m] = StatusOf(h.c, h.got)]
    BY <1>8 DEF Answer
  <2>2. h \in Hands /\ h.c.m \in Messages
    BY DEF TypeOK, Hands, Claims
  <2>3. batch' = batch /\ hand' = [hand EXCEPT ![f] = {}] /\ handed' = handed /\ erred' = erred
    BY <1>8 DEF Answer, history
  <2>4. NoMorePlay(m)
    BY <2>3 DEF NoMorePlay, InPlay, TypeOK
  <2>5. CASE h.c.m = m /\ MayRetry(h)
    <3>1. InPlay(f, m)
      BY <2>5 DEF InPlay
    <3>2. ~InPlay(f, m)'
      BY <2>3, <2>5 DEF InPlay, OwnClaims, Own, TypeOK
    <3> QED BY <2>3, <2>4, <3>1, <3>2 DEF PutBack
  <2>6. CASE h.c.m = m /\ ~MayRetry(h)
    <3>1. status'[m] \in {"sent", "uncertain", "failed"}
      BY <2>1, <2>2, <2>6, AnswerWrites DEF TypeOK
    <3> QED BY <2>3, <2>4, <3>1 DEF Rests, Unsettled
  <2>7. CASE h.c.m # m
    <3>1. status'[m] = status[m]
      BY <2>1, <2>7 DEF TypeOK
    <3> QED BY <2>3, <2>4, <3>1 DEF Rests
  <2> QED BY <2>5, <2>6, <2>7
<1> QED BY <1>1, <1>3, <1>4, <1>5, <1>6, <1>7, <1>8, Steps DEF Moved, Deliver

-----------------------------------------------------------------------------
(* No message is handed over twice, but for an error that is retried.      *)

LEMMA OnceStep ==
    ASSUME TypeOK, OwnClaims, SentOnce, [Next]_vars
    PROVE  SentOnce'
<1> SUFFICES ASSUME NEW m \in Messages \ Deduped PROVE Once(m)'
  BY DEF SentOnce
<1>1. Once(m) /\ Moved(m) /\ handed[m] \in Nat /\ erred[m] \in Nat
  BY Moves DEF SentOnce, TypeOK
<1>2. CASE Rests(m)
  BY <1>1, <1>2 DEF Once, Rests, NoMorePlay, Unsettled
<1>3. ASSUME NEW f \in Fibers, Claimed(f, m) PROVE Once(m)'
  BY <1>1, <1>3 DEF Once, Claimed, Waiting
<1>4. ASSUME NEW f \in Fibers, Taken(f, m) PROVE Once(m)'
  BY <1>1, <1>4 DEF Once, Taken, NoMorePlay
<1>5. ASSUME NEW f \in Fibers, PutBack(f, m) PROVE Once(m)'
  BY <1>1, <1>5 DEF Once, PutBack, NoMorePlay
<1> QED BY <1>1, <1>2, <1>3, <1>4, <1>5 DEF Moved

LEMMA InitOnce == Init => OwnClaims /\ SentOnce
BY DEF Init, OwnClaims, Own, SentOnce, Once, InPlay

\* A message is handed to a provider that does not dedupe once, and once more for
\* each error that is retried, for any number of executions, leases that run out,
\* timeouts, crashes and failed statements.
THEOREM TakenAtMostOnce == Spec => []AtMostOnce
<1>1. TypeOK /\ OwnClaims /\ SentOnce /\ [Next]_vars => (TypeOK /\ OwnClaims /\ SentOnce)'
  BY TypeStep, OwnStep, OnceStep
<1>2. SentOnce => AtMostOnce
  BY DEF SentOnce, Once, AtMostOnce
<1> QED BY InitType, InitOnce, <1>1, <1>2, PTL DEF Spec

\* The queue implements Handover: a message is handed over only while it is
\* open, one that no provider dedupes closes with it unless the answer is an error
\* that is retried, and a closed one never opens again, whoever claims, crashes or
\* answers late.
THEOREM ImplementsHandover == Spec => HandoverLife
<1> DEFINE open == {m \in Messages : Open(m)}
<1>1. Init => Life!Init
  BY DEF Init, Life!Init
<1>2. ASSUME TypeOK, OwnClaims, SentOnce, [Next]_vars PROVE [Life!Next]_(Life!vars)
  <2>1. ASSUME NEW m \in Messages, ~ \E f \in Fibers : Taken(f, m), Open(m)' PROVE Open(m)
    <3>1. Moved(m)
      BY <1>2, Moves
    <3> QED BY <2>1, <3>1 DEF Moved, Rests, Claimed, PutBack, NoMorePlay, Open, Unsettled, Waiting
  <2>2. CASE handed' = handed /\ erred' = erred
    <3>1. ASSUME NEW m \in Messages, NEW f \in Fibers PROVE ~Taken(f, m)
      <4>1. handed[m] \in Nat
        BY <1>2 DEF TypeOK
      <4> QED BY <2>2, <4>1 DEF Taken
    <3>2. open' \subseteq open
      BY <2>1, <3>1
    <3> QED BY <2>2, <3>2 DEF Life!Next, Life!Close
  <2>3. CASE ~(handed' = handed /\ erred' = erred)
    <3>1. PICK f \in Fibers : HandOver(f)
      <4>1. Aside \/ Crash => handed' = handed /\ erred' = erred
        BY DEF Aside, Crash, Send, Ack, Refuse, Report, Replied, Resume, Pause, Activate, Tick, vars, history
      <4>2. ASSUME NEW f \in Fibers, Deliver(f) \/ Fault(f) PROVE HandOver(f)
        BY <2>3, <4>2 DEF Deliver, Fault, Begin, Claim, Answer, LookQuiet, Presume, Look, history
      <4> QED BY <1>2, <2>3, <4>1, <4>2, Steps
    <3>2. PICK c \in batch[f] :
              /\ c.m \in Messages
              /\ \A g \in Fibers, x \in Messages \ {c.m} : InPlay(g, x)' <=> InPlay(g, x)
              /\ \A x \in Messages \ {c.m} : handed'[x] = handed[x] /\ erred'[x] = erred[x]
              /\ NoMorePlay(c.m)
              /\ \/ handed' = handed /\ erred' = erred
                 \/ /\ Taken(f, c.m) /\ handed' = [handed EXCEPT ![c.m] = @ + 1]
                    /\ erred' \in {erred, [erred EXCEPT ![c.m] = @ + 1]}
              /\ UNCHANGED rows
      BY <1>2, <3>1, HandOverPlays
    <3>3. /\ Taken(f, c.m) /\ handed' = [handed EXCEPT ![c.m] = @ + 1] /\ status' = status
          /\ erred' \in {erred, [erred EXCEPT ![c.m] = @ + 1]}
      BY <2>3, <3>2 DEF rows
    <3>4. c.m \in open
      BY <3>2, <3>3 DEF Open, Taken
    <3>5. ASSUME NEW x \in Messages \ {c.m} PROVE Open(x)' <=> Open(x)
      BY <3>2, <3>3 DEF Open
    <3>6. open' = open \/ open' = open \ {c.m}
      BY <3>4, <3>5
    <3>7. ASSUME erred' = erred, c.m \notin Deduped PROVE ~Open(c.m)'
      <4>1. Once(c.m)
        BY <1>2, <3>2, <3>7 DEF SentOnce
      <4>2. ~InPlay(f, c.m)'
        <5>1. erred[c.m] \in Nat
          BY <1>2, <3>2 DEF TypeOK
        <5> QED BY <3>3, <3>7, <5>1 DEF Taken
      <4>3. status[c.m] \notin {"absent", "queued"} /\ \A g \in Fibers : ~InPlay(g, c.m)'
        BY <3>3, <4>1, <4>2 DEF Once, Taken, NoMorePlay
      <4> QED BY <3>3, <3>7, <4>3 DEF Open
    <3>8. Life!Take(c.m)
      BY <3>3, <3>4, <3>6, <3>7 DEF Life!Take
    <3> QED BY <3>2, <3>8 DEF Life!Next
  <2> QED BY <2>2, <2>3
<1>3. TypeOK /\ OwnClaims /\ SentOnce /\ [Next]_vars => (TypeOK /\ OwnClaims /\ SentOnce)'
  BY TypeStep, OwnStep, OnceStep
<1> QED BY InitType, InitOnce, <1>1, <1>2, <1>3, PTL DEF Spec, HandoverLife, Life!Spec

-----------------------------------------------------------------------------
(* What a step writes to one row.                                          *)

KeepsRest(m) == presumeAt'[m] = presumeAt[m] /\ (m \in known' <=> m \in known)
Keeps(m) == status'[m] = status[m] /\ claimedAt'[m] = claimedAt[m] /\ KeepsRest(m)
Sent(m) ==
    /\ status[m] = "absent" /\ status'[m] = "queued" /\ KeepsRest(m)
    /\ Later(m) # {} => m \in strayed'
Skipped(m) ==
    /\ status[m] = "queued" \/ (m \in Barred /\ status[m] = "sending")
    /\ status'[m] \in {"skipped", "failed"}
    /\ claimedAt'[m] = claimedAt[m] /\ KeepsRest(m)
ClaimedBy(f, m) ==
    /\ Claim(f) /\ Claimable(m)
    /\ status'[m] = "sending" /\ claimedAt'[m] = now /\ KeepsRest(m)
AnsweredBy(f, m) ==
    /\ Answer(f)
    /\ \E h \in hand[f] :
          /\ h.c.m = m /\ status'[m] = StatusOf(h.c, h.got)
          /\ h.got = "sent" => m \in known'
          /\ h.got # "sent" => KeepsRest(m)
\* A reply that finds a row by its thread.
AsReply(m, k) == k = "auto_replied" \/ (k = "replied" /\ (status[m] \in Waiting => m \in strayed'))
ReportedOn(m) ==
    \E k \in Reports \cup {"replied", "auto_replied"} :
        /\ status'[m] = StatusAfter(status[m], k) /\ claimedAt'[m] = claimedAt[m]
        /\ (m \in known' <=> m \in known)
        /\ presumeAt'[m] = 0 \/ (k \in {"sent", "deferred", "auto_replied"} /\ KeepsRest(m))
        /\ m \in known \/ AsReply(m, k)
RowMoved(m) ==
    \/ Keeps(m) \/ Sent(m) \/ Skipped(m) \/ ReportedOn(m)
    \/ \E f \in Fibers : ClaimedBy(f, m) \/ AnsweredBy(f, m)

\* One report, on the row it is about and on the others.
LEMMA RecordMoves ==
    ASSUME TypeOK, NEW m \in Messages, NEW x \in Messages,
           NEW k \in Reports \cup {"replied", "auto_replied"},
           Record(x, k), UNCHANGED <<claimedAt, known>>,
           x \in known \/ AsReply(x, k)
    PROVE  Keeps(m) \/ ReportedOn(m)
<1>1. status' = [status EXCEPT ![x] = StatusAfter(status[x], k)]
  BY DEF Record
<1>2. presumeAt' = IF k \in {"sent", "deferred", "auto_replied"} THEN presumeAt
                  ELSE [presumeAt EXCEPT ![x] = 0]
  BY DEF Record
<1>3. CASE m # x
  BY <1>1, <1>2, <1>3 DEF Keeps, KeepsRest, TypeOK
<1>4. CASE m = x
  <2>1. status'[m] = StatusAfter(status[m], k) /\ claimedAt'[m] = claimedAt[m]
    BY <1>1, <1>4 DEF TypeOK
  <2>2. presumeAt'[m] = 0 \/ (k \in {"sent", "deferred", "auto_replied"} /\ KeepsRest(m))
    BY <1>2, <1>4 DEF TypeOK, KeepsRest
  <2>3. m \in known \/ AsReply(m, k)
    BY <1>4
  <2>4. m \in known' <=> m \in known
    OBVIOUS
  <2> QED BY <2>1, <2>2, <2>3, <2>4 DEF ReportedOn
<1> QED BY <1>3, <1>4

\* Every step writes a row in one of these ways.
LEMMA RowMoves ==
    ASSUME TypeOK, Told, [Next]_vars, NEW m \in Messages
    PROVE  RowMoved(m)
<1>1. UNCHANGED <<status, claimedAt, presumeAt, known>> => Keeps(m)
  BY DEF Keeps, KeepsRest
<1>2. ASSUME NEW x \in Messages, Send(x) PROVE Keeps(m) \/ Sent(m)
  <2>1. CASE m = x
    BY <1>2, <2>1 DEF Send, Sent, KeepsRest, TypeOK
  <2>2. CASE m # x
    BY <1>2, <2>2 DEF Send, Keeps, KeepsRest, TypeOK
  <2> QED BY <2>1, <2>2
<1>3. ASSUME NEW x \in Messages, Ack(x) PROVE Keeps(m)
  BY <1>1, <1>3 DEF Ack, rows
<1>4. ASSUME NEW x \in Messages, Refuse(x) PROVE Keeps(m) \/ Skipped(m)
  <2>1. CASE m = x
    <3>1. UNCHANGED <<claimedAt, presumeAt, known>>
      BY <1>4 DEF Refuse
    <3>2. \/ status[m] = "queued" /\ status' = [status EXCEPT ![m] = "skipped"]
          \/ status' = status
      BY <1>4, <2>1 DEF Refuse
    <3> QED BY <3>1, <3>2 DEF Keeps, Skipped, KeepsRest, TypeOK
  <2>2. CASE m # x
    BY <1>4, <2>2 DEF Refuse, Keeps, KeepsRest, TypeOK
  <2> QED BY <2>1, <2>2
<1>5. ASSUME NEW x \in Messages, NEW k \in Kinds, Report(x, k) PROVE Keeps(m) \/ ReportedOn(m)
  BY <1>5, RecordMoves, RowsAssumption DEF Report
<1>6. ASSUME NEW r \in Replies, NEW auto \in BOOLEAN, Replied(r, auto)
      PROVE  Keeps(m) \/ ReportedOn(m)
  <2> DEFINE k == IF auto THEN "auto_replied" ELSE "replied"
  <2>1. PICK x \in Matches(r) :
          /\ Record(x, k) /\ UNCHANGED <<claimedAt, known>>
          /\ (~auto /\ status[x] \in Waiting) => x \in strayed'
    BY <1>6 DEF Replied
  <2>2. x \in Messages /\ k \in Reports \cup {"replied", "auto_replied"}
    BY DEF Matches
  <2>3. k = "auto_replied" \/ (k = "replied" /\ (status[x] \in Waiting => x \in strayed'))
    BY <2>1
  <2>4. AsReply(x, k)
    BY <2>3, Zenon DEF AsReply
  <2> HIDE DEF k
  <2> QED BY <2>1, <2>2, <2>4, RecordMoves
<1>7. Resume \/ Pause \/ Activate \/ Tick \/ Crash => Keeps(m)
  BY <1>1 DEF Resume, Pause, Activate, Tick, Crash, rows
<1>8. ASSUME NEW f \in Fibers, Fault(f) \/ HandOver(f) \/ LookQuiet(f) \/ Look(f) PROVE Keeps(m)
  BY <1>1, <1>8 DEF Fault, HandOver, LookQuiet, Look, rows
<1>9. ASSUME NEW f \in Fibers, Begin(f) PROVE Keeps(m) \/ Skipped(m)
  <2>1. UNCHANGED <<claimedAt, presumeAt, known>>
    BY <1>9 DEF Begin
  <2>2. status'[m] = Cleaned(m)
    BY <1>9 DEF Begin
  <2>3. \/ Cleaned(m) = status[m]
        \/ /\ Cleaned(m) \in {"skipped", "failed"}
           /\ status[m] = "queued" \/ (m \in Barred /\ status[m] = "sending")
    BY DEF Cleaned, Waiting, Barred
  <2> QED BY <2>1, <2>2, <2>3 DEF Keeps, Skipped, KeepsRest
<1>10. ASSUME NEW f \in Fibers, Claim(f) PROVE Keeps(m) \/ ClaimedBy(f, m)
  <2>1. /\ status'[m] = IF Claimable(m) THEN "sending" ELSE status[m]
        /\ claimedAt'[m] = IF Claimable(m) THEN now ELSE claimedAt[m]
        /\ presumeAt' = presumeAt /\ known' = known
    BY <1>10 DEF Claim
  <2> QED BY <1>10, <2>1 DEF Keeps, ClaimedBy, KeepsRest
<1>11. ASSUME NEW f \in Fibers, Answer(f) PROVE Keeps(m) \/ AnsweredBy(f, m)
  <2>1. PICK h \in hand[f] :
          /\ status' = [status EXCEPT ![h.c.m] = StatusOf(h.c, h.got)]
          /\ claimedAt' = [claimedAt EXCEPT ![h.c.m] = 0]
          /\ known' = IF h.got = "sent" THEN known \cup {h.c.m} ELSE known
          /\ presumeAt' =
                IF h.got # "sent" THEN presumeAt
                ELSE [presumeAt EXCEPT ![h.c.m] = IF Quiet = 0 THEN 0 ELSE readAt[f] + Quiet]
    BY <1>11 DEF Answer
  <2>2. CASE h.c.m # m
    BY <2>1, <2>2 DEF Keeps, KeepsRest, TypeOK
  <2>3. CASE h.c.m = m
    <3>1. status'[m] = StatusOf(h.c, h.got)
      BY <2>1, <2>3 DEF TypeOK
    <3>2. h.got = "sent" => m \in known'
      BY <2>1, <2>3
    <3>3. h.got # "sent" => KeepsRest(m)
      BY <2>1 DEF KeepsRest
    <3> QED BY <1>11, <2>3, <3>1, <3>2, <3>3 DEF AnsweredBy
  <2> QED BY <2>2, <2>3
<1>12. ASSUME NEW f \in Fibers, Presume(f) PROVE Keeps(m) \/ ReportedOn(m)
  <2>1. PICK x \in quiet[f] : Record(x, "delivered")
    BY <1>12 DEF Presume
  <2>2. x \in Messages /\ x \in known /\ "delivered" \in Reports
    BY DEF TypeOK, Told, Reports
  <2>3. UNCHANGED <<claimedAt, known>>
    BY <1>12 DEF Presume
  <2> QED BY <2>1, <2>2, <2>3, RecordMoves
<1>13. UNCHANGED vars => Keeps(m)
  BY <1>1 DEF vars, rows
<1> QED BY <1>2, <1>3, <1>4, <1>5, <1>6, <1>7, <1>8, <1>9, <1>10, <1>11, <1>12, <1>13
        DEF Next, Deliver, RowMoved

-----------------------------------------------------------------------------
(* Who holds a claim.                                                      *)

\* A claim is held because it was, by an execution that did not answer for its
\* row, or because the claim was just made.
NewClaim(f, c) == Claim(f) /\ ClaimedBy(f, c.m) /\ c.at = now
LEMMA HoldsMoves ==
    ASSUME TypeOK, OwnClaims, [Next]_vars, NEW f \in Fibers, NEW c \in Holds(f)'
    PROVE  c \in Claims /\ c.m \in Messages
           /\ ((c \in Holds(f) /\ ~AnsweredBy(f, c.m)) \/ NewClaim(f, c))
<1>0. c \in Claims /\ c.m \in Messages
  BY TypeStep DEF TypeOK, Holds, Hands, Claims
<1>1. CASE batch'[f] \subseteq batch[f] /\ hand'[f] \subseteq hand[f] /\ ~Answer(f)
  BY <1>0, <1>1 DEF Holds, AnsweredBy
<1>2. CASE Claim(f)
  <2>1. hand'[f] = {}
    BY <1>2 DEF Claim, OwnClaims, Own
  <2>2. batch'[f] = {[m |-> x, was |-> status[x], n |-> attempts[x] + 1, at |-> now] :
                       x \in {y \in Messages : Claimable(y)}}
    BY <1>2 DEF Claim, TypeOK
  <2>3. PICK x \in Messages : Claimable(x) /\ c.m = x /\ c.at = now
    BY <2>1, <2>2 DEF Holds
  <2>4. status'[x] = "sending" /\ claimedAt'[x] = now /\ KeepsRest(x)
    BY <1>2, <2>3 DEF Claim, KeepsRest
  <2> QED BY <1>0, <1>2, <2>3, <2>4 DEF NewClaim, ClaimedBy
<1>3. CASE HandOver(f)
  <2>1. Holds(f)' = Holds(f)
    <3>1. PICK d \in batch[f], got \in Outcomes :
            /\ hand[f] = {}
            /\ batch'[f] = batch[f] \ {d} /\ hand'[f] = {[c |-> d, got |-> got]}
      BY <1>3, HandedOver
    <3> QED BY <3>1 DEF Holds
  <2>2. ~Answer(f)
    BY <1>3 DEF HandOver, Answer
  <2> QED BY <1>0, <2>1, <2>2 DEF AnsweredBy
<1>4. CASE Answer(f)
  <2>1. batch'[f] = batch[f] /\ hand'[f] = {} /\ hand' = [hand EXCEPT ![f] = {}]
    BY <1>4 DEF Answer, TypeOK
  <2>2. c \in batch[f]
    BY <2>1 DEF Holds
  <2>3. \A h \in hand[f] : h.c.m # c.m
    BY <2>2 DEF OwnClaims, Own
  <2> QED BY <1>0, <2>2, <2>3 DEF Holds, AnsweredBy
<1>5. ~Answer(f) /\ ~HandOver(f) /\ ~Claim(f) => batch'[f] \subseteq batch[f] /\ hand'[f] \subseteq hand[f]
  <2>1. CASE Aside
    BY <2>1, AsideKeepsFibers
  <2>2. CASE Crash
    BY <2>2 DEF Crash, Ended
  <2>3. ASSUME NEW g \in Fibers, Deliver(g) \/ Fault(g)
        PROVE  ~Answer(f) /\ ~HandOver(f) /\ ~Claim(f) =>
                 batch'[f] \subseteq batch[f] /\ hand'[f] \subseteq hand[f]
    <3>1. Fault(g) => batch'[f] \subseteq batch[f] /\ hand'[f] \subseteq hand[f]
      BY DEF Fault, Ended
    <3>2. Begin(g) \/ LookQuiet(g) \/ Presume(g) \/ Look(g) => batch' = batch /\ hand' = hand
      BY DEF Begin, LookQuiet, Presume, Look
    <3>3. g # f /\ (Claim(g) \/ HandOver(g) \/ Answer(g)) => batch'[f] = batch[f] /\ hand'[f] = hand[f]
      BY DEF Claim, HandOver, Answer, TypeOK
    <3> QED BY <2>3, <3>1, <3>2, <3>3 DEF Deliver
  <2> QED BY <2>1, <2>2, <2>3, Steps
<1> QED BY <1>1, <1>2, <1>3, <1>4, <1>5

\* Two executions do not claim in one step.
LEMMA OneClaims ==
    ASSUME TypeOK, NEW f \in Fibers, NEW g \in Fibers, Claim(f), Claim(g)
    PROVE  f = g
BY DEF Claim, TypeOK

\* An execution answers for a row that it holds.
LEMMA AnswersWhatItHolds ==
    ASSUME TypeOK, NEW f \in Fibers, NEW m \in Messages, AnsweredBy(f, m)
    PROVE  \E h \in hand[f] :
              /\ h \in Hands /\ h.c \in Holds(f) /\ h.c.m = m
              /\ status'[m] = StatusOf(h.c, h.got)
              /\ h.got = "sent" => m \in known'
              /\ h.got # "sent" => KeepsRest(m)
<1>1. PICK h \in hand[f] :
          /\ h.c.m = m /\ status'[m] = StatusOf(h.c, h.got)
          /\ h.got = "sent" => m \in known'
          /\ h.got # "sent" => KeepsRest(m)
  BY DEF AnsweredBy
<1>2. h \in Hands /\ h.c \in Holds(f)
  BY DEF TypeOK, Holds
<1> QED BY <1>1, <1>2

\* A report leaves a row in its status, or in one that is not of the queue.
LEMMA ReportLeaves ==
    ASSUME TypeOK, NEW m \in Messages, ReportedOn(m)
    PROVE  /\ status'[m] = status[m] \/ status'[m] \notin Waiting \cup {"absent"}
           /\ status[m] \in TERMINAL => status'[m] = status[m]
           /\ status[m] \in {"delivered", "read", "opened"} =>
                 status'[m] \notin Waiting \cup {"sent", "uncertain", "deferred"}
           /\ m \notin known => status'[m] \in {status[m], "replied"}
           /\ presumeAt'[m] # 0 => presumeAt'[m] = presumeAt[m] /\ status'[m] \in {status[m], "sent", "deferred"}
           /\ claimedAt'[m] = claimedAt[m] /\ (m \in known' <=> m \in known)
<1>1. PICK k \in Reports \cup {"replied", "auto_replied"} :
        /\ status'[m] = StatusAfter(status[m], k) /\ claimedAt'[m] = claimedAt[m]
        /\ (m \in known' <=> m \in known)
        /\ presumeAt'[m] = 0 \/ (k \in {"sent", "deferred", "auto_replied"} /\ KeepsRest(m))
        /\ m \in known \/ AsReply(m, k)
  BY DEF ReportedOn
<1>2. /\ status[m] \in Statuses /\ status'[m] \in {status[m], k} /\ status'[m] \in Statuses
      /\ status[m] \in TERMINAL => status'[m] = status[m]
      /\ status[m] \in {"delivered", "read", "opened"} =>
            status'[m] \notin Waiting \cup {"sent", "uncertain", "deferred"}
  BY <1>1, StatusMoves DEF TypeOK
<1>3. k \notin Waiting \cup {"absent"} /\ "auto_replied" \notin Statuses
  BY DEF Reports, Waiting, Statuses
<1>4. status'[m] = status[m] \/ status'[m] \notin Waiting \cup {"absent"}
  BY <1>2, <1>3
<1>5. m \notin known => status'[m] \in {status[m], "replied"}
  BY <1>1, <1>2, <1>3 DEF AsReply
<1>6. presumeAt'[m] # 0 =>
         presumeAt'[m] = presumeAt[m] /\ status'[m] \in {status[m], "sent", "deferred"}
  BY <1>1, <1>2, <1>3 DEF KeepsRest
<1> QED BY <1>1, <1>2, <1>4, <1>5, <1>6

-----------------------------------------------------------------------------
(* Rows that must not be sent, and what is told of a row.                  *)

LEMMA ToldStep ==
    ASSUME TypeOK, OwnClaims, Told, [Next]_vars
    PROVE  Told'
<1>1. ASSUME NEW m \in Messages, status'[m] \in ToldStatuses \/ presumeAt'[m] # 0
      PROVE  m \in known'
  <2>0. /\ status[m] \in ToldStatuses \/ presumeAt[m] # 0 => m \in known
        /\ RowMoved(m)
    BY RowMoves DEF Told
  <2>1. CASE Keeps(m) \/ Sent(m) \/ Skipped(m)
    BY <1>1, <2>0, <2>1 DEF Keeps, Sent, Skipped, KeepsRest, ToldStatuses
  <2>2. ASSUME NEW f \in Fibers, ClaimedBy(f, m) PROVE m \in known'
    BY <1>1, <2>0, <2>2 DEF ClaimedBy, KeepsRest, ToldStatuses
  <2>3. ASSUME NEW f \in Fibers, AnsweredBy(f, m) PROVE m \in known'
    <3>1. PICK h \in hand[f] :
            /\ h \in Hands /\ status'[m] = StatusOf(h.c, h.got)
            /\ h.got = "sent" => m \in known'
            /\ h.got # "sent" => KeepsRest(m)
      BY <2>3, AnswersWhatItHolds
    <3> QED BY <1>1, <2>0, <3>1, AnswerWrites DEF ToldStatuses, KeepsRest
  <2>4. CASE ReportedOn(m)
    BY <1>1, <2>0, <2>4, ReportLeaves DEF ToldStatuses
  <2> QED BY <2>0, <2>1, <2>2, <2>3, <2>4 DEF RowMoved
<1>2. known \subseteq known'
  <2> SUFFICES ASSUME NEW m \in known PROVE m \in known'
    OBVIOUS
  <2>1. m \in Messages
    BY DEF TypeOK
  <2>2. CASE \E f \in Fibers : AnsweredBy(f, m)
    BY <2>2 DEF AnsweredBy, KeepsRest
  <2>3. ReportedOn(m) => m \in known'
    BY <2>1, ReportLeaves
  <2> QED BY <2>1, <2>2, <2>3, RowMoves DEF RowMoved, Keeps, Sent, Skipped, ClaimedBy, KeepsRest
<1>3. ASSUME NEW f \in Fibers PROVE quiet'[f] \subseteq known
  <2>1. CASE LookQuiet(f)
    BY <2>1 DEF LookQuiet, Told, ToldStatuses, TypeOK
  <2>2. ~LookQuiet(f) => quiet'[f] \subseteq quiet[f]
    <3>1. CASE Aside
      BY <3>1, AsideKeepsFibers
    <3>2. CASE Crash
      BY <3>2 DEF Crash, Ended
    <3>3. ASSUME NEW g \in Fibers, Deliver(g) \/ Fault(g), ~LookQuiet(f)
          PROVE  quiet'[f] \subseteq quiet[f]
      <4>1. Fault(g) => quiet'[f] \subseteq quiet[f]
        BY DEF Fault, Ended
      <4>2. Presume(g) => quiet'[f] \subseteq quiet[f]
        BY DEF Presume, TypeOK
      <4>3. LookQuiet(g) => quiet'[f] = quiet[f]
        BY <3>3 DEF LookQuiet, TypeOK
      <4>4. Begin(g) \/ Claim(g) \/ HandOver(g) \/ Answer(g) \/ Look(g) => quiet' = quiet
        BY DEF Begin, Claim, HandOver, Answer, Look
      <4> QED BY <3>3, <4>1, <4>2, <4>3, <4>4 DEF Deliver
    <3> QED BY <3>1, <3>2, <3>3, Steps
  <2> QED BY <2>1, <2>2 DEF Told
<1> QED BY <1>1, <1>2, <1>3 DEF Told

LEMMA AbandonedStep ==
    ASSUME TypeOK, OwnClaims, Told, Abandoned, [Next]_vars
    PROVE  Abandoned'
<1> SUFFICES ASSUME NEW m \in Barred
             PROVE  /\ handed'[m] = 0 /\ status'[m] # "absent"
                    /\ \A f \in Fibers : \A c \in Holds(f)' : c.m # m
                    /\ (\E f \in Fibers : Live(f)') => status'[m] \notin Waiting
  BY DEF Abandoned
<1>0. /\ m \in Messages /\ handed[m] = 0 /\ status[m] # "absent"
      /\ \A f \in Fibers : \A c \in Holds(f) : c.m # m
      /\ (\E f \in Fibers : Live(f)) => status[m] \notin Waiting
      /\ RowMoved(m) /\ Moved(m)
  BY RowsAssumption, RowMoves, Moves DEF Abandoned, Barred
<1>1. ASSUME NEW f \in Fibers PROVE ~ClaimedBy(f, m)
  BY <1>0 DEF ClaimedBy, Claim, Claimable, Due, Live, Waiting
<1>2. ASSUME NEW f \in Fibers PROVE ~AnsweredBy(f, m)
  BY <1>0, AnswersWhatItHolds
<1>3. status'[m] # "absent" /\ (status'[m] \in Waiting => status[m] \in Waiting)
  <2>1. ReportedOn(m) => status'[m] = status[m] \/ status'[m] \notin Waiting \cup {"absent"}
    BY <1>0, ReportLeaves
  <2> QED BY <1>0, <1>1, <1>2, <2>1 DEF RowMoved, Keeps, Sent, Skipped, Waiting
<1>4. \A f \in Fibers : \A c \in Holds(f)' : c.m # m
  BY <1>0, <1>1, HoldsMoves DEF NewClaim
<1>5. handed'[m] = 0
  <2>1. \A f \in Fibers : ~InPlay(f, m)
    BY <1>0 DEF InPlay, Holds
  <2> QED BY <1>0, <2>1 DEF Moved, Rests, Claimed, Taken, PutBack
<1>6. ASSUME NEW f \in Fibers, Live(f)' PROVE status'[m] \notin Waiting
  <2>1. CASE Live(f)
    BY <1>0, <1>3, <2>1
  <2>2. CASE ~Live(f)
    <3>1. Begin(f)
      <4>1. ~Aside /\ ~Crash
        BY <1>6, <2>2, AsideKeepsFibers DEF Live, Crash, Ended
      <4>2. ASSUME NEW g \in Fibers, Deliver(g) \/ Fault(g) PROVE Begin(f)
        BY <1>6, <2>2, <4>2 DEF Deliver, Fault, Live, Ended, Begin, Claim, HandOver, Answer,
              LookQuiet, Presume, Look, TypeOK
      <4> QED BY <4>1, <4>2, Steps
    <3> QED BY <1>0, <3>1 DEF Begin, Cleaned, Waiting, Barred
  <2> QED BY <2>1, <2>2
<1> QED BY <1>3, <1>4, <1>5, <1>6

LEMMA InitTold == Init => Told /\ Abandoned
BY RowsAssumption DEF Init, Told, ToldStatuses, Abandoned, Barred, Holds, Live

\* A row left by a fork or a restore, or of an account that has become a member's
\* own, is never handed over, whoever delivers.
THEOREM ForeignNeverSent == Spec => []ForeignStays
<1> DEFINE I == TypeOK /\ OwnClaims /\ Told /\ Abandoned
<1>1. Init => I
  BY InitType, InitOnce, InitTold
<1>2. I /\ [Next]_vars => I'
  BY TypeStep, OwnStep, ToldStep, AbandonedStep
<1>3. I => ForeignStays
  BY DEF Abandoned, ForeignStays
<1> QED BY <1>1, <1>2, <1>3, PTL DEF Spec

-----------------------------------------------------------------------------
(* While leases last.                                                      *)

LEMMA TimeMoves ==
    ASSUME TypeOK, [Next]_vars, ~overran'
    PROVE  /\ ~overran
           /\ now' = now \/ \A f \in Fibers : \A c \in Holds(f) : now' < c.at + Lease
<1>1. CASE Tick
  <2>1. ~overran /\ \A f \in Fibers : \A c \in Holds(f) : ~(c.at + Lease <= now')
    BY <1>1 DEF Tick
  <2>2. ASSUME NEW f \in Fibers, NEW c \in Holds(f) PROVE now' < c.at + Lease
    <3>1. c.at \in Nat
      BY HoldsAreClaims DEF Claims, Times
    <3>2. now' \in Nat
      BY TypeStep DEF TypeOK
    <3> QED BY <2>1, <3>1, <3>2, TimesAssumption
  <2> QED BY <2>1, <2>2
<1>2. CASE ~Tick
  <2>1. Aside => UNCHANGED <<now, overran>>
    BY <1>2 DEF Aside, Send, Ack, Refuse, Report, Replied, Resume, Pause, Activate, vars, history
  <2>2. Crash => UNCHANGED <<now, overran>>
    BY DEF Crash
  <2>3. ASSUME NEW f \in Fibers, Deliver(f) \/ Fault(f) PROVE UNCHANGED <<now, overran>>
    BY <2>3 DEF Deliver, Fault, Begin, Claim, HandOver, Answer, LookQuiet, Presume, Look, history
  <2> QED BY <2>1, <2>2, <2>3, Steps
<1> QED BY <1>1, <1>2

LEMMA LeasedStep ==
    ASSUME TypeOK, OwnClaims, Told, Leased, [Next]_vars
    PROVE  Leased'
<1> SUFFICES ASSUME ~overran' PROVE LeaseHolds'
  BY DEF Leased
<1>0. LeaseHolds /\ (now' = now \/ \A f \in Fibers : \A c \in Holds(f) : now' < c.at + Lease)
  BY TimeMoves DEF Leased
\* A row that is held is not claimed again.
<1>1. ASSUME NEW f \in Fibers, NEW c \in Holds(f), c.m \in Messages PROVE ~Claimable(c.m)
  <2>1. /\ claimedAt[c.m] = c.at /\ now < c.at + Lease /\ status[c.m] # "queued"
    BY <1>0 DEF LeaseHolds
  <2>2. c.at \in Nat /\ now \in Nat
    BY HoldsAreClaims DEF Claims, Times, TypeOK
  <2> QED BY <2>1, <2>2, TimesAssumption DEF Claimable, Due
<1>2. ASSUME NEW f \in Fibers, NEW c \in Holds(f)'
      PROVE  /\ claimedAt'[c.m] = c.at /\ now' < c.at + Lease
             /\ status'[c.m] \notin {"absent", "queued"} /\ c.m \notin known'
  <2>1. c \in Claims /\ c.m \in Messages /\ c.at \in Nat /\ now \in Nat
    BY HoldsMoves DEF Claims, Times, TypeOK
  <2>2. CASE NewClaim(f, c)
    <3>1. claimedAt'[c.m] = c.at /\ status'[c.m] = "sending" /\ c.at = now
      BY <2>2 DEF NewClaim, ClaimedBy
    <3>2. now' = now
      BY <2>2 DEF NewClaim, Claim
    <3>3. c.m \notin known'
      BY <1>0, <2>2 DEF NewClaim, ClaimedBy, Claimable, Due, LeaseHolds, KeepsRest, Waiting
    <3> QED BY <2>1, <3>1, <3>2, <3>3, TimesAssumption
  <2>3. CASE c \in Holds(f) /\ ~AnsweredBy(f, c.m)
    <3>1. /\ claimedAt[c.m] = c.at /\ now < c.at + Lease
          /\ status[c.m] \notin {"absent", "queued"} /\ c.m \notin known
      BY <1>0, <2>3 DEF LeaseHolds
    <3>2. now' < c.at + Lease
      BY <1>0, <2>3, <3>1
    <3>3. RowMoved(c.m) /\ \A g \in Fibers : ~ClaimedBy(g, c.m)
      BY <1>1, <2>1, <2>3, RowMoves DEF ClaimedBy
    <3>4. \A g \in Fibers : ~AnsweredBy(g, c.m)
      BY <1>0, <2>1, <2>3, AnswersWhatItHolds DEF LeaseHolds
    <3>5. ReportedOn(c.m) => /\ status'[c.m] \in {status[c.m], "replied"}
                             /\ claimedAt'[c.m] = claimedAt[c.m] /\ c.m \notin known'
      BY <2>1, <3>1, ReportLeaves
    <3> QED BY <3>1, <3>2, <3>3, <3>4, <3>5 DEF RowMoved, Keeps, Sent, Skipped, KeepsRest
  <2> QED BY <2>2, <2>3, HoldsMoves
<1>3. ASSUME NEW f \in Fibers, NEW g \in Fibers, NEW c \in Holds(f)', NEW d \in Holds(g)', c.m = d.m
      PROVE  f = g
  <2>1. c.m \in Messages /\ (c \in Holds(f) \/ NewClaim(f, c)) /\ (d \in Holds(g) \/ NewClaim(g, d))
    BY HoldsMoves
  <2>2. CASE c \in Holds(f) /\ d \in Holds(g)
    BY <1>0, <1>3, <2>2 DEF LeaseHolds
  <2>3. CASE NewClaim(f, c) /\ NewClaim(g, d)
    BY <2>3, OneClaims DEF NewClaim
  <2>4. ~(c \in Holds(f) /\ NewClaim(g, d)) /\ ~(d \in Holds(g) /\ NewClaim(f, c))
    BY <1>1, <1>3, <2>1 DEF NewClaim, ClaimedBy
  <2> QED BY <2>1, <2>2, <2>3, <2>4
<1>4. ASSUME NEW m \in known' PROVE status'[m] \notin Waiting \cup {"absent"}
  <2>1. m \in Messages /\ RowMoved(m) /\ (m \in known => status[m] \notin Waiting \cup {"absent"})
    <3>1. m \in Messages
      BY TypeStep DEF TypeOK
    <3> QED BY <1>0, <3>1, RowMoves DEF LeaseHolds
  <2>2. ASSUME NEW f \in Fibers, AnsweredBy(f, m) PROVE status'[m] = "sent"
    <3>1. PICK h \in hand[f] :
            /\ h \in Hands /\ h.c \in Holds(f) /\ h.c.m = m
            /\ status'[m] = StatusOf(h.c, h.got)
            /\ h.got # "sent" => KeepsRest(m)
      BY <2>1, <2>2, AnswersWhatItHolds
    <3>2. m \notin known
      BY <1>0, <3>1 DEF LeaseHolds
    <3> QED BY <3>1, <3>2, <1>4, AnswerWrites DEF KeepsRest
  <2>3. ASSUME NEW f \in Fibers PROVE ~ClaimedBy(f, m)
    BY <1>4, <2>1 DEF ClaimedBy, Claimable, Due, Waiting, KeepsRest
  <2>4. ReportedOn(m) => status'[m] \notin Waiting \cup {"absent"}
    BY <1>4, <2>1, ReportLeaves
  <2> QED BY <1>4, <2>1, <2>2, <2>3, <2>4 DEF RowMoved, Keeps, Sent, Skipped, KeepsRest, Waiting
<1>5. ASSUME NEW m \in Messages, presumeAt'[m] # 0 PROVE status'[m] \in {"sent", "deferred"}
  <2>1. /\ RowMoved(m)
        /\ presumeAt[m] # 0 => status[m] \in {"sent", "deferred"} /\ m \in known
    BY <1>0, RowMoves DEF LeaseHolds, Told
  <2>2. ASSUME NEW f \in Fibers, AnsweredBy(f, m) PROVE status'[m] = "sent"
    <3>1. PICK h \in hand[f] :
            /\ h \in Hands /\ h.c \in Holds(f) /\ h.c.m = m
            /\ status'[m] = StatusOf(h.c, h.got)
            /\ h.got # "sent" => KeepsRest(m)
      BY <2>1, <2>2, AnswersWhatItHolds
    <3>2. m \notin known
      BY <1>0, <3>1 DEF LeaseHolds
    <3> QED BY <2>1, <3>1, <3>2, <1>5, AnswerWrites DEF KeepsRest
  <2>3. ASSUME NEW f \in Fibers PROVE ~ClaimedBy(f, m)
    BY <1>5, <2>1 DEF ClaimedBy, Claimable, Due, KeepsRest
  <2>4. ReportedOn(m) => status'[m] \in {"sent", "deferred"}
    BY <1>5, <2>1, ReportLeaves
  <2> QED BY <1>5, <2>1, <2>2, <2>3, <2>4 DEF RowMoved, Keeps, Sent, Skipped, KeepsRest
<1> QED BY <1>2, <1>3, <1>4, <1>5 DEF LeaseHolds

LEMMA InitLeased == Init => Leased
BY DEF Init, Leased, LeaseHolds, Holds

\* All the parts together are an invariant.
THEOREM SafeInvariant == Spec => []SafeInv
<1>1. Init => SafeInv
  BY InitType, InitOnce, InitTold, InitLeased DEF SafeInv
<1>2. SafeInv /\ [Next]_vars => SafeInv'
  BY TypeStep, OwnStep, OnceStep, ToldStep, AbandonedStep, LeasedStep DEF SafeInv
<1> QED BY <1>1, <1>2, PTL DEF Spec

\* What a provider reported is not taken back by the queue's own writes, until a
\* lease runs out under an execution that still sends.
THEOREM ReportsAreKept == Spec => ReportsStay
<1>1. ASSUME SafeInv, [Next]_vars, ~overran, NEW m \in Messages
      PROVE  /\ status[m] \in {"bounced", "complained"} => status'[m] = status[m]
             /\ status[m] \in {"delivered", "read", "opened"} =>
                   status'[m] \notin Waiting \cup {"sent", "uncertain", "deferred"}
  <2> SUFFICES ASSUME status[m] \in {"bounced", "complained", "delivered", "read", "opened"}
               PROVE  \/ status'[m] = status[m]
                      \/ /\ status[m] \notin {"bounced", "complained"}
                         /\ status'[m] \notin Waiting \cup {"sent", "uncertain", "deferred"}
    BY DEF Waiting
  <2>1. TypeOK /\ OwnClaims /\ Told /\ LeaseHolds
    BY <1>1 DEF SafeInv, Leased
  <2>2. m \in known /\ RowMoved(m)
    BY <1>1, <2>1, RowMoves DEF Told, ToldStatuses
  <2>3. \A f \in Fibers : ~AnsweredBy(f, m)
    BY <2>1, <2>2, AnswersWhatItHolds DEF LeaseHolds
  <2>4. \A f \in Fibers : ~ClaimedBy(f, m)
    BY DEF ClaimedBy, Claimable, Due
  <2>5. CASE ReportedOn(m)
    BY <2>1, <2>5, ReportLeaves DEF TERMINAL
  <2> QED BY <2>2, <2>3, <2>4, <2>5 DEF RowMoved, Keeps, Sent, Skipped
<1>2. SafeInv /\ [Next]_vars =>
        [~overran => \A m \in Messages :
          /\ status[m] \in {"bounced", "complained"} => status'[m] = status[m]
          /\ status[m] \in {"delivered", "read", "opened"} =>
                status'[m] \notin Waiting \cup {"sent", "uncertain", "deferred"}]_vars
  BY <1>1
<1> QED BY SafeInvariant, <1>2, PTL DEF Spec, ReportsStay

-----------------------------------------------------------------------------
(* The order of a conversation.                                            *)

\* While leases last, a row that is held is written by its holder alone.
LEMMA HeldIsAlone ==
    ASSUME SafeInv, ~overran, NEW f \in Fibers, NEW c \in Holds(f), NEW g \in Fibers
    PROVE  /\ c.m \in Messages \ Barred /\ ~ClaimedBy(g, c.m)
           /\ AnsweredBy(g, c.m) => g = f
<1>1. c \in Claims /\ c.m \in Messages /\ c.at \in Nat /\ now \in Nat
  BY HoldsAreClaims DEF Claims, Times, TypeOK, SafeInv
<1>2. /\ LeaseHolds /\ claimedAt[c.m] = c.at /\ now < c.at + Lease
      /\ status[c.m] \notin {"absent", "queued"} /\ c.m \notin Barred
  BY DEF SafeInv, Leased, LeaseHolds, Abandoned
<1>3. ~ClaimedBy(g, c.m)
  BY <1>1, <1>2, TimesAssumption DEF ClaimedBy, Claimable, Due
<1>4. AnsweredBy(g, c.m) => g = f
  BY <1>1, <1>2, AnswersWhatItHolds DEF LeaseHolds, SafeInv
<1> QED BY <1>1, <1>2, <1>3, <1>4

\* What has strayed stays so.
LEMMA StrayedStays ==
    ASSUME [Next]_vars
    PROVE  strayed \subseteq strayed'
<1>1. CASE Aside
  BY <1>1 DEF Aside, Send, Ack, Refuse, Report, Replied, Resume, Pause, Activate, Tick, vars, history
<1>2. CASE Crash
  BY <1>2 DEF Crash
<1>3. ASSUME NEW f \in Fibers, Deliver(f) \/ Fault(f) PROVE strayed' = strayed
  BY <1>3 DEF Deliver, Fault, Begin, Claim, HandOver, Answer, LookQuiet, Presume, Look, history
<1> QED BY <1>1, <1>2, <1>3, Steps

\* A row that comes before one that is in the queue waited already, or strays.
LEMMA WaitedOrStrays ==
    ASSUME SafeInv, InLine, [Next]_vars, ~overran', NEW m \in Messages, status[m] # "absent",
           NEW p \in Overtaken(m)', p \notin strayed'
    PROVE  p \in Overtaken(m)
<1>1. /\ TypeOK /\ OwnClaims /\ Told /\ ~overran /\ p \notin strayed
      /\ p \in Messages /\ p < m /\ ConvOf[p] = ConvOf[m] /\ status'[p] \in Waiting
  BY TimeMoves, StrayedStays DEF SafeInv, Overtaken
<1>2. RowMoved(p)
  BY <1>1, RowMoves
<1>3. ~Sent(p)
  <2>1. p \in Nat /\ m \in Nat
    BY <1>1, RowsAssumption
  <2>2. m \in Later(p)
    BY <1>1, <2>1 DEF Later
  <2> QED BY <2>2 DEF Sent
<1>4. ReportedOn(p) => status[p] = status'[p]
  BY <1>1, ReportLeaves
<1>5. ASSUME NEW f \in Fibers, AnsweredBy(f, p) PROVE status[p] = "sending"
  <2>1. PICK h \in hand[f] : h.c \in Holds(f) /\ h.c.m = p
    BY <1>1, <1>5, AnswersWhatItHolds
  <2> QED BY <1>1, <2>1 DEF InLine
<1>6. status[p] \in Waiting
  BY <1>1, <1>2, <1>3, <1>4, <1>5 DEF RowMoved, Keeps, Skipped, ClaimedBy, Claimable, Due, Waiting
<1> QED BY <1>1, <1>6 DEF Overtaken

LEMMA InLineStep ==
    ASSUME SafeInv, InLine, [Next]_vars
    PROVE  InLine'
<1> SUFFICES ASSUME ~overran'
             PROVE  /\ \A f \in Fibers : \A c \in Holds(f)' :
                          /\ status'[c.m] = "sending" \/ c.m \in strayed'
                          /\ Overtaken(c.m)' \subseteq strayed'
                    /\ \A m \in Messages \ Barred :
                          status'[m] = "sending" => Overtaken(m)' \subseteq strayed'
  BY DEF InLine, Overtaken
<1>0. /\ TypeOK /\ OwnClaims /\ Told /\ ~overran /\ LeaseHolds /\ strayed \subseteq strayed'
      /\ \A f \in Fibers : \A c \in Holds(f) :
            (status[c.m] = "sending" \/ c.m \in strayed) /\ Overtaken(c.m) \subseteq strayed
      /\ \A m \in Messages \ Barred : status[m] = "sending" => Overtaken(m) \subseteq strayed
  BY TimeMoves, StrayedStays DEF SafeInv, InLine, Leased
<1>1. ASSUME NEW m \in Messages, status[m] # "absent", Overtaken(m) \subseteq strayed
      PROVE  Overtaken(m)' \subseteq strayed'
  BY <1>0, <1>1, WaitedOrStrays
<1>3. ASSUME NEW f \in Fibers, NEW m \in Messages, ClaimedBy(f, m)
      PROVE  Overtaken(m)' \subseteq strayed'
  <2>1. Overtaken(m) = {} /\ status[m] # "absent"
    BY <1>3 DEF ClaimedBy, Claimable, Due, Behind, Overtaken
  <2> QED BY <1>1, <2>1
<1>4. ASSUME NEW f \in Fibers, NEW c \in Holds(f)'
      PROVE  /\ status'[c.m] = "sending" \/ c.m \in strayed'
             /\ Overtaken(c.m)' \subseteq strayed'
  <2>1. /\ c.m \in Messages /\ RowMoved(c.m)
        /\ (c \in Holds(f) /\ ~AnsweredBy(f, c.m)) \/ NewClaim(f, c)
    BY <1>0, HoldsMoves, RowMoves
  <2>2. CASE NewClaim(f, c)
    BY <1>3, <2>1, <2>2 DEF NewClaim, ClaimedBy
  <2>3. CASE c \in Holds(f) /\ ~AnsweredBy(f, c.m)
    <3>1. /\ c.m \notin Barred /\ (status[c.m] = "sending" \/ c.m \in strayed)
          /\ status[c.m] # "absent" /\ c.m \notin known
          /\ \A g \in Fibers : ~ClaimedBy(g, c.m) /\ ~AnsweredBy(g, c.m)
      BY <1>0, <2>3, HeldIsAlone DEF LeaseHolds
    <3>2. (ReportedOn(c.m) /\ status[c.m] = "sending") =>
             status'[c.m] = "sending" \/ c.m \in strayed'
      BY <3>1 DEF ReportedOn, AsReply, Waiting, StatusAfter
    <3>3. status'[c.m] = "sending" \/ c.m \in strayed'
      BY <1>0, <2>1, <3>1, <3>2 DEF RowMoved, Keeps, Sent, Skipped
    <3>4. Overtaken(c.m)' \subseteq strayed'
      BY <1>0, <1>1, <2>1, <2>3, <3>1
    <3> QED BY <3>3, <3>4
  <2> QED BY <2>1, <2>2, <2>3
<1>5. ASSUME NEW m \in Messages \ Barred, status'[m] = "sending"
      PROVE  Overtaken(m)' \subseteq strayed'
  <2>1. RowMoved(m)
    BY <1>0, RowMoves
  <2>2. ASSUME NEW f \in Fibers PROVE ~AnsweredBy(f, m)
    BY <1>0, <1>5, AnswersWhatItHolds, AnswerWrites
  <2>3. ReportedOn(m) => status[m] = "sending"
    BY <1>0, <1>5, ReportLeaves DEF Waiting
  <2>4. status[m] = "sending" \/ \E f \in Fibers : ClaimedBy(f, m)
    BY <1>5, <2>1, <2>2, <2>3 DEF RowMoved, Keeps, Sent, Skipped
  <2> QED BY <1>0, <1>1, <1>3, <2>4
<1> QED BY <1>4, <1>5

LEMMA InitInLine == Init => InLine
BY DEF Init, InLine, Holds, Barred

\* A conversation is sent in order: no message is handed over while an earlier one
\* waits, but for those that committed late or that a reply on their thread found
\* waiting, until a lease runs out under an execution that still sends.
THEOREM SentInOrder == Spec => InOrder
<1>1. Init => SafeInv /\ InLine
  BY InitType, InitOnce, InitTold, InitLeased, InitInLine DEF SafeInv
<1>2. SafeInv /\ InLine /\ [Next]_vars => (SafeInv /\ InLine)'
  BY TypeStep, OwnStep, OnceStep, ToldStep, AbandonedStep, LeasedStep, InLineStep DEF SafeInv
<1>3. ASSUME SafeInv, InLine, [Next]_vars, NEW m \in Messages, handed'[m] > handed[m], ~overran
      PROVE  Overtaken(m) \subseteq strayed
  <2>1. handed[m] \in Nat /\ Moved(m)
    BY <1>3, Moves DEF SafeInv, TypeOK
  <2>2. PICK f \in Fibers : Taken(f, m)
    BY <1>3, <2>1 DEF Moved, Rests, Claimed, PutBack
  <2>3. PICK c \in Holds(f) : c.m = m
    BY <2>2 DEF Taken, InPlay, Holds
  <2> QED BY <1>3, <2>3 DEF InLine
<1>4. SafeInv /\ InLine /\ [Next]_vars =>
        [\A m \in Messages :
           (handed'[m] > handed[m] /\ ~overran) => Overtaken(m) \subseteq strayed]_vars
  BY <1>3
<1> QED BY <1>1, <1>2, <1>4, PTL DEF Spec, InOrder

-----------------------------------------------------------------------------
(* The wake of a row that waits.                                           *)

\* A step that takes no row out of the queue and leaves this one alone leaves
\* it a head only if it was one, due when it was.
LEMMA HeadKept ==
    ASSUME NEW m \in Messages, Head(m)',
           \A p \in Messages : status[p] \in Waiting => status'[p] \in Waiting,
           status'[m] = status[m], nextAt'[m] = nextAt[m], claimedAt'[m] = claimedAt[m],
           release'[m] = release[m]
    PROVE  Head(m) /\ DueAt(m)' = DueAt(m)
BY DEF Head, Behind, Released, DueAt

\* It stays covered if no run goes and every execution goes on.
LEMMA CoverKept ==
    ASSUME NEW m \in Messages, Covered(m), DueAt(m)' = DueAt(m), now' = now, runs \subseteq runs',
           \A f \in Fibers : pc[f] \in {"claim", "message"} => pc'[f] \in {"claim", "message"},
           \A f \in Fibers : Live(f) => Live(f)'
    PROVE  Covered(m)'
BY DEF Covered, Woken, Live

\* A run that is due now covers every row.
LEMMA RunNowCovers ==
    ASSUME NEW m, now \in Nat, now \in runs', now' = now
    PROVE  Covered(m)'
BY DEF Covered, Woken

\* What an execution that looks when to wake leaves behind: a run, or another
\* execution that covers the row.
LEMMA LookCovers ==
    ASSUME OrderInv, ~missed, ~overran, ~passed, strayed = {},
           NEW f \in Fibers, Look(f), NEW m \in Messages, Head(m)
    PROVE  Covered(m)'
<1> DEFINE W == Wakes(now)
           due == Least(W)
<1>0. /\ TypeOK /\ OwnClaims /\ LeaseHolds /\ now \in Nat
      /\ \A x \in Messages : Head(x) => Covered(x)
      /\ \A x \in Messages : Overdue(x) => \E g \in Fibers : Presumes(g, x)
      /\ \A x \in Messages \ Barred : status[x] = "sending" => ~Behind(x)
      /\ readAt[f] = now
  <2>1. \A x \in Messages \ Barred : status[x] = "sending" => ~Behind(x)
    BY DEF OrderInv, InLine, Overtaken, Behind
  <2> QED BY <2>1 DEF OrderInv, SafeInv, Leased, WakeInv, Look, TypeOK
<1>1. /\ runs' = IF due > now THEN runs \cup {due} ELSE runs
      /\ now' = now /\ UNCHANGED rows /\ release' = release
      /\ \A g \in Fibers : g # f => pc'[g] = pc[g]
      /\ pc[f] = "look"
  BY <1>0 DEF Look, TypeOK, around
<1>2. DueAt(m)' = DueAt(m) /\ DueAt(m) \in Nat
  <2>1. UNCHANGED <<status, nextAt, claimedAt>>
    BY <1>1 DEF rows
  <2> QED BY <1>0, <2>1, TimesAssumption DEF DueAt, TypeOK, Times
<1>3. W \subseteq Nat /\ due \in Nat /\ (W # {} => due \in W /\ \A u \in W : due <= u)
  BY <1>0, WakesAreTimes, LeastIsLeast
<1>4. runs \subseteq runs' /\ (Woken(m) => Woken(m)')
  BY <1>1, <1>2 DEF Woken
\* Another execution that lives covers a row that is not due yet.
<1>5. ASSUME NEW g \in Fibers, g # f, pc[g] \in {"claim", "message"} \/ (Live(g) /\ DueAt(m) > now)
      PROVE  Covered(m)'
  BY <1>1, <1>2, <1>5 DEF Covered, Live
<1>6. CASE Woken(m) \/ \E g \in Fibers : pc[g] \in {"claim", "message"}
  <2>1. CASE Woken(m)
    BY <1>4, <2>1 DEF Covered
  <2>2. CASE \E g \in Fibers : pc[g] \in {"claim", "message"}
    BY <1>1, <1>5, <2>2
  <2> QED BY <1>6, <2>1, <2>2
<1>7. CASE DueAt(m) > now /\ ~ \E g \in Fibers : pc[g] \in {"claim", "message"}
  <2>1. DueAt(m) \in W
    BY <1>7 DEF Wakes, Head, DueAt, Waiting
  <2>2. due \in W /\ due <= DueAt(m)
    BY <1>3, <2>1
  <2>3. CASE due > now
    <3>1. due \in runs' /\ due <= DueAt(m) + Lease
      BY <1>1, <1>2, <1>3, <2>2, <2>3, TimesAssumption
    <3> QED BY <1>2, <3>1 DEF Covered, Woken
  <2>4. CASE due <= now
    <3>1. PICK x \in Messages :
             \/ status[x] = "sending" /\ Released(x) /\ claimedAt[x] + Lease = due
             \/ presumeAt[x] # 0 /\ presumeAt[x] = due
      <4>1. ~ \E x \in Messages : nextAt[x] > now /\ nextAt[x] = due
        BY <1>0, <1>3, <2>4 DEF TypeOK, Times
      <4> QED BY <2>2, <4>1 DEF Wakes
    <3>2. CASE presumeAt[x] # 0 /\ presumeAt[x] = due
      <4>1. Overdue(x)
        BY <1>0, <1>3, <2>4, <3>2 DEF Overdue
      <4>2. PICK g \in Fibers : Presumes(g, x)
        BY <1>0, <4>1
      <4>3. g # f /\ Live(g)
        BY <1>0, <1>1, <1>7, <4>2 DEF Presumes, OwnClaims, Own, Live
      <4> QED BY <1>5, <1>7, <4>3
    <3>3. CASE status[x] = "sending" /\ Released(x) /\ claimedAt[x] + Lease = due
      <4>1. Live(f) /\ x \notin Barred
        BY <1>1, <3>3 DEF Live, OrderInv, SafeInv, Abandoned, Waiting
      <4>2. Head(x) /\ DueAt(x) = due
        BY <1>0, <3>3, <4>1 DEF Head, DueAt, Waiting
      <4>3. Woken(x)
        BY <1>0, <1>3, <1>7, <2>4, <4>2 DEF Covered
      <4>4. PICK t \in runs : t <= now \/ t <= due + Lease
        BY <4>2, <4>3 DEF Woken
      <4>5. t \in Nat /\ Lease \in Nat
        BY <1>0, TimesAssumption DEF TypeOK, Times
      <4>6. t <= now \/ t <= DueAt(m) + Lease
        BY <1>0, <1>2, <1>3, <2>2, <4>4, <4>5
      <4>7. Woken(m)
        BY <4>6 DEF Woken
      <4> QED BY <1>4, <4>7 DEF Covered
    <3> QED BY <3>1, <3>2, <3>3
  <2> QED BY <1>0, <1>3, <2>3, <2>4
<1>8. Covered(m)
  BY <1>0
<1> QED BY <1>6, <1>7, <1>8 DEF Covered

\* A report on a row that does not wait moves none that does.
LEMMA RecordIsAside ==
    ASSUME TypeOK, NEW x \in Messages,
           NEW k \in Reports \cup {"replied", "auto_replied"}, Record(x, k),
           status[x] \notin Waiting \/ k = "auto_replied"
    PROVE  /\ \A p \in Messages : status[p] \in Waiting => status'[p] \in Waiting
           /\ \A m \in Messages : Head(m)' => status'[m] = status[m]
<1>1. status' = [status EXCEPT ![x] = StatusAfter(status[x], k)]
  BY DEF Record
<1>2. StatusAfter(status[x], k) = status[x] \/ (status[x] \notin Waiting /\ StatusAfter(status[x], k) \notin Waiting)
  <2>1. StatusAfter(status[x], k) \in {status[x], k}
    BY <1>1, StatusMoves DEF TypeOK
  <2>2. k = "auto_replied" => StatusAfter(status[x], k) = status[x]
    BY DEF StatusAfter
  <2> QED BY <2>1, <2>2 DEF Reports, Waiting
<1>3. \A p \in Messages : p # x => status'[p] = status[p]
  BY <1>1 DEF TypeOK
<1>4. status'[x] = status[x] \/ (status[x] \notin Waiting /\ status'[x] \notin Waiting)
  BY <1>1, <1>2 DEF TypeOK
<1> QED BY <1>3, <1>4 DEF Head

\* A claim covers every row, whatever the one before passed by: it takes some, or
\* nothing is due.
LEMMA ClaimCovers ==
    ASSUME TypeOK, NEW f \in Fibers, Claim(f), ~passed', NEW m \in Messages, Head(m)'
    PROVE  Covered(m)'
<1> DEFINE taken == {x \in Messages : Claimable(x)}
<1>1. pc'[f] = IF taken = {} THEN "quiet" ELSE "message"
  BY DEF Claim, TypeOK
<1>2. CASE taken # {}
  BY <1>1, <1>2 DEF Covered
<1>3. CASE taken = {}
  <2>1. /\ now' = now /\ release' = release
        /\ \A x \in Messages : /\ status'[x] = status[x] /\ nextAt'[x] = nextAt[x]
                                /\ claimedAt'[x] = claimedAt[x]
    BY <1>3 DEF Claim, around
  <2>2. Head(m) /\ DueAt(m)' = DueAt(m)
    BY <2>1, HeadKept
  <2>3. ~Due(m)
    <3>1. active \/ ~ \E x \in Messages : Due(x)
      BY DEF Claim, TypeOK
    <3> QED BY <1>3, <3>1 DEF Claimable
  <2>4. DueAt(m) > now
    <3>1. nextAt[m] \in Nat /\ claimedAt[m] \in Nat /\ now \in Nat
      BY DEF TypeOK, Times
    <3> QED BY <2>2, <2>3, <3>1, TimesAssumption DEF Head, Due, DueAt, Waiting
  <2>5. Live(f)'
    BY <1>1, <1>3 DEF Live
  <2> QED BY <2>1, <2>2, <2>4, <2>5 DEF Covered
<1> QED BY <1>2, <1>3

LEMMA HeadsStep ==
    ASSUME OrderInv, [Next]_vars, ~missed', ~overran', ~passed', strayed' = {},
           NEW m \in Messages, Head(m)'
    PROVE  Covered(m)'
<1>0. /\ SafeInv /\ TypeOK /\ OwnClaims /\ Told /\ ~overran /\ LeaseHolds /\ strayed = {}
      /\ now \in Nat /\ runs \subseteq Nat /\ m \in Nat
  BY TimeMoves, StrayedStays, RowsAssumption DEF Leased, OrderInv, SafeInv, TypeOK, Times
<1>1. ~missed
  <2>1. Aside \/ Crash => (missed => missed')
    BY DEF Aside, Crash, Send, Ack, Refuse, Report, Replied, Resume, Pause, Activate, Tick, vars, history
  <2>2. ASSUME NEW f \in Fibers, Deliver(f) \/ Fault(f) PROVE missed => missed'
    BY <2>2 DEF Deliver, Fault, Begin, Claim, HandOver, Answer, LookQuiet, Presume, Look, history
  <2> QED BY <2>1, <2>2, Steps
<1> SUFFICES ASSUME ~ \E f \in Fibers : Claim(f) PROVE Covered(m)'
  BY <1>0, ClaimCovers
<1>2. ~passed /\ \A x \in Messages : Head(x) => Covered(x)
  <2>1. ~passed
    <3>1. Aside \/ Crash => passed' = passed
      BY DEF Aside, Crash, Send, Ack, Refuse, Report, Replied, Resume, Pause, Activate, Tick, vars,
            history
    <3>2. ASSUME NEW f \in Fibers, Deliver(f) \/ Fault(f) PROVE passed' = passed
      BY <3>2 DEF Deliver, Fault, Begin, HandOver, Answer, LookQuiet, Presume, Look, history
    <3> QED BY <3>1, <3>2, Steps
  <2> QED BY <1>0, <1>1, <2>1 DEF OrderInv, WakeInv
\* Steps that leave the rows that wait, the runs and the executions alone.
<1>3. ASSUME \A p \in Messages : status[p] \in Waiting => status'[p] \in Waiting,
             status'[m] = status[m], nextAt'[m] = nextAt[m], claimedAt'[m] = claimedAt[m],
             release'[m] = release[m], now' = now, runs \subseteq runs',
             \A f \in Fibers : pc[f] \in {"claim", "message"} => pc'[f] \in {"claim", "message"},
             \A f \in Fibers : Live(f) => Live(f)'
      PROVE  Covered(m)'
  BY <1>2, <1>3, HeadKept, CoverKept
<1>4. ASSUME NEW x \in Messages, Send(x) PROVE Covered(m)'
  <2>1. /\ now' = now /\ runs \subseteq runs' /\ pc' = pc /\ release' = release
        /\ status[x] = "absent"
        /\ status' = [status EXCEPT ![x] = "queued"]
        /\ nextAt' = [nextAt EXCEPT ![x] = now] /\ claimedAt' = claimedAt
        /\ runs' = IF x \in Synced THEN runs ELSE runs \cup {now}
    BY <1>4 DEF Send, around, fibers
  <2>2. CASE m # x
    BY <1>0, <1>3, <2>1, <2>2 DEF Live, TypeOK, Waiting
  <2>3. CASE m = x /\ m \notin Synced
    BY <1>0, <2>1, <2>3, RunNowCovers
  <2>4. CASE m = x /\ m \in Synced
    <3>1. m \notin Barred
      BY DEF Head
    <3>2. release[m] = "waiting"
      BY <2>1, <2>4, <3>1 DEF OrderInv, WakeInv
    <3> QED BY <2>1, <3>2 DEF Head, Released
  <2> QED BY <2>2, <2>3, <2>4
<1>5. ASSUME NEW x \in Messages, Ack(x) PROVE Covered(m)'
  BY <1>0, <1>5, RunNowCovers DEF Ack
<1>6. ASSUME NEW x \in Messages, Refuse(x) PROVE Covered(m)'
  <2>1. /\ now' = now /\ pc' = pc /\ UNCHANGED <<nextAt, claimedAt>>
        /\ release' = [release EXCEPT ![x] = "refused"]
        /\ (runs' = runs \cup {now}) \/ (status' = status /\ runs' = runs)
    BY <1>6 DEF Refuse, fibers
  <2>2. CASE runs' = runs \cup {now}
    BY <1>0, <2>1, <2>2, RunNowCovers
  <2>3. CASE status' = status /\ runs' = runs
    <3>1. m # x
      BY <1>0, <2>1 DEF Head, Released, TypeOK
    <3> QED BY <1>0, <1>3, <2>1, <2>3, <3>1 DEF Live, TypeOK
  <2> QED BY <2>1, <2>2, <2>3
<1>7. ASSUME NEW x \in Messages, NEW k \in Reports \cup {"replied", "auto_replied"}, Record(x, k),
             status[x] \notin Waiting \/ k = "auto_replied", UNCHANGED <<nextAt, claimedAt, release, now, runs>>,
             \A f \in Fibers : pc[f] \in {"claim", "message"} => pc'[f] \in {"claim", "message"},
             \A f \in Fibers : Live(f) => Live(f)'
      PROVE  Covered(m)'
  <2>1. /\ \A p \in Messages : status[p] \in Waiting => status'[p] \in Waiting
        /\ status'[m] = status[m]
    BY <1>0, <1>7, RecordIsAside
  <2> QED BY <1>3, <1>7, <2>1
<1>8. ASSUME NEW x \in Messages, NEW k \in Kinds, Report(x, k) PROVE Covered(m)'
  <2>1. /\ Record(x, k) /\ x \in known /\ pc' = pc
        /\ UNCHANGED <<nextAt, claimedAt, release, now, runs>>
    BY <1>8 DEF Report, around, fibers
  <2>2. status[x] \notin Waiting /\ k \in Reports
    BY <1>0, <2>1, RowsAssumption DEF LeaseHolds
  <2> QED BY <1>7, <2>1, <2>2 DEF Live
<1>9. ASSUME NEW r \in Replies, NEW auto \in BOOLEAN, Replied(r, auto) PROVE Covered(m)'
  <2>1. PICK x \in Matches(r) :
          /\ Record(x, IF auto THEN "auto_replied" ELSE "replied")
          /\ pc' = pc /\ UNCHANGED <<nextAt, claimedAt, release, now, runs>>
          /\ (~auto /\ status[x] \in Waiting) => x \in strayed'
    BY <1>9 DEF Replied, around, fibers
  <2>2. x \in Messages /\ (status[x] \notin Waiting \/ auto)
    BY <2>1 DEF Matches
  <2> QED BY <1>7, <2>1, <2>2 DEF Live
<1>10. ASSUME Resume PROVE Covered(m)'
  <2>1. /\ now' = now /\ pc' = pc /\ UNCHANGED <<status, claimedAt, release>>
        /\ nextAt' = [x \in Messages |-> IF x \in Resumed THEN now ELSE nextAt[x]]
        /\ runs' = IF Resumed # {} THEN runs \cup {now} ELSE runs
    BY <1>10 DEF Resume, fibers
  <2>2. CASE Resumed # {}
    BY <1>0, <2>1, <2>2, RunNowCovers
  <2>3. CASE Resumed = {}
    BY <1>3, <2>1, <2>3 DEF Live
  <2> QED BY <2>2, <2>3
<1>11. ASSUME Tick PROVE Covered(m)'
  <2>1. /\ now' = now + 1 /\ pc' = pc /\ runs' = runs
        /\ UNCHANGED <<status, nextAt, claimedAt, release>>
        /\ \A f \in Fibers : pc[f] \notin {"quiet", "presume", "look"}
    BY <1>11 DEF Tick, fibers, around, rows
  <2>2. Head(m) /\ DueAt(m)' = DueAt(m)
    BY <2>1, HeadKept
  <2>3. \A f \in Fibers : Live(f) => pc[f] \in {"claim", "message"}
    BY <1>0, <2>1 DEF Live, TypeOK
  <2>4. CASE Woken(m)
    <3>1. PICK t \in runs : t <= now \/ t <= DueAt(m) + Lease
      BY <2>4 DEF Woken
    <3>2. t <= now' \/ t <= DueAt(m) + Lease
      BY <1>0, <2>1, <3>1
    <3> QED BY <2>1, <2>2, <3>2 DEF Covered, Woken
  <2>5. CASE \E f \in Fibers : pc[f] \in {"claim", "message"}
    BY <2>1, <2>5 DEF Covered
  <2> QED BY <1>2, <2>2, <2>3, <2>4, <2>5 DEF Covered
<1>12. ASSUME Crash PROVE Covered(m)'
  <2>1. Live(Runner)
    BY <1>12 DEF Crash
  <2> QED BY <1>0, <1>12, <2>1, RunNowCovers DEF Crash
<1>16. ASSUME Pause \/ Activate PROVE Covered(m)'
  BY <1>3, <1>16 DEF Pause, Activate, rows, fibers, Live
<1>13. ASSUME UNCHANGED vars PROVE Covered(m)'
  BY <1>3, <1>13 DEF vars, rows, around, fibers, Live
<1>14. ASSUME NEW f \in Fibers, Fault(f) PROVE Covered(m)'
  BY <1>14 DEF Fault
<1>15. ASSUME NEW f \in Fibers, Begin(f) \/ HandOver(f) \/ Answer(f) PROVE Covered(m)'
  <2>1. pc'[f] \in {"claim", "message"}
    BY <1>0, <1>15 DEF Begin, HandOver, Answer, TypeOK
  <2> QED BY <2>1 DEF Covered
<1>17. ASSUME NEW f \in Fibers, LookQuiet(f) PROVE Covered(m)'
  <2>1. /\ UNCHANGED <<status, nextAt, claimedAt, release, now, runs>>
        /\ pc[f] = "quiet" /\ pc'[f] \in {"look", "presume"}
        /\ \A g \in Fibers : g # f => pc'[g] = pc[g]
    BY <1>0, <1>17 DEF LookQuiet, TypeOK, rows, around
  <2> QED BY <1>3, <2>1 DEF Live
<1>18. ASSUME NEW f \in Fibers, Presume(f) PROVE Covered(m)'
  <2>1. PICK x \in quiet[f] : Record(x, "delivered")
    BY <1>18 DEF Presume
  <2>2. x \in Messages /\ status[x] \notin Waiting /\ "delivered" \in Reports
    BY <1>0 DEF TypeOK, Told, LeaseHolds, Reports
  <2>3. /\ UNCHANGED <<nextAt, claimedAt, release, now, runs>>
        /\ pc[f] = "presume" /\ pc'[f] \in {"look", "presume"}
        /\ \A g \in Fibers : g # f => pc'[g] = pc[g]
    BY <1>0, <1>18 DEF Presume, TypeOK, around
  <2> QED BY <1>7, <2>1, <2>2, <2>3 DEF Live
<1>19. ASSUME NEW f \in Fibers, Look(f) PROVE Covered(m)'
  <2>1. UNCHANGED <<status, nextAt, claimedAt, release>>
    BY <1>19 DEF Look, rows, around
  <2>2. Head(m)
    BY <2>1, HeadKept
  <2> QED BY <1>0, <1>1, <1>2, <1>19, <2>2, LookCovers
<1> QED BY <1>4, <1>5, <1>6, <1>8, <1>9, <1>10, <1>11, <1>12, <1>13, <1>14, <1>15, <1>16, <1>17,
           <1>18, <1>19 DEF Next, Deliver

\* A step aside leaves the presumptions that are due, or takes some away.
LEMMA AsidePresumes ==
    ASSUME TypeOK, Aside, NEW m \in Messages
    PROVE  presumeAt'[m] \in {presumeAt[m], 0}
<1>1. ASSUME NEW x \in Messages, NEW k, Record(x, k) PROVE presumeAt'[m] \in {presumeAt[m], 0}
  BY <1>1 DEF Record, TypeOK
<1>2. ASSUME NEW x \in Messages, Send(x) \/ Ack(x) \/ Refuse(x) PROVE presumeAt' = presumeAt
  BY <1>2 DEF Send, Ack, Refuse, rows
<1>3. ASSUME NEW x \in Messages, NEW k \in Kinds, Report(x, k)
      PROVE  presumeAt'[m] \in {presumeAt[m], 0}
  BY <1>1, <1>3 DEF Report
<1>4. ASSUME NEW r \in Replies, NEW auto \in BOOLEAN, Replied(r, auto)
      PROVE  presumeAt'[m] \in {presumeAt[m], 0}
  BY <1>1, <1>4 DEF Replied, Matches
<1>5. Resume \/ Pause \/ Activate \/ Tick \/ UNCHANGED vars => presumeAt' = presumeAt
  BY DEF Resume, Pause, Activate, Tick, vars, rows
<1> QED BY <1>2, <1>3, <1>4, <1>5 DEF Aside

LEMMA WakeStep ==
    ASSUME OrderInv, [Next]_vars
    PROVE  WakeInv'
<1>0. SafeInv /\ TypeOK /\ OwnClaims /\ Told
  BY DEF OrderInv, SafeInv
<1>1. ASSUME NEW m \in Synced \ Barred, status'[m] = "absent" PROVE release'[m] = "waiting"
  <2>1. m \in Messages
    BY RowsAssumption
  <2>2. status[m] = "absent"
    <3>1. RowMoved(m)
      BY <1>0, <2>1, RowMoves
    <3>2. ReportedOn(m) => status'[m] = status[m]
      BY <1>0, <1>1, <2>1, ReportLeaves
    <3>3. ASSUME NEW f \in Fibers PROVE ~AnsweredBy(f, m)
      BY <1>0, <1>1, <2>1, AnswersWhatItHolds, AnswerWrites
    <3> QED BY <1>1, <3>1, <3>2, <3>3 DEF RowMoved, Keeps, Sent, Skipped, ClaimedBy
  <2>3. release[m] = "waiting"
    BY <1>1, <2>2 DEF OrderInv, WakeInv
  <2>4. release'[m] = release[m]
    <3>1. ASSUME NEW x \in Messages, Ack(x) \/ Refuse(x) PROVE release'[m] = release[m]
      BY <1>0, <2>1, <2>2, <3>1 DEF Ack, Refuse, TypeOK
    <3>2. Aside => release'[m] = release[m]
      BY <3>1 DEF Aside, Send, Report, Replied, Resume, Pause, Activate, Tick, vars, around
    <3>3. Crash => release' = release
      BY DEF Crash
    <3>4. ASSUME NEW f \in Fibers, Deliver(f) \/ Fault(f) PROVE release' = release
      BY <3>4 DEF Deliver, Fault, Begin, Claim, HandOver, Answer, LookQuiet, Presume, Look, around
    <3> QED BY <3>2, <3>3, <3>4, Steps
  <2> QED BY <2>3, <2>4
<1>2. ASSUME ~missed', ~overran'
      PROVE  /\ (~passed' /\ strayed' = {}) => \A m \in Messages : Head(m)' => Covered(m)'
             /\ \A f \in Fibers : pc'[f] \in {"presume", "look"} => readAt'[f] = now'
             /\ (\E f \in Fibers : pc'[f] \in {"presume", "look"}) =>
                   \A m \in Messages : Overdue(m)' => \E g \in Fibers : Presumes(g, m)'
  <2>0. /\ ~overran /\ ~missed /\ LeaseHolds
        /\ \A f \in Fibers : pc[f] \in {"presume", "look"} => readAt[f] = now
        /\ (\E f \in Fibers : pc[f] \in {"presume", "look"}) =>
              \A m \in Messages : Overdue(m) => \E g \in Fibers : Presumes(g, m)
    <3>1. ~overran
      BY <1>0, <1>2, TimeMoves
    <3>2. ~missed
      <4>1. Aside \/ Crash => (missed => missed')
        BY DEF Aside, Crash, Send, Ack, Refuse, Report, Replied, Resume, Pause, Activate, Tick, vars, history
      <4>2. ASSUME NEW f \in Fibers, Deliver(f) \/ Fault(f) PROVE missed => missed'
        BY <4>2 DEF Deliver, Fault, Begin, Claim, HandOver, Answer, LookQuiet, Presume, Look, history
      <4> QED BY <1>2, <4>1, <4>2, Steps
    <3> QED BY <1>0, <3>1, <3>2 DEF OrderInv, WakeInv, SafeInv, Leased
  <2>1. (~passed' /\ strayed' = {}) => \A m \in Messages : Head(m)' => Covered(m)'
    BY <1>2, HeadsStep
  <2>2. CASE Aside
    <3>1. CASE Tick
      <4>1. \A f \in Fibers : pc'[f] \notin {"presume", "look"}
        BY <1>2, <3>1 DEF Tick, fibers
      <4> QED BY <2>1, <4>1
    <3>2. CASE ~Tick
      <4>1. now' = now /\ UNCHANGED <<pc, quiet, readAt>>
        BY <2>2, <3>2, AsideKeepsFibers
           DEF Aside, Send, Ack, Refuse, Report, Replied, Resume, Pause, Activate, vars
      <4>2. ASSUME NEW m \in Messages, Overdue(m)' PROVE Overdue(m)
        BY <1>0, <2>2, <4>1, <4>2, AsidePresumes DEF Overdue
      <4> QED BY <2>0, <2>1, <4>1, <4>2 DEF Presumes
    <3> QED BY <3>1, <3>2
  <2>3. CASE Crash
    BY <2>1, <2>3 DEF Crash, Ended
  <2>4. ASSUME NEW f \in Fibers, Deliver(f)
        PROVE  /\ \A g \in Fibers : pc'[g] \in {"presume", "look"} => readAt'[g] = now'
               /\ (\E g \in Fibers : pc'[g] \in {"presume", "look"}) =>
                     \A m \in Messages : Overdue(m)' => \E g \in Fibers : Presumes(g, m)'
    <3>1. /\ now' = now
          /\ \A g \in Fibers : g # f => pc'[g] = pc[g] /\ readAt'[g] = readAt[g] /\ quiet'[g] = quiet[g]
      BY <1>0, <2>4 DEF Deliver, Begin, Claim, HandOver, Answer, LookQuiet, Presume, Look, TypeOK
    <3>2. CASE Begin(f) \/ Claim(f) \/ HandOver(f) \/ Answer(f)
      <4>1. pc'[f] \in {"claim", "message", "quiet"}
        BY <1>0, <3>2 DEF Begin, Claim, HandOver, Answer, TypeOK
      <4> QED BY <2>0, <3>1, <4>1 DEF Presumes
    <3>3. CASE LookQuiet(f)
      <4>1. /\ readAt'[f] = now /\ presumeAt' = presumeAt
            /\ quiet'[f] = {m \in Messages : presumeAt[m] \in 1 .. now
                                             /\ status[m] \in {"sent", "deferred"}}
        BY <1>0, <3>3 DEF LookQuiet, TypeOK, rows
      <4>2. ASSUME NEW m \in Messages, Overdue(m)' PROVE m \in quiet'[f]
        <5>1. presumeAt[m] \in 1 .. now /\ presumeAt[m] # 0
          BY <1>0, <3>1, <4>1, <4>2 DEF Overdue, TypeOK, Times
        <5> QED BY <2>0, <4>1, <5>1 DEF LeaseHolds
      <4> QED BY <2>0, <3>1, <4>1, <4>2 DEF Presumes
    <3>4. CASE Presume(f)
      <4>1. PICK x \in quiet[f] : Record(x, "delivered") /\ quiet' = [quiet EXCEPT ![f] = @ \ {x}]
        BY <3>4 DEF Presume
      <4>2. /\ x \in Messages /\ presumeAt' = [presumeAt EXCEPT ![x] = 0]
            /\ quiet'[f] = quiet[f] \ {x} /\ readAt'[f] = readAt[f] /\ pc[f] = "presume"
        BY <1>0, <3>4, <4>1 DEF Presume, Record, TypeOK
      <4>3. ASSUME NEW m \in Messages, Overdue(m)' PROVE m # x /\ Overdue(m)
        BY <1>0, <3>1, <4>2, <4>3 DEF Overdue, TypeOK, Times
      <4>4. ASSUME NEW m \in Messages, Overdue(m)' PROVE \E g \in Fibers : Presumes(g, m)'
        <5>1. PICK g \in Fibers : Presumes(g, m)
          BY <2>0, <4>2, <4>3, <4>4
        <5> QED BY <3>1, <4>2, <4>3, <4>4, <5>1 DEF Presumes
      <4> QED BY <2>0, <3>1, <4>2, <4>4
    <3>5. CASE Look(f)
      <4>1. pc[f] = "look" /\ pc'[f] = "idle" /\ presumeAt' = presumeAt /\ quiet[f] = {}
        BY <1>0, <3>5 DEF Look, TypeOK, rows, OwnClaims, Own
      <4>2. ASSUME NEW m \in Messages, Overdue(m)' PROVE \E g \in Fibers : Presumes(g, m)'
        <5>1. PICK g \in Fibers : Presumes(g, m)
          BY <2>0, <3>1, <4>1, <4>2 DEF Overdue
        <5> QED BY <3>1, <4>1, <5>1 DEF Presumes
      <4> QED BY <2>0, <3>1, <4>1, <4>2
    <3> QED BY <2>4, <3>2, <3>3, <3>4, <3>5 DEF Deliver
  <2>5. ASSUME NEW f \in Fibers, Fault(f) PROVE FALSE
    BY <1>2, <2>5 DEF Fault
  <2> QED BY <2>1, <2>2, <2>3, <2>4, <2>5, Steps
<1> QED BY <1>1, <1>2 DEF WakeInv

LEMMA InitWake == Init => WakeInv
BY RowsAssumption DEF Init, WakeInv, Head, Waiting, Overdue

\* While nobody delivers, every row at the head of its conversation has a run that
\* comes within a lease of its due time, through crashes and pauses, outside the
\* cases that WakeKept names.
THEOREM WakeIsKept == Spec => []WakeKept
<1>1. Init => OrderInv
  BY InitType, InitOnce, InitTold, InitLeased, InitInLine, InitWake DEF OrderInv, SafeInv
<1>2. OrderInv /\ [Next]_vars => OrderInv'
  BY TypeStep, OwnStep, OnceStep, ToldStep, AbandonedStep, LeasedStep, InLineStep, WakeStep
     DEF OrderInv, SafeInv
<1>3. OrderInv => WakeKept
  BY DEF OrderInv, WakeInv, WakeKept, Covered, Live
<1> QED BY <1>1, <1>2, <1>3, PTL DEF Spec
=============================================================================
