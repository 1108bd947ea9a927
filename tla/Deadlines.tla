----------------------------- MODULE Deadlines -----------------------------
(***************************************************************************)
(* The shared deadline state of packages/bolt/src/engine/runs/deadlines.ts *)
(* (DeadlineTimer) and the in-process deadlines port built on it           *)
(* (inProcessDeadlines).  A key is a scope: the timer holds one next-due   *)
(* instant per scope, one fiber sleeps until the earliest of them, and     *)
(* each due scope is woken in a lane of its own.                           *)
(*                                                                         *)
(* A step is what one fiber does between two points where it can yield:    *)
(* every `armed(change)` call is one step (the change and the re-arming),  *)
(* and a wake is three: takeDue, the start of the wake, its completion.    *)
(***************************************************************************)
EXTENDS Naturals, FiniteSets

CONSTANTS
    Keys,          \* the scopes
    MaxTime,       \* bound: the last instant of the clock and of any deadline
    RetryDelay,    \* how far ahead a failed wake is retried (60_000 ms in the code)
    MaxCallbacks,  \* bound: onDue fibers forked and not yet run
    None           \* no instant: `undefined`, `null`, an absent map entry

ASSUME KeysAssumption == IsFiniteSet(Keys)
ASSUME BoundsAssumption ==
    MaxTime \in Nat /\ RetryDelay \in Nat /\ MaxCallbacks \in Nat \ {0}
ASSUME NoneAssumption == None \notin Nat

VARIABLES
    now,        \* the clock
    held,       \* held: a scope's next-due instant
    active,     \* active: the lane of a scope whose callback runs, and its `retired` flag
    armedFor,   \* the instant the timer believes a fiber sleeps until
    timer,      \* the instant the fiber in the FiberHandle really sleeps until
    callbacks,  \* onDue fibers forked by the timer that have not called takeDue
    lane,       \* a scope's wake: taken, waking (in the port's `waking` set), or dead:
                \* still in that set, its fiber gone
    answers,    \* what the running wake settled with, until it completes
    stopped     \* the timer's scope has closed

vars == <<now, held, active, armedFor, timer, callbacks, lane, answers, stopped>>

At == 0..MaxTime
AtOrNone == At \cup {None}

\* A mutant: a scope whose callback runs waits too.
WaitingMutant(h, a) == {k \in Keys : h[k] # None}

\* The key has an instant and no callback of its own running.
Waiting(h, a) == {k \in Keys : h[k] # None /\ a[k] = "idle"}

\* The scan at the head of `arm`: the earliest instant among the waiting keys.
Earliest(h, a) ==
    IF Waiting(h, a) = {} THEN None
    ELSE CHOOSE t \in {h[k] : k \in Waiting(h, a)} :
            \A k \in Waiting(h, a) : t <= h[k]

\* A mutant of `arm`: an armed timer is kept, whatever it is armed for.
ArmMutant(h, a, s) ==
    LET earliest == Earliest(h, a) IN
    IF s \/ earliest = None
      THEN armedFor' = None /\ timer' = None
      ELSE IF armedFor # None
             THEN UNCHANGED <<armedFor, timer>>
             ELSE armedFor' = earliest /\ timer' = earliest

\* `arm` after a change: clear the handle when nothing waits, keep the fiber
\* that already sleeps until the earliest instant, else replace it.
Arm(h, a, s) ==
    LET earliest == Earliest(h, a) IN
    IF s \/ earliest = None
      THEN armedFor' = None /\ timer' = None
      ELSE /\ armedFor' = earliest
           /\ timer' = IF earliest = armedFor THEN timer ELSE earliest

-----------------------------------------------------------------------------
(* The port's calls.                                                       *)

\* DeadlineTimer.announce: an instant no earlier than the held one changes
\* nothing, but the timer is re-armed all the same.
Announce(k, at) ==
    /\ held' = IF stopped \/ (held[k] # None /\ held[k] <= at)
                 THEN held ELSE [held EXCEPT ![k] = at]
    /\ Arm(held', active, stopped)
    /\ UNCHANGED <<now, active, callbacks, lane, answers, stopped>>

\* The port's settle: an answer to the wake that runs, else the timer's settle.
Settle(k, at) ==
    IF lane[k] \in {"waking", "dead"}
      THEN /\ answers' = [answers EXCEPT ![k] = at]
           /\ UNCHANGED <<now, held, active, armedFor, timer, callbacks, lane, stopped>>
      ELSE /\ held' = IF stopped THEN held ELSE [held EXCEPT ![k] = at]
           /\ Arm(held', active, stopped)
           /\ UNCHANGED <<now, active, callbacks, lane, answers, stopped>>

\* A mutant: the running callback is forgotten, not fenced.
RetireMutant(k) ==
    /\ held' = [held EXCEPT ![k] = None]
    /\ active' = [active EXCEPT ![k] = "idle"]
    /\ Arm(held', active', stopped)
    /\ UNCHANGED <<now, callbacks, lane, answers, stopped>>

\* DeadlineTimer.retire (the port's teardown): the running callback is fenced.
Retire(k) ==
    /\ held' = [held EXCEPT ![k] = None]
    /\ active' = IF active[k] = "idle" THEN active ELSE [active EXCEPT ![k] = "retired"]
    /\ Arm(held', active', stopped)
    /\ UNCHANGED <<now, callbacks, lane, answers, stopped>>

\* DeadlineTimer.restore of one persisted entry (a batch is a run of these:
\* each entry only reads and writes its own key, and the last re-arming wins).
Restore(k, at) ==
    /\ held' = IF held[k] = None /\ active[k] = "idle"
                 THEN [held EXCEPT ![k] = at] ELSE held
    /\ Arm(held', active, stopped)
    /\ UNCHANGED <<now, active, callbacks, lane, answers, stopped>>

-----------------------------------------------------------------------------
(* The timer fiber and the callbacks.                                      *)

Tick ==
    /\ now < MaxTime
    /\ now' = now + 1
    /\ UNCHANGED <<held, active, armedFor, timer, callbacks, lane, answers, stopped>>

\* A mutant: an instant that has passed when the sleep begins never comes.
TimerFiresMutant ==
    /\ timer # None
    /\ timer = now
    /\ callbacks < MaxCallbacks
    /\ armedFor' = None
    /\ timer' = None
    /\ callbacks' = callbacks + 1
    /\ UNCHANGED <<now, held, active, lane, answers, stopped>>

\* The sleeping fiber's instant has come: it forgets the arming and forks onDue.
TimerFires ==
    /\ timer # None
    /\ timer <= now
    /\ callbacks < MaxCallbacks
    /\ armedFor' = None
    /\ timer' = None
    /\ callbacks' = callbacks + 1
    /\ UNCHANGED <<now, held, active, lane, answers, stopped>>

\* The waiting keys that takeDue may take: due, and none due earlier.
Due == {k \in Waiting(held, active) : held[k] <= now}
EarliestDue == {k \in Due : \A j \in Due : held[k] <= held[j]}

\* takeDue moves the earliest due key into its lane and re-arms for the rest.
Take(k) ==
    /\ held' = [held EXCEPT ![k] = None]
    /\ active' = [active EXCEPT ![k] = "live"]
    /\ lane' = [lane EXCEPT ![k] = "taken"]
    /\ Arm(held', active', stopped)

\* onDue up to its takeDue: it ends when the timer has stopped or nothing is due.
OnDue ==
    /\ callbacks > 0
    /\ callbacks' = callbacks - 1
    /\ \/ /\ ~stopped
          /\ \E k \in EarliestDue : Take(k)
       \/ /\ stopped \/ Due = {}
          /\ Arm(held, active, stopped)
          /\ UNCHANGED <<held, active, lane>>
    /\ UNCHANGED <<now, answers, stopped>>

\* onDue enters the wake: an answer left from before is dropped.
BeginWake(k) ==
    /\ lane[k] = "taken"
    /\ lane' = [lane EXCEPT ![k] = "waking"]
    /\ answers' = [answers EXCEPT ![k] = None]
    /\ UNCHANGED <<now, held, active, armedFor, timer, callbacks, stopped>>

Earlier(a, b) == IF a = None THEN b ELSE IF b = None \/ a <= b THEN a ELSE b

\* Mutants of `complete`: the answer replaces an announcement that arrived
\* during the wake; a retired lane writes its instant back.
CompleteMutant(k, callbackAt, merge) ==
    /\ held' = IF stopped \/ active[k] = "retired" THEN held ELSE [held EXCEPT ![k] = callbackAt]
    /\ active' = [active EXCEPT ![k] = "idle"]
    /\ lane' = [lane EXCEPT ![k] = "none"]
    /\ answers' = [answers EXCEPT ![k] = None]
    /\ Arm(held', active', stopped)
CompleteUnfenced(k, callbackAt, merge) ==
    /\ held' = IF stopped THEN held
               ELSE [held EXCEPT ![k] = IF merge THEN Earlier(callbackAt, @) ELSE callbackAt]
    /\ active' = [active EXCEPT ![k] = "idle"]
    /\ lane' = [lane EXCEPT ![k] = "none"]
    /\ answers' = [answers EXCEPT ![k] = None]
    /\ Arm(held', active', stopped)

\* DeadlineTimer.complete and the end of onDue: the wake's answer, merged with
\* what was announced meanwhile unless the wake failed; nothing when fenced.
Complete(k, callbackAt, merge) ==
    /\ held' = IF stopped \/ active[k] = "retired" THEN held
               ELSE [held EXCEPT ![k] = IF merge THEN Earlier(callbackAt, @) ELSE callbackAt]
    /\ active' = [active EXCEPT ![k] = "idle"]
    /\ lane' = [lane EXCEPT ![k] = "none"]
    /\ answers' = [answers EXCEPT ![k] = None]
    /\ Arm(held', active', stopped)

WakeSucceeds(k) ==
    /\ lane[k] = "waking"
    /\ Complete(k, answers[k], TRUE)
    /\ UNCHANGED <<now, callbacks, stopped>>

\* A failed wake is retried RetryDelay later, announcements or not.
WakeFails(k) ==
    /\ lane[k] = "waking"
    /\ now + RetryDelay <= MaxTime
    /\ Complete(k, now + RetryDelay, FALSE)
    /\ UNCHANGED <<now, callbacks, stopped>>

\* A defect in the wake is no result: it ends the onDue fiber, and nothing takes
\* the scope out of `waking` or `active` again.
WakeDies(k) ==
    /\ lane[k] = "waking"
    /\ lane' = [lane EXCEPT ![k] = "dead"]
    /\ UNCHANGED <<now, held, active, armedFor, timer, callbacks, answers, stopped>>

\* The timer's scope closes: first its own finalizer, then the finalizers of
\* the FiberSet and the FiberHandle, which interrupt the fibers they hold.
Stop ==
    /\ ~stopped
    /\ stopped' = TRUE
    /\ armedFor' = None
    /\ UNCHANGED <<now, held, active, timer, callbacks, lane, answers>>

Shutdown ==
    /\ stopped
    /\ timer' = None
    /\ callbacks' = 0
    /\ lane' = [k \in Keys |-> IF lane[k] \in {"waking", "dead"} THEN "dead" ELSE "none"]
    /\ UNCHANGED <<now, held, active, armedFor, answers, stopped>>

-----------------------------------------------------------------------------
Init ==
    /\ now = 0
    /\ held = [k \in Keys |-> None]
    /\ active = [k \in Keys |-> "idle"]
    /\ armedFor = None
    /\ timer = None
    /\ callbacks = 0
    /\ lane = [k \in Keys |-> "none"]
    /\ answers = [k \in Keys |-> None]
    /\ stopped = FALSE

Next ==
    \/ Tick \/ TimerFires \/ OnDue \/ Stop \/ Shutdown
    \/ \E k \in Keys :
        \/ Retire(k) \/ BeginWake(k) \/ WakeSucceeds(k) \/ WakeFails(k) \/ WakeDies(k)
        \/ Settle(k, None)
        \/ \E at \in At : Announce(k, at) \/ Settle(k, at) \/ Restore(k, at)

\* The runtime runs every fiber that is ready, time passes, and a wake ends:
\* the engine bounds each database call and each guest run of a tick.
Fairness ==
    /\ WF_vars(Tick)
    /\ WF_vars(TimerFires)
    /\ WF_vars(OnDue)
    /\ \A k \in Keys : WF_vars(BeginWake(k)) /\ WF_vars(WakeSucceeds(k))

Spec == Init /\ [][Next]_vars
FairSpec == Spec /\ Fairness

-----------------------------------------------------------------------------
\* The maps of the timer and of the port keep their types, and the pending
\* callbacks of onDue stay within their bound.
TypeOK ==
    /\ now \in At
    /\ held \in [Keys -> AtOrNone]
    /\ active \in [Keys -> {"idle", "live", "retired"}]
    /\ armedFor \in AtOrNone
    /\ timer \in AtOrNone
    /\ callbacks \in 0..MaxCallbacks
    /\ lane \in [Keys -> {"none", "taken", "waking", "dead"}]
    /\ answers \in [Keys -> AtOrNone]
    /\ stopped \in BOOLEAN

\* No wake-up is lost in `arm`: until the timer stops, the fiber sleeps until
\* the earliest instant of the scopes that wait, or an onDue callback that has
\* not looked yet will re-arm it.  `arm` returns early when armedFor already is
\* that instant, which is right only while armedFor is what the fiber does.
Armed ==
    ~stopped =>
        /\ timer = armedFor
        /\ \/ armedFor = Earliest(held, active)
           \/ armedFor = None /\ callbacks > 0

\* `complete` never meets an idle lane (where the code throws "Deadline callback
\* lane is idle"): a scope with an open lane is in `active`, retired or not.
LaneNeverIdle == \A k \in Keys : lane[k] # "none" => active[k] # "idle"

\* Wakes of one scope never overlap: takeDue leaves a scope whose callback still
\* runs alone, even when it is announced again and due before that wake ends.
WakesNeverOverlap ==
    [][\A k \in Keys : lane[k] = "waking" => lane'[k] # "taken"]_vars

\* An announcement that arrives while its scope is being woken is never lost
\* with that wake: whether the wake succeeds or fails, the scope still has a
\* deadline when its lane closes, no later than the announcement or the retry.
AnnouncementSurvivesWake ==
    [][\A k \in Keys :
        (active[k] = "live" /\ active'[k] = "idle" /\ ~stopped /\ held[k] # None)
            => held'[k] # None /\ (held'[k] <= held[k] \/ held'[k] <= now + RetryDelay)]_vars

\* The callback of a retired scope leaves no trace: what the scope's next
\* generation announced since the retirement is what is held when it ends.
RetiredLaneIsFenced ==
    [][\A k \in Keys :
        active[k] = "retired" /\ active'[k] = "idle" => held'[k] = held[k]]_vars

\* No due scope is left asleep: once the deadline of a waiting scope has come, a
\* callback takes it or another due scope (takeDue prefers the earliest instant),
\* unless a later call moves or removes the deadline or the timer stops.
DueIsWoken ==
    \A k \in Keys :
        (k \in Due) ~> (k \notin Due \/ stopped \/ \E j \in Keys : lane[j] = "taken")
=============================================================================
