----------------------------- MODULE AgentTurns -----------------------------
(***************************************************************************)
(* How a person's message reaches a turn of the agent: the message queue   *)
(* (agent/queue.ts), the conversation's queued `agent.turn` run            *)
(* (agent/turns.ts) and the admission, the steps, the end, the stop and    *)
(* the takeover of a turn (agent/index.ts).                                *)
(*                                                                         *)
(* One conversation and one process at a time: a generation that is parked *)
(* and closed, or that dies, is followed by the next one.  A statement of  *)
(* the database is one step, except the one that posts a message: whether  *)
(* it queues a run is decided on the snapshot it began with.  What a step  *)
(* of the model says and does is left out: a step goes on, replies, or     *)
(* breaks.                                                                 *)
(***************************************************************************)
EXTENDS Naturals, FiniteSets

CONSTANTS
    Msgs,       \* the messages that may be posted
    Notes,      \* those that the engine inserts itself, without a run
    MaxTrouble  \* bound: stops, ends of the process, turns that break and
                \* statements that fail, in all

ASSUME AgentAssumption ==
    /\ IsFiniteSet(Msgs) /\ Notes \subseteq Msgs
    /\ MaxTrouble \in Nat

VARIABLES
    msg,      \* sys_message.state of each message
    post,     \* where the call that posts it is
    kick,     \* where the fiber that runs the conversation for it is
    status,   \* sys_conversation.status
    lapsed,   \* lease_until is in the past
    run,      \* the conversation's queued agent.turn run
    handler,  \* where the handler of a claimed agent.turn run is
    attached, \* the handler of a claimed run awaits the turn it started
    turn,     \* where the conversation's fiber in `running` is
    eager,    \* the turn steps on without new input (`force`, or steps > 0)
    stop,     \* where a call of stop is
    gen,      \* the generation: serving, parked (a planned close holds its
              \* turns between steps), or closed
    left,     \* history: messages that were queued without a run when the
              \* memory that would have answered them went
    cut,      \* history: messages whose turn ended without a word: stopped, or
              \* broken with nobody to say so
    bare,     \* history: a turn run failed while the turn was under way
    trouble   \* how much of it there has been

convVars == <<status, lapsed, run>>
turnVars == <<turn, eager, attached>>
history == <<left, cut, bare>>
vars == <<msg, post, kick, status, lapsed, run, handler, attached, turn, eager,
          stop, gen, left, cut, bare, trouble>>

Persons == Msgs \ Notes
Queued == {m \in Msgs : msg[m] = "queued"}
Held == {m \in Msgs : msg[m] = "finish"}
Consumed == {m \in Msgs : msg[m] = "consumed"}

\* Something goes wrong, or is stopped, once more.
Trouble == trouble < MaxTrouble /\ trouble' = trouble + 1

Become(S, s) == [m \in Msgs |-> IF m \in S THEN s ELSE msg[m]]
Set(f, m, s) == [f EXCEPT ![m] = s]

\* The turn looks at the queue once more before it ends by itself.
Looks == turn \in {"claim", "top", "take", "work", "finish", "settle"}
\* ... and does not look again.
Closing == {"cancel", "exit", "broke", "release"}
\* A fiber that looks at the queue when the turn, if any, has ended.
Kicked == \E m \in Msgs : kick[m] # "none"
\* A run that will drain the conversation without being run again.
Coming ==
    \/ run # "none" \/ handler \in {"drain", "claim", "defer"}
    \/ handler = "look" /\ status = "running"
\* A run in the database that starts a turn if the process ends now: it is
\* queued, or its handler has been claimed and is run again at boot.
Durable == run # "none" \/ handler # "none" \/ attached
\* What a turn has taken is its own until it ends, or a successor's.
Carried ==
    turn \in {"top", "take", "work", "broke"} \/ (status = "running" /\ Durable)
\* Somebody looks at the queue yet, or takes note of what is left there.
Heard ==
    \/ Kicked \/ Looks \/ turn \in {"cancel", "broke"}
    \/ turn = "none" /\ Coming

Init ==
    /\ msg = [m \in Msgs |-> "absent"]
    /\ post = [m \in Msgs |-> "none"]
    /\ kick = [m \in Msgs |-> "none"]
    /\ status = "idle" /\ lapsed = FALSE /\ run = "none"
    /\ handler = "none" /\ attached = FALSE
    /\ turn = "none" /\ eager = FALSE
    /\ stop = "none" /\ gen = "serving"
    /\ left = {} /\ cut = {} /\ bare = FALSE
    /\ trouble = 0

-----------------------------------------------------------------------------
(***************************************************************************)
(* A message is posted.                                                    *)
(***************************************************************************)

New(m) == msg[m] = "absent" /\ post[m] = "none" /\ gen # "closed"

\* A follow-up reopens a stopped conversation; what was queued there after
\* the stop had cancelled waits for the follow-up's own turn.
Reopened == IF status = "stopped" THEN "idle" ELSE status
Stranded == IF status = "stopped" THEN Queued ELSE {}

\* post: its first statement reopens a stopped conversation.
Post(m) ==
    /\ m \in Persons /\ New(m)
    /\ post' = Set(post, m, "open")
    /\ status' = Reopened
    /\ left' = left \cup Stranded
    /\ UNCHANGED <<msg, kick, lapsed, run, handler, turnVars, stop, gen, cut,
                   bare, trouble>>

\* The statement of post, or of `due` for a message whose time has come, takes
\* its snapshot: enqueueTurn inserts a run unless it sees a queued one.
Snapshot(m) ==
    /\ \/ post[m] = "open"
       \/ post[m] = "none" /\ msg[m] = "timed" /\ gen = "serving"
    /\ post' = Set(post, m, IF run = "none" THEN "clear" ELSE "seen")
    /\ UNCHANGED <<msg, kick, convVars, handler, turnVars, stop, gen, history,
                   trouble>>

\* enqueueTurn: a run is queued, unless one is.
\* A mutant: nothing is queued.
KeptMutant == run
Kept == IF run = "none" THEN "later" ELSE run

\* enqueueTurn of a statement that saw no queued run.
RunAfter(m) == IF post[m] = "clear" THEN Kept ELSE run

\* The statement lands.  `due` moves a message that still waits for its time,
\* and reopens the conversation with it.
Lands(m) ==
    /\ post[m] \in {"seen", "clear"}
    /\ msg[m] \in {"absent", "timed"}
    /\ msg' = Set(msg, m, "queued")
    /\ post' = Set(post, m, "none")
    /\ run' = RunAfter(m)
    /\ status' = IF msg[m] = "timed" THEN Reopened ELSE status
    /\ UNCHANGED <<lapsed, handler, turnVars, stop, gen, cut, bare>>

\* ... and is answered: the conversation is kicked.
Land(m) ==
    /\ Lands(m)
    /\ kick' = Set(kick, m, "look")
    /\ left' = left \cup (IF msg[m] = "timed" THEN Stranded ELSE {})
    /\ UNCHANGED trouble

\* ... or its answer is lost: the call fails, and kicks nobody.
LandLost(m) ==
    /\ Trouble
    /\ Lands(m)
    /\ left' = left \cup {m} \cup (IF msg[m] = "timed" THEN Stranded ELSE {})
    /\ UNCHANGED kick

\* A message whose time came has been removed meanwhile.
DueGone(m) ==
    /\ post[m] \in {"seen", "clear"} /\ msg[m] = "cancelled"
    /\ post' = Set(post, m, "none")
    /\ UNCHANGED <<msg, kick, convVars, handler, turnVars, stop, gen, history,
                   trouble>>

\* schedule with a time: the message and its own agent.scheduled run.
ScheduleAt(m) ==
    /\ m \in Persons /\ New(m)
    /\ msg' = Set(msg, m, "timed")
    /\ UNCHANGED <<post, kick, convVars, handler, turnVars, stop, gen, history,
                   trouble>>

\* schedule for the finish: the caller reads that a turn is running ...
ScheduleFinish(m) ==
    /\ m \in Persons /\ New(m)
    /\ status = "running"
    /\ post' = Set(post, m, "finish")
    /\ UNCHANGED <<msg, kick, convVars, handler, turnVars, stop, gen, history,
                   trouble>>

\* ... and then inserts the message.
Hold(m) ==
    /\ post[m] = "finish"
    /\ post' = Set(post, m, "none")
    /\ msg' = Set(msg, m, "finish")
    /\ UNCHANGED <<kick, convVars, handler, turnVars, stop, gen, history,
                   trouble>>

\* remove: the person takes a waiting message back.
Remove(m) ==
    /\ m \in Persons /\ msg[m] \in {"queued", "finish", "timed"}
    /\ msg' = Set(msg, m, "cancelled")
    /\ UNCHANGED <<post, kick, convVars, handler, turnVars, stop, gen, history,
                   trouble>>

\* steer, reportUp and notify insert a queued row, and kick.
Note(m) ==
    /\ m \in Notes /\ New(m)
    /\ msg' = Set(msg, m, "queued")
    /\ kick' = Set(kick, m, "look")
    /\ UNCHANGED <<post, convVars, handler, turnVars, stop, gen, history,
                   trouble>>

\* resume reopens a stopped conversation ...
Resume(m) ==
    /\ m \in Notes /\ New(m)
    /\ status = "stopped"
    /\ status' = Reopened
    /\ left' = left \cup Stranded
    /\ post' = Set(post, m, "resume")
    /\ UNCHANGED <<msg, kick, lapsed, run, handler, turnVars, stop, gen, cut,
                   bare, trouble>>

\* ... inserts what was stopped as a note, and drains.
ResumeNote(m) ==
    /\ post[m] = "resume"
    /\ post' = Set(post, m, "none")
    /\ msg' = Set(msg, m, "queued")
    /\ kick' = Set(kick, m, "drain")
    /\ UNCHANGED <<convVars, handler, turnVars, stop, gen, history, trouble>>

-----------------------------------------------------------------------------
(***************************************************************************)
(* drain and kick.                                                         *)
(***************************************************************************)

\* kick: with a turn in `running` it rings it and awaits it.
KickLook(m) ==
    /\ kick[m] = "look"
    /\ kick' = Set(kick, m, IF turn = "none" THEN "check" ELSE "await")
    /\ UNCHANGED <<msg, post, convVars, handler, turnVars, stop, gen, history,
                   trouble>>

\* It drains only if something is queued.
KickCheck(m) ==
    /\ kick[m] = "check"
    /\ kick' = Set(kick, m, IF Queued # {} THEN "drain" ELSE "none")
    /\ UNCHANGED <<msg, post, convVars, handler, turnVars, stop, gen, history,
                   trouble>>

\* drain of a kick: it starts the fiber, or leaves the one there is.
KickDrain(m) ==
    /\ kick[m] = "drain"
    /\ kick' = Set(kick, m, "none")
    /\ turn' = IF turn = "none" THEN "claim" ELSE turn
    /\ left' = IF turn \in Closing /\ (\A k \in Msgs \ {m} : kick[k] = "none")
               THEN left \cup Queued ELSE left
    /\ UNCHANGED <<msg, post, convVars, handler, attached, eager, stop, gen,
                   cut, bare, trouble>>

\* The look at the queue fails: kick logs it, and is gone.
KickFails(m) ==
    /\ kick[m] = "check" /\ Trouble
    /\ kick' = Set(kick, m, "none")
    /\ UNCHANGED <<msg, post, convVars, handler, turnVars, stop, gen, cut, bare>>
    /\ left' = IF Heard' THEN left ELSE left \cup Queued

\* The queued run comes due, and the run queue of a serving generation claims it.
RunDue ==
    /\ run = "later"
    /\ run' = "due"
    /\ UNCHANGED <<msg, post, kick, status, lapsed, handler, turnVars, stop,
                   gen, history, trouble>>

HandlerClaim ==
    /\ run = "due" /\ handler = "none" /\ gen = "serving"
    /\ run' = "none"
    /\ handler' = "drain"
    /\ UNCHANGED <<msg, post, kick, status, lapsed, turnVars, stop, gen,
                   history, trouble>>

\* turnRun drains: its turn's claim decides how it goes on, and a turn that is
\* running already is rung.
HandlerDrain ==
    /\ handler = "drain"
    /\ IF turn = "none"
       THEN turn' = "claim" /\ handler' = "claim"
       ELSE handler' = "look" /\ UNCHANGED turn
    /\ UNCHANGED <<msg, post, kick, convVars, attached, eager, stop, gen,
                   history, trouble>>

\* Nothing ran: a conversation that is running under another's lease is looked
\* at again once that lapses, and the run ends otherwise.
HandlerLook ==
    /\ handler = "look"
    /\ handler' = IF status = "running" THEN "defer" ELSE "none"
    /\ UNCHANGED <<msg, post, kick, convVars, turnVars, stop, gen, history,
                   trouble>>

HandlerDefer ==
    /\ handler = "defer"
    /\ handler' = "none"
    /\ run' = Kept
    /\ UNCHANGED <<msg, post, kick, status, lapsed, turnVars, stop, gen,
                   history, trouble>>

\* A statement of turnRun fails: the run ends, and has no retry.
HandlerFails ==
    /\ handler \in {"drain", "look", "defer"} /\ Trouble
    /\ handler' = "none"
    /\ bare' = TRUE
    /\ UNCHANGED <<msg, post, kick, convVars, turnVars, stop, gen>>
    /\ left' = IF Heard' THEN left ELSE left \cup Queued
    /\ cut' = IF Carried' THEN cut ELSE cut \cup Consumed

\* lease_until passes; the heartbeat of a turn that is alive renews it in time.
LeaseLapses ==
    /\ status = "running" /\ ~lapsed
    /\ turn \in {"none", "claim"}
    /\ lapsed' = TRUE
    /\ UNCHANGED <<msg, post, kick, status, run, handler, turnVars, stop, gen,
                   history, trouble>>

-----------------------------------------------------------------------------
(***************************************************************************)
(* The turn.                                                               *)
(***************************************************************************)

\* claim admits an idle conversation, and one whose lease has lapsed.
\* A mutant: only an idle one.
AdmitsMutant == status = "idle"
Admits == status = "idle" \/ (status = "running" /\ lapsed)

\* A turn that is taken over goes on at once unless its last word was said.
\* A mutant: it waits for new input.
TakenOverMutant == FALSE
TakenOver == status = "running" /\ Consumed # {}

\* The turn's fiber is over: who awaited it goes on.
\* A mutant: they are left waiting.
WokenMutant == kick
Woken == [m \in Msgs |-> IF kick[m] = "await" THEN "check" ELSE kick[m]]

Claim ==
    /\ turn = "claim"
    /\ Admits
    /\ status' = "running" /\ lapsed' = FALSE
    /\ run' = Kept
    /\ turn' = "top"
    /\ eager' = TakenOver
    /\ attached' = (handler = "claim")
    /\ handler' = IF handler = "claim" THEN "none" ELSE handler
    /\ bare' = FALSE
    /\ UNCHANGED <<msg, post, kick, stop, gen, left, cut, trouble>>

ClaimRefused ==
    /\ turn = "claim"
    /\ ~Admits
    /\ turn' = "none"
    /\ kick' = Woken
    /\ handler' = IF handler = "claim" THEN "look" ELSE handler
    /\ UNCHANGED <<msg, post, convVars, attached, eager, stop, gen, cut, bare,
                   trouble>>
    /\ left' = IF Heard' THEN left ELSE left \cup Queued

\* The claim fails, or what follows it outside the guarded body: the fiber ends
\* without onExit, its conversation maybe running, and fails its handler's run.
ClaimFails ==
    /\ turn = "claim" /\ Trouble
    /\ \/ UNCHANGED convVars
       \/ Admits /\ status' = "running" /\ lapsed' = FALSE /\ run' = Kept
    /\ turn' = "none"
    /\ kick' = Woken
    /\ handler' = IF handler = "claim" THEN "none" ELSE handler
    /\ UNCHANGED <<msg, post, attached, eager, stop, gen, bare>>
    /\ left' = IF Heard' THEN left ELSE left \cup Queued
    /\ cut' = IF handler = "claim" /\ ~Carried' THEN cut \cup Consumed ELSE cut

\* The top of a step: a parked turn stays here, a stopped one leaves.
Top ==
    /\ turn = "top" /\ gen = "serving"
    /\ turn' = IF status = "stopped" THEN "broke" ELSE "take"
    /\ cut' = IF status = "stopped" THEN cut \cup Consumed ELSE cut
    /\ UNCHANGED <<msg, post, kick, convVars, handler, attached, eager, stop,
                   gen, left, bare, trouble>>

\* claimMessage takes one sender's queued messages; a turn that begins on
\* nothing settles at once.
Take ==
    /\ turn = "take"
    /\ \/ \E S \in SUBSET Queued \ {{}} :
             msg' = Become(S, "consumed") /\ turn' = "work"
       \/ /\ Queued = {}
          /\ turn' = IF eager THEN "work" ELSE "finish"
          /\ UNCHANGED msg
    /\ UNCHANGED <<post, kick, convVars, handler, attached, eager, stop, gen,
                   history, trouble>>

\* A step of the model that goes on (tool calls, a nudge, a compaction).
StepOn ==
    /\ turn = "work"
    /\ turn' = "top" /\ eager' = TRUE
    /\ UNCHANGED <<msg, post, kick, convVars, handler, attached, stop, gen,
                   history, trouble>>

\* A step that ends the turn with a reply, or with its failure.
Reply ==
    /\ turn = "work"
    /\ msg' = Become(Consumed, "answered")
    /\ turn' = "finish" /\ eager' = TRUE
    /\ UNCHANGED <<post, kick, convVars, handler, attached, stop, gen, history,
                   trouble>>

\* A turn over its limits answers so, and cancels what waits.
GiveUp ==
    /\ turn = "work" /\ Trouble
    /\ msg' = Become(Consumed, "answered")
    /\ turn' = "cancel"
    /\ UNCHANGED <<post, kick, convVars, handler, attached, eager, stop, gen,
                   history>>

Cancelled == Become(Queued \cup Held, "cancelled")

GiveUpCancels ==
    /\ turn = "cancel"
    /\ msg' = Cancelled
    /\ turn' = "broke"
    /\ UNCHANGED <<post, kick, convVars, handler, attached, eager, stop, gen,
                   history, trouble>>

\* A statement or a call of the turn fails: the sender is told, unless the
\* statement that says so fails too, which is ignored.
Break ==
    /\ turn \in {"top", "take", "work", "finish", "settle", "cancel"}
    /\ Trouble
    /\ msg' = Become(Consumed, "answered") \/ UNCHANGED msg
    /\ turn' = "broke"
    /\ UNCHANGED <<post, kick, convVars, handler, attached, eager, stop, gen,
                   history>>

\* settle, first statement: `finished` sends one message that waits for the
\* finish, once nothing else is queued, and the turn goes on.
MayFinish == Queued = {}

Finish ==
    /\ turn = "finish"
    /\ \/ /\ MayFinish
          /\ \E m \in Held : msg' = Set(msg, m, "queued")
          /\ turn' = "top"
       \/ /\ ~(MayFinish /\ Held # {})
          /\ turn' = "settle"
          /\ UNCHANGED msg
    /\ UNCHANGED <<post, kick, convVars, handler, attached, eager, stop, gen,
                   history, trouble>>

\* settle, second statement: idle, and without a run, only if nothing is queued.
\* A mutant: whatever is queued.
MaySettleMutant == status = "running"
MaySettle == status = "running" /\ Queued = {}

Settle ==
    /\ turn = "settle"
    /\ IF MaySettle
       THEN /\ status' = "idle" /\ lapsed' = FALSE /\ run' = "none"
            /\ turn' = "exit"
       ELSE /\ turn' = "top"
            /\ UNCHANGED convVars
    /\ UNCHANGED <<msg, post, kick, handler, attached, eager, stop, gen,
                   history, trouble>>

\* The turn has settled ("exit"), or it met a stop or broke off ("broke").
Ending == turn \in {"exit", "broke"}

\* onExit: a turn that is still running is idle, and without a queued run,
\* whatever is queued and whether it has answered.
Exit ==
    /\ Ending
    /\ turn' = "none" /\ eager' = FALSE /\ attached' = FALSE
    /\ kick' = Woken
    /\ IF status = "running"
       THEN /\ status' = "idle" /\ lapsed' = FALSE
            /\ run' = IF run = "lost" THEN "lost" ELSE "none"
       ELSE UNCHANGED convVars
    /\ left' = IF turn = "broke" /\ ~Kicked THEN left \cup Queued ELSE left
    /\ cut' = IF turn = "broke" THEN cut \cup Consumed ELSE cut
    /\ UNCHANGED <<msg, post, handler, stop, gen, bare, trouble>>

\* ... and when that statement fails its lease runs out.
ExitFails ==
    /\ Ending /\ Trouble
    /\ turn' = "none" /\ eager' = FALSE /\ attached' = FALSE
    /\ kick' = Woken
    /\ left' = IF turn = "broke" /\ ~Kicked THEN left \cup Queued ELSE left
    /\ UNCHANGED <<msg, post, convVars, handler, stop, gen, bare>>
    /\ cut' = IF Carried' \/ (status = "running" /\ ~bare) THEN cut
              ELSE cut \cup Consumed

\* release of an interrupted turn: its lease lapses and its run is due now.
Release ==
    /\ turn = "release"
    /\ turn' = "none" /\ eager' = FALSE /\ attached' = FALSE
    /\ kick' = Woken
    /\ IF status = "running"
       THEN /\ lapsed' = TRUE
            /\ run' = IF run = "later" THEN "due" ELSE run
       ELSE UNCHANGED <<lapsed, run>>
    /\ UNCHANGED <<msg, post, status, handler, stop, gen, history, trouble>>

ReleaseFails ==
    /\ turn = "release"
    /\ turn' = "none" /\ eager' = FALSE /\ attached' = FALSE
    /\ kick' = Woken
    /\ UNCHANGED <<msg, post, convVars, handler, stop, gen, history,
                   trouble>>

-----------------------------------------------------------------------------
(***************************************************************************)
(* stop, and the end of the process.                                       *)
(***************************************************************************)

\* stop marks the conversation, ...
Stop ==
    /\ stop = "none" /\ gen # "closed"
    /\ Trouble
    /\ stop' = "cancel"
    /\ status' = "stopped" /\ lapsed' = FALSE
    /\ cut' = cut \cup Consumed
    /\ UNCHANGED <<msg, post, kick, run, handler, turnVars, gen, left, bare>>

\* ... cancels what waits, ...
StopCancels ==
    /\ stop = "cancel"
    /\ stop' = "remove"
    /\ msg' = Cancelled
    /\ UNCHANGED <<post, kick, convVars, handler, turnVars, gen, history,
                   trouble>>

\* ... and interrupts the turn in `running`, whose claim may be on its way.
\* (An end that has begun is not interrupted.)
Interrupted == IF turn = "none" \/ Ending THEN turn ELSE "release"

StopRemoves ==
    /\ stop = "remove"
    /\ stop' = "none"
    /\ turn' = Interrupted
    /\ handler' = IF handler = "claim" THEN "none" ELSE handler
    /\ cut' = IF turn = "none" THEN cut ELSE cut \cup Consumed
    /\ left' = IF turn # "none" /\ ~Kicked THEN left \cup Queued ELSE left
    /\ UNCHANGED <<msg, post, kick, convVars, attached, eager, gen, bare, trouble>>

Park ==
    /\ gen = "serving" /\ Trouble
    /\ gen' = "parked"
    /\ UNCHANGED <<msg, post, kick, convVars, handler, turnVars, stop,
                   history>>

\* What the process loses: kicks, calls, handlers.  A run whose handler was
\* interrupted or lost is recovered at boot, and a statement that is on its way
\* lands or does not.
Lost(S) ==
    /\ \A m \in S :
          post[m] \in {"seen", "clear"} /\ msg[m] \in {"absent", "timed"}
    /\ msg' = Become(S, "queued")
    /\ post' = [m \in Msgs |-> "none"]
    /\ kick' = [m \in Msgs |-> "none"]
    /\ handler' = "none"
    /\ stop' = "none"
    /\ run' = IF handler # "none" \/ attached THEN "lost"
              ELSE IF \E m \in S : post[m] = "clear" THEN Kept ELSE run
    /\ status' = IF \E m \in S : msg[m] = "timed" THEN Reopened ELSE status
    /\ left' = left \cup (IF run' = "none" THEN Queued \cup S ELSE {})
                    \cup (IF status' = status THEN {} ELSE Stranded)
    /\ cut' = IF status = "running" /\ (run' # "none" \/ ~bare) THEN cut
              ELSE cut \cup Consumed

Close ==
    /\ gen = "parked"
    /\ \E S \in SUBSET Msgs : Lost(S)
    /\ gen' = "closed"
    /\ turn' = Interrupted
    /\ attached' = FALSE
    /\ UNCHANGED <<lapsed, eager, bare, trouble>>

Crash ==
    /\ gen # "closed" /\ Trouble
    /\ \E S \in SUBSET Msgs : Lost(S)
    /\ gen' = "closed"
    /\ turn' = "none" /\ eager' = FALSE /\ attached' = FALSE
    /\ UNCHANGED <<lapsed, bare>>

\* boot: a lost run is due, or fails when its lease budget (RunQueue's) is used
\* up, which leaves the conversation with another queued run or with none.
Recovered == IF run = "lost" THEN {"due", "later", "none"} ELSE {run}

\* A conversation whose run so failed, or whose lease has lapsed and that has no
\* run, is released.
Released(r) ==
    status = "running" /\ ((run = "lost" /\ r # "due") \/ (run = "none" /\ lapsed))

\* ... with the reply of gaveUp, which may fail.
Boot ==
    /\ gen = "closed" /\ turn = "none"
    /\ gen' = "serving"
    /\ \E r \in Recovered :
          /\ run' = r
          /\ status' = IF Released(r) THEN "idle" ELSE status
          /\ lapsed' = (lapsed /\ ~Released(r))
          /\ \/ msg' = (IF Released(r) THEN Become(Consumed, "answered") ELSE msg)
                /\ UNCHANGED cut
             \/ Released(r) /\ cut' = cut \cup Consumed /\ UNCHANGED msg
          /\ left' = IF r = "none" THEN left \cup Queued ELSE left
    /\ UNCHANGED <<post, kick, handler, turnVars, stop, bare, trouble>>

-----------------------------------------------------------------------------
Calls ==
    \E m \in Msgs :
        \/ Post(m) \/ ScheduleAt(m) \/ ScheduleFinish(m) \/ Remove(m)
        \/ Note(m) \/ Resume(m)
Posting(m) == Snapshot(m) \/ Land(m) \/ DueGone(m) \/ Hold(m) \/ ResumeNote(m)
Kicks(m) == KickLook(m) \/ KickCheck(m) \/ KickDrain(m)
Handler == RunDue \/ HandlerClaim \/ HandlerDrain \/ HandlerLook \/ HandlerDefer
Turn ==
    \/ Claim \/ ClaimRefused \/ Top \/ Take \/ StepOn \/ Reply \/ GiveUpCancels
    \/ Finish \/ Settle \/ Exit \/ Release
Stopping == StopCancels \/ StopRemoves
Faults ==
    \/ GiveUp \/ Break \/ HandlerFails \/ ClaimFails \/ ExitFails \/ ReleaseFails
    \/ Crash
    \/ \E m \in Msgs : LandLost(m) \/ KickFails(m)

Next ==
    \/ Calls \/ (\E m \in Msgs : Posting(m) \/ Kicks(m)) \/ Handler \/ LeaseLapses \/ Turn
    \/ Stop \/ Stopping \/ Park \/ Close \/ Boot \/ Faults

Spec == Init /\ [][Next]_vars

\* The runtime runs every ready fiber and the database answers; a model call has
\* its timeout; runs come due and are claimed (RunQueue), leases run out; a
\* parked generation is closed and the next one boots.  Nobody has to post, stop
\* or remove anything, and nothing has to fail.
FairSpec ==
    /\ Spec
    /\ \A m \in Msgs : WF_vars(Posting(m)) /\ WF_vars(Kicks(m))
    /\ WF_vars(RunDue) /\ WF_vars(LeaseLapses)
    /\ WF_vars(HandlerClaim \/ HandlerDrain \/ HandlerLook \/ HandlerDefer)
    /\ WF_vars(Turn)
    /\ WF_vars(Stopping)
    /\ WF_vars(Close) /\ WF_vars(Boot)

-----------------------------------------------------------------------------
\* Every part keeps its type, and what hangs on a turn goes with it: the run
\* that awaits it, the fibers that it wakes, its claim's handler.
TypeOK ==
    /\ msg \in [Msgs -> {"absent", "queued", "finish", "timed", "consumed",
                         "answered", "cancelled"}]
    /\ post \in [Msgs -> {"none", "open", "seen", "clear", "finish", "resume"}]
    /\ kick \in [Msgs -> {"none", "look", "await", "check", "drain"}]
    /\ status \in {"idle", "running", "stopped"} /\ lapsed \in BOOLEAN
    /\ run \in {"none", "later", "due", "lost"}
    /\ handler \in {"none", "drain", "claim", "look", "defer"}
    /\ turn \in {"none", "claim", "top", "take", "work", "finish", "settle"}
                    \cup Closing
    /\ attached \in BOOLEAN /\ eager \in BOOLEAN
    /\ stop \in {"none", "cancel", "remove"}
    /\ gen \in {"serving", "parked", "closed"}
    /\ left \subseteq Msgs /\ cut \subseteq Msgs /\ bare \in BOOLEAN
    /\ trouble \in 0..MaxTrouble
    /\ handler = "claim" => turn = "claim"
    /\ turn = "none" => ~attached /\ \A m \in Msgs : kick[m] # "await"

\* A queued message is always somebody's to answer: a queued or a claimed run, a
\* turn that looks at the queue again before it ends, a fiber that was kicked;
\* or a stop cancels it.  It is left waiting (`left`) only after a stop, the end
\* of a process, a failed statement or a turn that broke, and never without one
\* of them.  The end of a turn is where this goes wrong: settle deletes the run
\* that a post relied on while that post's own statement is on its way.
MessageIsCovered ==
    /\ \A m \in Queued :
          \/ Coming \/ Looks \/ Kicked \/ turn \in {"cancel", "exit", "broke"}
          \/ status = "stopped" \/ stop = "cancel" \/ m \in left
    /\ trouble = 0 => left = {}

\* A message that a turn has taken from the queue is answered by that turn, or
\* by the one that takes over: until then the conversation is running with a run
\* in the database, so a crash, a close or a lapsed lease at any step leaves a
\* successor.  It goes without an answer (`cut`) only where a stop ended its
\* turn, where the turn broke or boot gave it up and the reply that says so failed
\* as well (onExit and boot make the conversation idle all the same), or where a
\* turn run failed (it has no retry) while it was all there was to take over; and
\* never without one of them.
ConsumedIsCarried ==
    /\ \A m \in Consumed : Carried \/ m \in cut
    /\ trouble = 0 => cut = {}

\* A message that waits for the finish is sent only once all that was taken from
\* the queue is answered, whoever finishes: the turn, or the one that takes over
\* after the process died with what it had taken; except what was cut off
\* without an answer, as in ConsumedIsCarried: the next turn's finish does not
\* know of it.
FinishAfterWork ==
    [][\A m \in Msgs :
          msg[m] = "finish" /\ msg'[m] = "queued" => Consumed \subseteq cut]_vars

\* A queued message is taken by a turn, or cancelled, whatever lease, dead turn
\* or run of another turn it meets, unless it is left waiting or the
\* conversation is stopped.
QueuedIsHeard ==
    \A m \in Msgs :
        (msg[m] = "queued" /\ m \notin left)
            ~> (msg[m] # "queued" \/ m \in left \/ status = "stopped")
=============================================================================
