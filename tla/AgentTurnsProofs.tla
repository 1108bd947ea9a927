-------------------------- MODULE AgentTurnsProofs --------------------------
(***************************************************************************)
(* Proofs about AgentTurns, for any messages and any bound on what goes    *)
(* wrong.                                                                  *)
(*                                                                         *)
(* The invariant says who answers for what at each point of a turn.  What  *)
(* a turn has taken and not answered is its own until it ends, and then    *)
(* the conversation is running with a run in the database, or the message  *)
(* was cut off; a turn under way has a run behind it, or a handler that    *)
(* queues one, unless that has failed (Owed).  A message that is queued    *)
(* while a turn ends has a kick of its own, was left behind, or has the    *)
(* run of a closed generation (Awaited).  While nothing has gone wrong a   *)
(* conversation without a turn is idle, so that no claim is refused        *)
(* (Untroubled).                                                           *)
(***************************************************************************)
EXTENDS AgentTurns, TLAPS

\* What a turn has taken, has not answered, and was not cut off.
Open == Consumed \ cut

Working == {"top", "take", "work", "finish", "settle"}

\* What hangs on a turn: its run's handler, and who awaits it.
Attached ==
    /\ turn \in {"none", "claim"} => ~attached
    /\ gen = "closed" =>
          /\ handler = "none" /\ ~attached /\ stop = "none"
          /\ turn \in {"none", "release", "exit", "broke"}
          /\ \A m \in Msgs : post[m] = "none" /\ kick[m] = "none"
\* A statement that is on its way is of a message that waits nowhere yet.
Posted == \A m \in Msgs : post[m] # "none" => msg[m] \in {"absent", "timed", "cancelled"}

\* Who answers for what a turn has taken.
Backed == run # "none" \/ handler # "none"
Owed ==
    /\ turn \in {"finish", "settle", "cancel", "exit"} => Open = {}
    /\ (turn \in {"top", "take"} /\ ~eager) => Open = {}
    /\ (turn \in {"none", "claim", "release"} /\ Open # {}) => status = "running" /\ Durable
    /\ (turn = "release" /\ Open # {}) => gen = "closed"
    /\ (turn \in Working \cup {"cancel", "broke"} /\ status = "running" /\ ~bare) => Backed

\* A turn that has settled is not running.
Settled == turn = "exit" => status # "running"

\* A message that is queued while its turn ends.
Awaited ==
    turn \in {"exit", "release"} =>
        \A m \in Queued : Kicked \/ m \in left \/ (gen = "closed" /\ run # "none")
Covered(m) ==
    \/ Coming \/ Looks \/ Kicked \/ turn \in {"cancel", "exit", "broke"}
    \/ status = "stopped" \/ stop = "cancel" \/ m \in left
Covering == Awaited /\ \A m \in Queued : Covered(m)

\* Without trouble nothing is left behind.
Untroubled ==
    trouble = 0 =>
        /\ left = {} /\ cut = {} /\ stop = "none" /\ gen = "serving" /\ status # "stopped"
        /\ turn \notin {"cancel", "broke", "release"}
        /\ turn \in {"none", "claim"} => status = "idle"
        /\ \A m \in Msgs : post[m] # "resume"
        /\ turn = "exit" => \A m \in Queued : kick[m] \in {"look", "await"}

IInv ==
    /\ TypeOK /\ Attached /\ Posted
    /\ Owed /\ Settled /\ Covering /\ Untroubled

-----------------------------------------------------------------------------
(* The operators of the model.                                             *)

States == {"absent", "queued", "finish", "timed", "consumed", "answered", "cancelled"}

\* `Become` moves the messages of a set, and nothing else.
LEMMA BecomeMoves ==
    ASSUME msg \in [Msgs -> States], NEW S, NEW s \in States, msg' = Become(S, s)
    PROVE  /\ msg' \in [Msgs -> States]
           /\ \A m \in Msgs : msg'[m] = IF m \in S THEN s ELSE msg[m]
BY DEF Become

\* `Set` changes one entry.
LEMMA SetMoves ==
    ASSUME NEW f, NEW T, f \in [Msgs -> T], NEW m \in Msgs, NEW s \in T
    PROVE  /\ Set(f, m, s) \in [Msgs -> T]
           /\ Set(f, m, s)[m] = s
           /\ \A k \in Msgs \ {m} : Set(f, m, s)[k] = f[k]
BY DEF Set

\* The end of a turn wakes those who await it, and nobody stops.
LEMMA WokenGoOn ==
    ASSUME TypeOK, kick' = Woken
    PROVE  /\ kick' \in [Msgs -> {"none", "look", "await", "check", "drain"}]
           /\ \A m \in Msgs : kick'[m] # "await" /\ (kick'[m] = "none" <=> kick[m] = "none")
           /\ Kicked' <=> Kicked
<1>1. \A m \in Msgs : kick'[m] = IF kick[m] = "await" THEN "check" ELSE kick[m]
  BY DEF Woken
<1>2. kick' \in [Msgs -> {"none", "look", "await", "check", "drain"}]
  BY DEF Woken, TypeOK
<1>3. Kicked' <=> Kicked
  BY <1>1 DEF Kicked
<1> QED BY <1>1, <1>2, <1>3

\* A run that is kept is queued.
LEMMA KeptIsRun ==
    ASSUME run \in {"none", "later", "due", "lost"}
    PROVE  Kept \in {"later", "due", "lost"} /\ (run # "none" => Kept = run)
BY DEF Kept

\* Trouble counts up to its bound.
LEMMA TroubleCounts ==
    ASSUME trouble \in 0..MaxTrouble, Trouble
    PROVE  trouble' \in 0..MaxTrouble /\ trouble' >= 1 /\ trouble' = trouble + 1
BY AgentAssumption DEF Trouble

\* What the end of a process leaves behind.
LEMMA LostKeeps ==
    ASSUME TypeOK, NEW S \in SUBSET Msgs, Lost(S)
    PROVE  /\ msg' \in [Msgs -> States] /\ \A m \in Msgs : msg'[m] = IF m \in S THEN "queued" ELSE msg[m]
           /\ post' \in [Msgs -> {"none"}] /\ kick' \in [Msgs -> {"none"}]
           /\ handler' = "none" /\ stop' = "none"
           /\ status' \in {"idle", "running", "stopped"} /\ (status' = status \/ status = "stopped")
           /\ status' = "running" <=> status = "running"
           /\ run' \in {"none", "later", "due", "lost"}
           /\ Durable => run' # "none"
           /\ left \subseteq left' /\ left' \subseteq Msgs /\ cut \subseteq cut' /\ cut' \subseteq Msgs
<1>1. /\ msg \in [Msgs -> States] /\ run \in {"none", "later", "due", "lost"}
      /\ status \in {"idle", "running", "stopped"} /\ left \subseteq Msgs /\ cut \subseteq Msgs
  BY DEF TypeOK, States
<1>2. msg' \in [Msgs -> States] /\ \A m \in Msgs : msg'[m] = IF m \in S THEN "queued" ELSE msg[m]
  BY <1>1, BecomeMoves DEF Lost, States
<1>3. run' \in {"none", "later", "due", "lost"} /\ (Durable => run' # "none")
  BY <1>1, KeptIsRun DEF Lost, Durable
<1>4. /\ status' \in {"idle", "running", "stopped"} /\ (status' = status \/ status = "stopped")
      /\ status' = "running" <=> status = "running"
  BY <1>1 DEF Lost, Reopened
<1>5. left \subseteq left' /\ left' \subseteq Msgs
  BY <1>1 DEF Lost, Queued, Stranded
<1>6. cut \subseteq cut' /\ cut' \subseteq Msgs
  BY <1>1 DEF Lost, Consumed
<1> QED BY <1>2, <1>3, <1>4, <1>5, <1>6 DEF Lost

-----------------------------------------------------------------------------
(* Types.                                                                  *)

\* Every step keeps the types, and what hangs on a turn.
LEMMA TypeStep ==
    ASSUME TypeOK, Attached, [Next]_vars
    PROVE  TypeOK' /\ Attached'
<1> USE AgentAssumption
<1>1. CASE Calls
  BY <1>1 DEF Calls, Post, ScheduleAt, ScheduleFinish, Remove, Note, Resume, New, Reopened, Stranded, Queued,
          Set, TypeOK, Attached, Closing, Persons, turnVars, convVars, history
<1>2. ASSUME NEW m \in Msgs, Posting(m) \/ LandLost(m) PROVE TypeOK' /\ Attached'
  BY <1>2 DEF Posting, Snapshot, Land, Lands, LandLost, DueGone, Hold, ResumeNote, Trouble, RunAfter, Kept,
          Reopened, Stranded, Queued, Set, TypeOK, Attached, Closing, turnVars, convVars, history
<1>3. ASSUME NEW m \in Msgs, Kicks(m) PROVE TypeOK' /\ Attached'
  BY <1>3 DEF Kicks, KickLook, KickCheck, KickDrain, Queued, Set, TypeOK, Attached, Closing,
          turnVars, convVars, history
<1>18. ASSUME NEW m \in Msgs, KickFails(m) PROVE TypeOK' /\ Attached'
  <2>1. trouble' \in 0..MaxTrouble
    BY <1>18, TroubleCounts DEF KickFails, TypeOK
  <2>2. left' \subseteq Msgs
    BY <1>18 DEF KickFails, Queued, TypeOK
  <2> QED BY <1>18, <2>1, <2>2 DEF KickFails, Set, TypeOK, Attached, Closing, turnVars, convVars
<1>19. CASE HandlerFails
  <2>1. trouble' \in 0..MaxTrouble
    BY <1>19, TroubleCounts DEF HandlerFails, TypeOK
  <2>2. left' \subseteq Msgs /\ cut' \subseteq Msgs
    BY <1>19 DEF HandlerFails, Queued, Consumed, TypeOK
  <2> QED BY <1>19, <2>1, <2>2 DEF HandlerFails, TypeOK, Attached, Closing, turnVars, convVars
<1>20. CASE ClaimFails
  <2>1. trouble' \in 0..MaxTrouble
    BY <1>20, TroubleCounts DEF ClaimFails, TypeOK
  <2>2. left' \subseteq Msgs /\ cut' \subseteq Msgs
    BY <1>20 DEF ClaimFails, Queued, Consumed, TypeOK
  <2>3. /\ status' \in {"idle", "running", "stopped"} /\ lapsed' \in BOOLEAN
        /\ run' \in {"none", "later", "due", "lost"}
    BY <1>20 DEF ClaimFails, Kept, TypeOK, convVars
  <2> QED BY <1>20, <2>1, <2>2, <2>3, WokenGoOn DEF ClaimFails, TypeOK, Attached, Closing
<1>4. CASE Handler \/ LeaseLapses
  <2>1. CASE RunDue \/ HandlerClaim
    BY <2>1 DEF RunDue, HandlerClaim, TypeOK, Attached, Closing, turnVars, history
  <2>2. CASE HandlerDrain
    BY <2>2 DEF HandlerDrain, TypeOK, Attached, Closing, convVars, history
  <2>3. CASE HandlerLook \/ HandlerDefer
    BY <2>3 DEF HandlerLook, HandlerDefer, Kept, TypeOK, Attached, Closing, turnVars, convVars, history
  <2>4. CASE LeaseLapses
    BY <2>4 DEF LeaseLapses, TypeOK, Attached, Closing, turnVars, history
  <2> QED BY <1>4, <2>1, <2>2, <2>3, <2>4 DEF Handler
<1>5. CASE Claim
  BY <1>5 DEF Claim, TakenOver, Kept, TypeOK, Attached, Closing, history
<1>6. CASE ClaimRefused
  <2>1. left' \subseteq Msgs
    BY <1>6 DEF ClaimRefused, Queued, TypeOK
  <2> QED BY <1>6, <2>1, WokenGoOn DEF ClaimRefused, TypeOK, Attached, Closing, convVars
<1>7. CASE Top \/ StepOn \/ Settle
  <2>1. CASE Top
    BY <2>1 DEF Top, Consumed, TypeOK, Attached, Closing, convVars
  <2>2. CASE StepOn
    BY <2>2 DEF StepOn, TypeOK, Attached, Closing, convVars, history
  <2>3. CASE Settle
    <3>1. /\ status' \in {"idle", "running", "stopped"} /\ lapsed' \in BOOLEAN
          /\ run' \in {"none", "later", "due", "lost"}
      BY <2>3 DEF Settle, TypeOK, convVars
    <3>2. /\ turn' \in {"exit", "top"} /\ turn = "settle"
          /\ UNCHANGED <<msg, post, kick, handler, attached, eager, stop, gen, left, cut, bare, trouble>>
      BY <2>3 DEF Settle, history
    <3> QED BY <3>1, <3>2 DEF TypeOK, Attached, Closing
  <2> QED BY <1>7, <2>1, <2>2, <2>3
<1>8. CASE Take
  BY <1>8 DEF Take, Become, TypeOK, Attached, Closing, convVars, history
<1>9. CASE Reply \/ GiveUp \/ GiveUpCancels \/ Break
  <2>1. CASE Reply \/ GiveUpCancels
    <3>1. msg' \in [Msgs -> States]
      BY <2>1, BecomeMoves DEF Reply, GiveUpCancels, Cancelled, TypeOK, States
    <3>2. CASE Reply
      BY <3>1, <3>2 DEF Reply, TypeOK, States, Attached, Closing, convVars, history
    <3>3. CASE GiveUpCancels
      BY <3>1, <3>3 DEF GiveUpCancels, TypeOK, States, Attached, Closing, convVars, history
    <3> QED BY <2>1, <3>2, <3>3
  <2>2. CASE GiveUp
    <3>1. trouble' \in 0..MaxTrouble
      BY <2>2, TroubleCounts DEF GiveUp, TypeOK
    <3> QED BY <2>2, <3>1 DEF GiveUp, Become, TypeOK, Attached, Closing, convVars, history
  <2>3. CASE Break
    <3>1. trouble' \in 0..MaxTrouble
      BY <2>3, TroubleCounts DEF Break, TypeOK
    <3>2. msg' \in [Msgs -> States]
      BY <2>3 DEF Break, Become, TypeOK, States
    <3> QED BY <2>3, <3>1, <3>2 DEF Break, States, TypeOK, Attached, Closing, convVars, history
  <2> QED BY <1>9, <2>1, <2>2, <2>3
<1>10. CASE Finish
  BY <1>10 DEF Finish, Held, Set, TypeOK, Attached, Closing, convVars, history
<1>11. CASE Exit \/ ExitFails
  <2>1. CASE Exit
    <3>1. left' \subseteq Msgs /\ cut' \subseteq Msgs
      BY <2>1 DEF Exit, Queued, Consumed, TypeOK
    <3>2. /\ status' \in {"idle", "running", "stopped"} /\ lapsed' \in BOOLEAN
          /\ run' \in {"none", "later", "due", "lost"}
      BY <2>1 DEF Exit, TypeOK, convVars
    <3>3. /\ turn' = "none" /\ eager' = FALSE /\ attached' = FALSE /\ kick' = Woken /\ turn # "claim"
          /\ UNCHANGED <<msg, post, handler, stop, gen, bare, trouble>>
      BY <2>1 DEF Exit, Ending
    <3> QED BY <3>1, <3>2, <3>3, WokenGoOn DEF TypeOK, Attached, Closing
  <2>2. CASE ExitFails
    <3>1. trouble' \in 0..MaxTrouble
      BY <2>2, TroubleCounts DEF ExitFails, TypeOK
    <3>2. left' \subseteq Msgs /\ cut' \subseteq Msgs
      BY <2>2 DEF ExitFails, Queued, Consumed, TypeOK
    <3>3. /\ turn' = "none" /\ eager' = FALSE /\ attached' = FALSE /\ kick' = Woken /\ turn # "claim"
          /\ UNCHANGED <<msg, post, status, lapsed, run, handler, stop, gen, bare>>
      BY <2>2 DEF ExitFails, Ending, convVars
    <3> QED BY <3>1, <3>2, <3>3, WokenGoOn DEF TypeOK, Attached, Closing
  <2> QED BY <1>11, <2>1, <2>2
<1>12. CASE Release \/ ReleaseFails
  <2>1. CASE Release
    <3>1. /\ status' \in {"idle", "running", "stopped"} /\ lapsed' \in BOOLEAN
          /\ run' \in {"none", "later", "due", "lost"}
      BY <2>1 DEF Release, TypeOK
    <3>2. /\ turn' = "none" /\ eager' = FALSE /\ attached' = FALSE /\ kick' = Woken /\ turn # "claim"
          /\ UNCHANGED <<msg, post, handler, stop, gen, left, cut, bare, trouble>>
      BY <2>1 DEF Release, history
    <3> QED BY <3>1, <3>2, WokenGoOn DEF TypeOK, Attached, Closing
  <2>2. CASE ReleaseFails
    <3>1. /\ turn' = "none" /\ eager' = FALSE /\ attached' = FALSE /\ kick' = Woken /\ turn # "claim"
          /\ UNCHANGED <<msg, post, status, lapsed, run, handler, stop, gen, left, cut, bare, trouble>>
      BY <2>2 DEF ReleaseFails, convVars, history
    <3> QED BY <3>1, WokenGoOn DEF TypeOK, Attached, Closing
  <2> QED BY <1>12, <2>1, <2>2
<1>13. CASE Stop \/ Stopping
  <2>1. CASE Stop
    <3>1. trouble' \in 0..MaxTrouble
      BY <2>1, TroubleCounts DEF Stop, TypeOK
    <3> QED BY <2>1, <3>1 DEF Stop, Consumed, TypeOK, Attached, Closing, turnVars
  <2>2. CASE StopCancels
    BY <2>2 DEF StopCancels, Cancelled, Become, TypeOK, Attached, Closing, turnVars, convVars, history
  <2>3. CASE StopRemoves
    BY <2>3 DEF StopRemoves, Interrupted, Ending, Consumed, Queued, TypeOK, Attached, Closing, convVars
  <2> QED BY <1>13, <2>1, <2>2, <2>3 DEF Stopping
<1>14. CASE Park \/ Boot
  <2>1. CASE Park
    BY <2>1 DEF Park, Trouble, TypeOK, Attached, Closing, turnVars, convVars, history
  <2>2. CASE Boot
    <3>1. /\ msg' \in [Msgs -> States] /\ status' \in {"idle", "running", "stopped"} /\ lapsed' \in BOOLEAN
          /\ run' \in {"none", "later", "due", "lost"}
      BY <2>2 DEF Boot, Recovered, Become, TypeOK, States
    <3>2. left' \subseteq Msgs /\ cut' \subseteq Msgs
      BY <2>2 DEF Boot, Queued, Consumed, TypeOK
    <3> QED BY <2>2, <3>1, <3>2 DEF Boot, TypeOK, States, Attached, Closing, turnVars, history
  <2> QED BY <1>14, <2>1, <2>2
<1>15. CASE Close
  <2>1. PICK S \in SUBSET Msgs : Lost(S)
    BY <1>15 DEF Close
  <2>2. /\ msg' \in [Msgs -> States] /\ post' \in [Msgs -> {"none"}] /\ kick' \in [Msgs -> {"none"}]
        /\ handler' = "none" /\ stop' = "none" /\ status' \in {"idle", "running", "stopped"}
        /\ run' \in {"none", "later", "due", "lost"} /\ left' \subseteq Msgs /\ cut' \subseteq Msgs
    BY <2>1, LostKeeps
  <2>3. turn' \in {"none", "release", "exit", "broke"}
    BY <1>15 DEF Close, Interrupted, Ending
  <2> QED BY <1>15, <2>2, <2>3 DEF Close, TypeOK, States, Attached, Closing
<1>16. CASE Crash
  <2>1. PICK S \in SUBSET Msgs : Lost(S)
    BY <1>16 DEF Crash
  <2>2. trouble' \in 0..MaxTrouble
    BY <1>16, TroubleCounts DEF Crash, TypeOK
  <2>3. /\ msg' \in [Msgs -> States] /\ post' \in [Msgs -> {"none"}] /\ kick' \in [Msgs -> {"none"}]
        /\ handler' = "none" /\ stop' = "none" /\ status' \in {"idle", "running", "stopped"}
        /\ run' \in {"none", "later", "due", "lost"} /\ left' \subseteq Msgs /\ cut' \subseteq Msgs
    BY <2>1, LostKeeps
  <2> QED BY <1>16, <2>2, <2>3 DEF Crash, TypeOK, States, Attached, Closing
<1>17. CASE UNCHANGED vars
  BY <1>17 DEF vars, TypeOK, Attached, Closing
<1> QED BY <1>1, <1>2, <1>3, <1>4, <1>5, <1>6, <1>7, <1>8, <1>9, <1>10, <1>11, <1>12, <1>13, <1>14, <1>15,
           <1>16, <1>17, <1>18, <1>19, <1>20 DEF Next, Turn, Faults

-----------------------------------------------------------------------------
(* What a turn has taken.                                                  *)

\* Only a turn that takes from the queue adds to what is to be answered.
LEMMA OpenShrinks ==
    ASSUME TypeOK, [Next]_vars
    PROVE  (turn = "take" /\ turn' = "work") \/ Open' \subseteq Open
<1>0. msg \in [Msgs -> States]
  BY DEF TypeOK, States
<1>1. ASSUME cut \subseteq cut', \A m \in Msgs : msg'[m] = "consumed" => msg[m] = "consumed"
      PROVE  Open' \subseteq Open
  BY <1>1 DEF Open, Consumed
<1>2. ASSUME NEW m \in Msgs, NEW s \in States \ {"consumed"}, msg' = Set(msg, m, s), cut' = cut
      PROVE  Open' \subseteq Open
  BY <1>0, <1>1, <1>2 DEF Set
<1>3. ASSUME NEW S, NEW s \in States \ {"consumed"}, msg' = Become(S, s), cut \subseteq cut'
      PROVE  Open' \subseteq Open
  BY <1>0, <1>1, <1>3, BecomeMoves
<1>4. ASSUME msg' = msg, cut \subseteq cut' PROVE Open' \subseteq Open
  BY <1>1, <1>4
<1>5. {"absent", "queued", "finish", "timed", "answered", "cancelled"} \subseteq States \ {"consumed"}
  BY DEF States
<1>6. CASE Calls
  BY <1>2, <1>4, <1>5, <1>6 DEF Calls, Post, ScheduleAt, ScheduleFinish, Remove, Note, Resume, history
<1>7. ASSUME NEW m \in Msgs, Posting(m) \/ LandLost(m) PROVE Open' \subseteq Open
  BY <1>2, <1>4, <1>5, <1>7 DEF Posting, Snapshot, Land, Lands, LandLost, DueGone, Hold, ResumeNote, history
<1>8. ASSUME NEW m \in Msgs, Kicks(m) PROVE Open' \subseteq Open
  BY <1>4, <1>8 DEF Kicks, KickLook, KickCheck, KickDrain, history
<1>9. CASE Handler \/ LeaseLapses \/ Park
  BY <1>4, <1>9 DEF Handler, RunDue, HandlerClaim, HandlerDrain, HandlerLook, HandlerDefer, LeaseLapses, Park,
          history
<1>10. CASE Claim \/ ClaimRefused \/ Top \/ StepOn \/ Settle \/ Exit \/ ExitFails \/ Release \/ ReleaseFails
  BY <1>4, <1>10 DEF Claim, ClaimRefused, Top, StepOn, Settle, Exit, ExitFails, Release, ReleaseFails, history
<1>11. CASE Reply \/ GiveUp \/ GiveUpCancels \/ Break \/ Boot
  BY <1>3, <1>4, <1>5, <1>11 DEF Reply, GiveUp, GiveUpCancels, Break, Boot, Cancelled, history
<1>17. ASSUME HandlerFails \/ ClaimFails \/ \E m \in Msgs : KickFails(m) PROVE Open' \subseteq Open
  BY <1>4, <1>17 DEF HandlerFails, ClaimFails, KickFails
<1>12. CASE Finish
  BY <1>2, <1>4, <1>5, <1>12 DEF Finish, Held, history
<1>13. CASE Stop \/ Stopping
  BY <1>3, <1>4, <1>5, <1>13 DEF Stop, Stopping, StopCancels, StopRemoves, Cancelled, history
<1>14. CASE Close \/ Crash
  <2>1. PICK S \in SUBSET Msgs : Lost(S)
    BY <1>14 DEF Close, Crash
  <2>2. msg' = Become(S, "queued") /\ cut \subseteq cut'
    BY <2>1 DEF Lost
  <2> QED BY <1>3, <1>5, <2>2
<1>15. CASE UNCHANGED vars
  BY <1>4, <1>15 DEF vars
<1>16. CASE Take
  BY <1>4, <1>16 DEF Take, history
<1> QED BY <1>6, <1>7, <1>8, <1>9, <1>10, <1>11, <1>12, <1>13, <1>14, <1>15, <1>16, <1>17 DEF Next, Turn, Faults

\* A turn that answers, or that a stop cuts off, leaves nothing to be answered.
LEMMA OpenEnds ==
    ASSUME TypeOK
    PROVE  /\ (Reply \/ GiveUp \/ Stop) => Open' = {}
           /\ (Exit /\ turn = "broke") => Open' = {}
           /\ (HandlerFails /\ ~Carried') => Open' = {}
           /\ (ClaimFails /\ handler = "claim" /\ ~Carried') => Open' = {}
           /\ (ExitFails /\ ~Carried' /\ ~(status = "running" /\ ~bare)) => Open' = {}
           /\ (Boot /\ status' # status) => Open' = {}
           /\ (StopRemoves /\ turn # "none") => Open' = {}
           /\ (Top /\ status = "stopped") => Open' = {}
           /\ \A S \in SUBSET Msgs :
                 (Lost(S) /\ (status # "running" \/ (run' = "none" /\ bare))) => Open' = {}
<1>0. msg \in [Msgs -> States]
  BY DEF TypeOK, States
<1>1. ASSUME Reply \/ GiveUp \/ (Boot /\ msg' = Become(Consumed, "answered")) PROVE Open' = {}
  <2>1. \A m \in Msgs : msg'[m] # "consumed"
    BY <1>0, <1>1, BecomeMoves DEF Reply, GiveUp, Boot, Consumed, States
  <2> QED BY <2>1 DEF Open, Consumed
<1>2. ASSUME msg' = msg, cut' = cut \cup Consumed PROVE Open' = {}
  BY <1>2 DEF Open, Consumed
<1>3. ASSUME NEW S \in SUBSET Msgs, Lost(S), status # "running" \/ (run' = "none" /\ bare) PROVE Open' = {}
  <2>1. msg' = Become(S, "queued") /\ cut' = cut \cup Consumed
    BY <1>3 DEF Lost
  <2>2. Consumed' \subseteq Consumed
    BY <1>0, <2>1, BecomeMoves DEF Consumed, States
  <2> QED BY <2>1, <2>2 DEF Open
<1>4. (Exit /\ turn = "broke") \/ Stop \/ (StopRemoves /\ turn # "none") \/ (Top /\ status = "stopped") => Open' = {}
  BY <1>2 DEF Exit, Stop, StopRemoves, Top
<1>5. (HandlerFails \/ (ClaimFails /\ handler = "claim")) /\ ~Carried' => Open' = {}
  BY <1>2 DEF HandlerFails, ClaimFails
<1>6. (ExitFails /\ ~Carried' /\ ~(status = "running" /\ ~bare)) => Open' = {}
  BY <1>2 DEF ExitFails
<1>7. (Boot /\ status' # status) => Open' = {}
  BY <1>1, <1>2 DEF Boot
<1> QED BY <1>1, <1>3, <1>4, <1>5, <1>6, <1>7

\* Who answers for it.
LEMMA OwedStep ==
    ASSUME TypeOK, Attached, Owed, [Next]_vars
    PROVE  Owed'
<1>0. (turn = "take" /\ turn' = "work") \/ Open' \subseteq Open
  BY OpenShrinks
<1>1. /\ run \in {"none", "later", "due", "lost"} /\ attached \in BOOLEAN
      /\ handler \in {"none", "drain", "claim", "look", "defer"}
      /\ turn \in {"none", "claim", "top", "take", "work", "finish", "settle"} \cup Closing
      /\ handler = "claim" => turn = "claim"
  BY DEF TypeOK
<1>2. ASSUME UNCHANGED <<turn, eager, gen>>, status' = status \/ (status = "stopped" /\ status' = "idle"),
             Durable => Durable', Backed => Backed', bare' = bare
      PROVE  Owed'
  <2>1. Open' \subseteq Open
    BY <1>0, <1>2
  <2> QED BY <1>2, <2>1 DEF Owed
<1>3. CASE Calls
  <2>1. UNCHANGED <<turn, eager, gen, run, handler, attached, bare>>
    BY <1>3 DEF Calls, Post, ScheduleAt, ScheduleFinish, Remove, Note, Resume, turnVars, convVars, history
  <2>2. status' = status \/ (status = "stopped" /\ status' = "idle")
    BY <1>3 DEF Calls, Post, ScheduleAt, ScheduleFinish, Remove, Note, Resume, Reopened, convVars
  <2> QED BY <1>2, <2>1, <2>2 DEF Durable, Backed
<1>4. ASSUME NEW m \in Msgs, Posting(m) \/ LandLost(m) PROVE Owed'
  <2>1. UNCHANGED <<turn, eager, gen, handler, attached, bare>>
    BY <1>4 DEF Posting, Snapshot, Land, Lands, LandLost, DueGone, Hold, ResumeNote, turnVars, history
  <2>2. status' = status \/ (status = "stopped" /\ status' = "idle")
    BY <1>4 DEF Posting, Snapshot, Land, Lands, LandLost, DueGone, Hold, ResumeNote, Reopened, convVars
  <2>3. run # "none" => run' # "none"
    BY <1>1, <1>4, KeptIsRun DEF Posting, Snapshot, Land, Lands, LandLost, DueGone, Hold, ResumeNote, RunAfter,
            convVars
  <2> QED BY <1>2, <2>1, <2>2, <2>3 DEF Durable, Backed
<1>5. ASSUME NEW m \in Msgs, Kicks(m) \/ KickFails(m) PROVE Owed'
  <2>1. /\ turn' = turn \/ (turn = "none" /\ turn' = "claim")
        /\ UNCHANGED <<eager, gen, status, run, handler, attached, bare>>
    BY <1>5 DEF Kicks, KickLook, KickCheck, KickDrain, KickFails, turnVars, convVars, history
  <2>2. Open' \subseteq Open /\ (Durable' <=> Durable) /\ (Backed' <=> Backed)
    BY <1>0, <2>1 DEF Durable, Backed
  <2> QED BY <2>1, <2>2 DEF Owed, Working
<1>6. CASE Handler \/ LeaseLapses \/ Park \/ Boot
  <2>1. CASE HandlerDrain
    <3>1. /\ turn' = turn \/ (turn = "none" /\ turn' = "claim")
          /\ UNCHANGED <<eager, gen, status, run, attached, bare>> /\ handler' # "none"
      BY <2>1 DEF HandlerDrain, convVars, history
    <3>2. Open' \subseteq Open /\ Durable' /\ Backed'
      BY <1>0, <3>1 DEF Durable, Backed
    <3> QED BY <3>1, <3>2 DEF Owed, Working
  <2>2. CASE HandlerLook
    <3>1. /\ UNCHANGED <<turn, eager, gen, status>>
          /\ status = "running" => handler' # "none"
      BY <2>2 DEF HandlerLook, turnVars, convVars
    <3>2. Open' \subseteq Open /\ (status = "running" => Durable' /\ Backed')
      BY <1>0, <3>1 DEF Durable, Backed
    <3> QED BY <3>1, <3>2 DEF Owed
  <2>3. CASE RunDue \/ HandlerClaim \/ HandlerDefer \/ LeaseLapses
    <3>1. UNCHANGED <<turn, eager, gen, status, bare>> /\ (Durable => Durable') /\ (Backed => Backed')
      BY <1>1, <2>3, KeptIsRun DEF RunDue, HandlerClaim, HandlerDefer, LeaseLapses, turnVars, history, Durable, Backed
    <3> QED BY <1>2, <3>1
  <2>4. CASE Park
    <3>1. /\ UNCHANGED <<turn, eager, status, run, handler, attached, bare>>
          /\ gen # "closed"
      BY <2>4 DEF Park, turnVars, convVars, history
    <3>2. Open' \subseteq Open /\ (Durable' <=> Durable) /\ (Backed' <=> Backed)
      BY <1>0, <3>1 DEF Durable, Backed
    <3> QED BY <3>1, <3>2 DEF Owed
  <2>5. CASE Boot
    <3>1. turn = "none" /\ turn' = "none" /\ UNCHANGED <<handler, attached>>
      BY <2>5 DEF Boot, turnVars
    <3>2. Open' # {} => status' = status
      BY <2>5, OpenEnds DEF Boot
    <3>4. (status = "running" /\ status' = status /\ run # "none") => run' # "none"
      BY <2>5 DEF Boot, Recovered, Released
    <3>3. Open' \subseteq Open /\ ((status = "running" /\ status' = status /\ Durable) => Durable')
      BY <1>0, <3>1, <3>4 DEF Durable
    <3> QED BY <3>1, <3>2, <3>3 DEF Owed, Working
  <2> QED BY <1>6, <2>1, <2>2, <2>3, <2>4, <2>5 DEF Handler
<1>20. CASE HandlerFails
  <2>1. UNCHANGED <<turn, eager, gen, status>> /\ bare' = TRUE
    BY <1>20 DEF HandlerFails, turnVars, convVars
  <2>2. Open' \subseteq Open
    BY <1>0, <2>1
  <2>3. (turn \in {"none", "claim", "release"} /\ Open' # {}) => status' = "running" /\ Durable'
    BY <1>20, <2>1, OpenEnds DEF Carried
  <2> QED BY <2>1, <2>2, <2>3 DEF Owed
<1>21. CASE ClaimFails
  <2>1. /\ turn = "claim" /\ turn' = "none" /\ Open' \subseteq Open /\ attached' = attached
        /\ status' = status \/ status' = "running"
        /\ run # "none" => run' # "none"
        /\ handler # "claim" => handler' = handler
    BY <1>0, <1>1, <1>21, KeptIsRun DEF ClaimFails, convVars
  <2>2. CASE handler = "claim"
    <3>1. Open' # {} => status' = "running" /\ Durable'
      BY <1>21, <2>1, <2>2, OpenEnds DEF Carried
    <3> QED BY <2>1, <3>1 DEF Owed, Working
  <2>3. CASE handler # "claim"
    <3>1. Durable => Durable'
      BY <2>1, <2>3 DEF Durable
    <3> QED BY <2>1, <3>1 DEF Owed, Working
  <2> QED BY <2>2, <2>3
<1>7. CASE Claim
  <2>1. turn = "claim" /\ turn' = "top" /\ eager' = TakenOver /\ run' # "none" /\ Open' \subseteq Open
    BY <1>0, <1>1, <1>7, KeptIsRun DEF Claim
  <2>2. Open # {} => TakenOver
    BY <2>1 DEF Owed, TakenOver, Open
  <2> QED BY <2>1, <2>2 DEF Owed, Working, Backed
<1>8. CASE ClaimRefused
  <2>1. /\ turn = "claim" /\ turn' = "none" /\ UNCHANGED <<status, run, attached>> /\ Open' \subseteq Open
        /\ handler # "none" => handler' # "none"
    BY <1>0, <1>8 DEF ClaimRefused, convVars
  <2> QED BY <2>1 DEF Owed, Working, Durable
<1>9. CASE Top
  <2>1. /\ turn = "top" /\ UNCHANGED <<status, eager, run, handler, bare>> /\ Open' \subseteq Open
        /\ (turn' = "broke" /\ status = "stopped") \/ turn' = "take"
    BY <1>0, <1>9 DEF Top, convVars
  <2> QED BY <2>1 DEF Owed, Working, Backed
<1>10. CASE Take
  <2>1. /\ turn = "take" /\ UNCHANGED <<status, eager, run, handler, bare>>
        /\ turn' = "work" \/ (turn' = "finish" /\ ~eager)
    BY <1>10 DEF Take, convVars, history
  <2> QED BY <1>0, <2>1 DEF Owed, Working, Backed
<1>11. CASE StepOn \/ Reply
  <2>1. /\ turn = "work" /\ eager' = TRUE /\ UNCHANGED <<status, run, handler, bare>>
        /\ turn' = "top" \/ (turn' = "finish" /\ Reply)
    BY <1>11 DEF StepOn, Reply, convVars, history
  <2> QED BY <2>1, OpenEnds DEF Owed, Working, Backed
<1>12. CASE GiveUp \/ Break
  <2>1. /\ (turn' = "cancel" /\ GiveUp) \/ turn' = "broke"
        /\ turn \in Working \cup {"cancel"} /\ UNCHANGED <<status, run, handler, bare>>
    BY <1>12 DEF GiveUp, Break, Working, convVars, history
  <2>2. turn' = "cancel" => Open' = {}
    BY <2>1, OpenEnds
  <2> QED BY <2>1, <2>2 DEF Owed, Working, Backed
<1>13. CASE GiveUpCancels \/ Settle \/ Finish
  <2>1. /\ turn \in {"cancel", "settle", "finish"} /\ Open' \subseteq Open
        /\ turn' = "exit" \/ (UNCHANGED <<status, run, handler, bare>> /\ turn' \in {"top", "settle", "broke"})
    BY <1>0, <1>13 DEF GiveUpCancels, Settle, Finish, convVars, history
  <2> QED BY <2>1 DEF Owed, Working, Backed
<1>14. CASE Exit \/ ExitFails
  <2>1. turn \in {"exit", "broke"} /\ turn' = "none" /\ Open' \subseteq Open
    BY <1>0, <1>14 DEF Exit, ExitFails, Ending
  <2>2. CASE turn = "exit" \/ Exit
    <3>1. Open' = {}
      BY <2>1, <2>2, OpenEnds DEF Owed
    <3> QED BY <2>1, <3>1 DEF Owed, Working
  <2>3. CASE turn = "broke" /\ ExitFails
    <3>1. UNCHANGED <<status, run, handler, bare>>
      BY <2>3 DEF ExitFails, convVars
    <3>2. (status = "running" /\ ~bare) => Durable'
      BY <2>3, <3>1 DEF Owed, Backed, Durable
    <3>3. Open' # {} => status' = "running" /\ Durable'
      BY <2>1, <2>3, <3>1, <3>2, OpenEnds DEF Carried
    <3> QED BY <2>1, <3>3 DEF Owed, Working
  <2> QED BY <1>14, <2>1, <2>2, <2>3
<1>15. CASE Release \/ ReleaseFails
  <2>1. /\ turn = "release" /\ turn' = "none" /\ Open' \subseteq Open /\ UNCHANGED <<status, handler>>
        /\ run # "none" => run' # "none"
    BY <1>0, <1>15 DEF Release, ReleaseFails, convVars
  <2>2. Open # {} => status = "running" /\ run # "none"
    BY <2>1 DEF Owed, Attached, Durable
  <2> QED BY <2>1, <2>2 DEF Owed, Working, Durable
<1>16. CASE Stop
  <2>1. Open' = {} /\ status' = "stopped"
    BY <1>16, OpenEnds DEF Stop
  <2> QED BY <2>1 DEF Owed
<1>17. CASE Stopping
  <2>1. CASE StopCancels
    BY <1>2, <2>1 DEF StopCancels, turnVars, convVars, history, Durable, Backed
  <2>2. CASE StopRemoves /\ turn # "none"
    <3>1. Open' = {} /\ turn' \in {"exit", "broke", "release"} /\ (turn' = "broke" => turn = "broke")
      BY <2>2, OpenEnds DEF StopRemoves, Interrupted, Ending
    <3>2. UNCHANGED <<status, run, bare>> /\ (turn = "broke" => handler' = handler)
      BY <1>1, <2>2 DEF StopRemoves, convVars
    <3> QED BY <3>1, <3>2 DEF Owed, Working, Backed
  <2>3. CASE StopRemoves /\ turn = "none"
    BY <1>1, <1>2, <2>3 DEF StopRemoves, Interrupted, convVars, Durable, Backed
  <2> QED BY <1>17, <2>1, <2>2, <2>3 DEF Stopping
<1>18. CASE Close \/ Crash
  <2>1. PICK S \in SUBSET Msgs : Lost(S)
    BY <1>18 DEF Close, Crash
  <2>2. (status' = "running" <=> status = "running") /\ (Durable => run' # "none")
    BY <2>1, LostKeeps
  <2>3. status # "running" \/ (run' = "none" /\ bare) => Open' = {}
    BY <2>1, OpenEnds
  <2>4. /\ turn' \in {"none", "release", "exit", "broke"} /\ (turn' = "release" => gen' = "closed")
        /\ turn' \in {"exit", "broke"} => turn = turn'
    BY <1>18 DEF Close, Crash, Interrupted, Ending
  <2>5. Open' \subseteq Open
    BY <1>0, <2>4
  <2>6. Open # {} /\ status = "running" /\ ~bare => Durable
    BY <1>1 DEF Owed, Working, Closing, Backed, Durable
  <2>7. Open' # {} => status' = "running" /\ Durable'
    BY <2>2, <2>3, <2>5, <2>6 DEF Durable
  <2>8. turn' = "exit" => Open' = {}
    BY <2>4, <2>5 DEF Owed
  <2>9. bare' = bare
    BY <1>18 DEF Close, Crash
  <2>10. (turn' = "broke" /\ status' = "running" /\ ~bare') => Backed'
    BY <2>2, <2>4, <2>9 DEF Owed, Backed, Durable
  <2> QED BY <2>4, <2>7, <2>8, <2>10 DEF Owed, Working
<1>19. CASE UNCHANGED vars
  BY <1>2, <1>19 DEF vars, Durable, Backed
<1> QED BY <1>3, <1>4, <1>5, <1>6, <1>7, <1>8, <1>9, <1>10, <1>11, <1>12, <1>13, <1>14, <1>15, <1>16, <1>17, <1>18, <1>19, <1>20,
           <1>21 DEF Next, Turn, Faults

-----------------------------------------------------------------------------
(* The end of a turn.                                                      *)

\* Trouble only grows.
LEMMA TroubleGrows ==
    ASSUME TypeOK, [Next]_vars
    PROVE  trouble \in Nat /\ trouble' \in Nat /\ trouble <= trouble'
<1>0. trouble \in Nat /\ trouble \in 0..MaxTrouble /\ MaxTrouble \in Nat
  BY AgentAssumption DEF TypeOK
<1>1. trouble' = trouble \/ Trouble
  BY DEF Next, vars, Calls, Post, ScheduleAt, ScheduleFinish, Remove, Note, Resume, Posting, Snapshot, Land, DueGone,
         Hold, ResumeNote, Kicks, KickLook, KickCheck, KickDrain, Handler, RunDue, HandlerClaim, HandlerDrain,
         HandlerLook, HandlerDefer, LeaseLapses, Turn, Claim, ClaimRefused, Top, Take, StepOn, Reply,
         GiveUpCancels, Finish, Settle, Exit, Release, Stop, Stopping, StopCancels, StopRemoves, Park, Close,
         Boot, Faults, GiveUp, Break, ExitFails, ReleaseFails, Crash, LandLost,
         KickFails, HandlerFails, ClaimFails
<1>2. Trouble => trouble' = trouble + 1
  BY DEF Trouble
<1> QED BY <1>0, <1>1, <1>2

\* A turn that has settled stays so until it is over.
LEMMA SettledStep ==
    ASSUME TypeOK, Settled, [Next]_vars
    PROVE  Settled'
<1>1. ASSUME turn' = "exit" => turn = "exit", status' = "running" => status = "running" PROVE Settled'
  BY <1>1 DEF Settled
<1>2. ASSUME turn' # "exit" PROVE Settled'
  BY <1>2 DEF Settled
<1>3. CASE Calls \/ \E m \in Msgs : Posting(m) \/ LandLost(m)
  BY <1>1, <1>3 DEF Calls, Post, ScheduleAt, ScheduleFinish, Remove, Note, Resume, Posting, Snapshot, Land, Lands, LandLost,
          DueGone, Hold, ResumeNote, Reopened, turnVars, convVars
<1>4. ASSUME NEW m \in Msgs, Kicks(m) \/ KickFails(m) PROVE Settled'
  BY <1>1, <1>4 DEF Kicks, KickLook, KickCheck, KickDrain, KickFails, turnVars, convVars
<1>5. CASE Handler \/ HandlerFails \/ LeaseLapses \/ Park \/ Stop \/ StopCancels
  BY <1>1, <1>5 DEF Handler, RunDue, HandlerClaim, HandlerDrain, HandlerLook, HandlerDefer, HandlerFails, LeaseLapses,
          Park, Stop, StopCancels, turnVars, convVars
<1>6. CASE Claim \/ ClaimRefused \/ ClaimFails \/ Top \/ Take \/ StepOn \/ Reply \/ GiveUp \/ GiveUpCancels \/ Break
           \/ Finish \/ Exit \/ ExitFails \/ Release \/ ReleaseFails \/ Crash
  BY <1>2, <1>6 DEF Claim, ClaimRefused, ClaimFails, Top, Take, StepOn, Reply, GiveUp, GiveUpCancels, Break, Finish,
          Exit, ExitFails, Release, ReleaseFails, Crash
<1>7. CASE Settle
  BY <1>2, <1>7 DEF Settle, Settled
<1>8. CASE StopRemoves
  BY <1>1, <1>8 DEF StopRemoves, Interrupted, Ending, convVars
<1>9. CASE Close
  <2>1. PICK S \in SUBSET Msgs : Lost(S)
    BY <1>9 DEF Close
  <2>2. status' = "running" <=> status = "running"
    BY <2>1, LostKeeps
  <2>3. turn' = "exit" => turn = "exit"
    BY <1>9 DEF Close, Interrupted, Ending
  <2> QED BY <1>1, <2>2, <2>3
<1>10. CASE Boot
  BY <1>2, <1>10 DEF Boot, turnVars
<1>11. CASE UNCHANGED vars
  BY <1>1, <1>11 DEF vars
<1> QED BY <1>3, <1>4, <1>5, <1>6, <1>7, <1>8, <1>9, <1>10, <1>11 DEF Next, Turn, Faults, Stopping

-----------------------------------------------------------------------------
(* Who answers for what is queued.                                         *)

\* What is on its way is queued nowhere yet.
LEMMA PostedStep ==
    ASSUME TypeOK, Posted, [Next]_vars
    PROVE  Posted'
<1>0. msg \in [Msgs -> States] /\ post \in [Msgs -> {"none", "open", "seen", "clear", "finish", "resume"}]
  BY DEF TypeOK, States
<1>1. CASE Calls
  BY <1>0, <1>1 DEF Calls, Post, ScheduleAt, ScheduleFinish, Remove, Note, Resume, New, Set, Posted
<1>2. ASSUME NEW m \in Msgs, Posting(m) \/ LandLost(m) PROVE Posted'
  BY <1>0, <1>2 DEF Posting, Snapshot, Land, Lands, LandLost, DueGone, Hold, ResumeNote, Set, Posted
<1>3. ASSUME NEW S, NEW s \in States, msg' = Become(S, s), post' = post, S \subseteq Queued \cup Held \cup Consumed
      PROVE  Posted'
  <2>1. \A m \in Msgs : msg'[m] = IF m \in S THEN s ELSE msg[m]
    BY <1>0, <1>3, BecomeMoves
  <2> QED BY <1>3, <2>1 DEF Posted, Queued, Held, Consumed
<1>4. {"consumed", "answered", "cancelled", "queued"} \subseteq States
  BY DEF States
<1>5. CASE Take \/ Reply \/ GiveUp \/ GiveUpCancels \/ Break \/ StopCancels \/ Boot
  <2>1. \/ msg' = msg
        \/ \E S \in SUBSET (Queued \cup Held \cup Consumed), s \in {"consumed", "answered", "cancelled"} : msg' = Become(S, s)
    BY <1>5 DEF Take, Reply, GiveUp, GiveUpCancels, Break, StopCancels, Boot, Cancelled
  <2>2. post' = post
    BY <1>5 DEF Take, Reply, GiveUp, GiveUpCancels, Break, StopCancels, Boot
  <2> QED BY <1>3, <1>4, <2>1, <2>2 DEF Posted
<1>6. CASE Finish
  BY <1>0, <1>6 DEF Finish, Held, Set, Posted
<1>7. CASE Close \/ Crash
  <2>1. PICK S \in SUBSET Msgs : Lost(S)
    BY <1>7 DEF Close, Crash
  <2> QED BY <2>1 DEF Lost, Posted
<1>8. ASSUME UNCHANGED <<msg, post>> PROVE Posted'
  BY <1>8 DEF Posted
<1>9. ASSUME NEW m \in Msgs, Kicks(m) \/ KickFails(m) PROVE Posted'
  BY <1>8, <1>9 DEF Kicks, KickLook, KickCheck, KickDrain, KickFails
<1>10. CASE Handler \/ HandlerFails \/ LeaseLapses \/ Park
  BY <1>8, <1>10 DEF Handler, RunDue, HandlerClaim, HandlerDrain, HandlerLook, HandlerDefer, HandlerFails, LeaseLapses,
          Park
<1>11. CASE Claim \/ ClaimRefused \/ ClaimFails \/ Top \/ StepOn \/ Settle \/ Exit \/ ExitFails \/ Release \/ ReleaseFails
  BY <1>8, <1>11 DEF Claim, ClaimRefused, ClaimFails, Top, StepOn, Settle, Exit, ExitFails, Release, ReleaseFails
<1>12. CASE Stop \/ StopRemoves
  BY <1>8, <1>12 DEF Stop, StopRemoves
<1>13. CASE UNCHANGED vars
  BY <1>8, <1>13 DEF vars
<1> QED BY <1>1, <1>2, <1>5, <1>6, <1>7, <1>9, <1>10, <1>11, <1>12, <1>13 DEF Next, Turn, Faults, Stopping

\* How a call or a posting statement changes the queue, and whom it calls.
LEMMA PostingQueues ==
    ASSUME TypeOK, Calls \/ \E m \in Msgs : Posting(m) \/ LandLost(m)
    PROVE  /\ UNCHANGED <<turn, stop, gen, handler>>
           /\ status' = status \/ (status = "stopped" /\ Queued \subseteq left')
           /\ status = "running" => status' = "running"
           /\ run # "none" => run' # "none"
           /\ left \subseteq left'
           /\ Kicked => Kicked'
           /\ \A m \in Queued' : m \in Queued \/ Kicked' \/ m \in left'
<1>0. /\ msg \in [Msgs -> States] /\ run \in {"none", "later", "due", "lost"}
      /\ kick \in [Msgs -> {"none", "look", "await", "check", "drain"}]
  BY DEF TypeOK, States
<1>1. ASSUME NEW m \in Msgs, kick' = Set(kick, m, "look") \/ kick' = Set(kick, m, "drain")
      PROVE  Kicked'
  BY <1>0, <1>1 DEF Set, Kicked
<1>2. ASSUME NEW m \in Msgs, NEW s \in States, msg' = Set(msg, m, s)
      PROVE  \A k \in Queued' : k \in Queued \/ (k = m /\ s = "queued")
  BY <1>0, <1>2 DEF Set, Queued
<1>3. ASSUME UNCHANGED kick PROVE Kicked => Kicked'
  BY <1>3 DEF Kicked
<1>4. ASSUME UNCHANGED msg PROVE Queued' = Queued
  BY <1>4 DEF Queued
<1>5. {"absent", "queued", "finish", "timed", "answered", "cancelled"} \subseteq States
  BY DEF States
<1>6. CASE Calls
  <2>1. /\ UNCHANGED <<turn, stop, gen, handler, run>> /\ left \subseteq left'
        /\ status' = status \/ (status = "stopped" /\ Queued \subseteq left')
        /\ status = "running" => status' = "running"
    BY <1>6 DEF Calls, Post, ScheduleAt, ScheduleFinish, Remove, Note, Resume, Reopened, Stranded, turnVars,
            convVars, history
  <2>2. (Kicked => Kicked') /\ \A m \in Queued' : m \in Queued \/ Kicked' \/ m \in left'
    BY <1>1, <1>2, <1>3, <1>4, <1>5, <1>6 DEF Calls, Post, ScheduleAt, ScheduleFinish, Remove, Note, Resume
  <2> QED BY <2>1, <2>2
<1>7. ASSUME NEW m \in Msgs, Posting(m) \/ LandLost(m)
      PROVE  /\ UNCHANGED <<turn, stop, gen, handler>>
             /\ status' = status \/ (status = "stopped" /\ Queued \subseteq left')
             /\ status = "running" => status' = "running"
             /\ run # "none" => run' # "none"
             /\ left \subseteq left'
             /\ Kicked => Kicked'
             /\ \A k \in Queued' : k \in Queued \/ Kicked' \/ k \in left'
  <2>1. UNCHANGED <<turn, stop, gen, handler>> /\ left \subseteq left'
    BY <1>7 DEF Posting, Snapshot, Land, Lands, LandLost, DueGone, Hold, ResumeNote, turnVars, history
  <2>2. /\ status' = status \/ (status = "stopped" /\ Queued \subseteq left')
        /\ status = "running" => status' = "running"
    BY <1>7 DEF Posting, Snapshot, Land, Lands, LandLost, DueGone, Hold, ResumeNote, Reopened, Stranded, convVars
  <2>3. run # "none" => run' # "none"
    BY <1>0, <1>7, KeptIsRun DEF Posting, Snapshot, Land, Lands, LandLost, DueGone, Hold, ResumeNote, RunAfter,
            convVars
  <2>4. Kicked => Kicked'
    BY <1>1, <1>3, <1>7 DEF Posting, Snapshot, Land, LandLost, DueGone, Hold, ResumeNote
  <2>5. \A k \in Queued' : k \in Queued \/ Kicked' \/ k \in left'
    BY <1>1, <1>2, <1>4, <1>5, <1>7 DEF Posting, Snapshot, Land, Lands, LandLost, DueGone, Hold, ResumeNote
  <2> QED BY <2>1, <2>2, <2>3, <2>4, <2>5
<1> QED BY <1>6, <1>7

\* A kick that ends leaves nothing queued behind a turn that is closing, unless
\* another kick is there or the messages are left.
LEMMA KicksCover ==
    ASSUME TypeOK, NEW m \in Msgs, Kicks(m)
    PROVE  /\ UNCHANGED <<msg, status, run, handler, stop, gen>> /\ left \subseteq left'
           /\ turn' = turn \/ (turn = "none" /\ turn' = "claim")
           /\ \/ Kicked' \/ Queued = {} \/ turn' = "claim"
              \/ turn' = turn /\ turn \notin Closing
              \/ turn' = turn /\ Queued \subseteq left'
<1>0. kick \in [Msgs -> {"none", "look", "await", "check", "drain"}]
  BY DEF TypeOK
<1>1. CASE KickLook(m)
  <2>1. Kicked'
    BY <1>0, <1>1 DEF KickLook, Set, Kicked
  <2> QED BY <1>1, <2>1 DEF KickLook, turnVars, convVars, history
<1>2. CASE KickCheck(m)
  <2>1. Kicked' \/ Queued = {}
    BY <1>0, <1>2 DEF KickCheck, Set, Kicked
  <2> QED BY <1>2, <2>1 DEF KickCheck, turnVars, convVars, history
<1>3. CASE KickDrain(m)
  <2>1. \A k \in Msgs \ {m} : kick'[k] = kick[k]
    BY <1>0, <1>3 DEF KickDrain, Set
  <2>2. Kicked' \/ \A k \in Msgs \ {m} : kick[k] = "none"
    BY <2>1 DEF Kicked
  <2> QED BY <1>3, <2>2 DEF KickDrain, convVars
<1> QED BY <1>1, <1>2, <1>3 DEF Kicks

\* What a kick, a handler or a claim leaves queued when it fails, or is refused,
\* is heard by somebody else, or left.
LEMMA FailsCover ==
    ASSUME TypeOK, HandlerFails \/ ClaimFails \/ ClaimRefused \/ \E m \in Msgs : KickFails(m)
    PROVE  /\ msg' = msg /\ gen' = gen /\ left \subseteq left'
           /\ turn' = turn \/ turn' = "none"
           /\ Heard' \/ Queued \subseteq left'
<1>1. CASE HandlerFails
  BY <1>1 DEF HandlerFails, turnVars
<1>2. CASE ClaimFails \/ ClaimRefused
  BY <1>2 DEF ClaimFails, ClaimRefused
<1>3. ASSUME NEW m \in Msgs, KickFails(m)
      PROVE  /\ msg' = msg /\ gen' = gen /\ left \subseteq left'
             /\ turn' = turn \/ turn' = "none"
             /\ Heard' \/ Queued \subseteq left'
  BY <1>3 DEF KickFails, turnVars
<1> QED BY <1>1, <1>2, <1>3

\* What is queued while a turn ends is called for, or left.
LEMMA AwaitedStep ==
    ASSUME TypeOK, Attached, Awaited, [Next]_vars
    PROVE  Awaited'
<1>1. ASSUME turn' \notin {"exit", "release"} PROVE Awaited'
  BY <1>1 DEF Awaited
<1>2. CASE Calls \/ \E m \in Msgs : Posting(m) \/ LandLost(m)
  BY <1>2, PostingQueues DEF Awaited
<1>3. ASSUME NEW m \in Msgs, Kicks(m) PROVE Awaited'
  <2>1. Queued' = Queued
    BY <1>3, KicksCover DEF Queued
  <2> QED BY <1>3, <2>1, KicksCover DEF Awaited, Closing
<1>4. ASSUME UNCHANGED <<msg, kick, left, turn, run>>, gen' = gen \/ gen # "closed" PROVE Awaited'
  BY <1>4 DEF Awaited, Queued, Kicked
<1>5. CASE Handler \/ LeaseLapses
  <2>1. CASE HandlerDrain
    BY <1>1, <1>4, <2>1 DEF HandlerDrain, convVars, history
  <2>2. CASE HandlerLook \/ LeaseLapses
    BY <1>4, <2>2 DEF HandlerLook, LeaseLapses, turnVars, convVars, history
  <2>3. CASE RunDue \/ HandlerClaim \/ HandlerDefer
    <3>1. UNCHANGED <<msg, kick, left, turn, gen>> /\ (gen = "closed" /\ run # "none" => run' # "none")
      BY <2>3 DEF RunDue, HandlerClaim, HandlerDefer, Kept, turnVars, history
    <3> QED BY <3>1 DEF Awaited, Queued, Kicked
  <2> QED BY <1>5, <2>1, <2>2, <2>3 DEF Handler
<1>6. CASE Claim \/ ClaimRefused \/ Top \/ Take \/ StepOn \/ Reply \/ GiveUp \/ GiveUpCancels \/ Break \/ Finish
           \/ Exit \/ ExitFails \/ Release \/ ReleaseFails
  BY <1>1, <1>6 DEF Claim, ClaimRefused, Top, Take, StepOn, Reply, GiveUp, GiveUpCancels, Break, Finish, Exit,
          ExitFails, Release, ReleaseFails
<1>7. CASE Settle
  BY <1>1, <1>7 DEF Settle, MaySettle, Awaited, Queued
<1>8. CASE Stop \/ Park \/ Boot
  BY <1>1, <1>4, <1>8 DEF Stop, Park, Boot, turnVars, convVars, history
<1>14. CASE HandlerFails \/ ClaimFails \/ \E m \in Msgs : KickFails(m)
  <2>1. Queued' = Queued
    BY <1>14, FailsCover DEF Queued
  <2>2. turn' \in {"exit", "release"} => ~Looks' /\ turn' \notin {"none", "cancel", "broke"}
    BY DEF Looks
  <2> QED BY <1>14, <2>1, <2>2, FailsCover DEF Awaited, Heard
<1>9. CASE StopCancels
  <2>1. msg \in [Msgs -> States] /\ "cancelled" \in States
    BY DEF TypeOK, States
  <2>2. Queued' = {}
    BY <1>9, <2>1, BecomeMoves DEF StopCancels, Cancelled, Queued
  <2> QED BY <2>2 DEF Awaited
<1>10. CASE StopRemoves
  <2>1. /\ turn = "none" => turn' = "none"
        /\ turn # "none" => Kicked \/ Queued \subseteq left'
        /\ UNCHANGED <<msg, kick>>
    BY <1>10 DEF StopRemoves, Interrupted
  <2> QED BY <2>1 DEF Awaited, Kicked, Queued
<1>11. CASE Close
  <2>1. PICK S \in SUBSET Msgs : Lost(S)
    BY <1>11 DEF Close
  <2>2. \A m \in Msgs : msg'[m] = IF m \in S THEN "queued" ELSE msg[m]
    BY <2>1, LostKeeps
  <2>3. run' # "none" \/ Queued \cup S \subseteq left'
    BY <2>1 DEF Lost
  <2>4. gen' = "closed"
    BY <1>11 DEF Close
  <2> QED BY <2>2, <2>3, <2>4 DEF Awaited, Queued
<1>12. CASE Crash
  BY <1>1, <1>12 DEF Crash
<1>13. CASE UNCHANGED vars
  BY <1>4, <1>13 DEF vars
<1> QED BY <1>2, <1>3, <1>5, <1>6, <1>7, <1>8, <1>9, <1>10, <1>11, <1>12, <1>13, <1>14 DEF Next, Turn, Faults, Stopping

\* Every step leaves a queued message somebody's to answer.
LEMMA CoveringStep ==
    ASSUME TypeOK, Attached, Settled, Covering, [Next]_vars
    PROVE  Covering'
<1>a. Awaited'
  BY AwaitedStep DEF Covering
<1> SUFFICES ASSUME NEW m \in Queued' PROVE Covered(m)'
  BY <1>a DEF Covering
<1>1. /\ run \in {"none", "later", "due", "lost"}
      /\ handler \in {"none", "drain", "claim", "look", "defer"}
      /\ turn \in {"none", "claim", "top", "take", "work", "finish", "settle"} \cup Closing
      /\ handler = "claim" => turn = "claim"
      /\ status \in {"idle", "running", "stopped"}
      /\ msg \in [Msgs -> States] /\ m \in Msgs
  BY DEF TypeOK, States, Queued
<1>2. Awaited /\ (m \in Queued => Covered(m))
  BY DEF Covering
<1>4. CASE Calls \/ \E k \in Msgs : Posting(k) \/ LandLost(k)
  <2>1. CASE m \in Queued
    BY <1>2, <1>4, <2>1, PostingQueues DEF Covered, Coming, Looks
  <2>2. CASE m \notin Queued
    BY <1>4, <2>2, PostingQueues DEF Covered
  <2> QED BY <2>1, <2>2
<1>5. ASSUME msg' = msg PROVE m \in Queued /\ Covered(m)
  BY <1>2, <1>5 DEF Queued
<1>6. ASSUME NEW k \in Msgs, Kicks(k) PROVE Covered(m)'
  <2>1. m \in Queued /\ Covered(m)
    BY <1>5, <1>6, KicksCover
  <2>2. turn \notin Closing => turn = "none" \/ Looks
    BY <1>1 DEF Looks
  <2>3. UNCHANGED <<status, run, handler, stop>> /\ left \subseteq left'
    BY <1>6, KicksCover
  <2>4. CASE Kicked' \/ turn' = "claim" \/ (turn' = turn /\ Queued \subseteq left')
    BY <2>1, <2>4 DEF Covered, Looks
  <2>5. CASE turn' = turn /\ turn \notin Closing /\ turn # "none"
    BY <2>2, <2>5 DEF Covered, Looks
  <2>6. CASE turn' = turn /\ turn = "none" /\ ~Kicked'
    \* A drain starts the fiber, a look goes on, and a check that ends found nothing.
    <3>1. kick \in [Msgs -> {"none", "look", "await", "check", "drain"}]
      BY DEF TypeOK
    <3>2. ~KickDrain(k)
      BY <2>6 DEF KickDrain
    <3>3. kick'[k] # "none"
      BY <1>6, <2>1, <3>1, <3>2 DEF Kicks, KickLook, KickCheck, Set
    <3> QED BY <2>6, <3>3 DEF Kicked
  <2> QED BY <1>6, <2>1, <2>4, <2>5, <2>6, KicksCover
<1>7. CASE Handler
  <2>1. /\ m \in Queued /\ Covered(m) /\ UNCHANGED <<kick, left, status, stop>>
    BY <1>5, <1>7 DEF Handler, RunDue, HandlerClaim, HandlerDrain, HandlerLook, HandlerDefer, turnVars, convVars, history
  <2>2. Kicked' <=> Kicked
    BY <2>1 DEF Kicked
  <2>3. CASE RunDue \/ HandlerClaim \/ HandlerDefer
    <3>1. Coming'
      BY <1>1, <2>3, KeptIsRun DEF RunDue, HandlerClaim, HandlerDefer, Coming
    <3> QED BY <3>1 DEF Covered
  <2>4. CASE HandlerDrain /\ turn = "none"
    BY <2>4 DEF HandlerDrain, Covered, Coming
  <2>5. CASE HandlerDrain /\ turn # "none"
    <3>1. turn' = turn /\ handler # "none"
      BY <2>5 DEF HandlerDrain
    <3>2. gen # "closed"
      BY <3>1 DEF Attached
    <3>3. turn = "release" => Kicked \/ m \in left
      BY <1>2, <2>1, <3>2 DEF Awaited
    <3>4. Looks \/ turn \in {"cancel", "exit", "broke"} \/ turn = "release"
      BY <1>1, <2>5 DEF Looks, Closing
    <3> QED BY <2>1, <2>2, <3>1, <3>3, <3>4 DEF Covered, Looks
  <2>6. CASE HandlerLook
    <3>1. turn' = turn /\ run' = run /\ (Coming => Coming')
      BY <2>6 DEF HandlerLook, turnVars, convVars, Coming
    <3> QED BY <2>1, <2>2, <3>1 DEF Covered, Looks
  <2> QED BY <1>7, <2>3, <2>4, <2>5, <2>6 DEF Handler
<1>8. ASSUME UNCHANGED <<msg, kick, left, status, stop, turn, run, handler>> PROVE Covered(m)'
  BY <1>5, <1>8 DEF Covered, Coming, Looks, Kicked
<1>9. CASE LeaseLapses \/ Park \/ UNCHANGED vars
  BY <1>8, <1>9 DEF LeaseLapses, Park, vars, turnVars, convVars, history
<1>18. CASE Boot
  <2>1. /\ UNCHANGED <<kick, stop, turn, handler>> /\ left \subseteq left' /\ (run' # "none" \/ Queued \subseteq left')
        /\ gen = "closed" /\ (status = "stopped" => status' = "stopped")
    BY <1>18 DEF Boot, Released, turnVars
  <2>2. handler = "none"
    BY <2>1 DEF Attached
  <2>3. m \in Queued
    <3>1. "answered" \in States
      BY DEF States
    <3> QED BY <1>1, <1>18, <3>1, BecomeMoves DEF Boot, Queued
  <2> QED BY <1>2, <2>1, <2>2, <2>3 DEF Covered, Coming, Looks, Kicked
<1>10. CASE Claim \/ Top \/ Take \/ StepOn \/ Reply \/ GiveUp \/ GiveUpCancels \/ Break \/ Finish \/ Settle
  <2>1. turn' \in {"top", "take", "work", "finish", "settle", "cancel", "exit", "broke"}
    BY <1>10 DEF Claim, Top, Take, StepOn, Reply, GiveUp, GiveUpCancels, Break, Finish, Settle
  <2> QED BY <2>1 DEF Covered, Looks
<1>11. CASE HandlerFails \/ ClaimFails \/ ClaimRefused \/ \E k \in Msgs : KickFails(k)
  <2>1. m \in Queued
    BY <1>5, <1>11, FailsCover
  <2> QED BY <1>11, <2>1, FailsCover DEF Covered, Heard
<1>12. CASE Exit \/ ExitFails
  <2>1. m \in Queued /\ (Kicked' <=> Kicked) /\ left \subseteq left'
    BY <1>5, <1>12, WokenGoOn DEF Exit, ExitFails
  <2>2. CASE turn = "exit"
    <3>1. run' = run
      BY <1>12, <2>2 DEF Exit, ExitFails, Settled, convVars
    <3> QED BY <1>2, <2>1, <2>2, <3>1 DEF Awaited, Covered, Coming
  <2>3. CASE turn = "broke"
    <3>1. Kicked \/ Queued \subseteq left'
      BY <1>12, <2>3 DEF Exit, ExitFails
    <3> QED BY <2>1, <3>1 DEF Covered
  <2> QED BY <1>12, <2>2, <2>3 DEF Exit, ExitFails, Ending
<1>13. CASE Release \/ ReleaseFails
  <2>1. m \in Queued /\ (Kicked' <=> Kicked) /\ left' = left /\ turn = "release" /\ (run # "none" => run' # "none")
    BY <1>5, <1>13, WokenGoOn DEF Release, ReleaseFails, convVars, history
  <2> QED BY <1>2, <2>1 DEF Awaited, Covered, Coming
<1>14. CASE Stop
  BY <1>14 DEF Stop, Covered
<1>15. CASE StopCancels
  <2>1. "cancelled" \in States
    BY DEF States
  <2>2. FALSE
    BY <1>1, <1>15, <2>1, BecomeMoves DEF StopCancels, Cancelled, Queued
  <2> QED BY <2>2
<1>16. CASE StopRemoves
  <2>1. m \in Queued /\ Covered(m)
    BY <1>5, <1>16 DEF StopRemoves
  <2>2. Kicked' <=> Kicked
    BY <1>16 DEF StopRemoves, Kicked
  <2>3. CASE turn # "none"
    BY <1>16, <2>1, <2>2, <2>3 DEF StopRemoves, Covered
  <2>4. CASE turn = "none"
    <3>1. UNCHANGED <<turn, handler, left, run, status>> /\ stop = "remove"
      BY <1>1, <1>16, <2>4 DEF StopRemoves, Interrupted, convVars
    <3> QED BY <2>1, <2>2, <3>1 DEF Covered, Coming, Looks
  <2> QED BY <2>3, <2>4
<1>17. CASE Close \/ Crash
  <2>1. PICK S \in SUBSET Msgs : Lost(S)
    BY <1>17 DEF Close, Crash
  <2>2. m \in Queued \cup S
    BY <1>1, <2>1, LostKeeps DEF Queued
  <2>3. run' # "none" \/ Queued \cup S \subseteq left'
    BY <2>1 DEF Lost
  <2> QED BY <2>2, <2>3 DEF Covered, Coming
<1> QED BY <1>4, <1>6, <1>7, <1>9, <1>10, <1>11, <1>12, <1>13, <1>14, <1>15, <1>16, <1>17, <1>18 DEF Next, Turn, Faults, Stopping

\* As long as nothing has gone wrong, nothing is left behind, and what is queued
\* behind a turn that has settled has a kick that has not looked yet, or that
\* awaits the turn.
LEMMA UntroubledStep ==
    ASSUME TypeOK, Attached, Settled, Untroubled, [Next]_vars
    PROVE  Untroubled'
<1>0. trouble \in Nat /\ trouble' \in Nat /\ trouble <= trouble'
  BY TroubleGrows
<1> SUFFICES ASSUME trouble' = 0
             PROVE  /\ left' = {} /\ cut' = {} /\ stop' = "none" /\ gen' = "serving" /\ status' # "stopped"
                    /\ turn' \notin {"cancel", "broke", "release"}
                    /\ turn' \in {"none", "claim"} => status' = "idle"
                    /\ \A m \in Msgs : post'[m] # "resume"
                    /\ turn' = "exit" => \A m \in Queued' : kick'[m] \in {"look", "await"}
  BY DEF Untroubled
<1>1. /\ left = {} /\ cut = {} /\ stop = "none" /\ gen = "serving" /\ status # "stopped"
      /\ turn \notin {"cancel", "broke", "release"}
      /\ turn \in {"none", "claim"} => status = "idle"
      /\ \A m \in Msgs : post[m] # "resume"
      /\ turn = "exit" => \A m \in Queued : kick[m] \in {"look", "await"}
  BY <1>0 DEF Untroubled
<1>2. ~Trouble
  BY <1>0, TroubleCounts DEF TypeOK
<1>3. /\ msg \in [Msgs -> States]
      /\ post \in [Msgs -> {"none", "open", "seen", "clear", "finish", "resume"}]
      /\ kick \in [Msgs -> {"none", "look", "await", "check", "drain"}]
  BY DEF TypeOK, States
<1>4. Reopened = status /\ Stranded = {}
  BY <1>1 DEF Reopened, Stranded
<1>5. CASE Calls
  <2>1. UNCHANGED <<turn, stop, gen, cut, status>> /\ left' = {}
    BY <1>1, <1>4, <1>5 DEF Calls, Post, ScheduleAt, ScheduleFinish, Remove, Note, Resume, turnVars, convVars, history
  <2>2. \A m \in Msgs : post'[m] # "resume"
    BY <1>1, <1>3, <1>5 DEF Calls, Post, ScheduleAt, ScheduleFinish, Remove, Note, Resume, Set
  <2>3. \A m \in Queued' : (m \in Queued /\ kick'[m] = kick[m]) \/ kick'[m] = "look"
    BY <1>3, <1>5 DEF Calls, Post, ScheduleAt, ScheduleFinish, Remove, Note, Resume, Set, Queued
  <2> QED BY <1>1, <2>1, <2>2, <2>3
<1>6. ASSUME NEW k \in Msgs, Posting(k) \/ LandLost(k)
      PROVE  /\ left' = {} /\ cut' = {} /\ stop' = "none" /\ gen' = "serving" /\ status' # "stopped"
             /\ turn' \notin {"cancel", "broke", "release"}
             /\ turn' \in {"none", "claim"} => status' = "idle"
             /\ \A m \in Msgs : post'[m] # "resume"
             /\ turn' = "exit" => \A m \in Queued' : kick'[m] \in {"look", "await"}
  <2>1. Posting(k) /\ ~ResumeNote(k)
    BY <1>1, <1>2, <1>6 DEF LandLost, ResumeNote
  <2>2. UNCHANGED <<turn, stop, gen, cut, status>> /\ left' = {}
    BY <1>1, <1>4, <2>1 DEF Posting, Snapshot, Land, Lands, DueGone, Hold, turnVars, convVars, history
  <2>3. \A m \in Msgs : post'[m] # "resume"
    BY <1>1, <1>3, <2>1 DEF Posting, Snapshot, Land, Lands, DueGone, Hold, Set
  <2>4. \A m \in Queued' : (m \in Queued /\ kick'[m] = kick[m]) \/ kick'[m] = "look"
    BY <1>3, <2>1 DEF Posting, Snapshot, Land, Lands, DueGone, Hold, Set, Queued
  <2> QED BY <1>1, <2>2, <2>3, <2>4
<1>7. ASSUME NEW k \in Msgs, Kicks(k)
      PROVE  /\ left' = {} /\ cut' = {} /\ stop' = "none" /\ gen' = "serving" /\ status' # "stopped"
             /\ turn' \notin {"cancel", "broke", "release"}
             /\ turn' \in {"none", "claim"} => status' = "idle"
             /\ \A m \in Msgs : post'[m] # "resume"
             /\ turn' = "exit" => \A m \in Queued' : kick'[m] \in {"look", "await"}
  <2>1. UNCHANGED <<msg, post, stop, gen, status, cut>> /\ (turn' = turn \/ (turn = "none" /\ turn' = "claim"))
    BY <1>7 DEF Kicks, KickLook, KickCheck, KickDrain, turnVars, convVars, history
  <2>2. \A m \in Msgs \ {k} : kick'[m] = kick[m]
    BY <1>3, <1>7 DEF Kicks, KickLook, KickCheck, KickDrain, Set
  <2>3. (turn = "exit" /\ k \in Queued) => kick'[k] = "await" /\ ~KickDrain(k)
    BY <1>1, <1>3, <1>7 DEF Kicks, KickLook, KickCheck, KickDrain, Set
  <2>4. left' = {}
    <3>1. CASE ~KickDrain(k) \/ turn \notin Closing
      BY <1>1, <1>7, <3>1 DEF Kicks, KickLook, KickCheck, KickDrain, history
    <3>2. CASE KickDrain(k) /\ turn \in Closing
      <4>1. turn = "exit"
        BY <1>1, <3>2 DEF Closing
      <4>2. (\A m \in Msgs \ {k} : kick[m] = "none") => Queued = {}
        BY <1>1, <2>3, <3>2, <4>1 DEF Queued
      <4> QED BY <1>1, <3>2, <4>2 DEF KickDrain
    <3> QED BY <3>1, <3>2
  <2>5. turn' = "exit" => turn = "exit" /\ \A m \in Queued' : m \in Msgs /\ m \in Queued
    BY <2>1 DEF Queued
  <2> QED BY <1>1, <2>1, <2>2, <2>3, <2>4, <2>5
<1>8. ASSUME UNCHANGED <<msg, post, kick, stop, gen, left, cut, status>>, turn' = turn \/ (turn = "none" /\ turn' = "claim")
      PROVE  /\ left' = {} /\ cut' = {} /\ stop' = "none" /\ gen' = "serving" /\ status' # "stopped"
             /\ turn' \notin {"cancel", "broke", "release"}
             /\ turn' \in {"none", "claim"} => status' = "idle"
             /\ \A m \in Msgs : post'[m] # "resume"
             /\ turn' = "exit" => \A m \in Queued' : kick'[m] \in {"look", "await"}
  BY <1>1, <1>8 DEF Queued
<1>9. CASE Handler \/ LeaseLapses
  BY <1>8, <1>9 DEF Handler, RunDue, HandlerClaim, HandlerDrain, HandlerLook, HandlerDefer, LeaseLapses, turnVars,
          convVars, history
<1>10. CASE UNCHANGED vars
  BY <1>8, <1>10 DEF vars
<1>15. ~ClaimRefused
  BY <1>1 DEF ClaimRefused, Admits
<1>11. CASE Claim \/ Top \/ Take \/ StepOn \/ Reply \/ Finish
  <2>1. turn' \in {"top", "take", "work", "finish", "settle"} /\ status' # "stopped"
    BY <1>1, <1>11 DEF Claim, Top, Take, StepOn, Reply, Finish, convVars
  <2>2. UNCHANGED <<post, stop, gen, left, cut>>
    BY <1>1, <1>11 DEF Claim, Top, Take, StepOn, Reply, Finish, history
  <2> QED BY <1>1, <2>1, <2>2
<1>12. CASE Settle
  <2>1. UNCHANGED <<msg, post, stop, gen, left, cut>> /\ status' # "stopped"
    BY <1>1, <1>12 DEF Settle, convVars, history
  <2>2. (turn' = "exit" /\ Queued = {}) \/ turn' = "top"
    BY <1>12 DEF Settle, MaySettle
  <2> QED BY <1>1, <2>1, <2>2 DEF Queued
<1>13. CASE Exit
  <2>1. UNCHANGED <<post, stop, gen, left, cut>> /\ turn' = "none" /\ turn = "exit"
    BY <1>1, <1>13 DEF Exit, Ending
  <2>2. status' = "idle"
    BY <1>1, <1>13, <2>1 DEF Exit, Settled, TypeOK, convVars
  <2> QED BY <1>1, <2>1, <2>2
<1>14. ~(Stop \/ Stopping \/ Park \/ Close \/ Boot \/ Faults \/ GiveUpCancels \/ Release) \/ \E m \in Msgs : LandLost(m)
  BY <1>1, <1>2 DEF Stop, Stopping, StopCancels, StopRemoves, Park, Close, Boot, Faults, GiveUp, Break, HandlerFails,
          ClaimFails, KickFails, ExitFails, ReleaseFails, Crash, GiveUpCancels, Release
<1> QED BY <1>5, <1>6, <1>7, <1>9, <1>10, <1>11, <1>12, <1>13, <1>14, <1>15 DEF Next, Turn

-----------------------------------------------------------------------------
(* The theorems.                                                           *)

\* It begins so.
LEMMA InitInv == Init => IInv
<1> SUFFICES ASSUME Init PROVE IInv
  OBVIOUS
<1>0. trouble \in 0..MaxTrouble
  BY AgentAssumption DEF Init
<1>1. TypeOK /\ Attached /\ Posted
  BY <1>0 DEF Init, TypeOK, Attached, Posted
<1>2. Queued = {} /\ Consumed = {}
  BY DEF Init, Queued, Consumed
<1>3. Owed /\ Settled
  BY <1>2 DEF Init, Owed, Settled, Open, Working
<1>4. Covering /\ Untroubled
  BY <1>2 DEF Init, Covering, Awaited, Untroubled
<1> QED BY <1>1, <1>3, <1>4 DEF IInv

\* Every step keeps the invariant.
LEMMA InvStep == IInv /\ [Next]_vars => IInv'
<1> SUFFICES ASSUME IInv, [Next]_vars PROVE IInv'
  OBVIOUS
<1>1. TypeOK' /\ Attached' /\ Posted'
  BY TypeStep, PostedStep DEF IInv
<1>2. Owed' /\ Settled'
  BY OwedStep, SettledStep DEF IInv
<1>3. Covering' /\ Untroubled'
  BY CoveringStep, UntroubledStep DEF IInv
<1> QED BY <1>1, <1>2, <1>3 DEF IInv

\* The invariant holds in every state of the queue, the run and the turn.
THEOREM Invariant == Spec => []IInv
<1>1. Init => IInv
  BY InitInv
<1>2. IInv /\ [Next]_vars => IInv'
  BY InvStep
<1> QED BY <1>1, <1>2, PTL DEF Spec

\* Every part keeps its type, and what hangs on a turn goes with it.
THEOREM TypeCorrect == Spec => []TypeOK
<1>1. IInv => TypeOK
  BY DEF IInv
<1> QED BY <1>1, Invariant, PTL

\* A message that a turn has taken is answered by that turn or by the one that
\* takes over: until then the conversation is running with a run in the database,
\* whatever crashes, closes and lapses on the way; or a stop, a reply that failed
\* with its turn or a failed turn run cut it off, and never without trouble.
THEOREM ConsumedCarried == Spec => []ConsumedIsCarried
<1>1. IInv => ConsumedIsCarried
  <2> SUFFICES ASSUME IInv PROVE ConsumedIsCarried
    OBVIOUS
  <2>1. ASSUME NEW m \in Consumed, m \notin cut PROVE Carried
    <3>1. Open # {}
      BY <2>1 DEF Open
    <3>2. turn \in {"top", "take", "work", "none", "claim", "release", "finish", "settle", "cancel", "exit", "broke"}
      BY DEF IInv, TypeOK, Closing
    <3> QED BY <3>1, <3>2 DEF IInv, Owed, Carried
  <2>2. trouble = 0 => cut = {}
    BY DEF IInv, Untroubled
  <2> QED BY <2>1, <2>2 DEF ConsumedIsCarried
<1> QED BY <1>1, Invariant, PTL

\* A queued message is somebody's to answer, or was left behind, however much has
\* gone wrong, and nothing is left behind while nothing has.
THEOREM MessageCovered == Spec => []MessageIsCovered
<1>1. IInv => MessageIsCovered
  BY DEF IInv, Covering, Covered, Untroubled, MessageIsCovered
<1> QED BY <1>1, Invariant, PTL

\* No step sends a message that waits for the finish before all that was taken
\* from the queue is answered, or was cut off.
LEMMA FinishStep ==
    ASSUME IInv, [Next]_vars, NEW m \in Msgs, msg[m] = "finish", msg'[m] = "queued"
    PROVE  Consumed \subseteq cut
<1>0. msg \in [Msgs -> States] /\ Posted /\ "queued" \in States
  BY DEF IInv, TypeOK, States
<1>1. CASE turn = "finish"
  <2>1. Open = {}
    BY <1>1 DEF IInv, Owed
  <2> QED BY <2>1 DEF Open
<1>2. ~Calls
  BY <1>0 DEF Calls, Post, ScheduleAt, ScheduleFinish, Remove, Note, Resume, New, Set
<1>3. \A k \in Msgs : ~(Posting(k) \/ LandLost(k))
  <2> SUFFICES ASSUME NEW k \in Msgs, Posting(k) \/ LandLost(k) PROVE FALSE
    OBVIOUS
  <2>1. msg' = msg \/ (msg' = Set(msg, k, "queued") /\ post[k] # "none") \/ msg' = Set(msg, k, "finish")
    BY DEF Posting, Snapshot, Land, Lands, LandLost, DueGone, Hold, ResumeNote
  <2> QED BY <1>0, <2>1 DEF Set, Posted
<1>4. ~(Take \/ Reply \/ GiveUp \/ GiveUpCancels \/ Break \/ StopCancels \/ Boot)
  <2> SUFFICES ASSUME Take \/ Reply \/ GiveUp \/ GiveUpCancels \/ Break \/ StopCancels \/ Boot PROVE FALSE
    OBVIOUS
  <2>1. msg' = msg \/ \E S \in SUBSET Msgs, s \in {"consumed", "answered", "cancelled"} : msg' = Become(S, s)
    BY DEF Take, Reply, GiveUp, GiveUpCancels, Break, StopCancels, Boot, Cancelled, Consumed, Queued, Held
  <2> QED BY <1>0, <2>1 DEF Become
<1>5. ~(Close \/ Crash)
  <2> SUFFICES ASSUME Close \/ Crash PROVE FALSE
    OBVIOUS
  <2>1. PICK S \in SUBSET Msgs : Lost(S)
    BY DEF Close, Crash
  <2>2. m \notin S
    BY <2>1 DEF Lost
  <2> QED BY <1>0, <2>1, <2>2, BecomeMoves DEF Lost
<1>6. msg' # msg
  OBVIOUS
<1>7. \A k \in Msgs : ~(Kicks(k) \/ KickFails(k))
  BY <1>6 DEF Kicks, KickLook, KickCheck, KickDrain, KickFails
<1>8. ~(Handler \/ HandlerFails \/ LeaseLapses \/ Park \/ Stop \/ StopRemoves)
  BY <1>6 DEF Handler, RunDue, HandlerClaim, HandlerDrain, HandlerLook, HandlerDefer, HandlerFails, LeaseLapses, Park,
          Stop, StopRemoves
<1>9. ~(Claim \/ ClaimRefused \/ ClaimFails \/ Top \/ StepOn \/ Settle \/ Exit \/ ExitFails \/ Release \/ ReleaseFails)
  BY <1>6 DEF Claim, ClaimRefused, ClaimFails, Top, StepOn, Settle, Exit, ExitFails, Release, ReleaseFails
<1>10. Finish
  BY <1>2, <1>3, <1>4, <1>5, <1>6, <1>7, <1>8, <1>9 DEF Next, Turn, Faults, Stopping, vars
<1> QED BY <1>1, <1>10 DEF Finish

\* A message that waits for the finish is sent only once all that was taken from
\* the queue is answered or was cut off, whoever finishes: the turn, or the one
\* that takes over.
THEOREM FinishWaits == Spec => FinishAfterWork
<1>1. IInv /\ [Next]_vars =>
          [\A m \in Msgs : msg[m] = "finish" /\ msg'[m] = "queued" => Consumed \subseteq cut]_vars
  BY FinishStep
<1> QED BY <1>1, Invariant, PTL DEF Spec, FinishAfterWork
=============================================================================
