--------------------------- MODULE ReceiptsProofs ---------------------------
(***************************************************************************)
(* Proofs about Receipts, for any operations, requests, keys and windows.  *)
(*                                                                         *)
(* A request is decided once its key's row is its own, or once the window  *)
(* of the key has passed.  Nothing undoes that, and no operation of a      *)
(* decided request writes: the row shuts the gate, and what is admitted in *)
(* time has ended by the end of the window.  That is why a request writes  *)
(* once and why what is answered or reported of it stays true, although    *)
(* the row itself is pruned or taken over.  The receipt that is not        *)
(* acknowledged holds the row, and the history, until both are reported.   *)
(***************************************************************************)
EXTENDS Receipts, TLAPS

Decided(r) ==
    /\ issued[r] # 0
    /\ (\E i \in idem[KeyOf[r]] : i.by = r) \/ now > issued[r] + Window

\* A key has one row, of a request that was sent, and the row tells whether that
\* request wrote.
Rowed ==
    \A k \in Keys : \A i \in idem[k] :
        /\ idem[k] = {i}
        /\ KeyOf[i.by] = k /\ issued[i.by] # 0 /\ i.at = issued[i.by]
        /\ i.kind = "committed" <=> Written(i.by)

\* A request that wrote is decided, by one operation, which has a receipt.  Until
\* that is acknowledged, the row and the revisions are there.
Kept(o) == o \in history /\ \E i \in idem[Key(o)] : i.by = req[o]
Decisions ==
    /\ \A o \in wrote : Decided(req[o]) /\ o \in receipts
    /\ OncePerRequest
    /\ \A o \in wrote \ acked : Kept(o)

\* What is sent has a time, and ends within the window of its key.
InTime(o) ==
    /\ pc[o] # "idle" => issued[req[o]] # 0
    /\ (pc[o] \in {"record", "lease", "gate", "open"} \/ flying[o] # "none") =>
          issued[req[o]] # 0 /\ now <= issued[req[o]] + Window
Timely ==
    /\ now # 0 /\ \A r \in Requests : issued[r] <= now
    /\ \A o \in Ops : InTime(o)

\* What a settlement has read of an operation's receipt.
Tells(o, v) ==
    /\ o \in receipts /\ v.verdict \in Recorded \cup {"reuse"}
    /\ o \in wrote => v.verdict = "committed" /\ v.images
    /\ v.verdict = "committed" => Written(req[o])
    /\ v.verdict = "refused" => ~Written(req[o]) /\ Decided(req[o])

\* An operation sends one batch, and what it holds follows from where it is.
Before == {"idle", "work", "record", "lease", "gate", "open", "abort"}
Phase(o) ==
    /\ pc[o] \in {"work", "record", "own"} => ~Native(o)
    /\ pc[o] \in {"lease", "gate", "open", "abort"} => Native(o)
    /\ pc[o] \in Before => o \notin receipts /\ flying[o] = "none" /\ verdict[o] = "none"
    /\ flying[o] # "none" => o \notin receipts /\ got[o] \in {"lost", "unsure", "none"}
    /\ pc[o] \in {"settle", "append", "ack", "own"} => got[o] # "none"
    /\ pc[o] \in {"append", "ack"} => Tells(o, view[o])
    /\ pc[o] = "ack" => o \in confirmed
    /\ (pc[o] = "own" /\ got[o] \notin {"lost", "unsure"}) => o \notin receipts
\* What it was answered is true of its request, and stays so.
Answering(o) ==
    /\ got[o] = "committed" => Written(req[o])
    /\ got[o] = "refused" => ~Written(req[o]) /\ Decided(req[o])
\* So is what is reported of it, and nothing that it sent comes after, but for the
\* lost commit of an act.
Trailing(o) ==
    /\ verdict[o] = "committed" => Written(req[o])
    /\ verdict[o] = "refused" => ~Written(req[o]) /\ Decided(req[o])
    /\ (o \in wrote /\ verdict[o] # "none") =>
          (verdict[o] = "committed" \/ (verdict[o] = "failed" /\ ~Native(o)))
    /\ (verdict[o] # "none" /\ (verdict[o] = "failed" => Native(o))) => flying[o] = "none"
\* The revisions are in an event before anything is acknowledged.
Evidence(o) ==
    /\ o \in confirmed => o \in receipts
    /\ o \in acked => o \in confirmed
    /\ (o \in wrote /\ o \in confirmed) => o \in imaged
Sound(o) == Phase(o) /\ Answering(o) /\ Trailing(o) /\ Evidence(o)

\* One session of a key is open or commits, and the open one has the key.
Holds(o) == Native(o) /\ (pc[o] = "open" \/ flying[o] # "none")
Sessions ==
    /\ \A o, p \in Ops : (Holds(o) /\ Holds(p) /\ Key(o) = Key(p)) => o = p
    /\ \A o \in Ops : pc[o] = "open" => Fresh(o)

\* What recovery has read.
Recovers ==
    /\ rpc \notin {"append", "ack"} => cur = {}
    /\ \A o, p \in cur : o = p
    /\ \A o \in cur : Tells(o, rview) /\ (rpc = "ack" => o \in confirmed)

IInv ==
    /\ TypeOK /\ Timely /\ Rowed /\ Decisions
    /\ (\A o \in Ops : Sound(o)) /\ Sessions /\ Recovers

-----------------------------------------------------------------------------
(* The tables.                                                             *)

\* An operation whose batch may commit: it has no receipt yet, and it is in time.
Sends(o) == o \notin receipts /\ issued[req[o]] # 0 /\ now <= issued[req[o]] + Window

\* What no step undoes: times, decisions, and what a receipt says was written.
Lasts ==
    /\ req' = req /\ receipts \subseteq receipts' /\ wrote \subseteq wrote'
    /\ \A r \in Requests :
          /\ issued[r] # 0 => issued'[r] = issued[r]
          /\ Decided(r) => Decided(r)'
          /\ Written(r) => Written(r)'
          /\ (Decided(r) /\ ~Written(r)) => ~Written(r)'
    /\ \A o \in receipts : o \in wrote' => o \in wrote
Tables == TypeOK /\ Timely /\ Rowed /\ Decisions

\* The key of an operation is a key, and the request of a row is a request.
LEMMA Keyed ==
    ASSUME TypeOK
    PROVE  /\ \A o \in Ops : req[o] \in Requests /\ Key(o) \in Keys /\ issued[req[o]] \in Nat
           /\ \A k \in Keys : \A i \in idem[k] :
                 i.by \in Requests /\ i.at \in Nat /\ i.kind \in Recorded
BY RequestsAssumption DEF TypeOK, Key, Rows

\* The gate is shut to a request that is decided.
LEMMA FreshIsOpen ==
    ASSUME Tables, NEW o \in Ops, Sends(o), Fresh(o)
    PROVE  ~Decided(req[o]) /\ ~Written(req[o])
<1>1. req[o] \in Requests /\ Key(o) \in Keys /\ issued[req[o]] \in Nat /\ now \in Nat /\ Window \in Nat
  BY Keyed, WindowAssumption DEF Tables, TypeOK
<1>2. \A i \in idem[Key(o)] : i.by # req[o]
  <2> SUFFICES ASSUME NEW i \in idem[Key(o)], i.by = req[o] PROVE FALSE
    OBVIOUS
  <2>1. i.at = issued[req[o]]
    BY <1>1 DEF Tables, Rowed
  <2>2. i.at + Window < issued[req[o]]
    BY DEF Fresh
  <2> QED BY <1>1, <2>1, <2>2
<1>3. ~Decided(req[o])
  BY <1>1, <1>2 DEF Decided, Sends, Key
<1>4. ~Written(req[o])
  BY <1>3 DEF Tables, Decisions, Written
<1> QED BY <1>3, <1>4

\* A stored outcome is true of the request that it is told to.
LEMMA StoredIsTrue ==
    ASSUME Tables, NEW o \in Ops, NEW i \in idem[Key(o)]
    PROVE  /\ StoredKind(o, i) \in Recorded \cup {"reuse"}
           /\ StoredKind(o, i) = "committed" => Written(req[o])
           /\ StoredKind(o, i) = "refused" => ~Written(req[o]) /\ Decided(req[o])
<1>1. Key(o) \in Keys /\ Key(o) = KeyOf[req[o]] /\ i.kind \in Recorded
  BY Keyed DEF Tables, Key
<1>2. issued[i.by] # 0 /\ (i.kind = "committed" <=> Written(i.by))
  BY <1>1 DEF Tables, Rowed
<1>3. i.by = req[o] => Decided(req[o])
  BY <1>1, <1>2 DEF Decided
<1> QED BY <1>1, <1>2, <1>3 DEF StoredKind, Recorded

\* What a settlement reads is true.
LEMMA SettledIsTrue ==
    ASSUME Tables, NEW o \in Ops
    PROVE  /\ Settled(o) \in Views
           /\ Settled(o).verdict = "absent" <=> o \notin receipts
           /\ Settled(o).verdict \notin {"absent", "acked"} => Tells(o, Settled(o))
<1>1. Key(o) \in Keys /\ Key(o) = KeyOf[req[o]]
  BY Keyed DEF Tables, Key
<1> DEFINE i == CHOOSE i \in idem[Key(o)] : TRUE
<1>2. CASE o \notin receipts
  BY <1>2 DEF Settled, Views
<1>3. CASE o \in acked
  <2>1. o \in receipts
    BY <1>3 DEF Tables, TypeOK
  <2> QED BY <1>3, <2>1 DEF Settled, Views
<1>4. CASE o \in receipts \ acked /\ \E j \in idem[Key(o)] : j.by = req[o]
  <2>1. i \in idem[Key(o)]
    BY <1>4
  <2>2. i.by = req[o] /\ i.kind \in Recorded /\ issued[i.by] # 0
    BY <1>1, <1>4, <2>1, Keyed DEF Tables, Rowed
  <2>3. i.kind = "committed" <=> Written(req[o])
    BY <1>1, <2>1, <2>2 DEF Tables, Rowed
  <2>4. Settled(o) = [verdict |-> i.kind, images |-> o \in history]
    BY <1>4 DEF Settled
  <2>5. Settled(o) \in Views /\ Settled(o).verdict = i.kind /\ Settled(o).images = (o \in history)
    BY <2>2, <2>4 DEF Views
  <2>6. Decided(req[o])
    BY <1>1, <2>1, <2>2 DEF Decided
  <2>7. o \in wrote => Written(req[o]) /\ o \in history
    BY <1>4 DEF Tables, Decisions, Kept, Written
  <2> HIDE DEF i
  <2> QED BY <1>4, <2>2, <2>3, <2>5, <2>6, <2>7 DEF Tells, Recorded
<1>5. CASE o \in receipts \ acked /\ ~ \E j \in idem[Key(o)] : j.by = req[o]
  <2>1. Settled(o) = [verdict |-> "reuse", images |-> o \in history]
    BY <1>5 DEF Settled
  <2>2. o \notin wrote
    BY <1>5 DEF Tables, Decisions, Kept
  <2> QED BY <1>5, <2>1, <2>2 DEF Tells, Views, Recorded
<1> QED BY <1>2, <1>3, <1>4, <1>5

\* A step that leaves the rows and the receipts alone, and purges the history only
\* when all of it is acknowledged.
LEMMA QuietLasts ==
    ASSUME Tables, req' = req, idem' = idem, receipts' = receipts, wrote' = wrote, now' \in Nat,
           now <= now', \A r \in Requests : issued[r] # 0 => issued'[r] = issued[r],
           acked \subseteq acked', history' = history \/ history \subseteq acked'
    PROVE  Lasts /\ Rowed' /\ Decisions'
<1>1. \A r \in Requests : issued[r] \in Nat /\ now \in Nat /\ Window \in Nat
  BY WindowAssumption DEF Tables, TypeOK
<1>2. ASSUME NEW r \in Requests, Decided(r) PROVE Decided(r)'
  BY <1>1, <1>2 DEF Decided
<1>3. \A r : Written(r)' <=> Written(r)
  BY DEF Written
<1>4. Lasts
  BY <1>2, <1>3 DEF Lasts
<1>5. Rowed'
  <2> SUFFICES ASSUME NEW k \in Keys, NEW i \in idem[k]
               PROVE  /\ idem[k] = {i}
                      /\ KeyOf[i.by] = k /\ issued'[i.by] # 0 /\ i.at = issued'[i.by]
                      /\ i.kind = "committed" <=> Written(i.by)'
    BY DEF Rowed
  <2>1. /\ idem[k] = {i} /\ KeyOf[i.by] = k /\ issued[i.by] # 0 /\ i.at = issued[i.by]
        /\ i.kind = "committed" <=> Written(i.by)
    BY DEF Tables, Rowed
  <2>2. i.by \in Requests
    BY Keyed DEF Tables
  <2> QED BY <1>3, <2>1, <2>2
<1>6. Decisions'
  <2>1. ASSUME NEW p \in wrote PROVE Decided(req[p])' /\ p \in receipts
    <3>1. Decided(req[p]) /\ p \in receipts /\ req[p] \in Requests
      BY Keyed DEF Tables, Decisions, TypeOK
    <3> QED BY <1>2, <3>1
  <2>2. ASSUME NEW p \in wrote \ acked' PROVE Kept(p)'
    <3>1. Kept(p)
      BY DEF Tables, Decisions
    <3>2. p \in history'
      BY <3>1 DEF Kept
    <3> QED BY <3>1, <3>2 DEF Kept, Key
  <2>3. OncePerRequest'
    BY DEF Tables, Decisions, OncePerRequest
  <2> QED BY <2>1, <2>2, <2>3 DEF Decisions
<1> QED BY <1>4, <1>5, <1>6

\* What a batch does to the tables.
LEMMA BatchWrites ==
    ASSUME Tables, NEW o \in Ops, NEW kind \in Recorded, Sends(o), Apply(o, kind), req' = req
    PROVE  /\ receipts' = receipts \cup {o} /\ acked' = acked
           /\ Fresh(o) => idem' = [idem EXCEPT ![Key(o)] =
                                     {[by |-> req[o], at |-> issued[req[o]], kind |-> kind]}]
           /\ ~Fresh(o) => idem' = idem
           /\ (Fresh(o) /\ kind = "committed") =>
                 wrote' = wrote \cup {o} /\ history' = history \cup {o}
           /\ ~(Fresh(o) /\ kind = "committed") =>
                 wrote' = wrote /\ history' = history /\ erases' = erases
           /\ erases' \subseteq erases \cup {o}
           /\ (Fresh(o) /\ kind = "committed") \/ erases' = erases
           /\ \A r \in Requests :
                 Written(r)' <=> (Written(r) \/ (r = req[o] /\ Fresh(o) /\ kind = "committed"))
<1>1. CASE Fresh(o) /\ kind = "committed"
  <2>1. wrote' = wrote \cup {o}
    BY <1>1 DEF Apply
  <2>2. \A r \in Requests : Written(r)' <=> (Written(r) \/ r = req[o])
    BY <2>1 DEF Written
  <2> QED BY <1>1, <2>1, <2>2 DEF Apply
<1>2. CASE ~(Fresh(o) /\ kind = "committed")
  <2>1. wrote' = wrote
    BY <1>2 DEF Apply
  <2>2. \A r \in Requests : Written(r)' <=> Written(r)
    BY <2>1 DEF Written
  <2> QED BY <1>2, <2>1, <2>2 DEF Apply
<1> QED BY <1>1, <1>2

\* The row that a batch replaces is past its window, and needed by no receipt.
LEMMA BatchLasts ==
    ASSUME Tables, NEW o \in Ops, NEW kind \in Recorded, Sends(o), Apply(o, kind),
           UNCHANGED <<req, now, issued>>
    PROVE  Lasts /\ Rowed' /\ Decisions'
<1>1. /\ req[o] \in Requests /\ Key(o) \in Keys /\ Key(o) = KeyOf[req[o]]
      /\ now \in Nat /\ Window \in Nat /\ issued \in [Requests -> Nat]
      /\ idem \in [Keys -> SUBSET Rows]
      /\ \A r \in Requests : KeyOf[r] \in Keys
  BY Keyed, WindowAssumption, RequestsAssumption DEF Tables, TypeOK, Key
<1> DEFINE row == [by |-> req[o], at |-> issued[req[o]], kind |-> kind]
<1>2. /\ receipts' = receipts \cup {o} /\ acked' = acked
      /\ Fresh(o) => idem' = [idem EXCEPT ![Key(o)] = {row}]
      /\ ~Fresh(o) => idem' = idem
      /\ (Fresh(o) /\ kind = "committed") => wrote' = wrote \cup {o} /\ history' = history \cup {o}
      /\ ~(Fresh(o) /\ kind = "committed") => wrote' = wrote /\ history' = history
      /\ \A r \in Requests :
            Written(r)' <=> (Written(r) \/ (r = req[o] /\ Fresh(o) /\ kind = "committed"))
  BY BatchWrites
<1>3. Fresh(o) => ~Decided(req[o]) /\ ~Written(req[o])
  BY FreshIsOpen
<1>4. ASSUME NEW r \in Requests, Decided(r) PROVE Decided(r)'
  <2>1. CASE Fresh(o) /\ KeyOf[r] = Key(o) /\ \E i \in idem[KeyOf[r]] : i.by = r
    <3>1. PICK i \in idem[Key(o)] : i.by = r
      BY <2>1
    <3>2. i.at = issued[r] /\ i.at + Window < issued[req[o]]
      BY <1>1, <2>1, <3>1 DEF Tables, Rowed, Fresh
    <3>3. issued[req[o]] <= now
      BY <1>1 DEF Tables, Timely
    <3>4. now > issued[r] + Window
      BY <1>1, <3>2, <3>3
    <3> QED BY <1>4, <3>4 DEF Decided
  <2>2. CASE ~Fresh(o) \/ KeyOf[r] # Key(o)
    <3>1. idem'[KeyOf[r]] = idem[KeyOf[r]]
      BY <1>1, <1>2, <2>2
    <3> QED BY <1>4, <3>1 DEF Decided
  <2>3. CASE ~ \E i \in idem[KeyOf[r]] : i.by = r
    BY <1>4, <2>3 DEF Decided
  <2> QED BY <2>1, <2>2, <2>3
<1>5. Fresh(o) => Decided(req[o])'
  <2> SUFFICES ASSUME Fresh(o) PROVE Decided(req[o])'
    OBVIOUS
  <2>1. row \in idem'[Key(o)] /\ row.by = req[o]
    BY <1>1, <1>2
  <2> QED BY <1>1, <2>1 DEF Decided, Sends
<1>6. Lasts
  <2>1. \A p \in receipts : p \in wrote' => p \in wrote
    BY <1>2 DEF Sends
  <2>2. \A r \in Requests : (Decided(r) /\ ~Written(r)) => ~Written(r)'
    BY <1>2, <1>3
  <2> QED BY <1>2, <1>4, <2>1, <2>2 DEF Lasts
<1>7. Rowed'
  <2> SUFFICES ASSUME NEW k \in Keys, NEW i \in idem'[k]
               PROVE  /\ idem'[k] = {i}
                      /\ KeyOf[i.by] = k /\ issued[i.by] # 0 /\ i.at = issued[i.by]
                      /\ i.kind = "committed" <=> Written(i.by)'
    BY DEF Rowed
  <2>1. CASE Fresh(o) /\ k = Key(o)
    <3>1. i = row /\ idem'[k] = {i}
      BY <1>1, <1>2, <2>1
    <3>2. i.by = req[o] /\ i.at = issued[req[o]] /\ i.kind = kind
      BY <3>1
    <3> QED BY <1>1, <1>2, <1>3, <2>1, <3>1, <3>2 DEF Sends
  <2>2. CASE ~(Fresh(o) /\ k = Key(o))
    <3>1. idem'[k] = idem[k]
      BY <1>1, <1>2, <2>2
    <3>2. /\ idem[k] = {i} /\ KeyOf[i.by] = k /\ issued[i.by] # 0 /\ i.at = issued[i.by]
          /\ i.kind = "committed" <=> Written(i.by)
      BY <3>1 DEF Tables, Rowed
    <3>3. i.by \in Requests
      BY <3>1, Keyed DEF Tables
    <3>4. Fresh(o) => i.by # req[o]
      BY <2>2, <3>2, <1>1
    <3> QED BY <1>2, <3>1, <3>2, <3>3, <3>4
  <2> QED BY <2>1, <2>2
<1>8. Decisions'
  <2>1. ASSUME NEW p \in wrote' PROVE Decided(req[p])' /\ p \in receipts'
    <3>1. CASE p \in wrote
      <4>1. Decided(req[p]) /\ p \in receipts /\ req[p] \in Requests
        BY <3>1, Keyed DEF Tables, Decisions, TypeOK
      <4> QED BY <1>2, <1>4, <4>1
    <3>2. CASE p \notin wrote
      <4>1. p = o /\ Fresh(o)
        BY <1>2, <2>1, <3>2
      <4> QED BY <1>2, <1>5, <4>1
    <3> QED BY <3>1, <3>2
  <2>2. OncePerRequest'
    <3> SUFFICES ASSUME NEW p \in wrote', NEW q \in wrote', req[p] = req[q] PROVE p = q
      BY DEF OncePerRequest
    <3>1. \A x \in wrote' : x \in wrote \/ (x = o /\ Fresh(o))
      BY <1>2
    <3>2. Fresh(o) => \A x \in wrote : req[x] # req[o]
      BY <1>3 DEF Written
    <3>3. p \in wrote /\ q \in wrote => p = q
      BY DEF Tables, Decisions, OncePerRequest
    <3> QED BY <3>1, <3>2, <3>3
  <2>3. ASSUME NEW p \in wrote' \ acked' PROVE Kept(p)'
    <3>1. CASE p \in wrote
      <4>1. Kept(p) /\ p \in receipts \ acked /\ Key(p) \in Keys
        BY <1>2, <2>3, <3>1, Keyed DEF Tables, Decisions, TypeOK
      <4>2. Key(p) = Key(o) => ~Fresh(o)
        <5>1. Key(p) = Key(o) => Unacknowledged(Key(o))
          BY <4>1 DEF Unacknowledged
        <5>2. idem[Key(p)] # {}
          BY <4>1 DEF Kept
        <5> QED BY <5>1, <5>2 DEF Fresh
      <4>3. idem'[Key(p)] = idem[Key(p)]
        BY <1>1, <1>2, <4>1, <4>2
      <4>4. p \in history'
        BY <1>2, <4>1 DEF Kept
      <4> QED BY <4>1, <4>3, <4>4 DEF Kept, Key
    <3>2. CASE p \notin wrote
      <4>1. p = o /\ Fresh(o) /\ o \in history'
        BY <1>2, <2>3, <3>2
      <4>2. row \in idem'[Key(o)] /\ row.by = req[o]
        BY <1>1, <1>2, <4>1
      <4> QED BY <4>1, <4>2 DEF Kept, Key
    <3> QED BY <3>1, <3>2
  <2> QED BY <2>1, <2>2, <2>3 DEF Decisions
<1> QED BY <1>6, <1>7, <1>8

\* `prune` removes what is past its window and needed by no receipt.
LEMMA PruneLasts ==
    ASSUME Tables, NEW k \in Keys, Prune(k)
    PROVE  Lasts /\ Rowed' /\ Decisions'
<1>1. /\ now \in Nat /\ Window \in Nat /\ issued \in [Requests -> Nat]
      /\ idem \in [Keys -> SUBSET Rows]
      /\ \A r \in Requests : KeyOf[r] \in Keys
  BY WindowAssumption, RequestsAssumption DEF Tables, TypeOK
<1>2. /\ idem' = [idem EXCEPT ![k] = {}] /\ ~Unacknowledged(k)
      /\ req' = req /\ now' = now /\ issued' = issued
      /\ receipts' = receipts /\ acked' = acked /\ wrote' = wrote /\ history' = history
  BY DEF Prune
<1>3. ASSUME NEW r \in Requests, Decided(r) PROVE Decided(r)'
  <2>1. CASE KeyOf[r] = k /\ \E i \in idem[k] : i.by = r
    <3>1. PICK i \in idem[k] : i.by = r
      BY <2>1
    <3>2. PICK j \in idem[k] : j.at + Window < now
      BY DEF Prune
    <3>3. i = j /\ i.at = issued[r]
      BY <3>1, <3>2 DEF Tables, Rowed
    <3> QED BY <1>1, <1>2, <1>3, <3>2, <3>3 DEF Decided
  <2>2. CASE KeyOf[r] # k
    <3>1. idem'[KeyOf[r]] = idem[KeyOf[r]]
      BY <1>1, <1>2, <2>2
    <3> QED BY <1>2, <1>3, <3>1 DEF Decided
  <2>3. CASE KeyOf[r] = k /\ ~ \E i \in idem[k] : i.by = r
    BY <1>2, <1>3, <2>3 DEF Decided
  <2> QED BY <2>1, <2>2, <2>3
<1>4. \A r : Written(r)' <=> Written(r)
  BY <1>2 DEF Written
<1>5. Lasts
  BY <1>2, <1>3, <1>4 DEF Lasts
<1>6. \A l \in Keys : idem'[l] \subseteq idem[l] /\ (l # k => idem'[l] = idem[l])
  BY <1>1, <1>2
<1>7. Rowed'
  <2> SUFFICES ASSUME NEW l \in Keys, NEW i \in idem'[l]
               PROVE  /\ idem'[l] = {i}
                      /\ KeyOf[i.by] = l /\ issued[i.by] # 0 /\ i.at = issued[i.by]
                      /\ i.kind = "committed" <=> Written(i.by)'
    BY <1>2 DEF Rowed
  <2>1. l # k
    BY <1>1, <1>2
  <2> QED BY <1>4, <1>6, <2>1 DEF Tables, Rowed
<1>8. Decisions'
  <2>1. ASSUME NEW p \in wrote PROVE Decided(req[p])' /\ p \in receipts
    <3>1. Decided(req[p]) /\ p \in receipts /\ req[p] \in Requests
      BY Keyed DEF Tables, Decisions, TypeOK
    <3> QED BY <1>2, <1>3, <3>1
  <2>2. ASSUME NEW p \in wrote \ acked PROVE Kept(p)'
    <3>1. Kept(p) /\ p \in receipts \ acked /\ Key(p) \in Keys
      BY Keyed DEF Tables, Decisions, TypeOK
    <3>2. Key(p) # k
      BY <1>2, <3>1 DEF Unacknowledged
    <3>3. idem'[Key(p)] = idem[Key(p)]
      BY <1>6, <3>1, <3>2
    <3> QED BY <1>2, <3>1, <3>3 DEF Kept, Key
  <2>3. OncePerRequest'
    BY <1>2 DEF Tables, Decisions, OncePerRequest
  <2> QED BY <1>2, <2>1, <2>2, <2>3 DEF Decisions
<1> QED BY <1>5, <1>7, <1>8

-----------------------------------------------------------------------------
(* Every step.                                                             *)

StepOf(o) == Start(o) \/ Act(o) \/ Transact(o) \/ Closing(o) \/ Fault(o) \/ Land(o) \/ Sink(o)

\* A purge takes the history only when all of it is acknowledged.
LEMMA PurgeIsSafe ==
    ASSUME NEW done, Purge(done)
    PROVE  erases' \subseteq erases /\ history' \subseteq history
           /\ (history' = history \/ history \subseteq done)
BY DEF Purge, Purgeable

\* The operations that send a batch may.
LEMMA Senders ==
    ASSUME IInv, NEW o \in Ops
    PROVE  /\ (pc[o] = "work" /\ Admitted(o)) \/ pc[o] \in {"record", "open"} \/ flying[o] # "none" =>
                 Sends(o)
           /\ pc[o] = "open" => Fresh(o)
<1>1. /\ now \in Nat /\ Window \in Nat /\ Admit \in Nat /\ Admit < Window
      /\ issued[req[o]] \in Nat
  BY WindowAssumption, Keyed DEF IInv, TypeOK
<1>2. Phase(o) /\ InTime(o)
  BY DEF IInv, Sound, Timely
<1>3. pc[o] = "work" /\ Admitted(o) => Sends(o)
  BY <1>1, <1>2 DEF Phase, InTime, Before, Admitted, Sends
<1>4. pc[o] \in {"record", "open"} \/ flying[o] # "none" => Sends(o)
  BY <1>2 DEF Phase, InTime, Before, Sends
<1> QED BY <1>3, <1>4 DEF IInv, Sessions

\* The steps that send one.
LEMMA Batches ==
    ASSUME IInv, NEW o \in Ops, Commit(o) \/ RecordOutcome(o) \/ Finish(o) \/ Land(o)
    PROVE  /\ Sends(o) /\ UNCHANGED <<req, now, issued, host>>
           /\ \E kind \in Recorded : Apply(o, kind)
<1>1. CASE Commit(o)
  BY <1>1, Senders DEF Commit, Recorded
<1>2. CASE RecordOutcome(o)
  BY <1>2, Senders DEF RecordOutcome, Recorded
<1>3. CASE Finish(o)
  BY <1>3, Senders DEF Finish, Recorded
<1>4. CASE Land(o)
  <2>1. Apply(o, IF flying[o] = "commit" THEN "committed" ELSE "refused")
    BY <1>4 DEF Land
  <2> QED BY <1>4, <2>1, Senders DEF Land, Recorded
<1> QED BY <1>1, <1>2, <1>3, <1>4

\* The tables keep their parts of the invariant, and nothing decided is undone.
LEMMA TablesStep ==
    ASSUME IInv, [Next]_vars
    PROVE  Lasts /\ Rowed' /\ Decisions'
<1>0. Tables
  BY DEF IInv, Tables
<1>1. now \in Nat /\ issued \in [Requests -> Nat]
  BY <1>0 DEF Tables, TypeOK
<1>2. ASSUME UNCHANGED <<req, now, issued, idem, receipts, acked, history, wrote>>
      PROVE Lasts /\ Rowed' /\ Decisions'
  BY <1>0, <1>1, <1>2, QuietLasts
<1>3. ASSUME UNCHANGED <<req, now, issued, idem, receipts, wrote>>, acked \subseteq acked', Purge(acked')
      PROVE Lasts /\ Rowed' /\ Decisions'
  BY <1>0, <1>1, <1>3, QuietLasts, PurgeIsSafe
<1>4. ASSUME NEW o \in Ops, StepOf(o) PROVE Lasts /\ Rowed' /\ Decisions'
  <2>1. CASE Start(o)
    <3>1. /\ req' = req /\ idem' = idem /\ receipts' = receipts /\ wrote' = wrote /\ now' = now
          /\ acked' = acked /\ history' = history
      BY <2>1 DEF Start, db
    <3>2. \A r \in Requests : issued[r] # 0 => issued'[r] = issued[r]
      BY <1>1, <2>1 DEF Start
    <3> QED BY <1>0, <1>1, <3>1, <3>2, QuietLasts
  <2>2. CASE Commit(o) \/ RecordOutcome(o) \/ Finish(o) \/ Land(o)
    BY <1>0, <2>2, Batches, BatchLasts
  <2>3. CASE TurnAway(o) \/ ReadFails(o) \/ Decide(o) \/ Lose(o)
    BY <1>2, <2>3 DEF TurnAway, ReadFails, Decide, Lose, db
  <2>4. CASE Lease(o) \/ LeaseFails(o) \/ Gate(o) \/ Rollback(o) \/ Abort(o)
    BY <1>2, <2>4 DEF Lease, LeaseFails, Gate, Rollback, Abort, db
  <2>5. CASE FinishLost(o) \/ FinishFails(o) \/ Settle(o) \/ Own(o) \/ Fault(o) \/ Sink(o)
    BY <1>2, <2>5 DEF FinishLost, FinishFails, Settle, Own, Fault, Leave, Sink, db
  <2>6. CASE Append(o)
    BY <1>2, <2>6 DEF Append, Leave, db
  <2>7. CASE Ack(o)
    BY <1>3, <2>7 DEF Ack
  <2> QED BY <1>4, <2>1, <2>2, <2>3, <2>4, <2>5, <2>6, <2>7 DEF StepOf, Act, Transact, Closing
<1>5. CASE Recovering \/ RecoverFails
  <2>1. CASE Scan \/ (\E o \in Ops : Recover(o)) \/ RecoverFails
    BY <1>2, <2>1 DEF Scan, Recover, RecoverFails, GiveUp, db
  <2>2. CASE RecoverAppend
    BY <1>2, <2>2 DEF RecoverAppend, GiveUp, db
  <2>3. CASE RecoverAck \/ RecoverReceipts
    BY <1>3, <2>3 DEF RecoverAck, RecoverReceipts
  <2> QED BY <1>5, <2>1, <2>2, <2>3 DEF Recovering
<1>6. CASE Tick
  <2>1. /\ req' = req /\ idem' = idem /\ receipts' = receipts /\ wrote' = wrote /\ now' = now + 1
        /\ acked' = acked /\ history' = history /\ issued' = issued
    BY <1>6 DEF Tick, db
  <2> QED BY <1>0, <1>1, <2>1, QuietLasts
<1>7. CASE Crash
  BY <1>2, <1>7 DEF Crash, db
<1>8. CASE \E k \in Keys : Prune(k)
  BY <1>0, <1>8, PruneLasts
<1>9. CASE UNCHANGED vars
  BY <1>2, <1>9 DEF vars, db
<1> QED BY <1>4, <1>5, <1>6, <1>7, <1>8, <1>9 DEF Next, StepOf

\* What an answer from the tables is; a gate that is shut has its row.
LEMMA AnswerIsTrue ==
    ASSUME Tables, NEW o \in Ops, NEW kind \in Recorded, ~Fresh(o)
    PROVE  /\ Answered(o, kind) \in Recorded \cup {"reuse"}
           /\ Answered(o, kind) = "committed" => Written(req[o])
           /\ Answered(o, kind) = "refused" => ~Written(req[o]) /\ Decided(req[o])
<1> DEFINE i == CHOOSE i \in idem[Key(o)] : TRUE
<1>1. i \in idem[Key(o)]
  BY DEF Fresh
<1>2. Answered(o, kind) = StoredKind(o, i)
  BY DEF Answered
<1> QED BY <1>1, <1>2, StoredIsTrue

\* The tables of the database keep their types.
DbType ==
    /\ req \in [Ops -> Requests] /\ now \in Nat /\ issued \in [Requests -> Nat]
    /\ idem \in [Keys -> SUBSET Rows]
    /\ receipts \subseteq Ops /\ acked \subseteq receipts
    /\ wrote \subseteq Ops /\ history \subseteq wrote /\ erases \subseteq wrote
\* Every step keeps the types of the tables.
LEMMA DbTypeStep ==
    ASSUME IInv, [Next]_vars
    PROVE  DbType'
<1>0. DbType /\ Tables
  BY DEF IInv, TypeOK, DbType, Tables
<1>1. ASSUME UNCHANGED <<req, now, issued, db>> PROVE DbType'
  BY <1>0, <1>1 DEF DbType, db
<1>2. ASSUME UNCHANGED <<req, now, issued, idem, receipts, wrote>>, acked' \subseteq receipts, Purge(acked')
      PROVE DbType'
  BY <1>0, <1>2, PurgeIsSafe DEF DbType
<1>3. ASSUME NEW o \in Ops, Commit(o) \/ RecordOutcome(o) \/ Finish(o) \/ Land(o) PROVE DbType'
  <2>1. Sends(o) /\ UNCHANGED <<req, now, issued>>
    BY <1>3, Batches
  <2>2. PICK kind \in Recorded : Apply(o, kind)
    BY <1>3, Batches
  <2> DEFINE row == [by |-> req[o], at |-> issued[req[o]], kind |-> kind]
  <2>3. row \in Rows /\ Key(o) \in Keys
    BY <1>0, Keyed DEF DbType, Rows, Tables
  <2>4. idem' = idem \/ idem' = [idem EXCEPT ![Key(o)] = {row}]
    BY <1>0, <2>1, <2>2, BatchWrites
  <2>5. idem' \in [Keys -> SUBSET Rows]
    <3> HIDE DEF row
    <3> QED BY <1>0, <2>3, <2>4 DEF DbType
  <2>6. /\ receipts' = receipts \cup {o} /\ acked' = acked
        /\ \/ wrote' = wrote \cup {o} /\ history' = history \cup {o} /\ erases' \subseteq erases \cup {o}
           \/ wrote' = wrote /\ history' = history /\ erases' = erases
    BY <1>0, <2>1, <2>2, BatchWrites
  <2> QED BY <1>0, <2>1, <2>5, <2>6 DEF DbType
<1>4. ASSUME NEW o \in Ops, StepOf(o) PROVE DbType'
  <2>1. CASE Start(o)
    <3>1. issued' \in [Requests -> Nat]
      BY <1>0, <2>1 DEF Start, DbType
    <3> QED BY <1>0, <2>1, <3>1 DEF Start, DbType, db
  <2>2. CASE TurnAway(o) \/ ReadFails(o) \/ Decide(o) \/ Lose(o)
    BY <1>1, <2>2 DEF TurnAway, ReadFails, Decide, Lose
  <2>3. CASE Lease(o) \/ LeaseFails(o) \/ Gate(o) \/ Rollback(o) \/ Abort(o)
    BY <1>1, <2>3 DEF Lease, LeaseFails, Gate, Rollback, Abort
  <2>4. CASE FinishLost(o) \/ FinishFails(o) \/ Settle(o) \/ Own(o) \/ Fault(o) \/ Sink(o)
    BY <1>1, <2>4 DEF FinishLost, FinishFails, Settle, Own, Fault, Leave, Sink
  <2>5. CASE Append(o)
    BY <1>1, <2>5 DEF Append, Leave
  <2>6. CASE Ack(o)
    <3>1. o \in receipts
      BY <2>6 DEF Ack, IInv, Sound, Phase, Tells
    <3> QED BY <1>0, <1>2, <2>6, <3>1 DEF Ack, DbType
  <2> QED BY <1>3, <1>4, <2>1, <2>2, <2>3, <2>4, <2>5, <2>6 DEF StepOf, Act, Transact, Closing
<1>5. CASE Recovering \/ RecoverFails
  <2>1. CASE Scan \/ (\E o \in Ops : Recover(o)) \/ RecoverFails
    BY <1>1, <2>1 DEF Scan, Recover, RecoverFails, GiveUp
  <2>2. CASE RecoverAppend
    BY <1>1, <2>2 DEF RecoverAppend, GiveUp
  <2>3. CASE RecoverAck
    <3>1. cur \subseteq receipts
      BY DEF IInv, Recovers, Tells
    <3> QED BY <1>0, <1>2, <2>3, <3>1 DEF RecoverAck, DbType
  <2>4. CASE RecoverReceipts
    BY <1>0, <1>2, <2>4 DEF RecoverReceipts, DbType
  <2> QED BY <1>5, <2>1, <2>2, <2>3, <2>4 DEF Recovering
<1>6. CASE Tick
  BY <1>0, <1>6 DEF Tick, DbType, db
<1>7. CASE Crash
  BY <1>1, <1>7 DEF Crash
<1>8. CASE \E k \in Keys : Prune(k)
  BY <1>0, <1>8 DEF Prune, DbType
<1>9. CASE UNCHANGED vars
  BY <1>1, <1>9 DEF vars
<1> QED BY <1>4, <1>5, <1>6, <1>7, <1>8, <1>9 DEF Next, StepOf

\* The host's store and the operations keep theirs.
HostType ==
    /\ prepared \subseteq Ops /\ verdict \in [Ops -> Verdicts \cup {"none"}]
    /\ imaged \subseteq Ops /\ confirmed \subseteq Ops
OpsType ==
    /\ flying \in [Ops -> {"none", "commit", "record"}]
    /\ pc \in [Ops -> {"idle", "work", "record", "lease", "gate", "open", "abort",
                       "settle", "append", "ack", "own", "done"}]
    /\ got \in [Ops -> Answers] /\ view \in [Ops -> Views] /\ seen \in [Ops -> SUBSET Rows]
\* Every step keeps the types of the host's store.
LEMMA HostTypeStep ==
    ASSUME IInv, [Next]_vars
    PROVE  HostType'
<1>0. HostType
  BY DEF IInv, TypeOK, HostType
<1>1. ASSUME UNCHANGED host PROVE HostType'
  BY <1>0, <1>1 DEF HostType, host
<1>2. ASSUME NEW o \in Ops, NEW v, Stores(o, v), v.verdict \in Recorded \cup {"reuse"} PROVE HostType'
  BY <1>0, <1>2 DEF HostType, Stores, Verdicts, Recorded
<1>3. ASSUME NEW o \in Ops, StepOf(o) PROVE HostType'
  <2>1. CASE Start(o)
    BY <1>0, <2>1 DEF Start, HostType
  <2>2. CASE Act(o) \/ Land(o) \/ Sink(o)
    BY <1>1, <2>2 DEF Act, TurnAway, ReadFails, Commit, Decide, RecordOutcome, Lose, Land, Sink
  <2>3. CASE Lease(o) \/ LeaseFails(o) \/ Gate(o) \/ Rollback(o)
    BY <1>1, <2>3 DEF Lease, LeaseFails, Gate, Rollback
  <2>4. CASE Finish(o) \/ FinishLost(o) \/ FinishFails(o)
    BY <1>1, <2>4 DEF Finish, FinishLost, FinishFails
  <2>5. CASE Abort(o)
    BY <1>0, <2>5 DEF Abort, HostType, Verdicts
  <2>6. CASE Settle(o) \/ Ack(o) \/ Fault(o)
    BY <1>1, <2>6 DEF Settle, Ack, Fault, Leave
  <2>7. CASE Append(o)
    <3>1. pc[o] = "append" => view[o].verdict \in Recorded \cup {"reuse"}
      BY DEF IInv, Sound, Phase, Tells
    <3> QED BY <1>1, <1>2, <2>7, <3>1 DEF Append, Leave
  <2>8. CASE Own(o)
    <3>1. pc[o] = "own" /\ got[o] # "none" /\ got[o] \in Answers
      BY <2>8 DEF Own, IInv, Sound, Phase, TypeOK
    <3>2. got[o] # "unsure" => OwnVerdict(got[o]) \in Verdicts
      BY <3>1 DEF OwnVerdict, Answers, Verdicts, Recorded
    <3> QED BY <1>0, <1>1, <2>8, <3>2 DEF Own, Leave, HostType
  <2> QED BY <1>3, <2>1, <2>2, <2>3, <2>4, <2>5, <2>6, <2>7, <2>8 DEF StepOf, Transact, Closing
<1>4. CASE Recovering \/ RecoverFails
  <2>1. CASE Scan \/ (\E o \in Ops : Recover(o)) \/ RecoverFails \/ RecoverAck \/ RecoverReceipts
    BY <1>1, <2>1 DEF Scan, Recover, RecoverFails, GiveUp, RecoverAck, RecoverReceipts
  <2>2. CASE RecoverAppend
    <3>1. \A o \in cur : o \in Ops /\ rview.verdict \in Recorded \cup {"reuse"}
      BY DEF IInv, TypeOK, Recovers, Tells
    <3> QED BY <1>1, <1>2, <2>2, <3>1 DEF RecoverAppend, GiveUp
  <2> QED BY <1>4, <2>1, <2>2 DEF Recovering
<1>5. CASE Tick \/ Crash \/ \E k \in Keys : Prune(k)
  BY <1>1, <1>5 DEF Tick, Crash, Prune
<1>6. CASE UNCHANGED vars
  BY <1>1, <1>6 DEF vars
<1> QED BY <1>3, <1>4, <1>5, <1>6 DEF Next, StepOf

\* The operations keep their types: what an answer is made of is one.
LEMMA OpsTypeStep ==
    ASSUME IInv, [Next]_vars
    PROVE  OpsType'
<1>0. OpsType /\ Tables
  BY DEF IInv, TypeOK, OpsType, Tables
<1>1. ASSUME UNCHANGED <<flying, ops>> PROVE OpsType'
  BY <1>0, <1>1 DEF OpsType, ops
<1>2. ASSUME NEW o \in Ops, NEW kind \in Recorded PROVE Answered(o, kind) \in Answers
  <2>1. CASE Fresh(o)
    BY <2>1 DEF Answered, Answers
  <2>2. CASE ~Fresh(o)
    BY <1>0, <2>2, AnswerIsTrue DEF Answers
  <2> QED BY <2>1, <2>2
<1>3. \A o \in Ops : \A i \in idem[Key(o)] : StoredKind(o, i) \in Answers
  BY <1>0, StoredIsTrue DEF Answers
<1>4. \A o \in Ops : idem[Key(o)] \subseteq Rows
  BY <1>0, Keyed DEF Tables, TypeOK
<1>5. "committed" \in Recorded /\ "refused" \in Recorded /\ Nothing \in Views
      /\ "lost" \in Answers /\ "unsure" \in Answers /\ "turned" \in Answers /\ "committed" \in Answers
      /\ "none" \in Answers
  BY DEF Recorded, Nothing, Views, Answers
<1>6. ASSUME NEW o \in Ops, StepOf(o) PROVE OpsType'
  <2>1. CASE Start(o)
    BY <1>0, <1>3, <2>1 DEF Start, OpsType, To, Gets
  <2>2. CASE TurnAway(o)
    BY <1>0, <1>3, <1>5, <2>2 DEF TurnAway, OpsType, To, Gets
  <2>3. CASE ReadFails(o) \/ Decide(o) \/ Lose(o)
    BY <1>0, <1>5, <2>3 DEF ReadFails, Decide, Lose, OpsType, To, Gets
  <2>4. CASE Commit(o) \/ RecordOutcome(o)
    BY <1>0, <1>2, <1>5, <2>4 DEF Commit, RecordOutcome, OpsType, To, Gets
  <2>5. CASE Land(o) \/ Sink(o)
    BY <1>0, <2>5 DEF Land, Sink, OpsType, ops
  <2>6. CASE Lease(o)
    BY <1>0, <1>4, <2>6 DEF Lease, OpsType, To
  <2>7. CASE LeaseFails(o) \/ Rollback(o) \/ Abort(o)
    BY <1>0, <1>5, <2>7 DEF LeaseFails, Rollback, Abort, OpsType, To, Gets
  <2>8. CASE Gate(o)
    BY <1>0, <1>2, <1>5, <2>8 DEF Gate, OpsType, To, Gets
  <2>9. CASE Finish(o) \/ FinishLost(o) \/ FinishFails(o)
    BY <1>0, <1>5, <2>9 DEF Finish, FinishLost, FinishFails, OpsType, To, Gets
  <2>10. CASE Settle(o)
    BY <1>0, <2>10, SettledIsTrue DEF Settle, OpsType, To
  <2>11. CASE Append(o)
    BY <1>0, <1>5, <2>11 DEF Append, Leave, OpsType, To
  <2>12. CASE Ack(o) \/ Own(o) \/ Fault(o)
    BY <1>0, <1>5, <2>12 DEF Ack, Own, Fault, Leave, OpsType, To
  <2> QED BY <1>6, <2>1, <2>2, <2>3, <2>4, <2>5, <2>6, <2>7, <2>8, <2>9, <2>10, <2>11, <2>12
          DEF StepOf, Act, Transact, Closing
<1>7. CASE Recovering \/ RecoverFails
  <2>1. CASE Scan \/ (\E o \in Ops : Recover(o)) \/ RecoverFails \/ RecoverAck \/ RecoverReceipts
    BY <1>1, <2>1 DEF Scan, Recover, RecoverFails, GiveUp, RecoverAck, RecoverReceipts
  <2>2. CASE RecoverAppend
    BY <1>1, <2>2 DEF RecoverAppend, GiveUp
  <2> QED BY <1>7, <2>1, <2>2 DEF Recovering
<1>8. CASE Tick \/ \E k \in Keys : Prune(k)
  BY <1>1, <1>8 DEF Tick, Prune
<1>9. CASE Crash
  BY <1>0, <1>5, <1>9 DEF Crash, OpsType
<1>10. CASE UNCHANGED vars
  BY <1>1, <1>10 DEF vars
<1> QED BY <1>6, <1>7, <1>8, <1>9, <1>10 DEF Next, StepOf

RecoveryType ==
    /\ rpc \in {"boot", "wait", "settle", "append", "ack"}
    /\ todo \subseteq Ops /\ cur \subseteq Ops /\ rview \in Views
    /\ bus \in BOOLEAN /\ unresolved \in BOOLEAN /\ trouble \in Nat
\* Every step keeps the types of the recovery.
LEMMA RecoveryTypeStep ==
    ASSUME IInv, [Next]_vars
    PROVE  RecoveryType'
<1>0. RecoveryType /\ Tables
  BY DEF IInv, TypeOK, RecoveryType, Tables
<1>1. ASSUME UNCHANGED recovery, trouble' \in Nat PROVE RecoveryType'
  BY <1>0, <1>1 DEF RecoveryType, recovery
<1>2. Nothing \in Views
  BY DEF Nothing, Views, Recorded
<1>3. trouble \in Nat /\ (Trouble => trouble' \in Nat)
  BY <1>0 DEF RecoveryType, Trouble
<1>4. ASSUME NEW o \in Ops, StepOf(o) PROVE RecoveryType'
  <2>1. CASE Start(o) \/ Act(o) \/ Land(o) \/ Sink(o)
    BY <1>1, <1>3, <2>1 DEF Start, Act, TurnAway, ReadFails, Commit, Decide, RecordOutcome, Lose, Land, Sink
  <2>2. CASE Transact(o)
    BY <1>1, <1>3, <2>2 DEF Transact, Lease, LeaseFails, Gate, Rollback, Abort, Finish, FinishLost, FinishFails
  <2>3. CASE Settle(o) \/ Ack(o)
    BY <1>1, <1>3, <2>3 DEF Settle, Ack
  <2>4. ASSUME Leave(o), trouble' \in Nat PROVE RecoveryType'
    BY <1>0, <2>4 DEF Leave, RecoveryType
  <2>5. CASE Append(o) \/ Own(o)
    BY <1>1, <1>3, <2>4, <2>5 DEF Append, Own
  <2>6. CASE Fault(o)
    BY <1>3, <2>4, <2>6 DEF Fault
  <2> QED BY <1>4, <2>1, <2>2, <2>3, <2>5, <2>6 DEF StepOf, Closing
<1>5. CASE Recovering \/ RecoverFails
  <2>1. CASE Scan
    BY <1>0, <2>1 DEF Scan, RecoveryType, Pending, IInv, TypeOK
  <2>2. CASE \E o \in Ops : Recover(o)
    BY <1>0, <2>2, SettledIsTrue DEF Recover, RecoveryType
  <2>3. CASE RecoverAppend \/ RecoverFails
    <3>1. ASSUME GiveUp, trouble' \in Nat PROVE RecoveryType'
      BY <1>0, <1>2, <3>1 DEF GiveUp, RecoveryType
    <3>2. CASE RecoverFails
      BY <1>3, <2>3, <3>1, <3>2 DEF RecoverFails
    <3>3. CASE RecoverAppend
      <4>1. \/ GiveUp /\ trouble' = trouble
            \/ rpc' = "ack" /\ UNCHANGED <<todo, cur, rview, bus, unresolved, trouble>>
        BY <3>3 DEF RecoverAppend
      <4> QED BY <1>0, <1>3, <3>1, <4>1 DEF RecoveryType
    <3> QED BY <2>3, <3>2, <3>3
  <2>4. CASE RecoverAck \/ RecoverReceipts
    BY <1>0, <1>2, <2>4 DEF RecoverAck, RecoverReceipts, RecoveryType
  <2> QED BY <1>5, <2>1, <2>2, <2>3, <2>4 DEF Recovering
<1>6. CASE Tick \/ \E k \in Keys : Prune(k)
  BY <1>1, <1>3, <1>6 DEF Tick, Prune
<1>7. CASE Crash
  BY <1>0, <1>2, <1>3, <1>7 DEF Crash, RecoveryType
<1>8. CASE UNCHANGED vars
  BY <1>1, <1>3, <1>8 DEF vars
<1> QED BY <1>4, <1>5, <1>6, <1>7, <1>8 DEF Next, StepOf

\* So the whole state does.
LEMMA TypeStep ==
    ASSUME IInv, [Next]_vars
    PROVE  TypeOK'
BY DbTypeStep, HostTypeStep, OpsTypeStep, RecoveryTypeStep
   DEF TypeOK, DbType, HostType, OpsType, RecoveryType

\* Times: what is sent has one, and the clock waits for what is under way.
LEMMA TimelyStep ==
    ASSUME IInv, [Next]_vars
    PROVE  Timely'
<1>0. /\ now \in Nat /\ issued \in [Requests -> Nat] /\ Window \in Nat /\ Admit \in Nat /\ Admit < Window
      /\ req \in [Ops -> Requests] /\ flying \in [Ops -> {"none", "commit", "record"}]
      /\ pc \in [Ops -> {"idle", "work", "record", "lease", "gate", "open", "abort",
                         "settle", "append", "ack", "own", "done"}]
  BY WindowAssumption DEF IInv, TypeOK
<1>1. /\ now # 0 /\ \A r \in Requests : issued[r] <= now
      /\ \A o \in Ops : InTime(o)
  BY DEF IInv, Timely
<1>2. ASSUME UNCHANGED <<req, now, issued, flying, pc>> PROVE Timely'
  BY <1>1, <1>2 DEF Timely, InTime
<1>3. ASSUME NEW o \in Ops, UNCHANGED <<req, now, issued>>, InTime(o)',
             \A p \in Ops \ {o} : pc'[p] = pc[p] /\ flying'[p] = flying[p]
      PROVE  Timely'
  BY <1>1, <1>3 DEF Timely, InTime
<1>4. ASSUME NEW o \in Ops, NEW l, To(o, l), UNCHANGED <<req, now, issued, flying>>, pc[o] # "idle",
             l \notin {"record", "lease", "gate", "open"}
      PROVE  Timely'
  <2>1. pc'[o] = l /\ \A p \in Ops \ {o} : pc'[p] = pc[p]
    BY <1>0, <1>4 DEF To
  <2> QED BY <1>1, <1>3, <1>4, <2>1 DEF InTime
<1>5. ASSUME NEW o \in Ops, StepOf(o) PROVE Timely'
  <2>1. CASE Start(o)
    <3>1. \A r \in Requests : issued'[r] <= now /\ (issued[r] # 0 => issued'[r] = issued[r])
      BY <1>0, <1>1, <2>1 DEF Start
    <3>2. issued'[req[o]] # 0 /\ req' = req /\ now' = now /\ flying' = flying /\ req[o] \in Requests
      BY <1>0, <1>1, <2>1 DEF Start
    <3>3. \A p \in Ops \ {o} : pc'[p] = pc[p]
      BY <1>0, <2>1 DEF Start, To
    <3>4. pc'[o] \in {"lease", "work", "done"} /\ (pc'[o] = "lease" => Native(o))
      BY <1>0, <2>1 DEF Start, To
    <3>5. \A p \in Ops \ {o} : InTime(p)'
      BY <1>0, <1>1, <3>1, <3>2, <3>3 DEF InTime
    <3>6. Native(o) => now <= issued'[req[o]] + Window
      <4>1. CASE issued[req[o]] = 0
        <5>1. issued'[req[o]] = now
          BY <1>0, <2>1, <4>1, <3>2 DEF Start
        <5> QED BY <1>0, <5>1
      <4>2. CASE issued[req[o]] # 0
        <5>1. Native(o) => now <= issued[req[o]] + Admit
          BY <2>1, <4>2 DEF Start, Admitted
        <5>2. issued'[req[o]] = issued[req[o]] /\ issued[req[o]] \in Nat
          BY <1>0, <3>1, <3>2, <4>2
        <5> QED BY <1>0, <5>1, <5>2
      <4> QED BY <4>1, <4>2
    <3>7. flying[o] = "none"
      BY <2>1 DEF Start, IInv, Sound, Phase, Before
    <3>8. InTime(o)'
      BY <3>2, <3>4, <3>6, <3>7 DEF InTime
    <3> QED BY <1>1, <3>1, <3>2, <3>5, <3>8 DEF Timely
  <2>2. CASE TurnAway(o) \/ ReadFails(o) \/ Commit(o) \/ RecordOutcome(o)
    BY <1>4, <2>2 DEF TurnAway, ReadFails, Commit, RecordOutcome
  <2>3. CASE Decide(o)
    <3>1. pc'[o] = "record" /\ \A p \in Ops \ {o} : pc'[p] = pc[p]
      BY <1>0, <2>3 DEF Decide, To
    <3>2. issued[req[o]] # 0 /\ issued[req[o]] \in Nat /\ now <= issued[req[o]] + Admit
      BY <1>0, <1>1, <2>3 DEF Decide, Admitted, InTime
    <3>3. InTime(o)'
      BY <1>0, <2>3, <3>1, <3>2 DEF InTime, Decide
    <3> QED BY <1>3, <2>3, <3>1, <3>3 DEF Decide
  <2>4. CASE Lose(o)
    <3>1. /\ pc'[o] = "settle" /\ \A p \in Ops \ {o} : pc'[p] = pc[p] /\ flying'[p] = flying[p]
      BY <1>0, <2>4 DEF Lose, To
    <3>2. issued[req[o]] # 0 /\ issued[req[o]] \in Nat /\ now <= issued[req[o]] + Admit
      BY <1>0, <1>1, <2>4 DEF Lose, Admitted, InTime
    <3>3. InTime(o)'
      BY <1>0, <2>4, <3>1, <3>2 DEF InTime, Lose
    <3> QED BY <1>3, <2>4, <3>1, <3>3 DEF Lose
  <2>5. CASE Land(o) \/ Sink(o)
    <3>1. /\ flying'[o] = "none" /\ pc' = pc /\ UNCHANGED <<req, now, issued>>
          /\ \A p \in Ops \ {o} : flying'[p] = flying[p]
      BY <1>0, <2>5 DEF Land, Sink, ops
    <3>2. InTime(o)'
      BY <1>1, <3>1 DEF InTime
    <3> QED BY <1>3, <3>1, <3>2
  <2>6. CASE Lease(o) \/ (Gate(o) /\ pc'[o] = "open")
    <3>1. /\ pc[o] \in {"lease", "gate"} /\ pc'[o] # "idle" /\ UNCHANGED <<req, now, issued, flying>>
          /\ \A p \in Ops \ {o} : pc'[p] = pc[p]
      BY <1>0, <2>6 DEF Lease, Gate, To
    <3>2. InTime(o)'
      BY <1>1, <3>1 DEF InTime
    <3> QED BY <1>3, <3>1, <3>2
  <2>7. CASE Gate(o) /\ pc'[o] # "open"
    <3>1. To(o, "abort")
      BY <1>0, <2>7 DEF Gate, To
    <3> QED BY <1>4, <2>7, <3>1 DEF Gate
  <2>8. CASE LeaseFails(o) \/ Rollback(o) \/ Abort(o) \/ Finish(o) \/ FinishFails(o)
    BY <1>4, <2>8 DEF LeaseFails, Rollback, Abort, Finish, FinishFails
  <2>9. CASE FinishLost(o)
    <3>1. /\ pc[o] = "open" /\ pc'[o] = "settle" /\ UNCHANGED <<req, now, issued>>
          /\ \A p \in Ops \ {o} : pc'[p] = pc[p] /\ flying'[p] = flying[p]
      BY <1>0, <2>9 DEF FinishLost, To
    <3>2. InTime(o)'
      BY <1>1, <3>1 DEF InTime
    <3> QED BY <1>3, <3>1, <3>2
  <2>10. CASE Settle(o)
    BY <1>4, <2>10 DEF Settle
  <2>11. CASE Append(o)
    BY <1>4, <2>11 DEF Append, Leave
  <2>12. CASE Ack(o) \/ Own(o) \/ Fault(o)
    BY <1>4, <2>12 DEF Ack, Own, Fault, Leave
  <2> QED BY <1>5, <2>1, <2>2, <2>3, <2>4, <2>5, <2>6, <2>7, <2>8, <2>9, <2>10, <2>11, <2>12
          DEF StepOf, Act, Transact, Closing
<1>6. CASE Recovering \/ RecoverFails
  <2>1. CASE Scan \/ (\E o \in Ops : Recover(o)) \/ RecoverFails \/ RecoverAck \/ RecoverReceipts
    BY <1>2, <2>1 DEF Scan, Recover, RecoverFails, GiveUp, RecoverAck, RecoverReceipts, ops
  <2>2. CASE RecoverAppend
    BY <1>2, <2>2 DEF RecoverAppend, GiveUp, ops
  <2> QED BY <1>6, <2>1, <2>2 DEF Recovering
<1>7. CASE Tick
  <2>1. /\ now' = now + 1 /\ UNCHANGED <<req, issued, flying, pc>>
        /\ \A o \in Ops : (Live(o) \/ flying[o] # "none") => now' <= issued[req[o]] + Window
    BY <1>7 DEF Tick, ops
  <2>2. ASSUME NEW o \in Ops PROVE InTime(o)'
    BY <1>1, <2>1 DEF InTime, Live
  <2>3. now' # 0 /\ \A r \in Requests : issued[r] <= now'
    BY <1>0, <1>1, <2>1
  <2> QED BY <2>1, <2>2, <2>3 DEF Timely
<1>8. CASE Crash
  <2>1. UNCHANGED <<req, now, issued>>
    BY <1>8 DEF Crash
  <2>2. ASSUME NEW o \in Ops PROVE InTime(o)'
    <3>1. pc'[o] \in {"idle", "done"} /\ (pc'[o] # "idle" => pc[o] # "idle")
      BY <1>0, <1>8 DEF Crash, Live
    <3>2. flying'[o] = flying[o] \/ (pc[o] # "idle" /\ Admitted(o))
      <4>1. PICK F \in SUBSET {q \in Ops : pc[q] \in {"work", "record", "open"} /\ Admitted(q)} :
                  flying' = [q \in Ops |-> IF q \notin F THEN flying[q]
                                          ELSE IF pc[q] = "record" THEN "record" ELSE "commit"]
        BY <1>8 DEF Crash
      <4>2. CASE o \notin F
        BY <4>1, <4>2
      <4>3. CASE o \in F
        BY <4>3
      <4> QED BY <4>2, <4>3
    <3>3. issued[req[o]] \in Nat /\ (Admitted(o) => now <= issued[req[o]] + Window)
      BY <1>0 DEF Admitted
    <3> QED BY <1>1, <2>1, <3>1, <3>2, <3>3 DEF InTime
  <2> QED BY <1>1, <2>1, <2>2 DEF Timely
<1>9. CASE (\E k \in Keys : Prune(k)) \/ UNCHANGED vars
  BY <1>2, <1>9 DEF Prune, vars, ops
<1> QED BY <1>5, <1>6, <1>7, <1>8, <1>9 DEF Next, StepOf

-----------------------------------------------------------------------------
(* Each operation.                                                         *)

\* What a settlement has read stays true.
LEMMA TellsLasts ==
    ASSUME TypeOK, Lasts, NEW o \in Ops, NEW v, Tells(o, v)
    PROVE  Tells(o, v)'
<1>1. req[o] \in Requests
  BY DEF TypeOK
<1> QED BY <1>1 DEF Tells, Lasts

\* A step that is not an operation's own, nor recovery's of it.
Aside(o) ==
    /\ pc'[o] = pc[o] /\ got'[o] = got[o] /\ view'[o] = view[o] /\ flying'[o] = flying[o]
    /\ verdict'[o] = verdict[o] /\ (o \in confirmed' <=> o \in confirmed) /\ imaged \subseteq imaged'
    /\ (o \in receipts' <=> o \in receipts) /\ (o \in wrote' => o \in wrote)
    /\ o \in acked' => o \in acked \/ o \in confirmed
\* What is said of an operation stays true when another one steps.
LEMMA AsideKeeps ==
    ASSUME TypeOK, Lasts, NEW o \in Ops, Sound(o), Aside(o)
    PROVE  Sound(o)'
<1>1. req[o] \in Requests /\ req' = req
  BY DEF TypeOK, Lasts
<1>2. /\ Written(req[o]) => Written(req[o])'
      /\ (Decided(req[o]) /\ ~Written(req[o])) => ~Written(req[o])'
      /\ Decided(req[o]) => Decided(req[o])'
  BY <1>1 DEF Lasts
<1>3. Native(o)' <=> Native(o)
  BY <1>1 DEF Native
<1>4. Tells(o, view[o]) => Tells(o, view[o])'
  <2> SUFFICES ASSUME Tells(o, view[o]) PROVE Tells(o, view[o])'
    OBVIOUS
  <2>1. PICK v : v = view[o]
    OBVIOUS
  <2>2. Tells(o, v)'
    BY <2>1, TellsLasts
  <2> QED BY <2>1, <2>2 DEF Aside
<1>5. Phase(o)'
  <2>1. Phase(o)
    BY DEF Sound
  <2>2. pc[o] \in {"append", "ack"} => Tells(o, view[o])'
    BY <2>1, <1>4 DEF Phase
  <2> QED BY <1>3, <2>1, <2>2 DEF Aside, Phase
<1>6. Answering(o)'
  BY <1>1, <1>2 DEF Sound, Answering, Aside
<1>7. Trailing(o)'
  BY <1>1, <1>2, <1>3 DEF Sound, Trailing, Aside
<1>8. Evidence(o)'
  BY DEF Sound, Evidence, Aside
<1> QED BY <1>5, <1>6, <1>7, <1>8 DEF Sound

\* A step of one operation is aside for the others.
LEMMA Elsewhere ==
    ASSUME IInv, NEW o \in Ops, StepOf(o), NEW p \in Ops, p # o
    PROVE  Aside(p)
<1>0. /\ pc \in [Ops -> {"idle", "work", "record", "lease", "gate", "open", "abort",
                         "settle", "append", "ack", "own", "done"}]
      /\ got \in [Ops -> Answers] /\ view \in [Ops -> Views]
      /\ flying \in [Ops -> {"none", "commit", "record"}]
      /\ verdict \in [Ops -> Verdicts \cup {"none"}]
  BY DEF IInv, TypeOK
<1>1. ASSUME NEW l, To(o, l) PROVE pc'[p] = pc[p]
  BY <1>0, <1>1 DEF To
<1>2. ASSUME NEW a, Gets(o, a) PROVE got'[p] = got[p]
  BY <1>0, <1>2 DEF Gets
<1>3. CASE Start(o)
  <2>1. pc'[p] = pc[p] /\ got'[p] = got[p]
    BY <1>1, <1>2, <1>3 DEF Start
  <2> QED BY <1>3, <2>1 DEF Start, Aside, db
<1>4. CASE TurnAway(o) \/ ReadFails(o) \/ Decide(o)
  <2>1. pc'[p] = pc[p] /\ got'[p] = got[p]
    BY <1>1, <1>2, <1>4 DEF TurnAway, ReadFails, Decide
  <2> QED BY <1>4, <2>1 DEF TurnAway, ReadFails, Decide, Aside, db, host
<1>5. CASE Lose(o) \/ FinishLost(o)
  <2>1. pc'[p] = pc[p] /\ got'[p] = got[p]
    BY <1>1, <1>2, <1>5 DEF Lose, FinishLost
  <2>2. flying'[p] = flying[p]
    BY <1>0, <1>5 DEF Lose, FinishLost
  <2> QED BY <1>5, <2>1, <2>2 DEF Lose, FinishLost, Aside, db, host
<1>6. CASE Commit(o) \/ RecordOutcome(o) \/ Finish(o) \/ Land(o)
  <2>1. pc'[p] = pc[p] /\ got'[p] = got[p] /\ view'[p] = view[p]
    BY <1>1, <1>2, <1>6 DEF Commit, RecordOutcome, Finish, Land, ops
  <2>2. flying'[p] = flying[p]
    BY <1>0, <1>6 DEF Commit, RecordOutcome, Finish, Land
  <2>3. Sends(o) /\ UNCHANGED <<req, now, issued, host>>
    BY <1>6, Batches
  <2>4. PICK kind \in Recorded : Apply(o, kind)
    BY <1>6, Batches
  <2>5. receipts' = receipts \cup {o} /\ acked' = acked /\ wrote' \subseteq wrote \cup {o}
    BY <2>4 DEF Apply
  <2> QED BY <2>1, <2>2, <2>3, <2>5 DEF Aside, host
<1>7. CASE Sink(o)
  <2>1. flying'[p] = flying[p]
    BY <1>0, <1>7 DEF Sink
  <2> QED BY <1>7, <2>1 DEF Sink, Aside, db, host, ops
<1>8. CASE Lease(o) \/ LeaseFails(o) \/ Gate(o) \/ Rollback(o) \/ FinishFails(o)
  <2>1. pc'[p] = pc[p] /\ got'[p] = got[p]
    BY <1>1, <1>2, <1>8 DEF Lease, LeaseFails, Gate, Rollback, FinishFails
  <2> QED BY <1>8, <2>1 DEF Lease, LeaseFails, Gate, Rollback, FinishFails, Aside, db, host
<1>9. CASE Abort(o)
  <2>1. pc'[p] = pc[p] /\ verdict'[p] = verdict[p]
    BY <1>0, <1>1, <1>9 DEF Abort
  <2> QED BY <1>9, <2>1 DEF Abort, Aside, db
<1>10. CASE Settle(o)
  <2>1. pc'[p] = pc[p] /\ view'[p] = view[p]
    BY <1>0, <1>1, <1>10 DEF Settle
  <2> QED BY <1>10, <2>1 DEF Settle, Aside, db, host
<1>11. ASSUME Leave(o) PROVE Aside(p)
  <2>1. pc'[p] = pc[p] /\ view'[p] = view[p]
    BY <1>0, <1>1, <1>11 DEF Leave
  <2> QED BY <1>11, <2>1 DEF Leave, Aside, db, host
<1>12. CASE Append(o)
  <2>1. CASE Stores(o, view[o]) /\ To(o, "ack") /\ UNCHANGED <<db, flying, got, view>>
    <3>1. pc'[p] = pc[p] /\ verdict'[p] = verdict[p]
      BY <1>0, <1>1, <2>1 DEF Stores
    <3> QED BY <2>1, <3>1 DEF Stores, Aside, db
  <2> QED BY <1>11, <1>12, <2>1 DEF Append
<1>13. CASE Ack(o)
  <2>1. pc'[p] = pc[p] /\ view'[p] = view[p]
    BY <1>0, <1>1, <1>13 DEF Ack
  <2> QED BY <1>13, <2>1 DEF Ack, Aside, host
<1>14. CASE Own(o)
  <2>1. CASE ~Leave(o)
    <3>1. pc'[p] = pc[p] /\ verdict'[p] = verdict[p]
      BY <1>0, <1>1, <1>14, <2>1 DEF Own
    <3> QED BY <1>14, <2>1, <3>1 DEF Own, Aside, db
  <2> QED BY <1>11, <2>1
<1>15. CASE Fault(o)
  BY <1>11, <1>15 DEF Fault
<1> QED BY <1>3, <1>4, <1>5, <1>6, <1>7, <1>8, <1>9, <1>10, <1>12, <1>13, <1>14, <1>15
        DEF StepOf, Act, Transact, Closing

\* An operation moves, and neither the tables nor the host's store says more of it.
LEMMA MoveKeeps ==
    ASSUME IInv, Lasts, NEW o \in Ops, UNCHANGED <<receipts, wrote, acked, verdict, imaged, confirmed>>,
           flying'[o] \in {flying[o], "none"} \/ verdict[o] = "none"
    PROVE  /\ Trailing(o)' /\ Evidence(o)'
           /\ req' = req /\ (Native(o)' <=> Native(o)) /\ (Written(req[o])' <=> Written(req[o]))
           /\ Decided(req[o]) => Decided(req[o])'
<1>1. req[o] \in Requests /\ req' = req
  BY DEF IInv, TypeOK, Lasts
<1>2. Written(req[o])' <=> Written(req[o])
  BY <1>1 DEF Written
<1>3. Decided(req[o]) => Decided(req[o])'
  BY <1>1 DEF Lasts
<1>4. Native(o)' <=> Native(o)
  BY <1>1 DEF Native
<1>5. Trailing(o)'
  <2>1. Trailing(o)
    BY DEF IInv, Sound
  <2> QED BY <1>1, <1>2, <1>3, <1>4, <2>1 DEF Trailing
<1>6. Evidence(o)'
  BY DEF IInv, Sound, Evidence
<1> QED BY <1>1, <1>2, <1>3, <1>4, <1>5, <1>6

\* The steps of an operation up to its batch, and those that send none.
LEMMA WorkKeeps ==
    ASSUME IInv, Lasts, NEW o \in Ops,
           Start(o) \/ TurnAway(o) \/ ReadFails(o) \/ Decide(o) \/ Lose(o) \/ Lease(o) \/ LeaseFails(o)
           \/ Gate(o) \/ Rollback(o) \/ FinishLost(o) \/ FinishFails(o)
    PROVE  Sound(o)'
<1>0. /\ pc \in [Ops -> {"idle", "work", "record", "lease", "gate", "open", "abort",
                         "settle", "append", "ack", "own", "done"}]
      /\ got \in [Ops -> Answers] /\ view \in [Ops -> Views]
      /\ flying \in [Ops -> {"none", "commit", "record"}]
  BY DEF IInv, TypeOK
<1>1. Sound(o) /\ Tables
  BY DEF IInv, Tables
<1>2. pc[o] \in Before
  BY DEF Start, TurnAway, ReadFails, Decide, Lose, Lease, LeaseFails, Gate, Rollback, FinishLost,
         FinishFails, Before
<1>3. o \notin receipts /\ flying[o] = "none" /\ verdict[o] = "none"
  BY <1>1, <1>2 DEF Sound, Phase
<1>4. UNCHANGED <<receipts, wrote, acked, verdict, imaged, confirmed>>
  BY DEF Start, TurnAway, ReadFails, Decide, Lose, Lease, LeaseFails, Gate, Rollback, FinishLost,
         FinishFails, db, host
<1>5. /\ Trailing(o)' /\ Evidence(o)'
      /\ req' = req /\ (Native(o)' <=> Native(o)) /\ (Written(req[o])' <=> Written(req[o]))
      /\ Decided(req[o]) => Decided(req[o])'
  BY <1>3, <1>4, MoveKeeps
<1>6. pc[o] \in {"work", "record"} => ~Native(o)
  BY <1>1 DEF Sound, Phase
<1>7. pc[o] \in {"lease", "gate", "open", "abort"} => Native(o)
  BY <1>1 DEF Sound, Phase
<1>8. Answering(o)
  BY <1>1 DEF Sound
<1>9. ASSUME pc'[o] \in Before \cup {"settle", "done"}, verdict'[o] = "none",
             pc'[o] \in {"work", "record"} => ~Native(o),
             pc'[o] \in {"lease", "gate", "open", "abort"} => Native(o),
             pc'[o] = "settle" => got'[o] # "none",
             flying'[o] = "none" \/ (pc'[o] \notin Before /\ got'[o] \in {"lost", "unsure", "none"}),
             got'[o] = "committed" => Written(req[o]),
             got'[o] = "refused" => ~Written(req[o]) /\ Decided(req[o])
      PROVE  Sound(o)'
  <2>1. Phase(o)'
    BY <1>3, <1>4, <1>5, <1>9 DEF Phase, Before
  <2>2. Answering(o)'
    BY <1>5, <1>9 DEF Answering
  <2> QED BY <1>5, <2>1, <2>2 DEF Sound
<1>10. CASE Start(o)
  <2>1. CASE Native(o) /\ idem[Key(o)] # {}
    <3>1. PICK i \in idem[Key(o)] : Gets(o, StoredKind(o, i))
      BY <1>10, <2>1 DEF Start
    <3>2. got'[o] = StoredKind(o, i) /\ pc'[o] = "done"
      BY <1>0, <1>10, <2>1, <3>1 DEF Start, Gets, To
    <3> QED BY <1>1, <1>3, <1>4, <1>9, <1>10, <3>2, StoredIsTrue DEF Start
  <2>2. CASE ~(Native(o) /\ idem[Key(o)] # {})
    <3>1. /\ got' = got /\ pc'[o] = IF Native(o) THEN "lease" ELSE "work"
      BY <1>0, <1>10, <2>2 DEF Start, To
    <3> QED BY <1>3, <1>4, <1>8, <1>9, <1>10, <3>1 DEF Start, Answering, Before
  <2> QED BY <2>1, <2>2
<1>11. CASE TurnAway(o)
  <2>1. pc'[o] = "settle" /\ flying' = flying
    BY <1>0, <1>11 DEF TurnAway, To
  <2>2. got'[o] = "turned" \/ \E i \in idem[Key(o)] : got'[o] = StoredKind(o, i)
    BY <1>0, <1>11 DEF TurnAway, Gets
  <2>3. CASE got'[o] = "turned"
    BY <1>3, <1>4, <1>9, <2>1, <2>3
  <2>4. ASSUME NEW i \in idem[Key(o)], got'[o] = StoredKind(o, i) PROVE Sound(o)'
    <3>1. /\ StoredKind(o, i) \in Recorded \cup {"reuse"}
          /\ StoredKind(o, i) = "committed" => Written(req[o])
          /\ StoredKind(o, i) = "refused" => ~Written(req[o]) /\ Decided(req[o])
      BY <1>1, StoredIsTrue
    <3> QED BY <1>3, <1>4, <1>9, <2>1, <2>4, <3>1 DEF Recorded
  <2> QED BY <2>2, <2>3, <2>4
<1>12. CASE ReadFails(o)
  <2>1. pc'[o] = "settle" /\ flying' = flying /\ got'[o] \in {"unsure", "lost"}
    BY <1>0, <1>12 DEF ReadFails, To, Gets
  <2> QED BY <1>3, <1>4, <1>9, <2>1
<1>13. CASE Decide(o)
  <2>1. pc[o] = "work" /\ pc'[o] = "record" /\ flying' = flying /\ got' = got
    BY <1>0, <1>13 DEF Decide, To
  <2> QED BY <1>3, <1>4, <1>6, <1>8, <1>9, <2>1 DEF Answering, Before
<1>14. CASE Lose(o) \/ FinishLost(o)
  <2>1. pc'[o] = "settle" /\ got'[o] \in {"unsure", "lost"}
    BY <1>0, <1>14 DEF Lose, FinishLost, To, Gets
  <2> QED BY <1>3, <1>4, <1>9, <2>1 DEF Before
<1>15. CASE Lease(o)
  <2>1. pc[o] = "lease" /\ pc'[o] = "gate" /\ flying' = flying /\ got' = got
    BY <1>0, <1>15 DEF Lease, To
  <2> QED BY <1>3, <1>4, <1>7, <1>8, <1>9, <2>1 DEF Answering, Before
<1>16. CASE LeaseFails(o) \/ Rollback(o) \/ FinishFails(o)
  <2>1. /\ pc[o] \in {"lease", "gate", "open"} /\ pc'[o] \in {"done", "abort", "settle"}
        /\ flying' = flying /\ got'[o] = "turned"
    BY <1>0, <1>16 DEF LeaseFails, Rollback, FinishFails, To, Gets
  <2> QED BY <1>3, <1>4, <1>7, <1>9, <2>1 DEF Before
<1>17. CASE Gate(o)
  <2>1. pc[o] = "gate" /\ flying' = flying /\ Native(o)
    BY <1>7, <1>17 DEF Gate
  <2>2. CASE pc'[o] = "abort" /\ got'[o] = "turned"
    BY <1>3, <1>4, <1>9, <2>1, <2>2 DEF Before
  <2>3. CASE pc'[o] = "abort" /\ ~Fresh(o) /\ got'[o] = Answered(o, "committed")
    <3>1. /\ Answered(o, "committed") = "committed" => Written(req[o])
          /\ Answered(o, "committed") = "refused" => ~Written(req[o]) /\ Decided(req[o])
      BY <1>1, <2>3, AnswerIsTrue DEF Recorded
    <3> QED BY <1>3, <1>4, <1>9, <2>1, <2>3, <3>1 DEF Before
  <2>4. CASE pc'[o] = "open" /\ got' = got
    BY <1>3, <1>4, <1>8, <1>9, <2>1, <2>4 DEF Answering, Before
  <2> QED BY <1>0, <1>17, <2>2, <2>3, <2>4 DEF Gate, To, Gets
<1> QED BY <1>10, <1>11, <1>12, <1>13, <1>14, <1>15, <1>16, <1>17

\* A batch commits: its answer, when one arrives, says what it did.
LEMMA BatchKeeps ==
    ASSUME IInv, Lasts, Rowed', Decisions', NEW o \in Ops,
           Commit(o) \/ RecordOutcome(o) \/ Finish(o) \/ Land(o)
    PROVE  Sound(o)'
<1>0. /\ pc \in [Ops -> {"idle", "work", "record", "lease", "gate", "open", "abort",
                         "settle", "append", "ack", "own", "done"}]
      /\ got \in [Ops -> Answers] /\ req[o] \in Requests
      /\ flying \in [Ops -> {"none", "commit", "record"}]
  BY DEF IInv, TypeOK
<1>1. Phase(o) /\ Answering(o) /\ Trailing(o) /\ Evidence(o) /\ Tables
  BY DEF IInv, Tables, Sound
<1>2. Sends(o) /\ UNCHANGED <<req, now, issued, host>>
  BY Batches
<1>3. o \notin receipts /\ o \notin wrote /\ o \notin confirmed
  BY <1>1, <1>2 DEF Sends, Tables, Decisions, Evidence
<1>4. ASSUME NEW kind \in Recorded, Apply(o, kind)
      PROVE  /\ receipts' = receipts \cup {o} /\ acked' = acked
             /\ Fresh(o) => Decided(req[o])'
             /\ Written(req[o])' <=> (Written(req[o]) \/ (Fresh(o) /\ kind = "committed"))
             /\ Fresh(o) => ~Written(req[o])
  <2>1. /\ receipts' = receipts \cup {o} /\ acked' = acked
        /\ Fresh(o) => idem' = [idem EXCEPT ![Key(o)] =
                                  {[by |-> req[o], at |-> issued[req[o]], kind |-> kind]}]
        /\ Written(req[o])' <=> (Written(req[o]) \/ (Fresh(o) /\ kind = "committed"))
    BY <1>0, <1>1, <1>2, <1>4, BatchWrites
  <2>2. Fresh(o) => ~Written(req[o])
    BY <1>1, <1>2, FreshIsOpen
  <2>3. Fresh(o) => Decided(req[o])'
    <3> SUFFICES ASSUME Fresh(o) PROVE Decided(req[o])'
      OBVIOUS
    <3> DEFINE row == [by |-> req[o], at |-> issued[req[o]], kind |-> kind]
    <3>1. Key(o) \in Keys /\ Key(o) = KeyOf[req[o]] /\ idem \in [Keys -> SUBSET Rows]
      BY <1>1, Keyed DEF Key, Tables, TypeOK
    <3>2. row \in idem'[Key(o)] /\ row.by = req[o]
      BY <2>1, <3>1
    <3> QED BY <1>2, <3>1, <3>2 DEF Decided, Sends
  <2> QED BY <2>1, <2>2, <2>3
<1>5. ASSUME NEW kind \in Recorded, Apply(o, kind)
      PROVE  /\ Answered(o, kind) \in Recorded \cup {"reuse"}
             /\ Answered(o, kind) = "committed" => Written(req[o])'
             /\ Answered(o, kind) = "refused" => ~Written(req[o])' /\ Decided(req[o])'
  <2>1. CASE Fresh(o)
    BY <1>4, <1>5, <2>1 DEF Answered, Recorded
  <2>2. CASE ~Fresh(o)
    <3>1. /\ Answered(o, kind) \in Recorded \cup {"reuse"}
          /\ Answered(o, kind) = "committed" => Written(req[o])
          /\ Answered(o, kind) = "refused" => ~Written(req[o]) /\ Decided(req[o])
      BY <1>1, <2>2, AnswerIsTrue
    <3>2. Decided(req[o]) => Decided(req[o])'
      BY <1>0, <1>2 DEF Lasts
    <3> QED BY <1>4, <1>5, <2>2, <3>1, <3>2
  <2> QED BY <2>1, <2>2
<1>6. /\ Native(o)' <=> Native(o)
      /\ receipts' = receipts \cup {o} /\ acked' = acked
      /\ verdict' = verdict /\ imaged' = imaged /\ confirmed' = confirmed
  BY <1>2, <1>4, Batches DEF Native, host
<1>7. Evidence(o)'
  BY <1>1, <1>3, <1>6 DEF Evidence, Tables, TypeOK
<1>8. ASSUME pc'[o] = "settle", flying'[o] = "none", verdict[o] = "none",
             got'[o] # "none", got'[o] = "committed" => Written(req[o])',
             got'[o] = "refused" => ~Written(req[o])' /\ Decided(req[o])'
      PROVE  Sound(o)'
  <2>1. Phase(o)'
    BY <1>8 DEF Phase, Before
  <2>2. Answering(o)'
    BY <1>2, <1>8 DEF Answering
  <2>3. Trailing(o)'
    BY <1>6, <1>8 DEF Trailing
  <2> QED BY <1>7, <2>1, <2>2, <2>3 DEF Sound
<1>9. CASE Commit(o)
  <2>1. Apply(o, "committed") /\ "committed" \in Recorded /\ pc[o] = "work" /\ flying' = flying
    BY <1>9 DEF Commit, Recorded
  <2>2. pc'[o] = "settle" /\ got'[o] = Answered(o, "committed")
    BY <1>0, <1>9 DEF Commit, To, Gets
  <2>3. /\ Answered(o, "committed") \in Recorded \cup {"reuse"}
        /\ Answered(o, "committed") = "committed" => Written(req[o])'
        /\ Answered(o, "committed") = "refused" => ~Written(req[o])' /\ Decided(req[o])'
    BY <1>5, <2>1
  <2>4. verdict[o] = "none" /\ flying[o] = "none"
    BY <1>1, <2>1 DEF Phase, Before
  <2> QED BY <1>8, <2>1, <2>2, <2>3, <2>4 DEF Recorded
<1>10. CASE RecordOutcome(o)
  <2>1. Apply(o, "refused") /\ "refused" \in Recorded /\ pc[o] = "record" /\ flying' = flying
    BY <1>10 DEF RecordOutcome, Recorded
  <2>2. pc'[o] = "settle" /\ got'[o] = Answered(o, "refused")
    BY <1>0, <1>10 DEF RecordOutcome, To, Gets
  <2>3. /\ Answered(o, "refused") \in Recorded \cup {"reuse"}
        /\ Answered(o, "refused") = "committed" => Written(req[o])'
        /\ Answered(o, "refused") = "refused" => ~Written(req[o])' /\ Decided(req[o])'
    BY <1>5, <2>1
  <2>4. verdict[o] = "none" /\ flying[o] = "none"
    BY <1>1, <2>1 DEF Phase, Before
  <2> QED BY <1>8, <2>1, <2>2, <2>3, <2>4 DEF Recorded
<1>11. CASE Finish(o)
  <2>1. Apply(o, "committed") /\ "committed" \in Recorded /\ pc[o] = "open" /\ flying' = flying
    BY <1>11 DEF Finish, Recorded
  <2>2. pc'[o] = "settle" /\ got'[o] = "committed"
    BY <1>0, <1>11 DEF Finish, To, Gets
  <2>3. Fresh(o)
    BY <2>1, Senders
  <2>4. verdict[o] = "none" /\ flying[o] = "none"
    BY <1>1, <2>1 DEF Phase, Before
  <2> QED BY <1>4, <1>8, <2>1, <2>2, <2>3, <2>4
<1>12. CASE Land(o)
  <2>1. flying[o] # "none" /\ flying'[o] = "none" /\ pc' = pc /\ got' = got /\ view' = view
    BY <1>0, <1>12 DEF Land, ops
  <2>2. pc[o] \notin Before \cup {"append", "ack"}
    BY <1>1, <2>1 DEF Phase, Tells
  <2>3. Phase(o)'
    BY <1>1, <1>6, <2>1, <2>2 DEF Phase, Before
  <2>4. verdict[o] = "none" \/ (verdict[o] = "failed" /\ ~Native(o))
    BY <1>1, <2>1 DEF Trailing
  <2>5. Trailing(o)'
    BY <1>6, <2>1, <2>4 DEF Trailing
  <2>6. got[o] \in {"lost", "unsure", "none"}
    BY <1>1, <2>1 DEF Phase
  <2>7. Answering(o)'
    BY <2>1, <2>6 DEF Answering
  <2> QED BY <1>7, <2>3, <2>5, <2>7 DEF Sound
<1> QED BY <1>9, <1>10, <1>11, <1>12

\* A stored event says what the receipt told, with its revisions.
LEMMA StoresKeeps ==
    ASSUME IInv, Lasts, NEW o \in Ops, NEW v, Tells(o, v), Stores(o, v),
           UNCHANGED <<receipts, wrote, acked, flying>>
    PROVE  Trailing(o)' /\ Evidence(o)' /\ o \in confirmed'
<1>1. req[o] \in Requests /\ req' = req /\ verdict \in [Ops -> Verdicts \cup {"none"}]
  BY DEF IInv, TypeOK, Lasts
<1>2. Trailing(o) /\ Evidence(o) /\ Phase(o)
  BY DEF IInv, Sound
<1>3. Tells(o, v)'
  BY TellsLasts DEF IInv
<1>4. verdict'[o] = v.verdict /\ o \in confirmed'
  BY <1>1 DEF Stores
<1>5. flying[o] = "none"
  BY <1>2 DEF Phase, Tells
<1>6. Trailing(o)'
  BY <1>1, <1>3, <1>4, <1>5 DEF Trailing, Tells, Recorded
<1>7. o \in wrote => o \in imaged'
  BY <1>2 DEF Stores, Agrees, Tells, Evidence
<1>8. Evidence(o)'
  BY <1>2, <1>4, <1>7 DEF Evidence, Tells
<1> QED BY <1>4, <1>6, <1>8

\* The steps that settle an operation.
LEMMA CloseKeeps ==
    ASSUME IInv, Lasts, NEW o \in Ops, Sink(o) \/ Abort(o) \/ Closing(o) \/ Fault(o)
    PROVE  Sound(o)'
<1>0. /\ pc \in [Ops -> {"idle", "work", "record", "lease", "gate", "open", "abort",
                         "settle", "append", "ack", "own", "done"}]
      /\ got \in [Ops -> Answers] /\ view \in [Ops -> Views] /\ req[o] \in Requests
      /\ flying \in [Ops -> {"none", "commit", "record"}]
      /\ verdict \in [Ops -> Verdicts \cup {"none"}]
  BY DEF IInv, TypeOK
<1>1. Phase(o) /\ Answering(o) /\ Trailing(o) /\ Evidence(o) /\ Tables
  BY DEF IInv, Tables, Sound
<1>2. req' = req /\ (Native(o)' <=> Native(o))
  BY DEF Lasts, Native
<1>3. got' = got /\ wrote' = wrote /\ receipts' = receipts
  BY DEF Sink, Abort, Closing, Settle, Append, Ack, Own, Fault, Leave, ops, db
<1>4. Answering(o)'
  BY <1>0, <1>1, <1>2, <1>3 DEF Answering, Lasts
<1>5. ASSUME UNCHANGED <<acked, verdict, imaged, confirmed>>, flying' = flying PROVE Trailing(o)' /\ Evidence(o)'
  BY <1>3, <1>5, MoveKeeps
<1>6. ASSUME pc'[o] = "done", flying' = flying PROVE Phase(o)'
  BY <1>1, <1>3, <1>6 DEF Phase, Before
<1>7. ASSUME Leave(o) PROVE Sound(o)'
  <2>1. pc'[o] = "done" /\ flying' = flying /\ UNCHANGED <<acked, verdict, imaged, confirmed>>
    BY <1>0, <1>7 DEF Leave, To, db, host
  <2> QED BY <1>4, <1>5, <1>6, <2>1 DEF Sound
<1>8. CASE Sink(o)
  <2>1. /\ flying'[o] = "none" /\ pc' = pc /\ view' = view
        /\ UNCHANGED <<acked, verdict, imaged, confirmed>>
    BY <1>0, <1>8 DEF Sink, ops, db, host
  <2>2. Trailing(o)' /\ Evidence(o)'
    BY <1>3, <2>1, MoveKeeps
  <2>3. pc[o] \notin {"append", "ack"}
    BY <1>1, <1>8 DEF Sink, Phase, Tells
  <2>4. Phase(o)'
    BY <1>1, <1>2, <1>3, <2>1, <2>3 DEF Phase, Before
  <2> QED BY <1>4, <2>2, <2>4 DEF Sound
<1>9. CASE Abort(o)
  <2>1. /\ pc[o] = "abort" /\ pc'[o] = "done" /\ flying' = flying /\ verdict'[o] \in {verdict[o], "failed"}
        /\ UNCHANGED <<acked, imaged, confirmed>>
    BY <1>0, <1>9 DEF Abort, To, db
  <2>2. verdict[o] = "none" /\ flying[o] = "none" /\ o \notin receipts /\ Native(o)
    BY <1>1, <2>1 DEF Phase, Before
  <2>3. o \notin wrote
    BY <1>1, <2>2 DEF Tables, Decisions
  <2>4. Trailing(o)'
    BY <1>2, <1>3, <2>1, <2>2, <2>3 DEF Trailing
  <2>5. Evidence(o)'
    BY <1>1, <1>3, <2>1 DEF Evidence
  <2> QED BY <1>4, <1>6, <2>1, <2>4, <2>5 DEF Sound
<1>10. CASE Settle(o)
  <2>1. /\ pc[o] = "settle" /\ flying' = flying /\ UNCHANGED <<acked, verdict, imaged, confirmed>>
    BY <1>10 DEF Settle, db, host
  <2>2. CASE pc'[o] = "done"
    BY <1>4, <1>5, <1>6, <2>1, <2>2 DEF Sound
  <2>3. CASE pc'[o] = "own" /\ ~Native(o) /\ o \notin receipts
    <3>1. Phase(o)'
      BY <1>1, <1>2, <1>3, <2>1, <2>3 DEF Phase, Before
    <3> QED BY <1>4, <1>5, <2>1, <3>1 DEF Sound
  <2>4. CASE pc'[o] = "append" /\ view'[o] = Settled(o) /\ Tells(o, Settled(o))
    <3>1. PICK v : v = Settled(o)
      OBVIOUS
    <3>2. Tells(o, v)'
      BY <2>4, <3>1, TellsLasts DEF IInv
    <3>3. Tells(o, view[o])'
      BY <2>4, <3>1, <3>2
    <3>4. Phase(o)'
      BY <1>1, <1>2, <1>3, <2>1, <2>4, <3>3 DEF Phase, Before
    <3> QED BY <1>4, <1>5, <2>1, <3>4 DEF Sound
  <2>5. /\ Settled(o).verdict = "absent" => o \notin receipts
        /\ Settled(o).verdict \notin {"absent", "acked"} => Tells(o, Settled(o))
    BY <1>1, SettledIsTrue
  <2> QED BY <1>0, <1>10, <2>2, <2>3, <2>4, <2>5 DEF Settle, To
<1>11. CASE Append(o)
  <2>1. CASE Stores(o, view[o]) /\ To(o, "ack") /\ UNCHANGED <<db, flying, view>>
    <3>1. pc[o] = "append" /\ Tells(o, view[o])
      BY <1>1, <1>11 DEF Append, Phase
    <3>2. PICK v : v = view[o]
      OBVIOUS
    <3>3. Trailing(o)' /\ Evidence(o)' /\ o \in confirmed'
      BY <1>3, <2>1, <3>1, <3>2, StoresKeeps DEF db
    <3>4. Tells(o, v)'
      BY <3>1, <3>2, TellsLasts DEF IInv
    <3>5. Tells(o, view[o])'
      BY <2>1, <3>2, <3>4
    <3>6. pc'[o] = "ack"
      BY <1>0, <2>1 DEF To
    <3>7. Phase(o)'
      BY <1>1, <1>3, <2>1, <3>1, <3>3, <3>5, <3>6 DEF Phase, Before
    <3> QED BY <1>4, <3>3, <3>7 DEF Sound
  <2> QED BY <1>7, <1>11, <2>1 DEF Append
<1>12. CASE Ack(o)
  <2>1. /\ pc[o] = "ack" /\ pc'[o] = "done" /\ flying' = flying /\ acked' = acked \cup {o}
        /\ UNCHANGED <<verdict, imaged, confirmed>>
    BY <1>0, <1>12 DEF Ack, To, host
  <2>2. o \in confirmed
    BY <1>1, <2>1 DEF Phase
  <2>3. Evidence(o)'
    BY <1>1, <1>3, <2>1, <2>2 DEF Evidence
  <2>4. Trailing(o)'
    BY <1>0, <1>1, <1>2, <1>3, <2>1 DEF Trailing, Lasts
  <2> QED BY <1>4, <1>6, <2>1, <2>3, <2>4 DEF Sound
<1>13. CASE Own(o)
  <2>1. CASE Leave(o)
    BY <1>7, <2>1
  <2>2. CASE ~Leave(o)
    <3>1. /\ pc[o] = "own" /\ got[o] # "unsure" /\ pc'[o] = "done" /\ flying' = flying
          /\ verdict'[o] = OwnVerdict(got[o]) /\ UNCHANGED <<acked, imaged, confirmed>>
      BY <1>0, <1>13, <2>2 DEF Own, To, db
    <3>2. ~Native(o) /\ got[o] # "none"
      BY <1>1, <3>1 DEF Phase
    <3>3. Evidence(o)'
      BY <1>1, <1>3, <3>1 DEF Evidence
    <3>4. Trailing(o)'
      <4>1. CASE got[o] = "lost"
        BY <1>2, <3>1, <3>2, <4>1 DEF Trailing, OwnVerdict
      <4>2. CASE got[o] # "lost"
        <5>1. verdict'[o] = got[o] /\ verdict'[o] # "none"
          BY <3>1, <3>2, <4>2 DEF OwnVerdict
        <5>2. o \notin receipts /\ flying[o] = "none"
          BY <1>1, <3>1, <3>2, <4>2 DEF Phase
        <5>3. o \notin wrote
          BY <1>1, <5>2 DEF Tables, Decisions
        <5> QED BY <1>2, <1>3, <1>4, <3>1, <5>1, <5>2, <5>3 DEF Trailing, Answering
      <4> QED BY <4>1, <4>2
    <3> QED BY <1>4, <1>6, <3>1, <3>3, <3>4 DEF Sound
  <2> QED BY <2>1, <2>2
<1>14. CASE Fault(o)
  BY <1>7, <1>14 DEF Fault
<1> QED BY <1>8, <1>9, <1>10, <1>11, <1>12, <1>13, <1>14 DEF Closing

\* Recovery stores an event of the one operation that it has in hand.
LEMMA RecoveredKeeps ==
    ASSUME IInv, Lasts, NEW o \in cur, Stores(o, rview), NEW p \in Ops,
           UNCHANGED <<receipts, wrote, acked, flying, pc, got, view>>
    PROVE  Sound(p)'
<1>1. o \in Ops /\ Tells(o, rview) /\ verdict \in [Ops -> Verdicts \cup {"none"}]
  BY DEF IInv, TypeOK, Recovers
<1>2. Sound(p) /\ TypeOK
  BY DEF IInv
<1>3. CASE p # o
  <2>1. Aside(p)
    BY <1>1, <1>3 DEF Aside, Stores
  <2> QED BY <1>2, <2>1, AsideKeeps
<1>4. CASE p = o
  <2>1. PICK v : v = rview
    OBVIOUS
  <2>2. Trailing(o)' /\ Evidence(o)' /\ o \in confirmed'
    BY <1>1, <2>1, StoresKeeps
  <2>3. Answering(o)'
    BY <1>1, <1>2, <1>4 DEF Sound, Answering, Lasts, TypeOK
  <2>4. Phase(o)'
    <3>1. Phase(o)
      BY <1>2, <1>4 DEF Sound
    <3>2. PICK w : w = view[o]
      OBVIOUS
    <3>3. Tells(o, view[o]) => Tells(o, view[o])'
      BY <1>1, <1>2, <3>2, TellsLasts
    <3>4. Native(o)' <=> Native(o)
      BY DEF Lasts, Native
    <3>5. pc[o] \notin Before /\ o \in receipts
      BY <1>1, <3>1 DEF Phase, Tells
    <3> QED BY <2>2, <3>1, <3>3, <3>4, <3>5 DEF Phase
  <2> QED BY <1>4, <2>2, <2>3, <2>4 DEF Sound
<1> QED BY <1>3, <1>4

\* A crash ends every operation where it is; what was sent may still land.
LEMMA CrashKeeps ==
    ASSUME IInv, Lasts, Crash, NEW o \in Ops
    PROVE  Sound(o)'
<1>0. /\ pc \in [Ops -> {"idle", "work", "record", "lease", "gate", "open", "abort",
                         "settle", "append", "ack", "own", "done"}]
      /\ got \in [Ops -> Answers] /\ req[o] \in Requests
  BY DEF IInv, TypeOK
<1>1. Phase(o) /\ Answering(o) /\ Trailing(o) /\ Evidence(o)
  BY DEF IInv, Sound
<1>2. /\ pc'[o] \in {"idle", "done"} /\ (pc'[o] = "idle" => pc[o] = "idle")
      /\ got'[o] \in {got[o], "none"} /\ (pc[o] \in {"work", "record", "open"} => got'[o] = "none")
      /\ UNCHANGED <<receipts, wrote, acked, verdict, imaged, confirmed>>
  BY <1>0 DEF Crash, Live, db, host
<1>3. flying'[o] = flying[o] \/ pc[o] \in {"work", "record", "open"}
  <2>1. PICK F \in SUBSET {q \in Ops : pc[q] \in {"work", "record", "open"} /\ Admitted(q)} :
               flying' = [q \in Ops |-> IF q \notin F THEN flying[q]
                                        ELSE IF pc[q] = "record" THEN "record" ELSE "commit"]
    BY DEF Crash
  <2>2. CASE o \notin F
    BY <2>1, <2>2
  <2>3. CASE o \in F
    BY <2>3
  <2> QED BY <2>2, <2>3
<1>4. pc[o] \in {"work", "record", "open"} => verdict[o] = "none" /\ o \notin receipts
  BY <1>1 DEF Phase, Before
<1>5. /\ Trailing(o)' /\ Evidence(o)' /\ req' = req
      /\ (Written(req[o])' <=> Written(req[o])) /\ (Decided(req[o]) => Decided(req[o])')
  BY <1>2, <1>3, <1>4, MoveKeeps
<1>6. Answering(o)'
  BY <1>1, <1>2, <1>5 DEF Answering
<1>7. Phase(o)'
  BY <1>1, <1>2, <1>3, <1>4 DEF Phase, Before
<1> QED BY <1>5, <1>6, <1>7 DEF Sound

\* Every step keeps what is said of each operation.
LEMMA SoundStep ==
    ASSUME IInv, [Next]_vars, Lasts, Rowed', Decisions', NEW o \in Ops
    PROVE  Sound(o)'
<1>0. Sound(o) /\ TypeOK
  BY DEF IInv
<1>1. ASSUME NEW p \in Ops, StepOf(p) PROVE Sound(o)'
  <2>1. CASE p # o
    BY <1>0, <1>1, <2>1, Elsewhere, AsideKeeps
  <2>2. CASE p = o
    BY <1>1, <2>2, WorkKeeps, BatchKeeps, CloseKeeps DEF StepOf, Act, Transact
  <2> QED BY <2>1, <2>2
<1>2. ASSUME UNCHANGED <<pc, got, view, flying, receipts, wrote, host>>,
             o \in acked' => o \in acked \/ o \in confirmed
      PROVE  Sound(o)'
  BY <1>0, <1>2, AsideKeeps DEF Aside, host
<1>3. CASE Recovering \/ RecoverFails
  <2>1. CASE Scan \/ (\E p \in Ops : Recover(p)) \/ RecoverFails
    BY <1>2, <2>1 DEF Scan, Recover, RecoverFails, GiveUp, ops, db
  <2>2. CASE RecoverAppend
    <3>1. CASE GiveUp
      BY <1>2, <3>1 DEF GiveUp, ops, db
    <3>2. CASE ~GiveUp
      BY <2>2, <3>2, RecoveredKeeps DEF RecoverAppend, ops, db
    <3> QED BY <3>1, <3>2
  <2>3. CASE RecoverAck
    <3>1. rpc = "ack" /\ acked' = acked \cup cur
      BY <2>3 DEF RecoverAck
    <3>2. cur \subseteq confirmed
      BY <3>1 DEF IInv, Recovers
    <3> QED BY <1>2, <2>3, <3>1, <3>2 DEF RecoverAck, ops
  <2>4. CASE RecoverReceipts
    BY <1>2, <2>4 DEF RecoverReceipts, ops
  <2> QED BY <1>3, <2>1, <2>2, <2>3, <2>4 DEF Recovering
<1>4. CASE Tick \/ (\E k \in Keys : Prune(k))
  BY <1>2, <1>4 DEF Tick, Prune, ops, db
<1>5. CASE Crash
  BY <1>5, CrashKeeps
<1>6. CASE UNCHANGED vars
  BY <1>2, <1>6 DEF vars, ops, db
<1> QED BY <1>1, <1>3, <1>4, <1>5, <1>6 DEF Next, StepOf

\* What recovery holds is what a receipt tells.
LEMMA RecoversStep ==
    ASSUME IInv, [Next]_vars, Lasts
    PROVE  Recovers'
<1>0. /\ Recovers /\ Tables /\ TypeOK /\ cur \subseteq Ops
  BY DEF IInv, Tables, TypeOK
<1>1. ASSUME NEW o \in cur PROVE Tells(o, rview) /\ (rview' = rview => Tells(o, rview)')
  <2>1. PICK v : v = rview
    OBVIOUS
  <2>2. Tells(o, v) /\ o \in Ops
    BY <1>0, <1>1, <2>1 DEF Recovers
  <2>3. Tells(o, v)'
    BY <1>0, <2>2, TellsLasts
  <2> QED BY <2>1, <2>2, <2>3
<1>2. ASSUME UNCHANGED <<rpc, cur, rview>>, confirmed \subseteq confirmed' PROVE Recovers'
  BY <1>0, <1>1, <1>2 DEF Recovers
<1>3. ASSUME cur' = {} PROVE Recovers'
  BY <1>3 DEF Recovers
<1>4. ASSUME NEW o \in Ops, StepOf(o) PROVE Recovers'
  <2>1. confirmed \subseteq confirmed'
    BY <1>4 DEF StepOf, Start, Act, TurnAway, ReadFails, Commit, Decide, RecordOutcome, Lose, Land, Sink,
            Transact, Lease, LeaseFails, Gate, Rollback, Abort, Finish, FinishLost, FinishFails,
            Closing, Settle, Append, Stores, Ack, Own, Fault, Leave, host
  <2>2. UNCHANGED <<rpc, cur, rview>>
    BY <1>4 DEF StepOf, Start, Act, TurnAway, ReadFails, Commit, Decide, RecordOutcome, Lose, Land, Sink,
            Transact, Lease, LeaseFails, Gate, Rollback, Abort, Finish, FinishLost, FinishFails,
            Closing, Settle, Append, Ack, Own, Fault, Leave, recovery
  <2> QED BY <1>2, <2>1, <2>2
<1>5. CASE Recovering \/ RecoverFails
  <2>1. CASE Scan
    <3>1. rpc \notin {"append", "ack"} /\ cur' = cur
      BY <2>1 DEF Scan
    <3> QED BY <1>0, <1>3, <3>1 DEF Recovers
  <2>2. ASSUME NEW o \in Ops, Recover(o) PROVE Recovers'
    <3>1. CASE Settled(o).verdict \in {"absent", "acked"}
      BY <1>2, <2>2, <3>1 DEF Recover, host
    <3>2. CASE Settled(o).verdict \notin {"absent", "acked"}
      <4>1. cur' = {o} /\ rview' = Settled(o) /\ rpc' = "append"
        BY <2>2, <3>2 DEF Recover
      <4>2. PICK v : v = Settled(o)
        OBVIOUS
      <4>3. Tells(o, v)
        BY <1>0, <3>2, <4>2, SettledIsTrue
      <4>4. Tells(o, v)'
        BY <1>0, <4>3, TellsLasts
      <4>5. Tells(o, rview)'
        BY <4>1, <4>2, <4>4
      <4> QED BY <4>1, <4>5 DEF Recovers
    <3> QED BY <3>1, <3>2
  <2>3. CASE RecoverAppend
    <3>1. CASE GiveUp
      BY <1>3, <3>1 DEF GiveUp
    <3>2. CASE ~GiveUp
      <4>1. PICK o \in cur : Stores(o, rview) /\ rpc' = "ack" /\ UNCHANGED <<cur, rview>>
        BY <2>3, <3>2 DEF RecoverAppend
      <4>2. \A p \in cur : p \in confirmed'
        BY <1>0, <4>1 DEF Recovers, Stores
      <4> QED BY <1>0, <1>1, <4>1, <4>2 DEF Recovers
    <3> QED BY <3>1, <3>2
  <2>4. CASE RecoverAck \/ RecoverFails
    BY <1>3, <2>4 DEF RecoverAck, RecoverFails, GiveUp
  <2>5. CASE RecoverReceipts
    <3>1. rpc \notin {"append", "ack"} /\ cur' = cur
      BY <2>5 DEF RecoverReceipts
    <3> QED BY <1>0, <1>3, <3>1 DEF Recovers
  <2> QED BY <1>5, <2>1, <2>2, <2>3, <2>4, <2>5 DEF Recovering
<1>6. CASE Tick \/ (\E k \in Keys : Prune(k)) \/ UNCHANGED vars
  BY <1>2, <1>6 DEF Tick, Prune, vars, recovery, host
<1>7. CASE Crash
  BY <1>3, <1>7 DEF Crash
<1> QED BY <1>4, <1>5, <1>6, <1>7 DEF Next, StepOf

-----------------------------------------------------------------------------
(* Sessions.                                                               *)

\* Only a batch and `prune` change rows or add a receipt.
LEMMA RowMoves ==
    ASSUME [Next]_vars
    PROVE  \/ UNCHANGED <<idem, receipts>> /\ acked \subseteq acked'
           \/ \E o \in Ops : Commit(o) \/ RecordOutcome(o) \/ Finish(o) \/ Land(o)
           \/ \E k \in Keys : Prune(k)
<1> DEFINE Rests == UNCHANGED <<idem, receipts>> /\ acked \subseteq acked'
<1>1. ASSUME NEW o \in Ops, StepOf(o)
      PROVE  Rests \/ Commit(o) \/ RecordOutcome(o) \/ Finish(o) \/ Land(o)
  BY <1>1 DEF StepOf, Start, Act, TurnAway, ReadFails, Decide, Lose, Sink,
          Transact, Lease, LeaseFails, Gate, Rollback, Abort, FinishLost, FinishFails,
          Closing, Settle, Append, Ack, Own, Fault, Leave, db
<1>2. CASE Recovering \/ RecoverFails \/ Tick \/ Crash
  BY <1>2 DEF Recovering, Scan, Recover, RecoverAppend, RecoverAck, RecoverReceipts, RecoverFails, GiveUp,
          Tick, Crash, db
<1>3. CASE UNCHANGED vars
  BY <1>3 DEF vars, db
<1> QED BY <1>1, <1>2, <1>3 DEF Next, StepOf

\* An operation holds its key from the gate on.
LEMMA HoldsMoves ==
    ASSUME IInv, [Next]_vars, Lasts, NEW p \in Ops, Holds(p)'
    PROVE  Holds(p) \/ (Gate(p) /\ pc'[p] = "open")
<1>0. /\ pc \in [Ops -> {"idle", "work", "record", "lease", "gate", "open", "abort",
                         "settle", "append", "ack", "own", "done"}]
      /\ flying \in [Ops -> {"none", "commit", "record"}]
  BY DEF IInv, TypeOK
<1>1. Native(p)' <=> Native(p)
  BY DEF Lasts, Native
<1>2. ASSUME UNCHANGED <<pc, flying>> PROVE Holds(p)
  BY <1>1, <1>2 DEF Holds
<1>3. ASSUME NEW o \in Ops, StepOf(o) PROVE Holds(p) \/ (Gate(p) /\ pc'[p] = "open")
  <2>1. CASE p # o
    <3>1. Aside(p)
      BY <1>3, <2>1, Elsewhere
    <3> QED BY <1>1, <3>1 DEF Aside, Holds
  <2>2. CASE p = o
    <3>1. pc[p] = "work" \/ pc[p] = "record" => ~Native(p)
      BY DEF IInv, Sound, Phase
    <3>2. CASE Lose(o)
      BY <1>1, <2>2, <3>1, <3>2 DEF Lose, Holds
    <3>3. CASE FinishLost(o)
      BY <1>1, <2>2, <3>3 DEF FinishLost, Holds
    <3>4. CASE Land(o) \/ Sink(o)
      BY <1>0, <1>1, <2>2, <3>4 DEF Land, Sink, ops, Holds
    <3>5. CASE flying' = flying /\ pc'[p] # "open"
      BY <1>1, <3>5 DEF Holds
    <3>6. CASE Gate(o)
      BY <2>2, <3>5, <3>6 DEF Gate
    <3>7. CASE Start(o) \/ TurnAway(o) \/ ReadFails(o) \/ Commit(o) \/ Decide(o) \/ RecordOutcome(o)
      BY <1>0, <2>2, <3>5, <3>7 DEF Start, TurnAway, ReadFails, Commit, Decide, RecordOutcome, To
    <3>8. CASE Lease(o) \/ LeaseFails(o) \/ Rollback(o) \/ Abort(o) \/ Finish(o) \/ FinishFails(o)
      BY <1>0, <2>2, <3>5, <3>8 DEF Lease, LeaseFails, Rollback, Abort, Finish, FinishFails, To
    <3>9. CASE Closing(o) \/ Fault(o)
      BY <1>0, <2>2, <3>5, <3>9 DEF Closing, Settle, Append, Ack, Own, Fault, Leave, To
    <3> QED BY <1>3, <3>2, <3>3, <3>4, <3>6, <3>7, <3>8, <3>9 DEF StepOf, Act, Transact
  <2> QED BY <2>1, <2>2
<1>4. CASE Recovering \/ RecoverFails
  <2>1. UNCHANGED <<pc, flying>>
    BY <1>4 DEF Recovering, Scan, Recover, RecoverAppend, RecoverAck, RecoverReceipts, RecoverFails, GiveUp, ops
  <2> QED BY <1>2, <2>1
<1>5. CASE Tick \/ (\E k \in Keys : Prune(k)) \/ UNCHANGED vars
  BY <1>2, <1>5 DEF Tick, Prune, vars, ops
<1>6. CASE Crash
  <2>1. pc'[p] # "open"
    BY <1>0, <1>6 DEF Crash, Live
  <2>2. PICK F \in SUBSET {q \in Ops : pc[q] \in {"work", "record", "open"} /\ Admitted(q)} :
               flying' = [q \in Ops |-> IF q \notin F THEN flying[q]
                                        ELSE IF pc[q] = "record" THEN "record" ELSE "commit"]
    BY <1>6 DEF Crash
  <2>3. pc[p] \in {"work", "record"} => ~Native(p)
    BY DEF IInv, Sound, Phase
  <2>4. CASE p \notin F
    BY <1>1, <2>1, <2>2, <2>4 DEF Holds
  <2>5. CASE p \in F
    BY <1>1, <2>3, <2>5 DEF Holds
  <2> QED BY <2>4, <2>5
<1> QED BY <1>3, <1>4, <1>5, <1>6 DEF Next, StepOf

\* A session opens at the gate.
LEMMA Opens ==
    ASSUME IInv, [Next]_vars, NEW p \in Ops, pc'[p] = "open"
    PROVE  pc[p] = "open" \/ Gate(p)
<1>0. pc \in [Ops -> {"idle", "work", "record", "lease", "gate", "open", "abort",
                      "settle", "append", "ack", "own", "done"}]
  BY DEF IInv, TypeOK
<1>1. ASSUME NEW o \in Ops, StepOf(o) PROVE pc[p] = "open" \/ Gate(p)
  <2>1. CASE p # o
    BY <1>1, <2>1, Elsewhere DEF Aside
  <2>2. CASE p = o
    BY <1>0, <1>1, <2>2 DEF StepOf, Start, Act, TurnAway, ReadFails, Commit, Decide, RecordOutcome, Lose,
            Land, Sink, Transact, Lease, LeaseFails, Rollback, Abort, Finish, FinishLost,
            FinishFails, Closing, Settle, Append, Ack, Own, Fault, Leave, To, ops
  <2> QED BY <2>1, <2>2
<1>2. CASE Recovering \/ RecoverFails
  BY <1>2 DEF Recovering, Scan, Recover, RecoverAppend, RecoverAck, RecoverReceipts, RecoverFails, GiveUp, ops
<1>3. CASE Tick \/ (\E k \in Keys : Prune(k)) \/ UNCHANGED vars
  BY <1>3 DEF Tick, Prune, vars, ops
<1>4. CASE Crash
  BY <1>0, <1>4 DEF Crash, Live
<1> QED BY <1>1, <1>2, <1>3, <1>4 DEF Next, StepOf

\* The key of an open session stays its own.
LEMMA FreshLasts ==
    ASSUME IInv, [Next]_vars, Lasts, NEW p \in Ops, pc[p] = "open", pc'[p] = "open"
    PROVE  Fresh(p)'
<1>1. /\ Fresh(p) /\ Native(p) /\ Holds(p) /\ Key(p) \in Keys /\ req[p] \in Requests
      /\ issued[req[p]] # 0 /\ flying[p] = "none" /\ Tables
  BY Keyed DEF IInv, Sessions, Sound, Phase, Holds, Timely, InTime, Before, Tables
<1>2. req' = req /\ issued'[req[p]] = issued[req[p]] /\ \A o : Key(o)' = Key(o)
  BY <1>1 DEF Lasts, Key
<1>3. ASSUME idem'[Key(p)] = idem[Key(p)], Unacknowledged(Key(p))' => Unacknowledged(Key(p)) PROVE Fresh(p)'
  BY <1>1, <1>2, <1>3 DEF Fresh
<1>4. CASE UNCHANGED <<idem, receipts>> /\ acked \subseteq acked'
  <2>1. Unacknowledged(Key(p))' => Unacknowledged(Key(p))
    BY <1>2, <1>4 DEF Unacknowledged
  <2> QED BY <1>3, <1>4, <2>1
<1>5. ASSUME NEW o \in Ops, Commit(o) \/ RecordOutcome(o) \/ Finish(o) \/ Land(o) PROVE Fresh(p)'
  <2>1. Sends(o)
    BY <1>5, Batches
  <2>2. PICK kind \in Recorded : Apply(o, kind)
    BY <1>5, Batches
  <2>3. Key(o) # Key(p)
    <3> SUFFICES ASSUME Key(o) = Key(p) PROVE FALSE
      OBVIOUS
    <3>1. Native(o)
      BY <1>1, Keyed, RequestsAssumption DEF Tables, Key, Native
    <3>2. ~Commit(o) /\ ~RecordOutcome(o)
      BY <3>1 DEF Commit, RecordOutcome, IInv, Sound, Phase
    <3>3. Holds(o)
      BY <1>5, <3>1, <3>2 DEF Finish, Land, Holds
    <3>4. o = p
      BY <1>1, <3>3 DEF IInv, Sessions
    <3>5. Finish(o)
      BY <1>1, <1>5, <3>2, <3>4 DEF Land
    <3> QED BY <3>4, <3>5 DEF Finish, To, IInv, TypeOK
  <2>4. receipts' = receipts \cup {o} /\ acked' = acked
    BY <2>2 DEF Apply
  <2>5. idem'[Key(p)] = idem[Key(p)]
    BY <1>1, <2>2, <2>3, Keyed DEF Apply, Tables, TypeOK
  <2>6. Unacknowledged(Key(p))' => Unacknowledged(Key(p))
    BY <1>2, <2>3, <2>4 DEF Unacknowledged
  <2> QED BY <1>3, <2>5, <2>6
<1>6. ASSUME NEW k \in Keys, Prune(k) PROVE Fresh(p)'
  <2>1. Held(Key(p))
    BY <1>1 DEF Held, Holds
  <2>2. k # Key(p) /\ receipts' = receipts /\ acked' = acked /\ idem' = [idem EXCEPT ![k] = {}]
    BY <1>6, <2>1 DEF Prune
  <2>3. idem'[Key(p)] = idem[Key(p)]
    BY <1>1, <2>2 DEF Tables, TypeOK
  <2>4. Unacknowledged(Key(p))' => Unacknowledged(Key(p))
    BY <1>2, <2>2 DEF Unacknowledged
  <2> QED BY <1>3, <2>3, <2>4
<1> QED BY <1>4, <1>5, <1>6, RowMoves

\* Two sessions never hold a key, and an open one may commit.
LEMMA SessionsStep ==
    ASSUME IInv, [Next]_vars, Lasts
    PROVE  Sessions'
<1>1. req' = req /\ \A o : Key(o)' = Key(o)
  BY DEF Lasts, Key
<1>2. ASSUME NEW o \in Ops, NEW p \in Ops, Holds(o)', Holds(p)', Key(o)' = Key(p)' PROVE o = p
  <2>2. ASSUME NEW q \in Ops, NEW r \in Ops, Gate(q), Holds(r), Key(q) = Key(r) PROVE FALSE
    BY <2>2 DEF Gate, Held, Holds
  <2>3. ASSUME NEW q \in Ops, NEW r \in Ops, Gate(q), Gate(r), pc'[q] = "open", pc'[r] = "open" PROVE q = r
    <3>1. pc[r] = "gate" /\ pc \in [Ops -> {"idle", "work", "record", "lease", "gate", "open", "abort",
                         "settle", "append", "ack", "own", "done"}]
      BY <2>3 DEF Gate, IInv, TypeOK
    <3> QED BY <2>3, <3>1 DEF Gate, To
  <2>4. Holds(o) /\ Holds(p) => o = p
    BY <1>1, <1>2 DEF IInv, Sessions
  <2> QED BY <1>1, <1>2, <2>2, <2>3, <2>4, HoldsMoves
<1>3. ASSUME NEW p \in Ops, pc'[p] = "open" PROVE Fresh(p)'
  <2>1. CASE pc[p] = "open"
    BY <1>3, <2>1, FreshLasts
  <2>2. CASE Gate(p)
    <3>1. Fresh(p) /\ UNCHANGED <<req, issued, db>>
      BY <1>3, <2>2 DEF Gate, To, IInv, TypeOK
    <3> QED BY <3>1 DEF Fresh, Unacknowledged, Key, db
  <2> QED BY <1>3, <2>1, <2>2, Opens
<1> QED BY <1>2, <1>3 DEF Sessions

-----------------------------------------------------------------------------
(* The theorems.                                                           *)

\* The invariant holds at the start.
LEMMA InitInv == Init => IInv
<1> SUFFICES ASSUME Init PROVE IInv
  OBVIOUS
<1>1. TypeOK
  BY RequestsAssumption DEF Init, TypeOK, Nothing, Views, Answers, Verdicts, Recorded
<1>2. Timely /\ Rowed /\ Decisions
  BY <1>1 DEF Init, TypeOK, Timely, InTime, Rowed, Decisions, OncePerRequest
<1>3. ASSUME NEW o \in Ops PROVE Sound(o)
  BY DEF Init, Sound, Phase, Answering, Trailing, Evidence, Before
<1>4. Sessions /\ Recovers
  BY DEF Init, Sessions, Holds, Recovers
<1> QED BY <1>1, <1>2, <1>3, <1>4 DEF IInv

\* Every step keeps the invariant.
LEMMA InvStep ==
    ASSUME IInv, [Next]_vars
    PROVE  IInv'
<1>1. Lasts /\ Rowed' /\ Decisions'
  BY TablesStep
<1> QED BY <1>1, TypeStep, TimelyStep, SoundStep, SessionsStep, RecoversStep DEF IInv

\* The invariant holds in every state, whatever crashes, fails or is sent again.
THEOREM Invariant == Spec => []IInv
<1>1. IInv /\ [Next]_vars => IInv'
  BY InvStep
<1> QED BY <1>1, InitInv, PTL DEF Spec

\* The tables, the host's store, the operations and the recovery keep their types.
THEOREM TypeCorrect == Spec => []TypeOK
<1>1. IInv => TypeOK
  BY DEF IInv
<1> QED BY <1>1, Invariant, PTL

\* A request writes at most once, however often it is sent, answered, lost,
\* retried, pruned or taken over.
THEOREM WritesOnce == Spec => []OncePerRequest
<1>1. IInv => OncePerRequest
  BY DEF IInv, Decisions
<1> QED BY <1>1, Invariant, PTL

\* What a request was answered stays true of it.
THEOREM AnswersAreKept == Spec => []AnswersKept
<1>1. IInv => AnswersKept
  BY DEF IInv, Sound, Answering, AnswersKept
<1> QED BY <1>1, Invariant, PTL

\* What the host's store reports of an operation is true of its request.
THEOREM TrailIsTrue == Spec => []TrailTrue
<1>1. IInv => TrailTrue
  BY DEF IInv, Sound, Trailing, TrailTrue
<1> QED BY <1>1, Invariant, PTL

\* The revisions of what was written are in the history or in a stored event: one
\* that is not acknowledged is in the history, one that is was confirmed with them.
THEOREM EvidenceIsKept == Spec => []EvidenceKept
<1>1. IInv => EvidenceKept
  <2> SUFFICES ASSUME IInv, NEW o \in wrote PROVE o \in history \/ o \in imaged
    BY DEF EvidenceKept
  <2>1. CASE o \in acked
    BY <2>1 DEF IInv, TypeOK, Sound, Evidence
  <2>2. CASE o \notin acked
    BY <2>2 DEF IInv, Decisions, Kept
  <2> QED BY <2>1, <2>2
<1> QED BY <1>1, Invariant, PTL

\* Once a request is decided, no operation of it writes any more.
THEOREM DecisionsStand ==
    Spec => [][\A r \in Requests : Decided(r) => Decided(r)' /\ (Written(r)' <=> Written(r))]_vars
<1>1. IInv /\ [Next]_vars =>
          [\A r \in Requests : Decided(r) => Decided(r)' /\ (Written(r)' <=> Written(r))]_vars
  BY TablesStep DEF Lasts
<1> QED BY <1>1, Invariant, PTL DEF Spec
=============================================================================
