------------------------- MODULE PrivateChatProofs --------------------------
(***************************************************************************)
(* Every private message is stored once and announced once or dropped,     *)
(* for any users, messages, times and profiles that become known, whatever *)
(* the two goroutines, stops of the process and backfills do. It takes     *)
(* that no two messages share a transaction (DistinctTx), as a row is      *)
(* stored under the names, the time and the transaction.                   *)
(*                                                                         *)
(* The locks of a conversation are chosen by names that may change under a *)
(* call; what excludes two calls for one message is the lock on its sender.*)
(*                                                                         *)
(* While no profile becomes known the names do not change, the lock on the *)
(* conversation excludes what the code wants it to exclude, and the read   *)
(* model agrees with the rows: KInv and the theorems at the end.           *)
(***************************************************************************)
EXTENDS PrivateChat, TLAPS, FiniteSetTheorems

\* No transaction holds two messages.
DistinctTx == \A p, q \in Pins : TxOf[p] = TxOf[q] => p = q

Names == Users \X {"metaid", "global"}
Keys == [names : SUBSET Names, time : Nat, tx : Nat]
LockIds == ({"names", "conversation"} \X SUBSET Names) \cup ({"alias"} \X Users)

\* A message as it is stored.
IsRow(r) ==
    /\ DOMAIN r = {"pin", "from", "to", "time", "index", "confirmed"}
    /\ r.pin \in Pins /\ r.from \in Names /\ r.to \in Names /\ r.time \in Nat

PTypes ==
    /\ pc \in [Workers -> {"idle", "lock", "commit", "notify"}]
    /\ DOMAIN call = Workers /\ DOMAIN wanted = Workers /\ DOMAIN locked = Workers
    /\ DOMAIN batch = Workers
    /\ channel \in Seq(Pins) /\ pushed \in [Pins -> 0..2]
    /\ ~up => channel = <<>> /\ \A w \in Workers : pc[w] = "idle"

Calls ==
    \A w \in Workers : pc[w] # "idle" =>
        IsRow(call[w]) /\ call[w].from[1] = Sender[call[w].pin]

SenderLock(w) == <<"alias", Sender[call[w].pin]>>

\* The lock on the sender is taken last, and held until the commit.
Guarded ==
    \A w \in Workers :
        /\ pc[w] = "lock" =>
              /\ wanted[w] \in Seq(LockIds)
              /\ \/ SenderLock(w) \in locked[w]
                 \/ wanted[w] # <<>> /\ wanted[w][Len(wanted[w])] = SenderLock(w)
        /\ pc[w] = "commit" => SenderLock(w) \in locked[w]

Exclusive == \A v, w \in Workers : v # w => locked[v] \cap locked[w] = {}

\* The rows and the pin index are each other's inverse.
Indexed ==
    /\ \A k \in DOMAIN rows :
          /\ k \in Keys /\ IsRow(rows[k]) /\ k.tx = TxOf[rows[k].pin]
          /\ rows[k].pin \in DOMAIN pinIndex /\ pinIndex[rows[k].pin] = k
    /\ \A p \in DOMAIN pinIndex :
          p \in Pins /\ pinIndex[p] \in DOMAIN rows /\ rows[pinIndex[p]].pin = p

Located ==
    Ready => \A p \in DOMAIN locator : p \in DOMAIN pinIndex /\ locator[p].key = pinIndex[p]

\* What a batch was computed from is still so when it is committed.
Current(w) ==
    LET b == batch[w] p == call[w].pin
    IN  /\ IsRow(b.row) /\ b.row.pin = p
        /\ b.created = (p \notin DOMAIN pinIndex)
        /\ b.oldKey = IF p \in DOMAIN pinIndex THEN pinIndex[p] ELSE None

Loaded == \A w \in Workers : pc[w] = "commit" => Current(w)

Queued(p) == {i \in 1 .. Len(channel) : channel[i] = p}
Announcing(p) == {w \in Workers : pc[w] = "notify" /\ call[w].pin = p}

NotSeen(p) == pushed[p] = 0 /\ Queued(p) = {} /\ Announcing(p) = {} /\ p \notin dropped

\* A stored message is in one place on its way to the users.
InOnePlace(p) ==
    \/ pushed[p] = 1 /\ Queued(p) = {} /\ Announcing(p) = {} /\ p \notin dropped
    \/ pushed[p] = 0 /\ (\E i \in 1 .. Len(channel) : Queued(p) = {i}) /\ Announcing(p) = {}
         /\ p \notin dropped
    \/ pushed[p] = 0 /\ Queued(p) = {} /\ (\E w \in Workers : Announcing(p) = {w})
         /\ p \notin dropped
    \/ pushed[p] = 0 /\ Queued(p) = {} /\ Announcing(p) = {} /\ p \in dropped

Accounted ==
    \A p \in Pins : IF p \in DOMAIN pinIndex THEN InOnePlace(p) ELSE NotSeen(p)

CInv == /\ PTypes /\ Calls /\ Guarded /\ Exclusive /\ Indexed /\ Located /\ Loaded /\ Accounted

-----------------------------------------------------------------------------
(* Names, rows and keys *)

\* The two sources of pins are workers, and not the same one.
LEMMA WorkersAre == Scanner \in Workers /\ Poller \in Workers /\ Scanner # Poller
BY ChatAssumption DEF Workers

\* A new message has the form of a row and the name of its sender.
LEMMA MessageIsRow ==
    ASSUME NEW w \in Workers, NEW p \in Pins
    PROVE  /\ IsRow(Message(w, p)) /\ Message(w, p).pin = p
           /\ Message(w, p).from[1] = Sender[p]
<1>1. Sender[p] \in Users /\ Recipient[p] \in Users /\ ToForm[p] \in {"metaid", "global"}
  BY ChatAssumption
<1>2. BlockTime[p] \in Nat /\ PollTime[p] \in Nat
  BY ChatAssumption
<1> DEFINE a == <<Sender[p], "metaid">>
           b == <<Recipient[p], ToForm[p]>>
<1>3. /\ CanonicalName(a) \in Names /\ CanonicalName(a)[1] = Sender[p]
      /\ CanonicalName(b) \in Names
  BY <1>1 DEF CanonicalName, Names
<1> QED
  BY <1>2, <1>3 DEF Message, IsRow

\* The key of a row is a key, and tells its pin.
LEMMA KeyIsKey ==
    ASSUME NEW r, IsRow(r)
    PROVE  StorageKey(r) \in Keys /\ StorageKey(r).tx = TxOf[r.pin]
BY ChatAssumption DEF IsRow, StorageKey, Keys

\* No row has the key that stands for none.
LEMMA NoneIsNoKey == ASSUME CInv PROVE None \notin DOMAIN rows
BY ChatAssumption DEF CInv, Indexed, Keys, Names

\* The locks of a call end with the lock on the sender.
LEMMA LocksOf ==
    ASSUME NEW r, IsRow(r)
    PROVE  /\ Locks(r) \in Seq(LockIds) /\ Locks(r) # <<>>
           /\ Locks(r)[Len(Locks(r))] = <<"alias", r.from[1]>>
<1>1. r.from[1] \in Users
  BY DEF IsRow, Names
<1>2. ConversationOf(r) \in SUBSET Names
  <2>1. Participant(r.from) \in Names /\ Participant(r.to) \in Names
    BY DEF IsRow, Participant, Names
  <2> QED
    BY <2>1 DEF ConversationOf
<1>3. {r.from, r.to} \in SUBSET Names
  BY DEF IsRow
<1>4. /\ <<"names", {r.from, r.to}>> \in LockIds
      /\ <<"conversation", ConversationOf(r)>> \in LockIds
      /\ <<"alias", r.from[1]>> \in LockIds
  BY <1>1, <1>2, <1>3 DEF LockIds
<1>5. Locks(r) \in Seq(LockIds) /\ Len(Locks(r)) = 3 /\ Locks(r)[3] = <<"alias", r.from[1]>>
  BY <1>4 DEF Locks
<1> QED
  BY <1>5

\* What a call finds stored of its message: the row that the pin index names.
LEMMA ExistingIs ==
    ASSUME CInv, NEW r, IsRow(r)
    PROVE  /\ r.pin \in DOMAIN pinIndex =>
                 /\ Existing(r).key = pinIndex[r.pin]
                 /\ IsRow(Existing(r).row) /\ Existing(r).row.pin = r.pin
           /\ r.pin \notin DOMAIN pinIndex => Existing(r).key = None
<1> DEFINE located == Ready /\ r.pin \in DOMAIN locator
           key == IF located THEN locator[r.pin].key ELSE Get(pinIndex, r.pin, None)
           own == StorageKey(r)
<1>1. CASE r.pin \in DOMAIN pinIndex
  <2>1. key = pinIndex[r.pin]
    BY <1>1 DEF CInv, Located, Get
  <2>2. key \in DOMAIN rows /\ rows[key].pin = r.pin /\ IsRow(rows[key])
    BY <1>1, <2>1 DEF CInv, Indexed
  <2>3. Existing(r) = [key |-> key,
                       row |-> IF located
                               THEN [rows[key] EXCEPT !.index = locator[r.pin].index]
                               ELSE rows[key]]
    BY <2>2 DEF Existing
  <2>4. ASSUME NEW i PROVE LET x == [rows[key] EXCEPT !.index = i] IN IsRow(x) /\ x.pin = r.pin
    <3> HIDE DEF key
    <3> QED
      BY <2>2 DEF IsRow
  <2>5. IsRow(Existing(r).row) /\ Existing(r).row.pin = r.pin
    <3>1. Existing(r).row = IF located THEN [rows[key] EXCEPT !.index = locator[r.pin].index]
                                       ELSE rows[key]
      BY <2>3
    <3> HIDE DEF key, located
    <3> QED
      BY <2>2, <2>4, <3>1
  <2> QED
    BY <1>1, <2>1, <2>3, <2>5
<1>2. CASE r.pin \notin DOMAIN pinIndex
  <2>1. key = None
    BY <1>2 DEF CInv, Located, Get
  <2>2. key \notin DOMAIN rows
    BY <2>1, NoneIsNoKey
  <2>3. ~(own \in DOMAIN rows /\ rows[own].pin = r.pin)
    BY <1>2 DEF CInv, Indexed
  <2>4. Existing(r) = Absent
    BY <2>2, <2>3 DEF Existing
  <2> QED
    BY <1>2, <2>4 DEF Absent
<1> QED
  BY <1>1, <1>2

\* The batch of a call, computed from what is stored now.
LEMMA BatchIs ==
    ASSUME CInv, NEW r, IsRow(r)
    PROVE  LET b == BatchOf(r)
           IN  /\ IsRow(b.row) /\ b.row.pin = r.pin
               /\ b.created = (r.pin \notin DOMAIN pinIndex)
               /\ b.oldKey = IF r.pin \in DOMAIN pinIndex THEN pinIndex[r.pin] ELSE None
<1> DEFINE found == Existing(r)
<1>1. /\ r.pin \in DOMAIN pinIndex => /\ found.key = pinIndex[r.pin]
                                      /\ IsRow(found.row) /\ found.row.pin = r.pin
      /\ r.pin \notin DOMAIN pinIndex => found.key = None
  BY ExistingIs
<1>2. (found.key = None) = (r.pin \notin DOMAIN pinIndex)
  <2>1. r.pin \in DOMAIN pinIndex => pinIndex[r.pin] # None
    BY NoneIsNoKey DEF CInv, Indexed
  <2> QED
    BY <1>1, <2>1
<1>3. BatchOf(r).row = RowToSave(r, found) /\ BatchOf(r).oldKey = found.key
      /\ BatchOf(r).created = (found.key = None)
  BY DEF BatchOf
<1>4. IsRow(RowToSave(r, found)) /\ RowToSave(r, found).pin = r.pin
  <2> HIDE DEF found
  <2>1. CASE found.key = None
    <3>1. \A i : LET x == [r EXCEPT !.index = i] IN IsRow(x) /\ x.pin = r.pin
      BY DEF IsRow
    <3> QED
      BY <2>1, <3>1 DEF RowToSave
  <2>2. CASE found.key # None
    <3>1. IsRow(found.row) /\ found.row.pin = r.pin
      BY <1>1, <1>2, <2>2
    <3>2. found.row.time \in Nat
      BY <3>1 DEF IsRow
    <3>3. \A i : LET x == [r EXCEPT !.index = i, !.time = found.row.time]
                 IN  IsRow(x) /\ x.pin = r.pin
      BY <3>2 DEF IsRow
    <3> QED
      BY <2>2, <3>1, <3>3 DEF RowToSave
  <2> QED
    BY <2>1, <2>2
<1> QED
  BY <1>1, <1>2, <1>3, <1>4

-----------------------------------------------------------------------------
(* Steps that store nothing and announce nothing *)

\* Nothing is stored.
LEMMA InitCInv == InitC => CInv
<1> SUFFICES ASSUME InitC PROVE CInv
  OBVIOUS
<1> USE DEF InitC
<1>1. PTypes
  BY DEF PTypes, Workers
<1>2. Calls /\ Guarded /\ Exclusive /\ Loaded
  BY DEF Calls, Guarded, Exclusive, Loaded
<1>3. Indexed /\ Located
  BY DEF Indexed, Located, Ready, Empty
<1>4. Accounted
  <2> SUFFICES ASSUME NEW p \in Pins PROVE NotSeen(p)
    BY DEF Accounted, Empty
  <2>1. Queued(p) = {} /\ Announcing(p) = {}
    BY DEF Queued, Announcing
  <2> QED
    BY <2>1 DEF NotSeen
<1> QED
  BY <1>1, <1>2, <1>3, <1>4 DEF CInv

\* What is on its way to the users does not move.
Settled == UNCHANGED <<channel, pushed, dropped, pinIndex>>

\* A step that announces nothing and leaves Settled true keeps Accounted.
LEMMA SettledStep ==
    ASSUME CInv, Settled, \A p \in Pins : Announcing(p)' = Announcing(p)
    PROVE  Accounted'
BY DEF CInv, Accounted, Settled, InOnePlace, NotSeen, Queued

\* Nor does what is stored.
LEMMA StoredStays ==
    ASSUME CInv, UNCHANGED <<rows, pinIndex, state, locator>>
    PROVE  Indexed' /\ Located'
BY DEF CInv, Indexed, Located, Ready

\* The process starts, or a profile becomes known.
LEMMA QuietStep ==
    ASSUME CInv, StartProcess \/ \E u \in Learnable : LearnProfile(u)
    PROVE  CInv'
<1>1. /\ UNCHANGED <<rows, pinIndex, state, locator, pc, call, wanted, locked, batch>>
      /\ UNCHANGED <<channel, pushed, dropped>>
      /\ up'
  BY DEF StartProcess, LearnProfile, disk, derived, work
<1>2. PTypes'
  BY <1>1 DEF CInv, PTypes
<1>3. Calls' /\ Guarded' /\ Exclusive' /\ Loaded'
  BY <1>1 DEF CInv, Calls, Guarded, Exclusive, Loaded, Current, SenderLock
<1>4. Indexed' /\ Located'
  BY <1>1, StoredStays
<1>5. Accounted'
  BY <1>1, SettledStep DEF Settled, Announcing
<1> QED
  BY <1>2, <1>3, <1>4, <1>5 DEF CInv

\* A call begins.
LEMMA BeginStep == ASSUME CInv, NEW w \in Workers, NEW p \in Pins, Begin(w, p) PROVE CInv'
<1> DEFINE r == Message(w, p)
<1>1. /\ pc[w] = "idle" /\ pc' = [pc EXCEPT ![w] = "lock"]
      /\ call' = [call EXCEPT ![w] = r] /\ wanted' = [wanted EXCEPT ![w] = Locks(r)]
      /\ UNCHANGED <<rows, pinIndex, state, locator, locked, batch, channel, pushed, dropped, up>>
      /\ up
  BY DEF Begin, disk, derived
<1>2. IsRow(r) /\ r.pin = p /\ r.from[1] = Sender[p]
  BY MessageIsRow
<1>3. /\ Locks(r) \in Seq(LockIds) /\ Locks(r) # <<>>
      /\ Locks(r)[Len(Locks(r))] = <<"alias", r.from[1]>>
  BY <1>2, LocksOf
<1> HIDE DEF r
<1>4. PTypes'
  BY <1>1 DEF CInv, PTypes
<1>5. /\ pc'[w] = "lock" /\ call'[w] = r /\ wanted'[w] = Locks(r)
      /\ \A v \in Workers : v # w => pc'[v] = pc[v] /\ call'[v] = call[v] /\ wanted'[v] = wanted[v]
  BY <1>1 DEF CInv, PTypes
<1>6. Calls'
  BY <1>2, <1>5 DEF CInv, Calls
<1>7. Guarded'
  BY <1>1, <1>2, <1>3, <1>5 DEF CInv, Guarded, SenderLock
<1>8. Exclusive' /\ Loaded'
  BY <1>1, <1>5 DEF CInv, Exclusive, Loaded, Current
<1>9. Indexed' /\ Located'
  BY <1>1, StoredStays
<1>10. \A q \in Pins : Announcing(q)' = Announcing(q)
  BY <1>1, <1>5 DEF Announcing
<1>11. Accounted'
  BY <1>1, <1>10, SettledStep DEF Settled
<1> QED
  BY <1>4, <1>6, <1>7, <1>8, <1>9, <1>11 DEF CInv

\* What is left of a sequence ends as it did.
LEMMA LastOfTail ==
    ASSUME NEW S, NEW q \in Seq(S), q # <<>>
    PROVE  /\ Tail(q) \in Seq(S)
           /\ q[Len(q)] = Head(q) \/ (Tail(q) # <<>> /\ Tail(q)[Len(Tail(q))] = q[Len(q)])
<1>1. /\ Tail(q) \in Seq(S) /\ Len(Tail(q)) = Len(q) - 1 /\ Head(q) = q[1]
      /\ Len(q) \in Nat /\ Len(q) > 0
      /\ \A i \in 1..Len(Tail(q)) : Tail(q)[i] = q[i + 1]
  OBVIOUS
<1>2. CASE Len(q) = 1
  BY <1>1, <1>2
<1>3. CASE Len(q) > 1
  <2>1. Len(Tail(q)) \in 1..Len(Tail(q)) /\ Len(Tail(q)) + 1 = Len(q)
    BY <1>1, <1>3
  <2>2. Tail(q)[Len(Tail(q))] = q[Len(Tail(q)) + 1]
    BY <1>1, <2>1
  <2> QED
    BY <1>1, <2>1, <2>2
<1> QED
  BY <1>1, <1>2, <1>3

\* A lock is taken that the other goroutine does not hold.
LEMMA LockStep == ASSUME CInv, NEW w \in Workers, Lock(w) PROVE CInv'
<1> DEFINE q == wanted[w]
<1>1. /\ pc[w] = "lock" /\ q # <<>>
      /\ \A v \in Workers \ {w} : Head(q) \notin locked[v]
      /\ locked' = [locked EXCEPT ![w] = @ \cup {Head(q)}]
      /\ wanted' = [wanted EXCEPT ![w] = Tail(q)]
      /\ UNCHANGED <<rows, pinIndex, state, locator, pc, call, batch, channel, pushed, dropped, up>>
  BY DEF Lock, disk, derived
<1>2. /\ locked'[w] = locked[w] \cup {Head(q)} /\ wanted'[w] = Tail(q)
      /\ \A v \in Workers : v # w => locked'[v] = locked[v] /\ wanted'[v] = wanted[v]
  BY <1>1 DEF CInv, PTypes
<1>3. PTypes'
  BY <1>1 DEF CInv, PTypes
<1>4. Calls' /\ Loaded'
  BY <1>1 DEF CInv, Calls, Loaded, Current
<1>5. Guarded'
  <2> SUFFICES ASSUME NEW v \in Workers
               PROVE  /\ pc[v] = "lock" =>
                            /\ wanted'[v] \in Seq(LockIds)
                            /\ \/ SenderLock(v) \in locked'[v]
                               \/ /\ wanted'[v] # <<>>
                                  /\ wanted'[v][Len(wanted'[v])] = SenderLock(v)
                      /\ pc[v] = "commit" => SenderLock(v) \in locked'[v]
    BY <1>1 DEF Guarded, SenderLock
  <2>1. CASE v # w
    BY <1>2, <2>1 DEF CInv, Guarded
  <2>2. CASE v = w
    <3>1. q \in Seq(LockIds) /\ (SenderLock(w) \in locked[w] \/ q[Len(q)] = SenderLock(w))
      BY <1>1 DEF CInv, Guarded
    <3> DEFINE t == Tail(q)
    <3>2. /\ t \in Seq(LockIds)
          /\ q[Len(q)] = Head(q) \/ (t # <<>> /\ t[Len(t)] = q[Len(q)])
      <4> HIDE DEF q
      <4> QED
        BY <1>1, <3>1, LastOfTail
    <3>3. SenderLock(w) \in locked'[w] \/ (t # <<>> /\ t[Len(t)] = SenderLock(w))
      <4> HIDE DEF q, t
      <4> QED
        BY <1>2, <3>1, <3>2
    <3>4. pc[w] # "commit"
      BY <1>1
    <3>5. wanted'[w] = t
      BY <1>2
    <3> HIDE DEF q, t
    <3> QED
      BY <2>2, <3>2, <3>3, <3>4, <3>5
  <2> QED
    BY <2>1, <2>2
<1>6. Exclusive'
  BY <1>1, <1>2 DEF CInv, Exclusive
<1>7. Indexed' /\ Located'
  BY <1>1, StoredStays
<1>8. Accounted'
  BY <1>1, SettledStep DEF Settled, Announcing
<1> QED
  BY <1>3, <1>4, <1>5, <1>6, <1>7, <1>8 DEF CInv

\* With its locks taken a call computes its batch.
LEMMA LoadStep == ASSUME CInv, NEW w \in Workers, Load(w) PROVE CInv'
<1>1. /\ pc[w] = "lock" /\ wanted[w] = <<>> /\ pc' = [pc EXCEPT ![w] = "commit"]
      /\ batch' = [batch EXCEPT ![w] = BatchOf(call[w])]
      /\ UNCHANGED <<rows, pinIndex, state, locator, call, wanted, locked, channel, pushed,
                     dropped, up>>
  BY DEF Load, disk, derived
<1>2. /\ pc'[w] = "commit" /\ batch'[w] = BatchOf(call[w])
      /\ \A v \in Workers : v # w => pc'[v] = pc[v] /\ batch'[v] = batch[v]
  BY <1>1 DEF CInv, PTypes
<1>3. PTypes'
  BY <1>1 DEF CInv, PTypes
<1>4. Calls' /\ Exclusive'
  BY <1>1, <1>2 DEF CInv, Calls, Exclusive
<1>5. Guarded'
  BY <1>1, <1>2 DEF CInv, Guarded, SenderLock
<1>6. Loaded'
  <2>1. IsRow(call[w])
    BY <1>1 DEF CInv, Calls
  <2> DEFINE b == BatchOf(call[w])
             p == call[w].pin
  <2>2. /\ IsRow(b.row) /\ b.row.pin = p /\ b.created = (p \notin DOMAIN pinIndex)
        /\ b.oldKey = IF p \in DOMAIN pinIndex THEN pinIndex[p] ELSE None
    BY <2>1, BatchIs
  <2> HIDE DEF b
  <2> QED
    BY <1>1, <1>2, <2>2 DEF CInv, Loaded, Current, b
<1>7. Indexed' /\ Located'
  BY <1>1, StoredStays
<1>8. \A p \in Pins : Announcing(p)' = Announcing(p)
  BY <1>1, <1>2 DEF Announcing
<1>9. Accounted'
  BY <1>1, <1>8, SettledStep DEF Settled
<1> QED
  BY <1>3, <1>4, <1>5, <1>6, <1>7, <1>9 DEF CInv

\* The end of a call: it holds nothing any more.
LEMMA ReturnIs ==
    ASSUME PTypes, NEW w \in Workers, NEW step \in {"idle", "notify"}, Return(w, step)
    PROVE  /\ pc'[w] = step /\ locked'[w] = {} /\ (step = "notify" => call'[w] = call[w])
           /\ \A v \in Workers : v # w =>
                 /\ pc'[v] = pc[v] /\ call'[v] = call[v] /\ wanted'[v] = wanted[v]
                 /\ locked'[v] = locked[v] /\ batch'[v] = batch[v]
           /\ pc' \in [Workers -> {"idle", "lock", "commit", "notify"}]
           /\ DOMAIN call' = Workers /\ DOMAIN wanted' = Workers /\ DOMAIN locked' = Workers
           /\ DOMAIN batch' = Workers
BY DEF PTypes, Return

\* What a call that ends leaves of the conditions on calls and locks.
LEMMA ReturnKeeps ==
    ASSUME CInv, NEW w \in Workers, NEW step \in {"idle", "notify"}, Return(w, step),
           step = "notify" => pc[w] # "idle"
    PROVE  Calls' /\ Guarded' /\ Exclusive'
<1>1. /\ pc'[w] = step /\ locked'[w] = {} /\ (step = "notify" => call'[w] = call[w])
      /\ \A v \in Workers : v # w =>
            /\ pc'[v] = pc[v] /\ call'[v] = call[v] /\ wanted'[v] = wanted[v]
            /\ locked'[v] = locked[v] /\ batch'[v] = batch[v]
  BY ReturnIs DEF CInv
<1>2. Calls'
  BY <1>1 DEF CInv, Calls
<1>3. Guarded'
  BY <1>1 DEF CInv, Guarded, SenderLock
<1>4. Exclusive'
  BY <1>1 DEF CInv, Exclusive
<1> QED
  BY <1>2, <1>3, <1>4

\* A call is refused, or the store fails: nothing is written.
LEMMA GiveUpStep ==
    ASSUME CInv, NEW w \in Workers, Reject(w) \/ StoreFails(w)
    PROVE  CInv'
<1>1. /\ pc[w] \in {"lock", "commit"} /\ Return(w, "idle")
      /\ UNCHANGED <<rows, pinIndex, state, locator, channel, pushed, dropped, up>>
  BY DEF Reject, StoreFails, disk, derived
<1>2. /\ pc'[w] = "idle"
      /\ \A v \in Workers : v # w => pc'[v] = pc[v] /\ call'[v] = call[v] /\ batch'[v] = batch[v]
      /\ pc' \in [Workers -> {"idle", "lock", "commit", "notify"}]
      /\ DOMAIN call' = Workers /\ DOMAIN wanted' = Workers /\ DOMAIN locked' = Workers
      /\ DOMAIN batch' = Workers
  BY <1>1, ReturnIs DEF CInv
<1>3. PTypes'
  BY <1>1, <1>2 DEF CInv, PTypes
<1>4. Calls' /\ Guarded' /\ Exclusive'
  BY <1>1, ReturnKeeps
<1>5. Loaded'
  BY <1>1, <1>2 DEF CInv, Loaded, Current
<1>6. Indexed' /\ Located'
  BY <1>1, StoredStays
<1>7. \A p \in Pins : Announcing(p)' = Announcing(p)
  BY <1>1, <1>2 DEF Announcing
<1>8. Accounted'
  BY <1>1, <1>7, SettledStep DEF Settled
<1> QED
  BY <1>3, <1>4, <1>5, <1>6, <1>8 DEF CInv

-----------------------------------------------------------------------------
(* Commits and events *)

\* Calls that are about to commit are for messages of different senders.
LEMMA OneCommitPerPin ==
    ASSUME CInv, NEW v \in Workers, NEW w \in Workers, v # w, pc[v] = "commit", pc[w] = "commit"
    PROVE  call[v].pin # call[w].pin
<1>1. SenderLock(v) \in locked[v] /\ SenderLock(w) \in locked[w]
  BY DEF CInv, Guarded
<1>2. locked[v] \cap locked[w] = {}
  BY DEF CInv, Exclusive
<1>3. SenderLock(v) # SenderLock(w)
  BY <1>1, <1>2
<1> QED
  BY <1>3 DEF SenderLock

\* The batch is written: the row may move to another key.
LEMMA CommitStep == ASSUME CInv, DistinctTx, NEW w \in Workers, Commit(w) PROVE CInv'
<1> DEFINE b == batch[w]
           p == call[w].pin
           key == StorageKey(b.row)
           step == IF b.created THEN "notify" ELSE "idle"
<1>1. /\ pc[w] = "commit" /\ Return(w, step)
      /\ rows' = RowsAfter(b, key) /\ pinIndex' = Put(pinIndex, b.row.pin, key)
      /\ Ready => locator' = Put(locator, b.row.pin,
                                 [key |-> key, conv |-> b.conv, index |-> b.row.index])
      /\ UNCHANGED <<state, channel, pushed, dropped, up>>
  BY DEF Commit, WriteReadModel
<1>2. /\ IsRow(b.row) /\ b.row.pin = p /\ b.created = (p \notin DOMAIN pinIndex)
      /\ b.oldKey = IF p \in DOMAIN pinIndex THEN pinIndex[p] ELSE None
  BY <1>1 DEF CInv, Loaded, Current
<1>3. step \in {"idle", "notify"}
  OBVIOUS
<1>4. p \in Pins /\ key \in Keys /\ key.tx = TxOf[p]
  BY <1>2, KeyIsKey DEF IsRow
<1>5. /\ pc'[w] = step /\ (step = "notify" => call'[w] = call[w])
      /\ \A v \in Workers : v # w => pc'[v] = pc[v] /\ call'[v] = call[v] /\ batch'[v] = batch[v]
      /\ pc' \in [Workers -> {"idle", "lock", "commit", "notify"}]
      /\ DOMAIN call' = Workers /\ DOMAIN wanted' = Workers /\ DOMAIN locked' = Workers
      /\ DOMAIN batch' = Workers
  <2> HIDE DEF step
  <2> QED
    BY <1>1, <1>3, ReturnIs DEF CInv
<1>6. Calls' /\ Guarded' /\ Exclusive'
  <2> HIDE DEF step
  <2> QED
    BY <1>1, <1>3, ReturnKeeps
<1>7. PTypes'
  <2> HIDE DEF step
  <2> QED
    BY <1>1, <1>5 DEF CInv, PTypes
<1>8. /\ DOMAIN rows' = (DOMAIN rows \ {b.oldKey}) \cup {key}
      /\ \A k \in DOMAIN rows' : rows'[k] = IF k = key THEN b.row ELSE rows[k]
      /\ DOMAIN pinIndex' = DOMAIN pinIndex \cup {p}
      /\ \A q \in DOMAIN pinIndex' : pinIndex'[q] = IF q = p THEN key ELSE pinIndex[q]
      /\ Ready => /\ DOMAIN locator' = DOMAIN locator \cup {p}
                  /\ \A q \in DOMAIN locator' :
                        locator'[q].key = IF q = p THEN key ELSE locator[q].key
  <2>1. /\ DOMAIN rows' = (DOMAIN rows \ {b.oldKey}) \cup {key}
        /\ \A k \in DOMAIN rows' : rows'[k] = IF k = key THEN b.row ELSE rows[k]
    <3> HIDE DEF key
    <3> QED
      BY <1>1 DEF RowsAfter, Put, Without, Restrict
  <2>2. /\ DOMAIN pinIndex' = DOMAIN pinIndex \cup {p}
        /\ \A q \in DOMAIN pinIndex' : pinIndex'[q] = IF q = p THEN key ELSE pinIndex[q]
    <3> HIDE DEF key
    <3> QED
      BY <1>1, <1>2 DEF Put
  <2>3. Ready => /\ DOMAIN locator' = DOMAIN locator \cup {p}
                 /\ \A q \in DOMAIN locator' :
                       locator'[q].key = IF q = p THEN key ELSE locator[q].key
    <3> HIDE DEF key
    <3> QED
      BY <1>1, <1>2 DEF Put
  <2> QED
    BY <2>1, <2>2, <2>3
<1> HIDE DEF b, key, p
<1>9. key \in DOMAIN rows => p \in DOMAIN pinIndex /\ pinIndex[p] = key
  <2>1. key \in DOMAIN rows => rows[key].pin \in Pins /\ TxOf[rows[key].pin] = TxOf[p]
    BY <1>4 DEF CInv, Indexed, IsRow
  <2>2. key \in DOMAIN rows => rows[key].pin = p
    BY <1>4, <2>1 DEF DistinctTx
  <2> QED
    BY <2>2 DEF CInv, Indexed
<1>10. Indexed'
  <2>1. ASSUME NEW k \in DOMAIN rows'
        PROVE  /\ k \in Keys /\ IsRow(rows'[k]) /\ k.tx = TxOf[rows'[k].pin]
               /\ rows'[k].pin \in DOMAIN pinIndex' /\ pinIndex'[rows'[k].pin] = k
    <3>1. CASE k = key
      BY <1>2, <1>4, <1>8, <3>1
    <3>2. CASE k # key
      <4>1. k \in DOMAIN rows /\ k # b.oldKey /\ rows'[k] = rows[k]
        BY <1>8, <3>2
      <4>2. /\ k \in Keys /\ IsRow(rows[k]) /\ k.tx = TxOf[rows[k].pin]
            /\ rows[k].pin \in DOMAIN pinIndex /\ pinIndex[rows[k].pin] = k
        BY <4>1 DEF CInv, Indexed
      <4>3. rows[k].pin # p
        BY <1>2, <4>1, <4>2
      <4> QED
        BY <1>8, <4>1, <4>2, <4>3
    <3> QED
      BY <3>1, <3>2
  <2>2. ASSUME NEW q \in DOMAIN pinIndex'
        PROVE  q \in Pins /\ pinIndex'[q] \in DOMAIN rows' /\ rows'[pinIndex'[q]].pin = q
    <3>1. CASE q = p
      BY <1>2, <1>4, <1>8, <3>1
    <3>2. CASE q # p
      <4>1. q \in DOMAIN pinIndex /\ pinIndex'[q] = pinIndex[q]
        BY <1>8, <3>2
      <4>2. q \in Pins /\ pinIndex[q] \in DOMAIN rows /\ rows[pinIndex[q]].pin = q
        BY <4>1 DEF CInv, Indexed
      <4>3. pinIndex[q] # key
        <5>1. key \in DOMAIN rows => rows[key].pin = p
          BY <1>9 DEF CInv, Indexed
        <5> QED
          BY <3>2, <4>2, <5>1
      <4>4. pinIndex[q] # b.oldKey
        <5>1. b.oldKey \in DOMAIN rows => rows[b.oldKey].pin = p
          BY <1>2, NoneIsNoKey DEF CInv, Indexed
        <5> QED
          BY <3>2, <4>2, <5>1
      <4> QED
        BY <1>8, <4>1, <4>2, <4>3, <4>4
    <3> QED
      BY <3>1, <3>2
  <2> QED
    BY <2>1, <2>2 DEF Indexed
<1>11. Located'
  BY <1>1, <1>8 DEF CInv, Located, Ready
<1>12. Loaded'
  <2> SUFFICES ASSUME NEW v \in Workers, pc'[v] = "commit" PROVE Current(v)'
    BY DEF Loaded
  <2>1. v # w
    BY <1>5
  <2>2. pc[v] = "commit" /\ call'[v] = call[v] /\ batch'[v] = batch[v]
    BY <1>5, <2>1
  <2>3. call[v].pin # p
    BY <1>1, <2>1, <2>2, OneCommitPerPin DEF p
  <2>4. Current(v)
    BY <2>2 DEF CInv, Loaded
  <2> QED
    BY <1>8, <2>2, <2>3, <2>4 DEF Current
<1>13. Accounted'
  <2> SUFFICES ASSUME NEW q \in Pins
               PROVE  IF q \in DOMAIN pinIndex' THEN InOnePlace(q)' ELSE NotSeen(q)'
    BY DEF Accounted
  <2>1. IF q \in DOMAIN pinIndex THEN InOnePlace(q) ELSE NotSeen(q)
    BY DEF CInv, Accounted
  <2>2. UNCHANGED <<channel, pushed, dropped>> /\ Queued(q)' = Queued(q)
    BY <1>1 DEF Queued
  <2>3. CASE q # p \/ ~b.created
    <3>1. Announcing(q)' = Announcing(q)
      <4>1. ASSUME NEW v \in Workers
            PROVE  (pc'[v] = "notify" /\ call'[v].pin = q) <=> (pc[v] = "notify" /\ call[v].pin = q)
        <5>1. CASE v # w
          BY <1>5, <5>1
        <5>2. CASE v = w /\ q # p
          BY <1>1, <1>5, <2>3, <5>2 DEF p
        <5>3. CASE v = w /\ ~b.created
          BY <1>1, <1>5, <5>3
        <5> QED
          BY <2>3, <5>1, <5>2, <5>3
      <4> QED
        BY <4>1 DEF Announcing
    <3>2. q \in DOMAIN pinIndex' <=> q \in DOMAIN pinIndex
      BY <1>2, <1>8, <2>3
    <3> QED
      BY <2>1, <2>2, <3>1, <3>2 DEF InOnePlace, NotSeen
  <2>4. CASE q = p /\ b.created
    <3>1. NotSeen(q)
      BY <1>2, <2>1, <2>4
    <3>2. Announcing(q)' = {w}
      <4>1. pc'[w] = "notify" /\ call'[w].pin = q
        BY <1>5, <2>4 DEF p
      <4>2. \A v \in Workers : v # w => ~(pc[v] = "notify" /\ call[v].pin = q)
        BY <3>1 DEF NotSeen, Announcing
      <4> QED
        BY <1>5, <4>1, <4>2 DEF Announcing
    <3>3. q \in DOMAIN pinIndex'
      BY <1>8, <2>4
    <3> QED
      BY <2>2, <3>1, <3>2, <3>3 DEF InOnePlace, NotSeen
  <2> QED
    BY <2>3, <2>4
<1> QED
  BY <1>6, <1>7, <1>10, <1>11, <1>12, <1>13 DEF CInv

\* An event is put on the channel, or dropped when that is full.
LEMMA NotifyStep == ASSUME CInv, NEW w \in Workers, Notify(w) PROVE CInv'
<1> DEFINE p == call[w].pin
<1>1. /\ pc[w] = "notify" /\ Return(w, "idle")
      /\ \/ channel' = Append(channel, p) /\ dropped' = dropped
         \/ channel' = channel /\ dropped' = dropped \cup {p}
      /\ UNCHANGED <<rows, pinIndex, state, locator, pushed, up>>
  BY DEF Notify, disk, derived
<1>2. /\ pc'[w] = "idle"
      /\ \A v \in Workers : v # w => pc'[v] = pc[v] /\ call'[v] = call[v] /\ batch'[v] = batch[v]
      /\ pc' \in [Workers -> {"idle", "lock", "commit", "notify"}]
      /\ DOMAIN call' = Workers /\ DOMAIN wanted' = Workers /\ DOMAIN locked' = Workers
      /\ DOMAIN batch' = Workers
  BY <1>1, ReturnIs DEF CInv
<1>3. p \in Pins
  BY <1>1 DEF CInv, Calls, IsRow
<1>4. /\ channel \in Seq(Pins) /\ Len(channel) \in Nat
      /\ Append(channel, p) \in Seq(Pins) /\ Len(Append(channel, p)) = Len(channel) + 1
      /\ Append(channel, p)[Len(channel) + 1] = p
      /\ \A i \in 1 .. Len(channel) : Append(channel, p)[i] = channel[i]
  <2>1. channel \in Seq(Pins)
    BY DEF CInv, PTypes
  <2> HIDE DEF p
  <2> QED
    BY <1>3, <2>1
<1> HIDE DEF p
<1>5. PTypes'
  BY <1>1, <1>2, <1>4 DEF CInv, PTypes
<1>6. Calls' /\ Guarded' /\ Exclusive'
  BY <1>1, ReturnKeeps
<1>7. Loaded'
  BY <1>1, <1>2 DEF CInv, Loaded, Current
<1>8. Indexed' /\ Located'
  BY <1>1, StoredStays
<1>9. Accounted'
  <2> SUFFICES ASSUME NEW q \in Pins
               PROVE  IF q \in DOMAIN pinIndex THEN InOnePlace(q)' ELSE NotSeen(q)'
    BY <1>1 DEF Accounted
  <2>1. IF q \in DOMAIN pinIndex THEN InOnePlace(q) ELSE NotSeen(q)
    BY DEF CInv, Accounted
  <2>2. Announcing(q)' = Announcing(q) \ {w}
    BY <1>1, <1>2 DEF Announcing
  <2>3. CASE q # p
    <3>1. w \notin Announcing(q)
      BY <2>3 DEF Announcing, p
    <3>2. Queued(q)' = Queued(q) /\ (q \in dropped' <=> q \in dropped)
      <4>1. CASE channel' = channel
        BY <1>1, <2>3, <4>1 DEF Queued
      <4>2. CASE channel' = Append(channel, p)
        <5>1. \A i \in 1 .. Len(channel) + 1 : channel'[i] = q <=> i \in 1 .. Len(channel) /\ channel[i] = q
          BY <1>4, <2>3, <4>2
        <5>2. Len(channel') = Len(channel) + 1
          BY <1>4, <4>2
        <5>3. Queued(q)' = Queued(q)
          BY <1>4, <5>1, <5>2 DEF Queued
        <5> QED
          BY <1>1, <2>3, <5>3
      <4> QED
        BY <1>1, <4>1, <4>2
    <3>3. \A i \in 1 .. Len(channel) : i \in 1 .. Len(channel')
      <4>1. Len(channel') = Len(channel) \/ Len(channel') = Len(channel) + 1
        BY <1>1, <1>4
      <4> QED
        BY <1>4, <4>1
    <3>4. Announcing(q)' = Announcing(q) /\ pushed' = pushed
      BY <1>1, <2>2, <3>1
    <3> QED
      BY <2>1, <3>2, <3>3, <3>4 DEF InOnePlace, NotSeen
  <2>4. CASE q = p
    <3>1. w \in Announcing(q)
      BY <1>1, <2>4 DEF Announcing, p
    <3>2. q \in DOMAIN pinIndex /\ pushed[q] = 0 /\ Queued(q) = {} /\ q \notin dropped
          /\ Announcing(q) = {w}
      BY <2>1, <3>1 DEF InOnePlace, NotSeen
    <3>3. Announcing(q)' = {} /\ pushed'[q] = 0
      BY <1>1, <2>2, <3>2
    <3>4. CASE channel' = channel /\ dropped' = dropped \cup {p}
      <4>1. Queued(q)' = {} /\ q \in dropped'
        BY <2>4, <3>2, <3>4 DEF Queued
      <4> QED
        BY <3>2, <3>3, <4>1 DEF InOnePlace
    <3>5. CASE channel' = Append(channel, p) /\ dropped' = dropped
      <4>1. \A i \in 1 .. Len(channel) : channel[i] # q
        BY <3>2 DEF Queued
      <4>2. Len(channel') = Len(channel) + 1 /\ channel'[Len(channel) + 1] = q
            /\ \A i \in 1 .. Len(channel) : channel'[i] # q
        BY <1>4, <2>4, <3>5, <4>1
      <4>3. Queued(q)' = {Len(channel) + 1} /\ Len(channel) + 1 \in 1 .. Len(channel')
        BY <1>4, <4>2 DEF Queued
      <4> QED
        BY <3>2, <3>3, <3>5, <4>3 DEF InOnePlace
    <3> QED
      BY <1>1, <3>4, <3>5
  <2> QED
    BY <2>3, <2>4
<1> QED
  BY <1>5, <1>6, <1>7, <1>8, <1>9 DEF CInv

\* The socket layer takes the first event.
LEMMA PushStep == ASSUME CInv, Push PROVE CInv'
<1> DEFINE p == Head(channel)
<1>1. /\ channel # <<>> /\ channel' = Tail(channel) /\ up
      /\ pushed' = [pushed EXCEPT ![p] = IF @ = 2 THEN 2 ELSE @ + 1]
      /\ UNCHANGED <<rows, pinIndex, state, locator, pc, call, wanted, locked, batch, dropped, up>>
  BY DEF Push, disk, derived, work
<1>2. channel \in Seq(Pins) /\ pushed \in [Pins -> 0..2]
  BY DEF CInv, PTypes
<1>3. /\ Tail(channel) \in Seq(Pins) /\ Len(Tail(channel)) = Len(channel) - 1 /\ p = channel[1]
      /\ Len(channel) \in Nat /\ Len(channel) > 0 /\ p \in Pins
      /\ \A i \in 1 .. Len(Tail(channel)) : Tail(channel)[i] = channel[i + 1]
  BY <1>1, <1>2
<1> HIDE DEF p
<1>4. PTypes'
  <2>1. pushed' \in [Pins -> 0..2]
    <3>1. pushed[p] \in 0..2
      BY <1>2, <1>3
    <3>2. (IF pushed[p] = 2 THEN 2 ELSE pushed[p] + 1) \in 0..2
      BY <3>1
    <3> QED
      BY <1>1, <1>2, <3>2
  <2> QED
    BY <1>1, <1>3, <2>1 DEF CInv, PTypes
<1>5. Calls' /\ Guarded' /\ Exclusive' /\ Loaded'
  BY <1>1 DEF CInv, Calls, Guarded, Exclusive, Loaded, Current, SenderLock
<1>6. Indexed' /\ Located'
  BY <1>1, StoredStays
<1>7. Accounted'
  <2> SUFFICES ASSUME NEW q \in Pins
               PROVE  IF q \in DOMAIN pinIndex THEN InOnePlace(q)' ELSE NotSeen(q)'
    BY <1>1 DEF Accounted
  <2>1. IF q \in DOMAIN pinIndex THEN InOnePlace(q) ELSE NotSeen(q)
    BY DEF CInv, Accounted
  <2>2. Announcing(q)' = Announcing(q) /\ (q \in dropped' <=> q \in dropped)
    BY <1>1 DEF Announcing
  <2>3. \A i \in 1 .. Len(channel') : i + 1 \in 1 .. Len(channel) /\ channel'[i] = channel[i + 1]
    BY <1>1, <1>3
  <2>4. CASE q = p
    <3>1. 1 \in Queued(q)
      BY <1>3, <2>4 DEF Queued
    <3>2. /\ q \in DOMAIN pinIndex /\ pushed[q] = 0 /\ Queued(q) = {1} /\ q \notin dropped
          /\ Announcing(q) = {}
      BY <2>1, <3>1 DEF InOnePlace, NotSeen
    <3>3. pushed'[q] = 1
      BY <1>1, <1>2, <2>4, <3>2
    <3>4. Queued(q)' = {}
      <4>1. \A i \in 1 .. Len(channel) : channel[i] = q => i = 1
        BY <3>2 DEF Queued
      <4>2. \A i \in 1 .. Len(channel') : i + 1 # 1
        OBVIOUS
      <4>3. \A i \in 1 .. Len(channel') : channel'[i] # q
        BY <2>3, <4>1, <4>2
      <4> QED
        BY <4>3 DEF Queued
    <3> QED
      BY <2>2, <3>2, <3>3, <3>4 DEF InOnePlace
  <2>5. CASE q # p
    <3>1. pushed'[q] = pushed[q]
      BY <1>1, <1>2, <2>5
    <3>2. \A i \in 1 .. Len(channel') : i \in Queued(q)' <=> i + 1 \in Queued(q)
      BY <2>3 DEF Queued
    <3>3. \A i \in Queued(q) : i - 1 \in 1 .. Len(channel') /\ i - 1 \in Queued(q)'
      <4> SUFFICES ASSUME NEW i \in Queued(q)
                   PROVE  i - 1 \in 1 .. Len(channel') /\ i - 1 \in Queued(q)'
        OBVIOUS
      <4>1. i \in 1 .. Len(channel) /\ i # 1
        BY <1>3, <2>5 DEF Queued
      <4>2. i - 1 \in 1 .. Len(channel') /\ (i - 1) + 1 = i
        BY <1>1, <1>3, <4>1
      <4> QED
        BY <3>2, <4>2
    <3>4. Queued(q) = {} => Queued(q)' = {}
      BY <3>2 DEF Queued
    <3>5. ASSUME NEW i \in 1 .. Len(channel), Queued(q) = {i}
          PROVE  \E j \in 1 .. Len(channel') : Queued(q)' = {j}
      <4>1. i - 1 \in 1 .. Len(channel') /\ i - 1 \in Queued(q)'
        BY <3>3, <3>5
      <4>2. \A j \in Queued(q)' : j \in 1 .. Len(channel') /\ j + 1 = i
        BY <3>2, <3>5 DEF Queued
      <4>3. \A j \in Queued(q)' : j = i - 1
        BY <4>2
      <4>4. Queued(q)' = {i - 1}
        BY <4>1, <4>3
      <4> QED
        BY <4>1, <4>4
    <3> QED
      BY <2>1, <2>2, <3>1, <3>4, <3>5 DEF InOnePlace, NotSeen
  <2> QED
    BY <2>4, <2>5
<1> QED
  BY <1>4, <1>5, <1>6, <1>7 DEF CInv

\* The process stops: what was not handed over is lost.
LEMMA StopStep == ASSUME CInv, StopProcess PROVE CInv'
<1>1. /\ pc' = [w \in Workers |-> "idle"] /\ call' = [w \in Workers |-> None]
      /\ wanted' = [w \in Workers |-> <<>>] /\ locked' = [w \in Workers |-> {}]
      /\ batch' = [w \in Workers |-> None] /\ channel' = <<>>
      /\ dropped' = dropped \cup Undelivered
      /\ UNCHANGED <<rows, pinIndex, state, locator, pushed>>
  BY DEF StopProcess, disk, derived
<1>2. PTypes'
  BY <1>1 DEF CInv, PTypes
<1>3. Calls' /\ Guarded' /\ Exclusive' /\ Loaded'
  BY <1>1 DEF Calls, Guarded, Exclusive, Loaded
<1>4. Indexed' /\ Located'
  BY <1>1, StoredStays
<1>5. Accounted'
  <2> SUFFICES ASSUME NEW q \in Pins
               PROVE  IF q \in DOMAIN pinIndex THEN InOnePlace(q)' ELSE NotSeen(q)'
    BY <1>1 DEF Accounted
  <2>1. IF q \in DOMAIN pinIndex THEN InOnePlace(q) ELSE NotSeen(q)
    BY DEF CInv, Accounted
  <2>2. Queued(q)' = {} /\ Announcing(q)' = {}
    BY <1>1 DEF Queued, Announcing
  <2>3. q \in Undelivered <=> Queued(q) # {} \/ Announcing(q) # {}
    <3>1. channel \in Seq(Pins) /\ DOMAIN channel = 1 .. Len(channel)
      BY DEF CInv, PTypes
    <3>2. q \in Range(channel) <=> Queued(q) # {}
      BY <3>1 DEF Queued, Range
    <3>3. q \in {call[w].pin : w \in {v \in Workers : pc[v] = "notify"}} <=> Announcing(q) # {}
      BY DEF Announcing
    <3> QED
      BY <3>2, <3>3 DEF Undelivered
  <2> QED
    <3>1. pushed'[q] = pushed[q] /\ (q \in dropped' <=> q \in dropped \/ q \in Undelivered)
      BY <1>1
    <3>2. CASE q \in DOMAIN pinIndex
      <4>1. CASE pushed[q] = 1 /\ Queued(q) = {} /\ Announcing(q) = {} /\ q \notin dropped
        BY <2>2, <2>3, <3>1, <3>2, <4>1 DEF InOnePlace
      <4>2. CASE pushed[q] = 0 /\ (Queued(q) # {} \/ Announcing(q) # {} \/ q \in dropped)
        BY <2>2, <2>3, <3>1, <3>2, <4>2 DEF InOnePlace
      <4>3. \A x : {x} # {}
        OBVIOUS
      <4> QED
        BY <2>1, <3>2, <4>1, <4>2, <4>3 DEF InOnePlace
    <3>3. CASE q \notin DOMAIN pinIndex
      BY <2>1, <2>2, <2>3, <3>1, <3>3 DEF NotSeen
    <3> QED
      BY <3>2, <3>3
<1> QED
  BY <1>2, <1>3, <1>4, <1>5 DEF CInv

-----------------------------------------------------------------------------
(* The offline backfill *)

\* The rows that a conversation keeps are rows: a message has one row only.
LEMMA KeptAreRows == ASSUME CInv, NEW c, NEW k \in Kept(c) PROVE k \in DOMAIN rows
<1> DEFINE Fits(j, p) == /\ rows[j].pin = p
                         /\ rows[j].confirmed
                            \/ ~ \E i \in KeysOf(c) : rows[i].pin = p /\ rows[i].confirmed
<1>1. PICK p \in {rows[j].pin : j \in KeysOf(c)} : k = CHOOSE j \in KeysOf(c) : Fits(j, p)
  BY DEF Kept
<1>2. PICK j \in KeysOf(c) : rows[j].pin = p
  BY <1>1
<1>3. KeysOf(c) \subseteq DOMAIN rows
  BY DEF KeysOf
<1>4. \A i \in KeysOf(c) : rows[i].pin = p => i = j
  BY <1>2, <1>3 DEF CInv, Indexed
<1>5. Fits(j, p)
  BY <1>2, <1>4
<1>6. (CHOOSE i \in KeysOf(c) : Fits(i, p)) \in KeysOf(c)
  <2> HIDE DEF Fits
  <2> QED
    BY <1>2, <1>5
<1> QED
  BY <1>1, <1>3, <1>6

\* An entry is about the row it names.
LEMMA EntriesAreRows ==
    ASSUME CInv, NEW e \in Entries
    PROVE  e.key \in DOMAIN rows /\ e.row.pin = rows[e.key].pin
<1> DEFINE Entry(c, k) ==
       [conv |-> c, key |-> k,
        row |-> [Renamed(k) EXCEPT !.index = Cardinality({j \in Kept(c) : Before(j, k)})]]
<1>0. PICK c : \E k \in Kept(c) : e = Entry(c, k)
  BY DEF Entries
<1>1. PICK k \in Kept(c) : e = Entry(c, k)
  BY <1>0
<1>2. k \in DOMAIN rows /\ IsRow(rows[k])
  BY KeptAreRows DEF CInv, Indexed
<1>3. DOMAIN Renamed(k) = DOMAIN rows[k] /\ Renamed(k).pin = rows[k].pin
  BY <1>2 DEF Renamed, IsRow
<1>4. \A i : [Renamed(k) EXCEPT !.index = i].pin = rows[k].pin
  BY <1>2, <1>3 DEF IsRow
<1>5. e.key = k /\ e.row.pin = rows[k].pin
  BY <1>1, <1>4
<1> QED
  BY <1>2, <1>5

\* The read model is built anew, or its building is broken off.
LEMMA RebuildStep == ASSUME CInv, Backfill \/ BackfillInterrupted PROVE CInv'
<1> DEFINE stored == {e.row.pin : e \in Entries}
           entry == [p \in stored |-> CHOOSE e \in Entries : e.row.pin = p]
<1>1. /\ UNCHANGED <<rows, up, pc, call, wanted, locked, batch, channel, pushed, dropped>>
      /\ \/ /\ locator' = [p \in DOMAIN entry |->
                  [key |-> entry[p].key, conv |-> entry[p].conv, index |-> entry[p].row.index]]
            /\ pinIndex' = [p \in DOMAIN pinIndex \cup DOMAIN entry |->
                  IF p \in DOMAIN entry THEN entry[p].key ELSE pinIndex[p]]
         \/ state' = "building" /\ pinIndex' = pinIndex
  <2>1. CASE Backfill
    BY <2>1 DEF Backfill, work
  <2>2. CASE BackfillInterrupted
    BY <2>2 DEF BackfillInterrupted, work
  <2> QED
    BY <2>1, <2>2
<1>2. DOMAIN entry = stored
  OBVIOUS
<1>3. ASSUME NEW p \in stored
      PROVE  p \in DOMAIN pinIndex /\ entry[p].key = pinIndex[p]
  <2>1. entry[p] = CHOOSE e \in Entries : e.row.pin = p
    OBVIOUS
  <2>2. \E e \in Entries : e.row.pin = p
    OBVIOUS
  <2>3. entry[p] \in Entries /\ entry[p].row.pin = p
    <3> HIDE DEF entry
    <3> QED
      BY <2>1, <2>2
  <2>4. entry[p].key \in DOMAIN rows /\ rows[entry[p].key].pin = p
    <3> HIDE DEF entry
    <3> QED
      BY <2>3, EntriesAreRows
  <2> HIDE DEF entry
  <2> QED
    BY <2>4 DEF CInv, Indexed
<1> HIDE DEF entry, stored
<1>4. /\ DOMAIN pinIndex' = DOMAIN pinIndex
      /\ \A p \in DOMAIN pinIndex : pinIndex'[p] = pinIndex[p]
  <2>1. DOMAIN pinIndex \cup DOMAIN entry = DOMAIN pinIndex
    BY <1>2, <1>3
  <2> QED
    BY <1>1, <1>2, <1>3, <2>1
<1>5. PTypes'
  BY <1>1 DEF CInv, PTypes
<1>6. Calls' /\ Guarded' /\ Exclusive'
  BY <1>1 DEF CInv, Calls, Guarded, Exclusive, SenderLock
<1>7. Indexed'
  BY <1>1, <1>4 DEF CInv, Indexed
<1>8. Located'
  BY <1>1, <1>2, <1>3, <1>4 DEF Located, Ready
<1>9. Loaded'
  BY <1>1, <1>4 DEF CInv, Loaded, Current
<1>10. Accounted'
  BY <1>1, <1>4 DEF CInv, Accounted, InOnePlace, NotSeen, Queued, Announcing
<1> QED
  BY <1>5, <1>6, <1>7, <1>8, <1>9, <1>10 DEF CInv

-----------------------------------------------------------------------------
(* Each message once *)

\* Every step keeps the invariant.
LEMMA StepCInv == DistinctTx /\ CInv /\ [NextC]_cvars => CInv'
<1> SUFFICES ASSUME DistinctTx, CInv, [NextC]_cvars PROVE CInv'
  OBVIOUS
<1>1. CASE UNCHANGED cvars
  BY <1>1 DEF cvars, work, CInv, PTypes, Calls, Guarded, SenderLock, Exclusive, Indexed, Located,
              Ready, Loaded, Current, Accounted, InOnePlace, NotSeen, Queued, Announcing
<1>2. CASE NextC
  BY <1>2, QuietStep, StopStep, RebuildStep, PushStep, BeginStep, LockStep, LoadStep, GiveUpStep,
     CommitStep, NotifyStep
     DEF NextC
<1> QED
  BY <1>1, <1>2

\* The places of a message on its way to the users add up to one.
LEMMA PlacesAddUp ==
    ASSUME CInv, NEW p \in Pins
    PROVE  Occurrences(p) = IF p \in DOMAIN pinIndex THEN 1 ELSE 0
<1> DEFINE d == IF p \in dropped THEN 1 ELSE 0
<1>1. Occurrences(p) = pushed[p] + Cardinality(Queued(p)) + Cardinality(Announcing(p)) + d
  BY DEF Occurrences, Queued, Announcing
<1>2. \A x : Cardinality({x}) = 1
  BY FS_Singleton
<1>3. Cardinality({}) = 0
  BY FS_EmptySet
<1>4. IF p \in DOMAIN pinIndex THEN InOnePlace(p) ELSE NotSeen(p)
  BY DEF CInv, Accounted
<1>5. /\ Queued(p) = {} => Cardinality(Queued(p)) = 0
      /\ Announcing(p) = {} => Cardinality(Announcing(p)) = 0
      /\ \A i : Queued(p) = {i} => Cardinality(Queued(p)) = 1
      /\ \A w : Announcing(p) = {w} => Cardinality(Announcing(p)) = 1
  BY <1>2, <1>3
<1> DEFINE q == Cardinality(Queued(p))
           a == Cardinality(Announcing(p))
<1>6. IF p \in DOMAIN pinIndex
      THEN \/ pushed[p] = 1 /\ q = 0 /\ a = 0 /\ d = 0
           \/ pushed[p] = 0 /\ q = 1 /\ a = 0 /\ d = 0
           \/ pushed[p] = 0 /\ q = 0 /\ a = 1 /\ d = 0
           \/ pushed[p] = 0 /\ q = 0 /\ a = 0 /\ d = 1
      ELSE pushed[p] = 0 /\ q = 0 /\ a = 0 /\ d = 0
  BY <1>4, <1>5 DEF InOnePlace, NotSeen
<1> HIDE DEF d, q, a
<1> QED
  BY <1>1, <1>6 DEF q, a

\* However often a message is seen, by whichever goroutine, and whatever
\* profiles become known meanwhile, it has one row, to which the pin index
\* leads, and is announced once or dropped (SaveMessage, sendNotifyEvent).
THEOREM MessagesAreStoredOnce == DistinctTx => (SpecC => []EachPinOnce)
<1>1. CInv => EachPinOnce
  <2> SUFFICES ASSUME CInv PROVE EachPinOnce
    OBVIOUS
  <2>1. \A j, k \in DOMAIN rows : rows[j].pin = rows[k].pin => j = k
    BY DEF CInv, Indexed
  <2>2. \A p \in DOMAIN pinIndex : pinIndex[p] \in DOMAIN rows /\ rows[pinIndex[p]].pin = p
    BY DEF CInv, Indexed
  <2> QED
    BY <2>1, <2>2, PlacesAddUp DEF EachPinOnce
<1> SUFFICES ASSUME DistinctTx PROVE SpecC => []EachPinOnce
  OBVIOUS
<1>2. CInv /\ [NextC]_cvars => CInv'
  BY StepCInv
<1> QED
  BY <1>1, <1>2, InitCInv, PTL DEF SpecC

-----------------------------------------------------------------------------
(* The read model, while the profiles stay as they are *)

\* The names of a message, its conversation and its key then depend on nothing
\* that changes.
From(p) == <<Sender[p], "metaid">>
To(p) == <<Recipient[p], IF Recipient[p] \in Known THEN "metaid" ELSE ToForm[p]>>
Party(name) == IF name[1] \in Known THEN <<name[1], "global">> ELSE name
Conv(p) == {Party(From(p)), Party(To(p))}

Named(r) == r.from = From(r.pin) /\ r.to = To(r.pin)

\* Rows are under their own keys, and in the list of their sender.
RowsNamed ==
    /\ profiles = Known /\ DOMAIN homepage = Users
    /\ \A k \in DOMAIN rows : /\ Named(rows[k]) /\ k = StorageKey(rows[k])
                              /\ rows[k].pin \in homepage[Sender[rows[k].pin]]

CallsNamed == \A w \in Workers : pc[w] # "idle" => Named(call[w])

ConvLock(w) == <<"conversation", Conv(call[w].pin)>>

\* The lock on the conversation is taken before the sender's, and held too.
Reserved ==
    \A w \in Workers :
        /\ pc[w] = "lock" => \/ ConvLock(w) \in locked[w]
                             \/ \E i \in 1 .. Len(wanted[w]) : wanted[w][i] = ConvLock(w)
        /\ pc[w] = "commit" => ConvLock(w) \in locked[w]

NextIn(c) == Get(meta, c, NoMeta).next

\* What a batch was computed from: its conversation and its sender's list.
Fits(b, p) ==
    /\ Named(b.row) /\ b.conv = Conv(p)
    /\ b.homepage = homepage[Sender[p]] \cup {p}
    /\ p \in DOMAIN pinIndex =>
          /\ b.row.time = Row(p).time
          /\ Row(p).confirmed => b.row.confirmed
    /\ Ready =>
          /\ b.stale = {}
          /\ b.row.index = IF p \in DOMAIN pinIndex THEN locator[p].index ELSE NextIn(b.conv)
          /\ b.meta.next = IF p \in DOMAIN pinIndex THEN NextIn(b.conv) ELSE NextIn(b.conv) + 1
          /\ b.meta.count = b.meta.next
          /\ b.home = LET now == Get(home, b.conv, b.row)
                      IN  IF Later(b.row, now) THEN b.row ELSE now

Fitting == \A w \in Workers : pc[w] = "commit" => Fits(batch[w], call[w].pin)

Spot(p) == <<Conv(p), locator[p].index>>
Moment(p) == <<Conv(p), Row(p).time, locator[p].index>>
OfConv(c) == {p \in DOMAIN locator : Conv(p) = c}

\* r is what the read model has to show of p.
Shows(r, p) == /\ r.pin = p /\ r.time = Row(p).time /\ r.confirmed = Row(p).confirmed
               /\ r.index = locator[p].index

\* Each stored message has its spot, below the next one of its conversation.
Placed ==
    /\ DOMAIN locator = DOMAIN pinIndex
    /\ \A p \in DOMAIN locator :
          /\ locator[p].conv = Conv(p) /\ locator[p].index \in Nat
          /\ Conv(p) \in DOMAIN meta /\ locator[p].index < meta[Conv(p)].next
    /\ \A p, q \in DOMAIN locator : Spot(p) = Spot(q) => p = q

Shown ==
    /\ DOMAIN byIndex = {Spot(p) : p \in DOMAIN locator}
    /\ DOMAIN byTime = {Moment(p) : p \in DOMAIN locator}
    /\ \A p \in DOMAIN locator : Shows(byIndex[Spot(p)], p) /\ Shows(byTime[Moment(p)], p)

Counts ==
    \A c \in DOMAIN meta : /\ meta[c].next \in Nat /\ meta[c].count = meta[c].next
                           /\ Cardinality(OfConv(c)) = meta[c].next

\* The home snapshot is one of the conversation's, and the latest.
Homes ==
    /\ DOMAIN home = DOMAIN meta
    /\ \A p \in DOMAIN locator : Later(home[Conv(p)], byIndex[Spot(p)])
    /\ \A c \in DOMAIN meta : \E p \in OfConv(c) : home[c] = byIndex[Spot(p)]

Modelled == Ready => Placed /\ Shown /\ Counts /\ Homes

KInv == RowsNamed /\ CallsNamed /\ Reserved /\ Fitting /\ Modelled

-----------------------------------------------------------------------------
(* Calls *)

\* A message gets the names that its pin determines.
LEMMA NamesAre ==
    ASSUME profiles = Known
    PROVE  /\ \A w \in Workers, p \in Pins : Named(Message(w, p)) /\ Message(w, p).pin = p
           /\ \A p : CanonicalName(From(p)) = From(p) /\ CanonicalName(To(p)) = To(p)
           /\ \A r : Named(r) => ConversationOf(r) = Conv(r.pin)
<1>1. \A p : CanonicalName(From(p)) = From(p)
  BY DEF CanonicalName, From
<1>2. \A p : CanonicalName(To(p)) = To(p)
  BY DEF CanonicalName, To
<1>3. \A p : CanonicalName(<<Recipient[p], ToForm[p]>>) = To(p)
  BY DEF CanonicalName, To
<1>4. ASSUME NEW w \in Workers, NEW p \in Pins
      PROVE  Named(Message(w, p)) /\ Message(w, p).pin = p
  BY <1>1, <1>3 DEF Message, Named, From
<1>5. ASSUME NEW r, Named(r) PROVE ConversationOf(r) = Conv(r.pin)
  BY <1>5 DEF Named, ConversationOf, Conv, Participant, Party
<1> QED
  BY <1>1, <1>2, <1>4, <1>5

\* Nothing that is stored changes, and no profile.
Still == UNCHANGED <<disk, profiles>>

\* What is stored keeps its form then, and a batch goes on fitting it.
LEMMA StillStep ==
    ASSUME KInv, Still
    PROVE  /\ RowsNamed' /\ Modelled'
           /\ \A b, p : Fits(b, p) => Fits(b, p)'
<1>1. /\ rows' = rows /\ pinIndex' = pinIndex /\ state' = state /\ byIndex' = byIndex
      /\ byTime' = byTime /\ meta' = meta /\ locator' = locator /\ home' = home
      /\ homepage' = homepage /\ profiles' = profiles
  BY DEF Still, disk, derived
<1>2. RowsNamed'
  BY <1>1 DEF KInv, RowsNamed, Named, StorageKey
<1>3. Modelled'
  <2>1. Placed => Placed'
    BY <1>1 DEF Placed, Spot
  <2>2. Shown => Shown'
    BY <1>1 DEF Shown, Spot, Moment, Shows, Row
  <2>3. Counts => Counts'
    BY <1>1 DEF Counts, OfConv
  <2>4. Homes => Homes'
    BY <1>1 DEF Homes, Spot, OfConv, Later
  <2> QED
    BY <1>1, <2>1, <2>2, <2>3, <2>4 DEF KInv, Modelled, Ready
<1>4. ASSUME NEW b, NEW p, Fits(b, p) PROVE Fits(b, p)'
  BY <1>1, <1>4 DEF Fits, Named, Ready, NextIn, Get, Row, Later
<1> QED
  BY <1>2, <1>3, <1>4

\* Calls that end or go on as they were.
LEMMA CallsStep ==
    ASSUME CInv, KInv, Still,
           \A w \in Workers :
              \/ pc'[w] = "idle"
              \/ pc'[w] = "notify" /\ pc[w] # "idle" /\ call'[w] = call[w]
              \/ /\ pc'[w] = pc[w] /\ call'[w] = call[w] /\ wanted'[w] = wanted[w]
                 /\ locked'[w] = locked[w] /\ batch'[w] = batch[w]
    PROVE  KInv'
<1>1. CallsNamed'
  BY DEF KInv, CallsNamed, Named
<1>2. Reserved'
  BY DEF KInv, Reserved, ConvLock
<1>3. Fitting'
  BY StillStep DEF KInv, Fitting
<1> QED
  BY <1>1, <1>2, <1>3, StillStep DEF KInv

\* A call begins: its locks are those of its conversation.
LEMMA BeginKeeps ==
    ASSUME CInv, KInv, NEW w \in Workers, NEW p \in Pins, Begin(w, p)
    PROVE  KInv'
<1> DEFINE r == Message(w, p)
<1>1. /\ pc' = [pc EXCEPT ![w] = "lock"]
      /\ call' = [call EXCEPT ![w] = r] /\ wanted' = [wanted EXCEPT ![w] = Locks(r)]
      /\ Still /\ locked' = locked /\ batch' = batch
  BY DEF Begin, Still
<1>2. profiles = Known
  BY DEF KInv, RowsNamed
<1>3. IsRow(r) /\ r.pin = p /\ Named(r) /\ ConversationOf(r) = Conv(p)
  BY <1>2, MessageIsRow, NamesAre
<1>4. Len(Locks(r)) = 3 /\ Locks(r)[2] = <<"conversation", Conv(p)>>
  BY <1>3 DEF Locks
<1> HIDE DEF r
<1>5. /\ pc'[w] = "lock" /\ call'[w] = r /\ wanted'[w] = Locks(r)
      /\ \A v \in Workers : v # w => pc'[v] = pc[v] /\ call'[v] = call[v] /\ wanted'[v] = wanted[v]
  BY <1>1 DEF CInv, PTypes
<1>6. CallsNamed'
  BY <1>3, <1>5 DEF KInv, CallsNamed, Named
<1>7. Reserved'
  <2>1. \E i \in 1 .. Len(wanted'[w]) : wanted'[w][i] = <<"conversation", Conv(call'[w].pin)>>
    <3>1. 2 \in 1 .. Len(wanted'[w])
      BY <1>4, <1>5
    <3> QED
      BY <1>3, <1>4, <1>5, <3>1
  <2>2. ASSUME NEW v \in Workers, v # w
        PROVE  /\ pc'[v] = "lock" =>
                     \/ ConvLock(v) \in locked[v]
                     \/ \E i \in 1 .. Len(wanted[v]) : wanted[v][i] = ConvLock(v)
               /\ pc'[v] = "commit" => ConvLock(v) \in locked[v]
    BY <1>5, <2>2 DEF KInv, Reserved
  <2>3. ASSUME NEW v \in Workers
        PROVE  /\ pc'[v] = "lock" =>
                     \/ ConvLock(v)' \in locked'[v]
                     \/ \E i \in 1 .. Len(wanted'[v]) : wanted'[v][i] = ConvLock(v)'
               /\ pc'[v] = "commit" => ConvLock(v)' \in locked'[v]
    <3>1. CASE v = w
      BY <1>5, <2>1, <3>1 DEF ConvLock
    <3>2. CASE v # w
      <4>1. ConvLock(v)' = ConvLock(v) /\ wanted'[v] = wanted[v] /\ locked'[v] = locked[v]
        BY <1>1, <1>5, <3>2 DEF ConvLock
      <4> QED
        BY <2>2, <3>2, <4>1
    <3> QED
      BY <3>1, <3>2
  <2> QED
    BY <2>3 DEF Reserved
<1>8. Fitting'
  BY <1>1, <1>5, StillStep DEF KInv, Fitting
<1> QED
  BY <1>1, <1>6, <1>7, <1>8, StillStep DEF KInv

\* A lock is taken: the head of those still wanted.
LEMMA LockKeeps ==
    ASSUME CInv, KInv, NEW w \in Workers, Lock(w)
    PROVE  KInv'
<1> DEFINE q == wanted[w]
<1>1. /\ pc[w] = "lock" /\ q # <<>>
      /\ locked' = [locked EXCEPT ![w] = @ \cup {Head(q)}]
      /\ wanted' = [wanted EXCEPT ![w] = Tail(q)]
      /\ Still /\ pc' = pc /\ call' = call /\ batch' = batch
  BY DEF Lock, Still
<1>2. /\ locked'[w] = locked[w] \cup {Head(q)} /\ wanted'[w] = Tail(q)
      /\ \A v \in Workers : v # w => locked'[v] = locked[v] /\ wanted'[v] = wanted[v]
  BY <1>1 DEF CInv, PTypes
<1>3. q \in Seq(LockIds)
  BY <1>1 DEF CInv, Guarded
<1>4. ASSUME NEW x, \E i \in 1 .. Len(q) : q[i] = x
      PROVE  x = Head(q) \/ \E i \in 1 .. Len(Tail(q)) : Tail(q)[i] = x
  <2>1. PICK i \in 1 .. Len(q) : q[i] = x
    BY <1>4
  <2> HIDE DEF q
  <2>2. /\ Len(q) \in Nat /\ Len(Tail(q)) = Len(q) - 1 /\ Head(q) = q[1]
        /\ \A j \in 1 .. Len(Tail(q)) : Tail(q)[j] = q[j + 1]
    BY <1>1, <1>3
  <2>3. CASE i = 1
    BY <2>1, <2>2, <2>3
  <2>4. CASE i # 1
    <3>1. i - 1 \in 1 .. Len(Tail(q)) /\ (i - 1) + 1 = i
      BY <2>2, <2>4
    <3>2. Tail(q)[i - 1] = q[(i - 1) + 1]
      BY <2>2, <3>1
    <3> QED
      BY <2>1, <3>1, <3>2
  <2> QED
    BY <2>3, <2>4
<1> HIDE DEF q
<1>5. Reserved'
  <2> SUFFICES ASSUME NEW v \in Workers
               PROVE  /\ pc[v] = "lock" =>
                            \/ ConvLock(v) \in locked'[v]
                            \/ \E i \in 1 .. Len(wanted'[v]) : wanted'[v][i] = ConvLock(v)
                      /\ pc[v] = "commit" => ConvLock(v) \in locked'[v]
    BY <1>1 DEF Reserved, ConvLock
  <2>1. CASE v # w
    BY <1>2, <2>1 DEF KInv, Reserved
  <2>2. CASE v = w
    <3>1. \/ ConvLock(w) \in locked[w]
          \/ \E i \in 1 .. Len(q) : q[i] = ConvLock(w)
      BY <1>1 DEF KInv, Reserved, q
    <3> DEFINE x == ConvLock(w)
    <3>2. x \in locked[w] \/ x = Head(q) \/ \E i \in 1 .. Len(Tail(q)) : Tail(q)[i] = x
      BY <1>4, <3>1
    <3> HIDE DEF x
    <3>3. \/ x \in locked'[w]
          \/ \E i \in 1 .. Len(wanted'[w]) : wanted'[w][i] = x
      BY <1>2, <3>2
    <3> QED
      BY <1>1, <2>2, <3>3 DEF x
  <2> QED
    BY <2>1, <2>2
<1>6. CallsNamed' /\ Fitting'
  BY <1>1, StillStep DEF KInv, CallsNamed, Named, Fitting
<1> QED
  BY <1>1, <1>5, <1>6, StillStep DEF KInv

\* The row that a call of this message will write.
LEMMA BatchFits ==
    ASSUME CInv, KInv, NEW r, IsRow(r), Named(r)
    PROVE  Fits(BatchOf(r), r.pin)
<1> DEFINE p == r.pin
           c == Conv(p)
           found == Existing(r)
           b == BatchOf(r)
           stored == p \in DOMAIN pinIndex
<1>1. profiles = Known /\ (\A x : Named(x) => ConversationOf(x) = Conv(x.pin))
  BY NamesAre DEF KInv, RowsNamed
<1>2. found.key = None <=> ~stored
  <2>1. stored => pinIndex[p] # None
    BY NoneIsNoKey DEF CInv, Indexed
  <2> QED
    BY <2>1, ExistingIs
<1>3. ASSUME stored
      PROVE  /\ IsRow(found.row) /\ found.row.pin = p /\ Named(found.row)
             /\ found.row.time = Row(p).time /\ found.row.confirmed = Row(p).confirmed
             /\ Ready => found.row.index = locator[p].index
  <2> DEFINE located == Ready /\ p \in DOMAIN locator
             key == IF located THEN locator[p].key ELSE Get(pinIndex, p, None)
  <2>1. key = pinIndex[p] /\ key \in DOMAIN rows
    BY <1>3 DEF CInv, Located, Get, Indexed
  <2>2. IsRow(rows[key]) /\ rows[key].pin = p /\ Named(rows[key]) /\ rows[key] = Row(p)
    BY <1>3, <2>1 DEF CInv, Indexed, KInv, RowsNamed, Row
  <2>3. found.row = IF located THEN [rows[key] EXCEPT !.index = locator[p].index] ELSE rows[key]
    BY <2>1 DEF Existing
  <2>4. Ready => located
    BY <1>3 DEF KInv, Modelled, Placed
  <2> HIDE DEF key, located
  <2>5. \A i : LET x == [rows[key] EXCEPT !.index = i]
               IN  /\ IsRow(x) /\ x.pin = p /\ Named(x) /\ x.index = i
                   /\ x.time = rows[key].time /\ x.confirmed = rows[key].confirmed
    BY <2>2 DEF IsRow, Named
  <2> QED
    BY <2>2, <2>3, <2>4, <2>5
<1>4. /\ b.row = RowToSave(r, found) /\ b.conv = ConversationOf(b.row)
      /\ b.homepage = homepage[b.row.from[1]] \cup {b.row.pin}
      /\ b.meta = MetaAfter(b.row, found.key = None)
      /\ b.stale = IF found.key = None THEN {}
                   ELSE {<<ConversationOf(found.row), found.row.time, found.row.index>>}
                        \ {<<b.conv, b.row.time, b.row.index>>}
      /\ b.home = IF Later(b.row, Get(home, b.conv, b.row)) THEN b.row
                  ELSE Get(home, b.conv, b.row)
  BY Zenon DEF BatchOf
<1> HIDE DEF b, found
<1>5. /\ Named(b.row) /\ b.row.pin = p
      /\ stored => /\ b.row.time = found.row.time /\ b.row.index = found.row.index
                   /\ found.row.confirmed => b.row.confirmed
      /\ ~stored => b.row.index = IF Ready THEN Get(meta, ConversationOf(r), NoMeta).next
                                  ELSE LegacyNextIndex(r)
  <2>1. CASE ~stored
    <3>1. b.row = [r EXCEPT !.index = IF Ready THEN Get(meta, ConversationOf(r), NoMeta).next
                                      ELSE LegacyNextIndex(r)]
      BY <1>2, <1>4, <2>1 DEF RowToSave
    <3>2. \A i : LET x == [r EXCEPT !.index = i] IN Named(x) /\ x.pin = p /\ x.index = i
      BY DEF Named, IsRow
    <3> QED
      BY <2>1, <3>1, <3>2
  <2>2. CASE stored
    <3>1. b.row = IF found.row.confirmed \/ ~r.confirmed THEN found.row
                  ELSE [r EXCEPT !.index = found.row.index, !.time = found.row.time]
      BY <1>2, <1>4, <2>2 DEF RowToSave
    <3>3. CASE found.row.confirmed \/ ~r.confirmed
      <4>1. b.row = found.row
        BY <3>1, <3>3
      <4> QED
        BY <1>3, <2>2, <4>1
    <3>4. CASE ~(found.row.confirmed \/ ~r.confirmed)
      <4>1. b.row = [r EXCEPT !.index = found.row.index, !.time = found.row.time]
        BY <3>1, <3>4
      <4>2. /\ Named(b.row) /\ b.row.pin = p
            /\ b.row.time = found.row.time /\ b.row.index = found.row.index
        <5> DEFINE i == found.row.index
                   t == found.row.time
                   x == [r EXCEPT !.index = i, !.time = t]
        <5> HIDE DEF i, t
        <5>1. Named(x) /\ x.pin = p /\ x.index = i /\ x.time = t
          BY DEF Named, IsRow
        <5>2. b.row = x
          BY <4>1 DEF i, t
        <5> HIDE DEF x
        <5> QED
          BY <5>1, <5>2 DEF i, t
      <4>3. found.row.confirmed => b.row.confirmed
        BY <3>4, Zenon
      <4> QED
        BY <2>2, <4>2, <4>3, Zenon
    <3> QED
      BY <3>3, <3>4
  <2> QED
    BY <2>1, <2>2
<1>6. b.conv = c /\ ConversationOf(r) = c /\ b.homepage = homepage[Sender[p]] \cup {p}
  BY <1>1, <1>4, <1>5 DEF Named, From
<1>7. stored => b.row.time = Row(p).time /\ (Row(p).confirmed => b.row.confirmed)
  BY <1>3, <1>5
<1>8. ASSUME Ready
      PROVE  /\ b.stale = {}
             /\ b.row.index = IF stored THEN locator[p].index ELSE NextIn(c)
  <2>1. CASE ~stored
    BY <1>2, <1>4, <1>5, <1>6, <1>8, <2>1 DEF NextIn
  <2>2. CASE stored
    BY <1>1, <1>3, <1>4, <1>5, <1>6, <1>8, <2>2
  <2> QED
    BY <2>1, <2>2
<1>9. ASSUME Ready
      PROVE  /\ b.meta.next = IF stored THEN NextIn(c) ELSE NextIn(c) + 1
             /\ b.meta.count = b.meta.next
  <2> DEFINE old == Get(meta, c, NoMeta)
  <2>1. old.next \in Nat /\ old.count = old.next
    BY <1>9 DEF KInv, Modelled, Counts, Get, NoMeta
  <2>2. /\ b.meta.next = old.next + (IF found.key = None THEN 1 ELSE 0)
        /\ b.meta.count = old.count + (IF found.key = None THEN 1 ELSE 0)
    BY <1>1, <1>4, <1>5, <1>6 DEF MetaAfter
  <2> QED
    BY <1>2, <2>1, <2>2 DEF NextIn
<1> QED
  BY <1>4, <1>5, <1>6, <1>7, <1>8, <1>9 DEF Fits, b

\* With its locks taken a call computes its batch.
LEMMA LoadKeeps ==
    ASSUME CInv, KInv, NEW w \in Workers, Load(w)
    PROVE  KInv'
<1>1. /\ pc[w] = "lock" /\ wanted[w] = <<>> /\ pc' = [pc EXCEPT ![w] = "commit"]
      /\ batch' = [batch EXCEPT ![w] = BatchOf(call[w])]
      /\ Still /\ call' = call /\ wanted' = wanted /\ locked' = locked
  BY DEF Load, Still
<1>2. /\ pc'[w] = "commit" /\ batch'[w] = BatchOf(call[w])
      /\ \A v \in Workers : v # w => pc'[v] = pc[v] /\ batch'[v] = batch[v]
  BY <1>1 DEF CInv, PTypes
<1>3. IsRow(call[w]) /\ Named(call[w])
  BY <1>1 DEF CInv, Calls, KInv, CallsNamed
<1>4. Fits(batch'[w], call[w].pin)
  BY <1>2, <1>3, BatchFits
<1>5. Fitting'
  BY <1>1, <1>2, <1>4, StillStep DEF KInv, Fitting
<1>6. CallsNamed'
  BY <1>1, <1>2, <1>3 DEF KInv, CallsNamed, Named
<1>7. ConvLock(w) \in locked[w]
  <2>1. ~\E i \in 1 .. Len(wanted[w]) : wanted[w][i] = ConvLock(w)
    BY <1>1
  <2> QED
    BY <1>1, <2>1 DEF KInv, Reserved
<1>8. Reserved'
  BY <1>1, <1>2, <1>7 DEF KInv, Reserved, ConvLock
<1> QED
  BY <1>1, <1>5, <1>6, <1>8, StillStep DEF KInv

\* A call ends without a write, events move, the process starts or stops.
LEMMA OthersKeep ==
    ASSUME CInv, KInv,
           \/ \E w \in Workers : Reject(w) \/ StoreFails(w) \/ Notify(w)
           \/ StartProcess \/ StopProcess \/ Push \/ UNCHANGED cvars
    PROVE  KInv'
<1>1. CASE \E w \in Workers : Reject(w) \/ StoreFails(w) \/ Notify(w)
  <2>1. PICK w \in Workers : Reject(w) \/ StoreFails(w) \/ Notify(w)
    BY <1>1
  <2>2. Return(w, "idle") /\ Still
    BY <2>1 DEF Reject, StoreFails, Notify, Still
  <2>3. PTypes
    BY DEF CInv
  <2> QED
    BY <2>2, <2>3, ReturnIs, CallsStep
<1>2. CASE StartProcess \/ Push \/ UNCHANGED cvars
  <2>1. Still /\ pc' = pc /\ UNCHANGED <<call, wanted, locked, batch>>
    BY <1>2 DEF StartProcess, Push, cvars, Still, disk, derived, work
  <2> QED
    BY <2>1, CallsStep
<1>3. CASE StopProcess
  <2>1. Still /\ \A w \in Workers : pc'[w] = "idle"
    BY <1>3 DEF StopProcess, Still
  <2> QED
    BY <2>1, CallsStep
<1> QED
  BY <1>1, <1>2, <1>3

\* The order of the messages of a conversation is total.
Timed(r) == r.time \in Nat /\ r.index \in Nat

\* Any two messages of a conversation compare, and an order of three carries over.
LEMMA LaterOrder ==
    /\ \A r : Timed(r) => Later(r, r)
    /\ \A r, s : Timed(r) /\ Timed(s) => Later(r, s) \/ Later(s, r)
    /\ \A r, s, u : Timed(r) /\ Timed(s) /\ Timed(u) /\ Later(r, s) /\ Later(s, u) => Later(r, u)
BY DEF Timed, Later

-----------------------------------------------------------------------------
(* Writes *)

\* The rows, the pin index and the homepage list with a batch for a message p in them.
Saved(b, p) ==
    /\ Fits(b, p) /\ IsRow(b.row) /\ b.row.pin = p /\ p \in Pins
    /\ DOMAIN pinIndex' = DOMAIN pinIndex \cup {p}
    /\ Row(p)' = b.row
    /\ \A q \in DOMAIN pinIndex : q # p => Row(q)' = Row(q)
    /\ DOMAIN homepage' = Users
    /\ homepage'[Sender[p]] = homepage[Sender[p]] \cup {p}
    /\ \A u \in Users : u # Sender[p] => homepage'[u] = homepage[u]

\* A commit saves its batch, and rows stay named as they are.
LEMMA CommitRows ==
    ASSUME CInv, CInv', KInv, NEW w \in Workers, Commit(w),
           NEW b, b = batch[w], NEW p, p = call[w].pin
    PROVE  Saved(b, p) /\ RowsNamed'
<1> DEFINE key == StorageKey(b.row)
<1>1. /\ rows' = RowsAfter(b, key) /\ pinIndex' = Put(pinIndex, b.row.pin, key)
      /\ homepage' = [homepage EXCEPT ![b.row.from[1]] = b.homepage]
      /\ profiles' = profiles /\ pc[w] = "commit"
  BY DEF Commit
<1>2. IsRow(b.row) /\ b.row.pin = p
  BY <1>1 DEF CInv, Loaded, Current
<1>3. Fits(b, p) /\ p \in Pins
  BY <1>1, <1>2 DEF KInv, Fitting, IsRow
<1>4. b.row.from[1] = Sender[p] /\ Sender[p] \in Users /\ Named(b.row)
  <2>1. Named(b.row)
    BY <1>3 DEF Fits
  <2> QED
    BY <1>2, <1>3, <2>1, ChatAssumption DEF Named, From
<1>5. /\ \A k \in DOMAIN rows' : rows'[k] = IF k = key THEN b.row ELSE rows[k]
      /\ \A k \in DOMAIN rows' : k = key \/ k \in DOMAIN rows
      /\ DOMAIN pinIndex' = DOMAIN pinIndex \cup {p}
      /\ \A q \in DOMAIN pinIndex' : pinIndex'[q] = IF q = p THEN key ELSE pinIndex[q]
      /\ key \in DOMAIN rows'
  <2> HIDE DEF key
  <2>1. /\ DOMAIN rows' = (DOMAIN rows \ {b.oldKey}) \cup {key}
        /\ \A k \in DOMAIN rows' : rows'[k] = IF k = key THEN b.row ELSE rows[k]
    BY <1>1 DEF RowsAfter, Put, Without, Restrict
  <2>2. /\ DOMAIN pinIndex' = DOMAIN pinIndex \cup {p}
        /\ \A q \in DOMAIN pinIndex' : pinIndex'[q] = IF q = p THEN key ELSE pinIndex[q]
    BY <1>1, <1>2 DEF Put
  <2> QED
    BY <2>1, <2>2
<1>6. /\ DOMAIN homepage' = Users /\ homepage'[Sender[p]] = homepage[Sender[p]] \cup {p}
      /\ \A u \in Users : u # Sender[p] => homepage'[u] = homepage[u]
  BY <1>1, <1>3, <1>4 DEF KInv, RowsNamed, Fits
<1>7. Row(p)' = b.row
  BY <1>5 DEF Row
<1>8. ASSUME NEW q \in DOMAIN pinIndex, q # p PROVE Row(q)' = Row(q)
  <2>1. q \in DOMAIN pinIndex' /\ pinIndex'[q] = pinIndex[q]
    BY <1>5, <1>8
  <2>2. pinIndex'[q] \in DOMAIN rows' /\ rows'[pinIndex'[q]].pin = q
    BY <2>1 DEF CInv, Indexed
  <2>3. pinIndex'[q] # key
    BY <1>2, <1>5, <1>8, <2>2
  <2> QED
    BY <1>5, <2>1, <2>2, <2>3 DEF Row
<1>9. RowsNamed'
  <2>1. profiles' = Known
    BY <1>1 DEF KInv, RowsNamed
  <2>2. ASSUME NEW k \in DOMAIN rows'
        PROVE  /\ Named(rows'[k]) /\ k = StorageKey(rows'[k])
               /\ rows'[k].pin \in homepage'[Sender[rows'[k].pin]]
    <3>1. CASE k = key
      BY <1>2, <1>4, <1>5, <1>6, <3>1 DEF key
    <3>2. CASE k # key
      <4>1. k \in DOMAIN rows /\ rows'[k] = rows[k]
        BY <1>5, <3>2
      <4>2. Named(rows[k]) /\ k = StorageKey(rows[k]) /\ rows[k].pin \in homepage[Sender[rows[k].pin]]
        BY <4>1 DEF KInv, RowsNamed
      <4>3. rows[k].pin \in Pins
        BY <4>1 DEF CInv, Indexed, IsRow
      <4>4. Sender[rows[k].pin] \in Users
        BY <4>3, ChatAssumption
      <4> QED
        BY <1>6, <4>1, <4>2, <4>4
    <3> QED
      BY <3>1, <3>2
  <2>3. \A k \in DOMAIN rows' : Named(rows'[k]) <=> Named(rows[k])'
    BY DEF Named
  <2> QED
    BY <1>6, <2>1, <2>2, <2>3 DEF RowsNamed, Named, StorageKey
<1> QED
  BY <1>2, <1>3, <1>5, <1>6, <1>7, <1>8, <1>9 DEF Saved

\* The entries of a batch for a message p, at position i of conversation c with time t.
Written(b, p, c, i, t) ==
    /\ DOMAIN locator' = DOMAIN locator \cup {p}
    /\ locator'[p].conv = c /\ locator'[p].index = i
    /\ \A q \in DOMAIN locator : q # p => locator'[q] = locator[q]
    /\ DOMAIN meta' = DOMAIN meta \cup {c}
    /\ meta'[c] = b.meta /\ \A d \in DOMAIN meta : d # c => meta'[d] = meta[d]
    /\ DOMAIN home' = DOMAIN home \cup {c}
    /\ home'[c] = b.home /\ \A d \in DOMAIN home : d # c => home'[d] = home[d]
    /\ DOMAIN byIndex' = DOMAIN byIndex \cup {<<c, i>>} /\ byIndex'[<<c, i>>] = b.row
    /\ \A x \in DOMAIN byIndex : x # <<c, i>> => byIndex'[x] = byIndex[x]
    /\ DOMAIN byTime' = DOMAIN byTime \cup {<<c, t, i>>} /\ byTime'[<<c, t, i>>] = b.row
    /\ \A x \in DOMAIN byTime : x # <<c, t, i>> => byTime'[x] = byTime[x]

\* What a commit makes of the read model.
LEMMA CommitModel ==
    ASSUME CInv, CInv', KInv, NEW w \in Workers, Commit(w), Ready,
           NEW b, b = batch[w], NEW p, p = call[w].pin,
           NEW c, c = Conv(p), NEW i, i = b.row.index, NEW t, t = b.row.time
    PROVE  Written(b, p, c, i, t)
<1> DEFINE key == StorageKey(b.row)
<1>0. pc[w] = "commit"
  BY DEF Commit
<1>1. Fits(b, p) /\ b.row.pin = p
  BY <1>0 DEF CInv, Loaded, Current, KInv, Fitting
<1>2. b.conv = c /\ b.stale = {}
  BY <1>1 DEF Fits
<1>3. WriteReadModel(b, key)
  BY DEF Commit
<1> HIDE DEF key
<1>4. /\ byIndex' = Put(Without(byIndex, {}), <<c, i>>, b.row)
      /\ byTime' = Put(Without(byTime, {}), <<c, t, i>>, b.row)
      /\ meta' = Put(meta, c, b.meta)
      /\ locator' = Put(locator, p, [key |-> key, conv |-> c, index |-> i])
      /\ home' = Put(home, c, b.home)
  <2>1. {<<s[1], s[3]>> : s \in b.stale} = {}
    BY <1>2
  <2> QED
    BY <1>1, <1>2, <1>3, <2>1 DEF WriteReadModel
<1>7. /\ DOMAIN byIndex' = DOMAIN byIndex \cup {<<c, i>>} /\ byIndex'[<<c, i>>] = b.row
      /\ \A x \in DOMAIN byIndex : x # <<c, i>> => byIndex'[x] = byIndex[x]
  BY <1>4 DEF Put, Without, Restrict
<1>8. /\ DOMAIN byTime' = DOMAIN byTime \cup {<<c, t, i>>} /\ byTime'[<<c, t, i>>] = b.row
      /\ \A x \in DOMAIN byTime : x # <<c, t, i>> => byTime'[x] = byTime[x]
  BY <1>4 DEF Put, Without, Restrict
<1>9. /\ DOMAIN meta' = DOMAIN meta \cup {c}
      /\ meta'[c] = b.meta /\ \A d \in DOMAIN meta : d # c => meta'[d] = meta[d]
      /\ DOMAIN home' = DOMAIN home \cup {c}
      /\ home'[c] = b.home /\ \A d \in DOMAIN home : d # c => home'[d] = home[d]
  BY <1>4 DEF Put
<1>10. /\ DOMAIN locator' = DOMAIN locator \cup {p}
       /\ locator'[p].conv = c /\ locator'[p].index = i
       /\ \A q \in DOMAIN locator : q # p => locator'[q] = locator[q]
  BY <1>4 DEF Put
<1> QED
  BY <1>7, <1>8, <1>9, <1>10 DEF Written

\* A commit keeps the read model in step with the rows.
LEMMA CommitModelled ==
    ASSUME CInv, CInv', KInv, NEW w \in Workers, Commit(w)
    PROVE  Modelled'
<1> DEFINE bb == batch[w]
           pp == call[w].pin
<1>0. PICK b, p : b = bb /\ p = pp
  OBVIOUS
<1> HIDE DEF bb, pp
<1> DEFINE c == Conv(p)
           i == b.row.index
           t == b.row.time
           stored == p \in DOMAIN pinIndex
<1>1. state' = state
  BY DEF Commit
<1> SUFFICES ASSUME Ready PROVE Placed' /\ Shown' /\ Counts' /\ Homes'
  BY <1>1 DEF Modelled, Ready
<1>2. Placed /\ Shown /\ Counts /\ Homes
  BY DEF KInv, Modelled
<1>3. /\ Fits(b, p) /\ IsRow(b.row) /\ b.row.pin = p
      /\ DOMAIN pinIndex' = DOMAIN pinIndex \cup {p}
      /\ Row(p)' = b.row
      /\ \A q \in DOMAIN pinIndex : q # p => Row(q)' = Row(q)
  <2>1. b = batch[w] /\ p = call[w].pin
    BY <1>0 DEF bb, pp
  <2>2. Saved(b, p)
    BY <2>1, CommitRows
  <2> QED
    BY <2>2 DEF Saved
<1>4. /\ DOMAIN locator' = DOMAIN locator \cup {p}
      /\ locator'[p].conv = c /\ locator'[p].index = i
      /\ \A q \in DOMAIN locator : q # p => locator'[q] = locator[q]
      /\ DOMAIN meta' = DOMAIN meta \cup {c}
      /\ meta'[c] = b.meta /\ \A d \in DOMAIN meta : d # c => meta'[d] = meta[d]
      /\ DOMAIN home' = DOMAIN home \cup {c}
      /\ home'[c] = b.home /\ \A d \in DOMAIN home : d # c => home'[d] = home[d]
      /\ DOMAIN byIndex' = DOMAIN byIndex \cup {<<c, i>>} /\ byIndex'[<<c, i>>] = b.row
      /\ \A x \in DOMAIN byIndex : x # <<c, i>> => byIndex'[x] = byIndex[x]
      /\ DOMAIN byTime' = DOMAIN byTime \cup {<<c, t, i>>} /\ byTime'[<<c, t, i>>] = b.row
      /\ \A x \in DOMAIN byTime : x # <<c, t, i>> => byTime'[x] = byTime[x]
  <2>1. b = batch[w] /\ p = call[w].pin
    BY <1>0 DEF bb, pp
  <2> HIDE DEF c, i, t
  <2>2. c = Conv(p) /\ i = b.row.index /\ t = b.row.time
    BY DEF c, i, t
  <2>3. Written(b, p, c, i, t)
    BY <2>1, <2>2, CommitModel
  <2> QED
    BY <2>3 DEF Written
<1>5. DOMAIN locator = DOMAIN pinIndex
  BY <1>2 DEF Placed
<1>6. /\ t \in Nat /\ Row(p)'.time = t
      /\ i = IF stored THEN locator[p].index ELSE NextIn(c)
      /\ b.meta.next = IF stored THEN NextIn(c) ELSE NextIn(c) + 1
      /\ b.meta.count = b.meta.next
      /\ stored => t = Row(p).time
  BY <1>3 DEF IsRow, Fits
<1>7. /\ NextIn(c) \in Nat
      /\ c \in DOMAIN meta => NextIn(c) = meta[c].next
      /\ c \notin DOMAIN meta => NextIn(c) = 0 /\ ~stored /\ OfConv(c) = {}
  BY <1>2, <1>5 DEF NextIn, Get, NoMeta, Counts, Placed, OfConv
<1>8. i \in Nat /\ (stored => i < NextIn(c)) /\ b.meta.next \in Nat /\ i < b.meta.next
      /\ b.meta.next >= NextIn(c)
  BY <1>2, <1>5, <1>6, <1>7 DEF Placed
\* Every other message stays where it is, and nothing else is at this one's spot.
<1>9. ASSUME NEW q \in DOMAIN locator, q # p
      PROVE  /\ Spot(q)' = Spot(q) /\ Moment(q)' = Moment(q) /\ Row(q)' = Row(q)
             /\ Spot(q) # <<c, i>> /\ Moment(q) # <<c, t, i>>
  <2>1. Row(q)' = Row(q) /\ locator'[q] = locator[q]
    BY <1>3, <1>4, <1>5, <1>9
  <2>2. Spot(q) # <<c, i>>
    <3>1. CASE stored
      <4>1. Spot(p) = <<c, i>> /\ p \in DOMAIN locator
        BY <1>5, <1>6, <3>1 DEF Spot
      <4> QED
        BY <1>2, <1>9, <4>1 DEF Placed
    <3>2. CASE ~stored
      BY <1>2, <1>6, <1>7, <3>2 DEF Placed, Spot
    <3> QED
      BY <3>1, <3>2
  <2>3. Moment(q) = <<Spot(q)[1], Row(q).time, Spot(q)[2]>>
    BY DEF Moment, Spot
  <2> QED
    BY <2>1, <2>2, <2>3 DEF Spot, Moment
<1>10. Spot(p)' = <<c, i>> /\ Moment(p)' = <<c, t, i>>
  BY <1>4, <1>6 DEF Spot, Moment
<1>11. stored => Spot(p) = <<c, i>> /\ Moment(p) = <<c, t, i>>
  BY <1>6 DEF Spot, Moment
<1> HIDE DEF c, i, t
<1>12. Placed'
  <2>1. DOMAIN locator' = DOMAIN pinIndex'
    BY <1>3, <1>4, <1>5
  <2>2. ASSUME NEW q \in DOMAIN locator'
        PROVE  /\ locator'[q].conv = Conv(q) /\ locator'[q].index \in Nat
               /\ Conv(q) \in DOMAIN meta' /\ locator'[q].index < meta'[Conv(q)].next
    <3>1. CASE q = p
      BY <1>4, <1>8, <3>1 DEF c
    <3>2. CASE q # p
      <4>1. q \in DOMAIN locator /\ locator'[q] = locator[q]
        BY <1>4, <3>2
      <4>2. /\ locator[q].conv = Conv(q) /\ locator[q].index \in Nat
            /\ Conv(q) \in DOMAIN meta /\ locator[q].index < meta[Conv(q)].next
        BY <1>2, <4>1 DEF Placed
      <4>3. CASE Conv(q) = c
        BY <1>4, <1>7, <1>8, <4>1, <4>2, <4>3
      <4>4. CASE Conv(q) # c
        BY <1>4, <4>1, <4>2, <4>4
      <4> QED
        BY <4>3, <4>4
    <3> QED
      BY <3>1, <3>2
  <2>3. ASSUME NEW q \in DOMAIN locator', NEW r \in DOMAIN locator', Spot(q)' = Spot(r)'
        PROVE  q = r
    <3>1. CASE q # p /\ r # p
      BY <1>2, <1>4, <1>9, <2>3, <3>1 DEF Placed
    <3>2. CASE q = p \/ r = p
      BY <1>4, <1>9, <1>10, <2>3, <3>2
    <3> QED
      BY <3>1, <3>2
  <2> QED
    BY <2>1, <2>2, <2>3 DEF Placed, Spot
<1>13. Shown'
  <2>1. DOMAIN byIndex' = {Spot(q)' : q \in DOMAIN locator'}
    BY <1>2, <1>4, <1>5, <1>9, <1>10, <1>11 DEF Shown
  <2>2. DOMAIN byTime' = {Moment(q)' : q \in DOMAIN locator'}
    BY <1>2, <1>4, <1>5, <1>9, <1>10, <1>11 DEF Shown
  <2>3. ASSUME NEW q \in DOMAIN locator'
        PROVE  /\ LET r == byIndex'[Spot(q)'] IN
                     /\ r.pin = q /\ r.time = Row(q)'.time /\ r.confirmed = Row(q)'.confirmed
                     /\ r.index = locator'[q].index
               /\ LET r == byTime'[Moment(q)'] IN
                     /\ r.pin = q /\ r.time = Row(q)'.time /\ r.confirmed = Row(q)'.confirmed
                     /\ r.index = locator'[q].index
    <3>1. CASE q = p
      BY <1>3, <1>4, <1>10, <3>1 DEF i
    <3>2. CASE q # p
      <4>1. q \in DOMAIN locator /\ locator'[q] = locator[q]
        BY <1>4, <3>2
      <4>2. Spot(q) \in DOMAIN byIndex /\ Moment(q) \in DOMAIN byTime
        BY <1>2, <4>1 DEF Shown
      <4>3. byIndex'[Spot(q)'] = byIndex[Spot(q)] /\ byTime'[Moment(q)'] = byTime[Moment(q)]
        BY <1>4, <1>9, <3>2, <4>1, <4>2
      <4>4. Shows(byIndex[Spot(q)], q) /\ Shows(byTime[Moment(q)], q)
        BY <1>2, <4>1 DEF Shown
      <4> QED
        BY <1>9, <3>2, <4>1, <4>3, <4>4 DEF Shows
    <3> QED
      BY <3>1, <3>2
  <2> QED
    BY <2>1, <2>2, <2>3 DEF Shown, Shows, Spot, Moment, Row
<1>14. Counts'
  <2>1. OfConv(c)' = OfConv(c) \cup {p} /\ \A d : d # c => OfConv(d)' = OfConv(d)
    BY <1>4 DEF OfConv, c
  <2>2. IsFiniteSet(OfConv(c))
    <3>1. OfConv(c) \subseteq Pins
      BY <1>5 DEF OfConv, CInv, Indexed
    <3> QED
      BY <3>1, ChatAssumption, FS_Subset
  <2>3. Cardinality(OfConv(c)) = NextIn(c)
    BY <1>2, <1>7, FS_EmptySet DEF Counts
  <2>4. Cardinality(OfConv(c)') = b.meta.next
    <3>1. CASE stored
      <4>1. OfConv(c)' = OfConv(c)
        BY <1>5, <2>1, <3>1 DEF OfConv, c
      <4> QED
        BY <1>6, <2>3, <3>1, <4>1
    <3>2. CASE ~stored
      <4>1. p \notin OfConv(c)
        BY <1>5, <3>2 DEF OfConv
      <4> QED
        <5>1. Cardinality(OfConv(c) \cup {p}) = Cardinality(OfConv(c)) + 1
          BY <2>2, <4>1, FS_AddElement
        <5> QED
          BY <1>6, <2>1, <2>3, <3>2, <5>1
    <3> QED
      BY <3>1, <3>2
  <2>5. ASSUME NEW d \in DOMAIN meta'
        PROVE  /\ meta'[d].next \in Nat /\ meta'[d].count = meta'[d].next
               /\ Cardinality(OfConv(d)') = meta'[d].next
    <3>1. CASE d = c
      BY <1>4, <1>6, <1>8, <2>4, <3>1
    <3>2. CASE d # c
      BY <1>2, <1>4, <2>1, <3>2 DEF Counts
    <3> QED
      BY <3>1, <3>2
  <2> QED
    BY <2>5 DEF Counts, OfConv
\* The snapshot of the home list: of this message if it is not older, or as it was.
<1>15. Homes'
  <2> DEFINE now == Get(home, c, b.row)
  <2>1. b.home = IF Later(b.row, now) THEN b.row ELSE now
    BY <1>3 DEF Fits, c
  <2>2. Timed(b.row)
    BY <1>3, <1>8 DEF IsRow, Timed, i
  <2>3. ASSUME NEW q \in DOMAIN locator
        PROVE  /\ Timed(byIndex[Spot(q)]) /\ Spot(q) \in DOMAIN byIndex
               /\ byIndex[Spot(q)].time = Row(q).time /\ byIndex[Spot(q)].index = locator[q].index
    <3>1. Shows(byIndex[Spot(q)], q) /\ locator[q].index \in Nat /\ Spot(q) \in DOMAIN byIndex
      BY <1>2 DEF Shown, Placed
    <3>2. IsRow(Row(q))
      BY <1>5 DEF CInv, Indexed, Row
    <3> QED
      BY <3>1, <3>2 DEF Shows, IsRow, Timed
  <2>4. ASSUME NEW q \in DOMAIN locator, q # p
        PROVE  byIndex'[Spot(q)'] = byIndex[Spot(q)]
    BY <1>4, <1>9, <2>3, <2>4
  <2>5. byIndex'[Spot(p)'] = b.row
    BY <1>4, <1>10
  <2>6. c \in DOMAIN home =>
           /\ now = home[c] /\ \E q \in OfConv(c) : now = byIndex[Spot(q)]
           /\ \A q \in OfConv(c) : Later(now, byIndex[Spot(q)])
    BY <1>2 DEF Get, Homes, OfConv
  <2>7. c \notin DOMAIN home => now = b.row /\ OfConv(c) = {}
    BY <1>2, <1>7 DEF Get, Homes
  <2> HIDE DEF now
  <2>8. /\ \A q \in OfConv(c) \cup {p} : Later(home'[c], byIndex'[Spot(q)'])
        /\ \E q \in OfConv(c) \cup {p} : home'[c] = byIndex'[Spot(q)']
    <3>1. OfConv(c) \subseteq DOMAIN locator
      BY DEF OfConv
    <3>2. c \in DOMAIN home => Timed(now)
      BY <2>3, <2>6, <3>1
    <3>3. CASE Later(b.row, now)
      <4>1. home'[c] = b.row
        BY <1>4, <2>1, <3>3
      <4>2. ASSUME NEW q \in OfConv(c), q # p PROVE Later(b.row, byIndex[Spot(q)])
        BY <2>2, <2>3, <2>6, <2>7, <3>1, <3>2, <3>3, <4>2, LaterOrder
      <4> QED
        BY <2>2, <2>4, <2>5, <3>1, <4>1, <4>2, LaterOrder
    <3>4. CASE ~Later(b.row, now)
      <4>1. home'[c] = now
        BY <1>4, <2>1, <3>4
      <4>2. c \in DOMAIN home
        BY <2>2, <2>7, <3>4, LaterOrder
      <4>3. PICK q0 \in OfConv(c) : now = byIndex[Spot(q0)]
        BY <2>6, <4>2
      <4>4. q0 # p
        <5>1. q0 = p => stored /\ now.time = Row(p).time /\ now.index = locator[p].index
          BY <1>5, <2>3, <3>1, <4>3
        <5>2. q0 = p => now.time = b.row.time /\ now.index = b.row.index
          BY <1>6, <5>1 DEF i, t
        <5>3. q0 = p => Later(b.row, now)
          BY <2>2, <5>2 DEF Timed, Later
        <5> QED
          BY <3>4, <5>3
      <4>5. Later(now, b.row)
        BY <2>2, <3>2, <3>4, <4>2, LaterOrder
      <4>6. \A q \in OfConv(c) : Later(now, byIndex[Spot(q)])
        BY <2>6, <4>2
      <4> QED
        BY <2>4, <2>5, <3>1, <4>1, <4>3, <4>4, <4>5, <4>6
    <3> QED
      BY <3>3, <3>4
  <2>9. OfConv(c)' = OfConv(c) \cup {p} /\ \A d : d # c => OfConv(d)' = OfConv(d)
    BY <1>4 DEF OfConv, c
  <2>10. DOMAIN home' = DOMAIN meta'
    BY <1>2, <1>4 DEF Homes
  <2>11. ASSUME NEW q \in DOMAIN locator' PROVE Later(home'[Conv(q)], byIndex'[Spot(q)'])
    <3>1. CASE Conv(q) = c
      <4>1. q \in OfConv(c) \cup {p}
        BY <1>4, <3>1 DEF OfConv
      <4> QED
        BY <2>8, <3>1, <4>1
    <3>2. CASE Conv(q) # c
      <4>1. q \in DOMAIN locator /\ q # p
        BY <1>4, <3>2 DEF c
      <4>2. Conv(q) \in DOMAIN home
        BY <1>2, <4>1 DEF Placed, Homes
      <4> QED
        BY <1>2, <1>4, <2>4, <3>2, <4>1, <4>2 DEF Homes
    <3> QED
      BY <3>1, <3>2
  <2>12. ASSUME NEW d \in DOMAIN meta'
         PROVE  \E q \in OfConv(d)' : home'[d] = byIndex'[Spot(q)']
    <3>1. CASE d = c
      BY <2>8, <2>9, <3>1
    <3>2. CASE d # c
      <4>1. d \in DOMAIN meta /\ d \in DOMAIN home
        BY <1>2, <1>4, <3>2 DEF Homes
      <4>2. PICK q \in OfConv(d) : home[d] = byIndex[Spot(q)]
        BY <1>2, <4>1 DEF Homes
      <4>3. q \in DOMAIN locator /\ q # p
        BY <3>2, <4>2 DEF OfConv, c
      <4>4. home'[d] = byIndex'[Spot(q)']
        BY <1>4, <2>4, <3>2, <4>1, <4>2, <4>3
      <4> QED
        BY <2>9, <3>2, <4>2, <4>4
    <3> QED
      BY <3>1, <3>2
  <2> QED
    BY <2>10, <2>11, <2>12 DEF Homes, OfConv, Spot, Later
<1> QED
  BY <1>12, <1>13, <1>14, <1>15

\* Calls about to commit are of different senders and different conversations.
LEMMA CommitsApart ==
    ASSUME CInv, KInv, NEW v \in Workers, NEW w \in Workers, v # w, pc[v] = "commit", pc[w] = "commit"
    PROVE  /\ Sender[call[v].pin] # Sender[call[w].pin]
           /\ Conv(call[v].pin) # Conv(call[w].pin)
<1>1. SenderLock(v) \in locked[v] /\ SenderLock(w) \in locked[w]
  BY DEF CInv, Guarded
<1>2. ConvLock(v) \in locked[v] /\ ConvLock(w) \in locked[w]
  BY DEF KInv, Reserved
<1>3. locked[v] \cap locked[w] = {}
  BY DEF CInv, Exclusive
<1>4. SenderLock(v) # SenderLock(w) /\ ConvLock(v) # ConvLock(w)
  BY <1>1, <1>2, <1>3
<1> QED
  BY <1>4 DEF SenderLock, ConvLock

\* A batch for another conversation and sender goes on fitting what is stored.
LEMMA FitsAfter ==
    ASSUME CInv, CInv', KInv, NEW w \in Workers, Commit(w), NEW d, NEW q \in Pins,
           Fits(d, q), Sender[q] # Sender[call[w].pin], Conv(q) # Conv(call[w].pin)
    PROVE  Fits(d, q)'
<1> DEFINE bb == batch[w]
           pp == call[w].pin
<1>0. PICK b, p : b = bb /\ p = pp
  OBVIOUS
<1>1. b = batch[w] /\ p = call[w].pin
  BY <1>0
<1> HIDE DEF bb, pp
<1>2. q # p /\ Sender[q] # Sender[p] /\ Conv(q) # Conv(p) /\ Sender[q] \in Users
  BY <1>1, ChatAssumption
<1>3. /\ DOMAIN pinIndex' = DOMAIN pinIndex \cup {p}
      /\ \A x \in DOMAIN pinIndex : x # p => Row(x)' = Row(x)
      /\ \A u \in Users : u # Sender[p] => homepage'[u] = homepage[u]
  <2>1. Saved(b, p)
    BY <1>1, CommitRows
  <2> QED
    BY <2>1 DEF Saved
<1>4. state' = state
  BY DEF Commit
<1>5. Named(d.row) /\ d.conv = Conv(q) /\ d.homepage = homepage'[Sender[q]] \cup {q}
  BY <1>2, <1>3 DEF Fits
<1>6. q \in DOMAIN pinIndex' => /\ q \in DOMAIN pinIndex
                                /\ d.row.time = Row(q)'.time
                                /\ Row(q)'.confirmed => d.row.confirmed
  BY <1>2, <1>3 DEF Fits
<1>7. ASSUME Ready
      PROVE  /\ d.stale = {}
             /\ d.row.index = IF q \in DOMAIN pinIndex' THEN locator'[q].index ELSE NextIn(d.conv)'
             /\ d.meta.next = IF q \in DOMAIN pinIndex' THEN NextIn(d.conv)' ELSE NextIn(d.conv)' + 1
             /\ d.meta.count = d.meta.next
             /\ d.home = IF Later(d.row, Get(home', d.conv, d.row)) THEN d.row
                         ELSE Get(home', d.conv, d.row)
  <2>1. PICK c, i, t : c = Conv(p) /\ i = b.row.index /\ t = b.row.time
    OBVIOUS
  <2>2. Written(b, p, c, i, t)
    BY <1>1, <1>7, <2>1, CommitModel
  <2>3. d.conv # c
    BY <1>2, <1>5, <2>1
  <2>4. NextIn(d.conv)' = NextIn(d.conv) /\ Get(home', d.conv, d.row) = Get(home, d.conv, d.row)
    BY <2>2, <2>3 DEF Written, NextIn, Get
  <2>5. DOMAIN locator = DOMAIN pinIndex
    BY <1>7 DEF KInv, Modelled, Placed
  <2>6. q \in DOMAIN pinIndex => locator'[q] = locator[q]
    BY <1>2, <2>2, <2>5 DEF Written
  <2>7. /\ d.stale = {}
        /\ d.row.index = IF q \in DOMAIN pinIndex THEN locator[q].index ELSE NextIn(d.conv)
        /\ d.meta.next = IF q \in DOMAIN pinIndex THEN NextIn(d.conv) ELSE NextIn(d.conv) + 1
        /\ d.meta.count = d.meta.next
        /\ d.home = IF Later(d.row, Get(home, d.conv, d.row)) THEN d.row
                    ELSE Get(home, d.conv, d.row)
    BY <1>7 DEF Fits
  <2>8. q \in DOMAIN pinIndex' <=> q \in DOMAIN pinIndex
    BY <1>2, <1>3
  <2> QED
    BY <2>4, <2>6, <2>7, <2>8
<1> QED
  BY <1>4, <1>5, <1>6, <1>7 DEF Fits, Named, Ready, Later

\* A commit keeps the invariant.
LEMMA CommitKeeps ==
    ASSUME CInv, CInv', KInv, NEW w \in Workers, Commit(w)
    PROVE  KInv'
<1>1. /\ pc[w] = "commit"
      /\ \E step \in {"idle", "notify"} : Return(w, step)
  BY DEF Commit
<1>2. PICK step \in {"idle", "notify"} : Return(w, step)
  BY <1>1
<1>3. /\ pc'[w] = step /\ (step = "notify" => call'[w] = call[w])
      /\ \A v \in Workers : v # w =>
            /\ pc'[v] = pc[v] /\ call'[v] = call[v] /\ wanted'[v] = wanted[v]
            /\ locked'[v] = locked[v] /\ batch'[v] = batch[v]
  BY <1>2, ReturnIs DEF CInv
<1>4. CallsNamed'
  BY <1>1, <1>3 DEF KInv, CallsNamed, Named
<1>5. Reserved'
  BY <1>3 DEF KInv, Reserved, ConvLock
<1>6. Fitting'
  <2> SUFFICES ASSUME NEW v \in Workers, pc'[v] = "commit"
               PROVE  Fits(batch[v], call[v].pin)'
    BY DEF Fitting
  <2>1. v # w /\ pc[v] = "commit" /\ call'[v] = call[v] /\ batch'[v] = batch[v]
    BY <1>3
  <2>2. PICK d, q : d = batch[v] /\ q = call[v].pin
    OBVIOUS
  <2>3. Fits(d, q) /\ q \in Pins
    BY <2>1, <2>2 DEF KInv, Fitting, CInv, Calls, IsRow
  <2>4. Sender[q] # Sender[call[w].pin] /\ Conv(q) # Conv(call[w].pin)
    BY <1>1, <2>1, <2>2, CommitsApart
  <2>5. Fits(d, q)'
    BY <2>3, <2>4, FitsAfter
  <2>6. batch'[v] = d /\ call'[v].pin = q
    BY <2>1, <2>2
  <2> QED
    BY <2>5, <2>6
<1>7. RowsNamed'
  <2>1. PICK d, q : d = batch[w] /\ q = call[w].pin
    OBVIOUS
  <2> QED
    BY <2>1, CommitRows
<1>8. Modelled'
  BY CommitModelled
<1> QED
  BY <1>4, <1>5, <1>6, <1>7, <1>8 DEF KInv

-----------------------------------------------------------------------------
(* The backfill of the read model *)

\* The rows of a conversation, and the place of one in their order.
Group(c) == {k \in DOMAIN rows : Conv(rows[k].pin) = c}
Rank(c, k) == Cardinality({j \in Group(c) : Before(j, k)})

\* There are as many rows as messages in the pin index.
LEMMA RowsFinite ==
    ASSUME CInv
    PROVE  /\ IsFiniteSet(DOMAIN rows) /\ IsFiniteSet(DOMAIN pinIndex)
           /\ Cardinality(DOMAIN rows) = Cardinality(DOMAIN pinIndex)
<1> DEFINE f == [p \in DOMAIN pinIndex |-> pinIndex[p]]
<1>1. IsFiniteSet(DOMAIN pinIndex)
  <2>1. DOMAIN pinIndex \subseteq Pins
    BY DEF CInv, Indexed
  <2> QED
    BY <2>1, ChatAssumption, FS_Subset
<1>2. f \in [DOMAIN pinIndex -> DOMAIN rows]
  BY DEF CInv, Indexed
<1>3. f \in Surjection(DOMAIN pinIndex, DOMAIN rows)
  BY <1>2 DEF CInv, Indexed, Surjection
<1>4. f \in Injection(DOMAIN pinIndex, DOMAIN rows)
  BY <1>2 DEF CInv, Indexed, Injection, IsInjective
<1> HIDE DEF f
<1> QED
  BY <1>1, <1>3, <1>4, FS_Surjection

\* The rows of a conversation are in one order, without gaps.
LEMMA GroupRanks ==
    ASSUME CInv, NEW c
    PROVE  /\ IsFiniteSet(Group(c)) /\ Cardinality(Group(c)) \in Nat
           /\ \A k \in Group(c) : Rank(c, k) \in 0 .. Cardinality(Group(c)) - 1
           /\ \A j, k \in Group(c) : Rank(c, j) = Rank(c, k) => j = k
           /\ \A j, k \in Group(c) : Before(j, k) => Rank(c, j) < Rank(c, k)
           /\ \A i \in 0 .. Cardinality(Group(c)) - 1 : \E k \in Group(c) : Rank(c, k) = i
<1> DEFINE G == Group(c)
           n == Cardinality(G)
           Below(k) == {j \in G : Before(j, k)}
           rank == [k \in G |-> Cardinality(Below(k))]
<1>1. IsFiniteSet(G) /\ n \in Nat
  <2>1. G \subseteq DOMAIN rows
    BY DEF Group
  <2> QED
    BY <2>1, RowsFinite, FS_Subset, FS_CardinalityType
<1>2. \A k \in G : rows[k].time \in Nat /\ rows[k].pin \in Nat
  BY ChatAssumption DEF Group, CInv, Indexed, IsRow
<1>3. \A j, k \in G : rows[j].pin = rows[k].pin => j = k
  BY DEF Group, CInv, Indexed
<1> HIDE DEF G
<1>4. /\ \A k \in G : ~Before(k, k)
      /\ \A j, k, l \in G : Before(j, k) /\ Before(k, l) => Before(j, l)
      /\ \A j, k \in G : j # k => Before(j, k) \/ Before(k, j)
  BY <1>2, <1>3 DEF Before
<1>5. ASSUME NEW k \in G PROVE IsFiniteSet(Below(k)) /\ rank[k] \in 0 .. n - 1
  <2>1. IsFiniteSet(G \ {k}) /\ Cardinality(G \ {k}) = n - 1
    BY <1>1, FS_RemoveElement
  <2>2. Below(k) \subseteq G \ {k}
    BY <1>4
  <2>3. IsFiniteSet(Below(k)) /\ Cardinality(Below(k)) <= n - 1
    BY <2>1, <2>2, FS_Subset
  <2>4. Cardinality(Below(k)) \in Nat
    BY <2>3, FS_CardinalityType
  <2> QED
    BY <1>1, <2>3, <2>4
<1>6. ASSUME NEW j \in G, NEW k \in G, Before(j, k) PROVE rank[j] < rank[k]
  <2>1. Below(j) \cup {j} \subseteq Below(k) /\ j \notin Below(j)
    BY <1>4, <1>6
  <2>2. /\ IsFiniteSet(Below(j) \cup {j})
        /\ Cardinality(Below(j) \cup {j}) = Cardinality(Below(j)) + 1
    BY <1>5, <2>1, FS_AddElement
  <2>3. Cardinality(Below(j) \cup {j}) <= Cardinality(Below(k))
    BY <1>5, <2>1, FS_Subset
  <2>4. Cardinality(Below(j)) \in Nat /\ Cardinality(Below(k)) \in Nat
    BY <1>5, FS_CardinalityType
  <2> QED
    BY <2>2, <2>3, <2>4
<1>7. \A k \in G : Rank(c, k) = rank[k]
  BY DEF Rank, G
<1> HIDE DEF rank, n, Below
<1>8. \A j, k \in G : rank[j] = rank[k] => j = k
  <2> SUFFICES ASSUME NEW j \in G, NEW k \in G, rank[j] = rank[k], j # k PROVE FALSE
    OBVIOUS
  <2>1. rank[j] < rank[k] \/ rank[k] < rank[j]
    BY <1>4, <1>6
  <2> QED
    BY <1>5, <2>1
<1>9. rank \in Injection(G, 0 .. n - 1)
  BY <1>5, <1>8 DEF rank, Injection, IsInjective
<1>10. IsFiniteSet(0 .. n - 1) /\ Cardinality(0 .. n - 1) = n
  BY <1>1, FS_Interval
<1>11. rank \in Surjection(G, 0 .. n - 1)
  BY <1>9, <1>10, FS_Injection DEF n
<1>12. \A i \in 0 .. n - 1 : \E k \in G : rank[k] = i
  BY <1>11 DEF Surjection
<1> QED
  BY <1>1, <1>5, <1>6, <1>7, <1>8, <1>12 DEF G, n

\* The row of a message, as the backfill copies it.
LEMMA RenamedIs ==
    ASSUME CInv, RowsNamed, NEW k \in DOMAIN rows
    PROVE  /\ ConversationOf(Renamed(k)) = Conv(rows[k].pin)
           /\ \A i : LET r == [Renamed(k) EXCEPT !.index = i]
                     IN  /\ r.pin = rows[k].pin /\ r.time = rows[k].time
                         /\ r.confirmed = rows[k].confirmed /\ r.index = i
<1>1. IsRow(rows[k]) /\ Named(rows[k])
  BY DEF CInv, Indexed, RowsNamed
<1>2. Named(Renamed(k)) /\ Renamed(k).pin = rows[k].pin /\ Renamed(k).time = rows[k].time
      /\ Renamed(k).confirmed = rows[k].confirmed /\ DOMAIN Renamed(k) = DOMAIN rows[k]
  <2>1. profiles = Known
    BY DEF RowsNamed
  <2> QED
    BY <1>1, <2>1, NamesAre DEF Renamed, Named, IsRow
<1>3. ConversationOf(Renamed(k)) = Conv(rows[k].pin)
  BY <1>2, NamesAre DEF RowsNamed
<1> QED
  BY <1>1, <1>2, <1>3 DEF IsRow

\* A conversation keeps all its rows: each message has one.
LEMMA KeptIs ==
    ASSUME CInv, RowsNamed, NEW c
    PROVE  Kept(c) = Group(c)
<1> DEFINE Best(k, p) == /\ rows[k].pin = p
                         /\ rows[k].confirmed
                            \/ ~ \E j \in KeysOf(c) : rows[j].pin = p /\ rows[j].confirmed
<1>1. KeysOf(c) = Group(c)
  BY RenamedIs DEF KeysOf, Group
<1>2. \A j, k \in KeysOf(c) : rows[j].pin = rows[k].pin => j = k
  BY <1>1 DEF Group, CInv, Indexed
<1>3. ASSUME NEW k \in KeysOf(c) PROVE (CHOOSE j \in KeysOf(c) : Best(j, rows[k].pin)) = k
  <2>1. Best(k, rows[k].pin) /\ \A j \in KeysOf(c) : Best(j, rows[k].pin) => j = k
    BY <1>2
  <2> HIDE DEF Best
  <2> QED
    BY <2>1
<1> DEFINE Chosen(p) == CHOOSE j \in KeysOf(c) : Best(j, p)
<1>4. Kept(c) = {Chosen(p) : p \in {rows[k].pin : k \in KeysOf(c)}}
  BY DEF Kept
<1>5. \A k \in KeysOf(c) : Chosen(rows[k].pin) = k
  BY <1>3
<1> HIDE DEF Chosen
<1>6. Kept(c) = KeysOf(c)
  BY <1>4, <1>5
<1> QED
  BY <1>1, <1>6

\* The entry of a row.
Entry(k) ==
    [conv |-> Conv(rows[k].pin), key |-> k,
     row |-> [Renamed(k) EXCEPT !.index = Rank(Conv(rows[k].pin), k)]]

\* The backfill has one entry for each row.
LEMMA EntriesAre ==
    ASSUME CInv, RowsNamed
    PROVE  /\ Entries = {Entry(k) : k \in DOMAIN rows}
           /\ \A k \in DOMAIN rows :
                 /\ Entry(k).conv = Conv(rows[k].pin) /\ Entry(k).key = k
                 /\ Entry(k).row.pin = rows[k].pin /\ Entry(k).row.time = rows[k].time
                 /\ Entry(k).row.confirmed = rows[k].confirmed
                 /\ Entry(k).row.index = Rank(Conv(rows[k].pin), k)
<1>1. ASSUME NEW c, NEW k \in Kept(c)
      PROVE  /\ k \in DOMAIN rows /\ Conv(rows[k].pin) = c
             /\ [conv |-> c, key |-> k,
                 row |-> [Renamed(k) EXCEPT !.index = Cardinality({j \in Kept(c) : Before(j, k)})]]
                = Entry(k)
  <2>1. Kept(c) = Group(c)
    BY KeptIs
  <2>2. k \in DOMAIN rows /\ Conv(rows[k].pin) = c
    BY <2>1 DEF Group
  <2>3. Cardinality({j \in Kept(c) : Before(j, k)}) = Rank(c, k)
    BY <2>1 DEF Rank
  <2> QED
    BY <2>2, <2>3 DEF Entry
<1>2. \A k \in DOMAIN rows : k \in Kept(Conv(rows[k].pin))
                             /\ ConversationOf(Renamed(k)) = Conv(rows[k].pin)
  BY KeptIs, RenamedIs DEF Group
<1> DEFINE Of(c, k) ==
       [conv |-> c, key |-> k,
        row |-> [Renamed(k) EXCEPT !.index = Cardinality({j \in Kept(c) : Before(j, k)})]]
           Convs == {ConversationOf(Renamed(k)) : k \in DOMAIN rows}
<1>1a. \A c : \A k \in Kept(c) : k \in DOMAIN rows /\ Conv(rows[k].pin) = c /\ Of(c, k) = Entry(k)
  BY <1>1
<1>1b. Entries = UNION {{Of(c, k) : k \in Kept(c)} : c \in Convs}
  BY DEF Entries
<1>1c. \A k \in DOMAIN rows : Conv(rows[k].pin) \in Convs
  BY <1>2
<1> HIDE DEF Of, Convs
<1>3. Entries = {Entry(k) : k \in DOMAIN rows}
  <2>1. ASSUME NEW e \in Entries PROVE \E k \in DOMAIN rows : e = Entry(k)
    BY <1>1a, <1>1b
  <2>2. ASSUME NEW k \in DOMAIN rows PROVE Entry(k) \in Entries
    BY <1>1a, <1>1b, <1>1c, <1>2
  <2> QED
    BY <2>1, <2>2
<1>4. ASSUME NEW k \in DOMAIN rows
      PROVE  /\ Entry(k).conv = Conv(rows[k].pin) /\ Entry(k).key = k
             /\ Entry(k).row.pin = rows[k].pin /\ Entry(k).row.time = rows[k].time
             /\ Entry(k).row.confirmed = rows[k].confirmed
             /\ Entry(k).row.index = Rank(Conv(rows[k].pin), k)
  BY RenamedIs DEF Entry
<1> QED
  BY <1>3, <1>4

\* Where the backfill puts a message, and the snapshot it takes.
At(p) == Rank(Conv(p), pinIndex[p])
Snapshot(p) == Entry(pinIndex[p]).row
NewSpot(p) == <<Conv(p), At(p)>>
NewMoment(p) == <<Conv(p), Row(p).time, At(p)>>

\* The messages and their rows, by conversation.
LEMMA GroupOf ==
    ASSUME CInv, RowsNamed
    PROVE  /\ \A p \in DOMAIN pinIndex :
                 /\ pinIndex[p] \in Group(Conv(p)) /\ p \in Pins
                 /\ Snapshot(p).pin = p /\ Snapshot(p).time = Row(p).time
                 /\ Snapshot(p).confirmed = Row(p).confirmed /\ Snapshot(p).index = At(p)
           /\ \A k \in DOMAIN rows : /\ rows[k].pin \in DOMAIN pinIndex
                                     /\ pinIndex[rows[k].pin] = k
           /\ \A p, q \in DOMAIN pinIndex : NewSpot(p) = NewSpot(q) => p = q
<1>1. \A k \in DOMAIN rows : rows[k].pin \in DOMAIN pinIndex /\ pinIndex[rows[k].pin] = k
  BY DEF CInv, Indexed
<1>2. ASSUME NEW p \in DOMAIN pinIndex
      PROVE  /\ pinIndex[p] \in Group(Conv(p)) /\ p \in Pins
             /\ Snapshot(p).pin = p /\ Snapshot(p).time = Row(p).time
             /\ Snapshot(p).confirmed = Row(p).confirmed /\ Snapshot(p).index = At(p)
  <2>1. pinIndex[p] \in DOMAIN rows /\ rows[pinIndex[p]].pin = p /\ p \in Pins
    BY DEF CInv, Indexed
  <2> QED
    BY <2>1, EntriesAre DEF Group, Snapshot, Row, At
<1>3. ASSUME NEW p \in DOMAIN pinIndex, NEW q \in DOMAIN pinIndex, NewSpot(p) = NewSpot(q)
      PROVE  p = q
  <2>1. Conv(p) = Conv(q) /\ At(p) = At(q)
    BY <1>3 DEF NewSpot
  <2>2. pinIndex[p] = pinIndex[q]
    BY <1>2, <2>1, GroupRanks DEF At
  <2> QED
    BY <2>2 DEF CInv, Indexed
<1> QED
  BY <1>1, <1>2, <1>3

\* What the backfill makes of the pin index and of the read model.
LEMMA BackfillIs ==
    ASSUME CInv, RowsNamed, Backfill
    PROVE  /\ rows' = rows /\ DOMAIN pinIndex' = DOMAIN pinIndex
           /\ \A p \in DOMAIN pinIndex : pinIndex'[p] = pinIndex[p]
           /\ DOMAIN locator' = DOMAIN pinIndex
           /\ \A p \in DOMAIN pinIndex : locator'[p].conv = Conv(p) /\ locator'[p].index = At(p)
           /\ DOMAIN byIndex' = {NewSpot(p) : p \in DOMAIN pinIndex}
           /\ DOMAIN byTime' = {NewMoment(p) : p \in DOMAIN pinIndex}
           /\ \A p \in DOMAIN pinIndex : /\ byIndex'[NewSpot(p)] = Snapshot(p)
                                         /\ byTime'[NewMoment(p)] = Snapshot(p)
           /\ DOMAIN meta' = {Conv(p) : p \in DOMAIN pinIndex} /\ DOMAIN home' = DOMAIN meta'
           /\ \A c \in DOMAIN meta' : /\ meta'[c].next = Cardinality(Group(c))
                                      /\ meta'[c].count = Cardinality(Group(c))
           /\ \A c \in DOMAIN meta' : \E p \in DOMAIN pinIndex :
                 Conv(p) = c /\ At(p) + 1 = Cardinality(Group(c)) /\ home'[c] = Snapshot(p)
<1> DEFINE S == DOMAIN pinIndex
           E(p) == Entry(pinIndex[p])
           convs == {e.conv : e \in Entries}
           last == [c \in convs |-> CHOOSE e \in Entries :
                       e.conv = c /\ e.row.index + 1 = Cardinality(Kept(c))]
           entry == [p \in {e.row.pin : e \in Entries} |-> CHOOSE e \in Entries : e.row.pin = p]
<1>1. /\ rows' = rows
      /\ byIndex' = [x \in {IndexOf(e) : e \in Entries} |->
                        (CHOOSE e \in Entries : IndexOf(e) = x).row]
      /\ byTime' = [x \in {TimeOf(e) : e \in Entries} |->
                        (CHOOSE e \in Entries : TimeOf(e) = x).row]
      /\ meta' = [c \in convs |-> [next |-> Cardinality(Kept(c)), count |-> Cardinality(Kept(c)),
                                   latest |-> last[c].row.time]]
      /\ home' = [c \in convs |-> last[c].row]
      /\ locator' = [p \in DOMAIN entry |->
            [key |-> entry[p].key, conv |-> entry[p].conv, index |-> entry[p].row.index]]
      /\ pinIndex' = [p \in DOMAIN pinIndex \cup DOMAIN entry |->
            IF p \in DOMAIN entry THEN entry[p].key ELSE pinIndex[p]]
  BY DEF Backfill, Snapshots
\* One entry for each message.
<1>2. /\ Entries = {E(p) : p \in S}
      /\ \A p \in S : /\ E(p).conv = Conv(p) /\ E(p).key = pinIndex[p] /\ E(p).row = Snapshot(p)
                      /\ E(p).row.pin = p /\ E(p).row.time = Row(p).time /\ E(p).row.index = At(p)
                      /\ IndexOf(E(p)) = NewSpot(p) /\ TimeOf(E(p)) = NewMoment(p)
  <2>1. Entries = {E(p) : p \in S}
    <3>1. /\ Entries = {Entry(k) : k \in DOMAIN rows}
          /\ \A p \in S : pinIndex[p] \in DOMAIN rows
          /\ \A k \in DOMAIN rows : rows[k].pin \in S /\ pinIndex[rows[k].pin] = k
      BY EntriesAre, GroupOf DEF Group
    <3> QED
      BY <3>1
  <2>2. ASSUME NEW p \in S
        PROVE  /\ E(p).conv = Conv(p) /\ E(p).key = pinIndex[p] /\ E(p).row = Snapshot(p)
               /\ E(p).row.pin = p /\ E(p).row.time = Row(p).time /\ E(p).row.index = At(p)
    <3>1. pinIndex[p] \in DOMAIN rows /\ rows[pinIndex[p]].pin = p
      BY DEF CInv, Indexed
    <3> QED
      BY <3>1, EntriesAre DEF Snapshot, Row, At
  <2> HIDE DEF E
  <2> QED
    BY <2>1, <2>2 DEF IndexOf, TimeOf, NewSpot, NewMoment
<1> HIDE DEF E
<1>3. \A p, q \in S : NewSpot(p) = NewSpot(q) => p = q
  BY GroupOf
<1>4. \A p, q \in S : NewMoment(p) = NewMoment(q) => p = q
  BY <1>3 DEF NewMoment, NewSpot
<1>5. \A c : Kept(c) = Group(c)
  BY KeptIs
<1> HIDE DEF S, last, entry, convs
<1>6. \A p \in S : /\ (CHOOSE e \in Entries : e.row.pin = p) = E(p)
                   /\ (CHOOSE e \in Entries : IndexOf(e) = NewSpot(p)) = E(p)
                   /\ (CHOOSE e \in Entries : TimeOf(e) = NewMoment(p)) = E(p)
  <2> SUFFICES ASSUME NEW p \in S
               PROVE  /\ (CHOOSE e \in Entries : e.row.pin = p) = E(p)
                      /\ (CHOOSE e \in Entries : IndexOf(e) = NewSpot(p)) = E(p)
                      /\ (CHOOSE e \in Entries : TimeOf(e) = NewMoment(p)) = E(p)
    OBVIOUS
  <2>1. E(p) \in Entries /\ \A e \in Entries : e.row.pin = p <=> e = E(p)
    BY <1>2
  <2>2. \A e \in Entries : IndexOf(e) = NewSpot(p) <=> e = E(p)
    BY <1>2, <1>3
  <2>3. \A e \in Entries : TimeOf(e) = NewMoment(p) <=> e = E(p)
    BY <1>2, <1>4
  <2>4. (CHOOSE e \in Entries : e.row.pin = p) = E(p)
    BY <2>1
  <2>5. (CHOOSE e \in Entries : IndexOf(e) = NewSpot(p)) = E(p)
    BY <2>1, <2>2
  <2>6. (CHOOSE e \in Entries : TimeOf(e) = NewMoment(p)) = E(p)
    BY <2>1, <2>3
  <2> QED
    BY <2>4, <2>5, <2>6
<1>7. DOMAIN entry = S /\ \A p \in S : entry[p] = E(p)
  <2>1. {e.row.pin : e \in Entries} = S
    BY <1>2
  <2> QED
    BY <1>6, <2>1 DEF entry
<1>8. /\ DOMAIN pinIndex' = S /\ \A p \in S : pinIndex'[p] = pinIndex[p]
      /\ DOMAIN locator' = S
      /\ \A p \in S : locator'[p].conv = Conv(p) /\ locator'[p].index = At(p)
  BY <1>1, <1>2, <1>7 DEF S
<1>9. /\ DOMAIN byIndex' = {NewSpot(p) : p \in S}
      /\ \A p \in S : byIndex'[NewSpot(p)] = Snapshot(p)
  <2>1. {IndexOf(e) : e \in Entries} = {NewSpot(p) : p \in S}
    BY <1>2
  <2> QED
    BY <1>1, <1>2, <1>6, <2>1
<1>10. /\ DOMAIN byTime' = {NewMoment(p) : p \in S}
       /\ \A p \in S : byTime'[NewMoment(p)] = Snapshot(p)
  <2>1. {TimeOf(e) : e \in Entries} = {NewMoment(p) : p \in S}
    BY <1>2
  <2> QED
    BY <1>1, <1>2, <1>6, <2>1
<1>11. convs = {Conv(p) : p \in S}
  BY <1>2 DEF convs
<1>12. /\ DOMAIN meta' = convs /\ DOMAIN home' = convs
       /\ \A c \in convs : /\ meta'[c].next = Cardinality(Group(c))
                           /\ meta'[c].count = Cardinality(Group(c))
                           /\ home'[c] = last[c].row
  BY <1>1, <1>5
\* A conversation has a last message.
<1>13. ASSUME NEW c \in convs
       PROVE  \E p \in S : Conv(p) = c /\ At(p) + 1 = Cardinality(Group(c)) /\ last[c] = E(p)
  <2> DEFINE n == Cardinality(Group(c))
  <2>1. PICK p \in S : Conv(p) = c
    BY <1>11
  <2>2. pinIndex[p] \in Group(c)
    BY <2>1, GroupOf DEF S
  <2>3. Rank(c, pinIndex[p]) \in 0 .. n - 1 /\ n \in Nat
    BY <2>2, GroupRanks
  <2>4. PICK k \in Group(c) : Rank(c, k) = n - 1
    BY <2>3, GroupRanks
  <2>5. PICK q \in S : pinIndex[q] = k /\ Conv(q) = c
    BY GroupOf DEF Group, S
  <2>6. At(q) + 1 = n
    BY <2>3, <2>4, <2>5 DEF At
  <2>7. E(q) \in Entries /\ E(q).conv = c /\ E(q).row.index + 1 = n
    BY <1>2, <2>5, <2>6
  <2>8. last[c] = CHOOSE e \in Entries : e.conv = c /\ e.row.index + 1 = n
    BY <1>5 DEF last
  <2> HIDE DEF n
  <2>9. last[c] \in Entries /\ last[c].conv = c /\ last[c].row.index + 1 = n
    BY <2>7, <2>8
  <2> QED
    BY <1>2, <2>9 DEF n
<1>14. /\ DOMAIN meta' = {Conv(p) : p \in S} /\ DOMAIN home' = DOMAIN meta'
       /\ \A c \in DOMAIN meta' : /\ meta'[c].next = Cardinality(Group(c))
                                  /\ meta'[c].count = Cardinality(Group(c))
  BY <1>11, <1>12
<1>15. ASSUME NEW c \in DOMAIN meta'
       PROVE  \E p \in S : /\ Conv(p) = c /\ At(p) + 1 = Cardinality(Group(c))
                           /\ home'[c] = Snapshot(p)
  BY <1>2, <1>12, <1>13
<1>16. rows' = rows
  BY <1>1
<1> QED
  BY <1>8, <1>9, <1>10, <1>14, <1>15, <1>16 DEF S

\* A backfill leaves the calls, which have ended, and the rows as they are.
LEMMA OfflineKeeps ==
    ASSUME CInv, KInv, Backfill \/ BackfillInterrupted
    PROVE  RowsNamed' /\ CallsNamed' /\ Reserved' /\ Fitting'
<1>1. /\ rows' = rows /\ homepage' = homepage /\ profiles' = profiles /\ pc' = pc /\ ~up
  BY DEF Backfill, BackfillInterrupted
<1>2. \A w \in Workers : pc'[w] = "idle"
  BY <1>1 DEF CInv, PTypes
<1>3. RowsNamed'
  BY <1>1 DEF KInv, RowsNamed, Named, StorageKey
<1>4. CallsNamed' /\ Reserved' /\ Fitting'
  BY <1>2 DEF CallsNamed, Reserved, Fitting
<1> QED
  BY <1>3, <1>4

\* What it builds is in step with the rows.
LEMMA BackfillModels ==
    ASSUME CInv, KInv, Backfill
    PROVE  Modelled'
<1> DEFINE S == DOMAIN pinIndex
<1>1. /\ rows' = rows /\ DOMAIN pinIndex' = S
      /\ \A p \in S : pinIndex'[p] = pinIndex[p]
      /\ DOMAIN locator' = S
      /\ \A p \in S : locator'[p].conv = Conv(p) /\ locator'[p].index = At(p)
      /\ DOMAIN byIndex' = {NewSpot(p) : p \in S} /\ DOMAIN byTime' = {NewMoment(p) : p \in S}
      /\ \A p \in S : byIndex'[NewSpot(p)] = Snapshot(p) /\ byTime'[NewMoment(p)] = Snapshot(p)
      /\ DOMAIN meta' = {Conv(p) : p \in S} /\ DOMAIN home' = DOMAIN meta'
      /\ \A c \in DOMAIN meta' : /\ meta'[c].next = Cardinality(Group(c))
                                 /\ meta'[c].count = Cardinality(Group(c))
      /\ \A c \in DOMAIN meta' : \E p \in S :
            Conv(p) = c /\ At(p) + 1 = Cardinality(Group(c)) /\ home'[c] = Snapshot(p)
  BY BackfillIs DEF KInv
<1>2. /\ \A p \in S : /\ pinIndex[p] \in Group(Conv(p)) /\ p \in Pins
                      /\ Snapshot(p).pin = p /\ Snapshot(p).time = Row(p).time
                      /\ Snapshot(p).confirmed = Row(p).confirmed /\ Snapshot(p).index = At(p)
      /\ \A k \in DOMAIN rows : rows[k].pin \in S /\ pinIndex[rows[k].pin] = k
      /\ \A p, q \in S : NewSpot(p) = NewSpot(q) => p = q
  BY GroupOf DEF KInv
<1> HIDE DEF S
<1>3. ASSUME NEW p \in S
      PROVE  /\ At(p) \in Nat /\ At(p) < Cardinality(Group(Conv(p)))
             /\ Cardinality(Group(Conv(p))) \in Nat
             /\ Spot(p)' = NewSpot(p) /\ Row(p)' = Row(p) /\ Moment(p)' = NewMoment(p)
             /\ Row(p).time \in Nat
  <2>1. At(p) \in 0 .. Cardinality(Group(Conv(p))) - 1 /\ Cardinality(Group(Conv(p))) \in Nat
    BY <1>2, GroupRanks DEF At
  <2>2. At(p) \in Nat /\ At(p) < Cardinality(Group(Conv(p)))
    BY <2>1
  <2>3. Row(p)' = Row(p)
    BY <1>1 DEF Row
  <2>4. Row(p).time \in Nat
    BY DEF Row, CInv, Indexed, IsRow, S
  <2> QED
    BY <1>1, <2>1, <2>2, <2>3, <2>4 DEF Spot, Moment, NewSpot, NewMoment
<1>4. Placed'
  <2>1. ASSUME NEW p \in S
        PROVE  /\ locator'[p].conv = Conv(p) /\ locator'[p].index \in Nat
               /\ Conv(p) \in DOMAIN meta' /\ locator'[p].index < meta'[Conv(p)].next
    <3>1. Conv(p) \in DOMAIN meta' /\ meta'[Conv(p)].next = Cardinality(Group(Conv(p)))
      BY <1>1
    <3> QED
      BY <1>1, <1>3, <3>1
  <2>2. \A p, q \in S : Spot(p)' = Spot(q)' => p = q
    BY <1>2, <1>3
  <2> QED
    BY <1>1, <2>1, <2>2 DEF Placed, Spot
<1>5. Shown'
  <2>1. DOMAIN byIndex' = {Spot(p)' : p \in S} /\ DOMAIN byTime' = {Moment(p)' : p \in S}
    BY <1>1, <1>3
  <2>2. ASSUME NEW p \in S
        PROVE  /\ byIndex'[Spot(p)'] = Snapshot(p) /\ byTime'[Moment(p)'] = Snapshot(p)
               /\ Snapshot(p).pin = p /\ Snapshot(p).time = Row(p)'.time
               /\ Snapshot(p).confirmed = Row(p)'.confirmed /\ Snapshot(p).index = locator'[p].index
    BY <1>1, <1>2, <1>3
  <2>3. \A p \in S : Shows(byIndex[Spot(p)], p)' /\ Shows(byTime[Moment(p)], p)'
    BY <2>2 DEF Shows
  <2>4. DOMAIN locator' = S
    BY <1>1
  <2> HIDE DEF S
  <2> QED
    BY <2>1, <2>3, <2>4 DEF Shown, Spot, Moment, Row
<1>6. ASSUME NEW c
      PROVE  Cardinality(OfConv(c)') = Cardinality(Group(c))
  <2> DEFINE T == {p \in S : Conv(p) = c}
             f == [p \in T |-> pinIndex[p]]
  <2>1. OfConv(c)' = T
    BY <1>1 DEF OfConv
  <2>2. f \in [T -> Group(c)]
    BY <1>2
  <2>3. \A p, q \in T : pinIndex[p] = pinIndex[q] => p = q
    BY DEF CInv, Indexed, S
  <2>4. f \in Injection(T, Group(c))
    BY <2>2, <2>3 DEF Injection, IsInjective
  <2>5. f \in Surjection(T, Group(c))
    BY <1>2, <2>2 DEF Surjection, Group
  <2>6. IsFiniteSet(Group(c))
    BY GroupRanks
  <2> HIDE DEF f, T
  <2> QED
    BY <2>1, <2>4, <2>5, <2>6, FS_Injection
<1>7. Counts'
  <2>1. ASSUME NEW c \in DOMAIN meta'
        PROVE  /\ meta'[c].next \in Nat /\ meta'[c].count = meta'[c].next
               /\ Cardinality(OfConv(c)') = meta'[c].next
    BY <1>1, <1>6, GroupRanks
  <2> QED
    BY <2>1 DEF Counts, OfConv
\* The last message of a conversation is not older than any of it.
<1>8. ASSUME NEW p \in S, NEW q \in S, Conv(p) = Conv(q), At(q) + 1 = Cardinality(Group(Conv(q)))
      PROVE  Later(Snapshot(q), Snapshot(p))
  <2> DEFINE c == Conv(q)
  <2>1. pinIndex[p] \in Group(c) /\ pinIndex[q] \in Group(c)
    BY <1>2, <1>8
  <2>2. At(p) <= At(q) /\ At(p) = Rank(c, pinIndex[p]) /\ At(q) = Rank(c, pinIndex[q])
    BY <1>3, <1>8 DEF At
  <2>3. ~Before(pinIndex[q], pinIndex[p])
    <3>1. Before(pinIndex[q], pinIndex[p]) => At(q) < At(p)
      BY <2>1, <2>2, GroupRanks
    <3> QED
      BY <1>3, <2>2, <3>1
  <2>4. ~(Row(q).time < Row(p).time)
    BY <2>3 DEF Before, Row
  <2> QED
    BY <1>2, <1>3, <2>2, <2>4 DEF Later
<1>9. Homes'
  <2>1. ASSUME NEW c \in DOMAIN meta'
        PROVE  \E q \in OfConv(c)' : home'[c] = byIndex'[Spot(q)']
    <3>1. PICK q \in S : Conv(q) = c /\ home'[c] = Snapshot(q)
      BY <1>1
    <3> QED
      BY <1>1, <1>3, <3>1 DEF OfConv
  <2>2. ASSUME NEW p \in S PROVE Later(home'[Conv(p)], byIndex'[Spot(p)'])
    <3>1. PICK q \in S : /\ Conv(q) = Conv(p) /\ At(q) + 1 = Cardinality(Group(Conv(p)))
                         /\ home'[Conv(p)] = Snapshot(q)
      BY <1>1
    <3>2. Later(Snapshot(q), Snapshot(p))
      BY <1>8, <3>1
    <3> QED
      BY <1>1, <1>3, <3>1, <3>2
  <2> QED
    BY <1>1, <2>1, <2>2 DEF Homes, OfConv, Spot, Later
<1> QED
  BY <1>4, <1>5, <1>7, <1>9 DEF Modelled

\* A backfill keeps the invariant, or leaves the read model unused.
LEMMA BackfillKeeps ==
    ASSUME CInv, KInv, Backfill \/ BackfillInterrupted
    PROVE  KInv'
<1>1. CASE Backfill
  BY <1>1, OfflineKeeps, BackfillModels DEF KInv
<1>2. CASE BackfillInterrupted
  <2>1. Modelled'
    BY <1>2 DEF BackfillInterrupted, Modelled, Ready
  <2> QED
    BY <1>2, <2>1, OfflineKeeps DEF KInv
<1> QED
  BY <1>1, <1>2

-----------------------------------------------------------------------------
(* The read model is right *)

\* Nothing is stored in the beginning.
LEMMA InitKInv == InitC => KInv
BY DEF InitC, Empty, KInv, RowsNamed, CallsNamed, Reserved, Fitting, Modelled, Ready

\* Every step keeps the invariant, as long as no profile becomes known.
LEMMA StepKInv ==
    ASSUME Learnable = {}, CInv, CInv', KInv, [NextC]_cvars
    PROVE  KInv'
<1>1. ASSUME NEW w \in Workers, NEW p \in Pins, Begin(w, p) PROVE KInv'
  BY <1>1, BeginKeeps
<1>2. ASSUME NEW w \in Workers, Lock(w) PROVE KInv'
  BY <1>2, LockKeeps
<1>3. ASSUME NEW w \in Workers, Load(w) PROVE KInv'
  BY <1>3, LoadKeeps
<1>4. ASSUME NEW w \in Workers, Commit(w) PROVE KInv'
  BY <1>4, CommitKeeps
<1>5. CASE \E w \in Workers : Reject(w) \/ StoreFails(w) \/ Notify(w)
  BY <1>5, OthersKeep
<1>6. CASE StartProcess \/ StopProcess \/ Push \/ UNCHANGED cvars
  BY <1>6, OthersKeep
<1>7. CASE Backfill \/ BackfillInterrupted
  BY <1>7, BackfillKeeps
<1> QED
  BY <1>1, <1>2, <1>3, <1>4, <1>5, <1>6, <1>7 DEF NextC

\* The positions of a conversation.
LEMMA PositionsFollow ==
    ASSUME CInv, KInv
    PROVE  IndexContinuous
<1> SUFFICES ASSUME Ready
             PROVE  /\ \A x \in DOMAIN byIndex : x[1] \in DOMAIN meta
                    /\ \A c \in DOMAIN meta :
                          /\ meta[c].count = meta[c].next
                          /\ {x[2] : x \in {y \in DOMAIN byIndex : y[1] = c}}
                                = 0 .. meta[c].next - 1
                          /\ meta[c].next
                                = Cardinality({p \in DOMAIN locator : locator[p].conv = c})
  BY DEF IndexContinuous
<1>1. Placed /\ Shown /\ Counts
  BY DEF KInv, Modelled
<1>2. \A p \in DOMAIN locator : Spot(p)[1] = Conv(p) /\ Spot(p)[2] = locator[p].index
  BY DEF Spot
<1>3. \A x \in DOMAIN byIndex : x[1] \in DOMAIN meta
  BY <1>1, <1>2 DEF Shown, Placed
<1>4. ASSUME NEW c \in DOMAIN meta
      PROVE  /\ meta[c].count = meta[c].next
             /\ {x[2] : x \in {y \in DOMAIN byIndex : y[1] = c}} = 0 .. meta[c].next - 1
             /\ meta[c].next = Cardinality({p \in DOMAIN locator : locator[p].conv = c})
  <2> DEFINE T == OfConv(c)
             n == meta[c].next
             f == [p \in T |-> locator[p].index]
  <2>1. n \in Nat /\ Cardinality(T) = n /\ meta[c].count = n
    BY <1>1 DEF Counts
  <2>2. {p \in DOMAIN locator : locator[p].conv = c} = T
    BY <1>1 DEF Placed, OfConv
  <2>3. f \in [T -> 0 .. n - 1]
    BY <1>1, <2>1 DEF Placed, OfConv
  <2>4. f \in Injection(T, 0 .. n - 1)
    BY <1>1, <2>3 DEF Placed, OfConv, Spot, Injection, IsInjective
  <2>5. IsFiniteSet(0 .. n - 1) /\ Cardinality(0 .. n - 1) = n
    BY <2>1, FS_Interval
  <2>6. {x[2] : x \in {y \in DOMAIN byIndex : y[1] = c}} = {locator[p].index : p \in T}
    <3>1. DOMAIN byIndex = {Spot(p) : p \in DOMAIN locator}
      BY <1>1 DEF Shown
    <3> QED
      BY <1>2, <3>1 DEF OfConv
  <2> HIDE DEF n, T, f
  <2>7. f \in Surjection(T, 0 .. n - 1)
    BY <2>1, <2>4, <2>5, FS_Injection
  <2>8. {locator[p].index : p \in T} = 0 .. n - 1
    BY <2>3, <2>7 DEF f, Surjection
  <2> QED
    BY <2>1, <2>2, <2>6, <2>8 DEF n, T
<1> QED
  BY <1>3, <1>4

\* There is a snapshot of each kind for every row.
LEMMA SnapshotsCount ==
    ASSUME CInv, KInv, Ready
    PROVE  /\ Cardinality(DOMAIN byIndex) = Cardinality(DOMAIN rows)
           /\ Cardinality(DOMAIN byTime) = Cardinality(DOMAIN rows)
<1> DEFINE S == DOMAIN locator
           f == [p \in S |-> Spot(p)]
           g == [p \in S |-> Moment(p)]
<1>1. Placed /\ Shown
  BY DEF KInv, Modelled
<1>2. IsFiniteSet(S) /\ Cardinality(DOMAIN rows) = Cardinality(S)
  BY <1>1, RowsFinite DEF Placed
<1>3. \A p, q \in S : Moment(p) = Moment(q) => Spot(p) = Spot(q)
  BY DEF Moment, Spot
<1>4. f \in Surjection(S, DOMAIN byIndex) /\ f \in Injection(S, DOMAIN byIndex)
  BY <1>1 DEF Placed, Shown, Surjection, Injection, IsInjective
<1>5. g \in Surjection(S, DOMAIN byTime) /\ g \in Injection(S, DOMAIN byTime)
  BY <1>1, <1>3 DEF Placed, Shown, Surjection, Injection, IsInjective
<1> HIDE DEF S, f, g
<1>6. Cardinality(DOMAIN byIndex) = Cardinality(S)
  BY <1>2, <1>4, FS_Surjection
<1>7. Cardinality(DOMAIN byTime) = Cardinality(S)
  BY <1>2, <1>5, FS_Surjection
<1> QED
  BY <1>2, <1>6, <1>7

\* The read model shows what is stored.
LEMMA ReadModelFollows ==
    ASSUME CInv, KInv
    PROVE  ReadModelAgrees
<1>1. ASSUME NEW k \in DOMAIN rows PROVE rows[k].pin \in homepage[rows[k].from[1]]
  BY DEF KInv, RowsNamed, Named, From
<1> SUFFICES ASSUME Ready
             PROVE  /\ \A k \in DOMAIN rows :
                          /\ rows[k].pin \in DOMAIN locator
                          /\ LET l == locator[rows[k].pin]
                                 byi == <<l.conv, l.index>>
                                 byt == <<l.conv, rows[k].time, l.index>>
                             IN  /\ l.key = k
                                 /\ byi \in DOMAIN byIndex /\ SameMessage(byIndex[byi], rows[k])
                                 /\ byt \in DOMAIN byTime /\ SameMessage(byTime[byt], rows[k])
                    /\ \A c \in DOMAIN meta :
                          /\ \E x \in DOMAIN byIndex : x[1] = c /\ byIndex[x] = home[c]
                          /\ \A x \in DOMAIN byIndex : x[1] = c =>
                                \/ byIndex[x].time < home[c].time
                                \/ byIndex[x].time = home[c].time /\ x[2] <= home[c].index
  BY <1>1, SnapshotsCount DEF ReadModelAgrees
<1>2. Placed /\ Shown /\ Homes
  BY DEF KInv, Modelled
<1>3. ASSUME NEW k \in DOMAIN rows
      PROVE  LET p == rows[k].pin
             IN  /\ p \in DOMAIN locator /\ locator[p].key = k
                 /\ <<locator[p].conv, locator[p].index>> = Spot(p)
                 /\ <<locator[p].conv, rows[k].time, locator[p].index>> = Moment(p)
                 /\ Spot(p) \in DOMAIN byIndex /\ SameMessage(byIndex[Spot(p)], rows[k])
                 /\ Moment(p) \in DOMAIN byTime /\ SameMessage(byTime[Moment(p)], rows[k])
  <2> DEFINE p == rows[k].pin
  <2>1. p \in DOMAIN pinIndex /\ pinIndex[p] = k /\ Row(p) = rows[k]
    BY DEF CInv, Indexed, Row
  <2>2. p \in DOMAIN locator /\ locator[p].conv = Conv(p)
    BY <1>2, <2>1 DEF Placed
  <2>3. locator[p].key = k
    BY <2>1, <2>2 DEF CInv, Located
  <2>4. /\ Spot(p) \in DOMAIN byIndex /\ Shows(byIndex[Spot(p)], p)
        /\ Moment(p) \in DOMAIN byTime /\ Shows(byTime[Moment(p)], p)
    BY <1>2, <2>2 DEF Shown
  <2> QED
    BY <2>1, <2>2, <2>3, <2>4 DEF Spot, Moment, Shows, SameMessage
<1>4. ASSUME NEW c \in DOMAIN meta
      PROVE  /\ \E x \in DOMAIN byIndex : x[1] = c /\ byIndex[x] = home[c]
             /\ \A x \in DOMAIN byIndex : x[1] = c =>
                   \/ byIndex[x].time < home[c].time
                   \/ byIndex[x].time = home[c].time /\ x[2] <= home[c].index
  <2>1. PICK p \in OfConv(c) : home[c] = byIndex[Spot(p)]
    BY <1>2 DEF Homes
  <2>2. \A q \in DOMAIN locator : /\ Spot(q) \in DOMAIN byIndex /\ Spot(q)[1] = Conv(q)
                                  /\ Spot(q)[2] = byIndex[Spot(q)].index
                                  /\ byIndex[Spot(q)].index \in Nat /\ byIndex[Spot(q)].time \in Nat
    <3>1. ASSUME NEW q \in DOMAIN locator PROVE Shows(byIndex[Spot(q)], q) /\ Row(q).time \in Nat
      BY <1>2 DEF Shown, Placed, CInv, Indexed, IsRow, Row
    <3> QED
      BY <1>2, <3>1 DEF Shown, Placed, Shows, Spot
  <2>3. ASSUME NEW x \in DOMAIN byIndex, x[1] = c
        PROVE  \/ byIndex[x].time < home[c].time
               \/ byIndex[x].time = home[c].time /\ x[2] <= home[c].index
    <3>1. PICK q \in DOMAIN locator : x = Spot(q)
      BY <1>2 DEF Shown
    <3>2. Later(home[c], byIndex[Spot(q)])
      BY <1>2, <2>2, <2>3, <3>1 DEF Homes
    <3> QED
      BY <2>1, <2>2, <3>1, <3>2 DEF Later, OfConv
  <2> QED
    BY <2>1, <2>2, <2>3 DEF OfConv
<1> QED
  BY <1>3, <1>4

\* A stored message keeps its time and its confirmation, and its place.
LEMMA MessageStays ==
    ASSUME Learnable = {}, CInv, CInv', KInv, [NextC]_cvars
    PROVE  /\ \A p \in DOMAIN pinIndex :
                 /\ Row(p)'.pin = p => (Row(p).confirmed => Row(p)'.confirmed)
                 /\ Row(p)'.time = Row(p).time
           /\ Ready /\ up => \A p \in DOMAIN locator :
                 /\ p \in DOMAIN locator'
                 /\ locator'[p].conv = locator[p].conv
                 /\ locator'[p].index = locator[p].index
<1>1. ASSUME NEW w \in Workers, Commit(w)
      PROVE  /\ \A p \in DOMAIN pinIndex :
                   (Row(p).confirmed => Row(p)'.confirmed) /\ Row(p)'.time = Row(p).time
             /\ Ready => \A p \in DOMAIN locator :
                   /\ p \in DOMAIN locator'
                   /\ locator'[p].conv = locator[p].conv
                   /\ locator'[p].index = locator[p].index
  <2>1. PICK b, m : b = batch[w] /\ m = call[w].pin
    OBVIOUS
  <2>2. /\ Fits(b, m) /\ Row(m)' = b.row
        /\ \A q \in DOMAIN pinIndex : q # m => Row(q)' = Row(q)
    <3>1. Saved(b, m)
      BY <1>1, <2>1, CommitRows
    <3> QED
      BY <3>1 DEF Saved
  <2>3. m \in DOMAIN pinIndex => b.row.time = Row(m).time /\ (Row(m).confirmed => b.row.confirmed)
    BY <2>2 DEF Fits
  <2>4. ASSUME NEW p \in DOMAIN pinIndex
        PROVE  (Row(p).confirmed => Row(p)'.confirmed) /\ Row(p)'.time = Row(p).time
    <3>1. CASE p = m
      BY <2>2, <2>3, <3>1
    <3>2. CASE p # m
      BY <2>2, <3>2
    <3> QED
      BY <3>1, <3>2
  <2>5. ASSUME Ready, NEW p \in DOMAIN locator
        PROVE  /\ p \in DOMAIN locator'
               /\ locator'[p].conv = locator[p].conv
               /\ locator'[p].index = locator[p].index
    <3>0. PICK c, i, t : c = Conv(m) /\ i = b.row.index /\ t = b.row.time
      OBVIOUS
    <3>1. Written(b, m, c, i, t)
      BY <1>1, <2>1, <2>5, <3>0, CommitModel
    <3>2. locator[p].conv = Conv(p) /\ p \in DOMAIN pinIndex
      BY <2>5 DEF KInv, Modelled, Placed
    <3>3. p = m => i = locator[p].index
      BY <2>2, <2>5, <3>0, <3>2 DEF Fits
    <3> QED
      BY <3>0, <3>1, <3>2, <3>3 DEF Written
  <2> QED
    BY <2>4, <2>5
<1>2. CASE Backfill \/ BackfillInterrupted
  <2>1. rows' = rows /\ ~up /\ \A p \in DOMAIN pinIndex : pinIndex'[p] = pinIndex[p]
    BY <1>2, BackfillIs DEF KInv, BackfillInterrupted, Backfill
  <2> QED
    BY <2>1 DEF Row
<1>3. ASSUME Still
      PROVE  /\ \A p \in DOMAIN pinIndex : Row(p)' = Row(p)
             /\ locator' = locator
  BY <1>3 DEF Still, disk, derived, Row
<1>4. \/ Still \/ Backfill \/ BackfillInterrupted \/ \E w \in Workers : Commit(w)
  BY DEF NextC, StartProcess, StopProcess, Push, Begin, Lock, Load, Reject, StoreFails, Notify,
         cvars, Still, disk, derived
<1> QED
  BY <1>1, <1>2, <1>3, <1>4

\* The positions of a conversation are 0, 1, 2, ... without a gap and no two
\* messages share one (nextPrivateMessageIndex, writeReadModelEntries and the
\* backfill), as long as no profile becomes known after the first message.
THEOREM PositionsHaveNoGap ==
    DistinctTx /\ Learnable = {} => (SpecC => []IndexContinuous)
<1> SUFFICES ASSUME DistinctTx, Learnable = {} PROVE SpecC => []IndexContinuous
  OBVIOUS
<1>1. CInv /\ [NextC]_cvars => CInv'
  BY StepCInv
<1>2. CInv /\ CInv' /\ KInv /\ [NextC]_cvars => KInv'
  BY StepKInv
<1>3. CInv /\ KInv => IndexContinuous
  BY PositionsFollow
<1> QED
  BY <1>1, <1>2, <1>3, InitCInv, InitKInv, PTL DEF SpecC

\* What the readers of the read model see is what is stored: every row with its
\* confirmation, under its position and its time, the latest message of each
\* conversation, and no message missing from its sender's homepage list
\* (savePrivateMessageUnlocked and the backfill).
THEOREM ReadersSeeTheRows ==
    DistinctTx /\ Learnable = {} => (SpecC => []ReadModelAgrees)
<1> SUFFICES ASSUME DistinctTx, Learnable = {} PROVE SpecC => []ReadModelAgrees
  OBVIOUS
<1>1. CInv /\ [NextC]_cvars => CInv'
  BY StepCInv
<1>2. CInv /\ CInv' /\ KInv /\ [NextC]_cvars => KInv'
  BY StepKInv
<1>3. CInv /\ KInv => ReadModelAgrees
  BY ReadModelFollows
<1> QED
  BY <1>1, <1>2, <1>3, InitCInv, InitKInv, PTL DEF SpecC

\* Whatever order the block and the mempool observation of a message are
\* handled in, it stays confirmed once it is, keeps the time of its first
\* delivery and, while the service runs, its position (UpsertPrivateMessage).
THEOREM MessagesKeepTheirPlace ==
    DistinctTx /\ Learnable = {} => (SpecC => StoredMessageIsKept)
<1> SUFFICES ASSUME DistinctTx, Learnable = {} PROVE SpecC => StoredMessageIsKept
  OBVIOUS
<1>1. CInv /\ [NextC]_cvars => CInv'
  BY StepCInv
<1>2. CInv /\ CInv' /\ KInv /\ [NextC]_cvars => KInv'
  BY StepKInv
<1>3. CInv /\ CInv' /\ KInv /\ [NextC]_cvars =>
        [/\ \A p \in DOMAIN pinIndex :
               /\ Row(p)'.pin = p => (Row(p).confirmed => Row(p)'.confirmed)
               /\ Row(p)'.time = Row(p).time
         /\ Ready /\ up => \A p \in DOMAIN locator :
               /\ p \in DOMAIN locator'
               /\ locator'[p].conv = locator[p].conv
               /\ locator'[p].index = locator[p].index]_cvars
  BY MessageStays
<1> QED
  BY <1>1, <1>2, <1>3, InitCInv, InitKInv, PTL DEF SpecC, StoredMessageIsKept

=============================================================================
