---------------------------- MODULE PrivateChat -----------------------------
(***************************************************************************)
(* The private chat aggregator (internal/aggregator/privatechat): what the *)
(* two goroutines of the engine, the block scanner and the mempool poller, *)
(* do with a simplemsg pin. A call derives the names of both parties from  *)
(* the profiles known at that moment, takes the conversation and alias     *)
(* locks, reads what is stored, commits one atomic batch, releases the     *)
(* locks and, when the message is new, puts an event on a bounded channel. *)
(*                                                                         *)
(* The source rows ("pchat:") are the truth; the read model ("pchat-idx",  *)
(* "-time", "-meta", "-loc", "-home") is derived and used only once an     *)
(* offline backfill has marked it ready. Pin ids are ordered strings in    *)
(* the code and numbers here. The limit of the homepage list and the three *)
(* aliases of a sender, which always go together, are abstracted.          *)
(***************************************************************************)
EXTENDS Integers, Sequences, FiniteSets, Functions

CONSTANTS
    Users,
    Pins,          \* the simplemsg pins, numbers
    Sender,        \* [Pins -> Users]
    Recipient,     \* [Pins -> Users]
    ToForm,        \* [Pins -> {"metaid", "global"}]: what the "to" field holds
    TxOf,          \* [Pins -> Nat]: transaction of a pin
    PollTime,      \* [Pins -> Nat]: time.Now() of the poll that finds a pin
    BlockTime,     \* [Pins -> Nat]: timestamp of the block that holds it
    Known,         \* users whose profile is stored from the start
    Learnable,     \* users whose profile is indexed later
    Scanner, Poller,
    ChannelCap,    \* capacity of notifyCh (256 in the code)
    MaxFaults,     \* bound: stops of the process and failed store operations
    None

Workers == {Scanner, Poller}

ASSUME ChatAssumption ==
    /\ Pins \subseteq Nat /\ IsFiniteSet(Pins)
    /\ Sender \in [Pins -> Users] /\ Recipient \in [Pins -> Users]
    /\ \A p \in Pins : Sender[p] # Recipient[p]
    /\ ToForm \in [Pins -> {"metaid", "global"}]
    /\ TxOf \in [Pins -> Nat]
    /\ PollTime \in [Pins -> Nat \ {0}] /\ BlockTime \in [Pins -> Nat \ {0}]
    /\ Known \subseteq Users /\ Learnable \subseteq Users
    /\ Scanner # Poller
    /\ ChannelCap \in Nat \ {0} /\ MaxFaults \in Nat
    /\ None \notin [names : SUBSET (Users \X {"metaid", "global"}), time : Nat, tx : Nat]

VARIABLES
    rows,      \* pchat: source rows by storage key
    pinIndex,  \* storage key by pin
    state,     \* durable gate of the read model: "absent", "building", "ready"
    byIndex,   \* pchat-idx: message snapshot by <<conversation, index>>
    byTime,    \* pchat-time: message snapshot by <<conversation, time, index>>
    meta,      \* pchat-meta: [next, count, latest] by conversation
    locator,   \* pchat-loc: [key, conv, index] by pin
    home,      \* pchat-home: snapshot of the latest message by conversation
    homepage,  \* materialized homepage list of a sender
    profiles,  \* users whose profile the userinfo aggregator holds
    up,        \* the process is running
    pc,        \* where each goroutine stands
    call,      \* the message a goroutine is handling
    wanted,    \* the locks it still has to take, in order
    locked,    \* the locks it holds
    batch,     \* the atomic batch it is about to commit
    channel,   \* notifyCh
    pushed,    \* history: how often a pin was handed to the socket layer, 0..2
    dropped,   \* history: pins whose event was lost, to a full channel or a stop
    faults

work == <<call, wanted, locked, batch>>
derived == <<byIndex, byTime, meta, locator, home>>
disk == <<rows, pinIndex, state, derived, homepage>>
cvars == <<rows, pinIndex, state, byIndex, byTime, meta, locator, home, homepage,
           profiles, up, pc, work, channel, pushed, dropped, faults>>

Empty == [x \in {} |-> None]

InitC ==
    /\ rows = Empty /\ pinIndex = Empty
    /\ state = "absent"
    /\ byIndex = Empty /\ byTime = Empty /\ meta = Empty
    /\ locator = Empty /\ home = Empty
    /\ homepage = [u \in Users |-> {}]
    /\ profiles = Known
    /\ up = FALSE
    /\ pc = [w \in Workers |-> "idle"]
    /\ call = [w \in Workers |-> None]
    /\ wanted = [w \in Workers |-> <<>>]
    /\ locked = [w \in Workers |-> {}]
    /\ batch = [w \in Workers |-> None]
    /\ channel = <<>>
    /\ pushed = [p \in Pins |-> 0]
    /\ dropped = {}
    /\ faults = 0

-----------------------------------------------------------------------------
(* Names, conversations and keys.                                          *)

Ready == state = "ready"

\* canonicalizePrivateMessage: a profile replaces the name by its metaid.
CanonicalName(name) == IF name[1] \in profiles THEN <<name[1], "metaid">> ELSE name

\* canonicalParticipant: the globalMetaId of the profile, else the stored name.
Participant(name) == IF name[1] \in profiles THEN <<name[1], "global">> ELSE name

ConversationOf(row) == {Participant(row.from), Participant(row.to)}

\* identityAliases: the name and, with a profile, its other forms.
Aliases(name) ==
    {name} \cup (IF name[1] \in profiles THEN {name[1]} \X {"metaid", "global"} ELSE {})

\* pchatKey: both names in order, the time, the transaction.
StorageKey(row) == [names |-> {row.from, row.to}, time |-> row.time, tx |-> TxOf[row.pin]]

\* canonicalizePrivateMessageForDelivery rejects a recipient that is still a
\* bare metaid.
Deliverable(p) == ToForm[p] = "global" \/ Recipient[p] \in profiles

Message(w, p) ==
    [pin |-> p,
     from |-> CanonicalName(<<Sender[p], "metaid">>),
     to |-> CanonicalName(<<Recipient[p], ToForm[p]>>),
     time |-> IF w = Scanner THEN BlockTime[p] ELSE PollTime[p],
     index |-> -1,
     confirmed |-> w = Scanner]

-----------------------------------------------------------------------------
(* The process.                                                            *)

\* Init of the module reads the gate of the read model.
StartProcess ==
    /\ ~up
    /\ up' = TRUE
    /\ UNCHANGED <<disk, profiles, pc, work, channel, pushed, dropped, faults>>

\* Events that were not handed over yet are lost with the process.
Undelivered ==
    Range(channel) \cup {call[w].pin : w \in {v \in Workers : pc[v] = "notify"}}

StopProcess ==
    /\ up
    /\ faults < MaxFaults
    /\ faults' = faults + 1
    /\ up' = FALSE
    /\ pc' = [w \in Workers |-> "idle"]
    /\ call' = [w \in Workers |-> None]
    /\ wanted' = [w \in Workers |-> <<>>]
    /\ locked' = [w \in Workers |-> {}]
    /\ batch' = [w \in Workers |-> None]
    /\ channel' = <<>>
    /\ dropped' = dropped \cup Undelivered
    /\ UNCHANGED <<disk, profiles, pushed>>

\* The userinfo aggregator stores the profile of u: from a pin handled by the
\* other goroutine, or for an API request it completed remotely.
LearnProfile(u) ==
    /\ up
    /\ u \in Learnable \ profiles
    /\ profiles' = profiles \cup {u}
    /\ UNCHANGED <<disk, up, pc, work, channel, pushed, dropped, faults>>

-----------------------------------------------------------------------------
(* Stored functions.                                                       *)

Put(f, k, v) == [x \in DOMAIN f \cup {k} |-> IF x = k THEN v ELSE f[x]]
Without(f, S) == Restrict(f, DOMAIN f \ S)
Get(f, k, default) == IF k \in DOMAIN f THEN f[k] ELSE default

\* The order of the rows and of the home snapshots: time, then position.
Later(r, s) == r.time > s.time \/ (r.time = s.time /\ r.index >= s.index)

NoMeta == [next |-> 0, count |-> 0, latest |-> 0]

-----------------------------------------------------------------------------
(* One call of HandleBlockPin or HandleMempoolPin.                         *)

\* Mutant: the conversation locks are released before the row is written.
Locks_NoConversation(msg) == <<<<"alias", msg.from[1]>>>>

\* Mutant: the keys are not sorted, the order depends on the caller.
Locks_Unsorted(msg) ==
    LET names == <<"names", {msg.from, msg.to}>>
        conversation == <<"conversation", ConversationOf(msg)>>
    IN  IF msg.confirmed THEN <<names, conversation>> ELSE <<conversation, names>>

\* The locks of UpsertPrivateMessage in the order it takes them: the pair of
\* names and the conversation, sorted, then the aliases of the sender.
Locks(msg) ==
    <<<<"names", {msg.from, msg.to}>>,
      <<"conversation", ConversationOf(msg)>>,
      <<"alias", msg.from[1]>>>>

\* handlePrivateChat: parse, canonicalize, derive the lock keys.
Begin(w, p) ==
    /\ up
    /\ pc[w] = "idle"
    /\ Deliverable(p)
    /\ call' = [call EXCEPT ![w] = Message(w, p)]
    /\ wanted' = [wanted EXCEPT ![w] = Locks(Message(w, p))]
    /\ pc' = [pc EXCEPT ![w] = "lock"]
    /\ UNCHANGED <<disk, profiles, up, locked, batch, channel, pushed, dropped, faults>>

Lock(w) ==
    /\ pc[w] = "lock" /\ wanted[w] # <<>>
    /\ \A v \in Workers \ {w} : Head(wanted[w]) \notin locked[v]
    /\ locked' = [locked EXCEPT ![w] = @ \cup {Head(wanted[w])}]
    /\ wanted' = [wanted EXCEPT ![w] = Tail(@)]
    /\ UNCHANGED <<disk, profiles, up, pc, call, batch, channel, pushed, dropped, faults>>

\* Nothing is stored of the message.
Absent == [key |-> None, row |-> None]

\* Mutant: only the row under the message's own key is looked up.
Existing_ByOwnKey(msg) ==
    LET own == StorageKey(msg)
    IN  IF own \in DOMAIN rows /\ rows[own].pin = msg.pin
        THEN [key |-> own, row |-> rows[own]]
        ELSE Absent

\* Mutant: the position in the stored row is believed, not the locator's.
Existing_RowIndex(msg) ==
    LET key == Get(pinIndex, msg.pin, None)
    IN  IF key \in DOMAIN rows THEN [key |-> key, row |-> rows[key]] ELSE Absent

\* privateMessageByPin, then the row under the message's own key.
Existing(msg) ==
    LET located == Ready /\ msg.pin \in DOMAIN locator
        key == IF located THEN locator[msg.pin].key ELSE Get(pinIndex, msg.pin, None)
        own == StorageKey(msg)
    IN  IF key \in DOMAIN rows
        THEN [key |-> key,
              row |-> IF located
                      THEN [rows[key] EXCEPT !.index = locator[msg.pin].index]
                      ELSE rows[key]]
        ELSE IF own \in DOMAIN rows /\ rows[own].pin = msg.pin
             THEN [key |-> own, row |-> rows[own]]
             ELSE Absent

\* nextPrivateMessageIndex, used until the read model is ready: the number of
\* messages stored between any alias of one party and any of the other.
LegacyNextIndex(msg) ==
    Cardinality({rows[k].pin : k \in {j \in DOMAIN rows :
        \E x \in Aliases(msg.from), y \in Aliases(msg.to) : j.names = {x, y}}})

\* The row to save: the stored one again, the stored one confirmed (it keeps
\* its position and its time), or a new one.
RowToSave(msg, found) ==
    IF found.key = None
    THEN [msg EXCEPT !.index = IF Ready THEN Get(meta, ConversationOf(msg), NoMeta).next
                               ELSE LegacyNextIndex(msg)]
    ELSE IF found.row.confirmed \/ ~msg.confirmed
    THEN found.row
    ELSE [msg EXCEPT !.index = found.row.index, !.time = found.row.time]

\* writeReadModelEntries: the metadata after the write.
MetaAfter(row, created) ==
    LET old == Get(meta, ConversationOf(row), NoMeta)
        grown == IF created THEN 1 ELSE 0
    IN  [next |-> old.next + grown, count |-> old.count + grown,
         latest |-> IF row.time > old.latest THEN row.time ELSE old.latest]

\* The batch of savePrivateMessageUnlocked, from what is stored now.
BatchOf(msg) ==
    LET found == Existing(msg)
        row == RowToSave(msg, found)
        conv == ConversationOf(row)
        current == Get(home, conv, row)
    IN  [row |-> row,
         created |-> found.key = None,
         oldKey |-> found.key,
         conv |-> conv,
         meta |-> MetaAfter(row, found.key = None),
         \* the entries of the previous version, when it stood elsewhere
         stale |-> IF found.key = None THEN {}
                   ELSE {<<ConversationOf(found.row), found.row.time, found.row.index>>}
                        \ {<<conv, row.time, row.index>>},
         home |-> IF Later(row, current) THEN row ELSE current,
         homepage |-> homepage[row.from[1]] \cup {row.pin}]

\* An index outside the conversation: the error is logged by the engine and
\* the call ends with nothing written.
Valid(b) == Ready => b.row.index \in 0 .. b.meta.next - 1

Return(w, step) ==
    /\ pc' = [pc EXCEPT ![w] = step]
    /\ locked' = [locked EXCEPT ![w] = {}]
    /\ wanted' = [wanted EXCEPT ![w] = <<>>]
    /\ batch' = [batch EXCEPT ![w] = None]
    /\ call' = [call EXCEPT ![w] = IF step = "idle" THEN None ELSE @]

Load(w) ==
    /\ pc[w] = "lock" /\ wanted[w] = <<>>
    /\ Valid(BatchOf(call[w]))
    /\ batch' = [batch EXCEPT ![w] = BatchOf(call[w])]
    /\ pc' = [pc EXCEPT ![w] = "commit"]
    /\ UNCHANGED <<disk, profiles, up, call, wanted, locked, channel, pushed, dropped, faults>>

Reject(w) ==
    /\ pc[w] = "lock" /\ wanted[w] = <<>>
    /\ ~Valid(BatchOf(call[w]))
    /\ Return(w, "idle")
    /\ UNCHANGED <<disk, profiles, up, channel, pushed, dropped, faults>>

\* Mutant: a confirmation refreshes the ordinal snapshot only.
WriteReadModel_OneSnapshot(b, key) ==
    /\ byIndex' = Put(Without(byIndex, {<<s[1], s[3]>> : s \in b.stale}),
                      <<b.conv, b.row.index>>, b.row)
    /\ byTime' = IF b.created THEN Put(byTime, <<b.conv, b.row.time, b.row.index>>, b.row)
                              ELSE byTime
    /\ meta' = Put(meta, b.conv, b.meta)
    /\ locator' = Put(locator, b.row.pin,
                      [key |-> key, conv |-> b.conv, index |-> b.row.index])
    /\ home' = Put(home, b.conv, b.home)

\* The derived entries of the batch.
WriteReadModel(b, key) ==
    /\ byIndex' = Put(Without(byIndex, {<<s[1], s[3]>> : s \in b.stale}),
                      <<b.conv, b.row.index>>, b.row)
    /\ byTime' = Put(Without(byTime, b.stale), <<b.conv, b.row.time, b.row.index>>, b.row)
    /\ meta' = Put(meta, b.conv, b.meta)
    /\ locator' = Put(locator, b.row.pin,
                      [key |-> key, conv |-> b.conv, index |-> b.row.index])
    /\ home' = Put(home, b.conv, b.home)

\* The source rows: the row moves when its key changes.
RowsAfter(b, key) == Put(Without(rows, {b.oldKey}), key, b.row)

\* batch.Commit: one atomic write, then the locks are released.
Commit(w) ==
    LET b == batch[w]
        key == StorageKey(b.row)
    IN  /\ pc[w] = "commit"
        /\ rows' = RowsAfter(b, key)
        /\ pinIndex' = Put(pinIndex, b.row.pin, key)
        /\ homepage' = [homepage EXCEPT ![b.row.from[1]] = b.homepage]
        /\ IF Ready THEN WriteReadModel(b, key) ELSE UNCHANGED derived
        /\ Return(w, IF b.created THEN "notify" ELSE "idle")
        /\ UNCHANGED <<state, profiles, up, channel, pushed, dropped, faults>>

\* Any read or the commit fails: nothing is written, the engine logs the error.
StoreFails(w) ==
    /\ pc[w] = "commit"
    /\ faults < MaxFaults
    /\ faults' = faults + 1
    /\ Return(w, "idle")
    /\ UNCHANGED <<disk, profiles, up, channel, pushed, dropped>>

\* sendNotifyEvent never blocks: with a full channel the event is dropped.
Notify(w) ==
    /\ pc[w] = "notify"
    /\ IF Len(channel) < ChannelCap
       THEN channel' = Append(channel, call[w].pin) /\ UNCHANGED dropped
       ELSE dropped' = dropped \cup {call[w].pin} /\ UNCHANGED channel
    /\ Return(w, "idle")
    /\ UNCHANGED <<disk, profiles, up, pushed, faults>>

\* consumeNotifyEvents of the socket server.
Push ==
    /\ up /\ channel # <<>>
    /\ pushed' = [pushed EXCEPT ![Head(channel)] = IF @ = 2 THEN 2 ELSE @ + 1]
    /\ channel' = Tail(channel)
    /\ UNCHANGED <<disk, profiles, up, pc, work, dropped, faults>>

-----------------------------------------------------------------------------
(* The offline backfill, run while the service is stopped.                 *)

\* The snapshot of a source row carries the names known now.
Renamed(k) == [rows[k] EXCEPT !.from = CanonicalName(@), !.to = CanonicalName(@)]
KeysOf(conv) == {k \in DOMAIN rows : ConversationOf(Renamed(k)) = conv}

\* One key per pin, a confirmed row before an unconfirmed one.
Kept(conv) ==
    {CHOOSE k \in KeysOf(conv) :
        /\ rows[k].pin = p
        /\ rows[k].confirmed
           \/ ~ \E j \in KeysOf(conv) : rows[j].pin = p /\ rows[j].confirmed
     : p \in {rows[k].pin : k \in KeysOf(conv)}}

Before(j, k) ==
    rows[j].time < rows[k].time \/ (rows[j].time = rows[k].time /\ rows[j].pin < rows[k].pin)

Entries ==
    UNION {{[conv |-> c, key |-> k,
             row |-> [Renamed(k) EXCEPT !.index = Cardinality({j \in Kept(c) : Before(j, k)})]]
            : k \in Kept(c)}
           : c \in {ConversationOf(Renamed(k)) : k \in DOMAIN rows}}

IndexOf(e) == <<e.conv, e.row.index>>
TimeOf(e) == <<e.conv, e.row.time, e.row.index>>
Snapshots(Place(_)) ==
    [x \in {Place(e) : e \in Entries} |-> (CHOOSE e \in Entries : Place(e) = x).row]

\* verifyReadModelCounts: one locator per entry.
CountsAgree == Cardinality({e.row.pin : e \in Entries}) = Cardinality(Entries)

Backfill ==
    LET convs == {e.conv : e \in Entries}
        latest == [c \in convs |-> CHOOSE e \in Entries :
                      e.conv = c /\ e.row.index + 1 = Cardinality(Kept(c))]
        entry == [p \in {e.row.pin : e \in Entries} |->
                      CHOOSE e \in Entries : e.row.pin = p]
    IN  /\ ~up
        /\ byIndex' = Snapshots(IndexOf)
        /\ byTime' = Snapshots(TimeOf)
        /\ meta' = [c \in convs |-> [next |-> Cardinality(Kept(c)),
                                     count |-> Cardinality(Kept(c)),
                                     latest |-> latest[c].row.time]]
        /\ home' = [c \in convs |-> latest[c].row]
        /\ locator' = [p \in DOMAIN entry |->
               [key |-> entry[p].key, conv |-> entry[p].conv, index |-> entry[p].row.index]]
        /\ pinIndex' = [p \in DOMAIN pinIndex \cup DOMAIN entry |->
               IF p \in DOMAIN entry THEN entry[p].key ELSE pinIndex[p]]
        /\ state' = IF CountsAgree THEN "ready" ELSE "building"
        /\ UNCHANGED <<rows, homepage, profiles, up, pc, work, channel, pushed, dropped, faults>>

\* Cancelled or killed after the derived keys were cleared.
BackfillInterrupted ==
    /\ ~up
    /\ state' = "building"
    /\ byIndex' = Empty /\ byTime' = Empty /\ meta' = Empty
    /\ locator' = Empty /\ home' = Empty
    /\ UNCHANGED <<rows, pinIndex, homepage, profiles, up, pc, work, channel, pushed, dropped,
                   faults>>

-----------------------------------------------------------------------------
Step(w) == Lock(w) \/ Load(w) \/ Reject(w) \/ Commit(w) \/ Notify(w)

NextC ==
    \/ StartProcess \/ StopProcess \/ Backfill \/ BackfillInterrupted
    \/ Push
    \/ \E u \in Learnable : LearnProfile(u)
    \/ \E w \in Workers :
          \/ \E p \in Pins : Begin(w, p)
          \/ Lock(w) \/ Load(w) \/ Reject(w) \/ Commit(w) \/ StoreFails(w) \/ Notify(w)

SpecC == InitC /\ [][NextC]_cvars

\* A goroutine keeps running, and Go's mutexes hand over to a starving waiter.
FairSpecC == SpecC /\ \A w \in Workers : SF_cvars(Lock(w)) /\ WF_cvars(Step(w))

-----------------------------------------------------------------------------
(* Properties.                                                             *)

Stored(p) == \E k \in DOMAIN rows : rows[k].pin = p

\* The positions of a conversation are 0, 1, 2, ... without a gap, shared by
\* both directions, and no two messages hold the same one.
IndexContinuous ==
    Ready =>
        /\ \A x \in DOMAIN byIndex : x[1] \in DOMAIN meta
        /\ \A c \in DOMAIN meta :
              /\ meta[c].count = meta[c].next
              /\ {x[2] : x \in {y \in DOMAIN byIndex : y[1] = c}} = 0 .. meta[c].next - 1
              /\ meta[c].next = Cardinality({p \in DOMAIN locator : locator[p].conv = c})

SameMessage(r, s) == r.pin = s.pin /\ r.time = s.time /\ r.confirmed = s.confirmed

\* While the read model is ready every source row has its locator, its ordinal
\* and its time snapshot with the row's confirmation, and there is no other;
\* the home snapshot of a conversation is its latest message as it is stored now:
\* an older message that arrives late does not replace it, a confirmation of the
\* latest does.  And no message is lost from its sender's homepage list when two
\* conversations of the sender are written at the same time.
ReadModelAgrees ==
    /\ \A k \in DOMAIN rows : rows[k].pin \in homepage[rows[k].from[1]]
    /\ Ready =>
        /\ \A k \in DOMAIN rows :
              /\ rows[k].pin \in DOMAIN locator
              /\ LET l == locator[rows[k].pin]
                     byi == <<l.conv, l.index>>
                     byt == <<l.conv, rows[k].time, l.index>>
                 IN  /\ l.key = k
                     /\ byi \in DOMAIN byIndex /\ SameMessage(byIndex[byi], rows[k])
                     /\ byt \in DOMAIN byTime /\ SameMessage(byTime[byt], rows[k])
        /\ Cardinality(DOMAIN byIndex) = Cardinality(DOMAIN rows)
        /\ Cardinality(DOMAIN byTime) = Cardinality(DOMAIN rows)
        /\ \A c \in DOMAIN meta :
              /\ \E x \in DOMAIN byIndex : x[1] = c /\ byIndex[x] = home[c]
              /\ \A x \in DOMAIN byIndex : x[1] = c =>
                    \/ byIndex[x].time < home[c].time
                    \/ byIndex[x].time = home[c].time /\ x[2] <= home[c].index

\* What became of a stored message: on its way to the socket layer, handed
\* over, or dropped.
Occurrences(p) ==
    pushed[p] + Cardinality({i \in 1 .. Len(channel) : channel[i] = p})
    + Cardinality({w \in Workers : pc[w] = "notify" /\ call[w].pin = p})
    + (IF p \in dropped THEN 1 ELSE 0)

\* However often a pin is seen, and by whichever goroutine, it has one row, to
\* which the pin index leads, and is announced to the users once or dropped.
EachPinOnce ==
    /\ \A j, k \in DOMAIN rows : rows[j].pin = rows[k].pin => j = k
    /\ \A p \in DOMAIN pinIndex : pinIndex[p] \in DOMAIN rows /\ rows[pinIndex[p]].pin = p
    /\ \A p \in Pins : Occurrences(p) = IF p \in DOMAIN pinIndex THEN 1 ELSE 0

Row(p) == rows[pinIndex[p]]

\* A confirmed message never becomes unconfirmed again and a stored message
\* keeps the time of its first delivery, whatever order block and mempool
\* observations are handled in; while the service runs on the read model, it keeps
\* its conversation and its position there.
StoredMessageIsKept ==
    [][/\ \A p \in DOMAIN pinIndex :
             /\ Row(p)'.pin = p => (Row(p).confirmed => Row(p)'.confirmed)
             /\ Row(p)'.time = Row(p).time
       /\ Ready /\ up => \A p \in DOMAIN locator :
             /\ p \in DOMAIN locator'
             /\ locator'[p].conv = locator[p].conv
             /\ locator'[p].index = locator[p].index]_cvars

\* A call always ends: the locks of the two goroutines cannot block each other.
CallsReturn == \A w \in Workers : pc[w] # "idle" ~> pc[w] = "idle"

=============================================================================
