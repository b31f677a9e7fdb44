------------------------ MODULE FederatedPresence ---------------------------
(***************************************************************************)
(* The read side of the federation (internal/federation): one node keeps a *)
(* store of peers and of their last presence snapshots. Discovery fills    *)
(* the peers from registry pins, the puller asks each peer for a signed    *)
(* snapshot, checks it and stores it, and readers merge the snapshots that *)
(* have not expired. The remote nodes are modelled by their handler        *)
(* (SnapshotBuilder) and by their publisher.                               *)
(*                                                                         *)
(* Time is counted in ticks. A node's presence is the number of times it   *)
(* changed. Local work takes no time: a tick passes only when the puller   *)
(* waits, for its ticker or for an answer. Signatures, URLs and sizes are  *)
(* abstracted: every snapshot comes from the node it names.                *)
(***************************************************************************)
EXTENDS Integers, Sequences, FiniteSets, Functions

CONSTANTS
    Nodes,           \* the remote nodes, in the order of their ids
    TTL,             \* presenceTTL, stamped into a snapshot
    Interval,        \* presencePullInterval
    DiscoveryInterval,
    RequestTimeout,
    BackoffBase, BackoffMax,
    MaxPeers,        \* 0: no limit
    ListSize,        \* size: the pins of one page of the registry listing
    Ahead,           \* how far a node's clock runs ahead of the local one
    MaxTime,         \* bound: ticks
    MaxChanges,      \* bound: presence changes of a node
    MaxFaults,       \* bound: stops, lost requests, cached answers
    MaxPins          \* bound: registry pins

ASSUME FederationAssumption ==
    /\ Nodes \subseteq Nat /\ IsFiniteSet(Nodes)
    /\ {TTL, Interval, DiscoveryInterval, RequestTimeout, BackoffBase, ListSize}
          \subseteq Nat \ {0}
    /\ BackoffMax \in Nat /\ BackoffMax >= BackoffBase
    /\ {MaxPeers, Ahead, MaxTime, MaxChanges, MaxFaults, MaxPins} \subseteq Nat

VARIABLES
    now,
    serving,    \* nodes whose process runs
    changes,    \* times at which the presence of a node changed
    nextSeq,    \* sequence counter of a node, in memory
    epoch,      \* history: starts of a node
    stoppedAt,  \* history: when a node last stopped
    cached,     \* the answer of a node that a cache on the way holds, if any
    registry,   \* last registry pin of a node: [op, at, no]; no numbers all pins
    page,       \* what discovery has read and not applied yet
    nextRead,   \* when the ticker of discovery fires again
    noticed,    \* history: the number of the last pin of a node that was read
    peers,      \* Store.peers; no code reads validUntil of a peer
    snapshots,  \* Store.snapshots: [items, at, seq, epoch] by node
    failures,   \* Puller.failures: [count, until] by node
    round,      \* peers the current pull round has left
    nextPull,   \* when the ticker fires again
    request,    \* the request in flight
    disturbed,  \* history: last time a node restarted, a request to it was
                \* lost or it became a peer
    faults,
    pins

remote == <<serving, changes, nextSeq, epoch, stoppedAt, cached, registry>>
discovery == <<page, nextRead, noticed>>
store == <<peers, snapshots>>
puller == <<failures, round, nextPull, request>>
bounds == <<disturbed, faults, pins>>
fvars == <<now, remote, discovery, store, puller, bounds>>

Empty == [n \in {} |-> 0]
NoRequest == [stage |-> "none"]
Idle == request = NoRequest
Version(n) == Len(changes[n])

InitF ==
    /\ now = 0
    /\ serving = Nodes
    /\ changes = [n \in Nodes |-> <<>>]
    /\ nextSeq = [n \in Nodes |-> 0]
    /\ epoch = [n \in Nodes |-> 0]
    /\ stoppedAt = [n \in Nodes |-> 0]
    /\ cached = Empty
    /\ registry = Empty /\ page = Empty /\ nextRead = 0
    /\ noticed = [n \in Nodes |-> 0]
    /\ peers = {} /\ snapshots = Empty /\ failures = Empty
    /\ round = <<>> /\ nextPull = 0
    /\ request = NoRequest
    /\ disturbed = [n \in Nodes |-> 0]
    /\ faults = 0 /\ pins = 0

Put(f, k, v) == [x \in DOMAIN f \cup {k} |-> IF x = k THEN v ELSE f[x]]
Without(f, k) == Restrict(f, DOMAIN f \ {k})
Smaller(x, y) == IF x < y THEN x ELSE y

-----------------------------------------------------------------------------
(* Time and the remote nodes.                                              *)

\* Discovery and the puller have nothing to do before the next tick of the clock.
Waiting ==
    /\ now < nextRead /\ page = Empty
    /\ \/ Idle /\ round = <<>> /\ now < nextPull
       \/ request.stage \in {"sent", "items", "reply"} /\ now < request.at + RequestTimeout

Tick ==
    /\ now < MaxTime
    /\ Waiting
    /\ now' = now + 1
    /\ UNCHANGED <<remote, discovery, store, puller, bounds>>

PresenceChanges(n) ==
    /\ n \in serving
    /\ Len(changes[n]) < MaxChanges
    /\ changes' = [changes EXCEPT ![n] = Append(@, now)]
    /\ UNCHANGED <<now, serving, nextSeq, epoch, stoppedAt, cached, registry, discovery,
                   store, puller, bounds>>

StopNode(n) ==
    /\ n \in serving /\ faults < MaxFaults
    /\ serving' = serving \ {n}
    /\ stoppedAt' = [stoppedAt EXCEPT ![n] = now]
    /\ faults' = faults + 1
    /\ UNCHANGED <<now, changes, nextSeq, epoch, cached, registry, discovery, store,
                   puller, disturbed, pins>>

\* The sequence starts again at 1.
StartNode(n) ==
    /\ n \notin serving
    /\ serving' = serving \cup {n}
    /\ nextSeq' = [nextSeq EXCEPT ![n] = 0]
    /\ epoch' = [epoch EXCEPT ![n] = @ + 1]
    /\ disturbed' = [disturbed EXCEPT ![n] = now]
    /\ UNCHANGED <<now, changes, stoppedAt, cached, registry, discovery, store, puller,
                   faults, pins>>

\* Publisher: create at start, modify on its ticker, a revoke by its owner.
Publish(n, op) ==
    /\ pins < MaxPins
    /\ op = "revoke" \/ n \in serving
    /\ pins' = pins + 1
    /\ registry' = Put(registry, n, [op |-> op, at |-> now, no |-> pins + 1])
    /\ UNCHANGED <<now, serving, changes, nextSeq, epoch, stoppedAt, cached, discovery,
                   store, puller, disturbed, faults>>

\* Another pin under the registry path, which discovery passes over (its own, or
\* of another network or protocol) but which takes a place in the listing.
PublishOther ==
    /\ pins < MaxPins
    /\ pins' = pins + 1
    /\ UNCHANGED <<now, remote, discovery, store, puller, disturbed, faults>>

-----------------------------------------------------------------------------
(* Discovery.                                                              *)

Preceding(S, n) == {m \in S : m < n}

FirstPeers(nodes) ==
    IF MaxPeers = 0 THEN nodes
    ELSE {n \in nodes : Cardinality(Preceding(nodes, n)) < MaxPeers}

\* Mutant: revoked entries are passed over.
Candidates_DropRevokes(read) ==
    Restrict(read, FirstPeers({n \in DOMAIN read : read[n].op # "revoke"}))

\* The revoked nodes, and the first MaxPeers of the others.
Candidates(read) ==
    LET revoked == {n \in DOMAIN read : read[n].op = "revoke"}
    IN  Restrict(read, revoked \cup FirstPeers(DOMAIN read \ revoked))

\* The listing is newest first, and discovery asks for one page of it.
Listed(n) == n \in DOMAIN registry /\ pins - registry[n].no < ListSize

Listing == Restrict(registry, {n \in DOMAIN registry : Listed(n)})

\* DiscoverOnce fetches the registry pins, or fails until its next tick.
ReadRegistry ==
    /\ page = Empty /\ now >= nextRead
    /\ nextRead' = now + DiscoveryInterval
    /\ \/ /\ page' = Candidates(Listing)
          /\ noticed' = [n \in Nodes |-> IF Listed(n) THEN registry[n].no ELSE noticed[n]]
          /\ UNCHANGED faults
       \/ /\ faults < MaxFaults
          /\ faults' = faults + 1
          /\ UNCHANGED <<page, noticed>>
    /\ UNCHANGED <<now, remote, store, puller, disturbed, pins>>

\* RemovePeer drops the peer and its snapshot.
ApplyRevoke(n) ==
    /\ n \in DOMAIN page /\ page[n].op = "revoke"
    /\ peers' = peers \ {n}
    /\ snapshots' = Without(snapshots, n)
    /\ page' = Without(page, n)
    /\ UNCHANGED <<now, remote, nextRead, noticed, puller, bounds>>

\* UpsertPeer, after the revokes of the page.
ApplyPeer(n) ==
    /\ n \in DOMAIN page
    /\ \A m \in DOMAIN page : page[m].op # "revoke"
    /\ peers' = peers \cup {n}
    /\ page' = Without(page, n)
    /\ disturbed' = [disturbed EXCEPT ![n] = IF n \in peers THEN @ ELSE now]
    /\ UNCHANGED <<now, remote, nextRead, noticed, snapshots, puller, faults, pins>>

-----------------------------------------------------------------------------
(* The puller.                                                             *)

\* By node id.
ActivePeers ==
    [i \in 1 .. Cardinality(peers) |->
        CHOOSE n \in peers : Cardinality(Preceding(peers, n)) = i - 1]

\* PullOnce: the peers known now.
StartRound ==
    /\ Idle /\ round = <<>> /\ now >= nextPull
    /\ nextPull' = now + Interval
    /\ round' = ActivePeers
    /\ UNCHANGED <<now, remote, discovery, store, failures, request, bounds>>

Eligible(n) == n \in DOMAIN failures => now >= failures[n].until

SkipPeer ==
    /\ Idle /\ round # <<>>
    /\ ~Eligible(Head(round))
    /\ round' = Tail(round)
    /\ UNCHANGED <<now, remote, discovery, store, failures, nextPull, request, bounds>>

SendRequest ==
    /\ Idle /\ round # <<>>
    /\ Eligible(Head(round))
    /\ request' = [stage |-> "sent", node |-> Head(round), at |-> now]
    /\ round' = Tail(round)
    /\ UNCHANGED <<now, remote, discovery, store, failures, nextPull, bounds>>

\* SnapshotBuilder.Snapshot reads the connections first ...
ReadItems ==
    /\ request.stage = "sent" /\ request.node \in serving
    /\ request' = [stage |-> "items", node |-> request.node, at |-> request.at,
                   items |-> Version(request.node), epoch |-> epoch[request.node]]
    /\ UNCHANGED <<now, remote, discovery, store, failures, round, nextPull, bounds>>

\* ... and stamps them with its clock and its next sequence number.
StampSnapshot ==
    LET n == request.node
        reply == [items |-> request.items, at |-> now + Ahead, seq |-> nextSeq[n] + 1,
                  epoch |-> epoch[n]]
    IN  /\ request.stage = "items" /\ n \in serving /\ request.epoch = epoch[n]
        /\ nextSeq' = [nextSeq EXCEPT ![n] = @ + 1]
        /\ cached' \in {cached, Put(cached, n, reply)}
        /\ request' = [stage |-> "reply", node |-> n, at |-> request.at, reply |-> reply]
        /\ UNCHANGED <<now, serving, changes, epoch, stoppedAt, registry, discovery,
                       store, failures, round, nextPull, bounds>>

\* The endpoint sets no cache header: something on the way answers again with
\* an earlier snapshot.
AnswerFromCache ==
    /\ request.stage = "sent" /\ faults < MaxFaults
    /\ request.node \in DOMAIN cached
    /\ request' = [stage |-> "reply", node |-> request.node, at |-> request.at,
                   reply |-> cached[request.node]]
    /\ faults' = faults + 1
    /\ disturbed' = [disturbed EXCEPT ![request.node] = now]
    /\ UNCHANGED <<now, remote, discovery, store, failures, round, nextPull, pins>>

\* recordFailure with the delay of backoffDelay, doubled per failure.
Backoff(count) == Smaller(BackoffBase * 2 ^ (count - 1), BackoffMax)
Failed(n) ==
    LET count == IF n \in DOMAIN failures THEN failures[n].count + 1 ELSE 1
    IN  /\ failures' = Put(failures, n, [count |-> count, until |-> now + Backoff(count)])
        /\ request' = NoRequest

\* Refused, timed out, or lost.
RequestFails ==
    LET n == request.node
        gone == \/ request.stage # "reply" /\ n \notin serving
                \/ request.stage = "items" /\ request.epoch # epoch[n]
        late == now = request.at + RequestTimeout
    IN  /\ request.stage \in {"sent", "items", "reply"}
        /\ gone \/ late \/ faults < MaxFaults
        /\ faults' = IF gone \/ late THEN faults ELSE faults + 1
        /\ disturbed' = [disturbed EXCEPT ![n] = now]
        /\ Failed(n)
        /\ UNCHANGED <<now, remote, discovery, store, round, nextPull, pins>>

\* Mutant: a snapshot lives one tick longer.
Expired_Late(s) == s.at + TTL + 1 < now

Expired(s) == s.at + TTL < now

\* Mutants: the sequence is not compared; the sequence is compared with an
\* expired snapshot as well.
Accepts_AnySequence(n, reply) == ~Expired(reply)
Accepts_ForeverSequence(n, reply) ==
    ~Expired(reply) /\ (n \in DOMAIN snapshots => reply.seq > snapshots[n].seq)

\* validateSnapshot.
Accepts(n, reply) ==
    /\ ~Expired(reply)
    /\ n \in DOMAIN snapshots /\ ~Expired(snapshots[n]) => reply.seq > snapshots[n].seq

Validate ==
    /\ request.stage = "reply"
    /\ Accepts(request.node, request.reply)
    /\ request' = [stage |-> "valid", node |-> request.node, reply |-> request.reply]
    /\ UNCHANGED <<now, remote, discovery, store, failures, round, nextPull, bounds>>

RejectReply ==
    /\ request.stage = "reply"
    /\ ~Accepts(request.node, request.reply)
    /\ Failed(request.node)
    /\ UNCHANGED <<now, remote, discovery, store, round, nextPull, bounds>>

\* Mutant: the time of arrival replaces the time of generation.
StoredReply_ReceiveTime(reply) == [reply EXCEPT !.at = now]

StoredReply(reply) == reply

\* UpsertSnapshot and clearFailure.
StoreSnapshot ==
    /\ request.stage = "valid"
    /\ snapshots' = Put(snapshots, request.node, StoredReply(request.reply))
    /\ failures' = Without(failures, request.node)
    /\ request' = NoRequest
    /\ UNCHANGED <<now, remote, discovery, peers, round, nextPull, bounds>>

-----------------------------------------------------------------------------
NextF ==
    \/ Tick
    \/ \E n \in Nodes :
          \/ PresenceChanges(n) \/ StopNode(n) \/ StartNode(n)
          \/ \E op \in {"create", "revoke"} : Publish(n, op)
          \/ ApplyRevoke(n) \/ ApplyPeer(n)
    \/ PublishOther \/ ReadRegistry
    \/ StartRound \/ SkipPeer \/ SendRequest
    \/ ReadItems \/ StampSnapshot \/ AnswerFromCache \/ RequestFails
    \/ Validate \/ RejectReply \/ StoreSnapshot

SpecF == InitF /\ [][NextF]_fvars

-----------------------------------------------------------------------------
(* Properties.                                                             *)

\* activeSnapshots: what a global reader merges.
Shown(n) == n \in peers /\ n \in DOMAIN snapshots /\ ~Expired(snapshots[n])

\* What is shown of a node never returns to an older state of the same run of
\* that node, although an answer may arrive again.
ViewNeverGoesBack ==
    [][\A n \in Nodes :
          Shown(n) /\ Shown(n)' /\ snapshots[n].epoch = snapshots'[n].epoch
             => snapshots[n].items <= snapshots'[n].items]_fvars

\* What is shown of a node was true of it at most one TTL and one request
\* timeout ago by its clock, although the items are read before they are stamped.
ShownIsRecent ==
    \A n \in Nodes : Shown(n) /\ snapshots[n].items < Version(n) =>
        now <= changes[n][snapshots[n].items + 1] + Ahead + TTL + RequestTimeout

\* A node that stopped leaves the view within the TTL, counted by its clock,
\* whatever answers of it are still on their way.
SilentNodeDisappears ==
    \A n \in Nodes : Shown(n) => n \in serving \/ now <= stoppedAt[n] + Ahead + TTL

\* A snapshot outlives a round of the puller that asks every node in vain. The
\* code does not compare these settings: with its defaults (90 s, 20 s, 3 s) this
\* holds of up to 23 nodes, and beyond that slow peers let the snapshots of the
\* others expire.
PullsInTime ==
    /\ TTL >= Interval + RequestTimeout * Cardinality(Nodes)
    /\ TTL >= RequestTimeout * (Cardinality(Nodes) + 1)

\* A peer that serves undisturbed comes back into the view: a restart resets its
\* sequence, so its snapshots are refused until the last accepted one expires,
\* and then it may have to wait for the backoff those refusals built up. It is
\* true of settings with PullsInTime.
RecoveryBound ==
    Ahead + TTL + BackoffMax + Interval + 1 + RequestTimeout * Cardinality(Nodes)
PeerRecovers ==
    \A n \in peers : n \in serving /\ now > disturbed[n] + RecoveryBound => Shown(n)

\* A node that revoked its registry entry is out of the view when discovery has
\* run again, although a pull of it may be on its way, and whatever the limit is:
\* as long as the listing shows the revoke, and for good once it was read there.
\* Discovery reads one page and follows no cursor, so that nothing holds of a
\* revoke which newer pins moved off that page before.
RevokedLeavesView ==
    \A n \in DOMAIN registry :
        /\ registry[n].op = "revoke" /\ now > registry[n].at + DiscoveryInterval * (1 + faults)
        /\ Listed(n) \/ noticed[n] = registry[n].no
        => ~Shown(n)

=============================================================================
