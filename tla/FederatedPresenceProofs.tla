---------------------- MODULE FederatedPresenceProofs -----------------------
(***************************************************************************)
(* What the merged view of the federation may show of a node, for any      *)
(* remote nodes, timings, clock skew and numbers of changes, stops, lost   *)
(* requests and repeated answers: never an older state of the same run     *)
(* after a newer one, nothing of a node that stopped a TTL ago, nothing    *)
(* older than the rounds and timeouts allow, and nothing of a node that    *)
(* was revoked once the next round is over. And a peer that is left in     *)
(* peace is in the view again after a bounded time, if a snapshot outlives *)
(* a round of the puller.                                                  *)
(*                                                                         *)
(* The argument is about the answers of a node that are about: the one     *)
(* stored, the one a cache holds and the one on its way; for the recovery  *)
(* it is about when the turn of each peer comes.                           *)
(***************************************************************************)
EXTENDS FederatedPresence, FiniteSetTheorems, TLAPS

HasReply == request.stage \in {"reply", "valid"}

\* The answers of a node that may still be shown.
Answers(n) ==
    {r \in {snapshots[n]} : n \in DOMAIN snapshots}
      \cup {r \in {cached[n]} : n \in DOMAIN cached}
      \cup {r \in {request.reply} : HasReply /\ request.node = n}

\* The types the proof needs; nothing is said of a request's node, which only
\* matters once it is one of Nodes.
FTypes ==
    /\ now \in Nat
    /\ serving \subseteq Nodes
    /\ nextSeq \in [Nodes -> Nat] /\ epoch \in [Nodes -> Nat]
    /\ stoppedAt \in [Nodes -> Nat]
    /\ changes \in [Nodes -> Seq(Nat)]

\* An answer was given by a run of its node, by its sequence at the time, and
\* no later than the node stopped.
Given(n, r) ==
    /\ r.items \in Nat /\ r.at \in Nat /\ r.seq \in Nat /\ r.epoch \in Nat
    /\ r.items <= Version(n)
    /\ r.epoch <= epoch[n]
    /\ r.epoch = epoch[n] => r.seq <= nextSeq[n]
    /\ r.at <= now + Ahead
    /\ n \notin serving => r.at <= stoppedAt[n] + Ahead

\* Of two answers of one run the one with the larger sequence is no older.
InOrder(r, s) == r.epoch = s.epoch /\ r.seq < s.seq => r.items <= s.items

AnswersGiven == \A n \in Nodes : \A r \in Answers(n) : Given(n, r)
AnswersOrdered == \A n \in Nodes : \A r, s \in Answers(n) : InOrder(r, s)

\* What a handler has read is no older than any answer of its run.
ReadLast ==
    request.stage = "items" /\ request.node \in Nodes =>
        /\ request.items \in Nat /\ request.items <= Version(request.node)
        /\ \A r \in Answers(request.node) :
              r.epoch = request.epoch => r.items <= request.items

\* A validated answer comes after the one it replaces, unless that has expired.
ValidLast ==
    request.stage = "valid" /\ request.node \in Nodes =>
        (request.node \in DOMAIN snapshots /\ ~Expired(snapshots[request.node])
            => request.reply.seq > snapshots[request.node].seq)

FInv == FTypes /\ AnswersGiven /\ AnswersOrdered /\ ReadLast /\ ValidLast

-----------------------------------------------------------------------------
(* Initially *)

\* Nothing has been answered.
LEMMA InitFInv == InitF => FInv
<1> SUFFICES ASSUME InitF PROVE FInv
  OBVIOUS
<1>1. \A n \in Nodes : Answers(n) = {}
  BY DEF InitF, Answers, HasReply, Empty, NoRequest
<1>2. FTypes
  BY DEF InitF, FTypes
<1>3. AnswersGiven /\ AnswersOrdered
  BY <1>1 DEF AnswersGiven, AnswersOrdered
<1>4. ReadLast /\ ValidLast
  BY DEF InitF, ReadLast, ValidLast, NoRequest
<1> QED
  BY <1>2, <1>3, <1>4 DEF FInv

-----------------------------------------------------------------------------
(* Steps that give no new answer *)

\* What is given stays given while time and the node move on.
LEMMA GivenStays ==
    ASSUME FTypes, FTypes', NEW n \in Nodes, NEW r, Given(n, r),
           now <= now', Version(n) <= Version(n)',
           \/ epoch'[n] = epoch[n] /\ nextSeq[n] <= nextSeq'[n]
           \/ epoch'[n] > epoch[n],
           n \notin serving' => \/ n \in serving /\ stoppedAt'[n] = now
                                \/ n \notin serving /\ stoppedAt'[n] = stoppedAt[n]
    PROVE  Given(n, r)'
<1>1. /\ now \in Nat /\ now' \in Nat /\ epoch[n] \in Nat /\ epoch'[n] \in Nat
      /\ nextSeq[n] \in Nat /\ nextSeq'[n] \in Nat /\ stoppedAt[n] \in Nat
      /\ stoppedAt'[n] \in Nat /\ Ahead \in Nat
      /\ Version(n) \in Nat /\ Version(n)' \in Nat
  <2>1. Ahead \in Nat
    BY FederationAssumption
  <2>2. Version(n) \in Nat
    BY DEF FTypes, Version
  <2>3. Version(n)' \in Nat
    BY DEF FTypes, Version
  <2> QED
    BY <2>1, <2>2, <2>3 DEF FTypes
<1>2. /\ r.items \in Nat /\ r.at \in Nat /\ r.seq \in Nat /\ r.epoch \in Nat
      /\ r.items <= Version(n) /\ r.epoch <= epoch[n]
      /\ (r.epoch = epoch[n] => r.seq <= nextSeq[n])
      /\ r.at <= now + Ahead
      /\ (n \notin serving => r.at <= stoppedAt[n] + Ahead)
  BY DEF Given
<1>3. r.items <= Version(n)' /\ r.epoch <= epoch'[n] /\ r.at <= now' + Ahead
  BY <1>1, <1>2
<1>4. r.epoch = epoch'[n] => r.seq <= nextSeq'[n]
  BY <1>1, <1>2
<1>5. n \notin serving' => r.at <= stoppedAt'[n] + Ahead
  BY <1>1, <1>2
<1> QED
  BY <1>2, <1>3, <1>4, <1>5 DEF Given

\* The node of every process is as it was.
NodesRest == UNCHANGED <<serving, changes, nextSeq, epoch, stoppedAt>>

\* A step in which answers are only dropped and no node moves.
LEMMA DropStep ==
    ASSUME FInv, NodesRest, now' \in Nat, now <= now',
           \A n \in Nodes : Answers(n)' \subseteq Answers(n)
    PROVE  FTypes' /\ AnswersGiven' /\ AnswersOrdered'
<1>1. FTypes'
  BY DEF FInv, FTypes, NodesRest
<1>2. AnswersGiven'
  <2> SUFFICES ASSUME NEW n \in Nodes, NEW r \in Answers(n)' PROVE Given(n, r)'
    BY DEF AnswersGiven
  <2>1. Given(n, r)
    BY DEF FInv, AnswersGiven
  <2>2. nextSeq[n] <= nextSeq'[n] /\ Version(n) <= Version(n)'
    BY DEF FInv, FTypes, NodesRest, Version
  <2> QED
    BY <1>1, <2>1, <2>2, GivenStays DEF FInv, NodesRest
<1>3. AnswersOrdered'
  <2> SUFFICES ASSUME NEW n \in Nodes, NEW r \in Answers(n)', NEW s \in Answers(n)'
               PROVE  InOrder(r, s)
    BY DEF AnswersOrdered, InOrder
  <2> QED
    BY DEF FInv, AnswersOrdered
<1> QED
  BY <1>1, <1>2, <1>3

\* The clock, the registry and the rounds of the puller.
LEMMA OtherSteps ==
    ASSUME FInv,
           \/ Tick
           \/ \E n \in Nodes : \/ \E op \in {"create", "revoke"} : Publish(n, op)
                              \/ ApplyPeer(n)
           \/ PublishOther \/ ReadRegistry \/ StartRound \/ SkipPeer
    PROVE  FInv'
<1>1. /\ NodesRest /\ UNCHANGED <<snapshots, cached, request>>
      /\ now' = now \/ (now' = now + 1 /\ request.stage # "valid")
  <2>1. CASE Tick
    BY <2>1 DEF Tick, Waiting, Idle, NoRequest, NodesRest, remote, store, puller
  <2>2. CASE PublishOther \/ \E n \in Nodes, op \in {"create", "revoke"} : Publish(n, op)
    BY <2>2 DEF Publish, PublishOther, NodesRest, remote, store, puller
  <2>3. CASE \E n \in Nodes : ApplyPeer(n)
    BY <2>3 DEF ApplyPeer, NodesRest, remote, puller
  <2>4. CASE ReadRegistry
    BY <2>4 DEF ReadRegistry, NodesRest, remote, store, puller
  <2>5. CASE StartRound
    BY <2>5 DEF StartRound, NodesRest, remote, store
  <2>6. CASE SkipPeer
    BY <2>6 DEF SkipPeer, NodesRest, remote, store
  <2> QED
    BY <2>1, <2>2, <2>3, <2>4, <2>5, <2>6
<1>2. now \in Nat /\ now' \in Nat /\ now <= now'
  BY <1>1 DEF FInv, FTypes
<1>3. \A n \in Nodes : Answers(n)' = Answers(n)
  BY <1>1 DEF Answers, HasReply
<1>4. FTypes' /\ AnswersGiven' /\ AnswersOrdered'
  BY <1>1, <1>2, <1>3, DropStep
<1>5. ReadLast'
  BY <1>1, <1>3 DEF FInv, ReadLast, NodesRest, Version
<1>6. ValidLast'
  BY <1>1 DEF FInv, ValidLast, Expired
<1> QED
  BY <1>4, <1>5, <1>6 DEF FInv

\* A revoke drops the snapshot of its node.
LEMMA ApplyRevokeStep == ASSUME FInv, NEW m \in Nodes, ApplyRevoke(m) PROVE FInv'
<1>1. /\ NodesRest /\ now' = now /\ UNCHANGED <<cached, request>>
      /\ DOMAIN snapshots' = DOMAIN snapshots \ {m}
      /\ \A x \in DOMAIN snapshots' : snapshots'[x] = snapshots[x]
  BY DEF ApplyRevoke, NodesRest, remote, puller, Without, Restrict
<1>2. \A n \in Nodes : Answers(n)' \subseteq Answers(n)
  BY <1>1 DEF Answers, HasReply
<1>3. now \in Nat /\ now <= now'
  BY <1>1 DEF FInv, FTypes
<1>4. FTypes' /\ AnswersGiven' /\ AnswersOrdered'
  BY <1>1, <1>2, <1>3, DropStep
<1>5. ReadLast'
  BY <1>1, <1>2 DEF FInv, ReadLast, NodesRest, Version
<1>6. ValidLast'
  BY <1>1 DEF FInv, ValidLast, Expired
<1> QED
  BY <1>4, <1>5, <1>6 DEF FInv

\* A request begins, or ends without an answer.
LEMMA NoAnswerStep ==
    ASSUME FInv, SendRequest \/ RequestFails \/ RejectReply
    PROVE  FInv'
<1>1. /\ NodesRest /\ now' = now /\ UNCHANGED <<snapshots, cached>>
      /\ request'.stage \in {"sent", "none"}
  BY DEF SendRequest, RequestFails, RejectReply, Failed, NoRequest, NodesRest, remote, store
<1>2. \A n \in Nodes : Answers(n)' \subseteq Answers(n)
  BY <1>1 DEF Answers, HasReply
<1>3. now \in Nat /\ now <= now'
  BY <1>1 DEF FInv, FTypes
<1>4. FTypes' /\ AnswersGiven' /\ AnswersOrdered'
  BY <1>1, <1>2, <1>3, DropStep
<1>5. ReadLast' /\ ValidLast'
  BY <1>1 DEF ReadLast, ValidLast
<1> QED
  BY <1>4, <1>5 DEF FInv

\* The handler of a node reads its connections.
LEMMA ReadItemsStep == ASSUME FInv, ReadItems PROVE FInv'
<1>1. /\ NodesRest /\ now' = now /\ UNCHANGED <<snapshots, cached>>
      /\ request'.stage = "items" /\ request'.node = request.node
      /\ request'.items = Version(request.node)
  BY DEF ReadItems, NodesRest, remote, store
<1>2. \A n \in Nodes : Answers(n)' \subseteq Answers(n)
  BY <1>1 DEF Answers, HasReply
<1>3. now \in Nat /\ now <= now'
  BY <1>1 DEF FInv, FTypes
<1>4. FTypes' /\ AnswersGiven' /\ AnswersOrdered'
  BY <1>1, <1>2, <1>3, DropStep
<1>5. ReadLast'
  <2> SUFFICES ASSUME NEW m \in Nodes, m = request.node, m = request'.node
               PROVE  /\ request'.items \in Nat /\ request'.items <= Version(m)'
                      /\ \A r \in Answers(m)' : r.items <= request'.items
    BY <1>1 DEF ReadLast
  <2>1. Version(m) \in Nat /\ Version(m)' = Version(m)
    BY <1>1 DEF FInv, FTypes, Version, NodesRest
  <2>2. \A r \in Answers(m) : r.items <= Version(m)
    BY DEF FInv, AnswersGiven, Given
  <2>3. request'.items = Version(m)
    BY <1>1
  <2> QED
    BY <1>2, <2>1, <2>2, <2>3
<1>6. ValidLast'
  BY <1>1 DEF ValidLast
<1> QED
  BY <1>4, <1>5, <1>6 DEF FInv

\* A cache answers, with what it holds.
LEMMA AnswerFromCacheStep == ASSUME FInv, AnswerFromCache PROVE FInv'
<1>1. /\ NodesRest /\ now' = now /\ UNCHANGED <<snapshots, cached>>
      /\ request.node \in DOMAIN cached
      /\ request'.stage = "reply" /\ request'.node = request.node
      /\ request'.reply = cached[request.node]
  BY DEF AnswerFromCache, NodesRest, remote, store
<1>2. \A n \in Nodes : Answers(n)' \subseteq Answers(n)
  BY <1>1 DEF Answers, HasReply
<1>3. now \in Nat /\ now <= now'
  BY <1>1 DEF FInv, FTypes
<1>4. FTypes' /\ AnswersGiven' /\ AnswersOrdered'
  BY <1>1, <1>2, <1>3, DropStep
<1>5. ReadLast' /\ ValidLast'
  BY <1>1 DEF ReadLast, ValidLast
<1> QED
  BY <1>4, <1>5 DEF FInv

\* An answer is checked against the snapshot it would replace.
LEMMA ValidateStep == ASSUME FInv, Validate PROVE FInv'
<1>1. /\ NodesRest /\ now' = now /\ UNCHANGED <<snapshots, cached>>
      /\ request.stage = "reply" /\ Accepts(request.node, request.reply)
      /\ request'.stage = "valid" /\ request'.node = request.node
      /\ request'.reply = request.reply
  BY DEF Validate, NodesRest, remote, store
<1>2. \A n \in Nodes : Answers(n)' \subseteq Answers(n)
  BY <1>1 DEF Answers, HasReply
<1>3. now \in Nat /\ now <= now'
  BY <1>1 DEF FInv, FTypes
<1>4. FTypes' /\ AnswersGiven' /\ AnswersOrdered'
  BY <1>1, <1>2, <1>3, DropStep
<1>5. ReadLast'
  BY <1>1 DEF ReadLast
<1>6. ValidLast'
  BY <1>1 DEF ValidLast, Accepts, Expired
<1> QED
  BY <1>4, <1>5, <1>6 DEF FInv

\* A validated answer is stored.
LEMMA StoreSnapshotStep == ASSUME FInv, StoreSnapshot PROVE FInv'
<1>1. /\ NodesRest /\ now' = now /\ cached' = cached
      /\ request.stage = "valid" /\ request' = NoRequest
      /\ DOMAIN snapshots' = DOMAIN snapshots \cup {request.node}
      /\ \A x \in DOMAIN snapshots' :
            snapshots'[x] = IF x = request.node THEN request.reply ELSE snapshots[x]
  BY DEF StoreSnapshot, StoredReply, Put, NodesRest, remote
<1>2. \A n \in Nodes : Answers(n)' \subseteq Answers(n)
  BY <1>1 DEF Answers, HasReply, NoRequest
<1>3. now \in Nat /\ now <= now'
  BY <1>1 DEF FInv, FTypes
<1>4. FTypes' /\ AnswersGiven' /\ AnswersOrdered'
  BY <1>1, <1>2, <1>3, DropStep
<1>5. ReadLast' /\ ValidLast'
  BY <1>1 DEF ReadLast, ValidLast, NoRequest
<1> QED
  BY <1>4, <1>5 DEF FInv

-----------------------------------------------------------------------------
(* Steps of the nodes *)

\* A node stops or starts, or its presence changes.
LEMMA NodeStep ==
    ASSUME FInv, NEW m \in Nodes, PresenceChanges(m) \/ StopNode(m) \/ StartNode(m)
    PROVE  FInv'
<1>1. /\ now' = now /\ UNCHANGED <<snapshots, cached, request>>
  BY DEF PresenceChanges, StopNode, StartNode, store, puller
<1>2. FTypes'
  <2>1. CASE PresenceChanges(m)
    BY <2>1 DEF PresenceChanges, FInv, FTypes
  <2>2. CASE StopNode(m)
    BY <2>2 DEF StopNode, FInv, FTypes
  <2>3. CASE StartNode(m)
    BY <2>3 DEF StartNode, FInv, FTypes
  <2> QED
    BY <2>1, <2>2, <2>3
<1>3. \A n \in Nodes : Answers(n)' = Answers(n)
  BY <1>1 DEF Answers, HasReply
<1>4. \A n \in Nodes : Version(n) \in Nat /\ Version(n)' \in Nat /\ Version(n) <= Version(n)'
  <2>1. CASE PresenceChanges(m)
    <3> SUFFICES ASSUME NEW n \in Nodes
                 PROVE  Version(n) \in Nat /\ Version(n)' \in Nat /\ Version(n) <= Version(n)'
      OBVIOUS
    <3>1. changes[n] \in Seq(Nat) /\ now \in Nat
      BY DEF FInv, FTypes
    <3>2. Len(changes[n]) \in Nat /\ Len(Append(changes[n], now)) = Len(changes[n]) + 1
      BY <3>1
    <3>3. changes'[n] = changes[n] \/ changes'[n] = Append(changes[n], now)
      BY <2>1 DEF PresenceChanges, FInv, FTypes
    <3> QED
      BY <3>2, <3>3 DEF Version
  <2>2. CASE StopNode(m) \/ StartNode(m)
    <3>1. changes' = changes
      BY <2>2 DEF StopNode, StartNode
    <3>2. \A n \in Nodes : Version(n) \in Nat
      BY DEF FInv, FTypes, Version
    <3> QED
      BY <3>1, <3>2 DEF Version
  <2> QED
    BY <2>1, <2>2
<1>5. AnswersGiven'
  <2> SUFFICES ASSUME NEW n \in Nodes, NEW r \in Answers(n)' PROVE Given(n, r)'
    BY DEF AnswersGiven
  <2>1. Given(n, r)
    BY <1>3 DEF FInv, AnswersGiven
  <2>2. \/ epoch'[n] = epoch[n] /\ nextSeq[n] <= nextSeq'[n]
        \/ epoch'[n] > epoch[n]
    <3>1. nextSeq[n] \in Nat /\ epoch[n] \in Nat
      BY DEF FInv, FTypes
    <3>2. CASE PresenceChanges(m) \/ StopNode(m)
      BY <3>1, <3>2 DEF PresenceChanges, StopNode
    <3>3. CASE StartNode(m)
      BY <3>1, <3>3 DEF StartNode, FInv, FTypes
    <3> QED
      BY <3>2, <3>3
  <2>3. n \notin serving' => \/ n \in serving /\ stoppedAt'[n] = now
                             \/ n \notin serving /\ stoppedAt'[n] = stoppedAt[n]
    <3>1. CASE PresenceChanges(m)
      BY <3>1 DEF PresenceChanges
    <3>2. CASE StopNode(m)
      <4>1. m \in serving /\ serving' = serving \ {m} /\ stoppedAt' = [stoppedAt EXCEPT ![m] = now]
        BY <3>2 DEF StopNode
      <4>2. stoppedAt'[n] = IF n = m THEN now ELSE stoppedAt[n]
        BY <4>1 DEF FInv, FTypes
      <4>3. CASE n = m
        BY <4>1, <4>2, <4>3
      <4>4. CASE n # m
        BY <4>1, <4>2, <4>4
      <4> QED
        BY <4>3, <4>4
    <3>3. CASE StartNode(m)
      BY <3>3 DEF StartNode
    <3> QED
      BY <3>1, <3>2, <3>3
  <2>4. now <= now'
    BY <1>1 DEF FInv, FTypes
  <2> QED
    BY <1>2, <1>4, <2>1, <2>2, <2>3, <2>4, GivenStays DEF FInv
<1>6. AnswersOrdered'
  BY <1>3 DEF FInv, AnswersOrdered, InOrder
<1>7. ReadLast'
  <2> SUFFICES ASSUME NEW x \in Nodes, x = request.node, request.stage = "items"
               PROVE  /\ request.items \in Nat /\ request.items <= Version(x)'
                      /\ \A r \in Answers(x)' :
                            r.epoch = request.epoch => r.items <= request.items
    BY <1>1 DEF ReadLast
  <2>1. /\ request.items \in Nat /\ request.items <= Version(x)
        /\ \A r \in Answers(x) : r.epoch = request.epoch => r.items <= request.items
    BY DEF FInv, ReadLast
  <2> QED
    BY <1>3, <1>4, <2>1
<1>8. ValidLast'
  BY <1>1 DEF FInv, ValidLast, Expired
<1> QED
  BY <1>2, <1>5, <1>6, <1>7, <1>8 DEF FInv

\* The handler stamps what it has read: an answer that is the last of its run.
LEMMA StampSnapshotStep == ASSUME FInv, StampSnapshot PROVE FInv'
<1> DEFINE m == request.node
<1> DEFINE reply == [items |-> request.items, at |-> now + Ahead, seq |-> nextSeq[m] + 1,
                     epoch |-> epoch[m]]
<1>1. /\ request.stage = "items" /\ m \in serving /\ request.epoch = epoch[m]
      /\ nextSeq' = [nextSeq EXCEPT ![m] = @ + 1]
      /\ cached' \in {cached, Put(cached, m, reply)}
      /\ request'.stage = "reply" /\ request'.node = m /\ request'.reply = reply
      /\ UNCHANGED <<now, serving, changes, epoch, stoppedAt, snapshots>>
  BY DEF StampSnapshot, store
<1>2. m \in Nodes /\ epoch[m] \in Nat /\ nextSeq[m] \in Nat /\ now \in Nat /\ Ahead \in Nat
  BY <1>1, FederationAssumption DEF FInv, FTypes
<1>3. \A n \in Nodes : Answers(n)' \subseteq Answers(n) \cup (IF n = m THEN {reply} ELSE {})
  <2>1. cached' = cached \/ (/\ DOMAIN cached' = DOMAIN cached \cup {m}
                            /\ \A x \in DOMAIN cached' :
                                  cached'[x] = IF x = m THEN reply ELSE cached[x])
    BY <1>1 DEF Put
  <2> HIDE DEF reply, m
  <2> QED
    BY <1>1, <2>1 DEF Answers, HasReply
<1>4. /\ reply.items = request.items /\ reply.at = now + Ahead
      /\ reply.seq = nextSeq[m] + 1 /\ reply.epoch = epoch[m]
  OBVIOUS
<1>5. /\ request.items \in Nat /\ request.items <= Version(m)
      /\ \A r \in Answers(m) : r.epoch = epoch[m] => r.items <= request.items
  BY <1>1, <1>2 DEF FInv, ReadLast
<1> HIDE DEF reply, m
<1>6. FTypes'
  BY <1>1, <1>2 DEF FInv, FTypes
<1>7. \A n \in Nodes : nextSeq[n] <= nextSeq'[n] /\ Version(n) <= Version(n)'
  BY <1>1 DEF FInv, FTypes, Version
<1>8. AnswersGiven'
  <2> SUFFICES ASSUME NEW n \in Nodes, NEW r \in Answers(n)' PROVE Given(n, r)'
    BY DEF AnswersGiven
  <2>1. CASE r \in Answers(n)
    <3>1. Given(n, r)
      BY <2>1 DEF FInv, AnswersGiven
    <3>2. now <= now'
      BY <1>1, <1>2
    <3> QED
      BY <1>1, <1>6, <1>7, <3>1, <3>2, GivenStays DEF FInv
  <2>2. CASE n = m /\ r = reply
    <3>1. nextSeq'[n] = nextSeq[n] + 1
      BY <1>1, <1>2, <2>2 DEF FInv, FTypes
    <3>2. Version(n)' = Version(n)
      BY <1>1 DEF Version
    <3>3. r.items \in Nat /\ r.items <= Version(n)'
      BY <1>4, <1>5, <2>2, <3>2
    <3>4. r.at \in Nat /\ r.at <= now' + Ahead /\ n \in serving'
      BY <1>1, <1>2, <1>4, <2>2
    <3>5. /\ r.seq \in Nat /\ r.epoch \in Nat /\ r.epoch <= epoch'[n] /\ r.seq <= nextSeq'[n]
      BY <1>1, <1>2, <1>4, <2>2, <3>1
    <3> QED
      BY <3>3, <3>4, <3>5 DEF Given
  <2> QED
    BY <1>3, <2>1, <2>2
<1>9. AnswersOrdered'
  <2> SUFFICES ASSUME NEW n \in Nodes, NEW r \in Answers(n)', NEW s \in Answers(n)'
               PROVE  InOrder(r, s)
    BY DEF AnswersOrdered, InOrder
  <2>1. CASE r \in Answers(n) /\ s \in Answers(n)
    BY <2>1 DEF FInv, AnswersOrdered
  <2>2. CASE n = m /\ r \in Answers(n) /\ s = reply
    BY <1>4, <1>5, <2>2 DEF InOrder
  <2>3. CASE n = m /\ r = reply /\ s \in Answers(n)
    <3>1. s.seq \in Nat /\ (s.epoch = epoch[m] => s.seq <= nextSeq[m])
      BY <2>3 DEF FInv, AnswersGiven, Given
    <3> QED
      BY <1>2, <1>4, <2>3, <3>1 DEF InOrder
  <2>4. CASE n = m /\ r = reply /\ s = reply
    BY <1>2, <1>4, <2>4 DEF InOrder
  <2> QED
    BY <1>3, <2>1, <2>2, <2>3, <2>4
<1>10. ReadLast' /\ ValidLast'
  BY <1>1 DEF ReadLast, ValidLast
<1> QED
  BY <1>6, <1>8, <1>9, <1>10 DEF FInv

-----------------------------------------------------------------------------
(* The theorems *)

\* Every step keeps the invariant.
LEMMA StepFInv == FInv /\ [NextF]_fvars => FInv'
<1> SUFFICES ASSUME FInv, [NextF]_fvars PROVE FInv'
  OBVIOUS
<1>1. CASE UNCHANGED fvars
  BY <1>1 DEF fvars, remote, store, puller, FInv, FTypes, AnswersGiven, Given, AnswersOrdered,
              InOrder, ReadLast, ValidLast, Answers, HasReply, Version, Expired
<1>2. CASE NextF
  BY <1>2, OtherSteps, ApplyRevokeStep, NoAnswerStep, ReadItemsStep, AnswerFromCacheStep,
     ValidateStep, StoreSnapshotStep, NodeStep, StampSnapshotStep
     DEF NextF
<1> QED
  BY <1>1, <1>2

\* In every reachable state.
LEMMA FederationInvariant == SpecF => []FInv
BY InitFInv, StepFInv, PTL DEF SpecF

\* A node that stopped is not shown for longer than the TTL by its clock,
\* whatever answers of it are on their way (activeSnapshots).
THEOREM TheSilentDisappear == SpecF => []SilentNodeDisappears
<1>1. FInv => SilentNodeDisappears
  <2> SUFFICES ASSUME FInv, NEW n \in Nodes, Shown(n), n \notin serving
               PROVE  now <= stoppedAt[n] + Ahead + TTL
    BY DEF SilentNodeDisappears
  <2>1. snapshots[n] \in Answers(n)
    BY DEF Shown, Answers
  <2>2. snapshots[n].at \in Nat /\ snapshots[n].at <= stoppedAt[n] + Ahead
    BY <2>1 DEF FInv, AnswersGiven, Given
  <2>3. now \in Nat /\ stoppedAt[n] \in Nat /\ Ahead \in Nat /\ TTL \in Nat
    BY FederationAssumption DEF FInv, FTypes
  <2>4. ~(snapshots[n].at + TTL < now)
    BY DEF Shown, Expired
  <2> QED
    BY <2>2, <2>3, <2>4
<1> QED
  BY <1>1, FederationInvariant, PTL

\* What is shown of a node never returns to an older state of the same run of
\* that node (validateSnapshot, UpsertSnapshot).
THEOREM ViewGoesForward == SpecF => ViewNeverGoesBack
<1> DEFINE Forward == \A n \in Nodes :
        Shown(n) /\ Shown(n)' /\ snapshots[n].epoch = snapshots'[n].epoch
           => snapshots[n].items <= snapshots'[n].items
<1>1. FInv /\ [NextF]_fvars => [Forward]_fvars
  <2> SUFFICES ASSUME FInv, NextF, NEW n \in Nodes, Shown(n), Shown(n)',
                      snapshots[n].epoch = snapshots'[n].epoch
               PROVE  snapshots[n].items <= snapshots'[n].items
    OBVIOUS
  <2>1. n \in DOMAIN snapshots /\ ~Expired(snapshots[n]) /\ n \in DOMAIN snapshots'
    BY DEF Shown
  <2>2. snapshots[n] \in Answers(n) /\ snapshots[n].items \in Nat
    BY <2>1 DEF FInv, Answers, AnswersGiven, Given
  <2>3. CASE StoreSnapshot /\ request.node = n
    <3>1. request.stage = "valid" /\ snapshots'[n] = request.reply
      BY <2>3 DEF StoreSnapshot, StoredReply, Put
    <3>2. request.reply \in Answers(n)
      BY <2>3, <3>1 DEF Answers, HasReply
    <3>3. request.reply.seq > snapshots[n].seq
      BY <2>1, <2>3, <3>1 DEF FInv, ValidLast
    <3>4. snapshots[n].seq \in Nat /\ request.reply.seq \in Nat
      BY <2>2, <3>2 DEF FInv, AnswersGiven, Given
    <3>5. InOrder(snapshots[n], request.reply)
      BY <2>2, <3>2 DEF FInv, AnswersOrdered
    <3> QED
      BY <3>1, <3>3, <3>4, <3>5 DEF InOrder
  <2>4. CASE ~(StoreSnapshot /\ request.node = n)
    <3>1. snapshots'[n] = snapshots[n]
      <4>1. CASE StoreSnapshot
        BY <2>1, <2>4, <4>1 DEF StoreSnapshot, Put
      <4>2. CASE \E m \in Nodes : ApplyRevoke(m)
        BY <2>1, <4>2 DEF ApplyRevoke, Without, Restrict
      <4>3. CASE snapshots' = snapshots
        BY <4>3
      <4>4. StoreSnapshot \/ (\E m \in Nodes : ApplyRevoke(m)) \/ snapshots' = snapshots
        BY DEF NextF, Tick, PresenceChanges, StopNode, StartNode, Publish, PublishOther,
               ApplyPeer, ReadRegistry, StartRound, SkipPeer, SendRequest, ReadItems,
               StampSnapshot, AnswerFromCache, RequestFails, Validate, RejectReply, store
      <4> QED
        BY <4>1, <4>2, <4>3, <4>4
    <3> QED
      BY <2>2, <3>1
  <2> QED
    BY <2>3, <2>4
<1> QED
  BY <1>1, FederationInvariant, PTL DEF SpecF, ViewNeverGoesBack

-----------------------------------------------------------------------------
(* How old what is shown may be *)

\* An answer without the latest changes was stamped no later than a request
\* timeout after the first change it misses.
Recent(n, r) ==
    r.items < Version(n) => r.at <= changes[n][r.items + 1] + Ahead + RequestTimeout

\* A request that a node has not answered began at most a timeout ago.
InTime ==
    request.stage \in {"sent", "items", "reply"} =>
        request.at \in Nat /\ request.at <= now /\ now <= request.at + RequestTimeout

\* The changes that a handler has not read came after the request.
ReadRecent ==
    request.stage = "items" /\ request.node \in Nodes /\ request.items < Version(request.node)
        => request.at <= changes[request.node][request.items + 1]

AnswersRecent == \A n \in Nodes : \A r \in Answers(n) : Recent(n, r)

RecentInv == InTime /\ ReadRecent /\ AnswersRecent

\* Nothing has been answered.
LEMMA InitRecent == InitF => RecentInv
<1> SUFFICES ASSUME InitF PROVE RecentInv
  OBVIOUS
<1>1. \A n \in Nodes : Answers(n) = {}
  BY DEF InitF, Answers, HasReply, Empty, NoRequest
<1> QED
  BY <1>1 DEF InitF, RecentInv, InTime, ReadRecent, AnswersRecent, NoRequest

\* A request is answered, lost or refused within the timeout, as no tick of the
\* clock passes it.
LEMMA InTimeStep == ASSUME FInv, InTime, [NextF]_fvars PROVE InTime'
<1> USE DEF InTime
<1>1. now \in Nat /\ RequestTimeout \in Nat
  BY FederationAssumption DEF FInv, FTypes
<1>2. CASE UNCHANGED <<now, request>>
  BY <1>2
<1>3. CASE Tick
  <2>1. /\ now' = now + 1 /\ request' = request
        /\ request = NoRequest \/ now < request.at + RequestTimeout
    BY <1>3 DEF Tick, Waiting, Idle, puller
  <2> QED
    BY <1>1, <2>1 DEF NoRequest
<1>4. CASE SendRequest
  BY <1>1, <1>4 DEF SendRequest
<1>5. CASE ReadItems
  BY <1>5 DEF ReadItems
<1>6. CASE StampSnapshot
  BY <1>6 DEF StampSnapshot
<1>7. CASE AnswerFromCache
  BY <1>7 DEF AnswerFromCache
<1>8. CASE RequestFails \/ RejectReply \/ Validate \/ StoreSnapshot
  BY <1>8 DEF RequestFails, RejectReply, Validate, StoreSnapshot, Failed, NoRequest
<1>9. \/ UNCHANGED <<now, request>> \/ Tick \/ SendRequest \/ ReadItems \/ StampSnapshot
      \/ AnswerFromCache \/ RequestFails \/ RejectReply \/ Validate \/ StoreSnapshot
  BY DEF NextF, fvars, puller, PresenceChanges, StopNode, StartNode, Publish, PublishOther,
         ApplyPeer, ApplyRevoke, ReadRegistry, StartRound, SkipPeer
<1> QED
  BY <1>2, <1>3, <1>4, <1>5, <1>6, <1>7, <1>8, <1>9

\* What a step may do to the presence of a node and to its answers.
LEMMA AnswersCome ==
    ASSUME FInv, [NextF]_fvars
    PROVE  \/ changes' = changes /\ \A n \in Nodes : Answers(n)' \subseteq Answers(n)
           \/ (\E m \in Nodes : PresenceChanges(m)) /\ \A n \in Nodes : Answers(n)' = Answers(n)
           \/ StampSnapshot
<1>1. CASE UNCHANGED fvars
  BY <1>1 DEF fvars, remote, store, puller, Answers, HasReply
<1>2. CASE \E m \in Nodes : PresenceChanges(m)
  BY <1>2 DEF PresenceChanges, store, puller, Answers, HasReply
<1>3. CASE \E m \in Nodes : ApplyRevoke(m)
  BY <1>3 DEF ApplyRevoke, Without, Restrict, remote, puller, Answers, HasReply
<1>4. CASE StoreSnapshot
  BY <1>4 DEF StoreSnapshot, StoredReply, Put, remote, NoRequest, Answers, HasReply
<1>5. CASE SendRequest \/ RequestFails \/ RejectReply \/ ReadItems
  <2>1. UNCHANGED <<changes, snapshots, cached>> /\ ~HasReply'
    BY <1>5 DEF SendRequest, RequestFails, RejectReply, ReadItems, Failed, NoRequest, HasReply,
                remote, store
  <2> QED
    BY <2>1 DEF Answers
<1>6. CASE AnswerFromCache
  <2>1. /\ UNCHANGED <<changes, snapshots, cached>> /\ request.node \in DOMAIN cached
        /\ request'.node = request.node /\ request'.reply = cached[request.node]
    BY <1>6 DEF AnswerFromCache, remote, store
  <2> QED
    BY <2>1 DEF Answers
<1>7. CASE Validate
  <2>1. /\ UNCHANGED <<changes, snapshots, cached>> /\ request.stage = "reply"
        /\ request'.node = request.node /\ request'.reply = request.reply
    BY <1>7 DEF Validate, remote, store
  <2> QED
    BY <2>1 DEF Answers, HasReply
<1>8. CASE UNCHANGED <<changes, snapshots, cached, request>>
  BY <1>8 DEF Answers, HasReply
<1>9. CASE StampSnapshot
  BY <1>9
<1>10. \/ UNCHANGED fvars \/ StoreSnapshot \/ SendRequest \/ RequestFails \/ RejectReply
       \/ ReadItems \/ AnswerFromCache \/ Validate \/ StampSnapshot
       \/ (\E m \in Nodes : PresenceChanges(m)) \/ (\E m \in Nodes : ApplyRevoke(m))
       \/ UNCHANGED <<changes, snapshots, cached, request>>
  BY DEF NextF, Tick, StopNode, StartNode, Publish, PublishOther, ApplyPeer, ReadRegistry,
         StartRound, SkipPeer, remote, store, puller
<1> QED
  BY <1>1, <1>2, <1>3, <1>4, <1>5, <1>6, <1>7, <1>8, <1>9, <1>10

\* One more change of presence: those before it stay.
LEMMA OneMoreChange ==
    ASSUME FInv, NEW m \in Nodes, PresenceChanges(m), NEW n \in Nodes
    PROVE  /\ Version(n) \in Nat /\ changes[n] \in Seq(Nat)
           /\ \A i \in 1..Version(n) : changes'[n][i] = changes[n][i]
           /\ \/ Version(n)' = Version(n)
              \/ Version(n)' = Version(n) + 1 /\ changes'[n][Version(n) + 1] = now
<1>1. changes[n] \in Seq(Nat) /\ now \in Nat /\ n \in DOMAIN changes
  BY DEF FInv, FTypes
<1>2. changes' = [changes EXCEPT ![m] = Append(@, now)]
  BY DEF PresenceChanges
<1>3. Len(changes[n]) \in Nat
  BY <1>1
<1>4. CASE n # m
  BY <1>1, <1>2, <1>3, <1>4 DEF Version
<1>5. CASE n = m
  <2>1. changes'[n] = Append(changes[n], now)
    BY <1>1, <1>2, <1>5
  <2>2. /\ Len(Append(changes[n], now)) = Len(changes[n]) + 1
        /\ Append(changes[n], now)[Len(changes[n]) + 1] = now
        /\ \A i \in 1..Len(changes[n]) : Append(changes[n], now)[i] = changes[n][i]
    BY <1>1
  <2> QED
    BY <1>1, <1>3, <2>1, <2>2 DEF Version
<1> QED
  BY <1>4, <1>5

\* The times of the changes are those of the past; a change that a handler has
\* not read is later than its request.
LEMMA ReadRecentStep == ASSUME FInv, RecentInv, [NextF]_fvars PROVE ReadRecent'
<1>1. CASE ReadItems
  <2> SUFFICES ASSUME NEW n \in Nodes, n = request'.node
               PROVE  ~(request'.items < Version(n)')
    BY <1>1 DEF ReadRecent, ReadItems
  <2>1. request'.items = Version(n) /\ changes' = changes
    BY <1>1 DEF ReadItems, remote
  <2>2. Version(n) \in Nat /\ Version(n)' = Version(n)
    BY <2>1 DEF FInv, FTypes, Version
  <2> QED
    BY <2>1, <2>2
<1>2. CASE UNCHANGED <<changes, request>>
  BY <1>2 DEF RecentInv, ReadRecent, Version
<1>3. CASE request'.stage # "items"
  BY <1>3 DEF ReadRecent
<1>4. ASSUME NEW m \in Nodes, PresenceChanges(m) PROVE ReadRecent'
  <2> SUFFICES ASSUME NEW n \in Nodes, n = request.node, request.stage = "items",
                      request.items < Version(n)'
               PROVE  request.at <= changes'[n][request.items + 1]
    BY <1>4 DEF ReadRecent, PresenceChanges, puller
  <2>1. /\ Version(n) \in Nat /\ \A i \in 1..Version(n) : changes'[n][i] = changes[n][i]
        /\ \/ Version(n)' = Version(n)
           \/ Version(n)' = Version(n) + 1 /\ changes'[n][Version(n) + 1] = now
    BY <1>4, OneMoreChange
  <2>2. request.items \in Nat /\ request.items <= Version(n)
    BY DEF FInv, ReadLast
  <2>3. CASE request.items < Version(n)
    <3>1. request.at <= changes[n][request.items + 1]
      BY <2>3 DEF RecentInv, ReadRecent
    <3>2. request.items + 1 \in 1..Version(n)
      BY <2>1, <2>2, <2>3
    <3> QED
      BY <2>1, <3>1, <3>2
  <2>4. CASE request.items = Version(n)
    <3>1. changes'[n][request.items + 1] = now
      BY <2>1, <2>2, <2>4
    <3> QED
      BY <3>1 DEF RecentInv, InTime
  <2> QED
    BY <2>1, <2>2, <2>3, <2>4
<1>5. \/ UNCHANGED <<changes, request>> \/ request'.stage # "items" \/ ReadItems
      \/ \E m \in Nodes : PresenceChanges(m)
  <2>1. CASE SendRequest \/ StampSnapshot \/ AnswerFromCache \/ RequestFails \/ Validate
             \/ RejectReply \/ StoreSnapshot
    <3>1. request'.stage # "items"
      BY <2>1 DEF SendRequest, StampSnapshot, AnswerFromCache, RequestFails, Validate, RejectReply,
                  StoreSnapshot, Failed, NoRequest
    <3> QED
      BY <3>1
  <2>2. CASE \/ UNCHANGED fvars \/ Tick \/ PublishOther \/ ReadRegistry \/ StartRound \/ SkipPeer
             \/ \E m \in Nodes : \/ StopNode(m) \/ StartNode(m) \/ ApplyRevoke(m) \/ ApplyPeer(m)
                                \/ \E op \in {"create", "revoke"} : Publish(m, op)
    <3>1. UNCHANGED <<changes, request>>
      BY <2>2 DEF fvars, Tick, ReadRegistry, StartRound, SkipPeer, StopNode, StartNode, ApplyRevoke,
                  ApplyPeer, Publish, PublishOther, remote, puller
    <3> QED
      BY <3>1
  <2> QED
    BY <2>1, <2>2 DEF NextF
<1> QED
  BY <1>1, <1>2, <1>3, <1>4, <1>5

\* The answer that a handler gives is the only new one.
LEMMA Stamped ==
    ASSUME StampSnapshot, NEW n \in Nodes, NEW r \in Answers(n)'
    PROVE  \/ r \in Answers(n)
           \/ /\ n = request.node /\ r.items = request.items /\ r.at = now + Ahead
              /\ r.seq = nextSeq[n] + 1 /\ r.epoch = epoch[n]
<1> DEFINE m == request.node
<1> DEFINE reply == [items |-> request.items, at |-> now + Ahead, seq |-> nextSeq[m] + 1,
                     epoch |-> epoch[m]]
<1>1. /\ cached' \in {cached, Put(cached, m, reply)}
      /\ request'.node = m /\ request'.reply = reply /\ snapshots' = snapshots
  BY DEF StampSnapshot, store
<1>2. /\ reply.items = request.items /\ reply.at = now + Ahead
      /\ reply.seq = nextSeq[m] + 1 /\ reply.epoch = epoch[m]
  OBVIOUS
<1>3. cached' = cached \/ (/\ DOMAIN cached' = DOMAIN cached \cup {m}
                          /\ \A x \in DOMAIN cached' :
                                cached'[x] = IF x = m THEN reply ELSE cached[x])
  BY <1>1 DEF Put
<1> HIDE DEF reply
<1>4. r \in Answers(n) \/ (n = m /\ r = reply)
  <2> HIDE DEF m
  <2> QED
    BY <1>1, <1>3 DEF Answers, HasReply
<1> QED
  BY <1>2, <1>4

\* An answer becomes out of date by a change that comes after it was stamped,
\* or is stamped within the timeout of the request that the change came after.
LEMMA AnswersRecentStep == ASSUME FInv, RecentInv, [NextF]_fvars PROVE AnswersRecent'
<1>1. CASE changes' = changes /\ \A n \in Nodes : Answers(n)' \subseteq Answers(n)
  BY <1>1 DEF RecentInv, AnswersRecent, Recent, Version
<1>2. ASSUME NEW m \in Nodes, PresenceChanges(m), \A n \in Nodes : Answers(n)' = Answers(n)
      PROVE  AnswersRecent'
  <2> SUFFICES ASSUME NEW n \in Nodes, NEW r \in Answers(n), r.items < Version(n)'
               PROVE  r.at <= changes'[n][r.items + 1] + Ahead + RequestTimeout
    BY <1>2 DEF AnswersRecent, Recent
  <2>1. /\ Version(n) \in Nat /\ \A i \in 1..Version(n) : changes'[n][i] = changes[n][i]
        /\ \/ Version(n)' = Version(n)
           \/ Version(n)' = Version(n) + 1 /\ changes'[n][Version(n) + 1] = now
    BY <1>2, OneMoreChange
  <2>2. /\ r.items \in Nat /\ r.items <= Version(n) /\ r.at \in Nat /\ r.at <= now + Ahead
    BY DEF FInv, AnswersGiven, Given
  <2>3. CASE r.items < Version(n)
    <3>1. r.at <= changes[n][r.items + 1] + Ahead + RequestTimeout
      BY <2>3 DEF RecentInv, AnswersRecent, Recent
    <3>2. r.items + 1 \in 1..Version(n)
      BY <2>1, <2>2, <2>3
    <3> QED
      BY <2>1, <3>1, <3>2
  <2>4. CASE r.items = Version(n)
    <3>1. changes'[n][r.items + 1] = now
      BY <2>1, <2>2, <2>4
    <3>2. now \in Nat /\ Ahead \in Nat /\ RequestTimeout \in Nat
      BY FederationAssumption DEF FInv, FTypes
    <3> QED
      BY <2>2, <3>1, <3>2
  <2> QED
    BY <2>1, <2>2, <2>3, <2>4
<1>3. CASE StampSnapshot
  <2> SUFFICES ASSUME NEW n \in Nodes, NEW r \in Answers(n)', r.items < Version(n)'
               PROVE  r.at <= changes'[n][r.items + 1] + Ahead + RequestTimeout
    BY DEF AnswersRecent, Recent
  <2>1. changes' = changes /\ Version(n)' = Version(n)
    BY <1>3 DEF StampSnapshot, Version
  <2>2. CASE r \in Answers(n)
    BY <2>1, <2>2 DEF RecentInv, AnswersRecent, Recent
  <2>3. CASE n = request.node /\ r.items = request.items /\ r.at = now + Ahead
    <3>1. request.stage = "items"
      BY <1>3 DEF StampSnapshot
    <3>2. request.at \in Nat /\ now <= request.at + RequestTimeout
      BY <3>1 DEF RecentInv, InTime
    <3>3. request.at <= changes[n][request.items + 1]
      BY <2>1, <2>3, <3>1 DEF RecentInv, ReadRecent
    <3>4. changes[n][request.items + 1] \in Nat
      <4>1. changes[n] \in Seq(Nat) /\ Version(n) = Len(changes[n]) /\ Version(n) \in Nat
        BY DEF FInv, FTypes, Version
      <4>2. request.items \in Nat
        BY <2>3, <3>1 DEF FInv, ReadLast
      <4>3. request.items + 1 \in 1..Len(changes[n])
        BY <2>1, <2>3, <4>1, <4>2
      <4> QED
        BY <4>1, <4>3
    <3>5. now \in Nat /\ Ahead \in Nat /\ RequestTimeout \in Nat
      BY FederationAssumption DEF FInv, FTypes
    <3> QED
      BY <2>1, <2>3, <3>2, <3>3, <3>4, <3>5
  <2>4. r \in Answers(n) \/ (n = request.node /\ r.items = request.items /\ r.at = now + Ahead)
    BY <1>3, Stamped
  <2> QED
    BY <2>2, <2>3, <2>4
<1> QED
  BY <1>1, <1>2, <1>3, AnswersCome

\* What is shown of a node was true of it at most a TTL and a request timeout
\* ago by its clock, although the items are read before they are stamped
\* (snapshot.go:77).
THEOREM TheShownIsRecent == SpecF => []ShownIsRecent
<1>1. FInv /\ RecentInv => ShownIsRecent
  <2> SUFFICES ASSUME FInv, RecentInv, NEW n \in Nodes, Shown(n), snapshots[n].items < Version(n)
               PROVE  now <= changes[n][snapshots[n].items + 1] + Ahead + TTL + RequestTimeout
    BY DEF ShownIsRecent
  <2>1. snapshots[n] \in Answers(n)
    BY DEF Shown, Answers
  <2>2. /\ snapshots[n].at \in Nat /\ snapshots[n].items \in Nat
        /\ snapshots[n].at <= changes[n][snapshots[n].items + 1] + Ahead + RequestTimeout
    BY <2>1 DEF FInv, AnswersGiven, Given, RecentInv, AnswersRecent, Recent
  <2>3. now \in Nat /\ Ahead \in Nat /\ TTL \in Nat /\ RequestTimeout \in Nat
    BY FederationAssumption DEF FInv, FTypes
  <2>4. changes[n][snapshots[n].items + 1] \in Nat
    <3>1. changes[n] \in Seq(Nat) /\ Version(n) = Len(changes[n]) /\ Len(changes[n]) \in Nat
      BY DEF FInv, FTypes, Version
    <3>2. snapshots[n].items + 1 \in 1..Len(changes[n])
      BY <2>2, <3>1
    <3> QED
      BY <3>1, <3>2
  <2>5. ~(snapshots[n].at + TTL < now)
    BY DEF Shown, Expired
  <2> QED
    BY <2>2, <2>3, <2>4, <2>5
<1>2. FInv /\ RecentInv /\ [NextF]_fvars => RecentInv'
  BY InTimeStep, ReadRecentStep, AnswersRecentStep DEF RecentInv
<1> QED
  BY <1>1, <1>2, InitRecent, FederationInvariant, PTL DEF SpecF

-----------------------------------------------------------------------------
(* Revocation *)

\* When discovery has read a revoke at the latest: one period after it, and one
\* for each reading of the registry that may have failed.
ReadBy(n) == registry[n].at + DiscoveryInterval * (1 + faults)

\* What discovery read names n, and not as revoked.
Admitted(n) == n \in DOMAIN page /\ page[n].op # "revoke"

\* The clock does not pass a reading that is due.
Due ==
    /\ now \in Nat /\ nextRead \in Nat /\ faults \in Nat
    /\ now <= nextRead /\ nextRead <= now + DiscoveryInterval
    /\ \A n \in DOMAIN registry : registry[n].at \in Nat

\* Pins are numbered in their order, and discovery has read none of the future.
Numbered ==
    /\ pins \in Nat
    /\ noticed \in [Nodes -> Nat] /\ \A n \in Nodes : noticed[n] <= pins
    /\ DOMAIN registry \subseteq Nodes
    /\ \A n \in DOMAIN registry : registry[n].no \in Nat /\ registry[n].no <= pins

\* A revoke in the listing that was not read yet is read in time.
RevokeRead ==
    \A n \in DOMAIN registry :
        registry[n].op = "revoke" /\ Listed(n) /\ noticed[n] # registry[n].no =>
            nextRead <= ReadBy(n)

\* One that was read is applied, or is in time to be. Its node is not admitted
\* again, in the listing or not.
RevokeApplied ==
    \A n \in DOMAIN registry :
        registry[n].op = "revoke" /\ noticed[n] = registry[n].no =>
            \/ n \notin peers /\ ~Admitted(n)
            \/ n \in DOMAIN page /\ page[n].op = "revoke" /\ now <= ReadBy(n)

RevokeInv == Due /\ Numbered /\ RevokeRead /\ RevokeApplied

\* Nothing is registered.
LEMMA InitRevoke == InitF => RevokeInv
BY FederationAssumption DEF InitF, RevokeInv, Due, Numbered, RevokeRead, RevokeApplied, Empty

\* A deadline only moves to later, and by a period with each fault.
LEMMA ReadByGrows ==
    ASSUME Due, NEW n \in DOMAIN registry, registry' = registry, faults' \in {faults, faults + 1}
    PROVE  /\ ReadBy(n) \in Nat /\ ReadBy(n)' \in Nat /\ ReadBy(n) <= ReadBy(n)'
           /\ faults' = faults + 1 => ReadBy(n)' = ReadBy(n) + DiscoveryInterval
<1>1. registry[n].at \in Nat /\ faults \in Nat /\ DiscoveryInterval \in Nat
  BY FederationAssumption DEF Due
<1>2. /\ DiscoveryInterval * (1 + faults) \in Nat
      /\ DiscoveryInterval * (1 + (faults + 1)) = DiscoveryInterval * (1 + faults) + DiscoveryInterval
  BY <1>1
<1> QED
  BY <1>1, <1>2 DEF ReadBy

\* The clock, the faults and the deadline of discovery.
LEMMA DueStep == ASSUME Due, [NextF]_fvars PROVE Due'
<1>1. DiscoveryInterval \in Nat
  BY FederationAssumption
<1>2. CASE Tick
  BY <1>1, <1>2 DEF Due, Tick, Waiting, remote, discovery, bounds
<1>3. CASE ReadRegistry
  BY <1>1, <1>3 DEF Due, ReadRegistry, remote
<1>4. CASE \E n \in Nodes : \E op \in {"create", "revoke"} : Publish(n, op)
  BY <1>1, <1>4 DEF Due, Publish, Put, discovery
<1>5. CASE UNCHANGED <<now, nextRead, registry>> /\ faults' \in {faults, faults + 1}
  BY <1>1, <1>5 DEF Due
<1>6. \/ Tick \/ ReadRegistry \/ \E n \in Nodes : \E op \in {"create", "revoke"} : Publish(n, op)
      \/ UNCHANGED <<now, nextRead, registry>> /\ faults' \in {faults, faults + 1}
  BY DEF NextF, fvars, PresenceChanges, StopNode, StartNode, PublishOther, ApplyRevoke, ApplyPeer,
         StartRound, SkipPeer, SendRequest, ReadItems, StampSnapshot, AnswerFromCache,
         RequestFails, Validate, RejectReply, StoreSnapshot, remote, discovery, bounds
<1> QED
  BY <1>2, <1>3, <1>4, <1>5, <1>6

\* What discovery notes when it has read the registry, or has failed to.
LEMMA Notices ==
    ASSUME Numbered, ReadRegistry
    PROVE  /\ page = Empty /\ UNCHANGED <<now, registry, pins, peers>>
           /\ noticed' \in [Nodes -> Nat]
           /\ \/ /\ faults' = faults
                 /\ \A n \in Nodes : noticed'[n] = IF Listed(n) THEN registry[n].no ELSE noticed[n]
                 /\ \A n \in DOMAIN page' : n \in DOMAIN registry /\ Listed(n)
                 /\ \A n \in DOMAIN registry : registry[n].op = "revoke" /\ Listed(n) =>
                       n \in DOMAIN page' /\ page'[n] = registry[n]
              \/ faults' = faults + 1 /\ page' = Empty /\ noticed' = noticed
<1>1. page = Empty /\ UNCHANGED <<now, registry, pins, peers>>
  BY DEF ReadRegistry, remote, store
<1>2. CASE /\ page' = Candidates(Listing) /\ faults' = faults
           /\ noticed' = [n \in Nodes |-> IF Listed(n) THEN registry[n].no ELSE noticed[n]]
  <2>1. /\ DOMAIN page' \subseteq DOMAIN Listing
        /\ \A n \in DOMAIN Listing : Listing[n].op = "revoke" =>
              n \in DOMAIN page' /\ page'[n] = Listing[n]
    BY <1>2 DEF Candidates, FirstPeers, Restrict
  <2>2. /\ DOMAIN Listing = {n \in DOMAIN registry : Listed(n)}
        /\ \A n \in DOMAIN Listing : Listing[n] = registry[n]
    BY DEF Listing, Restrict
  <2>3. noticed' \in [Nodes -> Nat]
    <3>1. \A n \in Nodes : (IF Listed(n) THEN registry[n].no ELSE noticed[n]) \in Nat
      BY DEF Numbered, Listed
    <3> QED
      BY <1>2, <3>1
  <2> QED
    BY <1>1, <1>2, <2>1, <2>2, <2>3
<1>3. CASE faults' = faults + 1 /\ UNCHANGED <<page, noticed>>
  BY <1>1, <1>3 DEF Numbered
<1> QED
  BY <1>2, <1>3 DEF ReadRegistry

\* Pins are published one by one, and read when they are there.
LEMMA NumberedStep == ASSUME Numbered, [NextF]_fvars PROVE Numbered'
<1>1. ASSUME NEW m \in Nodes, NEW op \in {"create", "revoke"}, Publish(m, op) PROVE Numbered'
  <2>1. /\ pins' = pins + 1 /\ noticed' = noticed
        /\ DOMAIN registry' = DOMAIN registry \cup {m}
        /\ \A n \in DOMAIN registry' :
              registry'[n].no = IF n = m THEN pins + 1 ELSE registry[n].no
    BY <1>1 DEF Publish, Put, discovery
  <2> QED
    BY <2>1 DEF Numbered
<1>2. CASE PublishOther
  BY <1>2 DEF PublishOther, Numbered, remote, discovery
<1>3. CASE ReadRegistry
  <2>1. /\ UNCHANGED <<registry, pins>> /\ noticed' \in [Nodes -> Nat]
        /\ \A n \in Nodes :
              \/ noticed'[n] = noticed[n]
              \/ n \in DOMAIN registry /\ noticed'[n] = registry[n].no
    BY <1>3, Notices DEF Listed
  <2> QED
    BY <2>1 DEF Numbered
<1>4. CASE UNCHANGED <<registry, noticed, pins>>
  BY <1>4 DEF Numbered
<1>5. \/ \E m \in Nodes : \E op \in {"create", "revoke"} : Publish(m, op)
      \/ PublishOther \/ ReadRegistry \/ UNCHANGED <<registry, noticed, pins>>
  BY DEF NextF, fvars, Tick, PresenceChanges, StopNode, StartNode, ApplyRevoke, ApplyPeer,
         StartRound, SkipPeer, SendRequest, ReadItems, StampSnapshot, AnswerFromCache,
         RequestFails, Validate, RejectReply, StoreSnapshot, remote, discovery, bounds
<1> QED
  BY <1>1, <1>2, <1>3, <1>4, <1>5

\* The registry is read: what its listing names as revoked there is read, in time.
LEMMA ReadRegistryStep == ASSUME RevokeInv, ReadRegistry PROVE RevokeRead' /\ RevokeApplied'
<1>1. /\ page = Empty /\ now >= nextRead /\ nextRead' = now + DiscoveryInterval
      /\ UNCHANGED <<now, registry, pins, peers>>
      /\ \/ /\ faults' = faults
            /\ \A n \in Nodes : noticed'[n] = IF Listed(n) THEN registry[n].no ELSE noticed[n]
            /\ \A n \in DOMAIN page' : n \in DOMAIN registry /\ Listed(n)
            /\ \A n \in DOMAIN registry : registry[n].op = "revoke" /\ Listed(n) =>
                  n \in DOMAIN page' /\ page'[n] = registry[n]
         \/ faults' = faults + 1 /\ page' = Empty /\ noticed' = noticed
  BY Notices DEF RevokeInv, ReadRegistry
<1>2. now = nextRead /\ now \in Nat /\ nextRead \in Nat /\ DiscoveryInterval \in Nat
  BY <1>1, FederationAssumption DEF RevokeInv, Due
<1> SUFFICES ASSUME NEW n \in DOMAIN registry, registry[n].op = "revoke"
             PROVE  /\ Listed(n)' /\ noticed'[n] # registry'[n].no => nextRead' <= ReadBy(n)'
                    /\ noticed'[n] = registry'[n].no =>
                          \/ n \notin peers' /\ ~Admitted(n)'
                          \/ n \in DOMAIN page' /\ page'[n].op = "revoke" /\ now' <= ReadBy(n)'
  BY <1>1 DEF RevokeRead, RevokeApplied
<1>3. /\ ReadBy(n) \in Nat /\ ReadBy(n)' \in Nat /\ ReadBy(n) <= ReadBy(n)'
      /\ faults' = faults + 1 => ReadBy(n)' = ReadBy(n) + DiscoveryInterval
  BY <1>1, ReadByGrows DEF RevokeInv
<1>4. n \in Nodes /\ Listed(n)' = Listed(n)
  BY <1>1 DEF RevokeInv, Numbered, Listed
<1>5. Listed(n) /\ noticed[n] # registry[n].no => nextRead <= ReadBy(n)
  BY DEF RevokeInv, RevokeRead
<1>6. noticed[n] = registry[n].no => n \notin peers
  BY <1>1 DEF RevokeInv, RevokeApplied, Empty
<1>7. CASE faults' = faults + 1 /\ page' = Empty /\ noticed' = noticed
  <2>1. ~Admitted(n)'
    BY <1>7 DEF Admitted, Empty
  <2> QED
    BY <1>1, <1>2, <1>3, <1>4, <1>5, <1>6, <1>7, <2>1
<1>8. CASE ~(faults' = faults + 1 /\ page' = Empty /\ noticed' = noticed)
  <2>1. CASE Listed(n)
    <3>1. noticed'[n] = registry[n].no /\ n \in DOMAIN page' /\ page'[n].op = "revoke"
      BY <1>1, <1>4, <1>8, <2>1
    <3>2. ~Admitted(n)'
      BY <3>1 DEF Admitted
    <3> QED
      BY <1>1, <1>2, <1>3, <1>5, <1>6, <2>1, <3>1, <3>2
  <2>2. CASE ~Listed(n)
    <3>1. noticed'[n] = noticed[n] /\ n \notin DOMAIN page'
      BY <1>1, <1>4, <1>8, <2>2
    <3>2. ~Admitted(n)'
      BY <3>1 DEF Admitted
    <3> QED
      BY <1>1, <1>4, <1>6, <2>2, <3>1, <3>2
  <2> QED
    BY <2>1, <2>2
<1> QED
  BY <1>7, <1>8

\* A pin is published: discovery reads it next, if it is of a node and stays in
\* the listing. It moves others off the listing, and none into it.
LEMMA PublishStep ==
    ASSUME RevokeInv,
           \/ PublishOther
           \/ \E m \in Nodes, op \in {"create", "revoke"} : Publish(m, op)
    PROVE  RevokeRead' /\ RevokeApplied'
<1>1. /\ UNCHANGED <<now, nextRead, noticed, page, peers, faults>> /\ pins' = pins + 1
      /\ \A n \in DOMAIN registry' :
            \/ registry'[n].at = now /\ registry'[n].no = pins + 1 /\ n \in Nodes
            \/ n \in DOMAIN registry /\ registry'[n] = registry[n]
  <2>1. CASE PublishOther
    BY <2>1 DEF PublishOther, remote, discovery, store
  <2>2. ASSUME NEW m \in Nodes, NEW op \in {"create", "revoke"}, Publish(m, op)
        PROVE  /\ UNCHANGED <<now, nextRead, noticed, page, peers, faults>> /\ pins' = pins + 1
               /\ \A n \in DOMAIN registry' :
                     \/ registry'[n].at = now /\ registry'[n].no = pins + 1 /\ n \in Nodes
                     \/ n \in DOMAIN registry /\ registry'[n] = registry[n]
    BY <2>2 DEF Publish, Put, discovery, store
  <2> QED
    BY <2>1, <2>2
<1> SUFFICES ASSUME NEW n \in DOMAIN registry', registry'[n].op = "revoke"
             PROVE  /\ Listed(n)' /\ noticed[n] # registry'[n].no => nextRead <= ReadBy(n)'
                    /\ noticed[n] = registry'[n].no =>
                          \/ n \notin peers /\ ~Admitted(n)
                          \/ n \in DOMAIN page /\ page[n].op = "revoke" /\ now <= ReadBy(n)'
  BY <1>1 DEF RevokeRead, RevokeApplied, Admitted
<1>2. CASE n \in DOMAIN registry /\ registry'[n] = registry[n]
  <2>1. ReadBy(n)' = ReadBy(n)
    BY <1>1, <1>2 DEF ReadBy
  <2>2. Listed(n)' => Listed(n)
    <3>1. pins \in Nat /\ registry[n].no \in Nat /\ ListSize \in Nat
      BY <1>2, FederationAssumption DEF RevokeInv, Numbered
    <3> QED
      BY <1>1, <1>2, <3>1 DEF Listed
  <2> QED
    BY <1>2, <2>1, <2>2 DEF RevokeInv, RevokeRead, RevokeApplied
<1>3. CASE registry'[n].at = now /\ registry'[n].no = pins + 1 /\ n \in Nodes
  <2>1. noticed[n] # registry'[n].no
    BY <1>3 DEF RevokeInv, Numbered
  <2>2. ReadBy(n)' = now + DiscoveryInterval * (1 + faults)
    BY <1>1, <1>3 DEF ReadBy
  <2>3. now \in Nat /\ nextRead \in Nat /\ faults \in Nat /\ DiscoveryInterval \in Nat
    BY FederationAssumption DEF RevokeInv, Due
  <2>4. DiscoveryInterval <= DiscoveryInterval * (1 + faults) /\ DiscoveryInterval * (1 + faults) \in Nat
    <3>1. /\ DiscoveryInterval * (1 + faults) = DiscoveryInterval + DiscoveryInterval * faults
          /\ DiscoveryInterval * faults \in Nat
      BY <2>3
    <3> QED
      BY <2>3, <3>1
  <2>5. nextRead <= now + DiscoveryInterval
    BY DEF RevokeInv, Due
  <2> QED
    BY <2>1, <2>2, <2>3, <2>4, <2>5
<1> QED
  BY <1>1, <1>2, <1>3

\* Revokes are applied before peers; the others leave discovery alone.
LEMMA RevokeStep == ASSUME RevokeInv, [NextF]_fvars PROVE RevokeRead' /\ RevokeApplied'
<1>1. CASE Tick
  <2>1. page = Empty /\ UNCHANGED <<registry, page, nextRead, noticed, peers, faults, pins>>
    BY <1>1 DEF Tick, Waiting, remote, discovery, store, bounds
  <2> QED
    BY <2>1 DEF RevokeInv, RevokeRead, RevokeApplied, Admitted, Listed, ReadBy, Empty
<1>2. CASE ReadRegistry
  BY <1>2, ReadRegistryStep
<1>3. CASE PublishOther \/ \E m \in Nodes, op \in {"create", "revoke"} : Publish(m, op)
  BY <1>3, PublishStep
<1>4. ASSUME NEW m \in Nodes, ApplyRevoke(m) PROVE RevokeRead' /\ RevokeApplied'
  <2>1. /\ page[m].op = "revoke" /\ peers' = peers \ {m}
        /\ DOMAIN page' = DOMAIN page \ {m} /\ \A x \in DOMAIN page' : page'[x] = page[x]
        /\ UNCHANGED <<now, registry, nextRead, noticed, faults, pins>>
    BY <1>4 DEF ApplyRevoke, Without, Restrict, remote, bounds
  <2> QED
    BY <2>1 DEF RevokeInv, RevokeRead, RevokeApplied, Admitted, Listed, ReadBy
<1>5. ASSUME NEW m \in Nodes, ApplyPeer(m) PROVE RevokeRead' /\ RevokeApplied'
  <2>1. /\ Admitted(m) /\ peers' = peers \cup {m}
        /\ \A x \in DOMAIN page : page[x].op # "revoke"
        /\ DOMAIN page' = DOMAIN page \ {m} /\ \A x \in DOMAIN page' : page'[x] = page[x]
        /\ UNCHANGED <<now, registry, nextRead, noticed, faults, pins>>
    BY <1>5 DEF ApplyPeer, Admitted, Without, Restrict, remote
  <2> QED
    BY <2>1 DEF RevokeInv, RevokeRead, RevokeApplied, Admitted, Listed, ReadBy
<1>6. CASE /\ UNCHANGED <<now, registry, nextRead, noticed, page, peers, pins>>
           /\ faults' \in {faults, faults + 1}
  <2> SUFFICES ASSUME NEW n \in DOMAIN registry, registry[n].op = "revoke"
               PROVE  /\ Listed(n) /\ noticed[n] # registry[n].no => nextRead <= ReadBy(n)'
                      /\ noticed[n] = registry[n].no =>
                            \/ n \notin peers /\ ~Admitted(n)
                            \/ n \in DOMAIN page /\ page[n].op = "revoke" /\ now <= ReadBy(n)'
    BY <1>6 DEF RevokeRead, RevokeApplied, Admitted, Listed
  <2>1. ReadBy(n) \in Nat /\ ReadBy(n)' \in Nat /\ ReadBy(n) <= ReadBy(n)'
    BY <1>6, ReadByGrows DEF RevokeInv
  <2>2. now \in Nat /\ nextRead \in Nat
    BY DEF RevokeInv, Due
  <2>3. /\ Listed(n) /\ noticed[n] # registry[n].no => nextRead <= ReadBy(n)
        /\ noticed[n] = registry[n].no =>
              \/ n \notin peers /\ ~Admitted(n)
              \/ n \in DOMAIN page /\ page[n].op = "revoke" /\ now <= ReadBy(n)
    BY DEF RevokeInv, RevokeRead, RevokeApplied
  <2> QED
    BY <2>1, <2>2, <2>3
<1>7. \/ Tick \/ ReadRegistry \/ PublishOther
      \/ \E m \in Nodes : \/ ApplyRevoke(m) \/ ApplyPeer(m)
                         \/ \E op \in {"create", "revoke"} : Publish(m, op)
      \/ /\ UNCHANGED <<now, registry, nextRead, noticed, page, peers, pins>>
         /\ faults' \in {faults, faults + 1}
  BY DEF NextF, fvars, PresenceChanges, StopNode, StartNode, StartRound,
         SkipPeer, SendRequest, ReadItems, StampSnapshot, AnswerFromCache, RequestFails, Validate,
         RejectReply, StoreSnapshot, remote, discovery, store, bounds
<1> QED
  BY <1>1, <1>2, <1>3, <1>4, <1>5, <1>6, <1>7

\* A revoked node is no peer any more when discovery has read the registry, so
\* it is not shown, although a pull of it may be on its way: while the one page
\* that discovery asks for shows the revoke, and for good once it was read
\* (discovery.go, RemovePeer, activeSnapshots).
THEOREM TheRevokedLeave == SpecF => []RevokedLeavesView
<1>1. RevokeInv => RevokedLeavesView
  <2> SUFFICES ASSUME RevokeInv, NEW n \in DOMAIN registry, registry[n].op = "revoke",
                      now > ReadBy(n), Listed(n) \/ noticed[n] = registry[n].no, n \in peers
               PROVE  FALSE
    BY DEF RevokedLeavesView, ReadBy, Shown
  <2>1. now \in Nat /\ nextRead \in Nat /\ now <= nextRead
    BY DEF RevokeInv, Due
  <2>2. ReadBy(n) \in Nat
    <3>1. registry[n].at \in Nat /\ faults \in Nat /\ DiscoveryInterval \in Nat
      BY FederationAssumption DEF RevokeInv, Due
    <3>2. DiscoveryInterval * (1 + faults) \in Nat
      BY <3>1
    <3> QED
      BY <3>1, <3>2 DEF ReadBy
  <2>3. nextRead <= ReadBy(n) \/ now <= ReadBy(n)
    BY DEF RevokeInv, RevokeRead, RevokeApplied
  <2> QED
    BY <2>1, <2>2, <2>3
<1>2. RevokeInv /\ [NextF]_fvars => RevokeInv'
  BY DueStep, NumberedStep, RevokeStep DEF RevokeInv
<1> QED
  BY <1>1, <1>2, InitRevoke, PTL DEF SpecF

-----------------------------------------------------------------------------
(* Recovery *)

\* How long k requests take at most.
Span(k) == RequestTimeout * k

NumNodes == Cardinality(Nodes)

InFlight == request.stage \in {"sent", "items", "reply"}
Asked(n) == ~Idle /\ request.node = n

\* The peers that the round has left.
Left == Range(round)

Place(S, n) == Cardinality(Preceding(S, n))

\* When the request in flight ends at the latest.
Ends == IF InFlight THEN request.at + RequestTimeout ELSE now

\* The puller comes to n by t: after those before it in this round, or in the
\* next one.
ComesTo(n, t) ==
    IF n \in Left THEN Ends + Span(Place(Left, n)) <= t
    ELSE /\ nextPull + Span(Place(Nodes, n)) <= t
         /\ Ends + Span(Cardinality(Left) + Place(Nodes, n)) <= t

\* The turn of n comes by t, or it has begun by then and is not over.
TurnBy(n, t) ==
    \/ ~Asked(n) /\ ComesTo(n, t)
    \/ Asked(n) /\ InFlight /\ request.at <= t
    \/ Asked(n) /\ ~InFlight /\ now <= t + RequestTimeout

\* The answer was stamped after the last disturbance of n.
Late(n, r) == r.at > disturbed[n] + Ahead

\* From when on a node that is not disturbed is neither refused nor skipped.
Settles(n) == disturbed[n] + Ahead + TTL + BackoffMax

\* The snapshot of n is renewed before it expires ...
Renewed(n) ==
    /\ n \in DOMAIN snapshots /\ Late(n, snapshots[n])
    /\ TurnBy(n, snapshots[n].at + TTL - RequestTimeout - Ahead)

\* ... or n is asked in the round that follows when it settles.
Awaited(n) == TurnBy(n, Settles(n) + Interval + Span(NumNodes - 1))

\* A round asks the peers in the order of their ids.
Rounds ==
    /\ nextPull \in Nat /\ nextPull <= now + Interval
    /\ peers \subseteq Nodes
    /\ round \in Seq(Nodes)
    /\ \A i, j \in 1 .. Len(round) : i < j => round[i] < round[j]
    /\ Idle \/ InFlight \/ request.stage = "valid"
    /\ ~Idle => request.node \in Nodes /\ \A m \in Left : request.node < m
    /\ InFlight => nextPull <= request.at + Interval

Disturbances == disturbed \in [Nodes -> Nat] /\ \A n \in Nodes : disturbed[n] <= now

Backoffs ==
    \A n \in DOMAIN failures :
        /\ n \in Nodes /\ failures[n].count \in Nat \ {0}
        /\ failures[n].until \in Int /\ failures[n].until <= Settles(n)

\* What was stamped after the last disturbance comes from the present run.
OfThisRun == \A n \in Nodes : \A r \in Answers(n) : Late(n, r) => r.epoch = epoch[n]

\* The request for an answer was sent by s.
AskedBy(s) ==
    /\ request.stage = "reply" => request.at <= s
    /\ request.stage = "valid" => now <= s + RequestTimeout /\ nextPull <= s + Interval

\* An answer stamped after the last disturbance continues the sequence; any
\* other was asked for before it.
LastReply ==
    HasReply =>
        LET n == request.node
        IN  \/ /\ Late(n, request.reply)
               /\ n \in DOMAIN snapshots /\ snapshots[n].epoch = epoch[n]
                    => snapshots[n].seq < request.reply.seq
               /\ AskedBy(request.reply.at - Ahead)
            \/ ~Late(n, request.reply) /\ AskedBy(disturbed[n])

Recovering == \A n \in peers \cap serving : Renewed(n) \/ Awaited(n)

Paced == Rounds /\ Disturbances
RecoveryInv == Paced /\ Backoffs /\ OfThisRun /\ LastReply /\ Recovering

-----------------------------------------------------------------------------
(* Times and places *)

\* The numbers are natural.
LEMMA Numbers ==
    /\ NumNodes \in Nat /\ RequestTimeout \in Nat /\ RequestTimeout > 0
    /\ Interval \in Nat /\ TTL \in Nat /\ Ahead \in Nat /\ BackoffMax \in Nat
BY FederationAssumption, FS_CardinalityType DEF NumNodes

\* Requests add up.
LEMMA Spans ==
    /\ Span(0) = 0
    /\ \A k \in Nat : Span(k) \in Nat /\ Span(k + 1) = Span(k) + RequestTimeout
    /\ \A j, k \in Nat : j <= k => Span(j) <= Span(k)
    /\ \A j, k \in Nat : Span(j + k) = Span(j) + Span(k)
<1>1. RequestTimeout \in Nat /\ RequestTimeout > 0
  BY FederationAssumption
<1>3. Span(0) = 0
  BY <1>1 DEF Span
<1>4. \A k \in Nat : Span(k) \in Nat /\ Span(k + 1) = Span(k) + RequestTimeout
  BY <1>1 DEF Span
<1>5. \A j, k \in Nat : j <= k => Span(j) <= Span(k)
  BY <1>1 DEF Span
<1>6. \A j, k \in Nat : Span(j + k) = Span(j) + Span(k)
  BY <1>1 DEF Span
<1> QED
  BY <1>3, <1>4, <1>5, <1>6

\* The ids are in a total order.
LEMMA Ids ==
    /\ Nodes \subseteq Nat /\ \A n \in Nodes : ~(n < n)
    /\ \A m, n \in Nodes : (m < n => ~(n < m) /\ ~(n <= m)) /\ (m # n => m < n \/ n < m)
    /\ \A k, m, n \in Nodes : k < m /\ m < n => k < n
    /\ \A m, n \in Nodes : m <= n /\ m # n => m < n
<1>1. Nodes \subseteq Nat
  BY FederationAssumption
<1>2. \A n \in Nodes : n \in Int
  BY <1>1
<1>3. /\ \A n \in Int : ~(n < n)
      /\ \A m, n \in Int : (m < n => ~(n < m) /\ ~(n <= m)) /\ (m # n => m < n \/ n < m)
      /\ \A k, m, n \in Int : k < m /\ m < n => k < n
      /\ \A m, n \in Int : m <= n /\ m # n => m < n
  OBVIOUS
<1> QED
  BY <1>1, <1>2, <1>3

\* Places in a set of nodes, and in what is left of it.
LEMMA Places ==
    ASSUME NEW S \in SUBSET Nodes, NEW n \in Nodes
    PROVE  /\ IsFiniteSet(S) /\ Cardinality(S) \in Nat /\ Cardinality(S) <= NumNodes
           /\ Place(S, n) \in Nat /\ Place(Nodes, n) \in Nat
           /\ Place(S, n) <= Place(Nodes, n) /\ Place(Nodes, n) + 1 <= NumNodes
           /\ n \notin S => Cardinality(S) + 1 <= NumNodes
           /\ (\A m \in S : n < m) => Cardinality(S) + Place(Nodes, n) + 1 <= NumNodes
<1>1. IsFiniteSet(Nodes) /\ NumNodes \in Nat /\ Nodes \subseteq Nat
  BY FederationAssumption, FS_CardinalityType DEF NumNodes
<1>2. IsFiniteSet(S) /\ Cardinality(S) \in Nat /\ Cardinality(S) <= NumNodes
  BY <1>1, FS_Subset, FS_CardinalityType DEF NumNodes
<1>3. Preceding(S, n) \subseteq Preceding(Nodes, n) /\ Preceding(Nodes, n) \subseteq Nodes \ {n}
  BY Ids DEF Preceding
<1>4. IsFiniteSet(Nodes \ {n}) /\ Cardinality(Nodes \ {n}) = NumNodes - 1
  BY <1>1, FS_RemoveElement DEF NumNodes
<1>5. /\ IsFiniteSet(Preceding(Nodes, n)) /\ Place(Nodes, n) \in Nat
      /\ Place(Nodes, n) <= NumNodes - 1
  BY <1>3, <1>4, FS_Subset, FS_CardinalityType DEF Place
<1>6. Place(S, n) \in Nat /\ Place(S, n) <= Place(Nodes, n)
  BY <1>3, <1>5, FS_Subset, FS_CardinalityType DEF Place
<1>7. n \notin S => Cardinality(S) <= NumNodes - 1
  BY <1>4, FS_Subset
<1>8. ASSUME \A m \in S : n < m
      PROVE  Cardinality(S) + Place(Nodes, n) <= NumNodes - 1
  <2>1. S \cap Preceding(Nodes, n) = {} /\ S \cup Preceding(Nodes, n) \subseteq Nodes \ {n}
    <3>1. \A m \in S : m \in Nodes /\ n < m
      BY <1>8
    <3>2. \A m \in S : m \in Nodes /\ ~(m < n) /\ m # n
      BY <3>1, Ids
    <3>3. \A m \in Nodes : m < n => m # n
      BY Ids
    <3> QED
      BY <3>2, <3>3 DEF Preceding
  <2>2. Cardinality(S \cup Preceding(Nodes, n)) = Cardinality(S) + Place(Nodes, n)
    <3>1. Cardinality(S \cap Preceding(Nodes, n)) = 0
      BY <2>1, FS_EmptySet
    <3>2. Cardinality(S \cup Preceding(Nodes, n))
            = Cardinality(S) + Cardinality(Preceding(Nodes, n))
                - Cardinality(S \cap Preceding(Nodes, n))
      BY <1>2, <1>5, FS_Union
    <3> QED
      BY <1>2, <1>5, <3>1, <3>2 DEF Place
  <2>3. Cardinality(S \cup Preceding(Nodes, n)) <= NumNodes - 1
    BY <1>4, <2>1, FS_Subset
  <2> QED
    BY <2>2, <2>3
<1> QED
  BY <1>1, <1>2, <1>5, <1>6, <1>7, <1>8

\* The first of a set is taken away.
LEMMA FirstTaken ==
    ASSUME NEW S \in SUBSET Nodes, NEW h \in S, \A m \in S : h <= m, NEW n \in Nodes
    PROVE  /\ Cardinality(S) = Cardinality(S \ {h}) + 1
           /\ Place(S, h) = 0
           /\ n \in S \ {h} => Place(S, n) = Place(S \ {h}, n) + 1
<1>1. IsFiniteSet(S) /\ Nodes \subseteq Nat /\ IsFiniteSet(S \ {h})
  BY Places, FederationAssumption, FS_RemoveElement
<1>2. Cardinality(S) = Cardinality(S \ {h}) + 1
  BY <1>1, FS_RemoveElement, FS_CardinalityType
<1>3. Place(S, h) = 0
  <2>1. Preceding(S, h) = {}
    <3>1. \A m \in S : ~(m < h)
      BY Ids
    <3> QED
      BY <3>1 DEF Preceding
  <2> QED
    BY <2>1, FS_EmptySet DEF Place
<1>4. ASSUME n \in S \ {h} PROVE Place(S, n) = Place(S \ {h}, n) + 1
  <2>1. /\ Preceding(S, n) = Preceding(S \ {h}, n) \cup {h} /\ h \notin Preceding(S \ {h}, n)
        /\ Preceding(S \ {h}, n) \subseteq S \ {h}
    BY <1>1, <1>4 DEF Preceding
  <2>2. IsFiniteSet(Preceding(S \ {h}, n))
    BY <1>1, <2>1, FS_Subset
  <2> QED
    BY <2>1, <2>2, FS_AddElement DEF Place
<1> QED
  BY <1>2, <1>3, <1>4

\* A round begins with every peer, by id.
LEMMA RoundOrder ==
    ASSUME peers \subseteq Nodes
    PROVE  /\ ActivePeers \in Seq(Nodes) /\ Range(ActivePeers) = peers
           /\ \A i, j \in 1 .. Len(ActivePeers) : i < j => ActivePeers[i] < ActivePeers[j]
<1> DEFINE c == Cardinality(peers)
           rank == [n \in peers |-> Place(peers, n) + 1]
<1>1. IsFiniteSet(peers) /\ c \in Nat /\ peers \subseteq Nat
  BY FS_Subset, FS_CardinalityType, FederationAssumption
<1>2. ASSUME NEW n \in peers
      PROVE  /\ IsFiniteSet(Preceding(peers, n)) /\ Place(peers, n) \in Nat /\ rank[n] \in 1 .. c
  <2>1. Preceding(peers, n) \subseteq peers \ {n}
    BY <1>1 DEF Preceding
  <2>2. IsFiniteSet(peers \ {n}) /\ Cardinality(peers \ {n}) = c - 1
    BY <1>1, FS_RemoveElement
  <2>3. /\ IsFiniteSet(Preceding(peers, n)) /\ Place(peers, n) \in Nat
        /\ Place(peers, n) <= c - 1
    BY <2>1, <2>2, FS_Subset, FS_CardinalityType DEF Place
  <2> QED
    BY <1>1, <2>3
<1>3. ASSUME NEW m \in peers, NEW n \in peers, m < n PROVE rank[m] < rank[n]
  <2>1. Preceding(peers, m) \cup {m} \subseteq Preceding(peers, n) /\ m \notin Preceding(peers, m)
    BY <1>3, Ids DEF Preceding
  <2>2. Cardinality(Preceding(peers, m) \cup {m}) = Place(peers, m) + 1
    BY <1>2, <2>1, FS_AddElement DEF Place
  <2>3. Place(peers, m) + 1 <= Place(peers, n)
    BY <1>2, <2>1, <2>2, FS_Subset DEF Place
  <2> QED
    BY <1>2, <2>3
<1>4. \A n \in peers : Place(peers, n) = rank[n] - 1
  BY <1>2
<1> HIDE DEF rank
<1>5. \A m, n \in peers : rank[m] = rank[n] => m = n
  <2> SUFFICES ASSUME NEW m \in peers, NEW n \in peers, rank[m] = rank[n], m # n PROVE FALSE
    OBVIOUS
  <2>1. rank[m] < rank[n] \/ rank[n] < rank[m]
    BY <1>1, <1>3
  <2> QED
    BY <1>2, <2>1
<1>6. rank \in Surjection(peers, 1 .. c)
  <2>1. rank \in Injection(peers, 1 .. c)
    BY <1>2, <1>5 DEF rank, Injection, IsInjective
  <2> QED
    BY <1>1, <2>1, FS_Interval, FS_Injection
<1>7. ASSUME NEW i \in 1 .. c
      PROVE  ActivePeers[i] \in peers /\ rank[ActivePeers[i]] = i
  <2>1. \E n \in peers : Place(peers, n) = i - 1
    BY <1>4, <1>6 DEF Surjection
  <2>2. ActivePeers[i] = CHOOSE n \in peers : Place(peers, n) = i - 1
    BY DEF ActivePeers, Place
  <2>3. ActivePeers[i] \in peers /\ Place(peers, ActivePeers[i]) = i - 1
    BY <2>1, <2>2
  <2> QED
    BY <1>2, <1>4, <2>3
<1>8. ActivePeers \in [1 .. c -> peers]
  BY <1>7 DEF ActivePeers
<1>9. ActivePeers \in Seq(Nodes) /\ Len(ActivePeers) = c /\ DOMAIN ActivePeers = 1 .. c
  <2>1. ActivePeers \in [1 .. c -> Nodes]
    BY <1>8
  <2> HIDE DEF c
  <2> QED
    BY <1>1, <2>1
<1>10. Range(ActivePeers) = peers
  <2>1. ASSUME NEW n \in peers PROVE n \in Range(ActivePeers)
    <3>1. rank[n] \in 1 .. c /\ ActivePeers[rank[n]] = n
      BY <1>2, <1>5, <1>7
    <3> QED
      BY <1>9, <3>1 DEF Range
  <2> QED
    BY <1>7, <1>9, <2>1 DEF Range
<1>11. ASSUME NEW i \in 1 .. c, NEW j \in 1 .. c, i < j PROVE ActivePeers[i] < ActivePeers[j]
  <2>1. /\ ActivePeers[i] \in peers /\ ActivePeers[j] \in peers
        /\ ~(ActivePeers[j] < ActivePeers[i]) /\ ActivePeers[i] # ActivePeers[j]
    BY <1>3, <1>7, <1>11
  <2> QED
    BY <2>1, Ids
<1> QED
  BY <1>9, <1>10, <1>11

\* The next peer of a round, and the others.
LEMMA RoundHead ==
    ASSUME Rounds, round # <<>>
    PROVE  /\ Head(round) \in Left /\ Left \subseteq Nodes
           /\ Tail(round) \in Seq(Nodes) /\ Range(Tail(round)) = Left \ {Head(round)}
           /\ \A m \in Left \ {Head(round)} : Head(round) < m
           /\ \A i, j \in 1 .. Len(Tail(round)) : i < j => Tail(round)[i] < Tail(round)[j]
<1>1. /\ round \in Seq(Nodes) /\ Nodes \subseteq Nat
      /\ \A i, j \in 1 .. Len(round) : i < j => round[i] < round[j]
  BY FederationAssumption DEF Rounds
<1>2. /\ Len(round) \in Nat /\ Len(round) > 0 /\ Head(round) = round[1]
      /\ \A i \in 1 .. Len(round) : round[i] \in Nodes
      /\ Tail(round) \in Seq(Nodes) /\ Len(Tail(round)) = Len(round) - 1
      /\ \A i \in 1 .. Len(Tail(round)) : Tail(round)[i] = round[i + 1]
  BY <1>1
<1>3. Left = {round[i] : i \in 1 .. Len(round)}
  BY <1>1 DEF Left, Range
<1>4. Range(Tail(round)) = {Tail(round)[i] : i \in 1 .. Len(Tail(round))}
  <2>1. DOMAIN Tail(round) = 1 .. Len(Tail(round))
    BY <1>2
  <2> QED
    BY <2>1 DEF Range
<1>5. \A i \in 2 .. Len(round) : Head(round) < round[i]
  BY <1>1, <1>2
<1>6. \A m \in Range(Tail(round)) : m \in Left /\ Head(round) < m
  BY <1>2, <1>3, <1>4, <1>5
<1>7. ASSUME NEW m \in Left, m # Head(round) PROVE m \in Range(Tail(round))
  <2>1. PICK i \in 1 .. Len(round) : m = round[i]
    BY <1>3
  <2>2. i - 1 \in 1 .. Len(Tail(round)) /\ Tail(round)[i - 1] = m
    BY <1>2, <1>7, <2>1
  <2> QED
    BY <1>4, <2>2
<1>8. \A i, j \in 1 .. Len(Tail(round)) : i < j => Tail(round)[i] < Tail(round)[j]
  BY <1>1, <1>2
<1>9. Head(round) \in Left /\ Left \subseteq Nodes
  BY <1>2, <1>3
<1>10. Range(Tail(round)) = Left \ {Head(round)}
  <2>1. Head(round) \in Nodes /\ ~(Head(round) < Head(round))
    BY <1>9, Ids
  <2> QED
    BY <1>6, <1>7, <2>1
<1> QED
  BY <1>2, <1>6, <1>8, <1>9, <1>10

-----------------------------------------------------------------------------
(* The puller *)

\* What a step does to the puller and to its clock.
PullerRests == UNCHANGED <<now, round, nextPull, request>>
PullerWaits ==
    /\ now' = now + 1 /\ UNCHANGED <<round, nextPull, request>>
    /\ \/ Idle /\ round = <<>> /\ now < nextPull
       \/ InFlight /\ now < request.at + RequestTimeout
RoundStarts ==
    /\ Idle /\ round = <<>> /\ now >= nextPull
    /\ nextPull' = now + Interval /\ round' = ActivePeers
    /\ UNCHANGED <<now, peers, request>>
PeerPassed ==
    /\ Idle /\ round # <<>> /\ round' = Tail(round) /\ UNCHANGED <<now, nextPull>>
RequestSent ==
    /\ PeerPassed
    /\ request'.stage = "sent" /\ request'.node = Head(round) /\ request'.at = now
RequestGoesOn ==
    /\ InFlight /\ InFlight' /\ request'.node = request.node /\ request'.at = request.at
    /\ UNCHANGED <<now, round, nextPull>>
AnswerAccepted ==
    /\ InFlight /\ request'.stage = "valid" /\ request'.node = request.node
    /\ UNCHANGED <<now, round, nextPull>>
RequestEnds ==
    /\ InFlight \/ request.stage = "valid"
    /\ request' = NoRequest /\ UNCHANGED <<now, round, nextPull>>

LEMMA PullerSteps ==
    ASSUME [NextF]_fvars
    PROVE  \/ PullerRests \/ PullerWaits \/ RoundStarts
           \/ (SkipPeer /\ PeerPassed /\ request' = request)
           \/ RequestSent \/ RequestGoesOn \/ AnswerAccepted
           \/ ((RequestFails \/ RejectReply \/ StoreSnapshot) /\ RequestEnds)
<1>1. CASE UNCHANGED fvars
  BY <1>1 DEF fvars, puller, PullerRests
<1>2. CASE Tick
  BY <1>2 DEF Tick, Waiting, puller, PullerWaits, InFlight
<1>3. CASE \/ PublishOther
           \/ \E n \in Nodes : \/ PresenceChanges(n) \/ StopNode(n) \/ StartNode(n)
                               \/ \E op \in {"create", "revoke"} : Publish(n, op)
                               \/ ApplyRevoke(n) \/ ApplyPeer(n)
  BY <1>3 DEF PresenceChanges, StopNode, StartNode, Publish, PublishOther, ApplyRevoke, ApplyPeer,
              puller, PullerRests
<1>4. CASE ReadRegistry
  BY <1>4 DEF ReadRegistry, puller, PullerRests
<1>5. CASE StartRound
  BY <1>5 DEF StartRound, store, RoundStarts
<1>6. CASE SkipPeer
  BY <1>6 DEF SkipPeer, PeerPassed
<1>7. CASE SendRequest
  BY <1>7 DEF SendRequest, PeerPassed, RequestSent
<1>8. CASE ReadItems
  BY <1>8 DEF ReadItems, RequestGoesOn, InFlight
<1>9. CASE StampSnapshot
  BY <1>9 DEF StampSnapshot, RequestGoesOn, InFlight
<1>10. CASE AnswerFromCache
  BY <1>10 DEF AnswerFromCache, RequestGoesOn, InFlight
<1>11. CASE Validate
  BY <1>11 DEF Validate, AnswerAccepted, InFlight
<1>12. CASE RequestFails
  BY <1>12 DEF RequestFails, Failed, RequestEnds, InFlight
<1>13. CASE RejectReply
  BY <1>13 DEF RejectReply, Failed, RequestEnds, InFlight
<1>14. CASE StoreSnapshot
  BY <1>14 DEF StoreSnapshot, RequestEnds
<1> QED
  BY <1>1, <1>2, <1>3, <1>4, <1>5, <1>6, <1>7, <1>8, <1>9, <1>10, <1>11, <1>12, <1>13, <1>14
     DEF NextF

\* Before the first round.
LEMMA InitPaced == InitF => Paced
<1> SUFFICES ASSUME InitF PROVE Paced
  OBVIOUS
<1>1. Left = {}
  BY DEF InitF, Left, Range
<1> QED
  BY <1>1, Numbers DEF InitF, Paced, Rounds, Disturbances, NoRequest, Idle, InFlight

\* Peers are nodes; a round names each peer once.
LEMMA RoundsStep == ASSUME FInv, Rounds, [NextF]_fvars PROVE Rounds'
<1>0. now \in Nat /\ Interval \in Nat
  BY Numbers DEF FInv, FTypes
<1>1. peers' \subseteq Nodes
  <2>1. CASE peers' = peers
    BY <2>1 DEF Rounds
  <2>2. CASE \E n \in Nodes : ApplyRevoke(n) \/ ApplyPeer(n)
    BY <2>2 DEF ApplyRevoke, ApplyPeer, Rounds
  <2>3. peers' = peers \/ \E n \in Nodes : ApplyRevoke(n) \/ ApplyPeer(n)
    BY DEF NextF, fvars, store, Tick, PresenceChanges, StopNode, StartNode, Publish, PublishOther,
           ReadRegistry, StartRound, SkipPeer, SendRequest, ReadItems, StampSnapshot,
           AnswerFromCache, RequestFails, Validate, RejectReply, StoreSnapshot
  <2> QED
    BY <2>1, <2>2, <2>3
<1>2. CASE PullerRests
  BY <1>1, <1>2 DEF PullerRests, Rounds, Idle, InFlight, Left
<1>3. CASE PullerWaits
  BY <1>0, <1>1, <1>3 DEF PullerWaits, Rounds, Idle, InFlight, Left
<1>4. CASE RoundStarts
  <2>1. /\ ActivePeers \in Seq(Nodes)
        /\ \A i, j \in 1 .. Len(ActivePeers) : i < j => ActivePeers[i] < ActivePeers[j]
    BY RoundOrder DEF Rounds
  <2>2. Idle /\ Idle' /\ ~InFlight'
    BY <1>4 DEF RoundStarts, Idle, InFlight, NoRequest
  <2> QED
    BY <1>0, <1>1, <1>4, <2>1, <2>2 DEF RoundStarts, Rounds
<1>5. CASE PeerPassed /\ request' = request
  <2>1. /\ Tail(round) \in Seq(Nodes)
        /\ \A i, j \in 1 .. Len(Tail(round)) : i < j => Tail(round)[i] < Tail(round)[j]
    BY <1>5, RoundHead DEF PeerPassed
  <2>2. Idle' /\ ~InFlight'
    BY <1>5 DEF PeerPassed, Idle, InFlight, NoRequest
  <2> QED
    BY <1>1, <1>5, <2>1, <2>2 DEF PeerPassed, Rounds
<1>6. CASE RequestSent
  <2>1. /\ Tail(round) \in Seq(Nodes) /\ Head(round) \in Nodes
        /\ \A i, j \in 1 .. Len(Tail(round)) : i < j => Tail(round)[i] < Tail(round)[j]
        /\ \A m \in Range(Tail(round)) : Head(round) < m
    BY <1>6, RoundHead DEF RequestSent, PeerPassed
  <2>2. InFlight'
    BY <1>6 DEF RequestSent, InFlight
  <2>3. Left' = Range(Tail(round))
    BY <1>6 DEF RequestSent, PeerPassed, Left
  <2> QED
    BY <1>1, <1>6, <2>1, <2>2, <2>3 DEF RequestSent, PeerPassed, Rounds
<1>7. CASE RequestGoesOn \/ AnswerAccepted
  <2>1. InFlight /\ ~Idle /\ Left' = Left
    BY <1>7 DEF RequestGoesOn, AnswerAccepted, InFlight, Idle, NoRequest, Left
  <2>2. AnswerAccepted => ~InFlight'
    BY DEF AnswerAccepted, InFlight
  <2> QED
    BY <1>1, <1>7, <2>1, <2>2 DEF RequestGoesOn, AnswerAccepted, Rounds
<1>8. CASE RequestEnds
  BY <1>1, <1>8 DEF RequestEnds, Rounds, Idle, InFlight, NoRequest
<1> QED
  BY <1>2, <1>3, <1>4, <1>5, <1>6, <1>7, <1>8, PullerSteps

\* A disturbance is noted at its time, and none is forgotten.
LEMMA DisturbancesStep ==
    ASSUME FInv, Paced, [NextF]_fvars
    PROVE  Disturbances' /\ \A n \in Nodes : disturbed[n] <= disturbed'[n]
<1>1. now \in Nat /\ now' \in Nat /\ now <= now'
  <2>1. now' = now \/ now' = now + 1
    BY PullerSteps DEF PullerRests, PullerWaits, RoundStarts, PeerPassed, RequestSent,
                       RequestGoesOn, AnswerAccepted, RequestEnds
  <2> QED
    BY <2>1 DEF FInv, FTypes
<1>2. disturbed \in [Nodes -> Nat] /\ \A n \in Nodes : disturbed[n] <= now
  BY DEF Paced, Disturbances
<1>3. disturbed' = disturbed \/ \E n \in Nodes : disturbed' = [disturbed EXCEPT ![n] = now]
  <2>1. CASE AnswerFromCache \/ RequestFails
    <3>1. request.node \in Nodes
      BY <2>1 DEF AnswerFromCache, RequestFails, Paced, Rounds, Idle, NoRequest
    <3> QED
      BY <2>1, <3>1 DEF AnswerFromCache, RequestFails
  <2>2. ASSUME NEW n \in Nodes, ApplyPeer(n)
        PROVE  disturbed' = disturbed \/ disturbed' = [disturbed EXCEPT ![n] = now]
    BY <1>2, <2>2 DEF ApplyPeer
  <2>3. CASE \E n \in Nodes : StartNode(n)
    BY <2>3 DEF StartNode
  <2>4. \/ disturbed' = disturbed \/ AnswerFromCache \/ RequestFails
        \/ \E n \in Nodes : StartNode(n) \/ ApplyPeer(n)
    BY DEF NextF, fvars, bounds, Tick, PresenceChanges, StopNode, Publish, PublishOther,
           ReadRegistry, ApplyRevoke, StartRound, SkipPeer, SendRequest, ReadItems, StampSnapshot,
           Validate, RejectReply, StoreSnapshot
  <2> QED
    BY <2>1, <2>2, <2>3, <2>4
<1> QED
  BY <1>1, <1>2, <1>3 DEF Disturbances

-----------------------------------------------------------------------------
(* Turns *)

\* The numbers of a turn.
LEMMA TurnNumbers ==
    ASSUME FInv, InTime, Rounds, NEW n \in Nodes
    PROVE  /\ now \in Nat /\ nextPull \in Nat /\ Ends \in Nat /\ now <= Ends
           /\ Ends <= now + RequestTimeout
           /\ InFlight => request.at \in Nat /\ request.at <= now
           /\ Left \in SUBSET Nodes /\ Cardinality(Left) \in Nat
           /\ Place(Left, n) \in Nat /\ Place(Nodes, n) \in Nat
           /\ Span(Place(Left, n)) \in Nat /\ Span(Place(Nodes, n)) \in Nat
           /\ Span(Cardinality(Left) + Place(Nodes, n)) \in Nat
<1>1. now \in Nat /\ RequestTimeout \in Nat
  BY Numbers DEF FInv, FTypes
<1>2. InFlight => request.at \in Nat /\ request.at <= now /\ now <= request.at + RequestTimeout
  BY DEF InTime, InFlight
<1>3. Ends \in Nat /\ now <= Ends /\ Ends <= now + RequestTimeout
  BY <1>1, <1>2 DEF Ends
<1>4. Left \in SUBSET Nodes
  BY DEF Rounds, Left, Range
<1>5. Cardinality(Left) \in Nat /\ Place(Left, n) \in Nat /\ Place(Nodes, n) \in Nat
  BY <1>4, Places
<1>6. Cardinality(Left) + Place(Nodes, n) \in Nat
  BY <1>5
<1> QED
  BY <1>1, <1>2, <1>3, <1>4, <1>5, <1>6, Spans DEF Rounds

\* A later time does as well.
LEMMA TurnLater ==
    ASSUME FInv, InTime, Rounds, NEW n \in Nodes, NEW s \in Int, NEW t \in Int, s <= t,
           TurnBy(n, s)
    PROVE  TurnBy(n, t)
<1>1. /\ now \in Nat /\ nextPull \in Nat /\ Ends \in Nat /\ RequestTimeout \in Nat
      /\ InFlight => request.at \in Nat
      /\ Span(Place(Left, n)) \in Nat /\ Span(Place(Nodes, n)) \in Nat
      /\ Span(Cardinality(Left) + Place(Nodes, n)) \in Nat
  BY TurnNumbers, Numbers
<1>2. ComesTo(n, s) => ComesTo(n, t)
  BY <1>1 DEF ComesTo
<1>3. CASE Asked(n) /\ InFlight
  BY <1>1, <1>3 DEF TurnBy
<1>4. CASE Asked(n) /\ ~InFlight
  BY <1>1, <1>4 DEF TurnBy
<1>5. CASE ~Asked(n)
  BY <1>2, <1>5 DEF TurnBy
<1> QED
  BY <1>3, <1>4, <1>5

\* While its turn has not passed, a peer is not asked too late.
LEMMA TurnNotOver ==
    ASSUME FInv, InTime, Rounds, NEW n \in Nodes, NEW t \in Int, TurnBy(n, t)
    PROVE  now <= t + RequestTimeout
<1>1. /\ now \in Nat /\ nextPull \in Nat /\ Ends \in Nat /\ RequestTimeout \in Nat /\ now <= Ends
      /\ InFlight => request.at \in Nat /\ now <= request.at + RequestTimeout
      /\ Span(Place(Left, n)) \in Nat /\ Span(Cardinality(Left) + Place(Nodes, n)) \in Nat
  BY TurnNumbers, Numbers DEF InTime, InFlight
<1>2. ComesTo(n, t) => now <= t + RequestTimeout
  BY <1>1 DEF ComesTo
<1>3. CASE Asked(n) /\ InFlight
  BY <1>1, <1>3 DEF TurnBy
<1> QED
  BY <1>2, <1>3 DEF TurnBy

\* At any time, the turn of a node comes with the next round.
LEMMA AnyTurn ==
    ASSUME FInv, InTime, Rounds, NEW n \in Nodes
    PROVE  TurnBy(n, now + Interval + Span(NumNodes) + Span(NumNodes - 1))
<1> DEFINE t == now + Interval + Span(NumNodes) + Span(NumNodes - 1)
<1>1. /\ now \in Nat /\ nextPull \in Nat /\ Ends \in Nat /\ Ends <= now + RequestTimeout
      /\ nextPull <= now + Interval /\ Interval \in Nat /\ RequestTimeout \in Nat
      /\ InFlight => request.at \in Nat /\ request.at <= now
      /\ Span(Place(Left, n)) \in Nat /\ Span(Place(Nodes, n)) \in Nat
      /\ Span(Cardinality(Left) + Place(Nodes, n)) \in Nat
  BY TurnNumbers, Numbers DEF Rounds
<1>2. /\ NumNodes \in Nat /\ Left \in SUBSET Nodes
      /\ Place(Left, n) \in Nat /\ Place(Nodes, n) \in Nat /\ Cardinality(Left) \in Nat
      /\ Place(Left, n) <= Place(Nodes, n) /\ Place(Nodes, n) + 1 <= NumNodes
      /\ n \notin Left => Cardinality(Left) + 1 <= NumNodes
  <2>1. Left \in SUBSET Nodes /\ NumNodes \in Nat
    BY TurnNumbers, Numbers
  <2> QED
    BY <2>1, Places
<1>3. /\ Span(NumNodes - 1) \in Nat /\ Span(NumNodes) = Span(NumNodes - 1) + RequestTimeout
      /\ Span(Place(Left, n)) <= Span(NumNodes - 1)
      /\ Span(Place(Nodes, n)) <= Span(NumNodes - 1)
  <2>1. NumNodes - 1 \in Nat /\ NumNodes = (NumNodes - 1) + 1
    BY <1>2
  <2>2. Place(Left, n) <= NumNodes - 1 /\ Place(Nodes, n) <= NumNodes - 1
    BY <1>2
  <2>3. Span(NumNodes) = Span((NumNodes - 1) + 1)
    BY <2>1
  <2> QED
    BY <1>2, <2>1, <2>2, <2>3, Spans
<1>4. n \notin Left =>
        Span(Cardinality(Left) + Place(Nodes, n)) <= Span(NumNodes - 1) + Span(NumNodes - 1)
  <2> SUFFICES ASSUME n \notin Left
               PROVE  Span(Cardinality(Left) + Place(Nodes, n)) <= Span(NumNodes - 1) + Span(NumNodes - 1)
    OBVIOUS
  <2>1. NumNodes - 1 \in Nat /\ Cardinality(Left) <= NumNodes - 1
    BY <1>2
  <2>2. Span(Cardinality(Left)) <= Span(NumNodes - 1)
    BY <1>2, <2>1, Spans
  <2>3. /\ Span(Cardinality(Left) + Place(Nodes, n)) = Span(Cardinality(Left)) + Span(Place(Nodes, n))
        /\ Span(Cardinality(Left)) \in Nat
    BY <1>2, Spans
  <2> QED
    BY <1>1, <1>3, <2>2, <2>3
<1>5. t \in Nat /\ t = now + Interval + Span(NumNodes - 1) + RequestTimeout + Span(NumNodes - 1)
  BY <1>1, <1>3
<1>6. ComesTo(n, t)
  <2> HIDE DEF t
  <2>1. CASE n \in Left
    BY <1>1, <1>3, <1>5, <2>1 DEF ComesTo
  <2>2. CASE n \notin Left
    BY <1>1, <1>3, <1>4, <1>5, <2>2 DEF ComesTo
  <2> QED
    BY <2>1, <2>2
<1>7. /\ InFlight => request.at <= t
      /\ now <= t + RequestTimeout
  BY <1>1, <1>3, <1>5
<1> HIDE DEF t
<1>8. TurnBy(n, t)
  BY <1>6, <1>7 DEF TurnBy
<1> QED
  BY <1>8 DEF t

\* When its turn is over, the next one comes in the next round.
LEMMA NextTurn ==
    ASSUME FInv', InTime', Rounds', NEW n \in Nodes, Idle', \A m \in Left' : n < m,
           NEW t \in Int, nextPull' + Span(NumNodes - 1) <= t, now' + Span(NumNodes - 1) <= t
    PROVE  TurnBy(n, t)'
<1>1. /\ now' \in Nat /\ nextPull' \in Nat /\ Left' \in SUBSET Nodes /\ Ends' = now'
  <2>1. FInv' => now' \in Nat
    BY DEF FInv, FTypes
  <2>2. Ends' = now' /\ nextPull' \in Nat /\ Left' \in SUBSET Nodes
    BY DEF Ends, InFlight, Idle, NoRequest, Rounds, Left, Range
  <2> QED
    BY <2>1, <2>2
<1>2. /\ Cardinality(Left') \in Nat /\ Place(Nodes, n) \in Nat /\ NumNodes \in Nat
      /\ Place(Nodes, n) + 1 <= NumNodes
      /\ Cardinality(Left') + Place(Nodes, n) + 1 <= NumNodes
  BY <1>1, Places, Numbers
<1>3. NumNodes - 1 \in Nat /\ Cardinality(Left') + Place(Nodes, n) \in Nat
      /\ Place(Nodes, n) <= NumNodes - 1 /\ Cardinality(Left') + Place(Nodes, n) <= NumNodes - 1
  BY <1>2
<1>4. /\ Span(NumNodes - 1) \in Nat /\ Span(Place(Nodes, n)) \in Nat
      /\ Span(Cardinality(Left') + Place(Nodes, n)) \in Nat
      /\ Span(Place(Nodes, n)) <= Span(NumNodes - 1)
      /\ Span(Cardinality(Left') + Place(Nodes, n)) <= Span(NumNodes - 1)
  BY <1>2, <1>3, Spans
<1>5. n \notin Left'
  BY Ids
<1>6. ComesTo(n, t)'
  BY <1>1, <1>4, <1>5 DEF ComesTo
<1> QED
  BY <1>6 DEF TurnBy, Asked

\* The turn of a peer stays where it is until it is passed over or its request
\* ends.
LEMMA TurnStays ==
    ASSUME FInv, InTime, Rounds, FInv', InTime', Rounds', [NextF]_fvars, NEW n \in peers,
           NEW t \in Int, TurnBy(n, t),
           ~(SkipPeer /\ n = Head(round)),
           ~((RequestFails \/ RejectReply \/ StoreSnapshot) /\ Asked(n))
    PROVE  TurnBy(n, t)'
<1>0. n \in Nodes
  BY DEF Rounds
<1>1. /\ now \in Nat /\ nextPull \in Nat /\ Ends \in Nat /\ now <= Ends
      /\ RequestTimeout \in Nat
      /\ InFlight => request.at \in Nat /\ request.at <= now /\ Ends = request.at + RequestTimeout
      /\ ~InFlight => Ends = now
      /\ Left \in SUBSET Nodes /\ Cardinality(Left) \in Nat
      /\ Place(Left, n) \in Nat /\ Place(Nodes, n) \in Nat
      /\ Span(Place(Left, n)) \in Nat /\ Span(Place(Nodes, n)) \in Nat
      /\ Span(Cardinality(Left) + Place(Nodes, n)) \in Nat
  BY <1>0, TurnNumbers, Numbers DEF Ends
<1>2. CASE PullerRests
  BY <1>2 DEF PullerRests, TurnBy, Asked, Idle, InFlight, ComesTo, Left, Ends
<1>3. CASE PullerWaits
  <2>1. CASE InFlight
    <3>1. InFlight' /\ Left' = Left /\ Ends' = Ends /\ request' = request /\ nextPull' = nextPull
      BY <1>3, <2>1 DEF PullerWaits, InFlight, Left, Ends
    <3> QED
      BY <2>1, <3>1 DEF TurnBy, Asked, Idle, ComesTo
  <2>2. CASE Idle /\ round = <<>> /\ now < nextPull
    <3>1. ~InFlight /\ ~InFlight' /\ ~Asked(n) /\ ~Asked(n)'
      BY <1>3, <2>2 DEF PullerWaits, InFlight, Idle, NoRequest, Asked
    <3>2. Left = {} /\ Left' = {} /\ Cardinality(Left) = 0 /\ Cardinality(Left') = 0
      <4>1. Left = {} /\ Left' = Left
        BY <1>3, <2>2 DEF PullerWaits, Left, Range
      <4> QED
        BY <4>1, FS_EmptySet
    <3>3. /\ nextPull + Span(Place(Nodes, n)) <= t
      BY <3>1, <3>2 DEF TurnBy, ComesTo
    <3>4. Ends' = now + 1 /\ nextPull' = nextPull /\ 0 + Place(Nodes, n) = Place(Nodes, n)
      BY <1>1, <1>3, <3>1 DEF PullerWaits, Ends
    <3>5. ComesTo(n, t)'
      BY <1>1, <2>2, <3>2, <3>3, <3>4 DEF ComesTo
    <3> QED
      BY <3>1, <3>5 DEF TurnBy
  <2> QED
    BY <1>3, <2>1, <2>2 DEF PullerWaits
<1>4. CASE RoundStarts
  <2>1. /\ ~InFlight /\ ~InFlight' /\ ~Asked(n) /\ ~Asked(n)'
    BY <1>4 DEF RoundStarts, InFlight, Idle, NoRequest, Asked
  <2>2. Left = {} /\ Cardinality(Left) = 0
    BY <1>4, FS_EmptySet DEF RoundStarts, Left, Range
  <2>3. Left' = peers
    BY <1>4, RoundOrder DEF RoundStarts, Left, Rounds
  <2>4. Ends + Span(Cardinality(Left) + Place(Nodes, n)) <= t
    BY <2>1, <2>2 DEF TurnBy, ComesTo
  <2>5. Place(peers, n) \in Nat /\ Place(peers, n) <= Place(Nodes, n)
    BY <1>0, Places DEF Rounds
  <2>6. Span(Place(peers, n)) \in Nat /\ Span(Place(peers, n)) <= Span(Place(Nodes, n))
    BY <1>1, <2>5, Spans
  <2>7. Ends' = Ends /\ Cardinality(Left) + Place(Nodes, n) = Place(Nodes, n)
    BY <1>1, <1>4, <2>1, <2>2 DEF RoundStarts, Ends
  <2>8. ComesTo(n, t)'
    BY <1>1, <2>3, <2>4, <2>6, <2>7 DEF ComesTo
  <2> QED
    BY <2>1, <2>8 DEF TurnBy
<1>5. CASE PeerPassed
  <2> DEFINE h == Head(round)
  <2>1. /\ h \in Left /\ h \in Nodes /\ Left' = Left \ {h} /\ nextPull' = nextPull
        /\ \A m \in Left : h <= m
    <3>1. /\ h \in Left /\ Left \subseteq Nodes /\ Range(Tail(round)) = Left \ {h}
          /\ \A m \in Left \ {h} : h < m
      BY <1>5, RoundHead DEF PeerPassed
    <3>2. \A m \in Left : m \in Int
      BY <3>1, Ids
    <3> QED
      BY <1>5, <3>1, <3>2 DEF PeerPassed, Left
  <2> HIDE DEF h
  <2>2. ~InFlight /\ ~Asked(n) /\ Ends = now
    BY <1>5 DEF PeerPassed, InFlight, Idle, NoRequest, Asked, Ends
  <2>3. /\ Cardinality(Left) = Cardinality(Left \ {h}) + 1
        /\ Place(Left, h) = 0
        /\ n \in Left \ {h} => Place(Left, n) = Place(Left \ {h}, n) + 1
    BY <1>0, <1>1, <2>1, FirstTaken
  <2>4. /\ Cardinality(Left \ {h}) \in Nat /\ Place(Left \ {h}, n) \in Nat
        /\ Cardinality(Left \ {h}) + Place(Nodes, n) \in Nat
    <3>1. Left \ {h} \in SUBSET Nodes
      BY <1>1
    <3>2. Cardinality(Left \ {h}) \in Nat /\ Place(Left \ {h}, n) \in Nat
      BY <1>0, <3>1, Places
    <3> QED
      BY <1>1, <3>2
  <2>5. /\ n \in Left \ {h} => Span(Place(Left, n)) = Span(Place(Left \ {h}, n)) + RequestTimeout
        /\ Span(Place(Left \ {h}, n)) \in Nat
    BY <2>3, <2>4, Spans
  <2>6. /\ Span(Cardinality(Left) + Place(Nodes, n))
             = Span(Cardinality(Left \ {h}) + Place(Nodes, n)) + RequestTimeout
        /\ Span(Cardinality(Left \ {h}) + Place(Nodes, n)) \in Nat
    <3>1. Cardinality(Left) + Place(Nodes, n) = (Cardinality(Left \ {h}) + Place(Nodes, n)) + 1
      BY <1>1, <2>3, <2>4
    <3> QED
      BY <2>4, <3>1, Spans
  <2>7. ComesTo(n, t)
    BY <2>2 DEF TurnBy
  <2>8. CASE request' = request
    <3>1. ~InFlight' /\ ~Asked(n)' /\ Ends' = now
      BY <1>5, <2>2, <2>8 DEF PeerPassed, InFlight, Asked, Idle, Ends
    <3>2. CASE n \in Left \ {h}
      BY <1>1, <2>1, <2>2, <2>5, <2>7, <3>1, <3>2 DEF ComesTo, TurnBy
    <3>3. CASE n \notin Left
      BY <1>1, <2>1, <2>2, <2>6, <2>7, <3>1, <3>3 DEF ComesTo, TurnBy
    <3>4. n # h \/ ~SkipPeer
      BY DEF h
    <3>5. SkipPeer
      BY <1>5, <2>8, PullerSteps DEF PeerPassed, PullerRests, PullerWaits, RoundStarts,
         RequestSent, RequestGoesOn, AnswerAccepted, RequestEnds, InFlight, Idle, NoRequest
    <3> QED
      BY <3>2, <3>3, <3>4, <3>5
  <2>9. CASE RequestSent
    <3>1. /\ InFlight' /\ Ends' = now + RequestTimeout /\ request'.node = h /\ request'.at = now
          /\ ~Idle'
      BY <2>9 DEF RequestSent, InFlight, Ends, h, Idle, NoRequest
    <3>2. CASE n = h
      <4>1. now <= t
        BY <1>1, <2>1, <2>2, <2>3, <2>7, <3>2, Numbers DEF ComesTo
      <4> QED
        BY <3>1, <3>2, <4>1 DEF TurnBy, Asked
    <3>3. CASE n \in Left \ {h}
      <4>1. ComesTo(n, t)'
        BY <1>1, <2>1, <2>2, <2>5, <2>7, <3>1, <3>3 DEF ComesTo
      <4> QED
        BY <3>1, <3>3, <4>1 DEF TurnBy, Asked
    <3>4. CASE n \notin Left
      <4>1. ComesTo(n, t)'
        BY <1>1, <2>1, <2>2, <2>6, <2>7, <3>1, <3>4 DEF ComesTo
      <4> QED
        BY <2>1, <3>1, <3>4, <4>1 DEF TurnBy, Asked
    <3> QED
      BY <3>2, <3>3, <3>4
  <2>10. request' = request \/ RequestSent
    BY <1>5, PullerSteps DEF PeerPassed, PullerRests, PullerWaits, RoundStarts, RequestGoesOn,
       AnswerAccepted, RequestEnds, InFlight, Idle, NoRequest
  <2> QED
    BY <2>8, <2>9, <2>10
<1>6. CASE RequestGoesOn
  <2>1. /\ InFlight /\ InFlight' /\ Left' = Left /\ Ends' = Ends /\ nextPull' = nextPull
        /\ request'.at = request.at /\ (Asked(n)' <=> Asked(n))
    BY <1>6 DEF RequestGoesOn, InFlight, Left, Ends, Asked, Idle, NoRequest
  <2> QED
    BY <2>1 DEF TurnBy, ComesTo
<1>7. CASE AnswerAccepted
  <2>1. /\ InFlight /\ ~InFlight' /\ Left' = Left /\ Ends' = now /\ nextPull' = nextPull
        /\ now' = now /\ (Asked(n)' <=> Asked(n))
    BY <1>7 DEF AnswerAccepted, InFlight, Left, Ends, Asked, Idle, NoRequest
  <2>2. CASE Asked(n)
    <3>1. request.at <= t /\ now <= request.at + RequestTimeout
      BY <2>1, <2>2 DEF TurnBy, InTime, InFlight
    <3> QED
      BY <1>1, <2>1, <2>2, <3>1 DEF TurnBy
  <2>3. CASE ~Asked(n)
    <3>1. ComesTo(n, t)
      BY <2>3 DEF TurnBy
    <3>2. ComesTo(n, t)'
      BY <1>1, <2>1, <3>1 DEF ComesTo
    <3> QED
      BY <2>1, <2>3, <3>2 DEF TurnBy
  <2> QED
    BY <2>2, <2>3
<1>8. CASE RequestEnds /\ ~Asked(n)
  <2>1. /\ ~InFlight' /\ Left' = Left /\ Ends' = now /\ nextPull' = nextPull /\ ~Asked(n)'
    BY <1>8 DEF RequestEnds, InFlight, Left, Ends, Asked, Idle, NoRequest
  <2>2. ComesTo(n, t)
    BY <1>8 DEF TurnBy
  <2>3. ComesTo(n, t)'
    BY <1>1, <2>1, <2>2 DEF ComesTo
  <2> QED
    BY <2>1, <2>3 DEF TurnBy
<1> QED
  BY <1>2, <1>3, <1>4, <1>5, <1>6, <1>7, <1>8, PullerSteps DEF RequestSent

\* Once the puller is past a peer, its next turn comes in the next round.
LEMMA TurnPassed ==
    ASSUME FInv, InTime, Rounds, FInv', InTime', Rounds', NEW n \in Nodes, NEW t \in Int,
           \/ SkipPeer /\ n = Head(round)
           \/ (RequestFails \/ RejectReply \/ StoreSnapshot) /\ Asked(n),
           nextPull + Span(NumNodes - 1) <= t, now + Span(NumNodes - 1) <= t
    PROVE  TurnBy(n, t)'
<1>1. Idle' /\ now' = now /\ nextPull' = nextPull /\ \A m \in Left' : n < m
  <2>1. CASE SkipPeer /\ n = Head(round)
    <3>1. /\ \A m \in Left \ {n} : n < m
          /\ Range(Tail(round)) = Left \ {n}
      BY <2>1, RoundHead DEF SkipPeer
    <3> QED
      BY <2>1, <3>1 DEF SkipPeer, Idle, Left
  <2>2. CASE (RequestFails \/ RejectReply \/ StoreSnapshot) /\ Asked(n)
    <3>1. request' = NoRequest /\ UNCHANGED <<now, nextPull, round>>
      BY <2>2 DEF RequestFails, RejectReply, StoreSnapshot, Failed
    <3> QED
      BY <2>2, <3>1 DEF Idle, Asked, Rounds, Left
  <2> QED
    BY <2>1, <2>2
<1> QED
  BY <1>1, NextTurn

-----------------------------------------------------------------------------
(* What an answer is stamped with *)

\* What the answer in hand is made of.
LEMMA InHand ==
    ASSUME FInv, Paced, HasReply
    PROVE  /\ request.node \in Nodes /\ request.reply \in Answers(request.node)
           /\ Given(request.node, request.reply)
           /\ disturbed[request.node] \in Nat /\ disturbed[request.node] <= now
<1>1. request.node \in Nodes
  BY DEF Paced, Rounds, HasReply, Idle, NoRequest
<1>2. request.reply \in Answers(request.node)
  BY DEF Answers
<1> QED
  BY <1>1, <1>2 DEF FInv, AnswersGiven, Paced, Disturbances

\* A node starts again: what it answered before is not late any more.
LEMMA OfThisRunStep ==
    ASSUME FInv, Paced, OfThisRun, [NextF]_fvars
    PROVE  OfThisRun'
<1> SUFFICES ASSUME NEW n \in Nodes, NEW r \in Answers(n)', Late(n, r)'
             PROVE  r.epoch = epoch'[n]
  BY DEF OfThisRun
<1>1. /\ disturbed[n] \in Nat /\ disturbed'[n] \in Nat /\ disturbed[n] <= disturbed'[n]
      /\ now \in Nat /\ Ahead \in Nat /\ epoch[n] \in Nat
  BY DisturbancesStep, Numbers DEF Paced, Disturbances, FInv, FTypes
<1>2. CASE \E m \in Nodes : StartNode(m)
  <2> PICK m \in Nodes : StartNode(m)
    BY <1>2
  <2>1. /\ snapshots' = snapshots /\ cached' = cached /\ request' = request
        /\ epoch' = [epoch EXCEPT ![m] = @ + 1] /\ disturbed' = [disturbed EXCEPT ![m] = now]
    BY DEF StartNode, store, puller
  <2>2. r \in Answers(n)
    BY <2>1 DEF Answers, HasReply
  <2>3. r.at \in Nat /\ r.at <= now + Ahead
    BY <2>2 DEF FInv, AnswersGiven, Given
  <2>4. n # m
    <3>1. disturbed \in [Nodes -> Nat]
      BY DEF Paced, Disturbances
    <3>2. n = m => disturbed'[n] = now
      BY <2>1, <3>1
    <3> QED
      BY <1>1, <2>3, <3>2 DEF Late
  <2>5. epoch'[n] = epoch[n] /\ disturbed'[n] = disturbed[n]
    BY <2>1, <2>4 DEF FInv, FTypes, Paced, Disturbances
  <2> QED
    BY <2>2, <2>5 DEF OfThisRun, Late
<1>3. CASE ~\E m \in Nodes : StartNode(m)
  <2>1. epoch' = epoch
    BY <1>3 DEF NextF, fvars, remote, Tick, PresenceChanges, StopNode, Publish, PublishOther,
           ReadRegistry, ApplyRevoke, ApplyPeer, StartRound, SkipPeer, SendRequest, ReadItems,
           StampSnapshot, AnswerFromCache, RequestFails, Validate, RejectReply, StoreSnapshot
  <2>2. r \in Answers(n) \/ r.epoch = epoch[n]
    BY AnswersCome, Stamped
  <2>3. CASE r \in Answers(n)
    <3>1. r.at \in Nat
      BY <2>3 DEF FInv, AnswersGiven, Given
    <3>2. Late(n, r)
      BY <1>1, <3>1 DEF Late
    <3> QED
      BY <2>1, <2>3, <3>2 DEF OfThisRun
  <2> QED
    BY <2>1, <2>2, <2>3
<1> QED
  BY <1>2, <1>3

\* The handler stamps an answer: it continues the sequence.
LEMMA LastReplyStamp ==
    ASSUME FInv, InTime, Paced, StampSnapshot
    PROVE  LastReply'
<1> DEFINE m == request.node
<1>1. /\ request.stage = "items" /\ m \in Nodes
      /\ request'.stage = "reply" /\ request'.node = m /\ m' = m /\ request'.at = request.at
      /\ request'.reply.at = now + Ahead /\ request'.reply.seq = nextSeq[m] + 1
      /\ UNCHANGED <<now, epoch, snapshots, disturbed>>
  BY DEF StampSnapshot, store, bounds, FInv, FTypes
<1>2. /\ now \in Nat /\ Ahead \in Nat /\ nextSeq[m] \in Nat
      /\ disturbed[m] \in Nat /\ disturbed[m] <= now
      /\ request.at \in Nat /\ request.at <= now
  BY <1>1, Numbers DEF FInv, FTypes, Paced, Disturbances, InTime
<1>3. ASSUME m \in DOMAIN snapshots, snapshots[m].epoch = epoch[m]
      PROVE  snapshots[m].seq < nextSeq[m] + 1
  <2>1. snapshots[m] \in Answers(m)
    BY <1>3 DEF Answers
  <2>2. snapshots[m].seq \in Nat /\ snapshots[m].seq <= nextSeq[m]
    BY <1>1, <1>3, <2>1 DEF FInv, AnswersGiven, Given
  <2> QED
    BY <1>2, <2>2
<1> HIDE DEF m
<1>4. CASE Late(m, request.reply)'
  BY <1>1, <1>2, <1>3, <1>4 DEF LastReply, AskedBy
<1>5. CASE ~Late(m, request.reply)'
  <2>1. ~(now + Ahead > disturbed[m] + Ahead)
    BY <1>1, <1>5 DEF Late
  <2>2. now = disturbed[m]
    BY <1>2, <2>1
  <2> QED
    BY <1>1, <1>2, <1>5, <2>2 DEF LastReply, AskedBy
<1> QED
  BY <1>4, <1>5

\* A cache answers: a disturbance.
LEMMA LastReplyCached ==
    ASSUME FInv, InTime, Paced, AnswerFromCache
    PROVE  LastReply'
<1> DEFINE m == request.node
<1>1. /\ request.stage = "sent" /\ m \in DOMAIN cached
      /\ request'.stage = "reply" /\ request'.node = m /\ m' = m /\ request'.at = request.at
      /\ request'.reply = cached[m]
      /\ disturbed' = [disturbed EXCEPT ![m] = now]
  BY DEF AnswerFromCache
<1>2. m \in Nodes
  BY <1>1 DEF Paced, Rounds, Idle, NoRequest
<1>3. disturbed'[m] = now /\ now \in Nat /\ Ahead \in Nat /\ request.at \in Nat /\ request.at <= now
  BY <1>1, <1>2, Numbers DEF FInv, FTypes, Paced, Disturbances, InTime
<1>4. cached[m].at \in Nat /\ cached[m].at <= now + Ahead
  <2>1. cached[m] \in Answers(m)
    BY <1>1 DEF Answers
  <2> QED
    BY <1>2, <2>1 DEF FInv, AnswersGiven, Given
<1> HIDE DEF m
<1>5. ~Late(m, request.reply)'
  BY <1>1, <1>3, <1>4 DEF Late
<1> QED
  BY <1>1, <1>3, <1>5 DEF LastReply, AskedBy

\* An answer is found valid.
LEMMA LastReplyValid ==
    ASSUME FInv, InTime, Paced, LastReply, Validate
    PROVE  LastReply'
<1> DEFINE m == request.node
           s == IF Late(m, request.reply) THEN request.reply.at - Ahead ELSE disturbed[m]
<1>1. /\ request.stage = "reply" /\ HasReply
      /\ request'.stage = "valid" /\ request'.node = m /\ request'.reply = request.reply
      /\ UNCHANGED <<now, nextPull, epoch, snapshots, disturbed>>
  BY DEF Validate, HasReply, remote, store, bounds
<1>2. /\ now \in Nat /\ Interval \in Nat /\ RequestTimeout \in Nat /\ nextPull \in Nat
      /\ request.at \in Nat /\ now <= request.at + RequestTimeout
      /\ nextPull <= request.at + Interval
      /\ Ahead \in Nat /\ request.reply.at \in Nat /\ disturbed[m] \in Nat
  BY <1>1, InHand, Numbers DEF FInv, FTypes, Paced, Rounds, InFlight, InTime, Given
<1>3. s \in Int /\ request.at <= s
  <2>1. request.at <= s
    BY <1>1 DEF LastReply, AskedBy
  <2> QED
    BY <1>2, <2>1
<1>4. AskedBy(s)'
  <2>1. now <= s + RequestTimeout /\ nextPull <= s + Interval
    <3> HIDE DEF s
    <3> QED
      BY <1>2, <1>3
  <2>2. s' = s
    BY <1>1 DEF Late
  <2> QED
    BY <1>1, <2>1, <2>2 DEF AskedBy
<1>5. CASE Late(m, request.reply)
  <2>1. /\ Late(m, request.reply)' /\ s' = request'.reply.at - Ahead
        /\ m' = m
    BY <1>1, <1>5 DEF Late
  <2>2. m \in DOMAIN snapshots /\ snapshots[m].epoch = epoch[m]
          => snapshots[m].seq < request.reply.seq
    BY <1>1, <1>5 DEF LastReply
  <2> QED
    BY <1>1, <1>4, <2>1, <2>2 DEF LastReply, AskedBy
<1>6. CASE ~Late(m, request.reply)
  <2>1. ~Late(m, request.reply)' /\ s' = disturbed'[m] /\ m' = m
    BY <1>1, <1>6 DEF Late
  <2> QED
    BY <1>1, <1>4, <2>1 DEF LastReply, AskedBy
<1> QED
  BY <1>5, <1>6

\* The answer in hand waits, while nodes stop and start and discovery runs.
LEMMA LastReplyWaits ==
    ASSUME FInv, InTime, Paced, LastReply, [NextF]_fvars, HasReply, request' = request
    PROVE  LastReply'
<1> DEFINE m == request.node
           r == request.reply
<1>1. /\ m \in Nodes /\ r.at \in Nat /\ r.at <= now + Ahead /\ Ahead \in Nat /\ now \in Nat
      /\ disturbed[m] \in Nat /\ disturbed'[m] \in Nat /\ disturbed[m] <= disturbed'[m]
      /\ nextPull \in Nat /\ Interval \in Nat /\ RequestTimeout \in Nat
      /\ request.stage = "reply" => request.at \in Nat
  BY InHand, DisturbancesStep, Numbers DEF Given, Paced, Rounds, Disturbances, FInv, FTypes, InTime
<1>2. nextPull' = nextPull /\ (request.stage = "valid" => now' = now)
  BY PullerSteps DEF PullerRests, PullerWaits, RoundStarts, PeerPassed, RequestSent, RequestGoesOn,
     AnswerAccepted, RequestEnds, InFlight, Idle, NoRequest, HasReply
<1>3. \A s, t \in Int : AskedBy(s) /\ s <= t
        => /\ request.stage = "reply" => request.at <= t
           /\ request.stage = "valid" => now <= t + RequestTimeout /\ nextPull <= t + Interval
  BY <1>1 DEF AskedBy
<1>4. CASE Late(m, r)'
  <2>1. Late(m, r)
    BY <1>1, <1>4 DEF Late
  <2>2. /\ m \in DOMAIN snapshots /\ snapshots[m].epoch = epoch[m] => snapshots[m].seq < r.seq
        /\ AskedBy(r.at - Ahead)
    BY <2>1 DEF LastReply
  <2>3. epoch'[m] = epoch[m]
    <3>1. ASSUME NEW n \in Nodes, StartNode(n) PROVE n # m /\ epoch' = [epoch EXCEPT ![n] = @ + 1]
      <4>1. disturbed' = [disturbed EXCEPT ![n] = now] /\ epoch' = [epoch EXCEPT ![n] = @ + 1]
        BY <3>1 DEF StartNode
      <4>2. n = m => disturbed'[m] = now
        BY <1>1, <4>1 DEF Paced, Disturbances
      <4>3. r.at > disturbed'[m] + Ahead
        BY <1>4 DEF Late
      <4> QED
        BY <1>1, <4>1, <4>2, <4>3
    <3>2. epoch' = epoch \/ \E n \in Nodes : StartNode(n)
      BY DEF NextF, fvars, remote, Tick, PresenceChanges, StopNode, Publish, PublishOther,
             ReadRegistry, ApplyRevoke, ApplyPeer, StartRound, SkipPeer, SendRequest, ReadItems,
             StampSnapshot, AnswerFromCache, RequestFails, Validate, RejectReply, StoreSnapshot
    <3> QED
      BY <1>1, <3>1, <3>2 DEF FInv, FTypes
  <2>4. m \in DOMAIN snapshots' => m \in DOMAIN snapshots /\ snapshots'[m] = snapshots[m]
    <3>1. CASE \E n \in Nodes : ApplyRevoke(n)
      BY <3>1 DEF ApplyRevoke, Without, Restrict
    <3>2. CASE snapshots' = snapshots
      BY <3>2
    <3>3. ~StoreSnapshot
      BY DEF StoreSnapshot, HasReply, NoRequest
    <3>4. snapshots' = snapshots \/ \E n \in Nodes : ApplyRevoke(n)
      BY <3>3 DEF NextF, fvars, store, Tick, PresenceChanges, StopNode, StartNode, Publish,
             PublishOther, ReadRegistry, ApplyPeer, StartRound, SkipPeer, SendRequest, ReadItems,
             StampSnapshot, AnswerFromCache, RequestFails, Validate, RejectReply
    <3> QED
      BY <3>1, <3>2, <3>4
  <2>5. AskedBy(r.at - Ahead)'
    BY <1>2, <2>2 DEF AskedBy
  <2> QED
    BY <1>4, <2>2, <2>3, <2>4, <2>5 DEF LastReply
<1>5. CASE ~Late(m, r)'
  <2>1. ~(r.at > disturbed'[m] + Ahead)
    BY <1>5 DEF Late
  <2>2. \E s \in Int : AskedBy(s) /\ s <= disturbed'[m]
    <3>1. CASE Late(m, r)
      <4>1. AskedBy(r.at - Ahead)
        BY <3>1 DEF LastReply
      <4>2. r.at - Ahead \in Int /\ r.at - Ahead <= disturbed'[m]
        BY <1>1, <2>1
      <4> QED
        BY <4>1, <4>2
    <3>2. CASE ~Late(m, r)
      <4>1. AskedBy(disturbed[m])
        BY <3>2 DEF LastReply
      <4> QED
        BY <1>1, <4>1
    <3> QED
      BY <3>1, <3>2
  <2>3. AskedBy(disturbed[m])'
    <3>1. disturbed'[m] \in Int
      BY <1>1
    <3>2. /\ request.stage = "reply" => request.at <= disturbed'[m]
          /\ request.stage = "valid" =>
               now <= disturbed'[m] + RequestTimeout /\ nextPull <= disturbed'[m] + Interval
      BY <1>3, <2>2, <3>1
    <3> QED
      BY <1>2, <3>2 DEF AskedBy
  <2> QED
    BY <1>5, <2>3 DEF LastReply
<1> QED
  BY <1>4, <1>5

\* The answer in hand, after any step.
LEMMA LastReplyStep ==
    ASSUME FInv, InTime, Paced, LastReply, [NextF]_fvars
    PROVE  LastReply'
<1>1. CASE ~HasReply'
  BY <1>1 DEF LastReply
<1>2. CASE request' = request
  BY <1>1, <1>2, LastReplyWaits DEF HasReply
<1>3. \/ ~HasReply' \/ request' = request \/ StampSnapshot \/ AnswerFromCache \/ Validate
  <2>1. CASE SendRequest \/ ReadItems \/ RequestFails \/ RejectReply \/ StoreSnapshot
    BY <2>1 DEF SendRequest, ReadItems, RequestFails, RejectReply, StoreSnapshot, Failed,
                NoRequest, HasReply
  <2>2. CASE ~(SendRequest \/ ReadItems \/ RequestFails \/ RejectReply \/ StoreSnapshot)
    BY <2>2 DEF NextF, fvars, puller, Tick, PresenceChanges, StopNode, StartNode, Publish,
             PublishOther, ReadRegistry, ApplyRevoke, ApplyPeer, StartRound, SkipPeer
  <2> QED
    BY <2>1, <2>2
<1> QED
  BY <1>1, <1>2, <1>3, LastReplyStamp, LastReplyCached, LastReplyValid

-----------------------------------------------------------------------------
(* Refusals and their backoff *)

\* No backoff is longer than the largest.
LEMMA BackoffBounded ==
    ASSUME NEW count \in Nat \ {0} PROVE Backoff(count) \in Int /\ Backoff(count) <= BackoffMax
<1>1. BackoffBase \in Nat /\ BackoffMax \in Nat /\ count - 1 \in Nat
  BY FederationAssumption
<1>2. BackoffBase * 2 ^ (count - 1) \in Int
  BY <1>1
<1> QED
  BY <1>1, <1>2 DEF Backoff, Smaller

\* A node settles later the later it was disturbed.
LEMMA SettlesLater ==
    ASSUME FInv, Paced, [NextF]_fvars, NEW n \in Nodes
    PROVE  Settles(n) \in Int /\ Settles(n)' \in Int /\ Settles(n) <= Settles(n)'
<1>1. disturbed[n] \in Nat /\ disturbed'[n] \in Nat /\ disturbed[n] <= disturbed'[n]
  BY DisturbancesStep DEF Paced, Disturbances
<1>2. Ahead \in Nat /\ TTL \in Nat /\ BackoffMax \in Nat
  BY Numbers
<1> QED
  BY <1>1, <1>2 DEF Settles

\* An answer is refused only while a snapshot from before the disturbance lives.
LEMMA RefusedEarly ==
    ASSUME PullsInTime, FInv, InTime, Paced, OfThisRun, LastReply, RejectReply
    PROVE  now <= disturbed[request.node] + Ahead + TTL
<1> DEFINE n == request.node
           r == request.reply
<1>1. request.stage = "reply" /\ HasReply /\ ~Accepts(n, r)
  BY DEF RejectReply, HasReply
<1>2. /\ n \in Nodes /\ r \in Answers(n) /\ Given(n, r)
      /\ disturbed[n] \in Nat /\ disturbed[n] <= now
  BY <1>1, InHand
<1>3. /\ now \in Nat /\ Ahead \in Nat /\ TTL \in Nat /\ RequestTimeout \in Nat
      /\ r.at \in Nat /\ r.seq \in Nat
      /\ request.at \in Nat /\ now <= request.at + RequestTimeout
  BY <1>1, <1>2, Numbers DEF FInv, FTypes, Given, InTime
<1>4. TTL >= RequestTimeout
  <2>1. Span(NumNodes + 1) = Span(NumNodes) + RequestTimeout /\ Span(NumNodes) \in Nat
    BY Numbers, Spans
  <2> QED
    BY <1>3, <2>1 DEF PullsInTime, Span, NumNodes
<1> HIDE DEF n, r
<1>5. CASE Late(n, r)
  <2>1. /\ request.at <= r.at - Ahead
        /\ n \in DOMAIN snapshots /\ snapshots[n].epoch = epoch[n] => snapshots[n].seq < r.seq
    BY <1>1, <1>5 DEF LastReply, AskedBy, n, r
  <2>2. ~Expired(r)
    BY <1>3, <1>4, <2>1 DEF Expired
  <2>3. n \in DOMAIN snapshots /\ ~Expired(snapshots[n]) /\ ~(r.seq > snapshots[n].seq)
    BY <1>1, <2>2 DEF Accepts
  <2>4. snapshots[n] \in Answers(n)
    BY <2>3 DEF Answers
  <2>5. snapshots[n].at \in Nat /\ snapshots[n].seq \in Nat
    BY <1>2, <2>4 DEF FInv, AnswersGiven, Given
  <2>6. snapshots[n].epoch # epoch[n]
    BY <1>3, <2>1, <2>3, <2>5
  <2>7. ~Late(n, snapshots[n])
    BY <1>2, <2>4, <2>6 DEF OfThisRun
  <2> QED
    BY <1>2, <1>3, <2>3, <2>5, <2>7 DEF Expired, Late, n
<1>6. CASE ~Late(n, r)
  <2>1. request.at <= disturbed[n]
    BY <1>1, <1>6 DEF LastReply, AskedBy, n, r
  <2> QED
    BY <1>2, <1>3, <1>4, <2>1 DEF n
<1> QED
  BY <1>5, <1>6

\* A backoff ends when its node settles.
LEMMA BackoffsStep ==
    ASSUME PullsInTime, FInv, InTime, Paced, Backoffs, OfThisRun, LastReply, [NextF]_fvars
    PROVE  Backoffs'
<1>1. CASE \/ failures' = failures
           \/ /\ DOMAIN failures' \subseteq DOMAIN failures
              /\ \A x \in DOMAIN failures' : failures'[x] = failures[x]
  <2> SUFFICES ASSUME NEW n \in DOMAIN failures'
               PROVE  /\ n \in Nodes /\ failures'[n].count \in Nat \ {0}
                      /\ failures'[n].until \in Int /\ failures'[n].until <= Settles(n)'
    BY DEF Backoffs
  <2>1. /\ n \in Nodes /\ failures'[n].count \in Nat \ {0}
        /\ failures'[n].until \in Int /\ failures'[n].until <= Settles(n)
    BY <1>1 DEF Backoffs
  <2> QED
    BY <2>1, SettlesLater
<1>2. ASSUME NEW n \in Nodes, Failed(n), now \in Nat, now + BackoffMax <= Settles(n)'
      PROVE  Backoffs'
  <2> DEFINE count == IF n \in DOMAIN failures THEN failures[n].count + 1 ELSE 1
             entry == [count |-> count, until |-> now + Backoff(count)]
  <2>1. /\ DOMAIN failures' = DOMAIN failures \cup {n}
        /\ \A x \in DOMAIN failures' : failures'[x] = IF x = n THEN entry ELSE failures[x]
    BY <1>2 DEF Failed, Put
  <2>2. count \in Nat \ {0}
    BY DEF Backoffs
  <2>3. entry.count = count /\ entry.until = now + Backoff(count)
    OBVIOUS
  <2> HIDE DEF count, entry
  <2>4. Backoff(count) \in Int /\ Backoff(count) <= BackoffMax
    BY <2>2, BackoffBounded
  <2>5. entry.until \in Int /\ entry.until <= Settles(n)'
    <3>1. Settles(n)' \in Int /\ BackoffMax \in Nat
      BY SettlesLater, Numbers
    <3> QED
      BY <1>2, <2>3, <2>4, <3>1
  <2> SUFFICES ASSUME NEW x \in DOMAIN failures'
               PROVE  /\ x \in Nodes /\ failures'[x].count \in Nat \ {0}
                      /\ failures'[x].until \in Int /\ failures'[x].until <= Settles(x)'
    BY DEF Backoffs
  <2>6. CASE x = n
    BY <2>1, <2>2, <2>3, <2>5, <2>6
  <2>7. CASE x # n
    <3>1. /\ x \in Nodes /\ failures'[x] = failures[x] /\ failures[x].count \in Nat \ {0}
          /\ failures[x].until \in Int /\ failures[x].until <= Settles(x)
      BY <2>1, <2>7 DEF Backoffs
    <3> QED
      BY <3>1, SettlesLater
  <2> QED
    BY <2>6, <2>7
<1>3. now \in Nat /\ Ahead \in Nat /\ TTL \in Nat /\ BackoffMax \in Nat
  BY Numbers DEF FInv, FTypes
<1>4. CASE RequestFails
  <2> SUFFICES ASSUME NEW n \in Nodes, n = request.node PROVE Backoffs'
    BY <1>4 DEF RequestFails, Paced, Rounds, Idle, NoRequest
  <2>1. Failed(n) /\ disturbed' = [disturbed EXCEPT ![n] = now]
    BY <1>4 DEF RequestFails, Paced, Rounds, Idle, NoRequest
  <2>2. disturbed'[n] = now
    BY <2>1 DEF Paced, Disturbances
  <2>3. now + BackoffMax <= Settles(n)'
    BY <1>3, <2>2 DEF Settles
  <2> QED
    BY <1>2, <1>3, <2>1, <2>3
<1>5. CASE RejectReply
  <2> SUFFICES ASSUME NEW n \in Nodes, n = request.node PROVE Backoffs'
    BY <1>5 DEF RejectReply, Paced, Rounds, Idle, NoRequest
  <2>1. Failed(n) /\ disturbed' = disturbed /\ disturbed[n] \in Nat
    BY <1>5 DEF RejectReply, bounds, Paced, Rounds, Disturbances, Idle, NoRequest
  <2>2. now <= disturbed[n] + Ahead + TTL
    BY <1>5, RefusedEarly
  <2>3. now + BackoffMax <= Settles(n)'
    BY <1>3, <2>1, <2>2 DEF Settles
  <2> QED
    BY <1>2, <1>3, <2>1, <2>3
<1>6. CASE StoreSnapshot
  BY <1>1, <1>6 DEF StoreSnapshot, Without, Restrict
<1>7. failures' = failures \/ RequestFails \/ RejectReply \/ StoreSnapshot
  BY DEF NextF, fvars, puller, Tick, PresenceChanges, StopNode, StartNode, Publish, PublishOther,
         ReadRegistry, ApplyRevoke, ApplyPeer, StartRound, SkipPeer, SendRequest, ReadItems,
         StampSnapshot, AnswerFromCache, Validate
<1> QED
  BY <1>1, <1>4, <1>5, <1>6, <1>7

-----------------------------------------------------------------------------
(* The peer comes back *)

\* By when a node that was disturbed is asked.
Deadline(n) == Settles(n) + Interval + Span(NumNodes - 1)

\* A turn by the deadline, in the next state.
LEMMA AwaitedNext ==
    ASSUME NEW n \in Nodes, NEW t \in Int, t = Deadline(n)', TurnBy(n, t)'
    PROVE  Awaited(n)'
BY DEF Awaited, Deadline, TurnBy, ComesTo

\* The numbers of a deadline.
LEMMA DeadlineNumbers ==
    ASSUME PullsInTime, FInv, Paced, NEW n \in Nodes
    PROVE  /\ now \in Nat /\ disturbed[n] \in Nat
           /\ Ahead \in Nat /\ TTL \in Nat /\ Interval \in Nat /\ RequestTimeout \in Nat
      /\ BackoffMax \in Nat
           /\ Span(NumNodes) \in Nat /\ Span(NumNodes - 1) \in Nat
           /\ Span(NumNodes) = Span(NumNodes - 1) + RequestTimeout
           /\ TTL >= Interval + Span(NumNodes) /\ TTL >= Span(NumNodes) + RequestTimeout
           /\ nextPull \in Nat /\ nextPull <= now + Interval
           /\ Settles(n) = disturbed[n] + Ahead + TTL + BackoffMax
           /\ Deadline(n) = Settles(n) + Interval + Span(NumNodes - 1) /\ Deadline(n) \in Int
<1>1. /\ now \in Nat /\ disturbed[n] \in Nat
      /\ Ahead \in Nat /\ TTL \in Nat /\ Interval \in Nat /\ RequestTimeout \in Nat
      /\ BackoffMax \in Nat
      /\ nextPull \in Nat /\ nextPull <= now + Interval
  BY Numbers DEF FInv, FTypes, Paced, Rounds, Disturbances
<1>2. NumNodes \in Nat /\ NumNodes - 1 \in Nat /\ NumNodes = (NumNodes - 1) + 1
  <2>1. Nodes \in SUBSET Nodes /\ Place(Nodes, n) \in Nat /\ Place(Nodes, n) + 1 <= NumNodes
    BY Places
  <2> QED
    BY <2>1, Numbers
<1>3. /\ Span(NumNodes) \in Nat /\ Span(NumNodes - 1) \in Nat
      /\ Span((NumNodes - 1) + 1) = Span(NumNodes - 1) + RequestTimeout
      /\ Span(NumNodes + 1) = Span(NumNodes) + RequestTimeout
  BY <1>2, Spans
<1>4. Span(NumNodes) = Span(NumNodes - 1) + RequestTimeout
  BY <1>2, <1>3
<1>5. TTL >= Interval + Span(NumNodes) /\ TTL >= Span(NumNodes) + RequestTimeout
  BY <1>3 DEF PullsInTime, Span, NumNodes
<1> QED
  BY <1>1, <1>3, <1>4, <1>5 DEF Settles, Deadline

\* A node that is disturbed now is asked by its new deadline.
LEMMA DisturbedAwaited ==
    ASSUME PullsInTime, FInv, InTime, Paced, FInv', InTime', Paced', [NextF]_fvars, NEW n \in Nodes,
           disturbed'[n] = now,
           PullerRests \/ RequestGoesOn \/ (RequestFails /\ Asked(n))
    PROVE  Awaited(n)'
<1>1. /\ now \in Nat /\ Ahead \in Nat /\ TTL \in Nat /\ Interval \in Nat /\ RequestTimeout \in Nat
      /\ BackoffMax \in Nat
      /\ Span(NumNodes) \in Nat /\ Span(NumNodes - 1) \in Nat
      /\ TTL >= Interval + Span(NumNodes)
      /\ nextPull \in Nat /\ nextPull <= now + Interval
  BY DeadlineNumbers
<1> SUFFICES ASSUME NEW t \in Int,
                    t = now + Ahead + TTL + BackoffMax + Interval + Span(NumNodes - 1)
             PROVE  Awaited(n)'
  BY <1>1
<1>2. t = Deadline(n)'
  <2>1. Settles(n)' = now + Ahead + TTL + BackoffMax
    BY DEF Settles
  <2> QED
    BY <1>1, <2>1 DEF Deadline
<1>3. /\ now + Interval + Span(NumNodes) + Span(NumNodes - 1) <= t
      /\ now + Interval + Span(NumNodes) + Span(NumNodes - 1) \in Int
      /\ nextPull + Span(NumNodes - 1) <= t /\ now + Span(NumNodes - 1) <= t
  BY <1>1
<1>4. CASE RequestFails /\ Asked(n)
  <2>1. TurnBy(n, t)'
    BY <1>2, <1>3, <1>4, TurnPassed DEF Paced
  <2> QED
    BY <1>2, <2>1, AwaitedNext
<1>5. CASE PullerRests \/ RequestGoesOn
  <2>1. TurnBy(n, t)
    <3>1. TurnBy(n, now + Interval + Span(NumNodes) + Span(NumNodes - 1))
      BY AnyTurn DEF Paced
    <3> QED
      BY <1>2, <1>3, <3>1, TurnLater DEF Paced
  <2>2. TurnBy(n, t)'
    <3>1. /\ Left' = Left /\ Ends' = Ends /\ (InFlight' <=> InFlight) /\ (Asked(n)' <=> Asked(n))
          /\ nextPull' = nextPull /\ now' = now /\ (InFlight => request'.at = request.at)
      BY <1>5 DEF PullerRests, RequestGoesOn, Left, Ends, InFlight, Asked, Idle, NoRequest
    <3> QED
      BY <2>1, <3>1 DEF TurnBy, ComesTo
  <2> QED
    BY <1>2, <2>2, AwaitedNext
<1> QED
  BY <1>4, <1>5

\* Which steps disturb a node or give it to the readers.
LEMMA Disturbers ==
    ASSUME FInv, Paced, [NextF]_fvars, NEW n \in peers' \cap serving'
    PROVE  \/ /\ disturbed'[n] = now
              /\ PullerRests \/ RequestGoesOn \/ (RequestFails /\ Asked(n))
           \/ n \in peers /\ n \in serving /\ disturbed'[n] = disturbed[n]
<1>0. disturbed \in [Nodes -> Nat]
  BY DEF Paced, Disturbances
<1>1. ASSUME NEW m \in Nodes, StartNode(m) PROVE
         \/ disturbed'[n] = now /\ PullerRests
         \/ n \in peers /\ n \in serving /\ disturbed'[n] = disturbed[n]
  <2>1. /\ disturbed' = [disturbed EXCEPT ![m] = now] /\ serving' = serving \cup {m}
        /\ peers' = peers /\ PullerRests
    BY <1>1 DEF StartNode, store, puller, PullerRests
  <2> QED
    BY <1>0, <2>1
<1>2. ASSUME NEW m \in Nodes, ApplyPeer(m) PROVE
         \/ disturbed'[n] = now /\ PullerRests
         \/ n \in peers /\ n \in serving /\ disturbed'[n] = disturbed[n]
  <2>1. /\ disturbed' = [disturbed EXCEPT ![m] = IF m \in peers THEN @ ELSE now]
        /\ serving' = serving /\ peers' = peers \cup {m} /\ PullerRests
    BY <1>2 DEF ApplyPeer, remote, puller, PullerRests
  <2> QED
    BY <1>0, <2>1
<1>3. CASE AnswerFromCache \/ RequestFails
  <2>1. /\ disturbed' = [disturbed EXCEPT ![request.node] = now] /\ request.node \in Nodes
        /\ ~Idle /\ peers' = peers /\ serving' = serving
    BY <1>3 DEF AnswerFromCache, RequestFails, remote, store, Idle, NoRequest, Paced, Rounds
  <2>2. AnswerFromCache => RequestGoesOn
    BY DEF AnswerFromCache, RequestGoesOn, InFlight
  <2>3. CASE n = request.node
    BY <1>0, <1>3, <2>1, <2>2, <2>3 DEF Asked
  <2>4. CASE n # request.node
    BY <1>0, <2>1, <2>4
  <2> QED
    BY <2>3, <2>4
<1>4. CASE disturbed' = disturbed /\ peers' \subseteq peers /\ serving' \subseteq serving
  BY <1>4
<1>5. \/ AnswerFromCache \/ RequestFails \/ \E m \in Nodes : StartNode(m) \/ ApplyPeer(m)
      \/ disturbed' = disturbed /\ peers' \subseteq peers /\ serving' \subseteq serving
  BY DEF NextF, fvars, remote, store, bounds, Tick, PresenceChanges, StopNode, Publish,
         PublishOther, ReadRegistry, ApplyRevoke, StartRound, SkipPeer, SendRequest, ReadItems,
         StampSnapshot, Validate, RejectReply, StoreSnapshot
<1> QED
  BY <1>1, <1>2, <1>3, <1>4, <1>5

\* A snapshot of a peer stays until the next one is stored.
LEMMA SnapshotStays ==
    ASSUME [NextF]_fvars, Paced, NEW n \in peers', n \in DOMAIN snapshots,
           ~(StoreSnapshot /\ Asked(n))
    PROVE  n \in DOMAIN snapshots' /\ snapshots'[n] = snapshots[n]
<1>1. ASSUME NEW m \in Nodes, ApplyRevoke(m)
      PROVE  n \in DOMAIN snapshots' /\ snapshots'[n] = snapshots[n]
  BY <1>1 DEF ApplyRevoke, Without, Restrict
<1>2. CASE StoreSnapshot
  <2>1. request.node # n
    BY <1>2 DEF StoreSnapshot, Asked, Idle, NoRequest
  <2> QED
    BY <1>2, <2>1 DEF StoreSnapshot, Put
<1>3. snapshots' = snapshots \/ StoreSnapshot \/ \E m \in Nodes : ApplyRevoke(m)
  BY DEF NextF, fvars, store, Tick, PresenceChanges, StopNode, StartNode, Publish, PublishOther,
         ReadRegistry, ApplyPeer, StartRound, SkipPeer, SendRequest, ReadItems, StampSnapshot,
         AnswerFromCache, RequestFails, Validate, RejectReply
<1> QED
  BY <1>1, <1>2, <1>3

\* The turn of an undisturbed peer is passed: it is refused or skipped before it
\* settles, or its new snapshot is renewed in time.
LEMMA TurnUsed ==
    ASSUME PullsInTime, FInv, InTime, Paced, Backoffs, OfThisRun, LastReply,
           FInv', InTime', Paced', [NextF]_fvars, NEW n \in Nodes, disturbed'[n] = disturbed[n],
           \/ SkipPeer /\ n = Head(round)
           \/ (RejectReply \/ StoreSnapshot) /\ Asked(n)
    PROVE  Renewed(n)' \/ Awaited(n)'
<1>1. /\ now \in Nat /\ disturbed[n] \in Nat
      /\ Ahead \in Nat /\ TTL \in Nat /\ Interval \in Nat /\ RequestTimeout \in Nat
      /\ BackoffMax \in Nat
      /\ Span(NumNodes) \in Nat /\ Span(NumNodes - 1) \in Nat
      /\ Span(NumNodes) = Span(NumNodes - 1) + RequestTimeout
      /\ TTL >= Interval + Span(NumNodes) /\ TTL >= Span(NumNodes) + RequestTimeout
      /\ nextPull \in Nat /\ nextPull <= now + Interval
      /\ Settles(n) = disturbed[n] + Ahead + TTL + BackoffMax
      /\ Deadline(n) = Settles(n) + Interval + Span(NumNodes - 1) /\ Deadline(n) \in Int
  BY DeadlineNumbers
<1>2. Deadline(n)' = Deadline(n)
  BY DEF Deadline, Settles
<1>3. ASSUME now <= Settles(n), nextPull <= Settles(n) + Interval PROVE Awaited(n)'
  <2> SUFFICES ASSUME NEW t \in Int, t = Deadline(n) PROVE Awaited(n)'
    BY <1>1
  <2>1. nextPull + Span(NumNodes - 1) <= t /\ now + Span(NumNodes - 1) <= t
    BY <1>1, <1>3
  <2>2. t = Deadline(n)'
    BY <1>2
  <2>3. TurnBy(n, t)'
    BY <2>1, TurnPassed DEF Paced
  <2> QED
    BY <2>1, <2>2, <2>3, AwaitedNext
<1>4. CASE SkipPeer /\ n = Head(round)
  <2>1. n \in DOMAIN failures /\ ~(now >= failures[n].until)
    BY <1>4 DEF SkipPeer, Eligible
  <2>2. failures[n].until \in Int /\ failures[n].until <= Settles(n)
    BY <2>1 DEF Backoffs
  <2>3. now <= Settles(n)
    BY <1>1, <2>1, <2>2
  <2> QED
    BY <1>1, <1>3, <2>3
<1>5. CASE RejectReply /\ Asked(n)
  <2>1. now <= disturbed[n] + Ahead + TTL
    BY <1>5, RefusedEarly DEF Asked
  <2>2. now <= Settles(n)
    BY <1>1, <2>1
  <2> QED
    BY <1>1, <1>3, <2>2
<1>6. CASE StoreSnapshot /\ Asked(n)
  <2> DEFINE r == request.reply
  <2>1. /\ request.stage = "valid" /\ HasReply /\ request.node = n
        /\ n \in DOMAIN snapshots' /\ snapshots'[n] = r
    BY <1>6 DEF StoreSnapshot, StoredReply, Put, HasReply, Asked
  <2>2. r.at \in Nat
    BY <2>1, InHand DEF Given
  <2> HIDE DEF r
  <2>3. CASE Late(n, r)
    <3> SUFFICES ASSUME NEW t \in Int, t = r.at + TTL - RequestTimeout - Ahead
                 PROVE  Renewed(n)'
      BY <1>1, <2>2
    <3>1. now <= (r.at - Ahead) + RequestTimeout /\ nextPull <= (r.at - Ahead) + Interval
      BY <2>1, <2>3 DEF LastReply, AskedBy, r
    <3>2. nextPull + Span(NumNodes - 1) <= t /\ now + Span(NumNodes - 1) <= t
      BY <1>1, <2>2, <3>1
    <3>3. t = snapshots'[n].at + TTL - RequestTimeout - Ahead
      BY <2>1
    <3>4. TurnBy(n, t)'
      BY <1>6, <3>2, TurnPassed DEF Paced
    <3>5. Late(n, snapshots[n])'
      BY <2>1, <2>3 DEF Late
    <3> QED
      BY <2>1, <3>3, <3>4, <3>5 DEF Renewed, TurnBy, ComesTo
  <2>4. CASE ~Late(n, r)
    <3>1. now <= disturbed[n] + RequestTimeout /\ nextPull <= disturbed[n] + Interval
      BY <2>1, <2>4 DEF LastReply, AskedBy, r
    <3>2. now <= Settles(n) /\ nextPull <= Settles(n) + Interval
      BY <1>1, <3>1
    <3> QED
      BY <1>3, <3>2
  <2> QED
    BY <2>3, <2>4
<1> QED
  BY <1>4, <1>5, <1>6

\* Every peer that serves is renewed, or awaited.
LEMMA RecoveringStep ==
    ASSUME PullsInTime, FInv, InTime, RecoveryInv, FInv', InTime', Paced', [NextF]_fvars
    PROVE  Recovering'
<1> SUFFICES ASSUME NEW n \in peers' \cap serving' PROVE Renewed(n)' \/ Awaited(n)'
  BY DEF Recovering
<1> USE DEF RecoveryInv
<1>0. n \in Nodes
  BY DEF Paced, Rounds
<1>1. CASE disturbed'[n] = now /\ (PullerRests \/ RequestGoesOn \/ (RequestFails /\ Asked(n)))
  BY <1>0, <1>1, DisturbedAwaited
<1>2. CASE n \in peers /\ n \in serving /\ disturbed'[n] = disturbed[n]
  <2>1. Renewed(n) \/ Awaited(n)
    BY <1>2 DEF Recovering
  <2>2. CASE \/ SkipPeer /\ n = Head(round)
             \/ (RejectReply \/ StoreSnapshot) /\ Asked(n)
    BY <1>0, <1>2, <2>2, TurnUsed
  <2>3. CASE RequestFails /\ Asked(n)
    <3>1. disturbed'[n] = now
      BY <1>0, <2>3 DEF RequestFails, Asked, Paced, Disturbances
    <3> QED
      BY <1>1, <2>3, <3>1
  <2>4. CASE /\ ~(SkipPeer /\ n = Head(round))
             /\ ~((RequestFails \/ RejectReply \/ StoreSnapshot) /\ Asked(n))
    <3>1. CASE Awaited(n)
      <4> SUFFICES ASSUME NEW t \in Int, t = Deadline(n) PROVE Awaited(n)'
        BY <1>0, DeadlineNumbers
      <4>1. t = Deadline(n)' /\ TurnBy(n, t)
        BY <1>2, <3>1 DEF Awaited, Deadline, Settles
      <4>2. TurnBy(n, t)'
        BY <1>2, <2>4, <4>1, TurnStays DEF Paced
      <4> QED
        BY <1>0, <4>1, <4>2, AwaitedNext
    <3>2. CASE Renewed(n)
      <4>1. n \in DOMAIN snapshots /\ Late(n, snapshots[n])
        BY <3>2 DEF Renewed
      <4>2. n \in DOMAIN snapshots' /\ snapshots'[n] = snapshots[n]
        BY <2>4, <4>1, SnapshotStays
      <4>3. snapshots[n].at + TTL - RequestTimeout - Ahead \in Int
        <5>1. snapshots[n] \in Answers(n)
          BY <4>1 DEF Answers
        <5>2. snapshots[n].at \in Nat
          BY <1>0, <5>1 DEF FInv, AnswersGiven, Given
        <5> QED
          BY <5>2, Numbers
      <4> SUFFICES ASSUME NEW t \in Int, t = snapshots[n].at + TTL - RequestTimeout - Ahead
                   PROVE  Renewed(n)'
        BY <4>3
      <4>4. TurnBy(n, t)
        BY <3>2 DEF Renewed
      <4>5. TurnBy(n, t)'
        BY <1>2, <2>4, <4>4, TurnStays DEF Paced
      <4>6. Late(n, snapshots[n])'
        BY <1>2, <4>1, <4>2 DEF Late
      <4> QED
        BY <4>2, <4>5, <4>6 DEF Renewed, TurnBy, ComesTo
    <3> QED
      BY <2>1, <3>1, <3>2
  <2> QED
    BY <2>2, <2>3, <2>4
<1> QED
  BY <1>1, <1>2, Disturbers

\* A peer that serves undisturbed is in the view again when a TTL, the largest
\* backoff, an interval and a timeout of each node have passed, if a snapshot
\* outlives a round of the puller (validateSnapshot, recordFailure, PullOnce).
THEOREM PeersComeBack == PullsInTime => (SpecF => []PeerRecovers)
<1> SUFFICES ASSUME PullsInTime PROVE SpecF => []PeerRecovers
  OBVIOUS
<1>1. InitF => RecoveryInv
  <2>1. InitF => \A n \in Nodes : Answers(n) = {}
    BY DEF InitF, Answers, HasReply, Empty, NoRequest
  <2>2. InitF => Backoffs /\ OfThisRun /\ LastReply /\ Recovering
    BY <2>1 DEF InitF, Backoffs, OfThisRun, LastReply, HasReply, Recovering, Empty, NoRequest
  <2> QED
    BY <2>2, InitPaced DEF RecoveryInv
<1>2. FInv /\ RecentInv /\ RecoveryInv /\ [NextF]_fvars /\ FInv' /\ RecentInv' => RecoveryInv'
  <2> SUFFICES ASSUME FInv, RecentInv, RecoveryInv, [NextF]_fvars, FInv', RecentInv'
               PROVE  RecoveryInv'
    OBVIOUS
  <2>1. InTime /\ InTime'
    BY DEF RecentInv
  <2>2. Paced'
    BY RoundsStep, DisturbancesStep DEF RecoveryInv, Paced
  <2>3. Backoffs' /\ OfThisRun' /\ LastReply'
    BY <2>1, BackoffsStep, OfThisRunStep, LastReplyStep DEF RecoveryInv
  <2>4. Recovering'
    BY <2>1, <2>2, RecoveringStep
  <2> QED
    BY <2>2, <2>3, <2>4 DEF RecoveryInv
<1>3. FInv /\ RecentInv /\ RecoveryInv => PeerRecovers
  <2> SUFFICES ASSUME FInv, RecentInv, RecoveryInv, NEW n \in peers, n \in serving,
                      now > disturbed[n] + RecoveryBound
               PROVE  Shown(n)
    BY DEF PeerRecovers
  <2>1. n \in Nodes /\ Paced /\ Rounds /\ InTime
    BY DEF RecoveryInv, Paced, Rounds, RecentInv
  <2>2. /\ now \in Nat /\ disturbed[n] \in Nat
        /\ Ahead \in Nat /\ TTL \in Nat /\ Interval \in Nat /\ RequestTimeout \in Nat
      /\ BackoffMax \in Nat
        /\ Span(NumNodes) \in Nat /\ Span(NumNodes - 1) \in Nat
        /\ Span(NumNodes) = Span(NumNodes - 1) + RequestTimeout
        /\ Settles(n) = disturbed[n] + Ahead + TTL + BackoffMax
        /\ Deadline(n) = Settles(n) + Interval + Span(NumNodes - 1) /\ Deadline(n) \in Int
    BY <2>1, DeadlineNumbers
  <2>3. now > disturbed[n] + (Ahead + TTL + BackoffMax + Interval + 1 + Span(NumNodes))
    BY DEF RecoveryBound, Span, NumNodes
  <2>4. ~Awaited(n)
    <3>1. ~(now <= Deadline(n) + RequestTimeout)
      BY <2>2, <2>3
    <3>2. ~TurnBy(n, Deadline(n))
      BY <2>1, <2>2, <3>1, TurnNotOver
    <3> QED
      BY <3>2 DEF Awaited, Deadline
  <2>5. Renewed(n)
    BY <2>4 DEF RecoveryInv, Recovering
  <2>6. n \in DOMAIN snapshots /\ snapshots[n] \in Answers(n)
    BY <2>5 DEF Renewed, Answers
  <2>7. snapshots[n].at \in Nat
    BY <2>1, <2>6 DEF FInv, AnswersGiven, Given
  <2> DEFINE t == snapshots[n].at + TTL - RequestTimeout - Ahead
  <2>8. t \in Int /\ TurnBy(n, t)
    BY <2>2, <2>5, <2>7 DEF Renewed
  <2>9. now <= t + RequestTimeout
    <3> HIDE DEF t
    <3> QED
      BY <2>1, <2>8, TurnNotOver
  <2>10. ~Expired(snapshots[n])
    BY <2>2, <2>7, <2>9 DEF Expired
  <2> QED
    BY <2>6, <2>10 DEF Shown
<1>4. FInv /\ RecentInv /\ [NextF]_fvars => FInv' /\ RecentInv'
  BY StepFInv, InTimeStep, ReadRecentStep, AnswersRecentStep DEF RecentInv
<1> QED
  BY <1>1, <1>2, <1>3, <1>4, InitFInv, InitRecent, PTL DEF SpecF

=============================================================================
