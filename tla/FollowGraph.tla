----------------------------- MODULE FollowGraph -----------------------------
(***************************************************************************)
(* The follow graph (internal/aggregator/social): creates and revokes of   *)
(* /follow pins folded into one active edge per follower and target.  Only *)
(* confirmed pins count.  The handlers take no lock; the scanner of one    *)
(* chain calls them one after the other.  The stored data, db:             *)
(*   pair       edge:pair       <<follower, target>> -> edge               *)
(*   following  edge:following  {<<follower, target, time, pin>>}          *)
(*   followers  edge:followers  {<<target, follower, time, pin>>}          *)
(*   pin        edge:pin        pin -> <<follower, target>>                *)
(* A user is followed under the global id.  The pin may spell it (truth)   *)
(* or name another identity, which leads to it once a profile is known.    *)
(***************************************************************************)
EXTENDS Records

InitDb == [pair |-> <<>>, following |-> {}, followers |-> {}, pin |-> <<>>]

Nobody == 0

-----------------------------------------------------------------------------
(* Edges *)

LoadActiveEdge(db, from, to) == Entry(db.pair, <<from, to>>)

LoadActiveEdgeByPin(db, id) ==
    IF id \in DOMAIN db.pin THEN LoadActiveEdge(db, db.pin[id][1], db.pin[id][2]) ELSE None

FollowingKey(e) == <<e.from, e.to, e.at, e.pin>>

FollowerKey(e) == <<e.to, e.from, e.at, e.pin>>

DeleteActiveEdge(db, e) ==
    [pair |-> Without(db.pair, {<<e.from, e.to>>}), following |-> db.following \ {FollowingKey(e)},
     followers |-> db.followers \ {FollowerKey(e)}, pin |-> Without(db.pin, {e.pin})]

\* saveActiveEdge: the active edge of the pair, if there is one, goes first.
SaveActiveEdge(db, e) ==
    LET previous == LoadActiveEdge(db, e.from, e.to)
        d == IF previous = None THEN db ELSE DeleteActiveEdge(db, previous)
    IN  [pair |-> With(d.pair, <<e.from, e.to>>, e),
         following |-> d.following \cup {FollowingKey(e)},
         followers |-> d.followers \cup {FollowerKey(e)},
         pin |-> With(d.pin, e.pin, <<e.from, e.to>>)]

-----------------------------------------------------------------------------
(* Pins *)

\* resolveFollowerGlobalMetaId.
Follower(known, p) == IF p.gid \/ p.by \in known THEN p.by ELSE Nobody

\* lookupTargetRef, then canonicalGlobalMetaIdRef.
Target(known, p) == IF p.to \in known \/ p.truth THEN p.to ELSE Nobody

ProcessCreate(db, known, p) ==
    LET e == [kind |-> "edge", from |-> Follower(known, p), to |-> Target(known, p),
              pin |-> p.id, at |-> p.at]
    IN  IF Nobody \in {e.from, e.to} THEN db ELSE SaveActiveEdge(db, e)

\* processRevoke: by the pin of an active edge, whoever revokes it.
ProcessRevoke(db, p) ==
    LET e == LoadActiveEdgeByPin(db, p.ref)
    IN  IF e = None THEN db ELSE DeleteActiveEdge(db, e)

\* HandleBlockPin; HandleMempoolPin does nothing.
ProcessPin(db, known, p) ==
    CASE p.mem \/ p.kind # "follow" -> db
      [] ~p.mem /\ p.kind = "follow" /\ p.op = "create" -> ProcessCreate(db, known, p)
      [] ~p.mem /\ p.kind = "follow" /\ p.op = "revoke" -> ProcessRevoke(db, p)
      [] OTHER -> db

\* Backfill: the pins of the listing since a time, from the oldest.
Selected(pins, since) == {p \in pins : p.kind = "follow" /\ p.ts >= since}

-----------------------------------------------------------------------------
(* What the endpoints serve *)

\* listEdges for ListFollowing or ListFollowers: the page after the key of
\* the cursor, which must still be in the index.
ListEdges(db, keys, forward, after, size) ==
    LET Edge(k) == IF forward THEN LoadActiveEdge(db, k[1], k[2])
                   ELSE LoadActiveEdge(db, k[2], k[1])
        rest == {k \in keys : (after = <<>> \/ Newer(after, k)) /\ Edge(k) # None}
        page == Page(Sorted(rest, Newer), 0, size)
    IN  [ok |-> after = <<>> \/ after \in keys,
         items |-> [i \in DOMAIN page.items |->
                      [peer |-> page.items[i][2], edge |-> Edge(page.items[i])]],
         more |-> page.more,
         next |-> IF page.more THEN Last(page.items) ELSE <<>>]

ListFollowing(db, user, after, size) ==
    ListEdges(db, {k \in db.following : k[1] = user}, TRUE, after, size)

ListFollowers(db, user, after, size) ==
    ListEdges(db, {k \in db.followers : k[1] = user}, FALSE, after, size)

Relationship(db, user, other) ==
    LET mine == LoadActiveEdge(db, user, other)
        theirs == LoadActiveEdge(db, other, user)
    IN  [follows |-> mine # None, followed |-> theirs # None,
         mutual |-> mine # None /\ theirs # None]

\* socialFollowAdapter.ListFollowing follows the cursors to the end.
Followed(db, user, size) ==
    LET More(s) ==
            LET page == ListFollowing(db, user, s.after, size)
            IN  [ids |-> s.ids \o [i \in DOMAIN page.items |-> page.items[i].peer],
                 after |-> page.next, more |-> page.more]
    IN  FoldLeft(LAMBDA s, i : IF s.more THEN More(s) ELSE s,
                 [ids |-> <<>>, after |-> <<>>, more |-> TRUE],
                 [i \in 1..(Cardinality(db.following) + 1) |-> i]).ids

-----------------------------------------------------------------------------
(* What the stored data owe their readers *)

Users(db) == UNION {{k[1], k[2]} : k \in DOMAIN db.pair}

\* Whoever follows a user is in the list of the followers of that user, once,
\* and the other way round, as the relationship of the two says; and the
\* revoke of its pin would find every edge.
ServedOnce(db) ==
    /\ \A user \in Users(db), size \in 1..2 :
          Lists(Followed(db, user, size), {o \in Users(db) : Relationship(db, user, o).follows})
    /\ \A user \in Users(db) :
          LET page == ListFollowers(db, user, <<>>, Cardinality(db.followers) + 1)
          IN  Lists([i \in DOMAIN page.items |-> page.items[i].peer],
                    {o \in Users(db) : Relationship(db, user, o).followed})
    /\ \A k \in DOMAIN db.pair : LoadActiveEdgeByPin(db, db.pair[k].pin) = db.pair[k]
    /\ DOMAIN db.pin = {e.pin : e \in Range(db.pair)}

=============================================================================
