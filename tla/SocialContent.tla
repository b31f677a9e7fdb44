--------------------------- MODULE SocialContent ---------------------------
(***************************************************************************)
(* The social content aggregator (internal/aggregator/socialcontent): what *)
(* one pin does to the posts, likes and comments it stores, and what its   *)
(* feeds, its comment lists and its half of the inbox serve.  One mutex    *)
(* covers HandleBlockPin, HandleMempoolPin and HandleBlockPinReplay, so a  *)
(* handler is one step.  The stored data, db, has a component per family:  *)
(*   post     post:record  the posts by source pin                         *)
(*   source   post:pin and post:pinchain  <<chain, pin>> -> source pin     *)
(*   time     post:time    {<<chain, created, post>>}                      *)
(*   author   post:author  {<<chain, author, created, post>>}              *)
(*   event    like:event   <<chain, pin>> -> like                          *)
(*   state    like:state   <<chain, target, actor>> -> like                *)
(*   comment  comment:rec  <<chain, pin>> -> comment                       *)
(*   thread   comment:tgt  {<<chain, target, time, comment>>}              *)
(*   quotes   quote:tgt    {<<chain, target, time, quoting pin>>}          *)
(*   cown     cownb:       {<<owner, time, chain, comment>>}               *)
(*   lown     lownb:       <<owner, time, chain, target, actor>> -> like   *)
(*   parked   mempool:event, the pins seen before their block              *)
(* An identity has one form (an author has up to three), and the text of a *)
(* post is the pin that wrote it.                                          *)
(***************************************************************************)
EXTENDS Records

InitDb ==
    [post |-> <<>>, source |-> <<>>, time |-> {}, author |-> {}, event |-> <<>>,
     state |-> <<>>, comment |-> <<>>, thread |-> {}, quotes |-> {}, cown |-> {},
     lown |-> <<>>, parked |-> {}]

-----------------------------------------------------------------------------
(* Posts and what names them *)

LoadPost(db, chain, id) ==
    LET r == Entry(db.post, id)
    IN  IF r.kind = "post" /\ r.chain = chain THEN r ELSE None

\* sourcePinID: the post that a pin of any version belongs to.
SourcePinID(db, chain, id) ==
    IF <<chain, id>> \in DOMAIN db.source THEN db.source[chain, id] ELSE NoPin

\* FindPost on a given chain.
FindPost(db, chain, id) ==
    LET source == SourcePinID(db, chain, id)
    IN  LoadPost(db, chain, IF source = NoPin THEN id ELSE source)

\* Mutant: an interaction is kept under the version it names.
CanonicalTarget_AsNamed(db, chain, id) == id

\* canonicalTarget: the post's source pin, or the name as given while the
\* post is unknown.
CanonicalTarget(db, chain, id) ==
    LET r == FindPost(db, chain, id) IN IF r = None THEN id ELSE r.id

\* removePostIndexes and writePostIndexes.
PostKey(r) == <<r.chain, r.created, r.id>>

AuthorKey(r) == <<r.chain, r.by, r.created, r.id>>

RemoveIndexes(db, r) ==
    IF r = None THEN db
    ELSE [db EXCEPT !.time = @ \ {PostKey(r)}, !.author = @ \ {AuthorKey(r)}]

WriteIndexes(db, r) ==
    IF r.hidden THEN db
    ELSE [db EXCEPT !.time = @ \cup {PostKey(r)}, !.author = @ \cup {AuthorKey(r)}]

SavePost(db, r) == [db EXCEPT !.post = With(@, r.id, r)]

-----------------------------------------------------------------------------
(* Counters *)

ActiveLikes(db, chain, target) ==
    {k \in DOMAIN db.state : k[1] = chain /\ k[2] = target /\ db.state[k].on}

ThreadOf(db, chain, target) == {k \in db.thread : k[1] = chain /\ k[2] = target}

\* recomputeCounters.
Recount(db, chain, target) ==
    LET r == LoadPost(db, chain, CanonicalTarget(db, chain, target))
    IN  IF r = None THEN db
        ELSE SavePost(db, [r EXCEPT !.likes = Cardinality(ActiveLikes(db, chain, r.id)),
                                    !.comments = Cardinality(ThreadOf(db, chain, r.id))])

\* recomputeQuoteCount.
RecountQuotes(db, chain, target) ==
    LET r == LoadPost(db, chain, target)
    IN  IF r = None THEN db
        ELSE SavePost(db, [r EXCEPT !.quotes =
                Cardinality({k \in db.quotes : k[1] = chain /\ k[2] = target})])

-----------------------------------------------------------------------------
(* The owner indexes of the inbox *)

\* maintainCommentOwnerIndex.
OwnComment(db, c) ==
    LET r == LoadPost(db, c.chain, c.to)
    IN  IF r = None THEN db
        ELSE [db EXCEPT !.cown = @ \cup {<<r.by, c.at, c.chain, c.id>>}]

\* maintainLikeOwnerIndex: the superseded state, prev, gives up its key.
OwnLike(db, e, prev) ==
    LET r == LoadPost(db, e.chain, e.to)
        Key(at) == <<r.by, at, e.chain, e.to, e.by>>
        old == IF prev # None /\ prev.at # e.at THEN {Key(prev.at)} ELSE {}
    IN  CASE r = None -> db
          [] r # None /\ e.on -> [db EXCEPT !.lown = With(Without(@, old), Key(e.at), e)]
          [] OTHER -> [db EXCEPT !.lown = Without(@, old \cup {Key(e.at)})]

-----------------------------------------------------------------------------
(* Interactions that came before their post, and every version of it *)

\* reconcilePendingInteractions meets the events in the order of their keys,
\* that is of their pins.
Aimed(r, to) == to \in {r.id, r.cur}

ReconcileLike(db, r, k) ==
    LET e == [db.event[k] EXCEPT !.to = r.id]
        old == IF db.event[k].to # r.id THEN {<<r.chain, db.event[k].to, e.by>>} ELSE {}
    IN  OwnLike([db EXCEPT !.event[k] = e,
                           !.state = With(Without(@, old), <<r.chain, r.id, e.by>>, e)],
                e, None)

ReconcileComment(db, r, k) ==
    LET c == [db.comment[k] EXCEPT !.to = r.id]
    IN  OwnComment(
          [db EXCEPT !.comment[k] = c,
                     !.thread = (@ \ {<<r.chain, db.comment[k].to, c.at, c.id>>})
                                \cup {<<r.chain, r.id, c.at, c.id>>}], c)

InKeyOrder(keys) == Sorted(keys, LAMBDA j, k : j[2] < k[2])

Reconcile(db, r) ==
    LET likes == {k \in DOMAIN db.event : k[1] = r.chain /\ Aimed(r, db.event[k].to)}
        comments == {k \in DOMAIN db.comment : k[1] = r.chain /\ Aimed(r, db.comment[k].to)}
        d == FoldLeft(LAMBDA x, k : ReconcileLike(x, r, k), db, InKeyOrder(likes))
        e == FoldLeft(LAMBDA x, k : ReconcileComment(x, r, k), d, InKeyOrder(comments))
    IN  IF r.hidden THEN db ELSE Recount(e, r.chain, r.id)

-----------------------------------------------------------------------------
(* Posts *)

\* postRecordFromPin, and the revoke in its place.
PostRecord(p, id, prev) ==
    CASE p.op = "revoke" -> [prev EXCEPT !.cur = p.id, !.updated = p.at, !.hidden = TRUE]
      [] p.op # "revoke" /\ prev # None ->
            [prev EXCEPT !.cur = p.id, !.updated = p.at, !.hidden = FALSE,
                         !.text = IF p.body THEN p.id ELSE @]
      [] OTHER -> [kind |-> "post", id |-> id, chain |-> p.chain, cur |-> p.id, by |-> p.by,
                   created |-> p.at, updated |-> p.at, text |-> p.id, hidden |-> FALSE,
                   likes |-> 0, comments |-> 0, quotes |-> 0]

\* processQuoteIfAny: a quote of a post that is not known is dropped.
Quote(db, p) ==
    LET target == CanonicalTarget(db, p.chain, p.quote)
    IN  IF p.quote = NoPin \/ target = p.id \/ LoadPost(db, p.chain, target) = None THEN db
        ELSE RecountQuotes([db EXCEPT !.quotes = @ \cup {<<p.chain, target, p.at, p.id>>}],
                           p.chain, target)

\* processPost.  The backfill replays posts before anything else and skips
\* the reconciliation.
ProcessPost(db, p, reconcile) ==
    LET id == IF p.op = "create" THEN p.id ELSE SourcePinID(db, p.chain, p.ref)
        prev == LoadPost(db, p.chain, id)
        r == PostRecord(p, id, prev)
        d == Quote([WriteIndexes(SavePost(RemoveIndexes(db, prev), r), r) EXCEPT
                      !.source = With(@, <<p.chain, p.id>>, id)], p)
    IN  CASE p.op # "create" /\ prev = None -> db
          [] reconcile -> Reconcile(d, r)
          [] OTHER -> d

-----------------------------------------------------------------------------
(* Likes and comments *)

\* parseLike: a like is a truth value, not a number.
LegalLike(p) == p.to # NoPin /\ p.truth

ProcessLike(db, p) ==
    LET e == [kind |-> "like", id |-> p.id, chain |-> p.chain, by |-> p.by, on |-> p.val = 1,
              at |-> p.at, to |-> CanonicalTarget(db, p.chain, p.to)]
        key == <<p.chain, e.to, p.by>>
    IN  IF ~LegalLike(p) THEN db
        ELSE Recount(
               OwnLike([db EXCEPT !.event = With(@, <<p.chain, p.id>>, e),
                                  !.state = With(@, key, e)], e, Entry(db.state, key)),
               p.chain, e.to)

ProcessComment(db, p) ==
    LET c == [kind |-> "comment", id |-> p.id, chain |-> p.chain, by |-> p.by, at |-> p.at,
              to |-> CanonicalTarget(db, p.chain, p.to)]
    IN  IF p.to = NoPin THEN db
        ELSE Recount(
               OwnComment([db EXCEPT !.comment = With(@, <<p.chain, p.id>>, c),
                                     !.thread = @ \cup {<<p.chain, c.to, c.at, c.id>>}], c),
               p.chain, c.to)

\* processPin for a confirmed pin, under HandleBlockPin or, without the
\* reconciliation, HandleBlockPinReplay.
ProcessConfirmed(db, p, reconcile) ==
    LET d == [db EXCEPT !.parked = @ \ {p.id}]
    IN  CASE p.kind = "post" -> ProcessPost(d, p, reconcile)
          [] p.kind = "like" -> ProcessLike(d, p)
          [] p.kind = "c" -> ProcessComment(d, p)
          [] OTHER -> d

\* A mempool pin is parked until its block comes.
ProcessPin(db, p) ==
    IF p.mem THEN [db EXCEPT !.parked = @ \cup {p.id}] ELSE ProcessConfirmed(db, p, TRUE)

-----------------------------------------------------------------------------
(* The backfill *)

\* replayPinLess within backfillPathRank.
PathRank(p) == CASE p.kind = "post" -> 0 [] p.kind = "like" -> 1 [] OTHER -> 2

ReplayBefore(p, q) ==
    \/ PathRank(p) < PathRank(q)
    \/ PathRank(p) = PathRank(q) /\ (p.ts < q.ts \/ (p.ts = q.ts /\ p.id < q.id))

\* Which pins of the listing it replays.  The first scan names the pins since
\* the window began and what they refer to; the second one meets the posts
\* page by page and follows the references of what it selects.
References(pins) == UNION {{p.id, p.ref, p.to} : p \in pins} \ {NoPin}

SelectFrom(s, page) ==
    LET Named(names) == {p \in page : p.kind = "post" /\ {p.id, p.ref} \cap names # {}}
        names == FoldLeft(LAMBDA n, i : n \cup ({p.ref : p \in Named(n)} \ {NoPin}),
                          s.names, [i \in 1..Cardinality(page) |-> i])
    IN  [names |-> names, posts |-> s.posts \cup Named(names)]

Selected(pages, since) ==
    LET window == {p \in UNION Range(pages) : p.ts >= since}
        posts == FoldLeft(SelectFrom, [names |-> References(window), posts |-> {}], pages).posts
    IN  posts \cup {p \in window : p.kind \in {"like", "c"} /\ p.to \in {q.id : q \in posts}}

\* sortAndReplay: chunks of bounded size sorted one by one, then merged.
Chunks(list, size) ==
    [n \in 1..((Len(list) + size - 1) \div size) |->
        SortSeq(Page(list, (n - 1) * size, size).items, ReplayBefore)]

Heads(chunks) == {n \in DOMAIN chunks : chunks[n] # <<>>}

MergeStep(s) ==
    IF Heads(s.rest) = {} THEN s
    ELSE LET n == CHOOSE n \in Heads(s.rest) : \A m \in Heads(s.rest) \ {n} :
                    ReplayBefore(Head(s.rest[n]), Head(s.rest[m]))
         IN  [out |-> Append(s.out, Head(s.rest[n])), rest |-> [s.rest EXCEPT ![n] = Tail(@)]]

SortAndReplay(list, size) ==
    FoldLeft(LAMBDA s, p : MergeStep(s), [out |-> <<>>, rest |-> Chunks(list, size)], list).out

-----------------------------------------------------------------------------
(* What the endpoints serve *)

\* listNewest over the posts of some authors (or all): on the time index or,
\* for one author, on the author index.  A page comes after the key the last
\* one ended with, none for the first.
FeedKeys(db, authors, after) ==
    LET keys == IF Cardinality(authors) = 1 THEN {k \in db.author : k[2] \in authors} ELSE db.time
        Wanted(r) == ~r.hidden /\ (authors # {} => r.by \in authors)
    IN  {k \in keys : (after = <<>> \/ Newer(after, k)) /\ Wanted(db.post[Last(k)])}

ListNewest(db, authors, after, size) ==
    LET keys == Sorted(FeedKeys(db, authors, after), Newer)
        page == Page(keys, 0, size)
    IN  [items |-> [i \in DOMAIN page.items |-> Last(page.items[i])], more |-> page.more,
         next |-> IF page.more THEN Last(page.items) ELSE <<>>]

Engagement(r) == r.likes + r.comments

\* hotWorse.
Hotter(r, s) ==
    \/ Engagement(r) > Engagement(s)
    \/ Engagement(r) = Engagement(s) /\ Newer(<<r.created, r.id>>, <<s.created, s.id>>)

\* push of the heap with room for limit posts.
HotPush(top, r, limit) ==
    LET worst == CHOOSE w \in top : \A s \in top \ {w} : Hotter(s, w)
    IN  IF Cardinality(top) < limit THEN top \cup {r}
        ELSE IF Hotter(worst, r) THEN top ELSE (top \ {worst}) \cup {r}

\* listHot over the posts created since the window began.
ListHot(db, since, limit) ==
    LET seen == SelectSeq(Scan(FeedKeys(db, {}, <<>>)), LAMBDA i : db.post[i].created >= since)
        top == FoldLeft(LAMBDA t, i : HotPush(t, db.post[i], limit), {}, seen)
        ranked == Sorted(top, Hotter)
    IN  [i \in DOMAIN ranked |-> ranked[i].id]

\* ListComments of a post on its chain.
ListComments(db, chain, id) ==
    Scan(ThreadOf(db, chain, CanonicalTarget(db, chain, id)))

\* InboxHits: what commentHitFromKey and likeHitFromEntry make of the keys.
InboxHits(db, owner, since) ==
    LET Live(chain, id) == LoadPost(db, chain, id) # None /\ ~db.post[id].hidden
        comments == {k \in db.cown : /\ k[1] = owner /\ k[2] >= since
                                     /\ <<k[3], k[4]>> \in DOMAIN db.comment
                                     /\ Live(k[3], db.comment[k[3], k[4]].to)}
        likes == {k \in DOMAIN db.lown : /\ k[1] = owner /\ k[2] >= since
                                         /\ db.lown[k].on /\ Live(k[3], k[4])}
    IN  {[type |-> "paycomment", pin |-> k[4], at |-> k[2], key |-> k,
          target |-> db.comment[k[3], k[4]].to, actor |-> db.comment[k[3], k[4]].by] :
            k \in comments}
        \cup {[type |-> "paylike", pin |-> db.lown[k].id, at |-> db.lown[k].at, key |-> k,
               target |-> k[4], actor |-> k[5]] : k \in likes}

-----------------------------------------------------------------------------
(* What the stored data owe their readers *)

Shown(db) == {i \in DOMAIN db.post : ~db.post[i].hidden}

\* What a reader collects who follows the cursors of a feed to its end.
Collected(db, authors, size) ==
    LET Follow(s) ==
            LET page == ListNewest(db, authors, s.after, size)
            IN  [items |-> s.items \o page.items, after |-> page.next, more |-> page.more]
    IN  FoldLeft(LAMBDA s, i : IF s.more THEN Follow(s) ELSE s,
                 [items |-> <<>>, after |-> <<>>, more |-> TRUE],
                 [i \in 1..(Cardinality(DOMAIN db.post) + 1) |-> i]).items

\* The interactions with any version of a post, whenever they came.
LikesOn(db, r) == {e \in Range(db.event) : FindPost(db, e.chain, e.to) = r}

CommentsOn(db, r) == {c \in Range(db.comment) : FindPost(db, c.chain, c.to) = r}

\* The likes that stand: the last one of each actor, if it is a like.
Standing(db, r) ==
    {e \in LikesOn(db, r) :
        e.on /\ \A f \in LikesOn(db, r) : f.by = e.by => f.at <= e.at}

\* What readers can come to see: the posts, what names them, and their likes
\* and comments.
Readable(db) ==
    LET OfPost(keys) == {k \in keys : k[2] \in DOMAIN db.post}
    IN  [db EXCEPT !.event = <<>>, !.comment = <<>>, !.parked = {}, !.thread = OfPost(@),
                   !.state = Restrict(@, OfPost(DOMAIN @))]

\* Followed page by page, the feed and the feed of an author show every post
\* that is not revoked once; the hot list is the head of the whole ranking;
\* a post lists every comment made on any of its versions once, and so does
\* the inbox of its author.
ServedOnce(db) ==
    LET Recent(t) == {i \in Shown(db) : db.post[i].created >= t}
        ByHeat(t) == Sorted({db.post[i] : i \in Recent(t)}, Hotter)
        CommentHits(i) == {h \in InboxHits(db, db.post[i].by, 0) :
                              h.type = "paycomment" /\ h.target = i}
    IN  /\ \A size \in 1..2 :
              /\ Lists(Collected(db, {}, size), Shown(db))
              /\ \A by \in {db.post[i].by : i \in DOMAIN db.post} :
                    Lists(Collected(db, {by}, size), {i \in Shown(db) : db.post[i].by = by})
        /\ \A since \in {db.post[i].created : i \in DOMAIN db.post}, limit \in 1..2 :
              LET ranked == ByHeat(since)
              IN  ListHot(db, since, limit) =
                    [n \in 1..Min({limit, Len(ranked)}) |-> ranked[n].id]
        /\ \A i \in Shown(db) :
              LET comments == {c.id : c \in CommentsOn(db, db.post[i])}
              IN  /\ Lists(ListComments(db, db.post[i].chain, i), comments)
                  /\ {h.pin : h \in CommentHits(i)} = comments
                  /\ Cardinality(CommentHits(i)) = Cardinality(comments)

\* The counters of a post shown to readers count the likes that stand and the
\* comments made on it, whichever came first and whichever version they name.
CountsAgree(db) ==
    \A i \in Shown(db) :
        LET r == db.post[i]
        IN  /\ r.likes = Cardinality(Standing(db, r))
            /\ r.comments = Cardinality(CommentsOn(db, r))

=============================================================================
