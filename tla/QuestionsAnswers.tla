-------------------------- MODULE QuestionsAnswers --------------------------
(***************************************************************************)
(* The questions-and-answers aggregator (internal/aggregator/qa): what one *)
(* pin does to its records and indexes, and what its endpoints serve from  *)
(* them.  HandleBlockPin and HandleMempoolPin run under one mutex, so a    *)
(* handler is one step; it is written as a function from the stored data   *)
(* and a pin to the stored data.  The stored data, db, has one component   *)
(* per key family of the store:                                            *)
(*   rec      q:, a: and cr:, the records by source pin                    *)
(*   pin      pin:, from a pin of any version to its source pin            *)
(*   answers  qa:      {<<question, created, answer>>}                     *)
(*   pending  pending: {<<answerTo, answer>>}                              *)
(*   likes    likest:  <<target, actor>> -> the last like state            *)
(*   comments ct:      {<<target, created, comment>>}                      *)
(*   qtime    qtime:   {<<created, question>>}                             *)
(*   atime    atime:   {<<created, answer>>}                               *)
(*   qown     qown:    {<<owner, created, answer>>}                        *)
(*   cown     cownq:   {<<owner, created, comment>>}                       *)
(*   lown     lownq:   <<owner, created, target, actor>> -> like state     *)
(*   docs     the search snapshot in memory, by question                   *)
(* A pin id is a number: ids are only compared for equality and, to break  *)
(* ties, for order.  An identity has one form (OwnerIdentities has up to   *)
(* three), and the text of a record is the pin that wrote it.              *)
(***************************************************************************)
EXTENDS Records

InitDb ==
    [rec |-> <<>>, pin |-> <<>>, answers |-> {}, pending |-> {}, likes |-> <<>>,
     comments |-> {}, qtime |-> {}, atime |-> {}, qown |-> {}, cown |-> {},
     lown |-> <<>>, docs |-> <<>>]

-----------------------------------------------------------------------------
(* Records *)

\* loadQuestion, loadAnswer and loadComment: a record is found under the
\* chain it was stored with and under no other.
Load(db, kind, chain, id) ==
    LET r == Entry(db.rec, id)
    IN  IF r.kind = kind /\ r.chain = chain THEN r ELSE None

Save(db, r) == [db EXCEPT !.rec = (r.id :> r) @@ @]

MapPin(db, id, r) == [db EXCEPT !.pin = (id :> r.id) @@ @]

\* lookupLocator: the record a pin of any version belongs to.
Locate(db, id) ==
    IF id \in DOMAIN db.pin THEN db.rec[db.pin[id]] ELSE None

IsQATarget(r) == r.kind \in {"q", "a"}

EndsWithQuestionMark(title) == title = "question?"

\* What parseQuestion, parseAnswer, parseLike and parseComment, and the
\* conditions right after them, ask of a payload; a pin without a body only
\* changes what stands.
LegalQuestion(p) == p.op = "create" => EndsWithQuestionMark(p.title)

LegalAnswer(p) == IF p.body THEN p.to # NoPin ELSE p.op # "create"

LegalLike(p) == p.to # NoPin /\ p.val \in {-1, 0, 1}

LegalComment(p) == p.op = "create" => p.to # NoPin

\* questionVisible: derived from the record, never stored.
QuestionVisible(r) ==
    r.kind = "q" /\ ~r.hidden /\ EndsWithQuestionMark(r.title)

\* answerGloballyVisible.
AnswerVisible(db, r) ==
    /\ ~r.hidden /\ r.question # NoPin
    /\ QuestionVisible(Load(db, "q", r.qchain, r.question))

Score(r) == r.likes - r.dislikes

-----------------------------------------------------------------------------
(* Counts *)

StatesOf(db, id, value) ==
    {k \in DOMAIN db.likes : k[1] = id /\ db.likes[k].val = value}

CommentsOn(db, id) == {k \in db.comments : k[1] = id}

\* The first half of refreshEngagement, and refreshQuestionEngagementOnly.
WithEngagement(db, r) ==
    [r EXCEPT !.likes = Cardinality(StatesOf(db, r.id, 1)),
              !.dislikes = Cardinality(StatesOf(db, r.id, -1)),
              !.comments = Cardinality(CommentsOn(db, r.id))]

\* The non-hidden answers in a question's index, read on the question's chain.
IndexedAnswers(db, q) ==
    {r \in {Load(db, "a", q.chain, k[3]) : k \in {i \in db.answers : i[1] = q.id}} :
        r # None /\ ~r.hidden}

Better(r, s) ==
    \/ Score(r) > Score(s)
    \/ Score(r) = Score(s) /\ r.created > s.created
    \/ Score(r) = Score(s) /\ r.created = s.created /\ r.id < s.id

TopAnswer(answers) ==
    IF answers = {} THEN None
    ELSE LET best == CHOOSE r \in answers : \A s \in answers \ {r} : Better(r, s)
         IN  [kind |-> "top", id |-> best.id, by |-> best.by, created |-> best.created,
              likes |-> best.likes, dislikes |-> best.dislikes]

QuestionDoc(q) ==
    [cur |-> q.cur, title |-> q.title, text |-> q.text, answers |-> q.answers,
     top |-> q.top, created |-> q.created]

RefreshQuestionDoc(db, q) ==
    [db EXCEPT !.docs = IF QuestionVisible(q) THEN (q.id :> QuestionDoc(q)) @@ @
                        ELSE Without(@, {q.id})]

\* refreshQuestionAggregate, for a question record at hand.
RefreshAggregate(db, q) ==
    LET answers == IndexedAnswers(db, q)
        r == [q EXCEPT
                !.answers = Cardinality(answers),
                !.top = TopAnswer(answers),
                !.hot = 2 * Cardinality(answers) + q.likes + q.comments
                        + MapThenSumSet(LAMBDA s : s.likes + s.comments, answers)]
        keys == {<<s.created, s.id>> : s \in answers}
    IN  RefreshQuestionDoc(
          [Save(db, r) EXCEPT
             !.qtime = IF QuestionVisible(r) THEN @ \cup {<<r.created, r.id>>}
                       ELSE @ \ {<<r.created, r.id>>},
             !.atime = IF QuestionVisible(r) THEN @ \cup keys ELSE @ \ keys], r)

\* refreshQuestion.
RefreshQuestion(db, chain, id) ==
    LET q == Load(db, "q", chain, id)
    IN  IF q = None THEN db ELSE RefreshAggregate(db, WithEngagement(db, q))

\* Mutant: the question of an answer is not told of the answer's new counts.
RefreshEngagement_TargetOnly(db, target) ==
    LET r == WithEngagement(db, target)
    IN  IF target.kind = "q" THEN RefreshAggregate(Save(db, r), r) ELSE Save(db, r)

\* refreshEngagement: the target's own counts, then its question's.
RefreshEngagement(db, target) ==
    LET r == WithEngagement(db, target)
    IN  CASE target.kind = "q" -> RefreshAggregate(Save(db, r), r)
          [] target.kind = "a" ->
               IF r.question = NoPin THEN Save(db, r)
               ELSE RefreshQuestion(Save(db, r), r.qchain, r.question)
          [] OTHER -> db

-----------------------------------------------------------------------------
(* Versions *)

\* The record an operation builds on: a create finds its own, a modify or a
\* revoke the one its target pin is mapped to, if it is of the same kind.
Previous(db, p) ==
    IF p.op = "create" THEN Load(db, p.kind, p.chain, p.id)
    ELSE LET r == Locate(db, p.ref) IN IF r.kind = p.kind THEN r ELSE None

\* A create that is already indexed is handled again only to confirm it.
AlreadyIndexed(prev, p) ==
    p.op = "create" /\ prev # None /\ ~(~p.mem /\ prev.mem)

\* The fields every kind of record takes from the pin.
Updated(prev, p) ==
    [prev EXCEPT !.cur = p.id, !.mem = p.mem, !.updated = p.at,
                 !.text = IF p.body THEN p.id ELSE @,
                 !.hidden = @ \/ p.op = "revoke"]

Created(p) ==
    [kind |-> p.kind, id |-> p.id, chain |-> p.chain, cur |-> p.id, by |-> p.by,
     mem |-> p.mem, created |-> p.at, updated |-> p.at, text |-> p.id,
     hidden |-> FALSE, likes |-> 0, dislikes |-> 0, comments |-> 0]

\* mergeConfirmedReplayWithPending...Current: while a newer version is pending
\* in the mempool, the confirmation of an older one does not take its place.
KeepPending(prev, r, p) ==
    IF prev # None /\ ~r.mem /\ prev.mem /\ prev.cur \notin {prev.id, p.id}
    THEN [r EXCEPT !.cur = prev.cur, !.text = prev.text, !.hidden = prev.hidden,
                   !.mem = TRUE, !.updated = prev.updated]
    ELSE r

-----------------------------------------------------------------------------
(* Questions *)

\* questionRecordFromPin and the merge after it.
QuestionRecord(p, prev) ==
    LET r == IF p.op = "create"
             THEN Created(p) @@ [title |-> p.title, answers |-> 0, top |-> None, hot |-> 0]
             ELSE [Updated(prev, p) EXCEPT !.title = IF p.title # "" THEN p.title ELSE @]
        k == KeepPending(prev, r, p)
    IN  IF k.cur # r.cur THEN [k EXCEPT !.title = prev.title] ELSE k

\* maintainAnswerOwnerIndex.
OwnAnswer(db, r) ==
    LET q == Load(db, "q", r.qchain, r.question)
    IN  IF q = None THEN db
        ELSE [db EXCEPT !.qown = @ \cup {<<q.by, r.created, r.id>>}]

\* attachPendingAnswers: answers that named the question before it was known.
AttachPendingAnswers(db, q) ==
    LET keys == {k \in db.pending : k[1] \in {q.id, q.cur}}
        moved == {[db.rec[k[2]] EXCEPT !.qchain = q.chain, !.question = q.id] : k \in keys}
    IN  [db EXCEPT
           !.rec = [i \in {r.id : r \in moved} |-> CHOOSE r \in moved : r.id = i] @@ @,
           !.pending = @ \ keys,
           !.qown = @ \cup {<<q.by, r.created, r.id>> : r \in moved},
           !.answers = @ \cup {<<q.id, r.created, r.id>> : r \in {s \in moved : ~s.hidden}}]

ProcessQuestion(db, p) ==
    LET prev == Previous(db, p)
        r == QuestionRecord(p, prev)
        stale == IF prev # None /\ prev.created # r.created
                 THEN {<<prev.created, r.id>>} ELSE {}
    IN  IF \/ ~LegalQuestion(p) \/ AlreadyIndexed(prev, p)
           \/ p.op # "create" /\ prev = None
        THEN db
        ELSE RefreshQuestion(
               AttachPendingAnswers(
                 MapPin(Save([db EXCEPT !.qtime = @ \ stale], r), p.id, r), r),
               r.chain, r.id)

-----------------------------------------------------------------------------
(* Answers *)

\* answerRecordFromPin, the merge and the resolution of the question.
AnswerRecord(db, p, prev) ==
    LET r == IF p.op = "create"
             THEN Created(p) @@ [qchain |-> NoPin, question |-> NoPin]
             ELSE Updated(prev, p)
        q == Locate(db, p.to)
    IN  IF q.kind = "q"
        THEN [KeepPending(prev, r, p) EXCEPT !.qchain = q.chain, !.question = q.id]
        ELSE KeepPending(prev, r, p)

\* Under its question: indexed unless hidden, listed while both are visible.
PlaceAnswer(db, r, to) ==
    LET key == <<r.question, r.created, r.id>>
        d == [db EXCEPT
                !.pending = @ \ {<<to, r.id>>},
                !.answers = IF r.hidden THEN @ \ {key} ELSE @ \cup {key},
                !.atime = IF AnswerVisible(db, r) THEN @ \cup {<<r.created, r.id>>}
                          ELSE @ \ {<<r.created, r.id>>}]
    IN  RefreshQuestion(OwnAnswer(d, r), r.qchain, r.question)

\* An orphan is kept in the pending index only.
HoldAnswer(db, r, to) ==
    [db EXCEPT !.atime = @ \ {<<r.created, r.id>>},
               !.pending = @ \cup {<<to, r.id>>}]

ProcessAnswer(db, p) ==
    LET prev == Previous(db, p)
        r == AnswerRecord(db, p, prev)
        rekeyed == prev # None /\ prev.created # r.created
        d == MapPin(Save(
               [db EXCEPT
                  !.answers = @ \ (IF rekeyed THEN {<<prev.question, prev.created, r.id>>} ELSE {}),
                  !.atime = @ \ (IF rekeyed THEN {<<prev.created, r.id>>} ELSE {})], r), p.id, r)
    IN  IF \/ ~LegalAnswer(p) \/ AlreadyIndexed(prev, p)
           \/ p.op # "create" /\ prev = None
        THEN db
        ELSE IF r.question = NoPin THEN HoldAnswer(d, r, p.to)
                                   ELSE PlaceAnswer(d, r, p.to)

-----------------------------------------------------------------------------
(* Likes *)

\* maintainLikeOwnerIndex.
OwnLike(db, target, actor, state, prev) ==
    LET old == IF prev # None /\ prev.at # state.at
               THEN {<<target.by, prev.at, target.id, actor>>} ELSE {}
        key == <<target.by, state.at, target.id, actor>>
    IN  IF state.val = 0
        THEN [db EXCEPT !.lown = Without(@, old \cup {key})]
        ELSE [db EXCEPT !.lown = (key :> state) @@ Without(@, old)]

\* The last state of an actor wins, by the time of the pins.
ProcessLike(db, p) ==
    LET target == Locate(db, p.to)
        key == <<target.id, p.by>>
        prev == Entry(db.likes, key)
        state == [kind |-> "like", pin |-> p.id, val |-> p.val, at |-> p.at, mem |-> p.mem]
    IN  IF ~LegalLike(p) \/ ~IsQATarget(target) \/ (prev # None /\ prev.at > p.at) THEN db
        ELSE RefreshEngagement(
               OwnLike([db EXCEPT !.likes = (key :> state) @@ @], target, p.by, state, prev),
               target)

-----------------------------------------------------------------------------
(* Comments *)

\* What a comment belongs to: a create and a modify that names another pin
\* look it up, an unresolved new target leaves the comment where it is.
CommentTarget(db, p, prev) ==
    LET named == Locate(db, p.to)
    IN  IF p.op = "create" \/ (p.to \notin {NoPin, prev.to} /\ IsQATarget(named))
        THEN named ELSE db.rec[prev.target]

CommentRecord(p, prev, target) ==
    LET r == IF p.op = "create"
             THEN Created(p) @@ [target |-> target.id, to |-> p.to]
             ELSE [Updated(prev, p) EXCEPT !.target = target.id,
                                           !.to = IF p.to # NoPin THEN p.to ELSE @]
    IN  KeepPending(prev, r, p)

\* maintainCommentOwnerIndex.
OwnComment(db, r, prev) ==
    LET moved == prev # None /\ (prev.created # r.created \/ prev.target # r.target)
        old == IF moved THEN {<<db.rec[prev.target].by, t, r.id>> : t \in {prev.created, r.created}}
                        ELSE {}
    IN  [db EXCEPT !.cown = (@ \ old) \cup {<<db.rec[r.target].by, r.created, r.id>>}]

StoreComment(db, p, r, prev) ==
    LET old == IF prev = None THEN {}
               ELSE {<<prev.target, t, r.id>> : t \in {prev.created, r.created}}
        placed == IF r.hidden THEN {} ELSE {<<r.target, r.created, r.id>>}
    IN  OwnComment([MapPin(Save(db, r), p.id, r) EXCEPT !.comments = (@ \ old) \cup placed],
                   r, prev)

\* The target is told, and the one that a comment has moved from.
RefreshTargets(db, ids) == FoldLeft(LAMBDA d, i : RefreshEngagement(d, d.rec[i]), db, ids)

ProcessComment(db, p) ==
    LET prev == Previous(db, p)
        target == CommentTarget(db, p, prev)
        r == CommentRecord(p, prev, target)
    IN  IF \/ ~LegalComment(p) \/ AlreadyIndexed(prev, p)
           \/ p.op = "create" /\ ~IsQATarget(target)
           \/ p.op # "create" /\ prev = None
        THEN db
        ELSE RefreshTargets(StoreComment(db, p, r, prev),
                            IF prev # None /\ prev.target # r.target
                              THEN <<target.id, prev.target>> ELSE <<target.id>>)

-----------------------------------------------------------------------------
(* The handler, and the start of the aggregator *)

ProcessPin(db, p) ==
    CASE p.kind = "q" -> ProcessQuestion(db, p)
      [] p.kind = "a" -> ProcessAnswer(db, p)
      [] p.kind = "like" -> ProcessLike(db, p)
      [] p.kind = "c" -> ProcessComment(db, p)
      [] OTHER -> db

\* rebuildSearchDocs.
RebuildSearchDocs(db) ==
    LET shown == {i \in DOMAIN db.rec : QuestionVisible(db.rec[i])}
    IN  [db EXCEPT !.docs = [i \in shown |-> QuestionDoc(db.rec[i])]]

\* reconcileQuestionVisibility: index entries of questions no longer visible.
ReconcileVisibility(db) ==
    LET stale == {k[2] : k \in {i \in db.qtime : ~QuestionVisible(db.rec[i[2]])}}
    IN  FoldSet(LAMBDA id, d : RefreshQuestion(d, d.rec[id].chain, id), db, stale)

\* ensureInboxOwnerIndexes: the owner indexes as a store from before them
\* gets them, from its records and like states.
EnsureInbox(db) ==
    LET Of(kind) == {i \in DOMAIN db.rec : db.rec[i].kind = kind}
        bare == [db EXCEPT !.qown = {}, !.cown = {}, !.lown = <<>>]
        answers == FoldSet(LAMBDA i, d : OwnAnswer(d, d.rec[i]), bare, Of("a"))
        comments == FoldSet(LAMBDA i, d : OwnComment(d, d.rec[i], None), answers, Of("c"))
    IN  FoldSet(LAMBDA k, d : OwnLike(d, d.rec[k[1]], k[2], d.likes[k], None),
                comments, DOMAIN db.likes)

OnInit(db) == ReconcileVisibility(RebuildSearchDocs(db))

\* Backfill replays the listings of the four paths in this order, each from
\* its oldest pin on.
ReplayBefore(p, q) ==
    LET Rank(r) == CASE r.kind = "q" -> 0 [] r.kind = "a" -> 1 [] r.kind = "like" -> 2 [] OTHER -> 3
    IN  Rank(p) < Rank(q) \/ (Rank(p) = Rank(q) /\ p.ts < q.ts)

-----------------------------------------------------------------------------
(* What the endpoints serve.  A list is a sequence of source pins. *)

\* handleQuestions: the visible questions of the time index, by a publisher
\* and with lo..hi answers; sort=hot ranks those created since a time.
QuestionsFeed(db, by, lo, hi, hot, since) ==
    LET Matches(id) == LET q == db.rec[id]
                       IN  /\ QuestionVisible(q) /\ q.by \in by
                           /\ q.answers \in lo..hi /\ (hot => q.created >= since)
        Hotter(i, j) == LET q == db.rec[i] r == db.rec[j]
                        IN  \/ q.hot > r.hot
                            \/ q.hot = r.hot /\ Newer(<<q.created, i>>, <<r.created, j>>)
        list == SelectSeq(Scan(db.qtime), Matches)
    IN  IF hot THEN SortSeq(list, Hotter) ELSE list

\* handleSearch over the snapshot: the documents with a match rate, by
\* publishers and answered or not, best score first or newest first.
Search(db, rate, by, answered, newest) ==
    LET hits == {i \in DOMAIN db.docs : /\ rate[i] > 0 /\ db.rec[i].by \in by
                                        /\ (db.docs[i].answers > 0) \in answered}
        Ahead(i, j) == LET a == rate[i] b == rate[j]
                       IN  \/ ~newest /\ a > b
                           \/ /\ newest \/ a = b
                              /\ Newer(<<db.docs[i].created, i>>, <<db.docs[j].created, j>>)
    IN  Sorted(hits, Ahead)

\* rankedAnswers: a question's non-hidden answers, best first.
RankedAnswers(db, q, by) ==
    LET ranked == Sorted({r \in IndexedAnswers(db, q) : r.by \in by}, Better)
    IN  [i \in DOMAIN ranked |-> ranked[i].id]

\* handleAnswers: answers across questions, newest or best first.
AnswersFeed(db, by, top) ==
    LET Matches(id) == ~db.rec[id].hidden /\ db.rec[id].by \in by
        list == SelectSeq(Scan(db.atime), Matches)
    IN  IF top THEN SortSeq(list, LAMBDA i, j : Better(db.rec[i], db.rec[j])) ELSE list

\* handlePinComments: the comments of a pin, and the reverse for sort=oldest.
CommentThread(db, id, oldest) ==
    LET list == SelectSeq(Scan(CommentsOn(db, id)), LAMBDA c : ~db.rec[c].hidden)
    IN  IF oldest THEN Reverse(list) ELSE list

\* resolveCommentTarget and resolveQuestionParam: what a pin id may ask for.
Reachable(db, id) ==
    LET r == Locate(db, id)
    IN  QuestionVisible(r) \/ (r.kind = "a" /\ AnswerVisible(db, r))

\* The rows of scanInboxFamily that answerHitFromKey, commentHitFromKey and
\* likeHitFromEntry decode, for one owner and not older than since.
InboxHits(db, owner, since) ==
    LET Live(id) == id # NoPin /\ ~db.rec[id].hidden
        Of(keys) == {k \in keys : k[1] = owner /\ k[2] >= since}
        answer == {k \in Of(db.qown) : /\ Live(k[3]) /\ Live(db.rec[k[3]].question)}
        comment == {k \in Of(db.cown) : /\ Live(k[3]) /\ Live(db.rec[k[3]].target)}
        like == {k \in Of(DOMAIN db.lown) : Live(k[3]) /\ db.lown[k].val # 0}
        Hit(type, k, r, target, actor) ==
            [type |-> type, pin |-> r, key |-> k, target |-> target, actor |-> actor]
    IN  {Hit("simpleanswer", k, k[3], db.rec[k[3]].question, db.rec[k[3]].by) @@
            [at |-> db.rec[k[3]].created] : k \in answer}
        \cup {Hit("paycomment", k, k[3], db.rec[k[3]].target, db.rec[k[3]].by) @@
            [at |-> db.rec[k[3]].created] : k \in comment}
        \cup {Hit("paylike", k, db.lown[k].pin, k[3], k[4]) @@
            [at |-> db.lown[k].at] : k \in like}

-----------------------------------------------------------------------------
(* What the stored data owe their readers *)

Everyone(db) == {db.rec[i].by : i \in DOMAIN db.rec}

VisibleAnswersOf(db, q) ==
    {i \in DOMAIN db.rec : LET r == db.rec[i]
                           IN  r.kind = "a" /\ r.question = q.id /\ ~r.hidden}

\* Every list shows each visible item once and nothing else, in whatever
\* order it is asked for: the questions, the answers of a question, the
\* answers across questions, the comments of a pin, and the search snapshot,
\* which agrees with the records.  Any version of a visible question leads to
\* it, and the comments and likes of an inbox are those that a store built
\* from the records would show.
ServedOnce(db) ==
    LET shown == {i \in DOMAIN db.rec : QuestionVisible(db.rec[i])}
        all == Everyone(db)
        most == Cardinality(DOMAIN db.rec)
        Reactions(d, owner) == {h \in InboxHits(d, owner, 0) : h.type # "simpleanswer"}
    IN  /\ \A flag \in BOOLEAN :
              /\ Lists(QuestionsFeed(db, all, 0, most, flag, 0), shown)
              /\ Lists(Search(db, [i \in DOMAIN db.docs |-> 1], all, BOOLEAN, flag), shown)
              /\ Lists(AnswersFeed(db, all, flag),
                       UNION {VisibleAnswersOf(db, db.rec[i]) : i \in shown})
        /\ \A i \in shown :
              Lists(RankedAnswers(db, db.rec[i], all), VisibleAnswersOf(db, db.rec[i]))
        /\ \A i \in DOMAIN db.rec, oldest \in BOOLEAN :
              Lists(CommentThread(db, i, oldest),
                    {c \in DOMAIN db.rec : LET r == db.rec[c]
                        IN r.kind = "c" /\ r.target = i /\ ~r.hidden})
        /\ db.docs = RebuildSearchDocs(db).docs
        /\ \A id \in DOMAIN db.pin : db.pin[id] \in shown => Reachable(db, id)
        /\ LET rebuilt == EnsureInbox(db)
           IN  \A owner \in all : Reactions(db, owner) = Reactions(rebuilt, owner)

\* What readers can come to see: not the text of what is hidden, nor the
\* times at which an answer was once listed in an inbox.
Readable(db) ==
    LET Masked(r) == IF r.hidden THEN [r EXCEPT !.text = NoPin] ELSE r
    IN  [db EXCEPT !.qown = {}, !.rec = [i \in DOMAIN @ |-> Masked(@[i])]]

\* The counts shown with a question are those of the states, comments and
\* answers stored: none is missed and none is counted twice.
CountsAgree(db) ==
    \A i \in DOMAIN db.rec : db.rec[i].kind = "q" =>
        LET q == db.rec[i]
            answers == {db.rec[a] : a \in VisibleAnswersOf(db, q)}
        IN  /\ q = [WithEngagement(db, q) EXCEPT
                      !.answers = Cardinality(answers), !.top = TopAnswer(answers)]
            /\ q.hot = 2 * q.answers + q.likes + q.comments
                       + MapThenSumSet(LAMBDA a : a.likes + a.comments, answers)

=============================================================================
