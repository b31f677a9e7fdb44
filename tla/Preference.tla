----------------------------- MODULE Preference -----------------------------
(***************************************************************************)
(* Preference feedback (internal/aggregator/preference): batches in which  *)
(* a signer says which of two motion videos is the better one, checked     *)
(* against the apps that published content has indexed, and the scores of  *)
(* the videos.  The stored data, db, are                                   *)
(*   fb      open:feedback: <<chain, pin>> -> record                       *)
(*   scores  openScores, the snapshot in memory: <<chain, video>> ->       *)
(*           summary                                                       *)
(*   dirty   openScoresDirty: the snapshot is to be rebuilt                *)
(* Handlers and reads run concurrently.  A handler holds the lock mu and   *)
(* is one step; a rebuild does not take mu, so the scan and what follows   *)
(* it are two steps.  pc is the database of PublishedContent.  The block   *)
(* time of a pin stands for its height and its time.                       *)
(***************************************************************************)
EXTENDS Records

PC == INSTANCE PublishedContent

InitDb == [fb |-> <<>>, scores |-> <<>>, dirty |-> FALSE]

-----------------------------------------------------------------------------
(* Feedback *)

\* parseComparisonBatch and validateComparisonItem: one bad item spoils all.
IsValidBatch(p) ==
    /\ p.body /\ p.items # <<>>
    /\ \A i \in DOMAIN p.items :
          /\ p.items[i].a.chain = p.items[i].b.chain
          /\ p.items[i].a.video # p.items[i].b.video

\* resolveArtifactRef: a reference to the current version must agree with its
\* manifest; older manifests are not kept, so such a reference is unverified.
RefVerdict(ref, chain, signer, app, version) ==
    LET verified == app # None => ref.version = app.cur
        Because(reason) == [reason |-> reason, verified |-> verified]
    IN  CASE ref.chain # chain -> Because("chain-mismatch")
          [] ref.chain = chain /\ app = None -> Because("app-not-found")
          [] OTHER ->
               IF version = None THEN Because("version-outside-app")
               ELSE IF version.root # app.root THEN Because("version-outside-app")
               ELSE IF verified /\ (app.video = NoPin \/ ref.video # app.video)
                    THEN Because("artifact-mismatch")
               ELSE IF signer \in {app.by, app.creator} THEN Because("author-conflict")
               ELSE Because("")

ResolveRef(pc, ref, chain, signer) ==
    RefVerdict(ref, chain, signer, PC!ResolveSnapshot(pc, ref.chain, ref.app),
               PC!ResolveSnapshot(pc, ref.chain, ref.version))

\* resolveComparisonExclusion: the second side is looked at if the first is
\* clean.
Judged(item, a, b) ==
    [a |-> item.a, b |-> item.b, pick |-> item.pick,
     excluded |-> IF a.reason # "" THEN a.reason ELSE b.reason,
     unverified |-> /\ a.reason = ""
                    /\ ~a.verified \/ (b.reason = "" /\ ~b.verified)]

ResolveItem(pc, item, chain, signer) ==
    Judged(item, ResolveRef(pc, item.a, chain, signer), ResolveRef(pc, item.b, chain, signer))

ResolveItems(pc, items, chain, signer) ==
    [i \in DOMAIN items |-> ResolveItem(pc, items[i], chain, signer)]

\* buildFeedbackRecord.
NewFeedback(pc, p) ==
    LET status == CASE ~IsValidBatch(p) -> "malformed"
                    [] IsValidBatch(p) /\ p.title = "other" -> "unsupported"
                    [] OTHER -> "valid"
    IN  [kind |-> "feedback", id |-> p.id, chain |-> p.chain, by |-> p.by, mem |-> p.mem,
         at |-> p.at, status |-> status, test |-> status = "valid" /\ p.title = "test",
         items |-> IF status = "valid" THEN ResolveItems(pc, p.items, p.chain, p.by) ELSE <<>>]

\* processPin: modify and revoke are ignored, and a confirmed record stays.
ProcessPin(db, pc, p) ==
    LET there == Entry(db.fb, <<p.chain, p.id>>)
        isNew == there # None => there.mem /\ ~p.mem
    IN  IF p.kind = "pref" /\ p.op = "create" /\ isNew
        THEN [db EXCEPT !.fb = With(@, <<p.chain, p.id>>, NewFeedback(pc, p)),
                        !.dirty = @ \/ ~p.mem]
        ELSE db

\* reevaluateResolutions.
Reresolved(pc, r) ==
    IF r.status # "valid" THEN r
    ELSE [r EXCEPT !.items = ResolveItems(pc, @, r.chain, r.by)]

WithFeedback(db, fb) == [db EXCEPT !.fb = fb, !.dirty = @ \/ fb # db.fb]

Reevaluate(db, pc) == WithFeedback(db, [k \in DOMAIN db.fb |-> Reresolved(pc, db.fb[k])])

-----------------------------------------------------------------------------
(* Scores *)

IsScored(r) == ~r.mem /\ r.status = "valid" /\ ~r.test

\* latestComparisonFromItem; no winner is a tie.
Comparison(r, i) ==
    LET item == r.items[i]
    IN  [key |-> <<r.chain, r.by, {item.a.video, item.b.video}>>, order |-> <<r.at, r.id, i>>,
         winner |-> CASE item.pick = "a" -> item.a.video
                      [] item.pick = "b" -> item.b.video
                      [] OTHER -> NoPin]

\* comparisonOrder.after.
After(o, q) ==
    \/ o[1] > q[1]
    \/ o[1] = q[1] /\ o[2] > q[2]
    \/ o[1] = q[1] /\ o[2] = q[2] /\ o[3] > q[3]

\* Of the comparisons a signer made of two videos the latest counts.
LatestComparisons(fb) ==
    LET Counted(r) == {i \in DOMAIN r.items : r.items[i].excluded = ""}
        all == UNION {{Comparison(r, i) : i \in Counted(r)} : r \in {s \in Range(fb) : IsScored(s)}}
    IN  {c \in all : \A d \in all : d.key = c.key /\ d # c => After(c.order, d.order)}

Unjudged == [score |-> <<>>, comparisons |-> 0, judges |-> 0, last |-> 0, state |-> "unjudged"]

\* rebuildOpenScores: (wins + ties / 2 + 1) / (comparisons + 2).
RebuildScores(fb) ==
    LET latest == LatestComparisons(fb)
        Of(v) == {c \in latest : c.key[1] = v[1] /\ v[2] \in c.key[3]}
        Summary(v) ==
            LET n == Cardinality(Of(v))
                wins == Cardinality({c \in Of(v) : c.winner = v[2]})
                ties == Cardinality({c \in Of(v) : c.winner = NoPin})
                judges == Cardinality({c.key[2] : c \in Of(v)})
            IN  [score |-> <<2 * wins + ties + 2, 2 * (n + 2)>>, comparisons |-> n,
                 judges |-> judges, last |-> Max({c.order[1] : c \in Of(v)}),
                 state |-> IF judges >= 3 THEN "established" ELSE "emerging"]
    IN  [v \in UNION {{c.key[1]} \X c.key[3] : c \in latest} |-> Summary(v)]

\* ensureFreshOpenScores: what a rebuild scanned it stores, and then it clears
\* the flag.
StoreScores(db, scanned) == [db EXCEPT !.scores = scanned, !.dirty = FALSE]

Rebuilt(db) == StoreScores(db, RebuildScores(db.fb))

OnInit(db, pc) == Rebuilt(Reevaluate(db, pc))

\* Backfill replays what is listed since the window began, oldest first.
Selected(pins, since) == {p \in pins : p.kind = "pref" /\ p.ts >= since}

-----------------------------------------------------------------------------
(* Reads *)

\* OpenSummaryFor.
SummaryFor(db, v) == IF v \in DOMAIN db.scores THEN db.scores[v] ELSE Unjudged

\* subjectOutcome.
Outcome(item, subject) ==
    CASE item.pick = "tie" -> "tie"
      [] item.pick # "tie" /\ item[item.pick].video = subject -> "preferred"
      [] OTHER -> "rejected"

\* listFeedbackRecords and ListComparisons; subject NoPin asks for all.
ListComparisons(db, chain, subject, outcome, withMempool, withTest, withExcluded) ==
    LET Shown(r) == /\ r.chain = chain /\ r.status = "valid"
                    /\ r.test => withTest
                    /\ r.mem => withMempool
        Fits(item) == /\ item.excluded # "" => withExcluded
                      /\ subject # NoPin =>
                            /\ subject \in {item.a.video, item.b.video}
                            /\ outcome \in {"all", Outcome(item, subject)}
        records == Sorted({r \in Range(db.fb) : Shown(r)},
                                LAMBDA r, s : r.at > s.at \/ (r.at = s.at /\ r.id < s.id))
        Of(r) == SelectSeq([i \in DOMAIN r.items |-> <<r.id, i>>], LAMBDA e : Fits(r.items[e[2]]))
    IN  FlattenSeq([n \in DOMAIN records |-> Of(records[n])])

-----------------------------------------------------------------------------
(* What the stored data owe their readers *)

\* The evidence of a video shows every comparison that was counted for it
\* once, under the outcome that it was counted as and under no other.
EvidenceShown(db) ==
    \A c \in LatestComparisons(db.fb) :
        \A v \in c.key[3] :
            LET Of(outcome) == ListComparisons(db, c.key[1], v, outcome, FALSE, FALSE, FALSE)
                entry == <<c.order[2], c.order[3]>>
                counted == CASE c.winner = v -> "preferred"
                             [] c.winner = NoPin -> "tie"
                             [] OTHER -> "rejected"
            IN  /\ IsInjective(Of("all")) /\ entry \in Range(Of("all"))
                /\ \A outcome \in {"preferred", "rejected", "tie"} :
                      entry \in Range(Of(outcome)) <=> outcome = counted

\* The snapshot is that of the records whenever it does not say otherwise.
ScoresAreFresh(db) == ~db.dirty => db.scores = RebuildScores(db.fb)

=============================================================================
