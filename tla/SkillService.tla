---------------------------- MODULE SkillService ----------------------------
(***************************************************************************)
(* The skill services of bots (internal/aggregator/skillservice): the      *)
(* versions of a service folded into one record, the ratings of services,  *)
(* and the lists of both the marketplace and a provider's homepage.  The   *)
(* stored data, db, has a component per key family:                        *)
(*   rec       service:       <<chain, source pin>> -> record              *)
(*   source    pin_to_source: <<chain, pin>> -> source pin                 *)
(*   provider  by provider       {<<provider, chain, service>>}            *)
(*   bymeta    by provider, time {<<provider, updated, chain, service>>}   *)
(*   global    by the provider's global id, with and without the chain     *)
(*   updated   by time           {<<chain, updated, service>>}             *)
(*   ready     whether the global index was built to its end               *)
(*   rating    rating_pin:    <<chain, pin>> -> rating                     *)
(*   total     rating_agg:    <<chain, service>> -> sum and count          *)
(*   docs      the search snapshot in memory, by service                   *)
(* The handlers take no lock: the two goroutines of the engine, and the    *)
(* homepage reads that extend the global index, may overlap.  Here each is *)
(* one step.  The content of a version is its pin.                         *)
(* A provider has one identity, which is known as the global one if the    *)
(* pin named it (gid) or a profile of the provider is known: the profiles  *)
(* known are an argument of the operators that look them up.               *)
(***************************************************************************)
EXTENDS Records

InitDb ==
    [rec |-> <<>>, source |-> <<>>, provider |-> {}, bymeta |-> {}, global |-> {},
     updated |-> {}, ready |-> TRUE, rating |-> <<>>, total |-> <<>>, docs |-> <<>>]

-----------------------------------------------------------------------------
(* Records *)

Key(r) == <<r.chain, r.id>>

\* loadService.
LoadService(db, chain, id) == Entry(db.rec, <<chain, id>>)

\* loadServiceByAnyPinId.
LoadByAnyPin(db, chain, id) ==
    LoadService(db, chain, IF <<chain, id>> \in DOMAIN db.source
                           THEN db.source[chain, id] ELSE id)

\* homepageProviderGlobalMetaIds, after ResolveProvider.
GlobalIds(r, known) == IF r.gid \/ r.by \in known THEN {r.by} ELSE {}

TimeKey(r) == <<r.by, r.updated, r.chain, r.id>>

GlobalKeys(r, known) == {TimeKey(r) : g \in GlobalIds(r, known)}

IsVisible(r) == ~r.revoked /\ ~r.disabled

\* searchDocumentFromService.
SearchDoc(r) ==
    [cur |-> r.cur, text |-> r.text, created |-> r.created, updated |-> r.updated]

RefreshSearchDocument(db, r) ==
    [db EXCEPT !.docs = IF r.revoked THEN Without(@, {Key(r)}) ELSE With(@, Key(r), SearchDoc(r))]

\* saveService: the index keys of the record it replaces go first.
SaveService(db, known, r, prev) ==
    LET Old(keys) == IF prev = None THEN {} ELSE keys
    IN  RefreshSearchDocument(
          [db EXCEPT
             !.rec = With(@, Key(r), r),
             !.provider = (@ \ Old({<<prev.by, prev.chain, prev.id>>}))
                          \cup {<<r.by, r.chain, r.id>>},
             !.bymeta = (@ \ Old({TimeKey(prev)})) \cup {TimeKey(r)},
             !.global = (@ \ Old(GlobalKeys(prev, known))) \cup GlobalKeys(r, known),
             !.updated = (@ \ Old({<<prev.chain, prev.updated, prev.id>>}))
                         \cup {<<r.chain, r.updated, r.id>>}], r)

\* mapPinToSource.
MapPin(db, p, r) == [db EXCEPT !.source = With(@, <<p.chain, p.id>>, r.id)]

-----------------------------------------------------------------------------
(* Versions *)

\* serviceRevisionForPin: a mempool pin has no height, and of two blocks the
\* later one is higher.
Revision(p) == <<p.at, IF p.mem THEN 0 ELSE p.ts, p.id>>

\* serviceRevisionAfter.
RevisionAfter(s, t) ==
    \E n \in 1..3 : s[n] > t[n] /\ \A m \in 1..(n - 1) : s[m] = t[m]

\* shouldApplyServiceVersion.
Applies(prev, p) == RevisionAfter(Revision(p), <<prev.updated, prev.height, prev.cur>>)

\* newServiceRecord.
NewRecord(p, id) ==
    [kind |-> "service", chain |-> p.chain, id |-> id, cur |-> p.id, height |-> Revision(p)[2],
     by |-> p.by, gid |-> p.gid, text |-> p.id, disabled |-> p.off, revoked |-> FALSE,
     created |-> p.at, updated |-> p.at]

\* processServiceCreate: of two creates, or of its two observations, the
\* first one stays.
ProcessCreate(db, known, p) ==
    IF ~p.body \/ LoadService(db, p.chain, p.id) # None THEN db
    ELSE SaveService(db, known, NewRecord(p, p.id), None)

\* processServiceModify and processServiceRevoke: an older version is mapped
\* to its service and otherwise skipped.  A revoked service stays revoked,
\* and the provider is the one of the create.
Amended(prev, p) ==
    [NewRecord(p, prev.id) EXCEPT !.created = prev.created, !.by = prev.by,
                                  !.gid = prev.gid \/ @, !.revoked = prev.revoked]

Revoked(prev, p) ==
    [prev EXCEPT !.revoked = TRUE, !.cur = p.id, !.height = Revision(p)[2], !.updated = p.at]

ProcessVersion(db, known, p) ==
    LET prev == LoadByAnyPin(db, p.chain, p.ref)
        d == MapPin(db, p, prev)
    IN  CASE prev = None \/ p.ref = p.id -> db
          [] prev # None /\ (~Applies(prev, p) \/ (p.op = "modify" /\ ~p.body)) -> d
          [] p.op = "revoke" -> SaveService(d, known, Revoked(prev, p), prev)
          [] OTHER -> SaveService(d, known, Amended(prev, p), prev)

-----------------------------------------------------------------------------
(* Ratings *)

\* bumpRatingAggregate.
Bump(db, chain, id, rate) ==
    LET t == IF <<chain, id>> \in DOMAIN db.total THEN db.total[chain, id]
             ELSE [sum |-> 0, count |-> 0]
    IN  [db EXCEPT !.total = With(@, <<chain, id>>, [sum |-> t.sum + rate, count |-> t.count + 1])]

\* processRatingPin.
LegalRating(p) == p.val \in 1..5 /\ p.to # NoPin

ProcessRating(db, p) ==
    LET service == LoadByAnyPin(db, p.chain, p.to)
        rating == [to |-> p.to, source |-> IF service = None THEN NoPin ELSE service.id,
                   val |-> p.val, chain |-> p.chain]
        d == [db EXCEPT !.rating = With(@, <<p.chain, p.id>>, rating)]
    IN  IF ~LegalRating(p) \/ <<p.chain, p.id>> \in DOMAIN db.rating THEN db
        ELSE IF service = None THEN d ELSE Bump(d, p.chain, service.id, p.val)

ProcessPin(db, known, p) ==
    CASE p.kind = "service" /\ p.op = "create" -> ProcessCreate(db, known, p)
      [] p.kind = "service" /\ p.op # "create" -> ProcessVersion(db, known, p)
      [] p.kind = "rate" -> ProcessRating(db, p)
      [] OTHER -> db

-----------------------------------------------------------------------------
(* The start of the aggregator and the backfill *)

\* rebuildSearchDocuments.
RebuildSearchDocuments(db) ==
    LET shown == {k \in DOMAIN db.rec : ~db.rec[k].revoked}
    IN  [db EXCEPT !.docs = [k \in shown |-> SearchDoc(db.rec[k])]]

\* ensureHomepageProviderGlobalIndexes.
EnsureGlobalIndex(db, known) ==
    [db EXCEPT !.global = UNION {GlobalKeys(r, known) : r \in Range(db.rec)}, !.ready = TRUE]

\* Init and SetProfileLookup.
OnInit(db, known) == EnsureGlobalIndex(RebuildSearchDocuments(db), known)

\* Which pins backfillServices and fetchBackfillPins select: every version
\* since the window began, with its create however old, and the ratings.  A
\* version is found from the ones selected before it.
VersionsOf(pins, source, since) ==
    LET recent == {p \in pins : p.kind = "service" /\ p.op # "create" /\ p.ts >= since}
        Step(ids) == ids \cup {p.id : p \in {q \in recent : q.ref \in ids}}
        ids == FoldLeft(LAMBDA s, i : Step(s), {source.id}, [i \in 1..Cardinality(recent) |-> i])
    IN  {p \in recent : p.id \in ids}

Sources(pins) == {p \in pins : p.kind = "service" /\ p.op = "create"}

Selected(pins, since) ==
    LET Chain(s) == VersionsOf(pins, s, since)
    IN  UNION {{s} \cup Chain(s) : s \in {t \in Sources(pins) : t.ts >= since \/ Chain(t) # {}}}
        \cup {p \in pins : p.kind = "rate" /\ p.ts >= since}

\* backfillServices maps every version before it replays the first pin, and
\* the backfill, which resolves no profiles, leaves the global index stale.
BeginBackfill(db, pins, since) ==
    LET links == {<<p, s>> \in pins \X Sources(pins) : p \in VersionsOf(pins, s, since)}
        versions == {l[1] : l \in links}
    IN  [db EXCEPT !.ready = FALSE,
                   !.source = [k \in {<<p.chain, p.id>> : p \in versions} |->
                                 (CHOOSE l \in links : l[1].id = k[2])[2].id] @@ @]

\* replayBackfillPins, the services before the ratings.
ReplayBefore(p, q) ==
    LET Rank(r) == IF r.kind = "service" THEN 0 ELSE 1
        Block(r) == <<r.ts, r.ts, r.id>>
    IN  Rank(p) < Rank(q) \/ (Rank(p) = Rank(q) /\ RevisionAfter(Block(q), Block(p)))

-----------------------------------------------------------------------------
(* What the endpoints serve *)

Total(db, r) ==
    IF Key(r) \in DOMAIN db.total THEN db.total[Key(r)] ELSE [sum |-> 0, count |-> 0]

\* smoothedScore, with a mean of 4 and a weight of 5, compared as fractions.
ScoreLess(s, t) == (s.sum + 20) * (t.count + 5) < (t.sum + 20) * (s.count + 5)

\* sortExpanded: ascending and stable in the order of the keys, or the
\* reverse of that.
RanksBelow(db, sortBy, r, s) ==
    LET a == Total(db, r) b == Total(db, s)
        tie == ~ScoreLess(a, b) /\ ~ScoreLess(b, a)
        older == r.updated < s.updated
    IN  IF sortBy = "updated" THEN older
        ELSE \/ ScoreLess(a, b)
             \/ tie /\ (a.count < b.count \/ (a.count = b.count /\ older))

ListServices(db, by, inactive, sortBy, desc) ==
    LET listed == {r \in Range(db.rec) : (inactive \/ IsVisible(r)) /\ by \in {NoPin, r.by}}
        Below(r, s) == \/ RanksBelow(db, sortBy, r, s)
                       \/ ~RanksBelow(db, sortBy, s, r) /\ r.id < s.id
        ascending == Sorted(listed, Below)
    IN  [i \in DOMAIN ascending |-> (IF desc THEN Reverse(ascending) ELSE ascending)[i].id]

\* Mutant: the homepage trusts the global index alone.
HomepageKeys_IndexOnly(db, known, by) == {k \in db.global : k[1] = by}

\* The keys the homepage of a provider starts from: the global index, then
\* for a known profile the provider index, then while the global index is
\* being rebuilt all services.
HomepageKeys(db, known, by) ==
    {k \in db.global : k[1] = by}
    \cup {k \in db.bymeta : k[1] = by /\ by \in known}
    \cup {TimeKey(r) : r \in {s \in Range(db.rec) : ~db.ready /\ by \in GlobalIds(s, known)}}

\* matchesHomepageProviderCandidate: a key that is out of date is passed over.
Candidates(db, known, by) ==
    {r \in {LoadService(db, k[3], k[4]) : k \in HomepageKeys(db, known, by)} :
        /\ r # None /\ IsVisible(r)
        /\ TimeKey(r) \in HomepageKeys(db, known, by) /\ by \in GlobalIds(r, known)}

\* ListHomepageByProvider, newest first ...
Homepage(db, known, by, size) ==
    LET Ahead(r, s) == r.updated > s.updated \/ (r.updated = s.updated /\ r.id < s.id)
        all == Sorted(Candidates(db, known, by), Ahead)
    IN  Page([i \in DOMAIN all |-> all[i].id], 0, size)

\* ... which adds to the global index what it found otherwise.
ReadHomepage(db, known, by) ==
    [db EXCEPT !.global = @ \cup {TimeKey(r) : r \in Candidates(db, known, by)}]

\* PublishedServiceNames.
PublishedServices(db, by) ==
    {r.text : r \in {s \in {LoadService(db, k[3], k[4]) : k \in {g \in db.global : g[1] = by}} :
                        s # None /\ IsVisible(s)}}

\* FindService by source or current pin or, on a chain, any version.
FindService(db, chain, id) ==
    LET matches == {r \in Range(db.rec) : id \in {r.id, r.cur}}
    IN  CASE chain # "" -> IF LoadService(db, chain, id) # None THEN LoadService(db, chain, id)
                              ELSE LoadByAnyPin(db, chain, id)
          [] chain = "" /\ Cardinality(matches) = 1 -> CHOOSE r \in matches : TRUE
          [] OTHER -> None

-----------------------------------------------------------------------------
(* What the stored data owe their readers *)

\* The marketplace lists every visible service once under each order, the
\* homepage of a provider the services it is known to have published, those
\* whose pin names the provider among them by name; every pin of a service
\* leads to it, and the search snapshot agrees with the records.
ServedOnce(db, known) ==
    LET visible == {r \in Range(db.rec) : IsVisible(r)}
        Ids(rs) == {r.id : r \in rs}
    IN  /\ \A sortBy \in {"rating", "updated"}, desc \in BOOLEAN :
              Lists(ListServices(db, NoPin, FALSE, sortBy, desc), Ids(visible))
        /\ \A by \in {r.by : r \in visible} :
              Lists(Homepage(db, known, by, Cardinality(visible)).items,
                    Ids({r \in visible : r.by = by /\ (r.gid \/ by \in known)}))
        /\ \A r \in visible : r.gid => r.text \in PublishedServices(db, r.by)
        /\ \A r \in Range(db.rec) :
              \A id \in {r.id, r.cur} : r \in {FindService(db, c, id) : c \in {"", r.chain}}
        /\ \A k \in DOMAIN db.source :
              LET r == FindService(db, k[1], k[2]) IN r # None => r.id = db.source[k]
        /\ db.docs = RebuildSearchDocuments(db).docs

\* The totals of a service are those of the ratings that were assigned to it:
\* those that came when one of its pins was known.
TotalsAgree(db) ==
    \A r \in Range(db.rec) :
        LET own == {k \in DOMAIN db.rating : /\ db.rating[k].chain = r.chain
                                             /\ db.rating[k].source = r.id}
        IN  Total(db, r) = [sum |-> MapThenSumSet(LAMBDA k : db.rating[k].val, own),
                            count |-> Cardinality(own)]

\* What a reader can see of the services once their versions are confirmed:
\* not the times, which are those of the first observation of a version.
Readable(db) ==
    [k \in DOMAIN db.rec |-> [db.rec[k] EXCEPT !.created = 0, !.updated = 0, !.height = 0]]

=============================================================================
