------------------------------- MODULE MetaWeb -------------------------------
(***************************************************************************)
(* The read endpoints over several read models (internal/aggregator/       *)
(* metaweb): a pin and its versions, the feed of new content, the inbox of *)
(* interactions, the registry of protocols and the search.  The module     *)
(* keeps no state.  A read sees d, the stored data of the aggregators, and *)
(* what the listing service would answer: nothing when it is not online,   *)
(* otherwise any pin in a block so far, with the history of its versions.  *)
(*                                                                         *)
(* Left out: the caches in front of these reads (5 seconds for the feed, a *)
(* minute for a chain of versions), which answer with an earlier state,    *)
(* and how well a document matches a query, which is given as a number.    *)
(***************************************************************************)
EXTENDS Records

QA == INSTANCE QuestionsAnswers
SC == INSTANCE SocialContent
SS == INSTANCE SkillService
PC == INSTANCE PublishedContent

-----------------------------------------------------------------------------
(* What the listing service knows: pins, a set of pins in blocks *)

\* The create a pin goes back to.
Root(pins, id) ==
    LET Step(i) == LET p == CHOOSE q \in pins : q.id = i
                   IN  IF p.op \in {"modify", "revoke"} /\ \E q \in pins : q.id = p.ref
                       THEN p.ref ELSE i
        back[n \in Nat] == IF n = 0 THEN id ELSE Step(back[n - 1])
    IN  back[Cardinality(pins)]

History(pins, id) ==
    LET versions == {p \in pins : Root(pins, p.id) = Root(pins, id)}
        list == Sorted(versions, LAMBDA p, q : p.ts < q.ts)
    IN  IF Len(list) = 1 THEN <<>> ELSE [i \in DOMAIN list |-> list[i].id]

\* FetchPin.
FetchPin(pins, online, id) ==
    IF online /\ \E p \in pins : p.id = id
    THEN LET p == CHOOSE q \in pins : q.id = id
         IN  [kind |-> "remote", id |-> id, op |-> p.op, by |-> p.by, at |-> p.ts,
              history |-> History(pins, id)]
    ELSE None

-----------------------------------------------------------------------------
(* A pin and its versions *)

VersionEntry(id, op, by, at) == [id |-> id, op |-> op, by |-> by, at |-> at]

SourceEntry(r) == VersionEntry(r.id, "create", r.by, r.created)

LocalOperation(r) ==
    CASE r.op = "revoke" -> "revoke"
      [] r.op # "revoke" /\ r.cur # r.id -> "modify"
      [] OTHER -> "create"

CurrentEntry(r) == VersionEntry(r.cur, LocalOperation(r), r.by, r.updated)

\* fillVersionMetadata: known versions as the record has them, the others as
\* the listing service does.
Fill(pins, history, known) ==
    LET Of(id) == IF \E e \in known : e.id = id THEN CHOOSE e \in known : e.id = id
                  ELSE LET p == FetchPin(pins, TRUE, id) IN VersionEntry(id, p.op, p.by, p.at)
    IN  [i \in DOMAIN history |-> Of(history[i])]

\* versionChainFromLocal.
LocalChain(r, pins, remote) ==
    CASE r.cur = r.id -> [by |-> "local", versions |-> <<SourceEntry(r)>>]
      [] r.cur # r.id /\ remote # None /\ remote.history # <<>> ->
            [by |-> "chain",
             versions |-> Fill(pins, remote.history, {SourceEntry(r), CurrentEntry(r)})]
      [] OTHER -> [by |-> "local", versions |-> <<SourceEntry(r), CurrentEntry(r)>>]

\* versionChainFromRemote.
RemoteChain(pins, remote) ==
    CASE remote = None -> [by |-> "none", versions |-> <<>>]
      [] remote # None /\ remote.history = <<>> ->
            [by |-> "chain",
             versions |-> <<VersionEntry(remote.id, remote.op, remote.by, remote.at)>>]
      [] OTHER -> [by |-> "chain", versions |-> Fill(pins, remote.history, {})]

\* VersionChain.
VersionChain(d, pins, online, id) ==
    LET r == PC!LookupByAnyPin(d.pc, id)
    IN  IF r # None THEN LocalChain(r, pins, FetchPin(pins, online, r.cur))
        ELSE RemoteChain(pins, FetchPin(pins, online, id))

\* LookupServiceByAnyPinId.
ServiceOf(d, id) ==
    LET found == {SS!LoadByAnyPin(d.ss, k[1], id) : k \in DOMAIN d.ss.rec} \ {None}
    IN  IF found = {} THEN None ELSE CHOOSE r \in found : TRUE

\* publishedVersionInfo: 0 stands for a count that is left out.
VersionInfo(r, chain) ==
    CASE r.cur = r.id -> [latest |-> r.cur, count |-> 1]
      [] r.cur # r.id /\ chain # <<>> -> [latest |-> Last(chain).id, count |-> Len(chain)]
      [] OTHER -> [latest |-> r.cur, count |-> 0]

ReadPublished(d, r, pins, online) ==
    [from |-> "published", path |-> r.path, cur |-> r.cur, op |-> r.op, by |-> r.by,
     at |-> r.created, payload |-> r.payload,
     version |-> VersionInfo(r, VersionChain(d, pins, online, r.cur).versions)]

\* pinReadFromServiceRecord: a service that was modified has no count.
ReadService(s) ==
    [from |-> "service", cur |-> s.cur, by |-> s.by, at |-> s.created, payload |-> s.text,
     version |-> [latest |-> s.cur, count |-> IF s.cur = s.id THEN 1 ELSE 0]]

ReadRemote(p) ==
    LET latest == IF p.history = <<>> THEN p.id ELSE Last(p.history)
    IN  [from |-> "remote", cur |-> latest, op |-> p.op, by |-> p.by, at |-> p.at,
         version |-> [latest |-> latest, count |-> Max({1, Len(p.history)})]]

\* resolvePinData: published content, then skill services, then the listing.
ReadPin(d, pins, online, id) ==
    LET r == PC!LookupByAnyPin(d.pc, id)
        s == ServiceOf(d, id)
        p == FetchPin(pins, online, id)
    IN  CASE r # None -> ReadPublished(d, r, pins, online)
          [] r = None /\ s # None -> ReadService(s)
          [] r = None /\ s = None /\ p # None -> ReadRemote(p)
          [] OTHER -> [from |-> IF online THEN "not found" ELSE "unavailable"]

\* handlePinBatch: each id once, one that fails beside those that do not.
ReadPins(d, pins, online, ids) == [id \in Range(ids) |-> ReadPin(d, pins, online, id)]

-----------------------------------------------------------------------------
(* The feed of new content *)

\* freshItemFromRecord: the likes and comments other read models count.
FreshItem(d, r) ==
    LET post == SC!FindPost(d.sc, r.chain, r.id)
        entry == IF r.id \in DOMAIN d.qa.rec THEN d.qa.rec[r.id] ELSE None
        Counted(x, kind) == IF r.path # kind \/ x = None THEN 0 ELSE x.likes + x.comments
    IN  [id |-> r.id, cur |-> r.cur, by |-> r.by, at |-> r.created, duplicates |-> 0,
         reactions |-> Counted(post, "post") + (IF r.path \in {"q", "a"}
                                                THEN Counted(entry, r.path) ELSE 0)]

\* freshItemsFromRecords with both passes on: a copy of an entry of the page is
\* counted with that entry, and no author has more than the most allowed; a
\* copy of an entry left out for its author is counted, but with none.
Suppress(d, records, most) ==
    LET Take(s, r) ==
            LET hash == r.payload
                first == SelectInSeq(s.items, LAMBDA x : x.hash = hash)
                mine == Len(SelectSeq(s.items, LAMBDA x : x.item.by = r.by))
            IN  CASE hash \in s.seen ->
                        [s EXCEPT !.duplicates = @ + 1,
                                  !.items = IF first = 0 THEN @
                                            ELSE [@ EXCEPT ![first].item.duplicates = @ + 1]]
                  [] hash \notin s.seen /\ mine >= most ->
                        [s EXCEPT !.throttled = @ + 1, !.seen = @ \cup {hash}]
                  [] OTHER ->
                        [s EXCEPT !.items = Append(@, [hash |-> hash, item |-> FreshItem(d, r)]),
                                  !.seen = @ \cup {hash}]
        all == FoldLeft(Take, [items |-> <<>>, seen |-> {}, duplicates |-> 0, throttled |-> 0],
                        records)
    IN  [items |-> [i \in DOMAIN all.items |-> all.items[i].item],
         duplicates |-> all.duplicates, throttled |-> all.throttled]

\* handleFresh: the cursor is that of the page before anything is left out.
FreshPage(d, since, size, cursor, most) ==
    LET page == PC!Fresh(d.pc, Range(PC!PublishedPaths), since, size, cursor)
        records == [i \in DOMAIN page.items |->
                      CHOOSE r \in Range(d.pc.rec) : r.id = page.items[i]]
    IN  Suppress(d, records, most) @@ [read |-> page.items, next |-> page.cursor]

-----------------------------------------------------------------------------
(* The inbox *)

\* Contract order: the newest first, then the greater pin.
HitBefore(h, g) == h.at > g.at \/ (h.at = g.at /\ h.pin > g.pin)

\* handleInteractions: the hits behind the cursor, <<time, pin>>.
Interactions(d, owner, since, after, size) ==
    LET hits == QA!InboxHits(d.qa, owner, since) \cup SC!InboxHits(d.sc, owner, since)
        rest == {h \in hits : after # <<>> => HitBefore([at |-> after[1], pin |-> after[2]], h)}
        page == Page(SetToSortSeq(rest, HitBefore), 0, size)
    IN  page @@ [next |-> IF page.more THEN <<Last(page.items).at, Last(page.items).pin>>
                          ELSE <<>>]

-----------------------------------------------------------------------------
(* The registry of protocols *)

\* ProtocolRegistrations: the names with a member that has a record.
Registered(d) == {n \in DOMAIN d.pc.registry : PC!Registration(d.pc, n) # <<>>}

Authoritative(d, name) ==
    LET id == PC!Registration(d.pc, name)[1]
    IN  CHOOSE r \in Range(d.pc.rec) : r.path = "protocol" /\ r.id = id

\* The total order of the list: time, chain, then name.
Place(S, x) == SelectInSeq(SetToSeq(S), LAMBDA y : y = x)

RowBefore(d, n, m) ==
    LET r == Authoritative(d, n)
        s == Authoritative(d, m)
        Chain(x) == Place({k[1] : k \in DOMAIN d.pc.rec}, x.chain)
    IN  \/ r.created > s.created
        \/ /\ r.created = s.created
           /\ \/ Chain(r) < Chain(s)
              \/ Chain(r) = Chain(s) /\ Place(Registered(d), n) < Place(Registered(d), m)

ProtocolRow(d, name) ==
    LET r == Authoritative(d, name)
    IN  [name |-> name, id |-> r.id, cur |-> r.cur, confirmed |-> ~r.mem,
         conflicts |-> Len(PC!Registration(d.pc, name)) - 1]

\* handleProtocols.
Protocols(d, after, size) ==
    LET rest == {n \in Registered(d) : after # <<>> => RowBefore(d, after[1], n)}
        page == Page(Sorted(rest, LAMBDA n, m : RowBefore(d, n, m)), 0, size)
    IN  [items |-> [i \in DOMAIN page.items |-> ProtocolRow(d, page.items[i])],
         rejected |-> PC!RejectedProtocols(d.pc),
         next |-> IF page.more THEN <<Last(page.items)>> ELSE <<>>]

\* handleProtocolCheck.
Available(d, name) == name \notin Registered(d)

\* handleProtocolDetail by pin: the others under the name of the current version.
ProtocolDetail(d, pins, online, r) ==
    LET members == IF r.payload = None THEN <<>> ELSE PC!Registration(d.pc, r.payload.name)
    IN  [conflicts |-> SelectSeq(members, LAMBDA i : i # r.id),
         versions |-> VersionChain(d, pins, online, r.cur),
         invalid |-> PC!InvalidModifies(d.pc, r)]

-----------------------------------------------------------------------------
(* The search *)

\* SearchDocuments of published content and of skill services.
Documents(d) ==
    {LET doc == d.pc.docs[k]
         text == IF doc.payload = None THEN NoPin ELSE doc.payload.text
         title == IF doc.payload = None THEN "" ELSE doc.payload.name
         mark == IF doc.payload = None THEN NoPin ELSE doc.payload.video
     IN  [id |-> k[2], cur |-> doc.cur, by |-> doc.by, created |-> doc.created,
          text |-> text, title |-> title, mark |-> mark] : k \in DOMAIN d.pc.docs}
    \cup
    {[id |-> k[2], cur |-> d.ss.docs[k].cur, by |-> d.ss.rec[k].by,
      created |-> d.ss.docs[k].created, text |-> d.ss.docs[k].text, title |-> "",
      mark |-> NoPin] : k \in DOMAIN d.ss.docs}

\* handleSearch: the documents that match, rate[id] above 0, in order.
Matches(d, rate, newest) ==
    LET Ahead(x, y) ==
            \/ ~newest /\ rate[x.id] > rate[y.id]
            \/ /\ newest \/ rate[x.id] = rate[y.id]
               /\ Newer(<<x.created, x.id>>, <<y.created, y.id>>)
    IN  Sorted({x \in Documents(d) : rate[x.id] > 0}, Ahead)

\* One publisher's documents with one body, or one title but for its marker.
SameContent(x, y) ==
    /\ x.by = y.by
    /\ (x.text # NoPin /\ x.text = y.text) \/ (x.title # "" /\ x.title = y.title)

\* Mutant: documents linked only by a third stay apart.
Group_OneStep(matches, i) == {j \in DOMAIN matches : j = i \/ SameContent(matches[j], matches[i])}

\* dedupeMatches: documents linked by others are one row too.
Group(matches, i) ==
    LET reach[n \in Nat] ==
            IF n = 0 THEN {i}
            ELSE {j \in DOMAIN matches :
                    \E k \in reach[n - 1] : j = k \/ SameContent(matches[j], matches[k])}
    IN  reach[Len(matches)]

\* buildGroup: versions of one document stand behind the newest one, mere
\* copies behind the best match.
Row(matches, group) ==
    LET members == [n \in 1..Cardinality(group) |->
                      matches[Sorted(group, LAMBDA i, j : i < j)[n]]]
        later == SortSeq(members, LAMBDA x, y : x.created > y.created)
        versions == Cardinality({x.mark : x \in Range(members)}) > 1
    IN  [shown |-> (IF versions THEN later ELSE members)[1].id,
         hidden |-> Len(members) - 1,
         versions |-> IF versions THEN [i \in DOMAIN later |-> later[i].id] ELSE <<>>]

SearchRows(d, rate, newest) ==
    LET matches == Matches(d, rate, newest)
        first == SelectSeq([i \in DOMAIN matches |-> i],
                           LAMBDA i : i = Min(Group(matches, i)))
    IN  [n \in DOMAIN first |-> Row(matches, Group(matches, first[n]))]

-----------------------------------------------------------------------------
(* What the endpoints owe their readers *)

Ids(records) == {r.id : r \in records}

Visible(d) == {r \in Range(d.pc.rec) : ~r.hidden}

\* Every version leads to the same record, and the list of its versions is
\* the source and then the versions folded into it, up to the current one;
\* complete tells whether the listing service has all of them.
VersionsAgree(d, pins, complete) ==
    \A k \in DOMAIN d.pc.source, online \in BOOLEAN :
        LET r == PC!LookupByAnyPin(d.pc, k[2])
            named == {j[2] : j \in {i \in DOMAIN d.pc.source : d.pc.source[i] = r.id}}
            chain == VersionChain(d, pins, online, k[2]).versions
            listed == [i \in DOMAIN chain |-> chain[i].id]
        IN  /\ ReadPin(d, pins, online, k[2]) = ReadPin(d, pins, online, r.cur)
            /\ IsInjective(listed) /\ listed[1] = r.id
            /\ r.cur \in Range(listed) \cap named
            /\ complete /\ online /\ r.cur # r.id =>
                  Range(listed) \ Range(PC!InvalidModifies(d.pc, r)) = named

\* The feed read to its end has every visible record once, and every entry of
\* a page that is not shown is counted: it is a copy of an entry of that page,
\* or its author has the most entries already.
Accounted(p, most) ==
    LET By(x) == {j \in DOMAIN p.items : p.items[j].by = x}
        copies == [j \in DOMAIN p.items |-> p.items[j].duplicates]
    IN  /\ Len(p.items) + p.duplicates + p.throttled = Len(p.read)
        /\ FoldLeft(LAMBDA x, y : x + y, 0, copies) <= p.duplicates
        /\ \A j \in DOMAIN p.items : Cardinality(By(p.items[j].by)) <= most
        /\ p.throttled > 0 => \E j \in DOMAIN p.items : Cardinality(By(p.items[j].by)) = most

AllAccounted(d, pages, most) ==
    /\ Lists(FlattenSeq([i \in DOMAIN pages |-> pages[i].read]), Ids(Visible(d)))
    /\ \A i \in DOMAIN pages : Accounted(pages[i], most)

FreshServed(d) ==
    \A size \in 2..3, most \in 1..2 :
        AllAccounted(d, Turned(LAMBDA c : FreshPage(d, 0, size, c, most), Cardinality(d.pc.fresh)),
                     most)

\* The inbox read to its end has every interaction of the unbounded one, in
\* order.
InOrder(list, hits) ==
    /\ {h.pin : h \in Range(list)} = {h.pin : h \in hits}
    /\ \A i, j \in DOMAIN list : i < j => ~HitBefore(list[j], list[i])

InboxServed(d) ==
    \A owner \in {r.by : r \in Range(d.pc.rec)}, size \in 1..2 :
        LET hits == QA!InboxHits(d.qa, owner, 0) \cup SC!InboxHits(d.sc, owner, 0)
        IN  InOrder(AllOf(Turned(LAMBDA c : Interactions(d, owner, 0, c, size),
                                 Cardinality(hits))), hits)

\* The registry read to its end has every name once, with the number of the
\* others that claim it; a name is free unless it is in there; and each
\* claimant names the others.
RegistryAgrees(d, pins, list) ==
    LET claims == {r \in Visible(d) : r.path = "protocol" /\ PC!RegistrationKey(r) # ""}
        Claiming(n) == {r \in claims : PC!RegistrationKey(r) = n}
    IN  /\ Lists([i \in DOMAIN list |-> list[i].name], {PC!RegistrationKey(r) : r \in claims})
        /\ \A i \in DOMAIN list :
              /\ ~Available(d, list[i].name)
              /\ list[i].conflicts = Cardinality(Claiming(list[i].name)) - 1
              /\ \A r \in Claiming(list[i].name) :
                    Lists(ProtocolDetail(d, pins, FALSE, r).conflicts,
                          Ids(Claiming(list[i].name) \ {r}))

RegistryServed(d, pins) ==
    RegistryAgrees(d, pins, AllOf(Turned(LAMBDA c : Protocols(d, c, 1),
                                         Cardinality(DOMAIN d.pc.registry))))

\* Every visible record and every service not revoked is in one row, shown
\* or counted, no two rows share content, and the versions of a row are
\* headed by the newest.
SearchServed(d) ==
    LET services == {r \in Range(d.ss.rec) : ~r.revoked}
        rate == [x \in Ids(Range(d.pc.rec)) \cup Ids(Range(d.ss.rec)) |-> 1]
        docs == Documents(d)
        Doc(id) == CHOOSE x \in docs : x.id = id
    IN  \A newest \in BOOLEAN :
            LET rows == SearchRows(d, rate, newest)
                hidden == [i \in DOMAIN rows |-> rows[i].hidden]
            IN  /\ Len(rows) + FoldLeft(LAMBDA x, y : x + y, 0, hidden)
                      = Cardinality(Visible(d)) + Cardinality(services)
                /\ \A i, j \in DOMAIN rows :
                      SameContent(Doc(rows[i].shown), Doc(rows[j].shown)) => i = j
                /\ \A i \in DOMAIN rows : \A v \in Range(rows[i].versions) :
                      Doc(v).created <= Doc(rows[i].shown).created

=============================================================================
