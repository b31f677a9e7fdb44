---------------------------- MODULE BotHomepage ----------------------------
(***************************************************************************)
(* The homepage of a bot (internal/aggregator/bothomepage) and the search  *)
(* for bots (botsearch).  Neither keeps data of its own: a read sees d,    *)
(* the stored data of the other aggregators, and net, who is online.  A    *)
(* page comes in three versions: 1 has a list of services, 2 and 3 have    *)
(* sections, each with the newest few and whether there are more.          *)
(*                                                                         *)
(* Left out: the thirty seconds for which version 3 may be answered from a *)
(* cache, the section of chats (PrivateChat), and how texts match a query, *)
(* which is given as a number.                                             *)
(***************************************************************************)
EXTENDS Records

UI == INSTANCE UserInfo
SS == INSTANCE SkillService
PC == INSTANCE PublishedContent
GC == INSTANCE GroupChat

-----------------------------------------------------------------------------
(* Who is online.  net.local and net.global hold at most one list, none if *)
(* the socket server or the federation is disabled.                        *)

\* identityCandidates.
Aliases(r) == {r.gid, r.meta, r.addr}

\* findPresence: the first entry under any alias.
FindPresence(entries, r) ==
    LET i == SelectInSeq(entries, LAMBDA e : e.who \in Aliases(r))
    IN  IF i = 0 THEN None ELSE entries[i]

FindIn(lists, r) == IF lists = <<>> THEN None ELSE FindPresence(lists[1], r)

\* resolvePresence of the homepage: the federated list, then the local one.
Presence(net, r) ==
    LET federated == FindIn(net.global, r)
        local == FindIn(net.local, r)
    IN  CASE federated # None -> [state |-> "online", at |-> federated.seen, by |-> "federated"]
          [] federated = None /\ local # None ->
                [state |-> "online", at |-> local.seen, by |-> "local"]
          [] OTHER -> [state |-> "unknown"]

\* presenceAvailable and presenceSnapshot of the search: one list or the other.
PresenceAvailable(net) == net.local # <<>> \/ net.global # <<>>

PresenceSnapshot(net) == IF net.global # <<>> THEN net.global ELSE net.local

-----------------------------------------------------------------------------
(* The homepage *)

\* toProfile; proofs name the pins of what it has (buildProfileProofs).
Profile(r) == r.field

ProfileProofs(r) == {f \in UI!Paths : r.field[f].id # NoPin}

\* buildProfileV3: a block of JSON is shown only with the pin it comes from.
ProfileV3(r) == [r.field EXCEPT !["persona"] = IF @.id = NoPin THEN UI!Empty ELSE @]

\* What a reader can do: buildActions.
Actions(r, services) ==
    {"copy-uri"} \cup (IF r.field["chatpubkey"].val # NoPin THEN {"message"} ELSE {})
                 \cup (IF services # <<>> THEN {"services"} ELSE {})

\* sectionWithItems: lists are read one entry beyond the limit.
Section(items, more, limit) ==
    [items |-> SubSeq(items, 1, Min({limit, Len(items)})), more |-> more \/ Len(items) > limit]

\* loadServices: version 1 asks the marketplace.
LoadServices(d, r, size) ==
    Page(SS!ListServices(d.ss, r.gid[2], FALSE, "updated", TRUE), 0, size).items

\* loadServicesSection: the others ask for the homepage of the provider.
ServicesSection(d, r, limit) ==
    LET page == SS!Homepage(d.ss, UI!Known(d.ui), r.gid[2], limit + 1)
    IN  Section(page.items, page.more, limit)

RecordOf(d, id) == CHOOSE s \in Range(d.pc.rec) : s.id = id

\* publishedContentIdentityQueries: by global id, by metaid, by address.
Queries(d, r, path, size) ==
    LET Query(family, name) == Page(PC!ListPublished(d.pc, path, family, name), 0, size)
    IN  <<Query("global", r.gid), Query("metaid", r.meta), Query("address", r.addr)>>

\* Records found under several names once, the newest first.
Merged(d, queries, size) ==
    LET Ahead(i, j) == LET r == RecordOf(d, i) s == RecordOf(d, j)
                       IN  \/ PC!SortTime(r) > PC!SortTime(s)
                           \/ PC!SortTime(r) = PC!SortTime(s) /\ i < j
        all == Sorted(UNION {Range(q.items) : q \in Range(queries)}, Ahead)
    IN  [items |-> SubSeq(all, 1, Min({size, Len(all)})),
         more |-> (\E q \in Range(queries) : q.more) \/ Len(all) > size]

\* loadPublishedContentByCanonicalIdentity: apps found under the global id
\* are all that is looked for.
Chosen(d, path, queries, size) ==
    IF path = "app" /\ queries[1].items # <<>> THEN queries[1] ELSE Merged(d, queries, size)

PublishedBy(d, r, path, size) == Chosen(d, path, Queries(d, r, path, size), size)

\* loadPublishedContentSection.
Limited(found, limit) == Section(found.items, found.more, limit)

PublishedSection(d, r, path, limit) == Limited(PublishedBy(d, r, path, limit + 1), limit)

\* loadPublishedContentSectionV3: without what has no payload, and the empty
\* section if nothing is left.
WithPayload(d, found, limit) ==
    LET items == SelectSeq(found.items, LAMBDA i : RecordOf(d, i).payload # None)
    IN  IF items = <<>> THEN Section(<<>>, FALSE, limit) ELSE Section(items, found.more, limit)

PublishedSectionV3(d, r, path, limit) ==
    WithPayload(d, PublishedBy(d, r, path, limit + 1), limit)

\* The published content of loadSections; nothing here publishes skills.
SectionPaths(version) == IF version = 1 THEN {} ELSE {"app", "post"}

\* Build, of version 1 or 2, for a global id.
Homepage(d, net, gid, limit, version) ==
    LET r == UI!Lookup(d.ui, gid)
        services == IF version = 1 THEN Section(LoadServices(d, r, limit), FALSE, limit)
                    ELSE ServicesSection(d, r, limit)
    IN  IF r = None THEN None
        ELSE [gid |-> r.gid, profile |-> Profile(r), proofs |-> ProfileProofs(r),
              presence |-> Presence(net, r), services |-> services,
              actions |-> Actions(r, services.items),
              section |-> [path \in SectionPaths(version) |->
                              PublishedSection(d, r, path, limit)]]

\* BuildV3.
HomepageV3(d, net, gid, limit) ==
    LET r == UI!Lookup(d.ui, gid)
    IN  IF r = None THEN None
        ELSE [gid |-> r.gid, profile |-> ProfileV3(r), presence |-> Presence(net, r),
              services |-> ServicesSection(d, r, limit),
              section |-> [path \in {"app", "post"} |-> PublishedSectionV3(d, r, path, limit)]]

-----------------------------------------------------------------------------
(* The search *)

\* BotSearchProfiles: the profiles with something to search for.
Corpus(d) == {r \in Range(d.ui.prof) : UI!IsSearchable(r)}

GroupHistory(d, r) == GC!History(d.gc, Aliases(r))

\* A request: onlyOnline, withKey, without (a set of global ids), and how
\* well each profile matches, rate[metaid], none of which is 0.
Matching(d, net, q) ==
    LET snapshot == PresenceSnapshot(net)
    IN  {r \in Corpus(d) :
            /\ q.withKey => r.field["chatpubkey"].val # NoPin
            /\ r.gid \notin q.without
            /\ q.onlyOnline => FindIn(snapshot, r) # None
            /\ q.rate[r.meta] > 0}

RanksBefore(q, r, s) ==
    LET a == <<-q.rate[r.meta], r.field["name"].val, r.gid[2]>>
        b == <<-q.rate[s.meta], s.field["name"].val, s.gid[2]>>
    IN  \E n \in 1..3 : a[n] < b[n] /\ \A m \in 1..(n - 1) : a[m] = b[m]

Candidate(d, net, r) ==
    LET history == GroupHistory(d, r)
    IN  [meta |-> r.meta, gid |-> r.gid, online |-> FindIn(PresenceSnapshot(net), r) # None,
         hasKey |-> r.field["chatpubkey"].val # NoPin, tasks |-> Cardinality(history),
         published |-> SS!PublishedServices(d.ss, r.gid[2])]

\* handleSearch: from an offset, the cursor.
Search(d, net, q, offset, size) ==
    LET ranked == SetToSortSeq(Matching(d, net, q), LAMBDA r, s : RanksBefore(q, r, s))
        page == Page(ranked, Min({offset, Len(ranked)}), size)
    IN  IF q.onlyOnline /\ ~PresenceAvailable(net) THEN [error |-> "presence unavailable"]
        ELSE [items |-> [i \in DOMAIN page.items |-> Candidate(d, net, page.items[i])],
              next |-> IF page.more THEN <<offset + size>> ELSE <<>>]

-----------------------------------------------------------------------------
(* What the endpoints owe their readers *)

Offline == [local |-> <<<<>>>>, global |-> <<>>]

\* One device, under the given name.
Online(name) == [local |-> <<<<[who |-> name, seen |-> 1]>>>>, global |-> <<>>]

\* The page of a known bot: a section has the newest entries there are, as
\* many as fit, and says whether there are more; without the entries that
\* have no payload it says so unless it is empty; the services of version 1
\* are those of the sections; and a bot online under any name is online.
HomepagesAgree(d, gid, limit, first, second, third) ==
    LET services == {s.id : s \in {t \in Range(d.ss.rec) : t.by = gid[2] /\ SS!IsVisible(t)}}
        Records(path) == {s \in Range(d.pc.rec) : s.path = path /\ s.by = gid[2] /\ ~s.hidden}
        Ids(rs) == {s.id : s \in rs}
        Full(section, ids) ==
            /\ IsInjective(section.items) /\ Range(section.items) \subseteq ids
            /\ Len(section.items) = Min({limit, Cardinality(ids)})
            /\ section.more = (Cardinality(ids) > limit)
        Newest(items, rs) ==
            \A s \in rs : s.id \notin Range(items) =>
                \A i \in Range(items) : PC!SortTime(RecordOf(d, i)) >= PC!SortTime(s)
    IN  /\ Full(second.services, services) /\ Full(third.services, services)
        /\ first.services.items = <<>> <=> services = {}
        /\ Cardinality(services) <= limit =>
              Range(first.services.items) = Range(third.services.items)
        /\ \A path \in {"app", "post"} :
              LET all == Records(path)
                  shown == {s \in all : s.payload # None}
                  v2 == second.section[path]
                  v3 == third.section[path]
              IN  /\ Full(v2, Ids(all)) /\ Newest(v2.items, all)
                  /\ IsInjective(v3.items) /\ Newest(v3.items, shown)
                  /\ Range(v3.items) \subseteq Ids(shown)
                  /\ ~v3.more /\ v3.items # <<>> => Range(v3.items) = Ids(shown)
        /\ LET r == UI!Lookup(d.ui, gid)
           IN  \A name \in Aliases(r) : Presence(Online(name), r).state = "online"

HomepageServed(d, limit) ==
    \A gid \in {i \in DOMAIN d.ui.alias : i[1] = "globalid"} :
        HomepagesAgree(d, gid, limit, Homepage(d, Offline, gid, limit, 1),
                       Homepage(d, Offline, gid, limit, 2), HomepageV3(d, Offline, gid, limit))

\* The search followed by its cursors lists every bot that is asked for once,
\* the better match first, online under whichever name; and what it says a
\* bot has published is on the homepage of that bot.
BotsServed(d) ==
    LET bots == Corpus(d)
        Query(best, withKey, onlyOnline, without) ==
            [withKey |-> withKey, onlyOnline |-> onlyOnline, without |-> without,
             rate |-> [m \in DOMAIN d.ui.prof |-> IF m = best THEN 2 ELSE 1]]
        List(net, q) ==
            AllOf(Turned(LAMBDA c : Search(d, net, q, IF c = <<>> THEN 0 ELSE c[1], 1),
                         Cardinality(bots)))
        Names(list, rs) == Lists([i \in DOMAIN list |-> list[i].meta], {r.meta : r \in rs})
        Offered(r) == {d.ss.rec[k].text : k \in {j \in DOMAIN d.ss.rec :
            d.ss.rec[j].id \in Range(ServicesSection(d, r, Cardinality(DOMAIN d.ss.rec)).items)}}
    IN  \A r \in bots :
            /\ LET list == List(Offline, Query(r.meta, FALSE, FALSE, {}))
               IN  /\ Names(list, bots)
                   /\ list[1].meta = r.meta
                   /\ list[1].published \subseteq Offered(r)
            /\ LET keyed == {s \in bots : s.field["chatpubkey"].val # NoPin /\ s.gid # r.gid}
               IN  Names(List(Offline, Query(r.meta, TRUE, FALSE, {r.gid})), keyed)
            /\ \A name \in Aliases(r) :
                  Names(List(Online(name), Query(r.meta, FALSE, TRUE, {})),
                        {s \in bots : name \in Aliases(s)})

=============================================================================
