-------------------------- MODULE PublishedContent --------------------------
(***************************************************************************)
(* Published content (internal/aggregator/publishedcontent): the versions  *)
(* of a post, an app, a protocol, a question or an answer folded into one  *)
(* record, the lists and the feed of new content served from it, and the   *)
(* registry of protocols, in which the first valid registration of a path  *)
(* is the authoritative one.  The stored data, db, has a component per     *)
(* family of keys:                                                         *)
(*   rec       record:        <<chain, path, source pin>> -> record        *)
(*   source    pin_to_source: <<chain, pin>> -> source pin                 *)
(*   identity  by_global:, by_metaid:, by_address:                         *)
(*             {<<path, family, name of publisher, chain, time, source>>}  *)
(*   time      by_time:, of visible apps only  {<<chain, time, source>>}   *)
(*   fresh     fresh:         {<<chain, path, created, source>>}           *)
(*   registry  by_protocol_path: path name -> set of members               *)
(*   invalid   invalid_modify: <<chain, source, modify pin>> -> its time   *)
(*   docs      the search snapshot in memory, by <<chain, source pin>>     *)
(* The handlers take no lock but those of the registry and the snapshot,   *)
(* and both goroutines of the engine call them: here each is one step.     *)
(* The payload of a version is its pin, with what the readers look at: the *)
(* path a protocol registers (title), the app an app was forked from       *)
(* (quote), its video (val).                                               *)
(***************************************************************************)
EXTENDS Records

\* publishedProtocolPaths, in the order a target is looked for; a version may
\* also name nothing but its target.
PublishedPaths == <<"post", "app", "protocol", "q", "a">>

InitDb ==
    [rec |-> <<>>, source |-> <<>>, identity |-> {}, time |-> {}, fresh |-> {},
     registry |-> <<>>, invalid |-> <<>>, docs |-> <<>>]

-----------------------------------------------------------------------------
(* Records and their indexes *)

Key(r) == <<r.chain, r.path, r.id>>

LoadRecord(db, chain, path, id) == Entry(db.rec, <<chain, path, id>>)

\* sourcePinIdFor: a source pin leads to itself, so the walk ends there.
SourcePinIdFor(db, chain, id) ==
    IF <<chain, id>> \in DOMAIN db.source THEN db.source[chain, id] ELSE id

LoadByAnyPin(db, chain, path, id) == LoadRecord(db, chain, path, SourcePinIdFor(db, chain, id))

SortTime(r) == IF r.path = "post" THEN r.created ELSE r.updated

\* The names under which a publisher is indexed; the chain may or may not
\* spell out the metaid, and not doing so names the address instead.
Publisher(p) ==
    [global |-> <<"globalid", p.by>>, address |-> <<"address", p.by>>,
     metaid |-> IF p.meta THEN <<"metaid", p.by>> ELSE <<"address", p.by>>]

IdentityKeys(r) ==
    {<<r.path, family, r.names[family], r.chain, SortTime(r), r.id>> : family \in DOMAIN r.names}

TimeKeys(r) == IF r.path = "app" /\ ~r.hidden THEN {<<r.chain, SortTime(r), r.id>>} ELSE {}

FreshKeys(r) == IF r.hidden THEN {} ELSE {<<r.chain, r.path, r.created, r.id>>}

\* deleteTimeIndex and deleteFreshIndex do not ask whether it was hidden.
Shown(r) == [r EXCEPT !.hidden = FALSE]

IsRevoked(r) == r.hidden \/ r.op = "revoke"

-----------------------------------------------------------------------------
(* The registry of protocols *)

\* protocolRegistrationKey: "" for what registers nothing.
RegistrationKey(r) ==
    IF r = None THEN ""
    ELSE IF r.path # "protocol" \/ IsRevoked(r) \/ r.payload = None THEN "" ELSE r.payload.name

Member(r) == [id |-> r.id, chain |-> r.chain, created |-> r.created, confirmed |-> ~r.mem]

\* registryMemberLess.
MemberLess(m, n) ==
    \/ m.created < n.created
    \/ m.created = n.created /\ m.confirmed /\ ~n.confirmed
    \/ m.created = n.created /\ m.confirmed = n.confirmed /\ m.id < n.id

MembersOf(db, name) == IF name \in DOMAIN db.registry THEN db.registry[name] ELSE {}

WriteMembers(db, name, members) ==
    [db EXCEPT !.registry = IF members = {} THEN Without(@, {name}) ELSE With(@, name, members)]

Others(members, r) == {m \in members : m.id # r.id \/ m.chain # r.chain}

\* Mutant: a protocol that moves stays registered under the path it left.
MaintainRegistry_NoMove(db, r, prev) ==
    LET new == RegistrationKey(r)
    IN  IF new = "" THEN db
        ELSE WriteMembers(db, new, Others(MembersOf(db, new), r) \cup {Member(r)})

\* maintainProtocolRegistry: a modify may move a record from path to path.
MaintainRegistry(db, r, prev) ==
    LET old == RegistrationKey(prev)
        new == RegistrationKey(r)
        d == IF old # "" /\ old # new
             THEN WriteMembers(db, old, Others(MembersOf(db, old), prev)) ELSE db
    IN  IF new = "" THEN d
        ELSE WriteMembers(d, new, Others(MembersOf(d, new), r) \cup {Member(r)})

-----------------------------------------------------------------------------
(* Saving *)

\* searchDocumentFromRecord.
SearchDoc(r) ==
    [path |-> r.path, cur |-> r.cur, payload |-> r.payload, by |-> r.by,
     created |-> r.created, updated |-> r.updated]

RefreshSearchDocument(db, r) ==
    LET key == <<r.chain, r.id>>
    IN  [db EXCEPT !.docs = IF IsRevoked(r) THEN Without(@, {key}) ELSE With(@, key, SearchDoc(r))]

\* saveRecord: the keys of the record it replaces go first.
SaveRecord(db, r, prev) ==
    LET Old(keys) == IF prev = None THEN {} ELSE keys
        d == [db EXCEPT
                !.rec = With(@, Key(r), r),
                !.source = With(@, <<r.chain, r.cur>>, r.id),
                !.identity = (@ \ Old(IdentityKeys(prev))) \cup IdentityKeys(r),
                !.time = (@ \ Old(TimeKeys(Shown(prev)))) \cup TimeKeys(r),
                !.fresh = (@ \ Old(FreshKeys(Shown(prev)))) \cup FreshKeys(r)]
    IN  RefreshSearchDocument(MaintainRegistry(d, r, prev), r)

-----------------------------------------------------------------------------
(* Versions *)

Payload(p) ==
    IF ~p.body THEN None
    ELSE [kind |-> "payload", text |-> IF p.copy = NoPin THEN p.id ELSE p.copy,
          name |-> p.title, fork |-> p.quote, video |-> p.val, off |-> p.off]

NewRecord(p, path, id) ==
    [kind |-> "published", id |-> id, path |-> path, chain |-> p.chain, cur |-> p.id,
     by |-> p.by, names |-> Publisher(p), creator |-> p.by, op |-> p.op, hidden |-> FALSE,
     mem |-> p.mem, payload |-> Payload(p), created |-> p.at, updated |-> p.at]

\* mergeConfirmedReplayWithPendingCurrent: a newer version that waits in the
\* mempool stays in front of the one being confirmed.
KeepPending(prev, r, p) ==
    IF ~p.mem /\ prev.mem /\ prev.cur \notin {prev.id, p.id}
    THEN [r EXCEPT !.cur = prev.cur, !.op = prev.op, !.hidden = prev.hidden, !.mem = TRUE,
                   !.payload = prev.payload, !.updated = prev.updated]
    ELSE r

\* processCreate: only a confirmation changes a record that is there.
ProcessCreate(db, p) ==
    LET prev == LoadRecord(db, p.chain, p.kind, p.id)
        r == NewRecord(p, p.kind, p.id)
    IN  CASE prev = None -> SaveRecord(db, r, None)
          [] prev # None /\ ~p.mem /\ prev.mem -> SaveRecord(db, KeepPending(prev, r, p), prev)
          [] OTHER -> db

\* Mutant: a modify counts as a new creation.
Modified_Recreated(prev, p) ==
    [NewRecord(p, prev.path, prev.id) EXCEPT
        !.creator = prev.creator,
        !.payload = IF @ = None THEN prev.payload ELSE @,
        !.op = IF prev.op = "revoke" THEN "revoke" ELSE @,
        !.hidden = prev.op = "revoke"]

\* processModify: the version that arrives is the current one, but a record
\* once revoked stays so, and a protocol listens to its publisher only.
Modified(prev, p) ==
    [NewRecord(p, prev.path, prev.id) EXCEPT
        !.created = prev.created, !.creator = prev.creator,
        !.payload = IF @ = None THEN prev.payload ELSE @,
        !.op = IF prev.op = "revoke" THEN "revoke" ELSE @,
        !.hidden = prev.op = "revoke"]

\* processRevoke.
Revoked(prev, p) ==
    [prev EXCEPT !.op = "revoke", !.hidden = TRUE, !.mem = p.mem, !.cur = p.id, !.updated = p.at]

IsForged(prev, p) == p.op = "modify" /\ prev.path = "protocol" /\ p.by # prev.by

\* protocolPathForTargetPin.
PathOfTarget(db, p) ==
    LET paths == SelectSeq(PublishedPaths, LAMBDA f : LoadByAnyPin(db, p.chain, f, p.ref) # None)
    IN  IF paths = <<>> THEN "" ELSE paths[1]

ProcessVersion(db, p) ==
    LET path == IF p.kind = "version" THEN PathOfTarget(db, p) ELSE p.kind
        prev == LoadByAnyPin(db, p.chain, path, p.ref)
        r == KeepPending(prev, IF p.op = "modify" THEN Modified(prev, p) ELSE Revoked(prev, p), p)
        saved == SaveRecord(db, r, prev)
    IN  CASE p.ref \in {NoPin, p.id} \/ prev = None -> db
          [] IsForged(prev, p) ->
                [db EXCEPT !.invalid = With(@, <<p.chain, prev.id, p.id>>, p.at)]
          [] OTHER -> [saved EXCEPT !.source = With(@, <<p.chain, p.id>>, prev.id)]

ProcessPin(db, p) ==
    CASE p.kind \in Range(PublishedPaths) /\ p.op = "create" -> ProcessCreate(db, p)
      [] p.kind \in Range(PublishedPaths) \cup {"version"} /\ p.op # "create" ->
            ProcessVersion(db, p)
      [] OTHER -> db

-----------------------------------------------------------------------------
(* The start of the aggregator, the backfill and the replay of blocks *)

\* rebuildProtocolRegistry.
RebuildRegistry(db) ==
    LET Of(name) == {r \in Range(db.rec) : RegistrationKey(r) = name}
        names == {RegistrationKey(r) : r \in Range(db.rec)} \ {""}
    IN  [db EXCEPT !.registry = [n \in names |-> {Member(r) : r \in Of(n)}]]

\* rebuildSearchDocuments.
RebuildSearchDocuments(db) ==
    FoldSet(LAMBDA r, d : RefreshSearchDocument(d, r), [db EXCEPT !.docs = <<>>], Range(db.rec))

OnInit(db) == RebuildSearchDocuments(RebuildRegistry(db))

\* Backfill: path after path what is listed there since the window began,
\* oldest first; then, level by level, the versions listed under each pin
\* that has some, in the order in which those pins were met.
ListedAt(pins, path, since) == {p \in pins : p.kind = path /\ p.ts >= since}

VersionsOf(pins, id, since) == {p \in pins : p.kind = "version" /\ p.ref = id /\ p.ts >= since}

InTime(pins) == Sorted(pins, LAMBDA p, q : p.ts < q.ts)

BackfillPath(pins, path, since) ==
    LET Replay(id) == InTime(VersionsOf(pins, id, since))
        Below(level) == FlattenSeq([i \in DOMAIN level |-> Replay(level[i].id)])
        levels[n \in Nat] ==
            IF n = 0 THEN Reverse(InTime(ListedAt(pins, path, since))) ELSE Below(levels[n - 1])
        depth == Cardinality(pins)
    IN  Reverse(levels[0]) \o FlattenSeq([n \in 1..depth |-> levels[n]])

BackfillOrder(pins, since) ==
    FlattenSeq([i \in DOMAIN PublishedPaths |-> BackfillPath(pins, PublishedPaths[i], since)])

\* ReplayBlocks, with its default paths: the blocks again in their order, but
\* no version that names nothing but its target.
ReplayedByBlocks(pins) == InTime({p \in pins : p.kind \in {"post", "app"}})

-----------------------------------------------------------------------------
(* Reads *)

\* List: of one publisher by an index, of all by a sort of the records.
ListAll == <<"all", NoPin>>

ListPublished(db, path, family, name) ==
    LET Matches(r) == /\ r # None
                      /\ r.path = path /\ ~r.hidden
                      /\ name # ListAll => r.names[family] = name
        scanned == Scan({k \in db.identity : k[1] = path /\ k[2] = family /\ k[3] = name})
        Of(id) == LET rs == {r \in Range(db.rec) : r.path = path /\ r.id = id}
                  IN  IF rs = {} THEN None ELSE CHOOSE r \in rs : TRUE
        all == Sorted({r \in Range(db.rec) : Matches(r)},
                            LAMBDA r, s : \/ SortTime(r) > SortTime(s)
                                          \/ SortTime(r) = SortTime(s) /\ r.id > s.id)
    IN  IF name # ListAll THEN SelectSeq(scanned, LAMBDA id : Matches(Of(id)))
        ELSE [i \in DOMAIN all |-> all[i].id]

\* The order of the fresh index: newest first, then by pin.
Fresher(k, j) == k[3] > j[3] \/ (k[3] = j[3] /\ k[4] < j[4])

\* Fresh: a page starts behind the key its cursor names, and one entry more
\* than a page tells whether there is a next one.
Fresh(db, paths, since, size, cursor) ==
    LET Serves(k) ==
            /\ k[2] \in paths /\ k[3] >= since
            /\ cursor # <<>> => Fresher(cursor, k)
            /\ LoadRecord(db, k[1], k[2], k[4]) # None
            /\ ~IsRevoked(LoadRecord(db, k[1], k[2], k[4]))
        found == Sorted({k \in db.fresh : Serves(k)}, Fresher)
    IN  [items |-> [i \in 1..Min({size, Len(found)}) |-> found[i][4]],
         cursor |-> IF Len(found) > size THEN found[size] ELSE <<>>]

Apps(db) ==
    {r \in {LoadRecord(db, k[1], "app", k[3]) : k \in db.time} : r # None /\ ~r.hidden}

IsDisabled(r) == r.payload # None /\ r.payload.off

\* collectMetaAppMatches and ListMetaApps.
AppMatches(db, since, by, withDisabled) ==
    {r \in Apps(db) : /\ SortTime(r) >= since
                      /\ withDisabled \/ ~IsDisabled(r)
                      /\ by # NoPin => r.by = by}

UpdatedLater(r, s) == SortTime(r) > SortTime(s) \/ (SortTime(r) = SortTime(s) /\ r.id < s.id)

ListMetaApps(db, since, by, withDisabled) ==
    Sorted(AppMatches(db, since, by, withDisabled), UpdatedLater)

\* listMetaAppsByPreference, with the summary of every app's video: a score is
\* a fraction, and what has none comes last in either direction.
VideoOf(r) == IF r.payload = None THEN NoPin ELSE r.payload.video

ListByPreference(db, summary, ascending) ==
    LET Of(r) == summary[r.chain, VideoOf(r)]
        Higher(x, y) == x[1] * y[2] > y[1] * x[2]
        Ahead(r, s) ==
            CASE (Of(r).score = <<>>) # (Of(s).score = <<>>) -> Of(s).score = <<>>
              [] Of(r).score # Of(s).score -> Higher(Of(r).score, Of(s).score) # ascending
              [] Of(r).comparisons # Of(s).comparisons -> Of(r).comparisons > Of(s).comparisons
              [] OTHER -> UpdatedLater(r, s)
    IN  Sorted(AppMatches(db, 0, NoPin, FALSE), Ahead)

\* findMetaAppRecord: a source or current pin of a listed app, else any
\* version on a chain that has one.
FindMetaApp(db, id) ==
    LET named == {r \in Apps(db) : id \in {r.id, r.cur}}
        behind == {LoadByAnyPin(db, k[1], "app", id) : k \in db.time} \ {None}
    IN  IF named # {} THEN CHOOSE r \in named : TRUE
        ELSE IF behind # {} THEN CHOOSE r \in behind : TRUE ELSE None

\* ListMetaAppForks: what was forked from any version of the app.
ForksOf(db, r) ==
    LET IsFork(s) == /\ s.chain = r.chain /\ s.id # r.id
                     /\ s.payload # None
                     /\ s.payload.fork # NoPin
                     /\ \/ s.payload.fork \in {r.id, r.cur}
                        \/ SourcePinIdFor(db, s.chain, s.payload.fork) = r.id
    IN  Sorted({s \in Apps(db) : IsFork(s)},
                     LAMBDA s, t : s.created > t.created \/ (s.created = t.created /\ s.id < t.id))

\* LookupByAnyPinId and ResolveMetaAppSnapshot.
LookupByAnyPin(db, id) ==
    LET found == {LoadByAnyPin(db, k[1], k[2], id) : k \in DOMAIN db.rec} \ {None}
    IN  IF found = {} THEN None ELSE CHOOSE r \in found : TRUE

ResolveSnapshot(db, chain, id) ==
    LET r == LoadByAnyPin(db, chain, "app", id)
    IN  IF r = None THEN None
        ELSE [kind |-> "snapshot", root |-> r.id, cur |-> r.cur, by |-> r.by,
              creator |-> r.creator, video |-> VideoOf(r)]

\* protocolRegistrationFromState: the members that still have a record.
Registration(db, name) ==
    LET ms == Sorted(MembersOf(db, name), MemberLess)
        held == SelectSeq(ms, LAMBDA m : LoadRecord(db, m.chain, "protocol", m.id) # None)
    IN  [i \in DOMAIN held |-> held[i].id]

\* RejectedProtocolRecords and InvalidModifies.
RejectedProtocols(db) ==
    LET protocols == {r \in Range(db.rec) : r.path = "protocol" /\ ~IsRevoked(r)}
    IN  {r.id : r \in {s \in protocols : RegistrationKey(s) = ""}}

InvalidModifies(db, r) ==
    LET ks == Sorted({k \in DOMAIN db.invalid : k[1] = r.chain /\ k[2] = r.id},
                           LAMBDA j, k : \/ db.invalid[j] < db.invalid[k]
                                         \/ db.invalid[j] = db.invalid[k] /\ j[3] < k[3])
    IN  [i \in DOMAIN ks |-> ks[i][3]]

-----------------------------------------------------------------------------
(* What the stored data owe their readers *)

\* Every record that is not revoked is in the lists of its path and of its
\* publisher, in the feed of new content and, an app, in the app list, each
\* time once; any version of a record leads to it; every protocol is either
\* registered under the path it names or rejected, the earliest registration
\* in front; and the registry and the search snapshot are those that a start
\* of the process would build.
ServedOnce(db) ==
    LET visible == {r \in Range(db.rec) : ~r.hidden}
        Ids(rs) == {r.id : r \in rs}
        Of(path) == {r \in visible : r.path = path}
        names == {RegistrationKey(r) : r \in Of("protocol")} \ {""}
        fresh == Fresh(db, Range(PublishedPaths), 0, Cardinality(db.fresh), <<>>)
    IN  /\ \A path \in Range(PublishedPaths) :
              /\ Lists(ListPublished(db, path, "all", ListAll), Ids(Of(path)))
              /\ \A r \in Of(path), f \in {"global", "metaid", "address"} :
                    Lists(ListPublished(db, path, f, r.names[f]),
                          Ids({s \in Of(path) : s.names[f] = r.names[f]}))
        /\ Lists(fresh.items, Ids(visible))
        /\ LET listed == ListMetaApps(db, 0, NoPin, TRUE)
           IN  Lists([i \in DOMAIN listed |-> listed[i].id], Ids(Of("app")))
        /\ \A k \in DOMAIN db.source : LookupByAnyPin(db, k[2]) \in Range(db.rec)
        /\ \A r \in visible : LookupByAnyPin(db, r.cur) = r
        /\ \A name \in names :
              LET held == {r \in Of("protocol") : RegistrationKey(r) = name}
                  order == Registration(db, name)
              IN  /\ Lists(order, Ids(held))
                  /\ \A r \in held : r.id = order[1] => \A s \in held : r.created <= s.created
        /\ RejectedProtocols(db) =
              Ids(Of("protocol")) \ UNION {Range(Registration(db, n)) : n \in DOMAIN db.registry}
        /\ \A r \in Of("app") :
              /\ \A k \in DOMAIN db.source :
                    LoadByAnyPin(db, k[1], "app", k[2]) = r => FindMetaApp(db, k[2]) = r
              /\ LET forks == ForksOf(db, r)
                     IsOf(s) == s.payload # None /\ s # r /\ s.payload.fork # NoPin
                                /\ FindMetaApp(db, s.payload.fork) = r
                 IN  Lists(forks, {s \in Of("app") : s.chain = r.chain /\ IsOf(s)})
        /\ RebuildRegistry(db).registry = db.registry
        /\ RebuildSearchDocuments(db).docs = db.docs

\* What a reader can see of the records once their versions are confirmed.
Readable(db) == <<db.rec, db.invalid>>

=============================================================================
