------------------------------ MODULE UserInfo ------------------------------
(***************************************************************************)
(* User profiles (internal/aggregator/userinfo): the last /info pin of     *)
(* every path folded into one profile per user, the identities that lead   *)
(* to it, the search documents kept in memory, the index of the earliest   *)
(* registration behind prefix lookups, and the completion of a local       *)
(* profile from a remote service.  All writers hold profileWriteMu, so     *)
(* each is one step; a remote completion reads before it takes the lock    *)
(* and is two.  The stored data, db, has a component per key family:       *)
(*   prof     profile:        metaid -> profile                            *)
(*   alias    address: and globalmetaid:   identity -> metaid              *)
(*   rev      info-revision:  <<metaid, path>> -> revision                 *)
(*   created  globalmetaid-created: and globalmetaid-prefix: together, the *)
(*            earliest registration of each global id                      *)
(*   index    the state of the prefix index and the cursor of its backfill *)
(*   docs     the search documents in memory, by metaid                    *)
(* A user is an address; the chain may or may not spell out the metaid and *)
(* the global id that go with it.  A field holds the pin that wrote it, as *)
(* its value and as its pin id.                                            *)
(***************************************************************************)
EXTENDS Records

MetaId(user) == <<"metaid", user>>
Address(user) == <<"address", user>>
GlobalId(user) == <<"globalid", user>>

Empty == [val |-> NoPin, id |-> NoPin]

Paths == {"name", "avatar", "persona", "chatpubkey"}

\* The fields that an empty pin clears with their pin id.
Clearable == {"avatar", "persona"}

\* buildMetaIDSearchDoc looks at these (and at role, bio, ... likewise).
Searchable == {"name", "persona"}

InitDb ==
    [prof |-> <<>>, alias |-> <<>>, rev |-> <<>>, created |-> <<>>,
     index |-> [status |-> "none", cursor |-> 0], docs |-> <<>>]

-----------------------------------------------------------------------------
(* Profiles and the identities that lead to them *)

Lookup(db, identity) ==
    LET key == IF identity \in DOMAIN db.alias THEN db.alias[identity] ELSE identity
    IN  Entry(db.prof, key)

\* resolveProfileForWrite, for an identity the pin may not carry.
RawMetaId(p) == IF p.meta THEN MetaId(p.by) ELSE Address(p.by)

Candidates(p) ==
    <<Address(p.by)>> \o (IF p.gid THEN <<GlobalId(p.by)>> ELSE <<>>) \o <<RawMetaId(p)>>

ProfileForWrite(db, p) ==
    LET known == SelectSeq(Candidates(p), LAMBDA i : Lookup(db, i) # None)
    IN  IF known # <<>> THEN Lookup(db, known[1])
        ELSE [kind |-> "profile", meta |-> RawMetaId(p), addr |-> Address(p.by),
              gid |-> GlobalId(p.by), chain |-> p.chain, field |-> [f \in Paths |-> Empty]]

IsSearchable(r) == \E f \in Searchable : r.field[f].val # NoPin

\* upsertSearchDoc: the times of a document are carried over, and lost with it.
UpsertSearchDoc(db, r) ==
    LET old == IF r.meta \in DOMAIN db.docs THEN db.docs[r.meta] ELSE [created |-> 0, updated |-> 0]
        doc == [created |-> old.created, updated |-> old.updated,
                gid |-> r.gid, chain |-> r.chain, field |-> r.field]
    IN  [db EXCEPT !.docs = IF IsSearchable(r) THEN With(@, r.meta, doc) ELSE Without(@, {r.meta})]

\* saveProfile: the profile and both reverse indexes in one batch.
SaveProfile(db, r) ==
    UpsertSearchDoc([db EXCEPT !.prof = With(@, r.meta, r),
                               !.alias = (r.addr :> r.meta) @@ (r.gid :> r.meta) @@ @], r)

\* noteSearchDocRevision keeps the latest time, noteSearchDocCreated the
\* earliest.
NoteRevision(db, meta, at) ==
    IF meta \notin DOMAIN db.docs THEN db
    ELSE [db EXCEPT !.docs[meta].updated = Max({@, at})]

NoteCreated(db, meta, at) ==
    IF meta \notin DOMAIN db.docs THEN db
    ELSE [db EXCEPT !.docs[meta].created = IF @ = 0 THEN at ELSE Min({@, at})]

-----------------------------------------------------------------------------
(* The revision of each path *)

Revision(p) ==
    [at |-> p.at, height |-> IF p.mem THEN 0 ELSE p.ts, id |-> p.id, confirmed |-> ~p.mem]

\* infoRevisionAfter.
RevisionAfter(s, t) ==
    LET Key(r) == <<r.at, r.height, IF r.confirmed THEN 1 ELSE 0, r.id>>
    IN  \E n \in 1..4 : Key(s)[n] > Key(t)[n] /\ \A m \in 1..(n - 1) : Key(s)[m] = Key(t)[m]

\* The field as the pin writes it; profileMatchesInfoPin.
FieldOf(p) ==
    CASE p.body -> [val |-> p.id, id |-> p.id]
      [] ~p.body /\ p.field \in Clearable -> Empty
      [] OTHER -> [val |-> NoPin, id |-> p.id]

MatchesInfoPin(r, p) == r.field[p.field].id = FieldOf(p).id

\* Mutant: the pin that arrives last stands.
ShouldApply_Always(db, r, p) == TRUE

\* shouldApplyInfoPin: the latest revision among those stored under any
\* identity of the user decides.
ShouldApply(db, r, p) ==
    LET keys == {<<i, p.field>> : i \in {r.meta} \cup Range(Candidates(p))} \cap DOMAIN db.rev
        current == CHOOSE c \in {db.rev[k] : k \in keys} :
                      \A d \in {db.rev[k] : k \in keys} : d = c \/ RevisionAfter(c, d)
    IN  \/ keys = {}
        \/ /\ current.id = p.id
           /\ (~p.mem /\ ~current.confirmed) \/ ~MatchesInfoPin(r, p)
        \/ current.id # p.id /\ RevisionAfter(Revision(p), current)

\* The /info branch of handlePin.
ProcessInfo(db, p) ==
    LET old == ProfileForWrite(db, p)
        r == [old EXCEPT !.field[p.field] = FieldOf(p)]
        saved == NoteRevision([SaveProfile(db, r) EXCEPT
                                  !.rev = With(@, <<r.meta, p.field>>, Revision(p))], r.meta, p.at)
        late == r.meta \in DOMAIN saved.docs /\ saved.docs[r.meta].created = 0
    IN  IF ~ShouldApply(db, old, p) THEN db
        ELSE IF late /\ r.gid \in DOMAIN db.created
             THEN NoteCreated(saved, r.meta, db.created[r.gid].at) ELSE saved

-----------------------------------------------------------------------------
(* Registrations *)

\* globalMetaIDCreationRecordFromPin; globalMetaIDCreationBefore, on one
\* chain.
CreationOf(p, meta) == [gid |-> GlobalId(p.by), meta |-> meta, at |-> p.at, id |-> p.id]

Before(s, t) == s.at < t.at \/ (s.at = t.at /\ s.id < t.id)

\* Mutant: the registration indexed last stands.
UpsertCreation_Last(db, c) == [db EXCEPT !.created = With(@, c.gid, c)]

\* upsertGlobalMetaIDCreationRecords: the earliest one of each id stays.
UpsertCreation(db, c) ==
    IF c.gid \in DOMAIN db.created /\ ~Before(c, db.created[c.gid]) THEN db
    ELSE [db EXCEPT !.created = With(@, c.gid, c)]

\* The "/" branch of handlePin: a registration counts once it is confirmed.
ProcessRoot(db, p) ==
    LET r == ProfileForWrite(db, p)
        saved == SaveProfile(db, r)
    IN  IF p.mem THEN saved
        ELSE NoteCreated(UpsertCreation(saved, CreationOf(p, r.meta)), r.meta, p.at)

ProcessPin(db, p) ==
    CASE p.kind = "info" -> ProcessInfo(db, p)
      [] p.kind = "root" -> ProcessRoot(db, p)
      [] OTHER -> db

\* BackfillGlobalMetaIDPrefix, one page: what it indexed and where it goes on
\* are saved together, and its end makes the index ready.
PrefixPage(db, page, next) ==
    LET indexed == FoldSet(LAMBDA p, d : UpsertCreation(d, CreationOf(p, RawMetaId(p))), db, page)
    IN  [indexed EXCEPT !.index = [status |-> IF next = 0 THEN "ready" ELSE "building",
                                   cursor |-> next]]

\* lookupGlobalMetaIDPrefix: the first registration among the ids that share
\* a prefix.
PrefixLookup(db, ids) ==
    LET found == {db.created[g] : g \in ids \cap DOMAIN db.created}
    IN  IF db.index.status # "ready" \/ found = {} THEN <<>>
        ELSE (CHOOSE c \in found : \A d \in found : d = c \/ Before(c, d)).gid

-----------------------------------------------------------------------------
(* Remote completion *)

NeedsCompletion(r) ==
    r # None => \E f \in {"chatpubkey", "avatar"} : r.field[f].val = NoPin

\* fillString fills what is empty; fillAvatarFields also takes an avatar that
\* differs from the one there.
Fill(path, mine, theirs) ==
    LET Or(a, b) == IF a = NoPin THEN b ELSE a
        differs == theirs.id # NoPin /\ (mine.val = NoPin \/ mine.id # theirs.id)
    IN  CASE path = "avatar" -> IF differs THEN theirs ELSE mine
          [] path \in {"name", "chatpubkey"} ->
                [val |-> Or(mine.val, theirs.val), id |-> Or(mine.id, theirs.id)]
          [] OTHER -> mine

\* mergeUserProfiles.
Merge(local, remote) ==
    IF local = None THEN remote
    ELSE [local EXCEPT !.meta = remote.meta, !.gid = remote.gid, !.addr = remote.addr,
                       !.field = [f \in Paths |-> Fill(f, local.field[f], remote.field[f])]]

\* persistMergedProfile, after mergeWithStoredProfiles: the profiles stored
\* under the metaid and under the address, if they are two, are merged in.
Persist(db, merged) ==
    LET first == Entry(db.prof, merged.meta)
        second == Lookup(db, merged.addr)
        once == IF first = None THEN merged ELSE Merge(first, merged)
        twice == IF second = None \/ second = first THEN once ELSE Merge(second, once)
    IN  SaveProfile(db, twice)

-----------------------------------------------------------------------------
(* Start and reads *)

\* warmSearchDocs: the profiles, then the revisions, then the registrations.
WarmSearchDocs(db) ==
    LET bare == FoldSet(LAMBDA r, d : UpsertSearchDoc(d, r),
                        [db EXCEPT !.docs = <<>>], Range(db.prof))
        dated == FoldSet(LAMBDA k, d : NoteRevision(d, k[1], db.rev[k].at), bare, DOMAIN db.rev)
    IN  FoldSet(LAMBDA c, d : NoteCreated(d, c.meta, c.at), dated, Range(db.created))

OnInit(db) == WarmSearchDocs(db)

\* Backfill replays path after path, each from its oldest pin.
ReplayBefore(p, q) ==
    LET Rank(f) == CHOOSE i \in 1..4 : <<"name", "avatar", "persona", "chatpubkey">>[i] = f
    IN  Rank(p.field) < Rank(q.field)
        \/ (p.field = q.field /\ (p.ts < q.ts \/ (p.ts = q.ts /\ p.id < q.id)))

Selected(pins, since) == {p \in pins : p.kind = "info" /\ p.ts >= since}

\* ListMetaIDs without a keyword.
ListMetaIDs(db, withKey) ==
    LET listed == {m \in DOMAIN db.docs : withKey => db.docs[m].field["chatpubkey"].val # NoPin}
        Ahead(m, n) == \/ db.docs[m].updated > db.docs[n].updated
                       \/ /\ db.docs[m].updated = db.docs[n].updated
                          /\ db.docs[m].gid[2] < db.docs[n].gid[2]
    IN  Sorted(listed, Ahead)

\* The users of whom a profile is known by any identity.
Known(db) == {i[2] : i \in DOMAIN db.alias}

-----------------------------------------------------------------------------
(* What the stored data owe their readers *)

\* Every identity of a user leads to one profile, its fields and its revision
\* markers name the same pins, it is listed once if it has anything to show,
\* and the documents in memory are those a start of the process would build,
\* but for their times.
ServedOnce(db) ==
    LET Undated(docs) == [m \in DOMAIN docs |-> [docs[m] EXCEPT !.created = 0, !.updated = 0]]
        HasKey(r) == r.field["chatpubkey"].val # NoPin
    IN  /\ \A i \in DOMAIN db.alias :
              LET r == Lookup(db, i) IN r # None /\ i \in {r.addr, r.gid}
        /\ \A k \in DOMAIN db.rev :
              db.prof[k[1]].field[k[2]].id \in {db.rev[k].id, NoPin}
        /\ \A withKey \in BOOLEAN :
              Lists(ListMetaIDs(db, withKey),
                    {r.meta : r \in {s \in Range(db.prof) :
                                        IsSearchable(s) /\ (withKey => HasKey(s))}})
        /\ Undated(db.docs) = Undated(WarmSearchDocs(db).docs)

\* What is found under each identity: the fields of its user.  A list may show
\* besides the profile that a remote completion left under another metaid.
Readable(db) ==
    LET Shows(i) == \E f \in Paths : Lookup(db, i).field[f] # Empty
    IN  [i \in {j \in DOMAIN db.alias : Shows(j)} |-> Lookup(db, i).field]

=============================================================================
