----------------------------- MODULE ReadModels -----------------------------
(***************************************************************************)
(* The read models of one node and the engine that feeds them.  Eight of   *)
(* the registered aggregators are composed with the feed of pins, PinFeed: *)
(* questions and answers (qa), social content (sc), skill services (ss),   *)
(* user profiles (ui), published content (pc), preference feedback (pf),   *)
(* follows (fo) and group chat (gc).  Every aggregator gets every pin.     *)
(* Skill services and follows look users up in the user profiles, and      *)
(* preference feedback resolves apps in the published content; a feed of   *)
(* social content may be that of whom a user follows.  MetaWeb and         *)
(* BotHomepage are the endpoints that read several of them.                *)
(*                                                                         *)
(* What lies below the height at which a chain is first scanned comes from *)
(* backfills.  Some are commands, run while the node is down; others are   *)
(* started with the node (cmd/metaso-p2p/main.go) and go on while the      *)
(* engine hands on pins: LiveBackfills says which.  A live backfill is one *)
(* step per pin.  The backfill of follows ends before the engine starts,   *)
(* and group chat has none: what lies below its first height is not in it. *)
(*                                                                         *)
(* clean is what the same blocks, each handled once and in order, make of  *)
(* empty stores: what every index ought to come to, whatever was seen in   *)
(* the mempool, repeated after a restart or backfilled.                    *)
(***************************************************************************)
EXTENDS PinFeed, Records

CONSTANTS
    LiveBackfills,  \* aggregators whose backfill runs with the engine
    Since,          \* the time from which backfills look
    PageSize,       \* of the listings the backfills read
    RemoteUsers,    \* users the remote service knows
    RemoteFields    \* profile fields it has an answer for

ASSUME ReadModelsAssumption ==
    /\ LiveBackfills \subseteq {"sc", "ui", "pc"}
    /\ Since \in Nat /\ PageSize \in Nat \ {0}

VARIABLES
    db,       \* the stored data of every aggregator
    clean,    \* what they ought to come to
    backlog,  \* pins the backfill of an aggregator has yet to replay
    fetched,  \* a merged profile on its way from the remote service, or none
    scanned   \* scores a rebuild has computed and not yet stored, or none

vars == <<feedVars, db, clean, backlog, fetched, scanned>>

QA == INSTANCE QuestionsAnswers
SC == INSTANCE SocialContent
SS == INSTANCE SkillService
UI == INSTANCE UserInfo
PC == INSTANCE PublishedContent
PF == INSTANCE Preference
FO == INSTANCE FollowGraph
GC == INSTANCE GroupChat
MW == INSTANCE MetaWeb
BH == INSTANCE BotHomepage

Aggregators == {"qa", "sc", "ss", "ui", "pc", "pf", "fo", "gc"}

EmptyStores ==
    [qa |-> QA!InitDb, sc |-> SC!InitDb, ss |-> SS!InitDb, ui |-> UI!InitDb,
     pc |-> PC!InitDb, pf |-> PF!InitDb, fo |-> FO!InitDb, gc |-> GC!InitDb]

Known(d) == UI!Known(d.ui)

\* HandleBlockPin or HandleMempoolPin of every aggregator.
Handle(d, p) ==
    [qa |-> QA!ProcessPin(d.qa, p), sc |-> SC!ProcessPin(d.sc, p),
     ss |-> SS!ProcessPin(d.ss, Known(d), p), ui |-> UI!ProcessPin(d.ui, p),
     pc |-> PC!ProcessPin(d.pc, p), pf |-> PF!ProcessPin(d.pf, d.pc, p),
     fo |-> FO!ProcessPin(d.fo, Known(d), p), gc |-> GC!ProcessPin(d.gc, p)]

\* Init of every aggregator.
OnInit(d) ==
    [d EXCEPT !.qa = QA!OnInit(@), !.ss = SS!OnInit(@, Known(d)), !.ui = UI!OnInit(@),
              !.pc = PC!OnInit(@), !.pf = PF!OnInit(@, PC!OnInit(d.pc))]

-----------------------------------------------------------------------------
(* Backfills *)

Past == UNION {{mined[c][i] : i \in 1..high[c]} : c \in Chains}

InTime(pins) == Sorted(pins, LAMBDA p, q : p.ts < q.ts)

\* The listing service: newest first, a page at a time.
Pages(pins) ==
    LET list == Reverse(InTime(pins))
        Of(n) == {list[i] : i \in {j \in DOMAIN list : (j - 1) \div PageSize = n - 1}}
    IN  [n \in 1..((Len(list) + PageSize - 1) \div PageSize) |-> Of(n)]

\* What a backfill replays, in its order.
Backlog(a, pins) ==
    CASE a = "qa" -> Sorted(pins, QA!ReplayBefore)
      [] a = "sc" -> SC!SortAndReplay(SetToSeq(SC!Selected(Pages(pins), Since)), PageSize)
      [] a = "ss" -> Sorted(SS!Selected(pins, Since), SS!ReplayBefore)
      [] a = "ui" -> Sorted(UI!Selected(pins, Since), UI!ReplayBefore)
      [] a = "pc" -> PC!BackfillOrder(pins, Since)
      [] a = "pf" -> InTime(PF!Selected(pins, Since))
      [] a = "fo" -> InTime(FO!Selected(pins, Since))
      [] a = "gc" -> <<>>

Replay(a, d, p) ==
    [d EXCEPT ![a] = CASE a = "qa" -> QA!ProcessPin(@, p)
                       [] a = "sc" -> SC!ProcessConfirmed(@, p, FALSE)
                       [] a = "ss" -> SS!ProcessPin(@, Known(d), p)
                       [] a = "ui" -> UI!ProcessPin(@, p)
                       [] a = "pc" -> PC!ProcessPin(@, p)
                       [] a = "pf" -> PF!ProcessPin(@, d.pc, p)
                       [] a = "fo" -> FO!ProcessPin(@, Known(d), p)]

Begin(a, d) == IF a = "ss" THEN [d EXCEPT !.ss = SS!BeginBackfill(@, Past, Since)] ELSE d

ReplayAll(a, d) ==
    FoldLeft(LAMBDA e, p : Replay(a, e, AsBlockPin(p)), Begin(a, d), backlog[a])

Nothing == [a \in Aggregators |-> <<>>]

\* The node is up once the backfills run before it are done.
Up == \A a \in Aggregators \ LiveBackfills : backlog[a] = <<>>

-----------------------------------------------------------------------------
Init ==
    /\ FeedInit
    /\ db = EmptyStores
    /\ clean = [FoldLeft(LAMBDA d, p : Handle(d, AsBlockPin(p)), EmptyStores, InTime(Past))
                  EXCEPT !.gc = GC!InitDb]
    /\ backlog = [a \in Aggregators |-> Backlog(a, Past)]
    /\ fetched = <<>> /\ scanned = <<>>

BlockPin(c) ==
    /\ Up
    /\ Confirm(c)
    /\ db' = Handle(db, AsBlockPin(NextBlockPin(c)))
    /\ clean' = IF FirstTime(c) THEN Handle(clean, AsBlockPin(NextBlockPin(c))) ELSE clean
    /\ UNCHANGED <<backlog, fetched, scanned>>

MempoolPin(c) ==
    /\ Up
    /\ \E i \in DOMAIN mined[c] :
          /\ Hear(c, i)
          /\ db' = Handle(db, AsMempoolPin(mined[c][i]))
    /\ UNCHANGED <<clean, backlog, fetched, scanned>>

BackfillPin(a) ==
    /\ a \in LiveBackfills /\ Up /\ backlog[a] # <<>>
    /\ db' = Replay(a, db, AsBlockPin(Head(backlog[a])))
    /\ backlog' = [backlog EXCEPT ![a] = Tail(@)]
    /\ UNCHANGED <<feedVars, clean, fetched, scanned>>

\* A backfill command, and the start of the node or the command after it.
BackfillCommand(a) ==
    /\ a \notin LiveBackfills /\ backlog[a] # <<>>
    /\ db' = OnInit(ReplayAll(a, db))
    /\ backlog' = [backlog EXCEPT ![a] = <<>>]
    /\ fetched' = <<>> /\ scanned' = <<>>
    /\ UNCHANGED <<feedVars, clean>>

\* The process stops and starts.  A live backfill begins again; the commands
\* may all be run once more.
Restarted ==
    /\ Restart
    /\ db' = OnInit(db)
    /\ \E again \in {LiveBackfills, Aggregators} :
          backlog' = [a \in Aggregators |-> IF a \in again THEN Backlog(a, Past) ELSE backlog[a]]
    /\ fetched' = <<>> /\ scanned' = <<>>
    /\ UNCHANGED clean

\* A homepage of skill services is read: the read repairs the index.
ReadHomepage ==
    /\ \E by \in {r.by : r \in Range(db.ss.rec)} :
          db' = [db EXCEPT !.ss = SS!ReadHomepage(@, Known(db), by)]
    /\ UNCHANGED <<feedVars, clean, backlog, fetched, scanned>>

\* One page of the command that indexes registrations by a prefix of their
\* GlobalMetaID, newest first.
PrefixPage ==
    LET at == db.ui.index.cursor
        roots == {p \in Past : p.kind = "root"}
        left == {p \in roots : at # 0 => p.ts < at}
        listed == Reverse(InTime(left))
        page == Range(SubSeq(listed, 1, Min({PageSize, Len(listed)})))
        next == IF left = page THEN 0 ELSE Min({p.ts : p \in page})
    IN  /\ db.ui.index.status # "ready" /\ roots # {}
        /\ db' = OnInit([db EXCEPT !.ui = UI!PrefixPage(@, {AsBlockPin(p) : p \in page}, next)])
        /\ fetched' = <<>> /\ scanned' = <<>>
        /\ UNCHANGED <<feedVars, clean, backlog>>

\* What the remote service says of a user: the newest pins of some fields.
RemoteProfile(user) ==
    LET Own(f) == {p \in Past : /\ p.by = user /\ p.kind = "info" /\ p.body
                                /\ p.field = f /\ f \in RemoteFields}
        Newest(ps) == CHOOSE p \in ps : \A q \in ps : q.ts <= p.ts
        Field(f) == IF Own(f) = {} THEN UI!Empty
                    ELSE [val |-> Newest(Own(f)).id, id |-> Newest(Own(f)).id]
    IN  [kind |-> "profile", meta |-> UI!MetaId(user), addr |-> UI!Address(user),
         gid |-> UI!GlobalId(user), chain |-> "mvc", field |-> [f \in UI!Paths |-> Field(f)]]

\* A read of an incomplete profile asks the remote service; the answer is
\* merged with the profile read, and persisted later.
FetchRemote ==
    /\ fetched = <<>>
    /\ \E user \in RemoteUsers \cap {p.by : p \in {q \in Past : q.kind \in {"info", "root"}}} :
          LET local == UI!Lookup(db.ui, UI!Address(user))
          IN  /\ UI!NeedsCompletion(local)
              /\ fetched' = <<UI!Merge(local, RemoteProfile(user))>>
    /\ UNCHANGED <<feedVars, db, clean, backlog, scanned>>

PersistRemote ==
    /\ fetched # <<>>
    /\ db' = [db EXCEPT !.ui = UI!Persist(@, fetched[1])]
    /\ fetched' = <<>>
    /\ UNCHANGED <<feedVars, clean, backlog, scanned>>

\* A read of a score finds the flag set: it scans the records,
ScanScores ==
    /\ scanned = <<>> /\ db.pf.dirty
    /\ scanned' = <<PF!RebuildScores(db.pf.fb)>>
    /\ UNCHANGED <<feedVars, db, clean, backlog, fetched>>

\* stores the scores and clears the flag.
StoreScores ==
    /\ scanned # <<>>
    /\ db' = [db EXCEPT !.pf = PF!StoreScores(@, scanned[1])]
    /\ scanned' = <<>>
    /\ UNCHANGED <<feedVars, clean, backlog, fetched>>

Next ==
    \/ \E c \in Chains : BlockPin(c) \/ MempoolPin(c)
    \/ \E a \in Aggregators : BackfillPin(a) \/ BackfillCommand(a)
    \/ Restarted
    \/ ReadHomepage
    \/ PrefixPage
    \/ FetchRemote \/ PersistRemote
    \/ ScanScores \/ StoreScores

Spec == Init /\ [][Next]_vars

-----------------------------------------------------------------------------
(* Properties *)

\* No block is ahead of the mempool, and no backfill under way.
Caught == Settled /\ backlog = Nothing

\* Questions and answers: once no backfill is under way, every list shows
\* each visible item once and nothing else, the search snapshot agrees with
\* the records, and the inboxes of comments and likes are those that a scan
\* of the records would build, in whatever order mempool, blocks and
\* restarts brought the pins; and the likes, comments and answers shown with
\* a question are those that are stored, its answers' among them
\* (qa/process.go refreshEngagement, qa/inbox.go).
QuestionsServed ==
    backlog["qa"] = <<>> => QA!ServedOnce(db.qa) /\ QA!CountsAgree(db.qa)

\* The feed of those whom a user follows; nothing if there is nobody.
FollowingFeed(user, size) ==
    LET followed == Range(FO!Followed(db.fo, user, size))
    IN  IF followed = {} THEN <<>> ELSE SC!Collected(db.sc, followed, size)

\* Social content and follows: the feed followed page by page and the feed of
\* an author show every post that is not revoked once, the hot list is the
\* head of the whole ranking, a post lists the comments on any of its versions
\* once and, once the blocks have caught up with the mempool, as many likes and
\* comments as are stored, both sides of every follow agree on it, and the feed
\* of a user shows the posts of those followed at the time
\* (socialcontent/process.go, list.go, engagement.go, social/db.go).
PostsServed ==
    /\ SC!ServedOnce(db.sc)
    /\ Caught => SC!CountsAgree(db.sc)
    /\ FO!ServedOnce(db.fo)
    /\ \A user \in FO!Users(db.fo), size \in 1..2 :
          LET mine == {o \in FO!Users(db.fo) : FO!Relationship(db.fo, user, o).follows}
          IN  SC!Lists(FollowingFeed(user, size),
                       {i \in SC!Shown(db.sc) : db.sc.post[i].by \in mine})

\* Group chat: a room followed by offsets or by indexes shows every message
\* once, through messages repeated after a restart, and all that a user reads
\* of the groups joined and of their chats is one membership
\* (groupchat/process.go, db_group.go, db_chat.go, history.go).
GroupsServed == GC!ServedOnce(db.gc)

\* Skill services: the marketplace shows every visible service once under
\* each order and the homepage of a provider those of a provider the user
\* profiles know, though the provider may become known after the service; and
\* the totals of a service are those of its ratings, whichever version they
\* name (skillservice/list.go, homepage_backfill.go, rating.go).
ServicesServed ==
    /\ backlog["ss"] = <<>> => SS!ServedOnce(db.ss, Known(db))
    /\ SS!TotalsAgree(db.ss)

\* User profiles: every identity of a user leads to one profile that is
\* listed once, its fields and its revision markers name the same pins, and
\* a prefix of GlobalMetaIDs is answered with the first registration that
\* has it, though registrations are indexed newest first and live ones come
\* in between (userinfo/module.go, list.go, prefix index).
UsersServed ==
    /\ UI!ServedOnce(db.ui)
    /\ db.ui.index.status = "ready" =>
         LET roots == {p \in Past : p.kind = "root"}
         IN  \A ids \in SUBSET {UI!GlobalId(p.by) : p \in roots} \ {{}} :
                LET found == {p \in roots : UI!GlobalId(p.by) \in ids}
                IN  \E p \in found : /\ \A q \in found : p.ts <= q.ts
                                     /\ UI!PrefixLookup(db.ui, ids) = UI!GlobalId(p.by)

\* Published content: every record that is not revoked is in each of its
\* lists once, any version leads to its record, and the registry shows every
\* valid protocol under the path its current version names, the earliest
\* first, through modifies that move it and revokes that free the path; the
\* evidence of a video shows every comparison that counts for it once, the
\* outcomes divide it, and the list of apps by preference shows every listed
\* app once, those without a score last (publishedcontent/db.go, registry.go,
\* metaapp_list.go, preference/api.go, score.go).
ContentServed ==
    /\ PC!ServedOnce(db.pc)
    /\ PF!EvidenceShown(db.pf)
    /\ LET apps == PC!AppMatches(db.pc, 0, PC!NoPin, FALSE)
           videos == {<<r.chain, PC!VideoOf(r)>> : r \in apps}
           summary == [v \in videos |-> PF!SummaryFor(db.pf, v)]
           Score(r) == summary[r.chain, PC!VideoOf(r)].score
       IN  \A ascending \in BOOLEAN :
              LET list == PC!ListByPreference(db.pc, summary, ascending)
              IN  /\ PC!Lists(list, apps)
                  /\ \A i, j \in DOMAIN list :
                        i < j /\ Score(list[j]) # <<>> => Score(list[i]) # <<>>

\* Backfills reach back to the first pin.
Reaches == \A c \in Chains : \A i \in DOMAIN mined[c] : mined[c][i].ts >= Since

\* Follows name global ids: what other names lead to depends on what is known.
Spelled == \A c \in Chains : \A i \in DOMAIN mined[c] :
    LET p == mined[c][i] IN p.kind = "follow" => p.truth /\ p.gid

\* The read endpoints over all of these (metaweb): whichever version a reader
\* names, the record and the list of its versions are the same, with the
\* listing service (once the blocks have caught up, all of the versions) and
\* without it; the feed of new content, the inbox and the registry, followed
\* by their cursors, have every entry once and account for each that a page
\* leaves out as a copy or for its author; and a search has everything that
\* is visible in exactly one row, though copies are linked through others
\* (metaweb/versions.go, fresh.go, interactions.go, protocols.go, dedupe.go);
\* and the homepage of a bot and the search for bots agree with the lists the
\* other aggregators serve (bothomepage/build.go, botsearch/api.go).
WebServed ==
    /\ MW!VersionsAgree(db, Past, Caught /\ Reaches)
    /\ MW!FreshServed(db)
    /\ MW!InboxServed(db)
    /\ MW!RegistryServed(db, Past)
    /\ MW!SearchServed(db)
    /\ backlog["ss"] = <<>> => BH!HomepageServed(db, 1) /\ BH!BotsServed(db)

\* Once the blocks have caught up with the mempool and the backfills are
\* done, readers see what the blocks alone, handled once and in order, would
\* show them; of the scores, after the next start of the node, which
\* resolves the feedback again.  Backfills must reach back to the first pin.
ReplayConverges ==
    Caught =>
        /\ QA!Readable(db.qa) = QA!Readable(clean.qa)
        /\ SC!Readable(db.sc) = SC!Readable(clean.sc)
        /\ GC!Agrees(db.gc, clean.gc)
        /\ Reaches =>
              /\ SS!Readable(db.ss) = SS!Readable(clean.ss)
              /\ UI!Readable(db.ui) = UI!Readable(clean.ui)
              /\ PC!Readable(db.pc) = PC!Readable(clean.pc)
              /\ Spelled => db.fo = clean.fo
              /\ PF!OnInit(db.pf, db.pc) = PF!OnInit(clean.pf, clean.pc)

\* Paging the feed of new content while pins arrive: the place of an entry is
\* its creation time, which changes only when its create is confirmed, and an
\* entry once revoked does not come back (publishedcontent/fresh.go:16-20).
FreshKeysStay ==
    [][\A k \in DOMAIN db.pc.rec :
          LET before == db.pc.rec[k]
              after == db'.pc.rec[k]
              create == CHOOSE p \in UNION {Range(mined[c]) : c \in Chains} : p.id = k[3]
          IN  /\ before.created = create.ts => after.created = before.created
              /\ before.hidden => after.hidden]_vars

\* The comment on openScores (preference/module.go:35-36): the snapshot of
\* the scores is rebuilt after every confirmed write.  When the flag is down
\* and no rebuild is under way, the scores are those of the records.
ScoresFollowWrites == scanned = <<>> => PF!ScoresAreFresh(db.pf)

=============================================================================
