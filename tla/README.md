# TLA+ specifications of metaso-p2p

metaso-p2p is one Go process that follows several blockchains, turns the pins it
finds there into read models (profiles, chats, questions, posts, services, apps,
tasks), and serves them over HTTP and Socket.IO. This directory holds specifications
of its stateful parts, the TLC configurations that check them on small instances, and
TLAPS proofs of the theorems that matter most for all instances. Every definition
was written from the Go source; `PROJECT.json` names the lines each one stands for.

    tlc -workers 2 -config MCBlockScanner.cfg MCBlockScanner
    tlapm BlockScannerProofs.tla

Contents: 1 the system, 2 the modules, 3 runs and bounds, 4 fairness, 5 proofs,
6 what the model checker found, 7 other divergences, 8 what is not modelled, 9 state of
the plan.

## 1. The system

`cmd/metaso-p2p/main.go` builds the store, the aggregators, the indexer engine, the
socket server, the federation service and the HTTP router in this order. Four kinds
of goroutine then change state concurrently:

- the engine's `scanLoop` (blocks) and `zmqLoop` (mempool), both of which call the
  same aggregators, every aggregator getting every pin;
- backfills that go on beside the engine (profiles, and where they are configured
  social content and published content); that of follows ends before the engine starts
  (`startup_backfill.go`), the others are commands run while the node is down;
- the federation puller, its discovery loop, and the goroutines of the socket
  library, one or more for each connection;
- HTTP requests, most of which only read; a request may also store a profile fetched
  from another service, rebuild scores that are out of date, extend an index of skill
  services, or, in the Agentpedia process, start a sweep.

| Component | State | Operations | Hard parts |
|---|---|---|---|
| Block scanner (`internal/indexer/engine.go`) | `lastHeight` per chain in memory, `<chain>_lastheight` in Pebble | restore, tick, scan a range, route, persist | crash between routing and persisting, failing RPC, handler and store, height that cannot be read |
| Mempool poller (same file) | `mempoolSeen`, `mempoolTxSeen` with a TTL | list, fetch, parse, filter, route, mark | marks written before and after routing, partial fetches, TTL boundary |
| Aggregator registry (`internal/aggregator/aggregator.go`) | list of aggregators | route a batch | errors are logged and dropped |
| Private chat (`.../privatechat`) | message rows, pin index, read model (index, time, locator, metadata, home), homepage lists, event channel | save a message, backfill, notify | two writers, locks chosen from mutable identities, derived keys in one batch, backfill killed midway |
| Group chat (`.../groupchat`) | groups, members, roles, counts, channels, messages with an index | create, join, leave, post, block | counters and indexes under repeated blocks, two ways to page a room, history of a membership |
| User profiles (`.../userinfo`) | profiles by identity, revisions, search documents, prefix index | info pins, remote completion, prefix backfill | revisions in any order, identities that merge, a remote answer that is late |
| Follow graph (`.../social`) | active edge, two time indexes, pin map | follow, revoke | revoke before create, a target named before it is known |
| Social content (`.../socialcontent`) | posts, versions, likes, comments, quotes, events held back | create, modify, revoke, like, comment | child before parent, confirmation moves index keys |
| Questions and answers (`.../qa`) | records, indexes, likes, comments, pending answers, inboxes | the same | the same, and counts that roll up from answers |
| Skill services (`.../skillservice`) | records by source pin, four indexes, ratings and totals | create, modify, revoke, rate | pins of old versions in any order, an index repaired by reads |
| Published content (`.../publishedcontent`) | version chains, lists, protocol registry, feed of new content | create, modify, revoke | the first registration of a path wins, whatever is moved or revoked later |
| Preference (`.../preference`) | feedback records, score snapshot, dirty flag | feedback, lazy rebuild | rebuild against a concurrent write, feedback for apps not indexed yet |
| MetaWeb, bot homepage, bot search | response caches | read | join other read models, paging and grouping of copies |
| Federation (`internal/federation`) | peers, snapshots, failures, the publisher's sequence | discover, pull, validate, store, merge | late answers, restarts, expiry across clocks, revocation during a pull |
| Socket server (`internal/socket`) | connection map | connect, evict, ping, sweep, push, shutdown | many goroutines, disconnects after the unlock |
| Metatask (`internal/metatask`) | none: a replay of confirmed events | fold the tree, two walks, aggregate, settle | circular inputs between fold and walk, cycles of a node, expiry, supersede |
| Agentpedia (`internal/agentpedia`) | pooled events, seen pins, the replayed view | sweep path by path and page by page, replay | partial sweeps, payloads that are lost, rules that depend on heights |
| Notify (`.../notify`) | block lists | add, remove, list | read-modify-write without a lock |
| Cache (`internal/cache`) | LRU over Pebble | get, set, delete | backfill of the LRU against a delete, two lifetimes |
| Chain adapters, storage, config, API, idaddress, commands | -- | -- | input and output, conversions |

What makes each of the modelled components correct:

- **Scanner**: nothing at or below the stored height is unaccounted for; the resume
  point never moves back; a mined block is eventually offered to every aggregator.
- **Poller**: a transaction is only suppressed once it was offered; none is routed
  twice within the TTL; one that stays in the mempool is offered.
- **Private chat**: one row for a pin however often and by whomever it is seen, the
  read model agrees with the rows, positions are continuous, a stored message is never
  demoted, every message raises one event.
- **Read models**: a list followed to its end has every visible item once and nothing
  else, under every order and filter; numbers shown are those of the stored items;
  lists that say the same thing in two places agree; and whatever was seen in the
  mempool, repeated or backfilled, readers end with what the blocks alone would show.
- **Federation**: what is shown is recent, belongs to a node that has not stopped or
  revoked, never runs backwards, and a node that recovers is shown again.
- **Sockets**: device limits hold, the map and the library agree, only silent clients
  are timed out and all of those are, every device gets an event once.
- **Metatask**: a verified node has its quorum of independent votes, claimed nodes are
  frozen, the shares add up and are earned, a settlement stands.
- **Agentpedia**: an editor has gone through every step of admission, a ruling has its
  quorum of drawn arbiters, every revision is admitted once or buried, a freeze follows
  a war of reverts, and the view is the replay of what was listed.

## 2. The modules

| Module | Models | Correspondence |
|---|---|---|
| `BlockScanner` | `scanLoop`, `catchUpAll`, `scanNewBlocks`, `scanRange`, `restoreHeights`, `persistHeight` | `lastHeight`, `stored` as in the code; `phase` is the place in the loops; one pin is routed per step; `MineBlock` is the node, `Crash` and the faults are the environment |
| `ResumableFeed` | abstract: a consumer that commits only what is done | `BlockScanner` implements it with `committed` = stored height |
| `BlockScannerProofs` | proofs about the scanner | |
| `MempoolPoller` | `zmqLoop`, `pollMempoolOnce`, both filters and both marks, TTL cleanup | `pinSeen` = `mempoolSeen`, `txSeen` = `mempoolTxSeen`; chains with and without the incremental interface |
| `MempoolPollerProofs` | proofs about the poller | |
| `PrivateChat` | `processPin`/`SaveMessage`, `identity.go`, `read_model.go`, homepage list, backfill, event channel | one worker for each engine goroutine; `Begin`, `Lock`, `Load`, `Commit`, `Notify` are the stretches of `SaveMessage` between synchronisation points; the Pebble batch is one step |
| `PrivateChatProofs` | proofs that a message is stored once and that the read model agrees with the rows | |
| `Records` | what the read models share: keys in an ordered store, scans newest first | |
| `PinFeed` | what an aggregator sees of the engine: block pins in order, mempool pins, the last blocks again after a restart | `BlockScanner` and `MempoolPoller` model how it comes about |
| `QuestionsAnswers`, `SocialContent`, `SkillService`, `UserInfo`, `PublishedContent`, `Preference`, `FollowGraph`, `GroupChat` | one aggregator each: `ProcessPin` is its handler as a function from stored data and a pin to stored data; the rest are its reads | `db` has one component per key family of the store, named in the head of the module |
| `MetaWeb`, `BotHomepage` | endpoints that read several aggregators | no state |
| `ReadModels` | the eight aggregators with the feed, backfills, restarts, remote profiles, the lazy rebuild of scores | `Handle` is the registry's loop; `clean` is the store a clean replay would give, and is never read by an action |
| `FederatedPresence` | `discovery.go`, `puller.go`, `store.go`, `snapshot.go`, `service.go` | local node's `store`, `puller`, `discovery`; remote nodes read, stamp and answer in separate steps; answers may be late or repeated |
| `FederatedPresenceProofs` | proofs about the merged view and the rounds of the puller | |
| `SocketConnections` | `manager.go`, `server.go` | `tracked` = the connection map; a locked section is one step, every `Disconnect` after the unlock another; library semantics are external |
| `SocketConnectionsProofs` | proofs about the connections and the fan-out of an event | |
| `MetataskWalk` | one pass over the events (`v121.go` 975-1240): claims, cycles, submissions, votes, releases, expiry | a recursive function over the places of the log, parametrised by the tree it accepts |
| `MetataskReplay` | tree, amendments, first pass, fold, second pass, aggregation rule, challenges, settlement | `view' = Replay(chain')`: the service recomputes everything from the log, so does the model |
| `MetataskReplayProofs` | induction over the log, invariant of a walk; quorum, shown votes, frozen nodes; sums and shares of a settlement | |
| `MetataskComparisonProofs` | replays of two logs side by side: gated ballots, standing settlements | |
| `Agentpedia` | `replay.go`: the fold over the confirmed events, gate by gate | `Replay` and one operator for each kind of event, without variables |
| `AgentpediaSync` | `l2.go`: the sweep of `SyncOnce`, the pool, the rebuild; the chain that is mined meanwhile | `view` is the L2 state; `state` the replay of the whole chain, kept for the properties |
| `AgentpediaSyncProofs` | that sweeps miss nothing; what replay makes of admission, rulings and revisions, by induction over the chain | |
| `MC*` | instances for TLC | |

Composition. `ReadModels` instantiates the eight aggregators and the two reading modules
and extends `PinFeed`; skill services and follows look users up in the profiles,
preference feedback resolves apps in the published content, MetaWeb and the bot pages read
all of them, as the code does. `MetataskReplay` extends `MetataskWalk`, `AgentpediaSync` extends
`Agentpedia`, each proof module extends its component. `PrivateChat` meets the
engine from the other end: both of its goroutines appear as the workers `Scanner` and `Poller`.

### Granularity

A handler that holds one mutex from end to end (questions and answers, social content,
profiles, preference) is one step. The handlers of skill services, published content,
groups and follows take no lock; they are one step as well, which leaves out what two of
them do to one record at the same time (section 8). What matters between the steps is
modelled: mempool pins, block pins, backfilled pins and reads that write come in any
order, a remote profile is fetched in one step and merged in another, and a rebuild of
scores scans in one step and stores in another.

`LiveBackfills` is `{"ui"}`: that backfill replays a pin the way the engine does. Those of social
content and published content, run live, do not converge (section 7), so the run has them as
commands; the model can be asked about them by changing the constant.

### Data that is abstracted

Pins, transactions, users and nodes are model values or numbers; blocks are sequences of
pins. The content of a message, a post or a version is its pin; a name in a registry, a
hash or a video is a number. A name of a user is a pair of the user and the form
(`metaid`, `global`) it is written in where the form matters (private chat), in `UserInfo` and
`GroupChat` one of several names that a pin may or may not spell out, elsewhere one identity. In the
read models a pin has a block time and a relay time, in any order. In the metatask
and Agentpedia modules a pin id is its place in the log; there events of other tasks appear as `Elsewhere`, since
they move the evaluation clock. `FederatedPresence` represents the presence of a node by the
number of changes so far. How well a text matches a query is given as a number (`rate`).

### Names that differ from the source

`faults`, `crashes`, `leaves`, `changes`, `pushed` and `left` are bounded counters of the
environment. Variables marked "history", `clean`, `state` and `due` are never read by an action that models
code. Operators named `X_Something` are faulty variants of `X` that plausible edits of
the code would give; nothing else uses them, and `PROJECT.json` lists which property
notices which variant.

## 3. Runs and bounds

| Run | Asks | Instance | States |
|---|---|---|---|
| `block_scanner` | safety, refinement and liveness of the scanner | two chains of three and two blocks, one starting above genesis; an empty block and one with two pins; two aggregators; two faults of any kind, one crash | 240,939 |
| `mempool_poller` | suppression, repetition and liveness | an incremental and a full chain, a transaction with two pins, TTL 1 in 3 ticks, one fault, one crash | 134,120 |
| `private_chat` | rows, read model, events, crash and backfill | three users, three messages in two conversations, block times not in poll order, two with equal times, event channel of one, one fault | 1,498,990 |
| `private_chat_profiles` | profiles that become known in the middle of a call; progress | two users, two messages in opposite directions, no faults | 116,136 |
| `private_chat_shared_index` | continuous index | two users of which one becomes known | violated |
| `federated_presence` | freshness, expiry, revocation, order | one remote node, three registry pins of it or of others, a listing of one pin, limit of one peer, TTL 1, discovery every tick, 3 ticks, one change of presence, one fault | 9,390,921 |
| `federated_presence_recovery` | recovery of a restarted peer | 11 ticks, enough for expiry, the largest backoff and two discoveries | 7,158,293 |
| `socket_connections` | limits, presence, heartbeat, fan-out | three devices of one slot limited to two, one anonymous socket, one event naming a user twice, 3 ticks, one departure or shutdown | 3,279,530 |
| `metatask_replay` | quorum, freeze, shares, settlement | three nodes, three amendments, quorum 2, five bots, eight scripts (below) | 262,113 |
| `read_models` | every list and count that is served; joins; convergence | 29 histories of up to five pins on one or two chains, of which none or two lie below the first height, one restart that repeats up to two pins of a chain, backfill window that leaves out the oldest pin of some, pages of two | 158,622 |
| `preference_lost_rebuild` | scores follow confirmed writes | the two histories with feedback | violated |
| `agentpedia` | admission, rulings, revisions, sync | seven stories of 11 to 24 pins, pages of two, at most two pages per path | 259,285 |

Why these bounds suffice for what is asked:

- Scanner: a gap needs a fault or crash between two blocks of a chain; two chains give the
  interleaving of ranges within a round. The theorems remove the bounds.
- Poller: the TTL boundary lies inside the run (TTL 1, three ticks), so that entries
  expire once and are used again. `t1` has two pins on purpose.
- Private chat: every race between two calls needs two workers and two messages of one
  conversation; the third message exercises the sender's homepage list, which is shared by
  conversations. One fault covers a failed commit and a killed backfill.
- Federation: peers do not interact but through the order in which the puller visits them
  and the limit of a round; one remote node with a limit of one covers revocation under a
  full limit, and with a listing of one pin and three pins (create, revoke, another) revocation on and off the page;
  `RecoveryBound` has a summand for further nodes. The clock bound exceeds every
  period and deadline of its instance.
- Sockets: the limit is reached with two devices and exceeded with the third. The run uses
  symmetry over the three devices and checks safety only.
- Metatask: the log is not bounded by a length but by scripts: each allows some number of
  events of each kind and some ballots, chosen so that a story can complete, e.g. claim,
  submit, two votes, release, claim again; amend against claim; verify all nodes, settle,
  then release, amend or let time pass. The cross product of all kinds is too large, and
  most of it is noise that the replay ignores.
- Read models: a history is a plot of up to five pins in which a later pin names an earlier one
  (a like of an old version, an answer that moves to another question, a rating of a revoked
  service, a registration of a path that another holds), and for each of them TLC tries every
  place of the mempool copies, the backfills, the restart and the writing reads.
  Several pins share a block time and two chains have pins of one time, because the
  indexes break ties by id. `LateEcho = FALSE`: the poller does not hand on a pin after its block; what
  happens then is in section 7. The remote service answers for names and
  avatars; no user of these histories replaces an avatar, for the reason given there too.
- Agentpedia: pins come in the order of a story, but with slack pins may be dropped or mined later
  after a jump of blocks: 4 and 7 are to either side of an hour (6 blocks), 150 beyond a
  day (144). Six stories ask what replay makes of them; each
  gate of `replay.go` refuses an event in one of them. The seventh is pulled: three sweeps, a failed request, a
  lost payload, pins seen in the mempool, pins mined between pages and paths.

`CHECK_DEADLOCK FALSE` is set where the bounded environment ends (all messages
delivered, the clock at its bound, the server closed, the script played out, all blocks read); the
scanner, the poller and the Agentpedia sync cannot stop and are checked for deadlock.

Time. Clocks tick in whole units. In `FederatedPresence` and `SocketConnections` local work
takes no time: a tick waits for the puller, a handler or a sweep to finish. This is what
gives the timing properties their exact bounds; in the program they hold up to the time
the work itself takes.

## 4. Fairness

- `FairSpec` (scanner), `FairSpecM` (poller): weak fairness of the goroutine's own steps. The loops are
  driven by a ticker, and every error path leads to the next iteration. Nothing is assumed
  of the environment beyond its bounds on faults and crashes: a block or transaction that
  meets a failure may be lost, and the liveness properties say so.
- `FairSpecC` (private chat): weak fairness of each worker's steps and strong fairness of its
  `Lock`. A Go mutex hands itself to a waiter that has waited for a millisecond
  (starvation mode), so a waiter is not overtaken for ever.
- Federation and sockets are checked for safety with deadlines instead of liveness:
  `PeerRecovers`, `SilentNodeDisappears`, `RevokedLeavesView`, `SilentIsDisconnected` bound
  the time until something happens, a stronger claim than "eventually", and need no fairness.
- Read models: `ReplayConverges` says where readers are once the feed has caught up; that it
  catches up is `MinedBlockIsConsidered`. Metatask and Agentpedia: every event is followed by a complete
  replay; nothing is left pending.

## 5. Proofs

### BlockScanner (`BlockScannerProofs`)

For every set of chains and aggregators, chains of any length and any number of faults
and crashes, from `ScannerAssumption` (the configured start is a natural number, blocks are
sequences of pins, the bounds are natural):

- `TypeCorrect`, `NoBlockLeftBehind` (`NoSilentGap`), `HeightsAreOrdered`,
  `ReplayIsAboveResumePoint`, `ResumePointNeverMovesBack`;
- `BlocksAreRoutedOnce`: within one life of the process no aggregator gets a pin of a block twice from
  the scanner;
- `ScannerIsResumableFeed`: the scanner implements `ResumableFeed`.

`NoSilentGap` is not inductive: it says nothing of where the loop stands when
`persistHeight` moves the stored height. `IInv` adds that everything below the loop
variable is done (`RangeInv`), that pins no longer in the batch were offered (`RouteInv`), that memory
equals the block just routed when it is persisted (`PersistInv`), that memory covers only done
blocks (`MemoryInv`), and how memory, store and node are ordered (`CatchInv`, `BoundInv`,
`TipInv`). The proof goes through `NextGrows` (what is done stays done) and one lemma for
each part and action. A start that cannot read the stored height is the one exception, carried by
`unrestored`. `BlocksAreRoutedOnce` rests on `LifeInv`: what was routed in this life lies below the loop
variable, or is in the part of the current batch already taken from the queue.

### SocketConnections (`SocketConnectionsProofs`)

For every set of sockets, slots, limits, timeouts and periods, from `SocketAssumption`:

- `DevicesAreLimited` (`WithinDeviceLimit`), `OldestIsEvicted` (`OldestGivesWay`),
  `PresenceIsAccurate` (`TrackedAreOpen`), `PunctualAreKept` (`OnlySilentAreTimedOut`),
  `SilenceIsNoticed` (`SilentIsDisconnected`).

`SInv` adds to the properties: a socket that has not passed `Add` is in no list (`Untouched`); a
running eviction has closed its victim, a socket whose callback runs is closed, and
nothing is being cleared before `Shutdown` (`Handshake`); ages are distinct and count the connections
ever tracked (`Ages`), which is what makes the oldest strictly older; what the sweep read
agrees with what clients sent (`Heartbeats`); and no tick passes a due sweep (`Sweeps`). The
cardinality argument of `Add` is in `EvictedIs`, `Exchange` and `LimitStep`; that an oldest
connection exists rests on the well-foundedness of the naturals (`OldestExists`).

Fan-out, in the same module and from the same assumption, whose last part says that an event
names finitely many identities: `MessagesReachEveryDevice` (`EveryDeviceOnce`). `FanInv` says of each event
how far it has come: a device whose identity is still to be looked up, or that is in the batch in hand, has got
nothing; afterwards, if it was there from the start and is still connected, it has got the event once
(`Served`). That no identity comes twice rests on `TargetsListed` (the deduplicated targets are an enumeration without
repetition) and `TakenOff`.

### MempoolPoller (`MempoolPollerProofs`)

For every set of chains, transactions, pins and aggregators, any TTL and any number of faults and crashes, from
`PollerAssumption` (every transaction has a chain and a sequence of pins, the TTL is positive):

- `MarksFollowOffers` (`SuppressedOnlyAfterOffer`), `RoutedOncePerTTL` (`NoRepeatWithinTTL`).

`MInv` has two ideas. `Marked`: whatever carries a mark was offered, except the batch in hand, which is marked before it is
routed; for the second mark, written after routing, `InHand` says that what was fetched has been parsed and those of it that
carry pins are in the first map. `Remembered`: a transaction was routed more than a TTL before the poll
in hand began, or its mark is at least as young as that routing. The purge uses the time at which a poll began, so this survives
it, and a crash forgets both sides.

### FederatedPresence (`FederatedPresenceProofs`)

For every finite set of nodes, all periods, timeouts, clock leads and sizes of the listing and any number of changes, stops and faults, from
`FederationAssumption` (periods and the size of the listing are positive, the largest backoff is no smaller than the first):

- `TheSilentDisappear` (`SilentNodeDisappears`), `ViewGoesForward` (`ViewNeverGoesBack`),
  `TheShownIsRecent` (`ShownIsRecent`), `TheRevokedLeave` (`RevokedLeavesView`).

The first three are not about the snapshot alone, since an older answer may still be on its way or in a cache.
`FInv` therefore speaks of `Answers(n)`: the one stored, the one cached and the one in the puller's hand. Each was given by a run
of its node, with a sequence no larger than the counter and a time no later than the node's stop
(`AnswersGiven`); of two of one run, the larger sequence has no older contents (`AnswersOrdered`); what a handler has read but not yet stamped
is no older than all of them (`ReadLast`); and a validated answer has a larger sequence than the one it replaces, unless that
one has expired (`ValidLast`).

`RecentInv` adds what recency takes: no tick passes the timeout of a request (`InTime`), a change that a
handler has not read is later than its request (`ReadRecent`), and so every answer was stamped no later than a request timeout
after the first change it misses (`AnswersRecent`). Revocation has an invariant of its own: a revoke in the listing
is read by a deadline that only a failed reading moves (`RevokeRead`, `ReadBy`), and one that was read is applied by then and its node not
admitted again, although newer pins may have moved it off the listing since (`RevokeApplied`; `Numbered` says why no pin
enters the listing again).

- `PeersComeBack` (`PeerRecovers`), under `PullsInTime`: a snapshot outlives an interval and a timeout of every node. Without it
  the property is false, and rightly so: with a TTL of 1 and an interval of 3 a healthy peer is out of the view for a part of
  each period, without any fault. The configuration only requires that each setting is positive (`config.go:645`); the defaults
  (TTL 90 s, interval 20 s, timeout 3 s) satisfy `PullsInTime` up to 23 nodes, and the number of peers has no limit by default. With more
  peers that time out, the sequential round (`puller.go:140`) lets the snapshots of the others expire before their turn.

`RecoveryInv` is about turns. A round asks the peers in the order of their ids (`Rounds`, over `ActivePeers`, whose ranking `RoundOrder` shows
to list every peer once), so `TurnBy(n, t)` can bound by when the puller comes to `n` from what is left of the round and the request in flight; it
holds until `n` is passed over or its request ends (`TurnStays`), and then the next round bounds the next turn (`TurnPassed`).
The rest says that nothing but a disturbance delays a peer for long: an answer stamped after the last one continues
the sequence of its run and any other was asked for before it (`LastReply`, `OfThisRun`), so a refusal comes while a
snapshot from before the disturbance lives (`RefusedEarly`); a backoff therefore ends when the node
settles (`Backoffs`); and every serving peer has a fresh snapshot that is renewed before it expires, or is asked by
its deadline (`Recovering`). TLC checked this invariant on the instance of `federated_presence_recovery` before it was proved.

### PrivateChat (`PrivateChatProofs`)

For any users, messages, times, known and learned profiles and any number of faults, from `ChatAssumption` (which among others says
that nobody writes to himself and that `None` is no storage key):

- `MessagesAreStoredOnce` (`EachPinOnce`), under `DistinctTx`: no two messages share a transaction. Without it
  two messages can share a row (section 7).

The argument is that two calls for one message never commit against each other: the locks of the conversation do not ensure it, because their
keys change when a profile becomes known (section 6), but the lock on the sender does (`Guarded`, `Exclusive`, `OneCommitPerPin`). So what a
batch was computed from is still so when it is committed (`Loaded`), rows and pin index stay each other's inverse
(`Indexed`), locators name the same rows while the read model is ready (`Located`), and every stored message is in one place on its way to
the users: in a call, in the channel, pushed or dropped (`Accounted`). A backfill keeps this since the rows it groups by pin are one for each
pin (`KeptAreRows`, `EntriesAreRows`).

As long as no profile becomes known after the start (`Learnable = {}`), and under `DistinctTx`:

- `PositionsHaveNoGap` (`IndexContinuous`), `ReadersSeeTheRows` (`ReadModelAgrees`), `MessagesKeepTheirPlace`
  (`StoredMessageIsKept`).

The condition is not a convenience: with a profile that is learned between two calls the first of them is false (section 6). Under it
the names of a message, and so its conversation and its key, are functions of its pin (`RowsNamed`, `CallsNamed`, `NamesAre`), and the
lock on the conversation, taken before that on the sender, is held at the commit (`Reserved`). Two commits in progress are therefore of
different conversations and senders (`CommitsApart`), and a batch computed before another one is written goes on fitting what is
stored (`Fitting`, `FitsAfter`): the next position and the metadata of its conversation, the home snapshot, the homepage list of its sender.
`Modelled` is what the read model looks like: each stored message at a place of its own below the next one (`Placed`), the two
snapshots of it and no others (`Shown`), as many messages as the metadata count (`Counts`) and as home the latest of them (`Homes`). That the
positions have no gap is then counting: as many messages as positions, and no two at one. For the backfill it is
`GroupRanks`: by time and then by pin the rows of a conversation are in one order, in which each has its rank.

### Metatask (`MetataskReplayProofs`, `MetataskComparisonProofs`)

Every property of the module is a theorem, for every finite set of bots and of nodes, every roster, quorum, time to live and
window, any first tree, amendments and scripts, from `WalkAssumption` and `ReplayAssumption` (the publisher is a bot, the quorum is
positive, weights are natural, only the root has no parent, amendments are sequences of operations, the submitter's part is within
the limits the service validates):

- `VerifiedNodesHaveQuorum` (`VerifiedByQuorum`), `ShownVotesAreCounted` (`ShownVotesAgree`), `ClaimedNodesAreFrozen`
  (`FrozenNodesKept`), `SharesOfTheSettlement` (`SharesAreEarned`), `GatedBallotsChangeNothing` (`GatedBallotsAreInert`),
  `SettledSharesStand` (`SettlementStands`).

The service keeps no state between events but the log, so what has to be inductive is not the state machine, whose invariant is
only that the log is well formed (`IsLog`, `Refers`) and the view its replay, but the functions that a replay is made of. A walk is a
recursive function over the places of the log. `PlaceInduction` is the induction over those places: it takes the set of places at which
a claim holds, where the library's theorem takes an operator, and rests on the well-foundedness of the naturals. Then:

- `WInv(w, log, last)` is what a walk knows after the event at `last`: cycles belong to the claim that opened them and list submissions of their node
  (`Cycles`), a holder has a cycle that is still open or verified (`Holders`), what met a cycle was a ballot on one of its submissions
  (`Met`), the voters of a node are the authors of the ballots that met the cycle of its holder (`Voters`), and a cycle
  is verified by a quorum (`Quorate`). Each kind of event has a lemma. `VerifiedByQuorum` alone is not inductive,
  since a release empties the voters of a node but not the record of its cycle.
- `FirstInv` says that the first claim a walk remembers of a node in the tree is the first in the log. The fold of the amendments uses the
  walk and the second walk uses the fold; that this circle keeps a claimed node is an induction over the operations of
  one amendment and one over the amendments.
- The shares are sums over finite sets, built from the fold of the community modules: their bounds are an
  induction over subsets, first for the shares of one node (the accurate votes on it divide its reviewers' part) and then for
  all nodes (their weights divide the pool). `OrderedInv` gives that a cycle is judged by one submission.
- The last two theorems compare two replays. `Matching` relates a log with a gated ballot to the same log with an event of another
  task in its place: submissions, acting ballots and claims are the same, so each walk, each fold and each aggregation
  is the same. `Continues` relates a log to itself one event later. The new event may change the tree, so the two replays are not equal;
  `Aligned` says that two walks agree on the nodes of the tree, and `ApprovedRootKeepsTree` that an approved root was claimed
  and has all its nodes frozen, so that no later amendment moves them. `FrozenNodesKept` is what this rests on: it
  states that a frozen node is as it was in the tree before the amendment, as a record.

The definitions of the walk use IF and ELSE IF where several conditions hold at once. The source is a chain of ifs in which the first
that holds decides; a CASE with overlapping guards would leave the choice open, and the provers take it so.

### Agentpedia (`AgentpediaSyncProofs`)

For every set of stories, jumps, size of a page and number of pages, from `AgentpediaAssumption` (an hour and a day have some
blocks) and `SyncAssumption` (a story is a sequence of pins with distinct ids, a page has at least one pin, a sweep takes at
least one page of a path, a genesis names its `bootDays`):

- `SweepsMissNothing` (`SyncedViewIsReplay`);
- `MembersEarnMembership` (`MembersAreEarned`);
- `RulingsNeedQuorum` (`RulingsHaveQuorum`), under `SteadyRules`: the genesis sets a positive quorum, amendments leave it alone, and hours of
  voting are a number;
- `RevisionsAreAdmitted` (`RevsAreAdmitted`), under `FirmRules`: the genesis sets the daily rate, the two waiting times of a
  new editor and the length and threshold of a war of reverts, amendments leave these five alone, the
  highest tier takes at least as long as the first hours, and a war lasts at least an hour.

The two conditions are about the rules, not about the events: both properties measure what happened long ago by the rules of now, which an
amendment may have changed since. The stories that TLC runs satisfy them (`MCSteady`, `MCFirm`).

That nothing is missed while pins are mined between the pages of a sweep rests on the order of the listing: what is mined is newer than
all that was mined before (`MinedLast`), so it enters before the cursor, unless the cursor is still among the sightings. A page
shows the newest of what is after the cursor and each of it once (`RankingLists`, `ListingOrder`, `PageShows`: the place of a
pin is the number of those before it). The invariant has the seen pins of a path as all that is due, but for
what is after the cursor of the sweep in progress (`ReachInv`); what is due is closed downwards, with a pin all older ones of its path
(`DueInv`). Both are needed where the code stops a path at the first known pin: that pin is due, so are those older than it, and
none of these is after the cursor unseen. The view is the replay of the pool as long as nothing was applied since (`ViewInv`). The proof
unfolds nothing of the replay but what it makes of no pin at all (`EmptyReplay`), so it holds whatever the events do.

The other three are about what the events do. The chain is mined in its order (`Comes`: a new pin is later than all before), and the
replay of a longer chain is the replay of the shorter one with one event more, so each is an invariant of a state and the set of
pins it comes from, with a lemma for each kind of event. Closing what expired comes before each event; it is a fold over the
pins of the proposals, which `VoidUnfolds` turns into a sequence of states to do induction along (`UpTo`).

- `MInv`: a registration has come as far as pins show (`RegInv`), reviews and endorsements were pinned (`ReviewInv`, `EndorsedInv`),
  and whoever is an editor without being a founder has `Earned` it. `MembersAreEarned` alone is not inductive, since the last step of
  an admission only looks at what earlier steps left in the state. A state without rules has no editors (`Founding`): before
  the genesis there are no gates to pass.
- `QInv`: the voters of an open proposal are those who voted on it in the chain and its approvals are the first votes
  of drawn arbiters in time (`PropInv`); it is effective if and only if these are a quorum, and void only once its time is over. What is counted
  once stays counted: a later vote of the same voter is no first vote, and one after the expiry finds the proposal closed (`InTime`).
  `BanInv` adds that nobody is banned without such a ruling.
- `RInv`: every admitted revision has one place in one history and nothing else has any (`PlaceInv`); the counters of the day are
  the number of revisions of that editor on that day (`CountInv`); authors were editors for long enough (`AuthorInv`) and wrote
  nothing after they were revoked (`RevokedInv`); the weights of a record are reverts of that record, each at most
  once (`WeightsInv`). So when the weights reach the threshold there are as many reverts in the window
  (`WeightsAreBattles` maps the one into the other), which is why a freeze is fair. Events that write no revision leave
  all of this alone (`Quiet`, record by record `Tame`); for those that do, `GatesPass` says what `checkRevGates` has established. The
  condition on the tiers is used here: the gate of the first hours looks at the tier, and under other rules the highest
  tier would let an editor write before these hours are over.

### Not proved

Liveness under fairness (`MinedBlockIsConsidered`, `MempoolTxIsOffered`, `CallsReturn`) stays with TLC, as
does everything about ENABLED. The library's induction theorems take an operator as a parameter, which no backend instantiates; where induction
over data was needed it was restated over a set (`PlaceInduction`, `UpTo`), at the price of unfolding each recursive function by hand. This was not
done for the folds of the read models, of which there are many small ones in eight aggregators, so that the properties of
`ReadModels` are model-checked only.

## 6. What the model checker found

Each is a run that is expected to end in a counterexample.

- **`private_chat_shared_index`**. Two messages in opposite directions can take the same
  index: the locks are computed from the identities known before they are taken (`db.go:150`), and
  a profile stored in between gives the second writer the same conversation under another lock.
- **`preference_lost_rebuild`**. A score read scans the records, a confirmed write arrives, and the read then
  clears the flag that the write has set (`score.go:69-82`): the new feedback stays out of the scores until
  the next confirmed write or start.

## 7. Other divergences noted while modelling

Found by reading or in exploratory runs; no run of the project is devoted to them.

### Engine and adapters

- A crash between routing and persisting replays the block (`docs/GOAL_DRIVEN.md:132` says no block is
  indexed again); a block on which `CatchPins` fails is skipped for good (`engine.go:200`), and the model
  records it in `skipped`; there is no reorg handling.
- Of a transaction with two pins the poller routes the first and suppresses the second until its block, because the
  seen map is keyed by transaction (`engine.go:351`, against `SIMPLEMSG_DELIVERY_CONTRACT.md:8`).
- Mempool pins are stamped with the time at which they were met (`mvc/indexer.go:71`), block pins with that of their block;
  everything ordered by time is reordered by the confirmation, or keeps the first time for good.
- The MVC, OPCAT and Dogecoin adapters set `MetaId` and `GlobalMetaId` to the address (`mvc/indexer.go:473`).

### Private chat, groups and follows

- Private chat: pins of one transaction between the same users at one time share a storage
  key (`db.go:104`); a confirmation is refused when a profile was learned between mempool and block
  (`read_model.go:180`, against `SIMPLEMSG_DELIVERY_CONTRACT.md:17`), so that the message stays
  unconfirmed; positions follow arrival and not time (`:43`); events are dropped when the channel is full (`:21`).
- Groups: `MemberCount` counts a join again in its block and on every repetition, and a repeated create
  resets it to 1; a create that names an existing group overwrites it; a message or join that was seen in the mempool appears
  again under its block time, with another index; a repeated block gives a message a new index and leaves a gap
  (comment on `GetChatListByIndex`, `process_test.go:912`); `GetGroupMemberList` takes `IsRemoved` from
  the role record, where it is never set; a join overwrites the flags of admins and creators; two messages of one
  transaction share a key; member records under two names of a user can make the history and the group list
  disagree; the API drops the cursor of the member list. `GC!ServedOnce` and `GC!Agrees` state what is
  left after these.
- Follows: a follow of a user not known yet is dropped and then found by a replay (convergence is stated for references by global id, `Spelled`); the
  author of a revoke is not looked at; the cursor of an edge that is gone is an `ErrInvalidParameter`.

### Content, questions and services

- Social content: a like withdrawn while pending stays in the inbox (`inbox.go:78-81`,
  `docs/specs/2026-09-13-metaweb-surf-reads-api.md:159`); a replay in the order of pin ids can flip a like; the live backfill
  races the engine (`module.go:82-85`, `docs/specs/2026-08-06-social-content-aggregation.md` 5.3); quotes of unknown posts are
  dropped; a modify that quotes again counts twice; the second scan of the backfill replays in listing order; a numeric like is refused by
  `boolField`; the cursor of the following feed is a key of the author index for one followed author and of the time index for several (`list.go:56-60`).
- Questions and answers: the inbox may name an answer twice (`inbox.go:67-82`,
  `docs/specs/2026-09-07-metaweb-qa-comments-author-api.md:119`), and its scan stops at 2000 keys over all families (`inbox.go:233-262`); the
  confirmation of an answer resets its counts until the next like; answers on another chain are never counted or listed (`process.go:646`); an answer
  moved by a modify stays in the index of the old question; a like whose relay time is after its block time is not confirmed (`process.go:372`); a late mempool copy of an
  older modify takes a confirmed record back; a confirmed modify under a pending partial one loses its fields.
- Skill services: a rating seen before its service is never aggregated, as its copy is a duplicate
  (`rating.go:92-96`); two handlers, or a crash, between saving a rating and counting it lose it (`rating.go:243-245`); versions are ordered by a mixture of relay
  and block times, which may skip a later one; confirming a create changes nothing; a detail read without a chain misses
  versions (`detail.go:74-104`); `PublishedServiceNames` ignores late aliases.
- Published content: versions are applied in order of arrival (`ReplayBlocks` skips `@id` targets and the backfill sorts by target
  id, so an older modify can be put over a newer one); a revoke confirmed under a pending modify is lost, here and in questions; a member of the registry is shown as unconfirmed
  while a modify of it is pending; the confirmation of a create moves its key in the feed of new content, where a reader who pages may meet it twice or not at all
  (`fresh.go:16-20`; `FreshKeysStay` states when keys do stay).
- User profiles: a remote answer that is on its way while a newer avatar pin is handled puts the older avatar back, because
  an avatar is taken whenever its pin id differs (`shouldUseRemoteAvatar`, `remote.go:400`), while the revision of the path stays
  that of the newer pin (`docs/specs/2026-07-28-metaid-search-api.md:11` "per-path latest-wins revisions"); only a repetition of
  that pin puts it right. TLC finds this in four steps (block, fetch, block, persist) when a history has two avatars of one user:
  `UsersServed` and `ReplayConverges` fail. A remote service that lags behind the mempool has the same effect without a race. A remote profile under another
  metaid lists the user twice; `createdAt` is lost after a restart when the registration was keyed by address; `updatedAt` keeps
  the mempool time until a restart (`docs/specs/2026-07-28-metaid-search-api.md:11`).
- Preference: feedback is resolved when it is delivered and again at every start, against the apps known then, so a start
  may change scores (`score.go:95-96` "Deterministic").

### Reads over several aggregators, caches

- MetaWeb: a filter that drops the middle of a chain of copies splits its group (`api.go:64-162`;
  `docs/specs/2026-09-02-metaweb-search-quality.md:14` "filtering never changes group membership of the surviving set"); in the feed of new
  content the copy of an entry that the throttle left out counts as a duplicate of nothing shown (`fresh.go:261-307`); suppression is per page.
- Bot homepage: version 3 answers are cached for 30 seconds under the requested id and invalidated by two hooks (`main.go:144-145`); a build
  that read before an invalidation stores a stale page after it. A section is empty with `hasMore = false` when its newest records
  all lack a payload (`build_v3.go:291-327`); apps found under the global id suppress the other two queries; an app modified
  by another user moves to that user's page. The search for bots can list a user twice after a remote completion, in an order that may differ between pages.
- Two-level cache: the second level ignores the TTL (`cache.go`, `Set`), so a value comes back after the first level forgot it
  (`DEPLOY.md:117` has a TTL in seconds) and survives restarts. `InvalidateByPrefix("profile:" + metaid)`
  (`userinfo/module.go:276`, `remote.go:254`) names the canonical metaid only, so an answer stored under an address or alias is
  never invalidated. A lookup that read before a profile changed stores its answer after the
  invalidation (`module.go:353-389`), where it stays until the next change.
- Notify: two requests of one user read, change and write the block list without a lock (`module.go:121`).

### Federation and sockets

- Federation: nothing relates `presenceTTL` to the interval, the timeout and the number of peers, so a long round of
  slow peers hides healthy ones (`PullsInTime`, section 5); discovery asks for one page
  of the registry (`size`, 100 pins by default, `discovery.go:20`, `:219`) and never follows `nextCursor` (`:465`), so a revoke that as
  many newer pins push off that page before a discovery succeeds is never read and its node stays in the view
  (`docs/superpowers/specs/2026-06-02-federated-presence-design.md:329`, `:363`; `RevokedLeavesView` excepts exactly this), and a node whose last pin
  is beyond that page is not discovered; a registry lease that runs out between discoveries is not looked at (`store.go:155`, `peerExpired` has
  no caller); a node whose clock runs ahead is shown longer after it stops; a pull in flight may
  store a snapshot of a peer just removed (`store.go:125`), which the merged view hides; `MaxPeers`
  limits one round and not the peers kept; backoff runs from 1 s to 1 min where the design spec has 20 s
  to 5 min.
- Sockets: `socket.maxConnections` is validated and never enforced; a client that leaves before its
  callback is registered stays in the map until it is evicted (`leftEarly`); target ids are compared
  without case when deduplicated and with case when looked up; the heartbeat default is 90 s where
  the API contract says 35 s.

### Metatask

- The two passes may fold to different trees: `foldAmends` (`v121.go:1287`) asks the first pass whether the parent of an added
  node is claimed, and that pass may know a claim which the fold then removes (add a child under x, remove x, both on one base,
  and x claimed), against `v121.go:979` and `docs/metatask-v1.2.1-upgrade.md:184`.
- Votes for a superseded submission keep counting in the cycle (`v121.go:1117`; `upgrade.md:53,56`), so a node can be verified
  with a submission nobody passed.
- The author of a release is not looked at (`v121.go:1060`), and a submission after it reopens a settled node; the last ballot of a bot
  wins also when it comes after the cycle closed; amendments are folded with the claims of the end of the replay, so a later
  claim can undo an earlier amendment; votes after the cycle closed are paid although shown as inactive (`v121.go:1146`);
  `remove_node` does not end on a cyclic scratch tree (`v121.go:739`); the publisher may submit; a node claimed again whose older
  cycle had a submission shows `submitted`.

### Agentpedia

- Sync, against "incremental views equal full-replay views" (`l2.go:81`): an error on the second page of a path returns with the first
  page's pins marked as seen, so the next sweep stops there and the deeper pages are never fetched; events pooled by a sweep that then
  fails are not in the view until a later sweep applies something, though the error is cleared, and are listed with timestamp 0; a payload
  that cannot be had is marked as seen and not asked for again; a path is cut after 50 pages; paths pulled at different times let the
  view void a proposal that a later vote makes effective; `Seed` does not mark pins as seen, so a seeded pin is pooled twice. The
  mutex is held over the network calls, so reads and `/healthz` wait for a sweep. `torn`, `behind`, `skipped` carry these exceptions
  in `SyncedViewIsReplay`.
- Replay: events of one height and index keep the order of their arrival; `closeExpired` ranges over a Go map, so two
  proposals on one entry with different baselines may end differently; an expiring proposal unfreezes an entry frozen again since; the guard
  `h > expiryH` of a vote is unreachable, as `closeExpired` comes first and a vote at the expiry is refused; a transfer overwrites the
  record of the new slug, and reverts under it to older revisions fail; revert weights are read before they are pruned and survive an unfreeze; redirects are not
  in the versions; an effective parameter proposal is not used up, and neither its sender nor its values are compared with the amendment.
- Reads: `lastReviewedRevId` counts buried reviews, `endorsedBy` and `recentRevs` buried events; an entry whose head is a ruling's
  revision has `updatedAt` 0; rows of `/pins` never have an address (`l2.go:102`, `:921`); an offset beyond the list panics in the handler.

## 8. What is not modelled

- Of the modelled components: the private chat read API and the first build of its homepage list
  (assumed built at start); `Service.Stop` and concurrent requests of the federation (one request
  is in flight at a time); in metatask `respec`, participant statistics, admission of pins, votes mined before
  their target, trees that are malformed when published; in the read models two handlers of an unlocked
  package at the same time, the block list and legacy creators of published content, the media of a
  post, communities' own records, the scores of text searches and the response caches; in Agentpedia
  `Seed`, `Append`, the read endpoints and the options of the test vectors.
- Partly used, not modelled themselves: chain adapters (a height, the pins of a block, the list of the
  mempool, each of which may fail; in `PinFeed` the times and confirmation of a pin), storage (get,
  set, ordered scan, atomic batch), the Socket.IO library (see the head of `SocketConnections`), MANAPI and the
  other listing services (what they list and in which order; of the registry, newest first, `ListSize` pins of which discovery reads).
- Without a module: the notify block list and the two-level cache, whose one race each is described above; configuration
  and the HTTP router, which keep no state but a token bucket under one mutex; `idaddress`, a pure conversion; the Metatask pools and
  projections (`aggregate.go`, `settle.go`, `enumerate.go`, `http.go`), which are computed from one finished replay or are loops of
  requests; the flags and progress of the commands, and the migration of social content.

## 9. State of the plan

The plan had twelve steps: 1 the indexer, 2 private chat, 3 federation, 4 sockets, 5 the metatask replay, 6 groups, 7
version chains (skill services, published content), 8 questions, answers and social content, 9 profiles and follows, 10 preference,
cache and notify, 11 Metatask pools and Agentpedia, 12 the engine composed with an aggregator. Steps 1 to 9 are done, of 10
preference, of 11 Agentpedia; 12 became the composition `PinFeed` with `ReadModels`, which needs what the engine
promises and not how it keeps it.

Left, in order of what each would add: unlocked handlers in more than one step (skill services and groups first, where a
lost update is described above); the cache with its two lifetimes and the profile endpoint in front of it; the proposals of
`settle.go`; the order of shutdown. Theorems that may be in reach: single lists of `ReadModels`, one aggregator at a time, with
an induction over what the feed has handed on.
