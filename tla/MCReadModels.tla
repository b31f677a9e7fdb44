---------------------------- MODULE MCReadModels ----------------------------
(***************************************************************************)
(* The scenarios: what each chain mines.  A pin of chain mvc is named by a *)
(* number, and its block comes at ten times that number and ten, unless a  *)
(* scenario says otherwise: some pins of one block time, some below the    *)
(* window of the backfills.  Publishers are the numbers 91 to 99, videos   *)
(* those from 501.                                                         *)
(***************************************************************************)
EXTENDS ReadModels

P(id, kind, by) ==
    [id |-> id, chain |-> "mvc", kind |-> kind, op |-> "create", ref |-> 0, to |-> 0,
     by |-> by, title |-> "", body |-> TRUE, val |-> 1, truth |-> TRUE, quote |-> 0,
     copy |-> 0, gid |-> FALSE, off |-> FALSE, meta |-> FALSE, field |-> "", items |-> <<>>,
     users |-> <<>>,
     ts |-> 10 * id + 10, relay |-> 10 * id + 9]

Q(id) == [P(id, "q", 91) EXCEPT !.title = "question?"]
A(id, to) == [P(id, "a", 92) EXCEPT !.to = to]
L(id, to, v) == [P(id, "like", 93) EXCEPT !.to = to, !.val = v, !.truth = (v # -1)]
C(id, to) == [P(id, "c", 94) EXCEPT !.to = to]
M(id, kind, ref) == [P(id, kind, 91) EXCEPT !.op = "modify", !.ref = ref]
R(id, kind, ref) == [P(id, kind, 91) EXCEPT !.op = "revoke", !.ref = ref, !.body = FALSE]
By(user, pin) == [pin EXCEPT !.by = user]
Post(id) == P(id, "post", 91)
S(id, by) == P(id, "service", by)
Rate(id, to, v) == [P(id, "rate", 95) EXCEPT !.to = to, !.val = v]
Info(id, by, f) == [P(id, "info", by) EXCEPT !.field = f]
Root(id, by) == [P(id, "root", by) EXCEPT !.op = "init"]
WithMeta(pin) == [pin EXCEPT !.meta = TRUE]
App(id, by, video) == [P(id, "app", by) EXCEPT !.val = video]
Proto(id, path) == [P(id, "protocol", 91) EXCEPT !.title = path]
Ver(id, ref) == M(id, "version", ref)
Ref(app, version, video) == [chain |-> "mvc", app |-> app, version |-> version, video |-> video]
Pref(id, by, a, b, pick) ==
    [P(id, "pref", by) EXCEPT !.title = "motion", !.items = <<[a |-> a, b |-> b, pick |-> pick]>>]

QuestionScenarios ==
    {<<Q(1), A(2, 1), L(3, 2, 1), C(4, 2), L(5, 2, -1)>>,
     <<Q(1), [M(2, "q", 1) EXCEPT !.title = "plain"], A(3, 2),
       [M(4, "q", 2) EXCEPT !.title = "question?"]>>,
     <<Q(1), A(2, 1), [M(3, "a", 2) EXCEPT !.to = 1], R(4, "a", 3), C(5, 1)>>,
     <<Q(1), C(2, 1), M(3, "c", 2), A(4, 1), R(5, "q", 1)>>,
     <<Q(1), A(2, 1), C(3, 1), [M(4, "c", 3) EXCEPT !.to = 2], R(5, "c", 3)>>}

PostScenarios ==
    {<<Post(1), L(2, 1, 1), C(3, 1), M(4, "post", 1), C(5, 4)>>,
     <<[Post(1) EXCEPT !.ts = 30], [Post(2) EXCEPT !.quote = 1, !.ts = 35],
       M(3, "post", 2), R(4, "post", 1), L(5, 3, 1)>>,
     <<Post(1), L(2, 1, 1), L(3, 1, 0), Post(4), C(5, 4)>>}

ServiceScenarios ==
    {<<[S(1, 91) EXCEPT !.ts = 10], [S(2, 92) EXCEPT !.gid = TRUE],
       [M(3, "service", 1) EXCEPT !.by = 93], Rate(4, 3, 5),
       [M(5, "service", 2) EXCEPT !.off = TRUE]>>,
     <<S(1, 92), Rate(2, 1, 1), Info(3, 92, "name"), By(92, M(4, "service", 1)),
       By(92, R(5, "service", 4))>>}

UserScenarios ==
    {<<[Info(1, 91, "name") EXCEPT !.ts = 10], Root(2, 91),
       [Info(3, 91, "persona") EXCEPT !.meta = TRUE],
       [Info(4, 91, "persona") EXCEPT !.body = FALSE]>>,
     <<WithMeta(Info(1, 91, "avatar")), Root(2, 91), Info(3, 91, "chatpubkey")>>,
     <<Root(1, 91), [Root(2, 92) EXCEPT !.meta = TRUE], Root(3, 91), Info(4, 91, "avatar")>>}

ContentScenarios ==
    {<<App(1, 91, 501), App(2, 92, 502), [Ver(3, 1) EXCEPT !.val = 503],
       [App(4, 93, 504) EXCEPT !.quote = 3], [Ver(5, 2) EXCEPT !.op = "revoke"]>>,
     <<Proto(1, "/p"), Proto(2, "/p"), [Ver(3, 2) EXCEPT !.title = "/q"],
       [Ver(4, 1) EXCEPT !.by = 99], [Ver(5, 1) EXCEPT !.op = "revoke", !.body = FALSE]>>}

CopyScenarios ==
    {<<[App(1, 91, 501) EXCEPT !.title = "x"],
       [App(2, 91, 501) EXCEPT !.title = "x", !.copy = 7],
       [App(3, 91, 501) EXCEPT !.copy = 7],
       [Proto(4, "x") EXCEPT !.by = 92, !.copy = 7], [Ver(5, 2) EXCEPT !.val = 502]>>}

PreferenceScenarios ==
    {<<App(1, 91, 501), App(2, 92, 502), Pref(3, 93, Ref(1, 1, 501), Ref(2, 2, 502), "a"),
       [Ver(4, 1) EXCEPT !.val = 503],
       Pref(5, 93, Ref(1, 4, 503), Ref(2, 2, 502), "tie")>>,
     <<App(1, 91, 501), [Pref(2, 93, Ref(1, 1, 501), Ref(3, 3, 502), "b") EXCEPT !.ts = 30],
       App(3, 94, 502), Pref(4, 94, Ref(1, 1, 501), Ref(3, 3, 502), "b"),
       [Pref(5, 93, Ref(3, 3, 502), Ref(1, 1, 501), "tie") EXCEPT !.title = "test"]>>}

Follow(id, by, to) == [P(id, "follow", by) EXCEPT !.to = to, !.gid = TRUE]
Unfollow(id, by, ref) == [Follow(id, by, 0) EXCEPT !.op = "revoke", !.ref = ref]
Unspelled(pin) == [pin EXCEPT !.truth = FALSE, !.gid = FALSE]

FollowScenarios ==
    {<<Follow(1, 91, 92), Follow(2, 91, 92), Unfollow(3, 91, 1), Follow(4, 92, 91),
       Unfollow(5, 91, 2)>>,
     <<Post(1), Follow(2, 92, 91), Follow(3, 92, 94), [Post(4) EXCEPT !.by = 94],
       Unfollow(5, 92, 2)>>,
     <<Root(1, 92), Unspelled(Follow(2, 92, 93)), Root(3, 93), Unspelled(Follow(4, 92, 93))>>}

Group(id, by) == [P(id, "group", by) EXCEPT !.meta = TRUE, !.gid = TRUE]
InGroup(id, kind, by, g) == [Group(id, by) EXCEPT !.kind = kind, !.to = g]
Say(id, by, g) == InGroup(id, "gchat", by, g)
Leaves(id, by, g) == [InGroup(id, "gjoin", by, g) EXCEPT !.val = -1]
Names(pin, user) == [pin EXCEPT !.users = <<<<"metaid", user>>>>]

GroupScenarios ==
    {<<Group(1, 91), Say(2, 92, 1), [Say(3, 91, 1) EXCEPT !.quote = 2], Leaves(4, 92, 1),
       InGroup(5, "gjoin", 92, 1)>>,
     <<Group(1, 91), [InGroup(2, "channel", 91, 1) EXCEPT !.val = 0],
       [Say(3, 92, 1) EXCEPT !.ref = 2], Names(InGroup(4, "admin", 91, 1), 92),
       [Say(5, 93, 1) EXCEPT !.ref = 2]>>,
     <<[Group(1, 91) EXCEPT !.kind = "community"], InGroup(2, "gjoin", 92, 9),
       Names(InGroup(3, "block", 91, 9), 92), [Group(4, 91) EXCEPT !.to = 9], Leaves(5, 91, 9)>>}

\* Two chains: services and a user of both.
On(chain, pin) == [pin EXCEPT !.chain = chain]

\* Bots: what they publish, serve and have said.
BotScenarios ==
    {<<Info(1, 92, "name"), WithMeta(App(2, 92, 501)), S(3, 92), Say(4, 92, 1),
       [App(5, 92, 502) EXCEPT !.body = FALSE]>>,
     <<Info(1, 93, "name"), WithMeta(Info(2, 92, "name")), Info(3, 93, "chatpubkey"),
       WithMeta(S(4, 92))>>}

TwoChains ==
    {[mvc |-> <<S(1, 92), Info(3, 92, "name")>>,
      btc |-> <<On("btc", S(2, 92)), On("btc", Rate(4, 2, 3))>>],
     [mvc |-> <<WithMeta(Root(1, 91)), Info(3, 91, "name")>>,
      btc |-> <<On("btc", WithMeta(Info(2, 91, "name")))>>],
     [mvc |-> <<App(1, 91, 501), Proto(3, "/p")>>,
      btc |-> <<On("btc", Proto(2, "/p")), On("btc", Ver(4, 2))>>]}

MCScenarios ==
    TwoChains \cup
    {[mvc |-> s] : s \in QuestionScenarios \cup PostScenarios \cup ServiceScenarios
                         \cup UserScenarios \cup ContentScenarios \cup CopyScenarios
                         \cup PreferenceScenarios \cup FollowScenarios \cup GroupScenarios
                         \cup BotScenarios}

ScoreScenarios == {[mvc |-> s] : s \in PreferenceScenarios}

=============================================================================
