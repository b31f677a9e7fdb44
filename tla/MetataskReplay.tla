--------------------------- MODULE MetataskReplay ---------------------------
(***************************************************************************)
(* The MetaTask replay (internal/metatask/v121.go, replay.go): the task    *)
(* tree and its amendments, the two passes of the walk, the aggregation    *)
(* rule, challenges and the settlement manifest. Bots publish events; the  *)
(* indexer enumerates what is confirmed and replays all of it, so the view *)
(* is a function of the sequence of events.                                *)
(*                                                                         *)
(* The initial tree is one the publisher drew properly: acyclic, with one  *)
(* root.                                                                   *)
(***************************************************************************)
EXTENDS MetataskWalk, FiniteSetsExt

CONSTANTS
    Root,               \* the root node
    NoParent,           \* parent of the root
    InitialTree,        \* node -> [parent, weight, title]
    Amendments,         \* sequences of operations amendments may carry
    SubmitterShare,     \* sigma: policy.split.submitterShareBP after clamping
    ChallengeTtlHours,  \* policy.challenge_ttl_days
    Workers, Reviewers, \* bots that submit work, and that challenge it
    Scripts             \* bound: how many events of each path, which ballots

ASSUME ReplayAssumption ==
    /\ Root \in DOMAIN InitialTree /\ DOMAIN InitialTree \subseteq Nodes
    /\ NoParent \notin Nodes
    /\ \A n \in DOMAIN InitialTree :
          /\ InitialTree[n].weight \in Nat
          /\ InitialTree[n].parent \in Nodes \cup {NoParent}
          /\ InitialTree[n].parent = NoParent <=> n = Root
    /\ \A ops \in Amendments : ops \in Seq(ToSet(ops))
    /\ SubmitterShare \in 6000 .. 9000 /\ ChallengeTtlHours \in Nat
    /\ Workers \subseteq Bots /\ Reviewers \subseteq Bots

VARIABLES
    chain,   \* the confirmed events of all tasks in their total order
    view     \* what the last replay returned

rvars == <<chain, view>>

Total == 10000
TreePin == 0

-----------------------------------------------------------------------------
(* The tree.                                                               *)

Weighted(tree, n) == tree[n].weight \in 1 .. Total

TreeWeight(tree) == SumFunction([n \in DOMAIN tree |-> tree[n].weight])

Children(tree, n) == {m \in DOMAIN tree : tree[m].parent = n}

Acyclic(tree) ==
    ~\E loop \in SUBSET DOMAIN tree : loop # {} /\ \A n \in loop : tree[n].parent \in loop

\* n and everything under it.
Subtree(tree, n) ==
    {m \in DOMAIN tree : \A up \in SUBSET DOMAIN tree :
        (m \in up /\ \A k \in up : tree[k].parent \in DOMAIN tree => tree[k].parent \in up)
            => n \in up}

\* What foldAmends takes from the first pass.
ApprovedNodes(log, w) ==
    {n \in Nodes : LET c == ActiveCycle(w, log, n)
                   IN  c # NoPin /\ Effective(w, c) \in w.approved}

-----------------------------------------------------------------------------
(* foldAmends: each amendment names the one it builds on, and is taken as  *)
(* a whole or not at all. A node is frozen by its first effective claim    *)
(* from there on; amendments ordered before it still apply.                *)

\* Mutant: an amendment older than the claim is refused, a newer one is not.
Frozen_Reversed(w, n, p) == w.first[n] # NoPin /\ w.first[n] > p

Frozen(w, n, p) == w.first[n] # NoPin /\ w.first[n] < p

\* The tree after one operation, or {} when the operation is not allowed.
Operate(log, w, p, before, tree, op) ==
    LET busy == ApprovedNodes(log, w) \cup {n \in Nodes : w.holder[n] # NoPin}
        editable == op.node \in DOMAIN tree /\ ~Frozen(w, op.node, p)
    IN  CASE op.op = "add_node"
                /\ op.node \notin DOMAIN tree \cup DOMAIN before
                /\ op.parent \in (DOMAIN tree \cup DOMAIN before) \ busy ->
                {[n \in DOMAIN tree \cup {op.node} |->
                    IF n \in DOMAIN tree THEN tree[n]
                    ELSE [parent |-> op.parent, weight |-> op.weight, title |-> "new"]]}
          [] op.op = "remove_node" /\ op.node \in DOMAIN tree
                /\ tree[op.node].parent # NoParent
                /\ \A m \in Subtree(tree, op.node) : ~Frozen(w, m, p) ->
                {[n \in DOMAIN tree \ {op.node} |-> tree[n]]}
          [] op.op = "reweight" /\ editable /\ op.weight \in 1 .. Total ->
                {[tree EXCEPT ![op.node].weight = op.weight]}
          [] op.op = "retitle" /\ editable ->
                {[tree EXCEPT ![op.node].title = "retitled"]}
          [] OTHER -> {}

OperateEach(log, w, p, before, trees, op) ==
    UNION {Operate(log, w, p, before, tree, op) : tree \in trees}

\* The trees after each of the operations: one, or none once one is refused.
OperatedTo(log, w, p, tree, ops) ==
    LET after[i \in 0 .. Len(ops)] ==
            IF i = 0 THEN {tree} ELSE OperateEach(log, w, p, tree, after[i-1], ops[i])
    IN  after

Operated(log, w, p, tree, ops) == OperatedTo(log, w, p, tree, ops)[Len(ops)]

Sound(tree) ==
    /\ \A n \in DOMAIN tree : Weighted(tree, n)
    /\ TreeWeight(tree) = Total
    /\ Acyclic(tree)

Builds(log, f, p) == log[p].bases = f.head

Amend(log, w, f, p) ==
    LET trees == {t \in Operated(log, w, p, f.tree, log[p].ops) : Sound(t)}
    IN  IF /\ p >= HAct2
           /\ log[p].author = Publisher
           /\ Root \notin ApprovedNodes(log, w)
           /\ Builds(log, f, p)
           /\ trees # {}
        THEN [tree |-> CHOOSE t \in trees : TRUE, head |-> p]
        ELSE f

\* The tree after each place of the log, with the amendments folded over the
\* initial one.
AmendedTo(log, w) ==
    LET after[p \in 0 .. Len(log)] ==
            IF p = 0 THEN [tree |-> InitialTree, head |-> TreePin]
            ELSE IF log[p].path = "amend" THEN Amend(log, w, after[p-1], p)
            ELSE after[p-1]
    IN  after

-----------------------------------------------------------------------------
(* Aggregation, challenges and settlement.                                 *)

EffectiveOf(log, w, n) == Effective(w, ActiveCycle(w, log, n))

OwnVerified(log, w, n) ==
    LET c == ActiveCycle(w, log, n) IN c # NoPin /\ w.cycles[c].outcome = "verified"

\* A parent submitted under the v1.2 rules needs all its children verified and
\* has to list exactly their submissions: the largest set of verified nodes in
\* which each parent does, which is what the recursion finds in an acyclic tree.
FinallyVerified(log, w, tree) ==
    LET Holds(n, final) ==
            (Children(tree, n) # {} /\ EffectiveOf(log, w, n) >= HAct2) =>
                /\ Children(tree, n) \subseteq final
                /\ log[EffectiveOf(log, w, n)].childids =
                      {EffectiveOf(log, w, m) : m \in Children(tree, n)}
        own == {n \in DOMAIN tree : OwnVerified(log, w, n)}
    IN  UNION {final \in SUBSET own : \A n \in final : Holds(n, final)}

CurrentTargets(log, w, tree) ==
    {EffectiveOf(log, w, n) : n \in {m \in DOMAIN tree : ActiveCycle(w, log, m) # NoPin}}

\* Open challenges, as the places of their events, after one more event.
ChallengeStep(open, log, targets, p) ==
    LET c == log[p]
        same == {q \in open : log[q].author = c.author /\ log[q].targetid = c.targetid}
    IN  IF c.path # "challenge" THEN open
        ELSE IF \/ c.targetid \notin Of("submission", log) \/ p < HAct2
                \/ c.author \in {log[c.targetid].author, Publisher} \/ ~c.evidence
        THEN open
        ELSE IF c.withdraw THEN open \ same
        ELSE IF \/ same # {} \/ c.targetid \notin targets
                \/ Len(log) - p > ChallengeTtlHours
        THEN open
        ELSE open \cup {p}

ChallengedTo(log, w, tree) ==
    LET targets == CurrentTargets(log, w, tree)
        after[p \in 0 .. Len(log)] ==
            IF p = 0 THEN {} ELSE ChallengeStep(after[p-1], log, targets, p)
    IN  after

Challenged(log, w, tree) == ChallengedTo(log, w, tree)[Len(log)]

\* Those whose target anchors a verified node dispute it.
Disputed(log, w, tree, verified) ==
    {n \in verified : \E p \in Challenged(log, w, tree) : log[p].targetid = EffectiveOf(log, w, n)}

\* Mutant: the submitter and the publisher review as well.
Reviews_Anyone(log, sub) == {v \in Acting(log) : log[v].targetid = sub}

\* Acting ballots on a submission by bots that are neither its author nor the publisher.
Reviews(log, sub) == {v \in Acting(log) : log[v].targetid = sub /\ Independent(log, v)}

Passes(log, sub) == {v \in Reviews(log, sub) : log[v].verdict = "pass"}

\* Laplace accuracy of a reviewer over the cycles that ended.
Accuracy(log, w, bot) ==
    LET ended == {c \in DOMAIN w.cycles : w.cycles[c].outcome \in {"verified", "fail_rejected"}}
        Agrees(c, v) == \/ log[v].verdict = "pass" /\ w.cycles[c].outcome = "verified"
                        \/ log[v].verdict = "fail" /\ w.cycles[c].outcome = "fail_rejected"
        cast == {cv \in ended \X Acting(log) :
                    cv[2] \in Reviews(log, Effective(w, cv[1])) /\ log[cv[2]].author = bot}
        correct == {cv \in cast : Agrees(cv[1], cv[2])}
        smoothed == (Total * (Cardinality(correct) + 1)) \div (Cardinality(cast) + 2)
    IN  Min({Max({smoothed, 2500}), Total})

\* Trees without a full set of weights settle in equal parts.
Weights(tree) ==
    IF (\A n \in DOMAIN tree : Weighted(tree, n)) /\ TreeWeight(tree) = Total
    THEN [n \in DOMAIN tree |-> tree[n].weight]
    ELSE [n \in DOMAIN tree |-> Total \div Cardinality(DOMAIN tree)]

SubmitterPart(weight) == (weight * SubmitterShare) \div Total

Pool(weight) == weight - SubmitterPart(weight)

\* What a bot gets of a node: as its submitter, and as one of those that passed it.
SubmittedBP(log, w, weight, n, bot) ==
    IF log[EffectiveOf(log, w, n)].author # bot THEN 0
    ELSE SubmitterPart(weight[n]) +
         (IF Passes(log, EffectiveOf(log, w, n)) = {} THEN Pool(weight[n]) ELSE 0)

ReviewedBP(log, w, weight, n, bot) ==
    LET passes == Passes(log, EffectiveOf(log, w, n))
        sum == SumFunction([v \in passes |-> Accuracy(log, w, log[v].author)])
    IN  IF \E v \in passes : log[v].author = bot
        THEN (Pool(weight[n]) * Accuracy(log, w, bot)) \div sum ELSE 0

Unpaid(w) ==
    UNION {LET c == w.cycles[claim]
           IN  ToSet(Front(c.subs)) \cup
               IF c.outcome = "fail_rejected" THEN {Last(c.subs)} ELSE {}
           : claim \in DOMAIN w.cycles}

Settlement(log, w, tree, verified) ==
    LET weight == Weights(tree)
    IN  [submitted |-> [b \in Bots |->
                          SumFunction([n \in verified |-> SubmittedBP(log, w, weight, n, b)])],
         reviewed  |-> [b \in Bots |->
                          SumFunction([n \in verified |-> ReviewedBP(log, w, weight, n, b)])],
         unpaid    |-> Unpaid(w)]

NotSettled == [submitted |-> << >>, reviewed |-> << >>, unpaid |-> {}]

\* A task settles when its root is verified and nothing is disputed.
Settles(verified, disputed) == Root \in verified /\ disputed = {}

-----------------------------------------------------------------------------
(* The replay.                                                             *)

\* The first pass feeds foldAmends only; it knows no tree.
FirstPass(log) == Expired(Walk(log, Nodes), log)

SecondPass(log, tree) == Expired(Walk(log, DOMAIN tree), log)

Replay(log) ==
    LET fold == AmendedTo(log, FirstPass(log))[Len(log)]
        w == SecondPass(log, fold.tree)
        verified == FinallyVerified(log, w, fold.tree)
        disputed == Disputed(log, w, fold.tree, verified)
    IN  [tree |-> fold.tree, head |-> fold.head, walk |-> w,
         verified |-> verified, disputed |-> disputed,
         settlement |-> IF Settles(verified, disputed)
                        THEN Settlement(log, w, fold.tree, verified) ELSE NotSettled]

Settled(v) == v.settlement # NotSettled

-----------------------------------------------------------------------------
(* Bots publish pins; an indexed one takes its place at the end of the     *)
(* order. Events refer to pins that are there.                             *)

Follows(script) ==
    /\ \A q \in DOMAIN script.most : Cardinality(Of(q, chain)) <= script.most[q]
    /\ \A p \in Of("verify", chain) :
          <<chain[p].author, chain[p].verdict, chain[p].formed>> \in script.ballots

\* The scripts that allow one more event of this path.
WithRoom(path) ==
    {script \in Scripts : Follows(script) /\ Cardinality(Of(path, chain)) < script.most[path]}

Publish(e) ==
    /\ chain' = Append(chain, e)
    /\ view' = Replay(chain')

PostClaim ==
    /\ WithRoom("claim") # {}
    /\ \E n \in Nodes : Publish([path |-> "claim", node |-> n])

PostRelease ==
    /\ WithRoom("release") # {}
    /\ \E c \in Of("claim", chain) :
          Publish([path |-> "release", node |-> chain[c].node, claimid |-> c])

\* The submissions of the children of a node, as a parent lists them.
ChildSubmissions(n) ==
    {EffectiveOf(chain, view.walk, m) : m \in
        {k \in Children(view.tree, n) : ActiveCycle(view.walk, chain, k) # NoPin}}

PostSubmission ==
    /\ WithRoom("submission") # {}
    /\ \E c \in Of("claim", chain), b \in Workers :
       \E old \in {NoPin} \cup {s \in Of("submission", chain) : chain[s].claimid = c},
          kids \in {{}, ChildSubmissions(chain[c].node)} :
          Publish([path |-> "submission", author |-> b, node |-> chain[c].node,
                   claimid |-> c, supersedeid |-> old, childids |-> kids])

PostVerify ==
    \E s \in Of("submission", chain), ballot \in UNION {sc.ballots : sc \in WithRoom("verify")} :
        Publish([path |-> "verify", targetid |-> s, author |-> ballot[1], verdict |-> ballot[2],
                 formed |-> ballot[3]])

PostAmend ==
    /\ WithRoom("amend") # {}
    /\ \E old \in {TreePin} \cup Of("amend", chain), ops \in Amendments,
          b \in {Publisher} \cup Workers :
          Publish([path |-> "amend", author |-> b, bases |-> old, ops |-> ops])

PostChallenge ==
    /\ WithRoom("challenge") # {}
    /\ \E s \in Of("submission", chain), b \in Reviewers, back \in BOOLEAN :
          Publish([path |-> "challenge", author |-> b, targetid |-> s, withdraw |-> back,
                   evidence |-> TRUE])

\* An event of another task: it takes a place in the order, and time passes.
Elsewhere == [path |-> "elsewhere"]

PostElsewhere == WithRoom("elsewhere") # {} /\ Publish(Elsewhere)

InitR == chain = << >> /\ view = Replay(<< >>)

NextR ==
    \/ PostClaim \/ PostRelease \/ PostSubmission \/ PostVerify
    \/ PostAmend \/ PostChallenge \/ PostElsewhere

SpecR == InitR /\ [][NextR]_rvars

-----------------------------------------------------------------------------
(* Properties.                                                             *)

\* The submissions of the cycle a node is judged by.
CycleSubmissions(n) == ToSet(view.walk.cycles[ActiveCycle(view.walk, chain, n)].subs)

\* A verified node was passed by a quorum of bots that are neither its submitters
\* nor the publisher, each with a well-formed ballot that acts, on a submission of
\* the cycle that counts now: releases, expiry, rejections of other cycles and
\* claims in between lend it no vote (v121.go:1166, passVotersByNode).
VerifiedByQuorum ==
    \A n \in view.verified :
        LET votes == {v \in Acting(chain) : /\ chain[v].targetid \in CycleSubmissions(n)
                                            /\ chain[v].verdict = "pass" /\ v \in view.walk.reached}
            conflicted == {Publisher} \cup {chain[s].author : s \in CycleSubmissions(n)}
        IN  Cardinality({chain[v].author : v \in votes} \ conflicted) >= Quorum

\* The votes shown as counted are those the walk has counted: in a cycle under
\* review the bots with a counted pass on its submissions are the voters the
\* quorum is measured by (v121.go:1325-1375 derives the one, :1159-1179 the other).
ShownVotesAgree ==
    \A n \in Nodes : view.walk.holder[n] \in DOMAIN view.walk.cycles =>
        view.walk.voters[n] =
            {chain[v].author : v \in {u \in Ballots(chain) :
                /\ chain[u].targetid \in CycleSubmissions(n)
                /\ chain[u].verdict = "pass" /\ Disposition(view.walk, chain, u) = "counted"}}

\* A node that is claimed keeps its place, the weight and the title it has then: no
\* later amendment touches it, and none removes it, be it with what is above it
\* (v121.go:625, frozenAt).
FrozenNodesKept ==
    \A c \in Of("claim", chain) :
        LET n == chain[c].node
            then == AmendedTo(chain, FirstPass(chain))[c-1].tree
        IN  n \in DOMAIN then => n \in DOMAIN view.tree /\ view.tree[n] = then[n]

\* A ballot that fails a gate changes nothing but the time: it does not withdraw the
\* earlier ballot of its bot (docs/metatask-v1.2.1-upgrade.md:48).
GatedBallotsAreInert ==
    [][LET e == Len(chain')
       IN  chain'[e].path = "verify" /\ (Malformed(chain', e) \/ BarredByRoster(chain', e))
            => view' = Replay(Append(chain, Elsewhere))]_rvars

\* What is settled stays settled, share by share, through releases, new claims, late
\* amendments and the passing of time (docs/metatask-v1.2.1-upgrade.md:132).
SettlementStands ==
    [][/\ Settled(view) /\ Root \in ApprovedNodes(chain, view.walk)
       /\ chain'[Len(chain')].path \in {"claim", "release", "amend", "elsewhere"}
       => view'.settlement = view.settlement]_rvars

\* The shares never exceed the whole, and each is earned: by the submitter of a
\* verified node or by an independent bot whose acting vote passed it.
SharesAreEarned ==
    Settled(view) =>
        LET s == view.settlement
            Judged(n) == EffectiveOf(chain, view.walk, n)
        IN  /\ SumFunction([b \in Bots |-> s.submitted[b] + s.reviewed[b]]) <= Total
            /\ \A b \in Bots : s.submitted[b] > 0 =>
                  \E n \in view.verified : chain[Judged(n)].author = b
            /\ \A b \in Bots : s.reviewed[b] > 0 =>
                  b # Publisher /\ \E n \in view.verified, v \in Of("verify", chain) :
                      /\ chain[v].targetid = Judged(n) /\ chain[v].author = b
                      /\ chain[v].verdict = "pass" /\ chain[Judged(n)].author # b
            /\ \A p \in s.unpaid : \A n \in view.verified : p # Judged(n)
=============================================================================
