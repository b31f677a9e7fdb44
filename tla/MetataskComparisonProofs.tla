---------------------- MODULE MetataskComparisonProofs ----------------------
(***************************************************************************)
(* The replays of two logs compared: a ballot that fails a gate leaves     *)
(* what an event of another task leaves, and what is settled stays settled *)
(* when the log grows. For every log, tree and policy.                     *)
(***************************************************************************)
EXTENDS MetataskReplayProofs

-----------------------------------------------------------------------------
(* A ballot that fails a gate, and an event of another task in its place.  *)

Gated(log, p) == log[p].path = "verify" /\ (Malformed(log, p) \/ BarredByRoster(log, p))

\* a ends in a gated ballot where b ends in an event of another task.
Alike(a, b) ==
    /\ IsLog(a) /\ IsLog(b) /\ Refers(a) /\ Refers(b)
    /\ Len(b) = Len(a) /\ Len(a) # 0
    /\ \A p \in 1 .. Len(a) : p # Len(a) => b[p] = a[p]
    /\ Gated(a, Len(a)) /\ b[Len(a)] = Elsewhere

\* Their events of other paths are the same.
LEMMA AlikeOf ==
    ASSUME NEW a, NEW b, Alike(a, b)
    PROVE  /\ \A path \in {"claim", "release", "submission", "amend", "challenge"} :
                 Of(path, a) = Of(path, b) /\ \A p \in Of(path, a) : a[p] = b[p]
           /\ Of("verify", a) = Of("verify", b) \cup {Len(a)}
           /\ \A p \in Of("verify", b) : a[p] = b[p] /\ p # Len(a)
           /\ Len(a) \in 1 .. Len(a)
<1>0. /\ Len(a) \in Nat /\ Len(a) # 0 /\ DOMAIN a = 1 .. Len(a) /\ DOMAIN b = 1 .. Len(b)
      /\ Len(b) = Len(a) /\ \A p \in 1 .. Len(a) : p # Len(a) => b[p] = a[p]
  BY Zenon DEF Alike, IsLog
<1>1. Len(a) \in 1 .. Len(a) /\ DOMAIN b = 1 .. Len(a)
  <2> SUFFICES ASSUME NEW last \in Nat, last # 0 PROVE last \in 1 .. last
    BY <1>0, Zenon
  <2> QED
    OBVIOUS
<1>2. a[Len(a)].path = "verify" /\ b[Len(a)].path = "elsewhere"
  BY DEF Alike, Gated, Elsewhere
<1> QED
  BY <1>0, <1>1, <1>2 DEF Of

\* So are the ballots that act.
LEMMA AlikeActing ==
    ASSUME NEW a, NEW b, Alike(a, b)
    PROVE  Acting(a) = Acting(b) /\ \A v \in Acting(a) : a[v] = b[v] /\ v # Len(a)
<1>1. Of("submission", a) = Of("submission", b) /\ \A s \in Of("submission", a) : a[s] = b[s]
  BY AlikeOf
<1>2. Ballots(a) = Ballots(b) \cup {Len(a)}
  <2>1. a[Len(a)].targetid \in Of("submission", a)
    BY AlikeOf DEF Alike, Refers, IsLog, Gated
  <2> QED
    BY <1>1, <2>1, AlikeOf DEF Ballots
<1>3. \A p \in Ballots(b) : /\ a[p] = b[p] /\ p # Len(a)
                            /\ b[p].targetid \in Of("submission", b)
  BY AlikeOf DEF Ballots
<1>4. \A p \in Ballots(b) : /\ Malformed(a, p) = Malformed(b, p)
                            /\ BarredByRoster(a, p) = BarredByRoster(b, p)
  BY <1>1, <1>3 DEF Malformed, BarredByRoster
<1>5. ValidBallots(a) = ValidBallots(b)
  <2>1. Malformed(a, Len(a)) \/ BarredByRoster(a, Len(a))
    BY DEF Alike, Gated
  <2> QED
    BY <1>2, <1>3, <1>4, <2>1 DEF ValidBallots
<1>6. \A p, q \in ValidBallots(a) : SameBallot(a, p, q) = SameBallot(b, p, q)
  BY <1>3, <1>5 DEF ValidBallots, SameBallot
<1> QED
  BY <1>3, <1>5, <1>6 DEF Acting, ValidBallots

\* Two logs with the same submissions and acting ballots; what the one claims the
\* other does too.
Matching(a, b) ==
    /\ IsLog(a) /\ IsLog(b) /\ Refers(a) /\ Refers(b)
    /\ Of("submission", a) = Of("submission", b)
    /\ Acting(a) = Acting(b)
    /\ \A p \in Of("claim", a) \cup Of("submission", a) \cup Acting(a) : a[p] = b[p]

\* What matching logs have in common, event by event.
LEMMA MatchOf ==
    ASSUME NEW a, NEW b, Matching(a, b)
    PROVE  /\ \A p \in Of("claim", a) : a[p] = b[p]
           /\ Of("submission", a) = Of("submission", b)
           /\ \A p \in Of("submission", a) : a[p] = b[p]
           /\ Acting(a) = Acting(b) /\ \A v \in Acting(a) : a[v] = b[v]
BY DEF Matching

\* Logs that differ in a gated ballot match.
LEMMA AlikeMatching ==
    ASSUME NEW a, NEW b, Alike(a, b)
    PROVE  Matching(a, b)
BY AlikeOf, AlikeActing DEF Alike, Matching

\* The submission a cycle is judged by is in both.
LEMMA MatchEffective ==
    ASSUME NEW a, NEW b, Matching(a, b), NEW last, NEW w, WInv(w, a, last),
           NEW c \in DOMAIN w.cycles
    PROVE  /\ Effective(w, c) \in Of("submission", a)
           /\ a[Effective(w, c)] = b[Effective(w, c)] /\ a[c] = b[c]
<1>1. Cycle(w.cycles[c], a, c) /\ c \in Of("claim", a)
  BY DEF WInv, Cycles
<1>2. Effective(w, c) \in Of("submission", a)
  BY <1>1, EffectiveIn DEF Effective
<1> QED
  BY <1>1, <1>2, MatchOf

\* The walk takes the same step in both, the gated ballot included.
LEMMA AlikeStep ==
    ASSUME NEW a, NEW b, Alike(a, b), NEW inTree, NEW p \in 1 .. Len(a),
           NEW w, WInv(w, a, p-1)
    PROVE  WalkStep(w, a, inTree, Acting(a), p) = WalkStep(w, b, inTree, Acting(b), p)
<1>1. CASE p = Len(a)
  <2>1. p \notin Acting(a) /\ a[p].path = "verify" /\ b[p].path = "elsewhere"
    BY <1>1, AlikeActing DEF Alike, Gated, Elsewhere
  <2> QED
    BY <2>1 DEF WalkStep
<1>2. CASE p # Len(a)
  <2>1. a[p] = b[p] /\ Acting(a) = Acting(b) /\ p \in DOMAIN a
    BY <1>2, AlikeActing DEF Alike, IsLog
  <2>2. AfterClaim(w, a, p) = AfterClaim(w, b, p) /\ AfterRelease(w, a, p) = AfterRelease(w, b, p)
    BY <2>1 DEF AfterClaim, AfterRelease
  <2>3. AfterSubmission(w, a, p) = AfterSubmission(w, b, p)
    <3>1. a[p].claimid \in DOMAIN w.cycles => Supersedes(w, a, p) = Supersedes(w, b, p)
      BY <2>1, AlikeMatching, MatchEffective DEF Supersedes
    <3>2. CASE a[p].claimid \in DOMAIN w.cycles
      BY <2>1, <3>1, <3>2, Zenon DEF AfterSubmission
    <3>3. CASE a[p].claimid \notin DOMAIN w.cycles
      BY <2>1, <3>3, Zenon DEF AfterSubmission
    <3> QED
      BY <3>2, <3>3
  <2>4. p \in Acting(a) => AfterVote(w, a, p) = AfterVote(w, b, p)
    <3> SUFFICES ASSUME p \in Acting(a) PROVE AfterVote(w, a, p) = AfterVote(w, b, p)
      OBVIOUS
    <3>1. a[p].targetid \in Of("submission", a)
      BY ActingVotes
    <3>2. a[a[p].targetid] = b[b[p].targetid]
      BY <2>1, <3>1, AlikeOf
    <3>3. Independent(a, p) = Independent(b, p)
      BY <2>1, <3>2 DEF Independent
    <3>4. ASSUME NEW u, NEW n, NEW c PROVE Passed(u, a, p, n, c) = Passed(u, b, p, n, c)
      BY <2>1, <3>3, Zenon DEF Passed
    <3> QED
      BY <2>1, <3>2, <3>4, ZenonT(60) DEF AfterVote
  <2> QED
    BY <2>1, <2>2, <2>3, <2>4 DEF WalkStep
<1> QED
  BY <1>1, <1>2

\* So it ends the same in both.
LEMMA AlikeWalk ==
    ASSUME NEW a, NEW b, Alike(a, b), NEW inTree
    PROVE  Expired(Walk(a, inTree), a) = Expired(Walk(b, inTree), b)
<1>1. Len(a) \in Nat /\ Len(b) = Len(a) /\ IsLog(a) /\ Refers(a)
  BY DEF Alike, IsLog
<1> DEFINE ta == WalkTo(a, inTree)
           tb == WalkTo(b, inTree)
           good == {p \in 0 .. Len(a) : ta[p] = tb[p] /\ WInv(ta[p], a, p)}
<1>2. /\ ta[0] = EmptyWalk /\ tb[0] = EmptyWalk
      /\ \A p \in 1 .. Len(a) : /\ ta[p] = WalkStep(ta[p-1], a, inTree, Acting(a), p)
                                 /\ tb[p] = WalkStep(tb[p-1], b, inTree, Acting(b), p)
  BY <1>1, WalkUnfolds
<1>3. 0 \in good
  BY <1>1, <1>2, EmptyWalkInv
<1> HIDE DEF ta, tb
<1>4. ASSUME NEW p \in 1 .. Len(a), p-1 \in good PROVE p \in good
  BY <1>1, <1>2, <1>4, AlikeStep, WalkStepInv
<1>5. 0 .. Len(a) \subseteq good
  <2> HIDE DEF good
  <2> QED
    BY <1>1, <1>3, <1>4, PlaceInduction
<1>6. Walk(a, inTree) = Walk(b, inTree)
  BY <1>1, <1>5 DEF Walk, ta, tb
<1> QED
  BY <1>1, <1>6 DEF Expired, ClaimExpired, ReviewExpired

\* The nodes are judged by the same cycles.
LEMMA MatchCycles ==
    ASSUME NEW a, NEW b, Matching(a, b), NEW last \in Nat, NEW w, WInv(w, a, last)
    PROVE  /\ \A n : /\ ActiveCycle(w, a, n) = ActiveCycle(w, b, n)
                     /\ EffectiveOf(a, w, n) = EffectiveOf(b, w, n)
                     /\ OwnVerified(a, w, n) = OwnVerified(b, w, n)
           /\ ApprovedNodes(a, w) = ApprovedNodes(b, w)
<1>1. ASSUME NEW n PROVE ActiveCycle(w, a, n) = ActiveCycle(w, b, n)
  <2> DEFINE own(log) == {c \in DOMAIN w.cycles : log[c].node = n}
             latest(set) == IF set = {} THEN NoPin ELSE CHOOSE c \in set : \A d \in set : d <= c
  <2>1. own(a) = own(b)
    BY MatchEffective
  <2>2. ActiveCycle(w, a, n) = latest(own(a)) /\ ActiveCycle(w, b, n) = latest(own(b))
    BY Zenon DEF ActiveCycle
  <2> HIDE DEF own, latest
  <2> QED
    BY <2>1, <2>2, Zenon
<1>2. ASSUME NEW n PROVE /\ EffectiveOf(a, w, n) = EffectiveOf(b, w, n)
                         /\ OwnVerified(a, w, n) = OwnVerified(b, w, n)
  <2>1. EffectiveOf(a, w, n) = EffectiveOf(b, w, n)
    BY <1>1, Zenon DEF EffectiveOf
  <2>2. OwnVerified(a, w, n) <=> OwnVerified(b, w, n)
    BY <1>1, Zenon DEF OwnVerified
  <2>3. OwnVerified(a, w, n) \in BOOLEAN /\ OwnVerified(b, w, n) \in BOOLEAN
    BY DEF OwnVerified
  <2> QED
    BY <2>1, <2>2, <2>3
<1>3. ApprovedNodes(a, w) = ApprovedNodes(b, w)
  <2>1. \A n : (LET c == ActiveCycle(w, a, n) IN c # NoPin /\ Effective(w, c) \in w.approved)
               <=> (LET c == ActiveCycle(w, b, n) IN c # NoPin /\ Effective(w, c) \in w.approved)
    BY <1>1, Zenon
  <2> QED
    BY <2>1 DEF ApprovedNodes
<1> QED
  BY <1>1, <1>2, <1>3

\* A node that has a cycle is judged by a submission both have.
LEMMA MatchJudged ==
    ASSUME NEW a, NEW b, Matching(a, b), NEW last \in Nat, NEW w, WInv(w, a, last), NEW n,
           ActiveCycle(w, a, n) # NoPin
    PROVE  /\ EffectiveOf(a, w, n) \in Of("submission", a)
           /\ EffectiveOf(b, w, n) = EffectiveOf(a, w, n)
           /\ a[EffectiveOf(a, w, n)] = b[EffectiveOf(a, w, n)]
<1>1. ActiveCycle(w, a, n) \in DOMAIN w.cycles
  BY ActiveCycleOf
<1>2. EffectiveOf(a, w, n) = Effective(w, ActiveCycle(w, a, n))
  BY DEF EffectiveOf
<1> QED
  BY <1>1, <1>2, MatchCycles, MatchEffective

\* The same amendments are taken.
LEMMA AlikeOperated ==
    ASSUME NEW a, NEW b, NEW w, ApprovedNodes(a, w) = ApprovedNodes(b, w),
           NEW p, NEW tree, NEW ops, Len(ops) \in Nat
    PROVE  Operated(a, w, p, tree, ops) = Operated(b, w, p, tree, ops)
<1>1. ASSUME NEW t, NEW op PROVE Operate(a, w, p, tree, t, op) = Operate(b, w, p, tree, t, op)
  BY Zenon DEF Operate
<1>2. ASSUME NEW trees, NEW op
      PROVE  OperateEach(a, w, p, tree, trees, op) = OperateEach(b, w, p, tree, trees, op)
  <2>1. {Operate(a, w, p, tree, t, op) : t \in trees} = {Operate(b, w, p, tree, t, op) : t \in trees}
    BY <1>1
  <2> QED
    BY <2>1 DEF OperateEach
<1> DEFINE ta == OperatedTo(a, w, p, tree, ops)
           tb == OperatedTo(b, w, p, tree, ops)
           good == {i \in 0 .. Len(ops) : ta[i] = tb[i]}
<1>3. /\ ta[0] = {tree} /\ tb[0] = {tree}
      /\ \A i \in 1 .. Len(ops) : /\ ta[i] = OperateEach(a, w, p, tree, ta[i-1], ops[i])
                                  /\ tb[i] = OperateEach(b, w, p, tree, tb[i-1], ops[i])
  BY OperatedUnfolds
<1> HIDE DEF ta, tb
<1>4. 0 \in good
  <2>1. ta[0] = tb[0]
    BY <1>3, Zenon
  <2> QED
    BY <2>1
<1>5. ASSUME NEW i \in 1 .. Len(ops), i-1 \in good PROVE i \in good
  <2>1. ta[i-1] = tb[i-1]
    BY <1>5
  <2>2. /\ ta[i] = OperateEach(a, w, p, tree, ta[i-1], ops[i])
        /\ tb[i] = OperateEach(b, w, p, tree, tb[i-1], ops[i])
    BY <1>3, Zenon
  <2>3. ta[i] = tb[i]
    BY <1>2, <2>1, <2>2, Zenon
  <2> QED
    BY <2>3
<1>6. 0 .. Len(ops) \subseteq good
  <2> HIDE DEF good
  <2> QED
    BY <1>4, <1>5, PlaceInduction
<1> QED
  BY <1>6 DEF Operated, ta, tb

\* So the amendments end in the same tree.
LEMMA AlikeAmended ==
    ASSUME NEW a, NEW b, Alike(a, b), NEW w, WInv(w, a, Len(a))
    PROVE  AmendedTo(a, w)[Len(a)] = AmendedTo(b, w)[Len(b)]
<1>1. Len(a) \in Nat /\ Len(b) = Len(a) /\ IsLog(a) /\ Refers(a) /\ DOMAIN a = 1 .. Len(a)
  BY DEF Alike, IsLog
<1>2. ApprovedNodes(a, w) = ApprovedNodes(b, w)
  BY <1>1, AlikeMatching, MatchCycles
<1>3. ASSUME NEW p \in 1 .. Len(a) PROVE a[p].path = "amend" <=> b[p].path = "amend"
  BY <1>1 DEF Alike, Gated, Elsewhere
<1>4. ASSUME NEW p \in 1 .. Len(a), a[p].path = "amend", NEW f
      PROVE  Amend(a, w, f, p) = Amend(b, w, f, p)
  <2>1. a[p] = b[p] /\ a[p].ops \in Amendments
    BY <1>1, <1>4 DEF Alike, Gated, Refers
  <2>2. Operated(a, w, p, f.tree, a[p].ops) = Operated(b, w, p, f.tree, b[p].ops)
    <3>1. Len(a[p].ops) \in Nat
      BY <2>1, ReplayAssumption
    <3> QED
      BY <1>2, <2>1, <3>1, AlikeOperated
  <2> QED
    BY <1>2, <2>1, <2>2, Zenon DEF Amend, Builds
<1> DEFINE ta == AmendedTo(a, w)
           tb == AmendedTo(b, w)
           good == {p \in 0 .. Len(a) : ta[p] = tb[p]}
<1>5. /\ ta[0] = tb[0]
      /\ \A p \in 1 .. Len(a) :
            /\ ta[p] = IF a[p].path = "amend" THEN Amend(a, w, ta[p-1], p) ELSE ta[p-1]
            /\ tb[p] = IF b[p].path = "amend" THEN Amend(b, w, tb[p-1], p) ELSE tb[p-1]
  BY <1>1, AmendedUnfolds
<1> HIDE DEF ta, tb
<1>6. 0 \in good
  BY <1>1, <1>5
<1>7. \A p \in 1 .. Len(a) : p-1 \in good => p \in good
  BY <1>3, <1>4, <1>5
<1>8. 0 .. Len(a) \subseteq good
  <2> HIDE DEF good
  <2> QED
    BY <1>1, <1>6, <1>7, PlaceInduction
<1> QED
  BY <1>1, <1>8 DEF ta, tb

\* The same nodes are verified.
LEMMA MatchVerified ==
    ASSUME NEW a, NEW b, Matching(a, b), NEW last \in Nat, NEW w, WInv(w, a, last), NEW tree
    PROVE  FinallyVerified(a, w, tree) = FinallyVerified(b, w, tree)
<1> DEFINE Ha(n, final) ==
              (Children(tree, n) # {} /\ EffectiveOf(a, w, n) >= HAct2) =>
                /\ Children(tree, n) \subseteq final
                /\ a[EffectiveOf(a, w, n)].childids = {EffectiveOf(a, w, m) : m \in Children(tree, n)}
           Hb(n, final) ==
              (Children(tree, n) # {} /\ EffectiveOf(b, w, n) >= HAct2) =>
                /\ Children(tree, n) \subseteq final
                /\ b[EffectiveOf(b, w, n)].childids = {EffectiveOf(b, w, m) : m \in Children(tree, n)}
           own == {n \in DOMAIN tree : OwnVerified(a, w, n)}
<1>1. own = {n \in DOMAIN tree : OwnVerified(b, w, n)}
  BY MatchCycles
<1>2. ASSUME NEW n \in own, NEW final PROVE Ha(n, final) <=> Hb(n, final)
  <2>1. /\ EffectiveOf(b, w, n) = EffectiveOf(a, w, n)
        /\ a[EffectiveOf(a, w, n)] = b[EffectiveOf(a, w, n)]
    BY MatchJudged DEF OwnVerified
  <2>2. {EffectiveOf(a, w, m) : m \in Children(tree, n)} = {EffectiveOf(b, w, m) : m \in Children(tree, n)}
    BY MatchCycles
  <2> QED
    BY <2>1, <2>2, Zenon
<1> HIDE DEF Ha, Hb, own
<1>3. {final \in SUBSET own : \A n \in final : Ha(n, final)} =
      {final \in SUBSET own : \A n \in final : Hb(n, final)}
  BY <1>2
<1>4. FinallyVerified(a, w, tree) = UNION {final \in SUBSET own : \A n \in final : Ha(n, final)}
  BY Zenon DEF FinallyVerified, own, Ha
<1>5. FinallyVerified(b, w, tree) = UNION {final \in SUBSET own : \A n \in final : Hb(n, final)}
  BY <1>1, Zenon DEF FinallyVerified, Hb
<1> QED
  BY <1>3, <1>4, <1>5

\* So do the challenges open after each place.
LEMMA ChallengedUnfolds ==
    ASSUME NEW log, NEW w, NEW tree, Len(log) \in Nat
    PROVE  /\ ChallengedTo(log, w, tree)[0] = {}
           /\ \A p \in 1 .. Len(log) :
                 ChallengedTo(log, w, tree)[p] =
                    ChallengeStep(ChallengedTo(log, w, tree)[p-1], log,
                                  CurrentTargets(log, w, tree), p)
<1> DEFINE step(f, p) == ChallengeStep(f, log, CurrentTargets(log, w, tree), p)
           walks(f, k) == f = [p \in 0 .. k |-> IF p = 0 THEN {} ELSE step(f[p-1], p)]
<1>1. \A k \in 0 .. Len(log) : \E f : walks(f, k)
  <2> HIDE DEF step
  <2>1. \E f : walks(f, 0)
    <3>1. walks([p \in 0 .. 0 |-> {}], 0)
      OBVIOUS
    <3> QED
      BY <3>1
  <2>2. ASSUME NEW k \in 1 .. Len(log), NEW f, walks(f, k-1)
        PROVE  \E g : walks(g, k)
    <3> DEFINE g == [p \in 0 .. k |-> IF p = k THEN step(f[k-1], k) ELSE f[p]]
    <3>1. \A p \in 0 .. k : g[p] = IF p = 0 THEN {} ELSE step(g[p-1], p)
      <4> TAKE p \in 0 .. k
      <4>1. CASE p = k
        <5>1. g[k-1] = f[k-1] /\ p # 0
          BY <4>1
        <5> QED
          BY <4>1, <5>1
      <4>2. CASE p # k
        <5>1. p \in 0 .. k-1
          BY <4>2
        <5>2. f[p] = IF p = 0 THEN {} ELSE step(f[p-1], p)
          BY <2>2, <5>1
        <5>3. p # 0 => g[p-1] = f[p-1]
          BY <5>1
        <5> QED
          BY <5>1, <5>2, <5>3
      <4> QED
        BY <4>1, <4>2
    <3>2. walks(g, k)
      BY <3>1
    <3> QED
      BY <3>2
  <2> DEFINE good == {k \in 0 .. Len(log) : \E f : walks(f, k)}
  <2> HIDE DEF walks
  <2>3. 0 \in good /\ \A k \in 1 .. Len(log) : k-1 \in good => k \in good
    BY <2>1, <2>2
  <2>4. 0 .. Len(log) \subseteq good
    <3> HIDE DEF good
    <3> QED
      BY <2>3, PlaceInduction
  <2> QED
    BY <2>4
<1>2. walks(ChallengedTo(log, w, tree), Len(log))
  <2>1. ChallengedTo(log, w, tree) = CHOOSE f : walks(f, Len(log))
    BY Zenon DEF ChallengedTo
  <2> HIDE DEF walks
  <2>2. \E f : walks(f, Len(log))
    BY <1>1
  <2> QED
    BY <2>1, <2>2, Zenon
<1> QED
  <2> HIDE DEF step
  <2>1. \A p \in 0 .. Len(log) :
           ChallengedTo(log, w, tree)[p] = IF p = 0 THEN {}
                                    ELSE step(ChallengedTo(log, w, tree)[p-1], p)
    BY <1>2
  <2> USE DEF step
  <2> QED
    BY <2>1

\* The same challenges are open.
LEMMA AlikeChallenged ==
    ASSUME NEW a, NEW b, Alike(a, b), NEW w, WInv(w, a, Len(a)), NEW tree
    PROVE  /\ Challenged(a, w, tree) = Challenged(b, w, tree)
           /\ Challenged(a, w, tree) \subseteq Of("challenge", a)
<1>1. Len(a) \in Nat /\ Len(b) = Len(a) /\ DOMAIN a = 1 .. Len(a)
  BY DEF Alike, IsLog
<1>0. \A path \in {"challenge", "submission"} :
         Of(path, a) = Of(path, b) /\ \A p \in Of(path, a) : a[p] = b[p]
  BY AlikeOf
<1>2. CurrentTargets(a, w, tree) = CurrentTargets(b, w, tree)
  <2>1. {m \in DOMAIN tree : ActiveCycle(w, a, m) # NoPin} =
        {m \in DOMAIN tree : ActiveCycle(w, b, m) # NoPin}
    BY <1>1, AlikeMatching, MatchCycles
  <2>2. \A n : EffectiveOf(a, w, n) = EffectiveOf(b, w, n)
    BY <1>1, AlikeMatching, MatchCycles
  <2> QED
    BY <2>1, <2>2 DEF CurrentTargets
<1> DEFINE targets == CurrentTargets(a, w, tree)
           ta == ChallengedTo(a, w, tree)
           tb == ChallengedTo(b, w, tree)
           good == {p \in 0 .. Len(a) : ta[p] = tb[p] /\ ta[p] \subseteq Of("challenge", a)}
<1>3. /\ ta[0] = {} /\ tb[0] = {}
      /\ \A p \in 1 .. Len(a) : /\ ta[p] = ChallengeStep(ta[p-1], a, targets, p)
                                /\ tb[p] = ChallengeStep(tb[p-1], b, targets, p)
  BY <1>1, <1>2, ChallengedUnfolds
<1> HIDE DEF ta, tb, targets
<1>4. 0 \in good
  <2>1. ta[0] = tb[0] /\ ta[0] = {}
    BY <1>3, Zenon
  <2>2. 0 \in 0 .. Len(a)
    BY <1>1
  <2> QED
    BY <2>1, <2>2, Zenon
<1>5. ASSUME NEW p \in 1 .. Len(a), NEW open, open \subseteq Of("challenge", a)
      PROVE  /\ ChallengeStep(open, a, targets, p) = ChallengeStep(open, b, targets, p)
             /\ ChallengeStep(open, a, targets, p) \subseteq Of("challenge", a)
  <2>1. CASE a[p].path # "challenge"
    <3>1. b[p].path # "challenge"
      <4>1. DOMAIN b = 1 .. Len(a) /\ Of("challenge", a) = Of("challenge", b)
        BY <1>0 DEF Alike, IsLog
      <4> QED
        BY <1>1, <2>1, <4>1 DEF Of
    <3> QED
      BY <1>5, <2>1, <3>1 DEF ChallengeStep
  <2>2. CASE a[p].path = "challenge"
    <3>1. p \in Of("challenge", a) /\ a[p] = b[p]
      BY <1>0, <1>1, <2>2 DEF Of
    <3>2. a[p].targetid \in Of("submission", a) => a[a[p].targetid] = b[b[p].targetid]
      BY <1>0, <3>1
    <3>3. Of("submission", a) = Of("submission", b)
      BY <1>0
    <3> DEFINE same(log) == {q \in open : log[q].author = log[p].author
                                          /\ log[q].targetid = log[p].targetid}
               refused(log) == \/ log[p].targetid \notin Of("submission", log) \/ p < HAct2
                               \/ log[p].author \in {log[log[p].targetid].author, Publisher}
                               \/ ~log[p].evidence
               late(log) == \/ same(log) # {} \/ log[p].targetid \notin targets
                            \/ Len(log) - p > ChallengeTtlHours
               after(log) == IF refused(log) THEN open
                             ELSE IF log[p].withdraw THEN open \ same(log)
                             ELSE IF late(log) THEN open ELSE open \cup {p}
    <3>4. same(a) = same(b)
      BY <1>0, <1>5, <3>1
    <3>5. refused(a) <=> refused(b)
      BY <3>1, <3>2, <3>3
    <3>6. late(a) <=> late(b)
      BY <1>1, <3>1, <3>4, Zenon
    <3>7. /\ ChallengeStep(open, a, targets, p) = after(a)
          /\ ChallengeStep(open, b, targets, p) = after(b)
      BY <2>2, <3>1 DEF ChallengeStep
    <3> HIDE DEF same, refused, late
    <3>8. after(a) = after(b) /\ after(a) \subseteq Of("challenge", a)
      BY <1>5, <3>1, <3>4, <3>5, <3>6
    <3> QED
      BY <3>7, <3>8
  <2> QED
    BY <2>1, <2>2
<1>6. ASSUME NEW p \in 1 .. Len(a), p-1 \in good PROVE p \in good
  BY <1>3, <1>5, <1>6
<1>7. 0 .. Len(a) \subseteq good
  <2> HIDE DEF good
  <2> QED
    BY <1>1, <1>4, <1>6, PlaceInduction
<1> QED
  BY <1>1, <1>7 DEF Challenged, ta, tb

\* The same nodes are disputed.
LEMMA AlikeDisputed ==
    ASSUME NEW a, NEW b, Alike(a, b), NEW w, WInv(w, a, Len(a)), NEW tree, NEW verified
    PROVE  Disputed(a, w, tree, verified) = Disputed(b, w, tree, verified)
<1>1. Len(a) \in Nat
  BY DEF Alike, IsLog
<1>2. \A n : EffectiveOf(a, w, n) = EffectiveOf(b, w, n)
  BY <1>1, AlikeMatching, MatchCycles
<1>3. Challenged(a, w, tree) = Challenged(b, w, tree)
      /\ \A p \in Challenged(a, w, tree) : a[p] = b[p]
  BY AlikeChallenged, AlikeOf
<1> QED
  BY <1>2, <1>3 DEF Disputed

\* The same ballots pass a submission.
LEMMA MatchPasses ==
    ASSUME NEW a, NEW b, Matching(a, b), NEW sub
    PROVE  /\ Reviews(a, sub) = Reviews(b, sub) /\ Reviews(a, sub) \subseteq Acting(a)
           /\ Passes(a, sub) = Passes(b, sub) /\ Passes(a, sub) \subseteq Acting(a)
<1>1. Acting(a) = Acting(b) /\ \A v \in Acting(a) : a[v] = b[v]
  BY MatchOf
<1>2. ASSUME NEW v \in Acting(a) PROVE Independent(a, v) <=> Independent(b, v)
  <2>1. a[a[v].targetid] = b[b[v].targetid]
    BY <1>1, ActingVotes, MatchOf
  <2> QED
    BY <1>1, <2>1 DEF Independent
<1>3. Reviews(a, sub) = Reviews(b, sub) /\ Reviews(a, sub) \subseteq Acting(a)
  BY <1>1, <1>2 DEF Reviews
<1> QED
  BY <1>1, <1>3 DEF Passes

\* Reviewers are as accurate.
LEMMA MatchAccuracy ==
    ASSUME NEW a, NEW b, Matching(a, b), NEW w, NEW bot
    PROVE  Accuracy(a, w, bot) = Accuracy(b, w, bot)
<1> DEFINE ended == {c \in DOMAIN w.cycles : w.cycles[c].outcome \in {"verified", "fail_rejected"}}
           Agrees(log, c, v) == \/ log[v].verdict = "pass" /\ w.cycles[c].outcome = "verified"
                                \/ log[v].verdict = "fail" /\ w.cycles[c].outcome = "fail_rejected"
           cast(log) == {cv \in ended \X Acting(log) :
                           cv[2] \in Reviews(log, Effective(w, cv[1])) /\ log[cv[2]].author = bot}
           correct(log) == {cv \in cast(log) : Agrees(log, cv[1], cv[2])}
<1>1. Acting(a) = Acting(b) /\ \A v \in Acting(a) : a[v] = b[v]
  BY MatchOf
<1>2. cast(a) = cast(b)
  <2> HIDE DEF ended
  <2>1. \A sub : Reviews(a, sub) = Reviews(b, sub)
    BY MatchPasses
  <2> QED
    BY <1>1, <2>1
<1>3. correct(a) = correct(b)
  <2>1. \A cv \in cast(a) : a[cv[2]] = b[cv[2]]
    BY <1>1
  <2> HIDE DEF cast
  <2> QED
    BY <1>2, <2>1
<1> DEFINE bounded(right, all) ==
              Min({Max({(Total * (Cardinality(right) + 1)) \div (Cardinality(all) + 2), 2500}), Total})
<1>4. Accuracy(a, w, bot) = bounded(correct(a), cast(a))
  BY Zenon DEF Accuracy
<1>5. Accuracy(b, w, bot) = bounded(correct(b), cast(b))
  BY Zenon DEF Accuracy
<1> HIDE DEF bounded, correct, cast
<1> QED
  BY <1>2, <1>3, <1>4, <1>5, Zenon

\* The same is settled.
LEMMA MatchSettlement ==
    ASSUME NEW a, NEW b, Matching(a, b), NEW w, WInv(w, a, Len(a)), NEW tree, NEW verified,
           \A n \in verified : OwnVerified(a, w, n)
    PROVE  Settlement(a, w, tree, verified) = Settlement(b, w, tree, verified)
<1>1. Len(a) \in Nat
  BY DEF Matching, IsLog
<1>2. \A n \in verified : /\ EffectiveOf(b, w, n) = EffectiveOf(a, w, n)
                          /\ a[EffectiveOf(a, w, n)] = b[EffectiveOf(a, w, n)]
  BY <1>1, MatchJudged DEF OwnVerified
<1>3. ASSUME NEW n \in verified, NEW weight, NEW bot
      PROVE  SubmittedBP(a, w, weight, n, bot) = SubmittedBP(b, w, weight, n, bot)
  <2>1. Passes(a, EffectiveOf(a, w, n)) = Passes(b, EffectiveOf(b, w, n))
    BY <1>2, MatchPasses
  <2> QED
    BY <1>2, <2>1, Zenon DEF SubmittedBP
<1>4. ASSUME NEW n \in verified, NEW weight, NEW bot
      PROVE  ReviewedBP(a, w, weight, n, bot) = ReviewedBP(b, w, weight, n, bot)
  <2> DEFINE passes == Passes(a, EffectiveOf(a, w, n))
             rated(log) == [v \in passes |-> Accuracy(log, w, log[v].author)]
             cast(log) == \E v \in passes : log[v].author = bot
             part(voted, accuracy, all) == IF voted THEN (Pool(weight[n]) * accuracy) \div all ELSE 0
  <2>1. passes = Passes(b, EffectiveOf(b, w, n)) /\ \A v \in passes : a[v] = b[v]
    BY <1>2, MatchPasses, MatchOf
  <2>2. \A other : Accuracy(a, w, other) = Accuracy(b, w, other)
    BY MatchAccuracy
  <2>3. ReviewedBP(a, w, weight, n, bot) =
           part(cast(a), Accuracy(a, w, bot), SumFunction(rated(a)))
    BY Zenon DEF ReviewedBP
  <2>4. ReviewedBP(b, w, weight, n, bot) =
           part(cast(b), Accuracy(b, w, bot), SumFunction(rated(b)))
    BY <2>1, Zenon DEF ReviewedBP
  <2> HIDE DEF passes
  <2>5. rated(a) = rated(b) /\ (cast(a) <=> cast(b))
    BY <2>1, <2>2
  <2> HIDE DEF rated, cast
  <2>6. Accuracy(a, w, bot) = Accuracy(b, w, bot)
    BY <2>2
  <2>7. CASE cast(a)
    BY <2>3, <2>4, <2>5, <2>6, <2>7
  <2>8. CASE ~cast(a)
    BY <2>3, <2>4, <2>5, <2>6, <2>8
  <2> QED
    BY <2>7, <2>8
<1> DEFINE weight == Weights(tree)
           sub(log) == [x \in Bots |-> SumFunction([n \in verified |-> SubmittedBP(log, w, weight, n, x)])]
           rev(log) == [x \in Bots |-> SumFunction([n \in verified |-> ReviewedBP(log, w, weight, n, x)])]
<1> HIDE DEF weight
<1>5. sub(a) = sub(b)
  <2>1. ASSUME NEW x \in Bots
        PROVE  [n \in verified |-> SubmittedBP(a, w, weight, n, x)] =
               [n \in verified |-> SubmittedBP(b, w, weight, n, x)]
    BY <1>3
  <2> QED
    BY <2>1
<1>6. rev(a) = rev(b)
  <2>1. ASSUME NEW x \in Bots
        PROVE  [n \in verified |-> ReviewedBP(a, w, weight, n, x)] =
               [n \in verified |-> ReviewedBP(b, w, weight, n, x)]
    BY <1>4
  <2> QED
    BY <2>1
<1>7. /\ Settlement(a, w, tree, verified) =
            [submitted |-> sub(a), reviewed |-> rev(a), unpaid |-> Unpaid(w)]
      /\ Settlement(b, w, tree, verified) =
            [submitted |-> sub(b), reviewed |-> rev(b), unpaid |-> Unpaid(w)]
  BY Zenon DEF Settlement, weight
<1> HIDE DEF sub, rev
<1> QED
  BY <1>5, <1>6, <1>7, Zenon

\* The replay of both is the same.
LEMMA AlikeReplay ==
    ASSUME NEW a, NEW b, Alike(a, b)
    PROVE  Replay(a) = Replay(b)
<1>1. IsLog(a) /\ Refers(a)
  BY DEF Alike
<1> DEFINE fold == AmendedTo(a, FirstPass(a))[Len(a)]
           w == SecondPass(a, fold.tree)
           verified == FinallyVerified(a, w, fold.tree)
           disputed == Disputed(a, w, fold.tree, verified)
           settlement == Settlement(a, w, fold.tree, verified)
           shown(log, f, u, ver, dis, set) ==
              [tree |-> f.tree, head |-> f.head, walk |-> u, verified |-> ver, disputed |-> dis,
               settlement |-> IF Settles(ver, dis) THEN set ELSE NotSettled]
<1>2. FirstPass(a) = FirstPass(b)
  BY AlikeWalk DEF FirstPass
<1>3. fold = AmendedTo(b, FirstPass(b))[Len(b)]
  BY <1>1, <1>2, PassesInv, AlikeAmended
<1>4. w = SecondPass(b, fold.tree)
  <2> HIDE DEF fold
  <2> QED
    BY AlikeWalk DEF SecondPass
<1>5. WInv(w, a, Len(a)) /\ Len(a) \in Nat
  <2> HIDE DEF fold
  <2> QED
    BY <1>1, PassesInv DEF IsLog
<1> HIDE DEF fold, w
<1>6. verified = FinallyVerified(b, w, fold.tree)
  BY <1>5, AlikeMatching, MatchVerified
<1>7. \A n \in verified : OwnVerified(a, w, n)
  BY DEF FinallyVerified
<1> HIDE DEF verified
<1>8. disputed = Disputed(b, w, fold.tree, verified)
  BY <1>5, AlikeDisputed
<1>9. settlement = Settlement(b, w, fold.tree, verified)
  BY <1>5, <1>7, AlikeMatching, MatchSettlement
<1> HIDE DEF disputed, settlement
<1>10. Replay(a) = shown(a, fold, w, verified, disputed, settlement)
  BY Zenon DEF Replay, fold, w, verified, disputed, settlement
<1>11. Replay(b) = shown(b, fold, w, verified, disputed, settlement)
  BY <1>3, <1>4, <1>6, <1>8, <1>9, Zenon DEF Replay
<1> QED
  BY <1>10, <1>11

\* A ballot that fails a gate changes nothing but the time.
THEOREM GatedBallotsChangeNothing == SpecR => GatedBallotsAreInert
<1> DEFINE e == Len(chain')
           inert == chain'[e].path = "verify" /\ (Malformed(chain', e) \/ BarredByRoster(chain', e))
                       => view' = Replay(Append(chain, Elsewhere))
<1>1. RInv /\ [NextR]_rvars => [inert]_rvars
  <2> SUFFICES ASSUME RInv, NextR, Gated(chain', e)
               PROVE  view' = Replay(Append(chain, Elsewhere))
    BY DEF Gated
  <2> DEFINE b == Append(chain, Elsewhere)
  <2>1. PICK x : RefersTo(x, chain) /\ chain' = Append(chain, x) /\ view' = Replay(chain')
    BY PublishRefers
  <2>2. RefersTo(Elsewhere, chain)
    BY DEF RefersTo, Elsewhere
  <2>3. /\ IsSeq(chain) /\ IsSeq(chain') /\ IsSeq(b)
        /\ Refers(chain') /\ Refers(b)
    BY <2>1, <2>2, Longer, RefersAppend DEF RInv
  <2>4. Alike(chain', b)
    <3>1. IsLog(chain) /\ IsLog(chain') /\ IsLog(b)
      BY <2>3, Longer
    <3>2. /\ Len(chain') = Len(chain) + 1 /\ Len(b) = Len(chain) + 1 /\ Len(chain) \in Nat
          /\ b[Len(chain) + 1] = Elsewhere
          /\ DOMAIN chain' = 1 .. Len(chain')
          /\ \A p \in DOMAIN chain : b[p] = chain[p] /\ chain'[p] = chain[p]
          /\ DOMAIN chain = 1 .. Len(chain)
      BY <2>1, <2>3, <3>1, Longer DEF IsLog
    <3> HIDE DEF b
    <3> QED
      BY <2>3, <3>1, <3>2 DEF Alike
  <2> QED
    BY <2>1, <2>4, AlikeReplay
<1> QED
  BY <1>1, ReplayInvariant, PTL DEF SpecR, GatedBallotsAreInert

-----------------------------------------------------------------------------
(* A log and the same log one event later, when that event is a claim, a   *)
(* release, an amendment or of another task.                               *)

Continues(a, b) ==
    /\ IsLog(a) /\ IsLog(b) /\ Refers(a) /\ Refers(b)
    /\ Len(b) = Len(a) + 1
    /\ \A p \in 1 .. Len(a) : b[p] = a[p]
    /\ b[Len(b)].path \in {"claim", "release", "amend", "elsewhere"}

\* Its submissions, ballots and challenges are those of the shorter log.
LEMMA ContinuesOf ==
    ASSUME NEW a, NEW b, Continues(a, b)
    PROVE  /\ Len(a) \in Nat /\ Len(b) = Len(a) + 1
           /\ DOMAIN a = 1 .. Len(a) /\ DOMAIN b = 1 .. Len(b)
           /\ \A p \in DOMAIN a : p \in DOMAIN b /\ b[p] = a[p]
           /\ Of("claim", a) \subseteq Of("claim", b)
           /\ \A path \in {"submission", "verify", "challenge"} : Of(path, a) = Of(path, b)
           /\ Len(b) \notin DOMAIN a
<1>1. /\ Len(a) \in Nat /\ Len(b) = Len(a) + 1 /\ DOMAIN a = 1 .. Len(a) /\ DOMAIN b = 1 .. Len(b)
      /\ \A p \in 1 .. Len(a) : b[p] = a[p]
      /\ b[Len(b)].path \in {"claim", "release", "amend", "elsewhere"}
  BY DEF Continues, IsLog
<1>2. /\ DOMAIN b = DOMAIN a \cup {Len(b)} /\ Len(b) \notin DOMAIN a
  BY <1>1
<1>3. b[Len(b)].path \notin {"submission", "verify", "challenge"}
  BY <1>1
<1>4. \A path \in {"submission", "verify", "challenge"} : Of(path, a) = Of(path, b)
  BY <1>1, <1>2, <1>3 DEF Of
<1> QED
  BY <1>1, <1>2, <1>4 DEF Of

\* The same ballots act.
LEMMA ContinuesMatching ==
    ASSUME NEW a, NEW b, Continues(a, b)
    PROVE  Matching(a, b)
<1>1. /\ Of("submission", a) = Of("submission", b) /\ Of("verify", a) = Of("verify", b)
      /\ \A p \in DOMAIN a : b[p] = a[p]
  BY ContinuesOf
<1>2. \A path : Of(path, a) \subseteq DOMAIN a
  BY DEF Of
<1>3. Ballots(a) = Ballots(b)
  BY <1>1, <1>2 DEF Ballots
<1>4. \A p \in Ballots(b) : /\ a[p] = b[p] /\ b[p].targetid \in Of("submission", a)
                            /\ a[b[p].targetid] = b[b[p].targetid]
  BY <1>1, <1>2 DEF Ballots
<1>5. \A p \in Ballots(b) : /\ Malformed(a, p) = Malformed(b, p)
                            /\ BarredByRoster(a, p) = BarredByRoster(b, p)
  BY <1>4 DEF Malformed, BarredByRoster
<1>6. ValidBallots(a) = ValidBallots(b)
  BY <1>3, <1>5 DEF ValidBallots
<1>7. \A p, q \in ValidBallots(a) : SameBallot(a, p, q) = SameBallot(b, p, q)
  BY <1>4, <1>6 DEF ValidBallots, SameBallot
<1>8. Acting(a) = Acting(b) /\ Acting(a) \subseteq Ballots(b)
  BY <1>6, <1>7 DEF Acting, ValidBallots
<1> QED
  BY <1>1, <1>2, <1>4, <1>8 DEF Continues, Matching

\* The walk steps over the common places alike.
LEMMA ContinuedStep ==
    ASSUME NEW a, NEW b, Continues(a, b), NEW inTree, NEW p \in 1 .. Len(a),
           NEW w, WInv(w, a, p-1)
    PROVE  WalkStep(w, a, inTree, Acting(a), p) = WalkStep(w, b, inTree, Acting(b), p)
<1>1. a[p] = b[p] /\ Acting(a) = Acting(b) /\ p \in DOMAIN a
  BY ContinuesOf, ContinuesMatching, MatchOf
<1>2. AfterClaim(w, a, p) = AfterClaim(w, b, p) /\ AfterRelease(w, a, p) = AfterRelease(w, b, p)
  BY <1>1 DEF AfterClaim, AfterRelease
<1>3. AfterSubmission(w, a, p) = AfterSubmission(w, b, p)
  <2>1. a[p].claimid \in DOMAIN w.cycles => Supersedes(w, a, p) = Supersedes(w, b, p)
    BY <1>1, ContinuesMatching, MatchEffective DEF Supersedes
  <2>2. CASE a[p].claimid \in DOMAIN w.cycles
    BY <1>1, <2>1, <2>2, Zenon DEF AfterSubmission
  <2>3. CASE a[p].claimid \notin DOMAIN w.cycles
    BY <1>1, <2>3, Zenon DEF AfterSubmission
  <2> QED
    BY <2>2, <2>3
<1>4. p \in Acting(a) => AfterVote(w, a, p) = AfterVote(w, b, p)
  <2> SUFFICES ASSUME p \in Acting(a) PROVE AfterVote(w, a, p) = AfterVote(w, b, p)
    OBVIOUS
  <2>1. a[p].targetid \in Of("submission", a)
    BY ActingVotes
  <2>2. a[a[p].targetid] = b[b[p].targetid]
    BY <1>1, <2>1, ContinuesMatching, MatchOf
  <2>3. Independent(a, p) = Independent(b, p)
    BY <1>1, <2>2 DEF Independent
  <2>4. ASSUME NEW u, NEW n, NEW c PROVE Passed(u, a, p, n, c) = Passed(u, b, p, n, c)
    BY <1>1, <2>3, Zenon DEF Passed
  <2> QED
    BY <1>1, <2>2, <2>4, ZenonT(60) DEF AfterVote
<1> QED
  BY <1>1, <1>2, <1>3, <1>4 DEF WalkStep

\* The event that comes last opens and ends no cycle, and neither does the time
\* that passes: the cycles and the approvals of the longer log are those of the
\* shorter one.
LEMMA ContinuedWalk ==
    ASSUME NEW a, NEW b, Continues(a, b), NEW inTree
    PROVE  LET u == Expired(Walk(a, inTree), a)
               w == Expired(Walk(b, inTree), b)
           IN  /\ WInv(u, a, Len(a)) /\ WInv(w, b, Len(b))
               /\ u.cycles = w.cycles /\ u.approved = w.approved
<1>1. /\ Len(a) \in Nat /\ Len(b) = Len(a) + 1 /\ IsLog(a) /\ Refers(a) /\ IsLog(b) /\ Refers(b)
  BY DEF Continues, IsLog
<1> DEFINE ta == WalkTo(a, inTree)
           tb == WalkTo(b, inTree)
           good == {p \in 0 .. Len(a) : ta[p] = tb[p] /\ WInv(ta[p], a, p)}
<1>2. /\ ta[0] = EmptyWalk /\ tb[0] = EmptyWalk
      /\ \A p \in 1 .. Len(a) : /\ ta[p] = WalkStep(ta[p-1], a, inTree, Acting(a), p)
                                 /\ tb[p] = WalkStep(tb[p-1], b, inTree, Acting(b), p)
      /\ tb[Len(b)] = WalkStep(tb[Len(a)], b, inTree, Acting(b), Len(b))
  BY <1>1, WalkUnfolds
<1>3. 0 \in good
  BY <1>1, <1>2, EmptyWalkInv
<1> HIDE DEF ta, tb
<1>4. ASSUME NEW p \in 1 .. Len(a), p-1 \in good PROVE p \in good
  BY <1>1, <1>2, <1>4, ContinuedStep, WalkStepInv
<1>5. 0 .. Len(a) \subseteq good
  <2> HIDE DEF good
  <2> QED
    BY <1>1, <1>3, <1>4, PlaceInduction
<1> DEFINE w == Walk(a, inTree)
           x == Walk(b, inTree)
<1>6. /\ w = tb[Len(a)] /\ x = tb[Len(b)] /\ WInv(w, a, Len(a)) /\ Shape(w)
  BY <1>1, <1>5 DEF Walk, ta, tb, WInv
<1>7. x.cycles = w.cycles /\ x.approved = w.approved
  <2> HIDE DEF w, x
  <2>1. b[Len(b)].path \in {"claim", "release", "amend", "elsewhere"}
    BY DEF Continues
  <2>2. x \in {w, AfterClaim(w, b, Len(b)), AfterRelease(w, b, Len(b))}
    BY <1>2, <1>6, <2>1 DEF WalkStep
  <2> QED
    BY <1>6, <2>2 DEF AfterClaim, AfterRelease, Vacated, Shape
<1>8. WInv(x, b, Len(b))
  BY <1>1, WalkInv
<1>9. Shape(x)
  BY <1>8 DEF WInv
<1> HIDE DEF w, x
<1>10. /\ Expired(w, a).cycles = w.cycles /\ Expired(w, a).approved = w.approved
       /\ Expired(x, b).cycles = x.cycles /\ Expired(x, b).approved = x.approved
  BY <1>6, <1>9 DEF Expired, Shape
<1>11. WInv(Expired(w, a), a, Len(a)) /\ WInv(Expired(x, b), b, Len(b))
  BY <1>1, <1>6, <1>8, ExpiredInv
<1> QED
  BY <1>7, <1>10, <1>11 DEF w, x

\* How a node is judged depends on the cycles of the walk alone.
LEMMA CyclesJudge ==
    ASSUME NEW log, NEW u, NEW w, u.cycles = w.cycles, NEW n
    PROVE  /\ ActiveCycle(u, log, n) = ActiveCycle(w, log, n)
           /\ EffectiveOf(log, u, n) = EffectiveOf(log, w, n)
           /\ OwnVerified(log, u, n) <=> OwnVerified(log, w, n)
<1>1. ActiveCycle(u, log, n) = ActiveCycle(w, log, n)
  <2> DEFINE own(cycles) == {c \in DOMAIN cycles : log[c].node = n}
             latest(set) == IF set = {} THEN NoPin ELSE CHOOSE c \in set : \A d \in set : d <= c
  <2>1. ActiveCycle(u, log, n) = latest(own(u.cycles)) /\ ActiveCycle(w, log, n) = latest(own(w.cycles))
    BY Zenon DEF ActiveCycle
  <2> HIDE DEF own, latest
  <2> QED
    BY <2>1
<1>2. ASSUME NEW c PROVE Effective(u, c) = Effective(w, c)
  BY Zenon DEF Effective
<1>3. EffectiveOf(log, u, n) = EffectiveOf(log, w, n)
  BY <1>1, <1>2, Zenon DEF EffectiveOf
<1>4. OwnVerified(log, u, n) <=> OwnVerified(log, w, n)
  BY <1>1, Zenon DEF OwnVerified
<1> QED
  BY <1>1, <1>3, <1>4

\* So does which nodes are approved, with what the walk approved.
LEMMA CyclesApprove ==
    ASSUME NEW log, NEW u, NEW w, u.cycles = w.cycles, u.approved = w.approved
    PROVE  ApprovedNodes(log, u) = ApprovedNodes(log, w)
<1>1. \A c : Effective(u, c) = Effective(w, c)
  BY Zenon DEF Effective
<1>2. \A n : ActiveCycle(u, log, n) = ActiveCycle(w, log, n)
  BY CyclesJudge
<1>3. \A n : (LET c == ActiveCycle(u, log, n) IN c # NoPin /\ Effective(u, c) \in u.approved)
             <=> (LET c == ActiveCycle(w, log, n) IN c # NoPin /\ Effective(w, c) \in w.approved)
  BY <1>1, <1>2, Zenon
<1> QED
  BY <1>3 DEF ApprovedNodes

\* So do the accuracy of reviewers and the submissions that are not paid.
LEMMA CyclesRate ==
    ASSUME NEW log, NEW u, NEW w, u.cycles = w.cycles
    PROVE  /\ Unpaid(u) = Unpaid(w)
           /\ \A bot : Accuracy(log, u, bot) = Accuracy(log, w, bot)
<1>1. Unpaid(u) = Unpaid(w)
  BY Zenon DEF Unpaid
<1>2. ASSUME NEW bot PROVE Accuracy(log, u, bot) = Accuracy(log, w, bot)
  <2> DEFINE ended(cycles) ==
                {c \in DOMAIN cycles : cycles[c].outcome \in {"verified", "fail_rejected"}}
             Agrees(cycles, c, v) ==
                \/ log[v].verdict = "pass" /\ cycles[c].outcome = "verified"
                \/ log[v].verdict = "fail" /\ cycles[c].outcome = "fail_rejected"
             cast(cycles) ==
                {cv \in ended(cycles) \X Acting(log) :
                    cv[2] \in Reviews(log, Last(cycles[cv[1]].subs)) /\ log[cv[2]].author = bot}
             correct(cycles) == {cv \in cast(cycles) : Agrees(cycles, cv[1], cv[2])}
             accuracy(right, all) ==
                Min({Max({(Total * (Cardinality(right) + 1)) \div (Cardinality(all) + 2), 2500}), Total})
  <2>1. /\ Accuracy(log, u, bot) = accuracy(correct(u.cycles), cast(u.cycles))
        /\ Accuracy(log, w, bot) = accuracy(correct(w.cycles), cast(w.cycles))
    BY Zenon DEF Accuracy, Effective
  <2> HIDE DEF cast, correct, accuracy
  <2> QED
    BY <2>1
<1> QED
  BY <1>1, <1>2

\* So is what is verified in the end.
LEMMA CyclesVerify ==
    ASSUME NEW log, NEW u, NEW w, u.cycles = w.cycles, NEW tree
    PROVE  FinallyVerified(log, u, tree) = FinallyVerified(log, w, tree)
<1>1. \A n : /\ EffectiveOf(log, u, n) = EffectiveOf(log, w, n)
             /\ OwnVerified(log, u, n) <=> OwnVerified(log, w, n)
  BY CyclesJudge
<1> DEFINE H(x, n, final) ==
              (Children(tree, n) # {} /\ EffectiveOf(log, x, n) >= HAct2) =>
                /\ Children(tree, n) \subseteq final
                /\ log[EffectiveOf(log, x, n)].childids =
                      {EffectiveOf(log, x, m) : m \in Children(tree, n)}
           own(x) == {n \in DOMAIN tree : OwnVerified(log, x, n)}
<1>2. own(u) = own(w)
  BY <1>1
<1>3. \A n, final : H(u, n, final) <=> H(w, n, final)
  <2>1. \A n : {EffectiveOf(log, u, m) : m \in Children(tree, n)} =
               {EffectiveOf(log, w, m) : m \in Children(tree, n)}
    BY <1>1
  <2> QED
    BY <1>1, <2>1, Zenon
<1>4. /\ FinallyVerified(log, u, tree) =
            UNION {final \in SUBSET own(u) : \A n \in final : H(u, n, final)}
      /\ FinallyVerified(log, w, tree) =
            UNION {final \in SUBSET own(w) : \A n \in final : H(w, n, final)}
  BY Zenon DEF FinallyVerified
<1> HIDE DEF H, own
<1> QED
  BY <1>2, <1>3, <1>4

-----------------------------------------------------------------------------
(* The two passes of a replay agree on the nodes of the tree.              *)

\* Two walks have the same holder, voters, cycles and approvals of a node.
AgreeAt(u, w, log, n) ==
    /\ u.holder[n] = w.holder[n] /\ u.voters[n] = w.voters[n]
    /\ \A c \in Of("claim", log) : log[c].node = n =>
          /\ c \in DOMAIN u.cycles <=> c \in DOMAIN w.cycles
          /\ c \in DOMAIN u.cycles => u.cycles[c] = w.cycles[c]
    /\ \A s \in Of("submission", log) : log[s].node = n =>
          (s \in u.approved <=> s \in w.approved)

\* Agreement is transitive.
LEMMA AgreeTrans ==
    ASSUME NEW log, NEW n, NEW u, NEW v, NEW w, AgreeAt(u, v, log, n), AgreeAt(v, w, log, n)
    PROVE  AgreeAt(u, w, log, n)
BY DEF AgreeAt

\* The node an event of the walk is about.
EventNode(log, p) ==
    IF log[p].path = "verify" THEN log[log[p].targetid].node ELSE log[p].node

\* What a step may touch, and what it is judged by.
LEMMA WalkFields ==
    ASSUME NEW log, NEW last, NEW w, WInv(w, log, last)
    PROVE  /\ Shape(w) /\ DOMAIN w.holder = Nodes /\ DOMAIN w.voters = Nodes
           /\ DOMAIN w.cycles \subseteq Of("claim", log) /\ NoPin \notin DOMAIN w.cycles
           /\ \A c \in DOMAIN w.cycles :
                 /\ DOMAIN w.cycles[c] = {"subs", "outcome"}
                 /\ Effective(w, c) \in ToSet(w.cycles[c].subs)
                 /\ Effective(w, c) \in Of("submission", log)
           /\ \A n \in Nodes : w.holder[n] # NoPin =>
                 w.holder[n] \in Of("claim", log) /\ log[w.holder[n]].node = n
<1>1. \A c \in DOMAIN w.cycles : Cycle(w.cycles[c], log, c)
  BY DEF WInv, Cycles
<1>2. \A c \in DOMAIN w.cycles : /\ Effective(w, c) \in ToSet(w.cycles[c].subs)
                                 /\ Effective(w, c) \in Of("submission", log)
  BY <1>1, EffectiveIn DEF Effective
<1> QED
  BY <1>1, <1>2 DEF WInv, Cycles, Cycle, Holders, Voters, NoPin

\* Claims.
LEMMA ClaimAgrees ==
    ASSUME NEW log, IsLog(log), Refers(log), NEW p \in Of("claim", log),
           NEW w, WInv(w, log, p-1)
    PROVE  LET n == log[p].node
               v == AfterClaim(w, log, p)
           IN  /\ \A m \in Nodes \ {n} : AgreeAt(w, v, log, m)
               /\ \A u : WInv(u, log, p-1) /\ AgreeAt(u, w, log, n) =>
                     AgreeAt(AfterClaim(u, log, p), v, log, n)
<1> DEFINE n == log[p].node
<1>1. n \in Nodes
  BY DEF Refers, Of
<1>2. ASSUME NEW x, WInv(x, log, p-1)
      PROVE  /\ x.holder[n] # NoPin => AfterClaim(x, log, p) = x
             /\ x.holder[n] = NoPin =>
                   /\ AfterClaim(x, log, p).holder = [x.holder EXCEPT ![n] = p]
                   /\ AfterClaim(x, log, p).voters = x.voters
                   /\ AfterClaim(x, log, p).cycles = x.cycles
                   /\ AfterClaim(x, log, p).approved = x.approved
             /\ DOMAIN x.holder = Nodes
  <2>1. Shape(x) /\ DOMAIN x.holder = Nodes
    BY <1>2, WalkFields
  <2> QED
    BY <2>1 DEF AfterClaim, Shape
<1> HIDE DEF n
<1> DEFINE v(x) == AfterClaim(x, log, p)
<1>3. \A m \in Nodes \ {n} : AgreeAt(w, v(w), log, m)
  <2> HIDE DEF v
  <2>1. CASE w.holder[n] # NoPin
    <3>1. v(w) = w
      BY <1>2, <2>1 DEF v
    <3> QED
      BY <3>1 DEF AgreeAt
  <2>2. CASE w.holder[n] = NoPin
    <3>1. /\ v(w).holder = [w.holder EXCEPT ![n] = p] /\ v(w).voters = w.voters
          /\ v(w).cycles = w.cycles /\ v(w).approved = w.approved /\ DOMAIN w.holder = Nodes
      BY <1>2, <2>2 DEF v
    <3> QED
      BY <3>1 DEF AgreeAt
  <2> QED
    BY <2>1, <2>2
<1>4. ASSUME NEW u, WInv(u, log, p-1), AgreeAt(u, w, log, n)
      PROVE  AgreeAt(v(u), v(w), log, n)
  <2> HIDE DEF v
  <2>0. u.holder[n] = w.holder[n]
    BY <1>4 DEF AgreeAt
  <2>1. CASE w.holder[n] # NoPin
    <3>1. v(w) = w /\ v(u) = u
      BY <1>2, <1>4, <2>0, <2>1 DEF v
    <3> QED
      BY <1>4, <3>1
  <2>2. CASE w.holder[n] = NoPin
    <3>1. /\ v(w).holder = [w.holder EXCEPT ![n] = p] /\ v(w).voters = w.voters
          /\ v(w).cycles = w.cycles /\ v(w).approved = w.approved /\ DOMAIN w.holder = Nodes
      BY <1>2, <2>2 DEF v
    <3>2. /\ v(u).holder = [u.holder EXCEPT ![n] = p] /\ v(u).voters = u.voters
          /\ v(u).cycles = u.cycles /\ v(u).approved = u.approved /\ DOMAIN u.holder = Nodes
      BY <1>2, <1>4, <2>0, <2>2 DEF v
    <3> QED
      BY <1>1, <1>4, <3>1, <3>2 DEF AgreeAt
  <2> QED
    BY <2>1, <2>2
<1> QED
  BY <1>3, <1>4 DEF n

\* Releases.
LEMMA ReleaseAgrees ==
    ASSUME NEW log, IsLog(log), Refers(log), NEW p \in Of("release", log),
           NEW w, WInv(w, log, p-1)
    PROVE  LET n == log[p].node
               v == AfterRelease(w, log, p)
           IN  /\ \A m \in Nodes \ {n} : AgreeAt(w, v, log, m)
               /\ \A u : WInv(u, log, p-1) /\ AgreeAt(u, w, log, n) =>
                     AgreeAt(AfterRelease(u, log, p), v, log, n)
<1> DEFINE n == log[p].node
           kept(x) == x.holder[n] = NoPin \/ x.holder[n] # log[p].claimid
<1>1. n \in Nodes
  BY DEF Refers, Of
<1>2. ASSUME NEW x, WInv(x, log, p-1)
      PROVE  /\ kept(x) => AfterRelease(x, log, p) = x
             /\ ~kept(x) =>
                   /\ AfterRelease(x, log, p).holder = [x.holder EXCEPT ![n] = NoPin]
                   /\ AfterRelease(x, log, p).voters = [x.voters EXCEPT ![n] = {}]
                   /\ AfterRelease(x, log, p).cycles = x.cycles
                   /\ AfterRelease(x, log, p).approved = x.approved
             /\ DOMAIN x.holder = Nodes /\ DOMAIN x.voters = Nodes
  <2>1. Shape(x) /\ DOMAIN x.holder = Nodes /\ DOMAIN x.voters = Nodes
    BY <1>2, WalkFields
  <2> QED
    BY <2>1 DEF AfterRelease, Vacated, Shape
<1> HIDE DEF n
<1> DEFINE v(x) == AfterRelease(x, log, p)
<1>3. \A m \in Nodes \ {n} : AgreeAt(w, v(w), log, m)
  <2> HIDE DEF v
  <2>1. CASE kept(w)
    <3>1. v(w) = w
      BY <1>2, <2>1 DEF v
    <3> QED
      BY <3>1 DEF AgreeAt
  <2>2. CASE ~kept(w)
    <3>1. /\ v(w).holder = [w.holder EXCEPT ![n] = NoPin] /\ v(w).voters = [w.voters EXCEPT ![n] = {}]
          /\ v(w).cycles = w.cycles /\ v(w).approved = w.approved
          /\ DOMAIN w.holder = Nodes /\ DOMAIN w.voters = Nodes
      BY <1>2, <2>2 DEF v
    <3> QED
      BY <3>1 DEF AgreeAt
  <2> QED
    BY <2>1, <2>2
<1>4. ASSUME NEW u, WInv(u, log, p-1), AgreeAt(u, w, log, n)
      PROVE  AgreeAt(v(u), v(w), log, n)
  <2> HIDE DEF v
  <2>0. kept(u) <=> kept(w)
    BY <1>4 DEF AgreeAt
  <2>1. CASE kept(w)
    <3>1. v(w) = w /\ v(u) = u
      BY <1>2, <1>4, <2>0, <2>1 DEF v
    <3> QED
      BY <1>4, <3>1
  <2>2. CASE ~kept(w)
    <3>1. /\ v(w).holder = [w.holder EXCEPT ![n] = NoPin] /\ v(w).voters = [w.voters EXCEPT ![n] = {}]
          /\ v(w).cycles = w.cycles /\ v(w).approved = w.approved
          /\ DOMAIN w.holder = Nodes /\ DOMAIN w.voters = Nodes
      BY <1>2, <2>2 DEF v
    <3>2. /\ v(u).holder = [u.holder EXCEPT ![n] = NoPin] /\ v(u).voters = [u.voters EXCEPT ![n] = {}]
          /\ v(u).cycles = u.cycles /\ v(u).approved = u.approved
          /\ DOMAIN u.holder = Nodes /\ DOMAIN u.voters = Nodes
      BY <1>2, <1>4, <2>0, <2>2 DEF v
    <3> QED
      BY <1>1, <1>4, <3>1, <3>2 DEF AgreeAt
  <2> QED
    BY <2>1, <2>2
<1> QED
  BY <1>3, <1>4 DEF n

\* Submissions.
LEMMA SubmissionAgrees ==
    ASSUME NEW log, IsLog(log), Refers(log), NEW p \in Of("submission", log),
           NEW w, WInv(w, log, p-1)
    PROVE  LET n == log[p].node
               v == AfterSubmission(w, log, p)
           IN  /\ \A m \in Nodes \ {n} : AgreeAt(w, v, log, m)
               /\ \A u : WInv(u, log, p-1) /\ AgreeAt(u, w, log, n) =>
                     AgreeAt(AfterSubmission(u, log, p), v, log, n)
<1> DEFINE n == log[p].node
           claim == log[p].claimid
           left(x) == claim = NoPin \/ x.holder[n] # claim
           opened(x) == [c \in DOMAIN x.cycles \cup {claim} |->
                           IF c = claim THEN [subs |-> <<p>>, outcome |-> "open"] ELSE x.cycles[c]]
           appended(x) == [x.cycles EXCEPT ![claim].subs = Append(@, p)]
           after(x) == IF left(x) THEN x.cycles
                       ELSE IF claim \notin DOMAIN x.cycles THEN opened(x)
                       ELSE IF Supersedes(x, log, p) THEN appended(x)
                       ELSE x.cycles
<1>1. n \in Nodes /\ claim \in Of("claim", log) /\ log[claim].node = n
  BY DEF Refers, Of
<1>2. ASSUME NEW x, WInv(x, log, p-1)
      PROVE  /\ AfterSubmission(x, log, p).holder = x.holder
             /\ AfterSubmission(x, log, p).voters = x.voters
             /\ AfterSubmission(x, log, p).cycles = after(x)
             /\ AfterSubmission(x, log, p).approved = x.approved
             /\ \A c \in DOMAIN x.cycles : DOMAIN x.cycles[c] = {"subs", "outcome"}
  <2>1. Shape(x) /\ \A c \in DOMAIN x.cycles : DOMAIN x.cycles[c] = {"subs", "outcome"}
    BY <1>2, WalkFields
  <2> QED
    BY <2>1 DEF AfterSubmission, Shape
<1> HIDE DEF n, claim
<1> DEFINE v(x) == AfterSubmission(x, log, p)
<1>3. \A m \in Nodes \ {n} : AgreeAt(w, v(w), log, m)
  <2>1. \A c \in Of("claim", log) : c # claim =>
           /\ c \in DOMAIN w.cycles <=> c \in DOMAIN after(w)
           /\ c \in DOMAIN w.cycles => w.cycles[c] = after(w)[c]
    OBVIOUS
  <2> HIDE DEF v, after
  <2>2. /\ v(w).holder = w.holder /\ v(w).voters = w.voters
        /\ v(w).cycles = after(w) /\ v(w).approved = w.approved
    BY <1>2 DEF v
  <2> QED
    BY <1>1, <2>1, <2>2 DEF AgreeAt
<1>4. ASSUME NEW u, WInv(u, log, p-1), AgreeAt(u, w, log, n)
      PROVE  AgreeAt(v(u), v(w), log, n)
  <2>1. \A c \in Of("claim", log) : log[c].node = n =>
           /\ c \in DOMAIN u.cycles <=> c \in DOMAIN w.cycles
           /\ c \in DOMAIN u.cycles => u.cycles[c] = w.cycles[c]
    BY <1>4 DEF AgreeAt
  <2>2. left(u) <=> left(w)
    BY <1>4 DEF AgreeAt
  <2>3. /\ claim \in DOMAIN u.cycles <=> claim \in DOMAIN w.cycles
        /\ claim \in DOMAIN u.cycles => u.cycles[claim] = w.cycles[claim]
    BY <1>1, <2>1
  <2>4. claim \in DOMAIN u.cycles => (Supersedes(u, log, p) <=> Supersedes(w, log, p))
    BY <2>3 DEF Supersedes, Effective, claim
  <2> HIDE DEF left
  <2>5. \A c \in Of("claim", log) : log[c].node = n =>
           /\ c \in DOMAIN after(u) <=> c \in DOMAIN after(w)
           /\ c \in DOMAIN after(u) => after(u)[c] = after(w)[c]
    BY <2>1, <2>2, <2>3, <2>4
  <2> HIDE DEF v, after
  <2>6. /\ v(w).holder = w.holder /\ v(w).voters = w.voters
        /\ v(w).cycles = after(w) /\ v(w).approved = w.approved
        /\ v(u).holder = u.holder /\ v(u).voters = u.voters
        /\ v(u).cycles = after(u) /\ v(u).approved = u.approved
    BY <1>2, <1>4 DEF v
  <2> QED
    BY <1>4, <2>5, <2>6 DEF AgreeAt
<1> QED
  BY <1>3, <1>4 DEF n

\* Ballots.
LEMMA VoteAgrees ==
    ASSUME NEW log, IsLog(log), Refers(log), NEW p \in Acting(log),
           NEW w, WInv(w, log, p-1)
    PROVE  LET n == log[log[p].targetid].node
               v == AfterVote(w, log, p)
           IN  /\ \A m \in Nodes \ {n} : AgreeAt(w, v, log, m)
               /\ w.holder[n] = NoPin => v = w
               /\ \A u : WInv(u, log, p-1) /\ AgreeAt(u, w, log, n) =>
                     AgreeAt(AfterVote(u, log, p), v, log, n)
<1> DEFINE target == log[p].targetid
           n == log[target].node
           met(x) == x.holder[n] \in DOMAIN x.cycles /\ target = Effective(x, x.holder[n])
           failed == log[p].verdict = "fail"
           counts == log[p].verdict = "pass" /\ Independent(log, p)
           gained(x) == x.voters[n] \cup {log[p].author}
           quorate(x) == Cardinality(gained(x)) >= Quorum
           ended(x, how) == [x.cycles EXCEPT ![x.holder[n]].outcome = how]
           stays(x, v) == /\ v.holder = x.holder /\ v.voters = x.voters
                          /\ v.cycles = x.cycles /\ v.approved = x.approved
           loses(x, v) == /\ v.holder = [x.holder EXCEPT ![n] = NoPin]
                          /\ v.voters = [x.voters EXCEPT ![n] = {}]
                          /\ v.cycles = ended(x, "fail_rejected")
                          /\ v.approved = x.approved \ {target}
           wins(x, v) == /\ v.holder = x.holder
                         /\ v.voters = [x.voters EXCEPT ![n] = gained(x)]
                         /\ v.cycles = ended(x, "verified")
                         /\ v.approved = x.approved \cup {target}
           gains(x, v) == /\ v.holder = x.holder
                          /\ v.voters = [x.voters EXCEPT ![n] = gained(x)]
                          /\ v.cycles = x.cycles /\ v.approved = x.approved
           typed(x) == /\ DOMAIN x.holder = Nodes /\ DOMAIN x.voters = Nodes
                       /\ \A c \in DOMAIN x.cycles : DOMAIN x.cycles[c] = {"subs", "outcome"}
                       /\ x.holder[n] \in DOMAIN x.cycles =>
                             x.holder[n] \in Of("claim", log) /\ log[x.holder[n]].node = n
           outcome(x, v) == /\ ~met(x) => v = x
                            /\ met(x) /\ failed => loses(x, v)
                            /\ met(x) /\ ~failed /\ counts /\ quorate(x) => wins(x, v)
                            /\ met(x) /\ ~failed /\ counts /\ ~quorate(x) => gains(x, v)
                            /\ met(x) /\ ~failed /\ ~counts => stays(x, v)
<1>1. target \in Of("submission", log) /\ n \in Nodes
  BY ActingVotes DEF Refers, Of
<1>2. ASSUME NEW x, WInv(x, log, p-1) PROVE typed(x) /\ outcome(x, AfterVote(x, log, p))
  <2>1. /\ Shape(x) /\ DOMAIN x.holder = Nodes /\ DOMAIN x.voters = Nodes
        /\ \A c \in DOMAIN x.cycles : DOMAIN x.cycles[c] = {"subs", "outcome"}
        /\ NoPin \notin DOMAIN x.cycles
        /\ x.holder[n] \in DOMAIN x.cycles =>
              x.holder[n] \in Of("claim", log) /\ log[x.holder[n]].node = n
    BY <1>1, <1>2, WalkFields
  <2> DEFINE c == x.holder[n]
             seen == [x EXCEPT !.reached = @ \cup {p}]
             counted == [seen EXCEPT !.voters[n] = gained(x)]
             verified == [counted EXCEPT !.cycles[c].outcome = "verified",
                                         !.approved = @ \cup {target}]
             rejected == [seen EXCEPT !.cycles[c].outcome = "fail_rejected",
                                      !.approved = @ \ {target}]
  <2>2. /\ seen.voters = x.voters /\ seen.cycles = x.cycles /\ Shape(seen)
        /\ seen.holder = x.holder /\ seen.approved = x.approved
    BY <2>1 DEF Shape
  <2>3. stays(x, seen)
    BY <2>2
  <2>4. gains(x, counted)
    BY <2>1, <2>2 DEF Shape
  <2>5. wins(x, verified)
    BY <2>1, <2>2 DEF Shape
  <2>6. loses(x, Vacated(rejected, n, "rejected"))
    BY <2>1, <2>2 DEF Shape, Vacated
  <2>7. Effective(seen, c) = Effective(x, c)
    BY <2>2 DEF Effective
  <2>8. target = Effective(x, c) => Failed(seen, n, c) = Vacated(rejected, n, "rejected")
    BY <2>7 DEF Failed
  <2>9. Passed(seen, log, p, n, c) = IF ~Independent(log, p) THEN seen
                                     ELSE IF quorate(x) THEN verified ELSE counted
    BY <2>2, Zenon DEF Passed
  <2>10. AfterVote(x, log, p) =
            IF ~met(x) THEN x
            ELSE IF failed THEN Failed(seen, n, c)
            ELSE IF log[p].verdict = "pass" THEN Passed(seen, log, p, n, c)
            ELSE seen
    BY DEF AfterVote
  <2> HIDE DEF stays, gains, wins, loses, seen, counted, verified, rejected, met, quorate
  <2>11. outcome(x, AfterVote(x, log, p))
    <3>1. CASE ~met(x)
      BY <2>10, <3>1
    <3>2. CASE met(x) /\ failed
      <4>1. target = Effective(x, c)
        BY <3>2 DEF met
      <4> QED
        BY <2>6, <2>8, <2>10, <3>2, <4>1
    <3>3. CASE met(x) /\ ~failed /\ log[p].verdict = "pass"
      BY <2>3, <2>4, <2>5, <2>9, <2>10, <3>3
    <3>4. CASE met(x) /\ ~failed /\ log[p].verdict # "pass"
      BY <2>3, <2>10, <3>4
    <3> QED
      BY <3>1, <3>2, <3>3, <3>4
  <2> QED
    BY <2>1, <2>11
<1>3. typed(w) /\ outcome(w, AfterVote(w, log, p)) /\ NoPin \notin DOMAIN w.cycles
  BY <1>2, WalkFields
<1> HIDE DEF n, target, failed, counts
<1> DEFINE v == AfterVote(w, log, p)
<1>4. log[target].node = n
  BY DEF n
<1>5. w.holder[n] = NoPin => v = w
  BY <1>3
<1> HIDE DEF v
<1>6. ASSUME NEW m \in Nodes \ {n} PROVE AgreeAt(w, v, log, m)
  <2>1. CASE ~met(w)
    <3>1. v = w
      BY <1>3, <2>1 DEF v
    <3> QED
      BY <3>1 DEF AgreeAt
  <2>2. CASE met(w)
    <3>0. w.holder[n] \in Of("claim", log) /\ log[w.holder[n]].node = n
      BY <1>3, <2>2
    <3> DEFINE c == w.holder[n]
    <3>1. loses(w, v) \/ wins(w, v) \/ gains(w, v) \/ stays(w, v)
      BY <1>3, <2>2 DEF v
    <3>2. /\ v.holder[m] = w.holder[m] /\ v.voters[m] = w.voters[m]
      BY <1>3, <3>1
    <3>3. /\ DOMAIN v.cycles = DOMAIN w.cycles
          /\ \A d \in DOMAIN w.cycles : d # c => v.cycles[d] = w.cycles[d]
      BY <3>1
    <3>4. \A s : s # target => (s \in w.approved <=> s \in v.approved)
      BY <3>1
    <3> QED
      BY <1>4, <3>0, <3>2, <3>3, <3>4 DEF AgreeAt
  <2> QED
    BY <2>1, <2>2
<1>7. ASSUME NEW u, WInv(u, log, p-1), AgreeAt(u, w, log, n)
      PROVE  AgreeAt(AfterVote(u, log, p), v, log, n)
  <2> DEFINE t == AfterVote(u, log, p)
  <2>1. typed(u) /\ outcome(u, t) /\ NoPin \notin DOMAIN u.cycles
    BY <1>2, <1>7, WalkFields
  <2> HIDE DEF t
  <2>2. u.holder[n] = w.holder[n] /\ u.voters[n] = w.voters[n]
    BY <1>7 DEF AgreeAt
  <2>3. \A c \in Of("claim", log) : log[c].node = n =>
           /\ c \in DOMAIN u.cycles <=> c \in DOMAIN w.cycles
           /\ c \in DOMAIN u.cycles => u.cycles[c] = w.cycles[c]
    BY <1>7 DEF AgreeAt
  <2>4. \A s \in Of("submission", log) : log[s].node = n => (s \in u.approved <=> s \in w.approved)
    BY <1>7 DEF AgreeAt
  <2>5. met(u) <=> met(w)
    BY <1>3, <2>1, <2>2, <2>3, ZenonT(60) DEF Effective
  <2>6. quorate(u) <=> quorate(w)
    BY <2>2
  <2>7. CASE ~met(w)
    BY <1>3, <1>7, <2>1, <2>5, <2>7 DEF v, t
  <2>8. CASE met(w)
    <3> DEFINE c == w.holder[n]
    <3>0. /\ c \in Of("claim", log) /\ log[c].node = n /\ c \in DOMAIN u.cycles /\ c \in DOMAIN w.cycles
          /\ u.cycles[c] = w.cycles[c] /\ u.holder[n] = c
      BY <1>3, <2>2, <2>3, <2>8
    <3>1. \/ loses(w, v) /\ loses(u, t)
          \/ wins(w, v) /\ wins(u, t)
          \/ gains(w, v) /\ gains(u, t)
          \/ stays(w, v) /\ stays(u, t)
      BY <1>3, <2>1, <2>5, <2>6, <2>8 DEF v
    <3>2. /\ t.holder[n] = v.holder[n] /\ t.voters[n] = v.voters[n]
      <4>1. /\ DOMAIN u.holder = Nodes /\ DOMAIN u.voters = Nodes
            /\ DOMAIN w.holder = Nodes /\ DOMAIN w.voters = Nodes
        BY <1>3, <2>1
      <4>2. gained(u) = gained(w)
        BY <2>2
      <4>3. n \in DOMAIN u.holder /\ n \in DOMAIN u.voters /\ n \in DOMAIN w.holder /\ n \in DOMAIN w.voters
        BY <1>1, <4>1
      <4>4. \/ t.holder[n] = NoPin /\ v.holder[n] = NoPin
            \/ t.holder = u.holder /\ v.holder = w.holder
        <5>1. CASE loses(w, v) /\ loses(u, t)
          BY <4>3, <5>1
        <5>2. CASE \/ wins(w, v) /\ wins(u, t)
                   \/ gains(w, v) /\ gains(u, t)
                   \/ stays(w, v) /\ stays(u, t)
          BY <5>2
        <5> QED
          BY <3>1, <5>1, <5>2
      <4>5. \/ t.voters = u.voters /\ v.voters = w.voters
            \/ \E to : /\ t.voters = [u.voters EXCEPT ![n] = to]
                       /\ v.voters = [w.voters EXCEPT ![n] = to]
        <5>1. CASE loses(w, v) /\ loses(u, t)
          BY <5>1
        <5>2. CASE \/ wins(w, v) /\ wins(u, t)
                   \/ gains(w, v) /\ gains(u, t)
          <6>1. /\ t.voters = [u.voters EXCEPT ![n] = gained(u)]
                /\ v.voters = [w.voters EXCEPT ![n] = gained(w)]
            BY <5>2
          <6> HIDE DEF gained
          <6> QED
            BY <4>2, <6>1
        <5>3. CASE stays(w, v) /\ stays(u, t)
          BY <5>3
        <5> QED
          BY <3>1, <5>1, <5>2, <5>3
      <4> HIDE DEF loses, wins, gains, stays
      <4> QED
        BY <2>2, <4>3, <4>4, <4>5
    <3>3. \A d \in Of("claim", log) : log[d].node = n =>
             /\ d \in DOMAIN t.cycles <=> d \in DOMAIN v.cycles
             /\ d \in DOMAIN t.cycles => t.cycles[d] = v.cycles[d]
      BY <2>3, <3>0, <3>1, SMTT(60)
    <3>4. \A s \in Of("submission", log) : log[s].node = n => (s \in t.approved <=> s \in v.approved)
      BY <2>4, <3>1
    <3> QED
      BY <3>2, <3>3, <3>4 DEF AgreeAt, t
  <2> QED
    BY <2>7, <2>8 DEF t
<1> QED
  BY <1>5, <1>6, <1>7 DEF n, target, v

\* The first pass sees all nodes, the second those of the tree; outside of it
\* nobody holds a node in the second.
Aligned(u, w, log, tree) ==
    /\ \A n \in Nodes \cap tree : AgreeAt(u, w, log, n)
    /\ \A n \in Nodes \ tree : w.holder[n] = NoPin

\* A step of both passes keeps them aligned.
LEMMA AlignedStep ==
    ASSUME NEW log, IsLog(log), Refers(log), NEW tree, NEW p \in 1 .. Len(log),
           NEW u, WInv(u, log, p-1), NEW w, WInv(w, log, p-1), Aligned(u, w, log, tree)
    PROVE  Aligned(WalkStep(u, log, Nodes, Acting(log), p),
                   WalkStep(w, log, tree, Acting(log), p), log, tree)
<1> DEFINE t == WalkStep(u, log, Nodes, Acting(log), p)
           v == WalkStep(w, log, tree, Acting(log), p)
           n == EventNode(log, p)
           moves == p \in Acting(log) \/ log[p].path \in {"claim", "release", "submission"}
           local == /\ \A m \in Nodes \ {n} : AgreeAt(u, t, log, m) /\ AgreeAt(w, v, log, m)
                    /\ n \in Nodes
                    /\ n \in tree => AgreeAt(t, v, log, n)
                    /\ n \notin tree => v = w
<1>0. p \in DOMAIN log /\ \A path : p \in Of(path, log) <=> log[p].path = path
  BY DEF IsLog, Of
<1>a. p \in Acting(log) => log[p].path = "verify"
  BY ActingVotes
<1>b. \A m : AgreeAt(u, u, log, m) /\ AgreeAt(w, w, log, m)
  BY DEF AgreeAt
<1>1. CASE ~moves
  BY <1>1, <1>a DEF WalkStep
<1>2. ASSUME log[p].path = "claim" PROVE local
  <2>1. n = log[p].node /\ n \in Nodes /\ p \in Of("claim", log)
    BY <1>0, <1>2 DEF EventNode, Refers
  <2>2. t = AfterClaim(u, log, p) /\ v = IF n \in tree THEN AfterClaim(w, log, p) ELSE w
    BY <1>2, <2>1 DEF WalkStep
  <2>3. n \in tree => AgreeAt(u, w, log, n)
    BY <2>1 DEF Aligned
  <2> HIDE DEF n, t, v
  <2>4. /\ \A m \in Nodes \ {n} : AgreeAt(u, t, log, m)
        /\ \A m \in Nodes \ {n} : AgreeAt(w, AfterClaim(w, log, p), log, m)
        /\ n \in tree => AgreeAt(t, AfterClaim(w, log, p), log, n)
    BY <2>1, <2>2, <2>3, ClaimAgrees
  <2> QED
    BY <1>b, <2>1, <2>2, <2>4
<1>3. ASSUME log[p].path = "release" PROVE local
  <2>1. n = log[p].node /\ n \in Nodes /\ p \in Of("release", log)
    BY <1>0, <1>3 DEF EventNode, Refers
  <2>2. t = AfterRelease(u, log, p) /\ v = IF n \in tree THEN AfterRelease(w, log, p) ELSE w
    BY <1>3, <2>1 DEF WalkStep
  <2>3. n \in tree => AgreeAt(u, w, log, n)
    BY <2>1 DEF Aligned
  <2> HIDE DEF n, t, v
  <2>4. /\ \A m \in Nodes \ {n} : AgreeAt(u, t, log, m)
        /\ \A m \in Nodes \ {n} : AgreeAt(w, AfterRelease(w, log, p), log, m)
        /\ n \in tree => AgreeAt(t, AfterRelease(w, log, p), log, n)
    BY <2>1, <2>2, <2>3, ReleaseAgrees
  <2> QED
    BY <1>b, <2>1, <2>2, <2>4
<1>4. ASSUME log[p].path = "submission" PROVE local
  <2>1. n = log[p].node /\ n \in Nodes /\ p \in Of("submission", log)
    BY <1>0, <1>4 DEF EventNode, Refers
  <2>2. t = AfterSubmission(u, log, p) /\ v = IF n \in tree THEN AfterSubmission(w, log, p) ELSE w
    BY <1>4, <2>1 DEF WalkStep
  <2>3. n \in tree => AgreeAt(u, w, log, n)
    BY <2>1 DEF Aligned
  <2> HIDE DEF n, t, v
  <2>4. /\ \A m \in Nodes \ {n} : AgreeAt(u, t, log, m)
        /\ \A m \in Nodes \ {n} : AgreeAt(w, AfterSubmission(w, log, p), log, m)
        /\ n \in tree => AgreeAt(t, AfterSubmission(w, log, p), log, n)
    BY <2>1, <2>2, <2>3, SubmissionAgrees
  <2> QED
    BY <1>b, <2>1, <2>2, <2>4
<1>5. ASSUME p \in Acting(log) PROVE local
  <2>1. n = log[log[p].targetid].node /\ n \in Nodes
    BY <1>5, ActingVotes DEF EventNode, Refers, Of
  <2>2. t = AfterVote(u, log, p) /\ v = AfterVote(w, log, p)
    BY <1>5, <1>a DEF WalkStep
  <2>3. n \in tree => AgreeAt(u, w, log, n)
    BY <2>1 DEF Aligned
  <2>4. n \notin tree => w.holder[n] = NoPin
    BY <2>1 DEF Aligned
  <2> HIDE DEF n, t, v
  <2>5. /\ \A m \in Nodes \ {n} : AgreeAt(u, t, log, m) /\ AgreeAt(w, v, log, m)
        /\ n \in tree => AgreeAt(t, v, log, n)
        /\ w.holder[n] = NoPin => v = w
    BY <1>5, <2>1, <2>2, <2>3, VoteAgrees
  <2> QED
    BY <2>1, <2>4, <2>5
<1>6. CASE local
  <2> HIDE DEF n, t, v
  <2>1. ASSUME NEW m \in Nodes \cap tree PROVE AgreeAt(t, v, log, m)
    <3>1. CASE m = n
      BY <1>6, <2>1, <3>1
    <3>2. CASE m # n
      <4>1. AgreeAt(u, t, log, m) /\ AgreeAt(w, v, log, m) /\ AgreeAt(u, w, log, m)
        BY <1>6, <2>1, <3>2 DEF Aligned
      <4>2. AgreeAt(u, v, log, m)
        BY <4>1, AgreeTrans
      <4> QED
        BY <4>1, <4>2 DEF AgreeAt
    <3> QED
      BY <3>1, <3>2
  <2>2. ASSUME NEW m \in Nodes \ tree PROVE v.holder[m] = NoPin
    <3>1. w.holder[m] = NoPin
      BY <2>2 DEF Aligned
    <3>2. CASE m = n
      BY <1>6, <2>2, <3>1, <3>2
    <3>3. CASE m # n
      BY <1>6, <2>2, <3>1, <3>3 DEF AgreeAt
    <3> QED
      BY <3>2, <3>3
  <2> QED
    BY <2>1, <2>2 DEF Aligned, t, v
<1>7. CASE moves
  BY <1>2, <1>3, <1>4, <1>5, <1>6, <1>7
<1>8. CASE ~moves
  BY <1>1, <1>8
<1> QED
  BY <1>7, <1>8

\* So the nodes of the tree the second pass approves are approved by the first.
LEMMA ApprovedInBoth ==
    ASSUME NEW log, IsLog(log), Refers(log), NEW tree, NEW n \in Nodes \cap DOMAIN tree,
           n \in ApprovedNodes(log, SecondPass(log, tree))
    PROVE  n \in ApprovedNodes(log, FirstPass(log))
<1> DEFINE tu == WalkTo(log, Nodes)
           tw == WalkTo(log, DOMAIN tree)
           good == {p \in 0 .. Len(log) : /\ WInv(tu[p], log, p) /\ WInv(tw[p], log, p)
                                          /\ Aligned(tu[p], tw[p], log, DOMAIN tree)}
<1>1. Len(log) \in Nat
  BY DEF IsLog
<1>2. /\ tu[0] = EmptyWalk /\ tw[0] = EmptyWalk
      /\ \A p \in 1 .. Len(log) : /\ tu[p] = WalkStep(tu[p-1], log, Nodes, Acting(log), p)
                                   /\ tw[p] = WalkStep(tw[p-1], log, DOMAIN tree, Acting(log), p)
  BY <1>1, WalkUnfolds
<1>3. 0 \in good
  <2>1. Aligned(EmptyWalk, EmptyWalk, log, DOMAIN tree)
    <3>1. \A m \in Nodes : EmptyWalk.holder[m] = NoPin
      BY DEF EmptyWalk
    <3> QED
      BY <3>1 DEF Aligned, AgreeAt
  <2> QED
    BY <1>1, <1>2, <2>1, EmptyWalkInv
<1> HIDE DEF tu, tw
<1>4. ASSUME NEW p \in 1 .. Len(log), p-1 \in good PROVE p \in good
  BY <1>1, <1>2, <1>4, AlignedStep, WalkStepInv
<1>5. 0 .. Len(log) \subseteq good
  <2> HIDE DEF good
  <2> QED
    BY <1>1, <1>3, <1>4, PlaceInduction
<1> DEFINE u == Walk(log, Nodes)
           w == Walk(log, DOMAIN tree)
           u1 == FirstPass(log)
           w1 == SecondPass(log, tree)
<1>6. WInv(u, log, Len(log)) /\ WInv(w, log, Len(log)) /\ AgreeAt(u, w, log, n)
  BY <1>1, <1>5 DEF Walk, Aligned, tu, tw
<1>7. Shape(u) /\ Shape(w)
  BY <1>6 DEF WInv
<1>8. /\ u1 = Expired(u, log) /\ w1 = Expired(w, log)
      /\ WInv(u1, log, Len(log)) /\ WInv(w1, log, Len(log))
  BY PassesInv DEF FirstPass, SecondPass
<1> HIDE DEF u, w, u1, w1
<1>9. u1.cycles = u.cycles /\ u1.approved = u.approved /\ w1.cycles = w.cycles /\ w1.approved = w.approved
  BY <1>7, <1>8 DEF Expired, Shape
<1>10. /\ \A c \in Of("claim", log) : log[c].node = n =>
            /\ c \in DOMAIN u1.cycles <=> c \in DOMAIN w1.cycles
            /\ c \in DOMAIN u1.cycles => u1.cycles[c] = w1.cycles[c]
       /\ \A s \in Of("submission", log) : log[s].node = n => (s \in u1.approved <=> s \in w1.approved)
  BY <1>6, <1>9 DEF AgreeAt
<1> DEFINE own(x) == {c \in DOMAIN x.cycles : log[c].node = n}
           latest(set) == IF set = {} THEN NoPin ELSE CHOOSE c \in set : \A d \in set : d <= c
<1>11. own(u1) = own(w1)
  BY <1>8, <1>10, WalkFields
<1>12. ActiveCycle(u1, log, n) = ActiveCycle(w1, log, n)
  <2>1. ActiveCycle(u1, log, n) = latest(own(u1)) /\ ActiveCycle(w1, log, n) = latest(own(w1))
    BY Zenon DEF ActiveCycle
  <2> HIDE DEF own, latest
  <2> QED
    BY <1>11, <2>1
<1> DEFINE c == ActiveCycle(w1, log, n)
<1>13. c # NoPin /\ Effective(w1, c) \in w1.approved
  BY DEF ApprovedNodes, w1
<1>14. /\ c \in DOMAIN w1.cycles /\ log[c].node = n
  BY <1>1, <1>8, <1>13, ActiveCycleOf
<1>15. /\ c \in Of("claim", log) /\ Effective(w1, c) \in ToSet(w1.cycles[c].subs)
       /\ Effective(w1, c) \in Of("submission", log)
  BY <1>8, <1>14, WalkFields
<1> HIDE DEF c
<1>16. log[Effective(w1, c)].node = n
  BY <1>8, <1>14, <1>15, CyclesApart
<1>17. Effective(u1, c) = Effective(w1, c)
  BY <1>10, <1>14, <1>15 DEF Effective
<1>18. Effective(u1, c) \in u1.approved
  BY <1>10, <1>13, <1>15, <1>16, <1>17
<1> QED
  BY <1>12, <1>13, <1>18 DEF ApprovedNodes, u1, c

-----------------------------------------------------------------------------
(* What was settled stands.                                                *)

\* Once the root is approved no amendment is taken, not even an earlier one: the
\* tree is the one the publisher drew.
LEMMA ApprovedRootKeepsTree ==
    ASSUME NEW log, Len(log) \in Nat, NEW w, Root \in ApprovedNodes(log, w)
    PROVE  AmendedTo(log, w)[Len(log)] = [tree |-> InitialTree, head |-> TreePin]
<1> DEFINE at == AmendedTo(log, w)
           start == [tree |-> InitialTree, head |-> TreePin]
           good == {p \in 0 .. Len(log) : at[p] = start}
<1>1. \A f, p : Amend(log, w, f, p) = f
  BY DEF Amend
<1>2. /\ at[0] = start
      /\ \A p \in 1 .. Len(log) : at[p] = IF log[p].path = "amend" THEN Amend(log, w, at[p-1], p)
                                          ELSE at[p-1]
  BY AmendedUnfolds
<1> HIDE DEF at, start
<1>3. 0 \in good /\ \A p \in 1 .. Len(log) : p-1 \in good => p \in good
  BY <1>1, <1>2
<1>4. 0 .. Len(log) \subseteq good
  <2> HIDE DEF good
  <2> QED
    BY <1>3, PlaceInduction
<1> QED
  BY <1>4 DEF at, start

\* A challenge that is open after one more event has one that was open before, of
\* the same bot and against the same submission: time only closes challenges.
LEMMA ContinuedChallenges ==
    ASSUME NEW a, NEW b, Continues(a, b), NEW u, WInv(u, a, Len(a)),
           NEW w, u.cycles = w.cycles, NEW tree, NEW q \in Challenged(b, w, tree)
    PROVE  \E r \in Challenged(a, u, tree) : a[r].targetid = b[q].targetid
<1>1. /\ Len(a) \in Nat /\ Len(b) = Len(a) + 1 /\ DOMAIN a = 1 .. Len(a) /\ DOMAIN b = 1 .. Len(b)
      /\ \A p \in 1 .. Len(a) : a[p] = b[p]
      /\ Of("submission", a) = Of("submission", b)
      /\ b[Len(b)].path # "challenge"
  BY ContinuesOf DEF Continues
<1>2. CurrentTargets(a, u, tree) = CurrentTargets(b, w, tree)
  <2>1. \A n : /\ ActiveCycle(u, a, n) = ActiveCycle(w, b, n)
               /\ EffectiveOf(a, u, n) = EffectiveOf(b, w, n)
    <3>1. \A n : /\ ActiveCycle(u, a, n) = ActiveCycle(u, b, n)
                 /\ EffectiveOf(a, u, n) = EffectiveOf(b, u, n)
      BY <1>1, ContinuesMatching, MatchCycles
    <3>2. \A n : /\ ActiveCycle(u, b, n) = ActiveCycle(w, b, n)
                 /\ EffectiveOf(b, u, n) = EffectiveOf(b, w, n)
      BY CyclesJudge
    <3> QED
      BY <3>1, <3>2
  <2>2. {m \in DOMAIN tree : ActiveCycle(u, a, m) # NoPin} =
        {m \in DOMAIN tree : ActiveCycle(w, b, m) # NoPin}
    BY <2>1
  <2> QED
    BY <2>1, <2>2 DEF CurrentTargets
<1> DEFINE targets == CurrentTargets(a, u, tree)
           ta == ChallengedTo(a, u, tree)
           tb == ChallengedTo(b, w, tree)
           like(r, s) == a[r].author = a[s].author /\ a[r].targetid = a[s].targetid
           covered(oa, ob) == /\ oa \subseteq 1 .. Len(a) /\ ob \subseteq 1 .. Len(a)
                              /\ \A s \in ob : \E r \in oa : like(r, s)
           good == {p \in 0 .. Len(a) : covered(ta[p], tb[p])}
<1>3. /\ ta[0] = {} /\ tb[0] = {}
      /\ \A p \in 1 .. Len(a) : /\ ta[p] = ChallengeStep(ta[p-1], a, targets, p)
                                /\ tb[p] = ChallengeStep(tb[p-1], b, targets, p)
      /\ tb[Len(b)] = ChallengeStep(tb[Len(a)], b, targets, Len(b))
  BY <1>1, <1>2, ChallengedUnfolds
<1> HIDE DEF ta, tb, targets
<1>4. 0 \in good
  BY <1>1, <1>3
<1>5. ASSUME NEW p \in 1 .. Len(a), NEW oa, NEW ob, covered(oa, ob)
      PROVE  covered(ChallengeStep(oa, a, targets, p), ChallengeStep(ob, b, targets, p))
  <2>0. a[p] = b[p]
    BY <1>1
  <2> DEFINE refused == \/ a[p].targetid \notin Of("submission", a) \/ p < HAct2
                        \/ a[p].author \in {a[a[p].targetid].author, Publisher} \/ ~a[p].evidence
             sa == {r \in oa : like(r, p)}
             sb == {r \in ob : like(r, p)}
             late(s, len) == s # {} \/ a[p].targetid \notin targets \/ len - p > ChallengeTtlHours
             after(o, s, len) == IF a[p].path # "challenge" \/ refused THEN o
                                 ELSE IF a[p].withdraw THEN o \ s
                                 ELSE IF late(s, len) THEN o ELSE o \cup {p}
  <2>1. ChallengeStep(oa, a, targets, p) = after(oa, sa, Len(a))
    BY DEF ChallengeStep
  <2>2. ChallengeStep(ob, b, targets, p) = after(ob, sb, Len(b))
    <3>1. {r \in ob : b[r].author = b[p].author /\ b[r].targetid = b[p].targetid} = sb
      BY <1>1, <1>5, <2>0
    <3>2. a[p].path = "challenge" => (\/ b[p].targetid \notin Of("submission", b) \/ p < HAct2
           \/ b[p].author \in {b[b[p].targetid].author, Publisher} \/ ~b[p].evidence) <=> refused
      <4>1. a[p].targetid \in Of("submission", a) => a[a[p].targetid] = b[a[p].targetid]
        BY <1>1 DEF Of
      <4> QED
        BY <1>1, <2>0, <4>1
    <3> HIDE DEF refused, sb
    <3> QED
      BY <2>0, <3>1, <3>2 DEF ChallengeStep
  <2>3. (\A s \in ob : \E r \in oa : like(r, s)) /\ oa \subseteq 1 .. Len(a) /\ ob \subseteq 1 .. Len(a)
    BY <1>5
  <2>4. late(sa, Len(a)) /\ ~late(sb, Len(b)) => sa # {}
    BY <1>1, ReplayAssumption
  <2> HIDE DEF refused
  <2>5. CASE a[p].path # "challenge" \/ refused
    BY <1>5, <2>1, <2>2, <2>5
  <2>6. CASE a[p].path = "challenge" /\ ~refused /\ a[p].withdraw
    <3>1. covered(oa \ sa, ob \ sb)
      BY <2>3
    <3> HIDE DEF covered, sa, sb
    <3> QED
      BY <2>1, <2>2, <2>6, <3>1
  <2>7. CASE a[p].path = "challenge" /\ ~refused /\ ~a[p].withdraw
    <3>1. CASE late(sb, Len(b))
      <4>1. /\ ChallengeStep(ob, b, targets, p) = ob
            /\ ChallengeStep(oa, a, targets, p) \in {oa, oa \cup {p}}
        <5> HIDE DEF late, sa, sb
        <5> QED
          BY <2>1, <2>2, <2>7, <3>1
      <4>2. covered(oa \cup {p}, ob) /\ covered(oa, ob)
        BY <2>3
      <4> HIDE DEF covered
      <4> QED
        BY <4>1, <4>2
    <3>2. CASE ~late(sb, Len(b))
      <4>1. ChallengeStep(ob, b, targets, p) = ob \cup {p}
        <5> HIDE DEF late, sa, sb
        <5> QED
          BY <2>2, <2>7, <3>2
      <4>2. CASE late(sa, Len(a))
        <5>1. ChallengeStep(oa, a, targets, p) = oa
          <6> HIDE DEF late, sa, sb
          <6> QED
            BY <2>1, <2>7, <4>2
        <5>2. covered(oa, ob \cup {p})
          BY <2>3, <2>4, <3>2, <4>2, ZenonT(60)
        <5> HIDE DEF covered
        <5> QED
          BY <4>1, <5>1, <5>2
      <4>3. CASE ~late(sa, Len(a))
        <5>1. ChallengeStep(oa, a, targets, p) = oa \cup {p}
          <6> HIDE DEF late, sa, sb
          <6> QED
            BY <2>1, <2>7, <4>3
        <5>2. covered(oa \cup {p}, ob \cup {p})
          BY <2>3
        <5> HIDE DEF covered
        <5> QED
          BY <4>1, <5>1, <5>2
      <4> QED
        BY <4>2, <4>3
    <3> QED
      BY <3>1, <3>2
  <2> QED
    BY <2>5, <2>6, <2>7
<1>6. ASSUME NEW p \in 1 .. Len(a), p-1 \in good PROVE p \in good
  <2>1. covered(ta[p-1], tb[p-1])
    BY <1>6
  <2>2. covered(ta[p], tb[p])
    <3> HIDE DEF covered
    <3> QED
      BY <1>3, <1>5, <2>1
  <2> QED
    BY <2>2
<1>7. 0 .. Len(a) \subseteq good
  <2> HIDE DEF good
  <2> QED
    BY <1>1, <1>4, <1>6, PlaceInduction
<1>8. covered(ta[Len(a)], tb[Len(a)])
  BY <1>1, <1>7
<1>9. tb[Len(b)] = tb[Len(a)]
  BY <1>1, <1>3 DEF ChallengeStep
<1>10. Challenged(a, u, tree) = ta[Len(a)] /\ Challenged(b, w, tree) = tb[Len(a)]
  BY <1>9 DEF Challenged, ta, tb
<1> QED
  BY <1>1, <1>8, <1>10

\* So is what is paid.
LEMMA CyclesSettle ==
    ASSUME NEW log, NEW u, NEW w, u.cycles = w.cycles, NEW tree, NEW verified
    PROVE  Settlement(log, u, tree, verified) = Settlement(log, w, tree, verified)
<1>1. \A n : EffectiveOf(log, u, n) = EffectiveOf(log, w, n)
  BY CyclesJudge
<1>2. \A bot : Accuracy(log, u, bot) = Accuracy(log, w, bot)
  BY CyclesRate
<1>3. ASSUME NEW n, NEW weight, NEW bot
      PROVE  SubmittedBP(log, u, weight, n, bot) = SubmittedBP(log, w, weight, n, bot)
  <2> DEFINE part(sub) ==
                IF log[sub].author # bot THEN 0
                ELSE SubmitterPart(weight[n]) + (IF Passes(log, sub) = {} THEN Pool(weight[n]) ELSE 0)
  <2>1. /\ SubmittedBP(log, u, weight, n, bot) = part(EffectiveOf(log, u, n))
        /\ SubmittedBP(log, w, weight, n, bot) = part(EffectiveOf(log, w, n))
    BY Zenon DEF SubmittedBP
  <2> HIDE DEF part
  <2> QED
    BY <1>1, <2>1
<1>4. ASSUME NEW n, NEW weight, NEW bot
      PROVE  ReviewedBP(log, u, weight, n, bot) = ReviewedBP(log, w, weight, n, bot)
  <2> DEFINE passes(x) == Passes(log, EffectiveOf(log, x, n))
             rated(x) == [v \in passes(x) |-> Accuracy(log, x, log[v].author)]
             part(votes, accuracy, all) ==
                IF \E v \in votes : log[v].author = bot
                THEN (Pool(weight[n]) * accuracy) \div all ELSE 0
  <2>1. /\ ReviewedBP(log, u, weight, n, bot) =
              part(passes(u), Accuracy(log, u, bot), SumFunction(rated(u)))
        /\ ReviewedBP(log, w, weight, n, bot) =
              part(passes(w), Accuracy(log, w, bot), SumFunction(rated(w)))
    BY Zenon DEF ReviewedBP
  <2>0. passes(u) = passes(w)
    BY <1>1
  <2> HIDE DEF passes, part
  <2>2. rated(u) = rated(w)
    BY <1>2, <2>0
  <2> HIDE DEF rated
  <2> QED
    BY <1>2, <2>0, <2>1, <2>2
<1> DEFINE weight == Weights(tree)
           sub(x) == [b \in Bots |-> SumFunction([n \in verified |-> SubmittedBP(log, x, weight, n, b)])]
           rev(x) == [b \in Bots |-> SumFunction([n \in verified |-> ReviewedBP(log, x, weight, n, b)])]
<1>5. /\ Settlement(log, u, tree, verified) =
            [submitted |-> sub(u), reviewed |-> rev(u), unpaid |-> Unpaid(u)]
      /\ Settlement(log, w, tree, verified) =
            [submitted |-> sub(w), reviewed |-> rev(w), unpaid |-> Unpaid(w)]
  BY Zenon DEF Settlement
<1> HIDE DEF weight
<1>6. sub(u) = sub(w)
  BY <1>3
<1>7. rev(u) = rev(w)
  BY <1>4
<1>8. Unpaid(u) = Unpaid(w)
  BY CyclesRate
<1> HIDE DEF sub, rev
<1> QED
  BY <1>5, <1>6, <1>7, <1>8

\* What one more event leaves of a settlement whose root is approved: the tree, the
\* verified nodes, the absence of open challenges and the shares.
LEMMA SettlementContinues ==
    ASSUME NEW a, NEW b, Continues(a, b), Settled(Replay(a)),
           Root \in ApprovedNodes(a, Replay(a).walk)
    PROVE  Replay(b).settlement = Replay(a).settlement
<1> DEFINE fold(log) == AmendedTo(log, FirstPass(log))[Len(log)]
           tree == fold(a).tree
           u == SecondPass(a, tree)
           verified == FinallyVerified(a, u, tree)
           disputed == Disputed(a, u, tree, verified)
<1>1. /\ Len(a) \in Nat /\ Len(b) \in Nat /\ IsLog(a) /\ Refers(a) /\ IsLog(b) /\ Refers(b)
  BY DEF Continues, IsLog
<1>2. /\ Replay(a).walk = u
      /\ Replay(a).settlement = IF Settles(verified, disputed)
                                THEN Settlement(a, u, tree, verified) ELSE NotSettled
  BY DEF Replay
<1>3. Settles(verified, disputed)
  BY <1>2 DEF Settled
<1> HIDE DEF fold
<1>4. Root \in DOMAIN tree /\ \A n \in verified : OwnVerified(a, u, n)
  BY <1>3 DEF Settles, FinallyVerified
<1>5. Root \in ApprovedNodes(a, FirstPass(a))
  <2>1. Root \in Nodes
    BY DEF ApprovedNodes
  <2>2. Root \in ApprovedNodes(a, SecondPass(a, tree))
    BY <1>2
  <2> QED
    BY <1>1, <1>4, <2>1, <2>2, ApprovedInBoth
<1>6. Root \in ApprovedNodes(b, FirstPass(b))
  <2>1. /\ WInv(FirstPass(a), a, Len(a))
        /\ FirstPass(a).cycles = FirstPass(b).cycles /\ FirstPass(a).approved = FirstPass(b).approved
    BY ContinuedWalk DEF FirstPass
  <2>2. ApprovedNodes(a, FirstPass(a)) = ApprovedNodes(b, FirstPass(a))
    BY <1>1, <2>1, ContinuesMatching, MatchCycles
  <2>3. ApprovedNodes(b, FirstPass(a)) = ApprovedNodes(b, FirstPass(b))
    BY <2>1, CyclesApprove
  <2> QED
    BY <1>5, <2>2, <2>3
<1>7. tree = InitialTree /\ fold(b).tree = tree
  BY <1>1, <1>5, <1>6, ApprovedRootKeepsTree DEF fold
<1> DEFINE w == SecondPass(b, tree)
<1>8. /\ WInv(u, a, Len(a)) /\ WInv(w, b, Len(b)) /\ u.cycles = w.cycles
  BY ContinuedWalk DEF SecondPass
<1> HIDE DEF tree, u, w
<1>9. FinallyVerified(b, w, tree) = verified
  BY <1>1, <1>8, ContinuesMatching, MatchVerified, CyclesVerify
<1>10. \A n \in verified : EffectiveOf(b, w, n) = EffectiveOf(a, u, n)
  <2>1. \A n : EffectiveOf(a, u, n) = EffectiveOf(b, u, n)
    BY <1>1, <1>8, ContinuesMatching, MatchCycles
  <2> QED
    BY <1>8, <2>1, CyclesJudge
<1> HIDE DEF verified
<1>11. Disputed(b, w, tree, verified) = {}
  <2>1. disputed = {}
    BY <1>3 DEF Settles
  <2> SUFFICES ASSUME NEW n \in verified, NEW q \in Challenged(b, w, tree),
                      b[q].targetid = EffectiveOf(b, w, n)
               PROVE  FALSE
    BY DEF Disputed
  <2>2. PICK r \in Challenged(a, u, tree) : a[r].targetid = b[q].targetid
    BY <1>8, ContinuedChallenges
  <2> QED
    BY <1>10, <2>1, <2>2 DEF Disputed
<1>12. Settlement(b, w, tree, verified) = Settlement(a, u, tree, verified)
  <2>1. Settlement(a, u, tree, verified) = Settlement(b, u, tree, verified)
    BY <1>4, <1>8, ContinuesMatching, MatchSettlement
  <2>2. Settlement(b, u, tree, verified) = Settlement(b, w, tree, verified)
    BY <1>8, CyclesSettle
  <2> QED
    BY <2>1, <2>2
<1>13. Settles(verified, Disputed(b, w, tree, verified))
  BY <1>3, <1>11 DEF Settles
<1>14. Replay(b).settlement = Settlement(b, w, tree, verified)
  <2> DEFINE v == FinallyVerified(b, SecondPass(b, fold(b).tree), fold(b).tree)
             d == Disputed(b, SecondPass(b, fold(b).tree), fold(b).tree, v)
  <2>1. Replay(b).settlement = IF Settles(v, d)
                               THEN Settlement(b, SecondPass(b, fold(b).tree), fold(b).tree, v)
                               ELSE NotSettled
    BY DEF Replay, fold
  <2>2. SecondPass(b, fold(b).tree) = w
    BY <1>7 DEF w
  <2>3. v = verified
    BY <1>7, <1>9, <2>2
  <2>4. d = Disputed(b, w, tree, verified)
    BY <1>7, <2>2, <2>3
  <2> HIDE DEF v, d
  <2> QED
    BY <1>7, <1>13, <2>1, <2>2, <2>3, <2>4
<1> QED
  BY <1>2, <1>3, <1>12, <1>14

\* What is settled stays settled, share by share, through claims, releases, late
\* amendments and the passing of time.
THEOREM SettledSharesStand == SpecR => SettlementStands
<1> DEFINE stands == /\ Settled(view) /\ Root \in ApprovedNodes(chain, view.walk)
                     /\ chain'[Len(chain')].path \in {"claim", "release", "amend", "elsewhere"}
                     => view'.settlement = view.settlement
<1>1. RInv /\ [NextR]_rvars => [stands]_rvars
  <2> SUFFICES ASSUME RInv, NextR, Settled(view), Root \in ApprovedNodes(chain, view.walk),
                      chain'[Len(chain')].path \in {"claim", "release", "amend", "elsewhere"}
               PROVE  view'.settlement = view.settlement
    OBVIOUS
  <2>1. PICK e : RefersTo(e, chain) /\ chain' = Append(chain, e) /\ view' = Replay(chain')
    BY PublishRefers
  <2>2. /\ view = Replay(chain) /\ IsSeq(chain) /\ IsSeq(chain') /\ Refers(chain) /\ Refers(chain')
    BY <2>1, Longer, RefersAppend DEF RInv
  <2>3. Continues(chain, chain')
    <3>1. /\ Len(chain') = Len(chain) + 1
          /\ \A p \in DOMAIN chain : chain'[p] = chain[p]
          /\ IsLog(chain) /\ IsLog(chain')
      BY <2>1, <2>2, Longer
    <3> QED
      BY <2>2, <3>1 DEF Continues, IsLog
  <2> QED
    BY <2>1, <2>2, <2>3, SettlementContinues
<1> QED
  BY <1>1, ReplayInvariant, PTL DEF SpecR, SettlementStands
=============================================================================
