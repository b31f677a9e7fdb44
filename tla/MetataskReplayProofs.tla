------------------------ MODULE MetataskReplayProofs ------------------------
(***************************************************************************)
(* Proofs about the MetaTask replay, for every set of bots and nodes, every*)
(* log, tree and policy: what holds of the walk after every event, the     *)
(* votes, the quorum and the frozen nodes of what a view shows, and the    *)
(* shares of a settlement, which never exceed the whole and are earned.    *)
(***************************************************************************)
EXTENDS MetataskReplay, FiniteSetTheorems, WellFoundedInduction, TLAPS

\* Induction along the places of a log, with a set of places for the predicate:
\* otherwise there would be a first place outside of it.
LEMMA PlaceInduction ==
    ASSUME NEW N \in Nat, NEW G,
           0 \in G, \A p \in 1 .. N : p-1 \in G => p \in G
    PROVE  0 .. N \subseteq G
<1> SUFFICES ASSUME NEW q \in 0 .. N, q \notin G PROVE FALSE
  OBVIOUS
<1> DEFINE smaller == {ss \in Nat \X Nat : ss[1] < ss[2]}
           outside == {p \in 0 .. N : p \notin G}
<1>1. IsWellFoundedOn(smaller, Nat)
  BY NatLessThanWellFounded DEF OpToRel
<1>2. outside \subseteq Nat /\ outside # {}
  OBVIOUS
<1>3. PICK m \in outside : \A k \in outside : ~(<<k, m>> \in smaller)
  <2> HIDE DEF smaller, outside
  <2> QED
    BY <1>1, <1>2, WFMin, Zenon
<1>4. m # 0 /\ m-1 \in 0 .. N /\ m-1 \notin outside
  <2>1. m \in 1 .. N /\ <<m-1, m>> \in smaller
    OBVIOUS
  <2> QED
    BY <2>1, <1>3
<1> QED
  BY <1>4

\* The walk after each place follows from the one before: the recursion has a
\* solution for every log, which is built up place by place.
LEMMA WalkUnfolds ==
    ASSUME NEW log, NEW inTree, Len(log) \in Nat
    PROVE  /\ WalkTo(log, inTree)[0] = EmptyWalk
           /\ \A p \in 1 .. Len(log) :
                 WalkTo(log, inTree)[p] =
                    WalkStep(WalkTo(log, inTree)[p-1], log, inTree, Acting(log), p)
<1> DEFINE step(w, p) == WalkStep(w, log, inTree, Acting(log), p)
           walks(f, k) == f = [p \in 0 .. k |-> IF p = 0 THEN EmptyWalk ELSE step(f[p-1], p)]
<1>1. \A k \in 0 .. Len(log) : \E f : walks(f, k)
  <2> HIDE DEF step
  <2>1. \E f : walks(f, 0)
    <3>1. walks([p \in 0 .. 0 |-> EmptyWalk], 0)
      OBVIOUS
    <3> QED
      BY <3>1
  <2>2. ASSUME NEW k \in 1 .. Len(log), NEW f, walks(f, k-1)
        PROVE  \E g : walks(g, k)
    <3> DEFINE g == [p \in 0 .. k |-> IF p = k THEN step(f[k-1], k) ELSE f[p]]
    <3>1. \A p \in 0 .. k : g[p] = IF p = 0 THEN EmptyWalk ELSE step(g[p-1], p)
      <4> TAKE p \in 0 .. k
      <4>1. CASE p = k
        <5>1. g[k-1] = f[k-1] /\ p # 0
          BY <4>1
        <5> QED
          BY <4>1, <5>1
      <4>2. CASE p # k
        <5>1. p \in 0 .. k-1
          BY <4>2
        <5>2. f[p] = IF p = 0 THEN EmptyWalk ELSE step(f[p-1], p)
          BY <2>2, <5>1
        <5>3. p # 0 => g[p-1] = f[p-1]
          BY <5>1
        <5> QED
          BY <5>1, <5>2, <5>3
      <4> QED
        BY <4>1, <4>2
    <3>2. walks(g, k)
      BY <3>1
    <3> QED
      BY <3>2
  <2> DEFINE good == {k \in 0 .. Len(log) : \E f : walks(f, k)}
  <2> HIDE DEF walks
  <2>3. 0 \in good /\ \A k \in 1 .. Len(log) : k-1 \in good => k \in good
    BY <2>1, <2>2
  <2>4. 0 .. Len(log) \subseteq good
    <3> HIDE DEF good
    <3> QED
      BY <2>3, PlaceInduction
  <2> QED
    BY <2>4
<1>2. walks(WalkTo(log, inTree), Len(log))
  <2>1. WalkTo(log, inTree) = CHOOSE f : walks(f, Len(log))
    BY Zenon DEF WalkTo
  <2> HIDE DEF walks
  <2>2. \E f : walks(f, Len(log))
    BY <1>1
  <2> QED
    BY <2>1, <2>2, Zenon
<1> QED
  <2> HIDE DEF step
  <2>1. \A p \in 0 .. Len(log) :
           WalkTo(log, inTree)[p] = IF p = 0 THEN EmptyWalk
                                    ELSE step(WalkTo(log, inTree)[p-1], p)
    BY <1>2
  <2> USE DEF step
  <2> QED
    BY <2>1

\* So do the trees after each of the operations of an amendment.
LEMMA OperatedUnfolds ==
    ASSUME NEW log, NEW w, NEW at, NEW tree, NEW ops, Len(ops) \in Nat
    PROVE  /\ OperatedTo(log, w, at, tree, ops)[0] = {tree}
           /\ \A p \in 1 .. Len(ops) :
                 OperatedTo(log, w, at, tree, ops)[p] =
                    OperateEach(log, w, at, tree, OperatedTo(log, w, at, tree, ops)[p-1], ops[p])
<1> DEFINE step(ts, p) == OperateEach(log, w, at, tree, ts, ops[p])
           walks(f, k) == f = [p \in 0 .. k |-> IF p = 0 THEN {tree} ELSE step(f[p-1], p)]
<1>1. \A k \in 0 .. Len(ops) : \E f : walks(f, k)
  <2> HIDE DEF step
  <2>1. \E f : walks(f, 0)
    <3>1. walks([p \in 0 .. 0 |-> {tree}], 0)
      OBVIOUS
    <3> QED
      BY <3>1
  <2>2. ASSUME NEW k \in 1 .. Len(ops), NEW f, walks(f, k-1)
        PROVE  \E g : walks(g, k)
    <3> DEFINE g == [p \in 0 .. k |-> IF p = k THEN step(f[k-1], k) ELSE f[p]]
    <3>1. \A p \in 0 .. k : g[p] = IF p = 0 THEN {tree} ELSE step(g[p-1], p)
      <4> TAKE p \in 0 .. k
      <4>1. CASE p = k
        <5>1. g[k-1] = f[k-1] /\ p # 0
          BY <4>1
        <5> QED
          BY <4>1, <5>1
      <4>2. CASE p # k
        <5>1. p \in 0 .. k-1
          BY <4>2
        <5>2. f[p] = IF p = 0 THEN {tree} ELSE step(f[p-1], p)
          BY <2>2, <5>1
        <5>3. p # 0 => g[p-1] = f[p-1]
          BY <5>1
        <5> QED
          BY <5>1, <5>2, <5>3
      <4> QED
        BY <4>1, <4>2
    <3>2. walks(g, k)
      BY <3>1
    <3> QED
      BY <3>2
  <2> DEFINE good == {k \in 0 .. Len(ops) : \E f : walks(f, k)}
  <2> HIDE DEF walks
  <2>3. 0 \in good /\ \A k \in 1 .. Len(ops) : k-1 \in good => k \in good
    BY <2>1, <2>2
  <2>4. 0 .. Len(ops) \subseteq good
    <3> HIDE DEF good
    <3> QED
      BY <2>3, PlaceInduction
  <2> QED
    BY <2>4
<1>2. walks(OperatedTo(log, w, at, tree, ops), Len(ops))
  <2>1. OperatedTo(log, w, at, tree, ops) = CHOOSE f : walks(f, Len(ops))
    BY Zenon DEF OperatedTo
  <2> HIDE DEF walks
  <2>2. \E f : walks(f, Len(ops))
    BY <1>1
  <2> QED
    BY <2>1, <2>2, Zenon
<1> QED
  <2> HIDE DEF step
  <2>1. \A p \in 0 .. Len(ops) :
           OperatedTo(log, w, at, tree, ops)[p] = IF p = 0 THEN {tree}
                                    ELSE step(OperatedTo(log, w, at, tree, ops)[p-1], p)
    BY <1>2
  <2> USE DEF step
  <2> QED
    BY <2>1

\* So does the tree after each place.
LEMMA AmendedUnfolds ==
    ASSUME NEW log, NEW w, Len(log) \in Nat
    PROVE  /\ AmendedTo(log, w)[0] = [tree |-> InitialTree, head |-> TreePin]
           /\ \A p \in 1 .. Len(log) :
                 AmendedTo(log, w)[p] =
                    IF log[p].path = "amend" THEN Amend(log, w, AmendedTo(log, w)[p-1], p)
                    ELSE AmendedTo(log, w)[p-1]
<1> DEFINE start == [tree |-> InitialTree, head |-> TreePin]
           step(f, p) == IF log[p].path = "amend" THEN Amend(log, w, f, p) ELSE f
           walks(f, k) == f = [p \in 0 .. k |-> IF p = 0 THEN start ELSE step(f[p-1], p)]
<1>1. \A k \in 0 .. Len(log) : \E f : walks(f, k)
  <2> HIDE DEF step
  <2>1. \E f : walks(f, 0)
    <3>1. walks([p \in 0 .. 0 |-> start], 0)
      OBVIOUS
    <3> QED
      BY <3>1
  <2>2. ASSUME NEW k \in 1 .. Len(log), NEW f, walks(f, k-1)
        PROVE  \E g : walks(g, k)
    <3> DEFINE g == [p \in 0 .. k |-> IF p = k THEN step(f[k-1], k) ELSE f[p]]
    <3>1. \A p \in 0 .. k : g[p] = IF p = 0 THEN start ELSE step(g[p-1], p)
      <4> TAKE p \in 0 .. k
      <4>1. CASE p = k
        <5>1. g[k-1] = f[k-1] /\ p # 0
          BY <4>1
        <5> QED
          BY <4>1, <5>1
      <4>2. CASE p # k
        <5>1. p \in 0 .. k-1
          BY <4>2
        <5>2. f[p] = IF p = 0 THEN start ELSE step(f[p-1], p)
          BY <2>2, <5>1
        <5>3. p # 0 => g[p-1] = f[p-1]
          BY <5>1
        <5> QED
          BY <5>1, <5>2, <5>3
      <4> QED
        BY <4>1, <4>2
    <3>2. walks(g, k)
      BY <3>1
    <3> QED
      BY <3>2
  <2> DEFINE good == {k \in 0 .. Len(log) : \E f : walks(f, k)}
  <2> HIDE DEF walks
  <2>3. 0 \in good /\ \A k \in 1 .. Len(log) : k-1 \in good => k \in good
    BY <2>1, <2>2
  <2>4. 0 .. Len(log) \subseteq good
    <3> HIDE DEF good
    <3> QED
      BY <2>3, PlaceInduction
  <2> QED
    BY <2>4
<1>2. walks(AmendedTo(log, w), Len(log))
  <2>1. AmendedTo(log, w) = CHOOSE f : walks(f, Len(log))
    BY Zenon DEF AmendedTo
  <2> HIDE DEF walks
  <2>2. \E f : walks(f, Len(log))
    BY <1>1
  <2> QED
    BY <2>1, <2>2, Zenon
<1> QED
  <2> HIDE DEF step
  <2>1. \A p \in 0 .. Len(log) :
           AmendedTo(log, w)[p] = IF p = 0 THEN start
                                    ELSE step(AmendedTo(log, w)[p-1], p)
    BY <1>2
  <2> USE DEF step
  <2> QED
    BY <2>1

-----------------------------------------------------------------------------
(* Logs, and what holds of a walk after some of their places.              *)

IsLog(log) == Len(log) \in Nat /\ DOMAIN log = 1 .. Len(log)

\* Events refer to what is there.
Refers(log) ==
    \A p \in DOMAIN log :
        /\ log[p].path \in {"claim", "release", "submission"} => log[p].node \in Nodes
        /\ log[p].path = "submission" =>
              log[p].claimid \in Of("claim", log) /\ log[log[p].claimid].node = log[p].node
        /\ log[p].path = "verify" => log[p].targetid \in Of("submission", log)
        /\ log[p].path = "amend" => log[p].ops \in Amendments

Shape(w) ==
    DOMAIN w = {"holder", "first", "cycles", "voters", "approved", "outcome", "reached"}

\* The submissions of a cycle are those of one author for its claim.
Cycle(cycle, log, c) ==
    /\ DOMAIN cycle = {"subs", "outcome"}
    /\ cycle.subs \in Seq(Of("submission", log)) /\ cycle.subs # << >>
    /\ \A s \in ToSet(cycle.subs) :
          log[s].claimid = c /\ log[s].author = log[Last(cycle.subs)].author

Cycles(cycles, log, last) ==
    /\ DOMAIN cycles \subseteq Of("claim", log) \cap 1 .. last
    /\ \A c \in DOMAIN cycles : Cycle(cycles[c], log, c)

\* The holder of a node is a claim of it, and no cycle of the node is later.
Holders(holder, cycles, log, last) ==
    /\ holder \in [Nodes -> 0 .. last]
    /\ \A n \in Nodes : holder[n] # NoPin =>
          /\ holder[n] \in Of("claim", log) /\ log[holder[n]].node = n
          /\ \A c \in DOMAIN cycles : log[c].node = n => c <= holder[n]

\* A ballot that met a live target: its cycle has it.
MetOf(v, cycles, log) ==
    /\ v \in Acting(log)
    /\ log[log[v].targetid].claimid \in DOMAIN cycles
    /\ log[v].targetid \in ToSet(cycles[log[log[v].targetid].claimid].subs)

Met(reached, cycles, log) == \A v \in reached : MetOf(v, cycles, log)

\* The bots that passed a submission of a cycle, independently.
Passing(log, v) == log[v].verdict = "pass" /\ Independent(log, v)

PassedBy(reached, cycle, log) ==
    {log[v].author : v \in {u \in reached :
        log[u].targetid \in ToSet(cycle.subs) /\ Passing(log, u)}}

Authors(log) == {log[v].author : v \in Acting(log)}

\* The voters of a node are those of the cycle under review.
Voters(voters, holder, cycles, reached, log) ==
    /\ voters \in [Nodes -> SUBSET Authors(log)]
    /\ \A n \in Nodes :
          voters[n] = IF holder[n] \in DOMAIN cycles
                      THEN PassedBy(reached, cycles[holder[n]], log) ELSE {}

Quorate(cycles, reached, log) ==
    \A c \in DOMAIN cycles : cycles[c].outcome = "verified" =>
        Cardinality(PassedBy(reached, cycles[c], log)) >= Quorum

WInv(w, log, last) ==
    /\ Shape(w)
    /\ Cycles(w.cycles, log, last)
    /\ Holders(w.holder, w.cycles, log, last)
    /\ Met(w.reached, w.cycles, log)
    /\ Voters(w.voters, w.holder, w.cycles, w.reached, log)
    /\ Quorate(w.cycles, w.reached, log)

\* Ballots that act are ballots on submissions.
LEMMA ActingVotes ==
    ASSUME NEW log, NEW v \in Acting(log)
    PROVE  v \in DOMAIN log /\ log[v].path = "verify" /\ log[v].targetid \in Of("submission", log)
BY DEF Acting, ValidBallots, Ballots, Of

\* The last submission of a cycle is one of them.
LEMMA EffectiveIn ==
    ASSUME NEW cycle, NEW log, NEW c, Cycle(cycle, log, c)
    PROVE  /\ Last(cycle.subs) \in ToSet(cycle.subs)
           /\ ToSet(cycle.subs) \subseteq Of("submission", log)
<1> DEFINE subs == cycle.subs
<1>1. subs \in Seq(Of("submission", log)) /\ subs # << >>
  BY DEF Cycle
<1> HIDE DEF subs
<1> QED
  BY <1>1 DEF Last, ToSet, subs

\* Finitely many bots pass a submission.
LEMMA PassedByFinite ==
    ASSUME NEW log, IsLog(log), NEW reached, reached \subseteq Acting(log), NEW cycle
    PROVE  IsFiniteSet(PassedBy(reached, cycle, log))
<1> DEFINE met == {u \in reached : log[u].targetid \in ToSet(cycle.subs) /\ Passing(log, u)}
<1>1. met \in SUBSET (1 .. Len(log))
  BY ActingVotes DEF IsLog
<1>2. IsFiniteSet(1 .. Len(log))
  BY FS_Interval DEF IsLog
<1>3. IsFiniteSet(met)
  BY <1>1, <1>2, FS_Subset
<1> DEFINE author == [v \in met |-> log[v].author]
<1>4. author \in Surjection(met, PassedBy(reached, cycle, log))
  BY DEF Surjection, PassedBy
<1> QED
  BY <1>3, <1>4, FS_Surjection

-----------------------------------------------------------------------------
(* One event of the walk.                                                  *)

\* It begins so.
LEMMA EmptyWalkInv == ASSUME NEW log, IsLog(log) PROVE WInv(EmptyWalk, log, 0)
<1> DEFINE w == EmptyWalk
<1>1. Shape(w)
  BY DEF Shape, EmptyWalk
<1>2. /\ DOMAIN w.cycles = {} /\ w.reached = {}
      /\ w.holder = [n \in Nodes |-> NoPin] /\ w.voters = [n \in Nodes |-> {}]
  BY DEF EmptyWalk
<1> HIDE DEF w
<1>3. Holders(w.holder, w.cycles, log, 0)
  BY <1>2 DEF Holders, NoPin
<1>4. Cycles(w.cycles, log, 0)
  BY <1>2 DEF Cycles
<1>5. Met(w.reached, w.cycles, log) /\ Quorate(w.cycles, w.reached, log)
  BY <1>2 DEF Met, Quorate
<1>6. Voters(w.voters, w.holder, w.cycles, w.reached, log)
  BY <1>2 DEF Voters
<1> QED
  BY <1>1, <1>3, <1>4, <1>5, <1>6 DEF WInv, w

\* An event that changes nothing.
LEMMA NothingHappens ==
    ASSUME NEW w, NEW log, NEW p \in Nat \ {0}, WInv(w, log, p-1) PROVE WInv(w, log, p)
<1>1. Cycles(w.cycles, log, p)
  BY DEF WInv, Cycles
<1>2. Holders(w.holder, w.cycles, log, p)
  BY DEF WInv, Holders
<1> QED
  BY <1>1, <1>2 DEF WInv

\* A claim: of the claims of a node that is free the first takes it.
LEMMA ClaimStep ==
    ASSUME NEW log, IsLog(log), Refers(log), NEW p \in Of("claim", log),
           NEW w, WInv(w, log, p-1)
    PROVE  WInv(AfterClaim(w, log, p), log, p)
<1> DEFINE n == log[p].node
           v == AfterClaim(w, log, p)
<1>1. p \in 1 .. Len(log) /\ n \in Nodes
  BY DEF Of, IsLog, Refers
<1>2. WInv(w, log, p)
  BY <1>1, NothingHappens
<1>3. CASE w.holder[n] # NoPin
  BY <1>2, <1>3 DEF AfterClaim
<1>4. CASE w.holder[n] = NoPin
  <2>1. /\ Shape(v)
        /\ v.holder = [w.holder EXCEPT ![n] = p]
        /\ v.cycles = w.cycles /\ v.voters = w.voters /\ v.reached = w.reached
    BY <1>1, <1>4 DEF AfterClaim, WInv, Shape
  <2> HIDE DEF v
  <2>3. \A c \in DOMAIN w.cycles : c \in 1 .. p-1
    BY DEF WInv, Cycles
  <2>4. w.holder \in [Nodes -> 0 .. p-1]
    BY DEF WInv, Holders
  <2>5. Holders(v.holder, v.cycles, log, p)
    BY <1>1, <1>4, <2>1, <2>3, <2>4 DEF WInv, Holders
  <2>6. p \notin DOMAIN w.cycles /\ NoPin \notin DOMAIN w.cycles
    BY <1>1, <2>3 DEF NoPin
  <2>7. Voters(v.voters, v.holder, v.cycles, v.reached, log)
    BY <1>1, <1>4, <2>1, <2>4, <2>6 DEF WInv, Voters
  <2> QED
    BY <1>2, <2>1, <2>5, <2>7 DEF WInv, v
<1> QED
  BY <1>3, <1>4

\* A node that is vacated has no voters.
LEMMA VacatedInv ==
    ASSUME NEW log, NEW last \in Nat, NEW w, WInv(w, log, last),
           NEW n \in Nodes, NEW why
    PROVE  WInv(Vacated(w, n, why), log, last)
<1> DEFINE v == Vacated(w, n, why)
<1>1. /\ Shape(v)
      /\ v.holder = [w.holder EXCEPT ![n] = NoPin] /\ v.voters = [w.voters EXCEPT ![n] = {}]
      /\ v.cycles = w.cycles /\ v.reached = w.reached
  BY DEF Vacated, WInv, Shape
<1> HIDE DEF v
<1>3. w.holder \in [Nodes -> 0 .. last] /\ NoPin \notin DOMAIN w.cycles
  BY DEF WInv, Holders, Cycles, NoPin
<1>4. Holders(v.holder, v.cycles, log, last)
  BY <1>1, <1>3 DEF WInv, Holders, NoPin
<1>5. Voters(v.voters, v.holder, v.cycles, v.reached, log)
  BY <1>1, <1>3 DEF WInv, Voters
<1> QED
  BY <1>1, <1>4, <1>5 DEF WInv, v

\* A release.
LEMMA ReleaseStep ==
    ASSUME NEW log, IsLog(log), Refers(log), NEW p \in Of("release", log),
           NEW w, WInv(w, log, p-1)
    PROVE  WInv(AfterRelease(w, log, p), log, p)
<1>1. p \in 1 .. Len(log) /\ log[p].node \in Nodes
  BY DEF Of, IsLog, Refers
<1>2. WInv(w, log, p)
  BY <1>1, NothingHappens
<1> QED
  BY <1>1, <1>2, VacatedInv DEF AfterRelease

\* The submissions of two cycles are apart, and of the node of the claim.
LEMMA CyclesApart ==
    ASSUME NEW log, Refers(log), NEW last, NEW w, WInv(w, log, last),
           NEW c \in DOMAIN w.cycles, NEW s \in ToSet(w.cycles[c].subs)
    PROVE  /\ s \in Of("submission", log) /\ log[s].claimid = c
           /\ log[s].node = log[c].node
           /\ \A d \in DOMAIN w.cycles \ {c} : s \notin ToSet(w.cycles[d].subs)
<1>1. \A d \in DOMAIN w.cycles : Cycle(w.cycles[d], log, d)
  BY DEF WInv, Cycles
<1>2. \A d \in DOMAIN w.cycles : s \in ToSet(w.cycles[d].subs) => log[s].claimid = d
  BY <1>1 DEF Cycle
<1>3. s \in Of("submission", log)
  BY <1>1, EffectiveIn
<1>4. log[s].node = log[c].node
  BY <1>2, <1>3 DEF Refers, Of
<1> QED
  BY <1>2, <1>3, <1>4

\* The claim that holds a node is a claim of it, and of no other.
LEMMA HolderOf ==
    ASSUME NEW log, NEW last, NEW w, WInv(w, log, last), NEW n \in Nodes,
           w.holder[n] \in DOMAIN w.cycles
    PROVE  log[w.holder[n]].node = n
<1>1. w.holder[n] # NoPin
  BY DEF WInv, Cycles, NoPin
<1> QED
  BY <1>1 DEF WInv, Holders

\* A ballot on the submission under review is met: the voters gain its bot when
\* it passes and is independent.
LEMMA MeetStep ==
    ASSUME NEW log, IsLog(log), Refers(log), NEW last, NEW w, WInv(w, log, last),
           NEW p \in Acting(log), NEW n \in Nodes, w.holder[n] \in DOMAIN w.cycles,
           log[p].targetid = Effective(w, w.holder[n]),
           NEW v, Shape(v), v.holder = w.holder, v.cycles = w.cycles,
           v.reached = w.reached \cup {p},
           v.voters = [w.voters EXCEPT ![n] =
                         @ \cup (IF Passing(log, p) THEN {log[p].author} ELSE {})]
    PROVE  WInv(v, log, last)
<1> DEFINE c == w.holder[n]
           target == log[p].targetid
           gain == IF Passing(log, p) THEN {log[p].author} ELSE {}
<1>1. Cycle(w.cycles[c], log, c)
  BY DEF WInv, Cycles
<1>2. target \in ToSet(w.cycles[c].subs)
  BY <1>1, EffectiveIn DEF Effective
<1>3. log[target].claimid = c /\ \A d \in DOMAIN w.cycles \ {c} : target \notin ToSet(w.cycles[d].subs)
  BY <1>2, CyclesApart
<1>4. \A d \in DOMAIN w.cycles :
         PassedBy(v.reached, w.cycles[d], log) =
            PassedBy(w.reached, w.cycles[d], log) \cup (IF d = c THEN gain ELSE {})
  <2> TAKE d \in DOMAIN w.cycles
  <2> DEFINE was == PassedBy(w.reached, w.cycles[d], log)
  <2>1. target \in ToSet(w.cycles[d].subs) <=> d = c
    BY <1>2, <1>3
  <2>2. CASE d = c /\ Passing(log, p)
    <3>1. PassedBy(v.reached, w.cycles[d], log) = was \cup {log[p].author}
      BY <2>1, <2>2 DEF PassedBy
    <3> QED
      BY <2>2, <3>1
  <2>3. CASE ~(d = c /\ Passing(log, p))
    <3>1. ~(log[p].targetid \in ToSet(w.cycles[d].subs) /\ Passing(log, p))
      BY <2>1, <2>3
    <3>2. PassedBy(w.reached \cup {p}, w.cycles[d], log) = was
      BY <3>1 DEF PassedBy
    <3> QED
      BY <2>3, <3>2
  <2> QED
    BY <2>2, <2>3
<1>5. \A m \in Nodes \ {n} : w.holder[m] \in DOMAIN w.cycles => w.holder[m] # c
  BY HolderOf
<1>6. gain \in SUBSET Authors(log)
  BY DEF Authors
<1> HIDE DEF gain, target, c
<1>7. w.voters \in [Nodes -> SUBSET Authors(log)]
      /\ \A m \in Nodes : w.voters[m] = IF w.holder[m] \in DOMAIN w.cycles
                      THEN PassedBy(w.reached, w.cycles[w.holder[m]], log) ELSE {}
  BY DEF WInv, Voters
<1>8. v.voters = [w.voters EXCEPT ![n] = @ \cup gain]
  BY DEF gain
<1>9. Voters(v.voters, v.holder, v.cycles, v.reached, log)
  <2>1. v.voters \in [Nodes -> SUBSET Authors(log)]
    BY <1>6, <1>7, <1>8
  <2>2. ASSUME NEW m \in Nodes
        PROVE  v.voters[m] = IF w.holder[m] \in DOMAIN w.cycles
                      THEN PassedBy(v.reached, w.cycles[w.holder[m]], log) ELSE {}
    <3>1. CASE m = n
      BY <3>1, <1>4, <1>7, <1>8 DEF c
    <3>2. CASE m # n
      <4>1. v.voters[m] = w.voters[m]
        BY <3>2, <1>7, <1>8
      <4>2. w.holder[m] \in DOMAIN w.cycles =>
               PassedBy(v.reached, w.cycles[w.holder[m]], log) =
                  PassedBy(w.reached, w.cycles[w.holder[m]], log)
        BY <3>2, <1>4, <1>5, ZenonT(60)
      <4> QED
        BY <4>1, <4>2, <1>7
    <3> QED
      BY <3>1, <3>2
  <2> QED
    BY <2>1, <2>2 DEF Voters
<1>10. Met(v.reached, v.cycles, log)
  BY <1>2, <1>3 DEF WInv, Met, MetOf, target, c
<1>11. Quorate(v.cycles, v.reached, log)
  <2> SUFFICES ASSUME NEW d \in DOMAIN w.cycles, w.cycles[d].outcome = "verified"
               PROVE  Cardinality(PassedBy(v.reached, w.cycles[d], log)) >= Quorum
    BY DEF Quorate
  <2> DEFINE was == PassedBy(w.reached, w.cycles[d], log)
             now == PassedBy(v.reached, w.cycles[d], log)
  <2>1. v.reached \subseteq Acting(log)
    BY <1>10 DEF Met, MetOf
  <2>2. IsFiniteSet(now) /\ was \subseteq now
    BY <2>1, <1>4, PassedByFinite
  <2>3. Cardinality(was) >= Quorum
    BY DEF WInv, Quorate
  <2> HIDE DEF was, now
  <2>4. Cardinality(was) <= Cardinality(now) /\ IsFiniteSet(was)
    BY <2>2, FS_Subset
  <2>5. Cardinality(was) \in Nat /\ Cardinality(now) \in Nat
    BY <2>2, <2>4, FS_CardinalityType
  <2> QED
    BY <2>3, <2>4, <2>5, WalkAssumption DEF now
<1> QED
  BY <1>9, <1>10, <1>11 DEF WInv

\* How a cycle ends: as verified only with a quorum.
LEMMA OutcomeStep ==
    ASSUME NEW log, NEW last, NEW w, WInv(w, log, last), NEW c \in DOMAIN w.cycles,
           NEW how,
           how = "verified" => Cardinality(PassedBy(w.reached, w.cycles[c], log)) >= Quorum,
           NEW v, Shape(v), v.holder = w.holder, v.reached = w.reached, v.voters = w.voters,
           v.cycles = [w.cycles EXCEPT ![c].outcome = how]
    PROVE  WInv(v, log, last)
<1>1. DOMAIN v.cycles = DOMAIN w.cycles
  OBVIOUS
<1>2. \A d \in DOMAIN w.cycles : DOMAIN w.cycles[d] = {"subs", "outcome"}
  BY DEF WInv, Cycles, Cycle
<1>3. \A d \in DOMAIN w.cycles :
         /\ v.cycles[d].subs = w.cycles[d].subs
         /\ DOMAIN v.cycles[d] = {"subs", "outcome"}
         /\ v.cycles[d].outcome = IF d = c THEN how ELSE w.cycles[d].outcome
  BY <1>2
<1>4. \A d \in DOMAIN w.cycles :
         PassedBy(v.reached, v.cycles[d], log) = PassedBy(w.reached, w.cycles[d], log)
  BY <1>3 DEF PassedBy
<1>5. Cycles(v.cycles, log, last)
  BY <1>1, <1>3 DEF WInv, Cycles, Cycle
<1>6. Met(v.reached, v.cycles, log)
  BY <1>1, <1>3 DEF WInv, Met, MetOf
<1>7. Voters(v.voters, v.holder, v.cycles, v.reached, log)
  BY <1>1, <1>4 DEF WInv, Voters
<1>8. Quorate(v.cycles, v.reached, log)
  BY <1>1, <1>3, <1>4 DEF WInv, Quorate
<1>9. Holders(v.holder, v.cycles, log, last)
  BY <1>1 DEF WInv, Holders
<1> QED
  BY <1>5, <1>6, <1>7, <1>8, <1>9 DEF WInv

\* A ballot that acts.
LEMMA VoteStep ==
    ASSUME NEW log, IsLog(log), Refers(log), NEW p \in Acting(log),
           NEW w, WInv(w, log, p-1)
    PROVE  WInv(AfterVote(w, log, p), log, p)
<1> DEFINE target == log[p].targetid
           n == log[target].node
           c == w.holder[n]
           bot == log[p].author
           met == [w EXCEPT !.reached = @ \cup {p}]
<1>1. p \in 1 .. Len(log) /\ target \in Of("submission", log) /\ n \in Nodes
  BY ActingVotes DEF Of, IsLog, Refers
<1>2. WInv(w, log, p)
  BY <1>1, NothingHappens
<1> DEFINE failed == Failed(met, n, c)
           passed == Passed(met, log, p, n, c)
           after == IF c \notin DOMAIN w.cycles \/ target # Effective(w, c) THEN w
                    ELSE IF log[p].verdict = "fail" THEN failed
                    ELSE IF log[p].verdict = "pass" THEN passed
                    ELSE met
<1>a. AfterVote(w, log, p) = after
  BY Zenon DEF AfterVote
<1> HIDE DEF failed, passed, met
<1>3. CASE c \notin DOMAIN w.cycles \/ target # Effective(w, c)
  BY <1>2, <1>3, <1>a
<1>4. CASE ~(c \notin DOMAIN w.cycles \/ target # Effective(w, c))
  <2>1. /\ Shape(w) /\ w.voters \in [Nodes -> SUBSET Authors(log)]
        /\ w.holder \in [Nodes -> 0 .. p] /\ DOMAIN w.cycles[c] = {"subs", "outcome"}
    BY <1>2, <1>4 DEF WInv, Voters, Holders, Cycles, Cycle
  <2>2. /\ Shape(met) /\ met.holder = w.holder /\ met.cycles = w.cycles
        /\ met.voters = w.voters /\ met.reached = w.reached \cup {p}
        /\ Effective(met, c) = target
    BY <1>4, <2>1 DEF Shape, Effective, met
  <2> HIDE DEF c, n, target
  <2>3. ~Passing(log, p) => WInv(met, log, p)
    <3> SUFFICES ASSUME ~Passing(log, p) PROVE WInv(met, log, p)
      OBVIOUS
    <3>1. met.voters = [w.voters EXCEPT ![n] =
                           @ \cup (IF Passing(log, p) THEN {log[p].author} ELSE {})]
      BY <2>1, <2>2, <1>1
    <3> QED
      BY <1>1, <1>2, <1>4, <2>2, <3>1, MeetStep DEF c, target
  <2>4. CASE log[p].verdict = "fail"
    <3> DEFINE ended == [met EXCEPT !.cycles[c].outcome = "fail_rejected",
                                    !.approved = @ \ {Effective(met, c)}]
    <3>1. WInv(met, log, p)
      BY <2>3, <2>4 DEF Passing
    <3>2. /\ Shape(ended) /\ ended.holder = met.holder /\ ended.voters = met.voters
          /\ ended.reached = met.reached
          /\ ended.cycles = [met.cycles EXCEPT ![c].outcome = "fail_rejected"]
      BY <2>2 DEF Shape
    <3>3. WInv(ended, log, p)
      <4> HIDE DEF ended
      <4> QED
        BY <1>4, <2>2, <3>1, <3>2, OutcomeStep
    <3>4. AfterVote(w, log, p) = Vacated(ended, n, "rejected")
      BY <1>4, <1>a, <2>4 DEF Failed, failed, c, n, target
    <3> HIDE DEF ended
    <3> QED
      BY <1>1, <3>3, <3>4, VacatedInv
  <2>5. CASE log[p].verdict = "pass" /\ Independent(log, p)
    <3> DEFINE voters == w.voters[n] \cup {bot}
               counted == [met EXCEPT !.voters[n] = met.voters[n] \cup {bot}]
               verified == [counted EXCEPT !.cycles[c].outcome = "verified",
                                           !.approved = @ \cup {target}]
    <3>1. /\ Shape(counted) /\ counted.holder = w.holder /\ counted.cycles = w.cycles
          /\ counted.reached = w.reached \cup {p}
          /\ counted.voters = [w.voters EXCEPT ![n] = @ \cup {bot}]
      BY <2>2 DEF Shape
    <3>2. /\ Shape(verified) /\ verified.holder = counted.holder
          /\ verified.voters = counted.voters /\ verified.reached = counted.reached
          /\ verified.cycles = [counted.cycles EXCEPT ![c].outcome = "verified"]
      BY <3>1 DEF Shape
    <3>3. counted.voters[n] = voters
      BY <1>1, <2>1, <3>1
    <3> HIDE DEF counted, verified
    <3>4. Passing(log, p)
      BY <2>5 DEF Passing
    <3>5. counted.voters = [w.voters EXCEPT ![n] =
                               @ \cup (IF Passing(log, p) THEN {log[p].author} ELSE {})]
      BY <3>1, <3>4
    <3>6. WInv(counted, log, p)
      BY <1>1, <1>2, <1>4, <3>1, <3>5, MeetStep DEF c, target
    <3>7. counted.voters[n] = PassedBy(counted.reached, counted.cycles[c], log)
      BY <1>1, <1>4, <3>1, <3>6 DEF WInv, Voters, c
    <3>8. Cardinality(voters) >= Quorum => WInv(verified, log, p)
      <4> SUFFICES ASSUME Cardinality(voters) >= Quorum PROVE WInv(verified, log, p)
        OBVIOUS
      <4>1. Cardinality(PassedBy(counted.reached, counted.cycles[c], log)) >= Quorum
        BY <3>3, <3>7
      <4>2. c \in DOMAIN counted.cycles
        BY <1>4, <3>1
      <4> HIDE DEF voters
      <4> QED
        BY <4>1, <4>2, <3>2, <3>6, OutcomeStep
    <3>9. AfterVote(w, log, p) = IF Cardinality(voters) >= Quorum THEN verified ELSE counted
      <4>1. AfterVote(w, log, p) = Passed(met, log, p, n, c)
        BY <1>4, <1>a, <2>5 DEF passed, c, n, target
      <4> QED
        BY <4>1, <2>2, <2>5 DEF Passed, verified, counted, target
    <3> QED
      BY <3>6, <3>8, <3>9
  <2>6. CASE log[p].verdict # "fail" /\ ~(log[p].verdict = "pass" /\ Independent(log, p))
    <3>1. log[p].verdict = "pass" => passed = met
      BY <2>6 DEF Passed, passed
    <3>2. AfterVote(w, log, p) = met
      BY <1>4, <1>a, <2>6, <3>1 DEF c, n, target
    <3> QED
      BY <2>3, <2>6, <3>2 DEF Passing
  <2> QED
    BY <2>4, <2>5, <2>6
<1> QED
  BY <1>3, <1>4

\* A submission: it opens the cycle of the claim that holds the node, or takes the
\* place of the last one.
LEMMA SubmissionStep ==
    ASSUME NEW log, IsLog(log), Refers(log), NEW p \in Of("submission", log),
           NEW w, WInv(w, log, p-1)
    PROVE  WInv(AfterSubmission(w, log, p), log, p)
<1> DEFINE claim == log[p].claimid
           n == log[p].node
           v == AfterSubmission(w, log, p)
           opened == [w EXCEPT !.cycles = [c \in DOMAIN @ \cup {claim} |->
                         IF c = claim THEN [subs |-> <<p>>, outcome |-> "open"] ELSE @[c]]]
           appended == [w EXCEPT !.cycles[claim].subs = Append(@, p)]
           after == IF claim = NoPin \/ w.holder[n] # claim THEN w
                    ELSE IF claim \notin DOMAIN w.cycles THEN opened
                    ELSE IF Supersedes(w, log, p) THEN appended
                    ELSE w
<1>a. v = after
  BY Zenon DEF AfterSubmission
<1> HIDE DEF v, opened, appended
<1>1. p \in 1 .. Len(log) /\ n \in Nodes /\ claim \in Of("claim", log) /\ log[claim].node = n
  BY DEF Of, IsLog, Refers
<1>2. WInv(w, log, p)
  BY <1>1, NothingHappens
<1>3. CASE claim = NoPin \/ w.holder[n] # claim
  BY <1>2, <1>3, <1>a DEF v
<1>4. CASE /\ ~(claim = NoPin \/ w.holder[n] # claim) /\ claim \notin DOMAIN w.cycles
  <2> DEFINE fresh == [subs |-> <<p>>, outcome |-> "open"]
  <2>0. v = opened
    BY <1>4, <1>a
  <2>1. /\ Shape(v) /\ v.holder = w.holder /\ v.voters = w.voters /\ v.reached = w.reached
        /\ v.cycles = [c \in DOMAIN w.cycles \cup {claim} |->
                          IF c = claim THEN fresh ELSE w.cycles[c]]
    BY <1>2, <2>0 DEF opened, WInv, Shape
  <2>2. /\ DOMAIN v.cycles = DOMAIN w.cycles \cup {claim} /\ v.cycles[claim] = fresh
        /\ \A c \in DOMAIN w.cycles : v.cycles[c] = w.cycles[c]
    BY <1>4, <2>1
  <2>3. Cycle(fresh, log, claim)
    BY DEF Cycle, ToSet, Last
  <2>4. \A u \in w.reached : log[u].targetid \notin ToSet(fresh.subs)
    <3>1. ToSet(fresh.subs) = {p}
      BY DEF ToSet
    <3>2. \A u \in w.reached : log[log[u].targetid].claimid \in DOMAIN w.cycles
      BY <1>2 DEF WInv, Met, MetOf
    <3> QED
      BY <1>4, <3>1, <3>2
  <2> HIDE DEF fresh
  <2>5. w.holder[n] \in 0 .. p /\ claim \in 1 .. p
    BY <1>1, <1>2, <1>4 DEF WInv, Holders, NoPin
  <2>6. Cycles(v.cycles, log, p)
    BY <1>1, <1>2, <2>2, <2>3, <2>5 DEF WInv, Cycles
  <2>7. Holders(v.holder, v.cycles, log, p)
    BY <1>1, <1>2, <1>4, <2>1, <2>2, <2>5 DEF WInv, Holders
  <2>8. Met(v.reached, v.cycles, log)
    BY <1>2, <2>1, <2>2 DEF WInv, Met, MetOf
  <2>9. PassedBy(w.reached, fresh, log) = {}
    BY <2>4 DEF PassedBy
  <2>10. Voters(v.voters, v.holder, v.cycles, v.reached, log)
    BY <1>2, <1>4, <2>1, <2>2, <2>9 DEF WInv, Voters
  <2>11. Quorate(v.cycles, v.reached, log)
    <3>1. fresh.outcome # "verified"
      BY DEF fresh
    <3> QED
      BY <1>2, <2>1, <2>2, <3>1 DEF WInv, Quorate
  <2> QED
    BY <2>1, <2>6, <2>7, <2>8, <2>10, <2>11 DEF WInv, v
<1>5. CASE /\ ~(claim = NoPin \/ w.holder[n] # claim) /\ claim \in DOMAIN w.cycles
           /\ Supersedes(w, log, p)
  <2> DEFINE old == w.cycles[claim]
             longer == Append(old.subs, p)
  <2>0. v = appended
    BY <1>5, <1>a
  <2>1. /\ Shape(v) /\ v.holder = w.holder /\ v.voters = w.voters /\ v.reached = w.reached
        /\ v.cycles = [w.cycles EXCEPT ![claim].subs = longer]
    BY <1>2, <2>0 DEF appended, WInv, Shape
  <2>2. Cycle(old, log, claim)
    BY <1>2, <1>5 DEF WInv, Cycles
  <2>3. /\ DOMAIN v.cycles = DOMAIN w.cycles
        /\ \A c \in DOMAIN w.cycles \ {claim} : v.cycles[c] = w.cycles[c]
        /\ DOMAIN v.cycles[claim] = {"subs", "outcome"}
        /\ v.cycles[claim].subs = longer /\ v.cycles[claim].outcome = old.outcome
    BY <1>5, <2>1, <2>2 DEF Cycle
  <2>4. /\ ToSet(longer) = ToSet(old.subs) \cup {p} /\ Last(longer) = p
        /\ longer \in Seq(Of("submission", log)) /\ longer # << >>
    <3> DEFINE subs == old.subs
    <3>1. subs \in Seq(Of("submission", log)) /\ longer = Append(subs, p)
      BY <2>2 DEF Cycle
    <3> HIDE DEF subs, longer
    <3>2. /\ longer \in Seq(Of("submission", log)) /\ Len(longer) = Len(subs) + 1
          /\ longer[Len(longer)] = p /\ \A i \in 1 .. Len(subs) : longer[i] = subs[i]
      BY <3>1
    <3>3. Len(subs) \in Nat /\ DOMAIN subs = 1 .. Len(subs) /\ DOMAIN longer = 1 .. Len(subs) + 1
      BY <3>1, <3>2
    <3>4. ToSet(longer) = ToSet(subs) \cup {p}
      BY <3>2, <3>3 DEF ToSet
    <3>5. Last(longer) = p /\ longer # << >>
      BY <3>2, <3>3 DEF Last
    <3> QED
      BY <3>2, <3>4, <3>5 DEF subs
  <2>5. \A s \in ToSet(longer) : log[s].claimid = claim /\ log[s].author = log[p].author
    BY <1>5, <2>2, <2>4 DEF Cycle, Supersedes, Effective
  <2>6. \A u \in w.reached : log[u].targetid \in ToSet(longer) <=>
                              log[u].targetid \in ToSet(old.subs)
    BY <1>2, <2>4 DEF WInv, Met, MetOf
  <2> HIDE DEF longer
  <2>7. Cycle(v.cycles[claim], log, claim)
    BY <2>3, <2>4, <2>5 DEF Cycle
  <2>8. \A c \in DOMAIN w.cycles :
           PassedBy(v.reached, v.cycles[c], log) = PassedBy(w.reached, w.cycles[c], log)
    BY <2>1, <2>3, <2>6 DEF PassedBy
  <2>9. Cycles(v.cycles, log, p)
    BY <1>2, <2>3, <2>7 DEF WInv, Cycles
  <2>10. Met(v.reached, v.cycles, log)
    <3>1. ToSet(old.subs) \subseteq ToSet(v.cycles[claim].subs)
      BY <2>3, <2>4
    <3> QED
      BY <1>2, <2>1, <2>3, <3>1 DEF WInv, Met, MetOf
  <2>11. Holders(v.holder, v.cycles, log, p)
    BY <1>2, <2>1, <2>3 DEF WInv, Holders
  <2>12. Voters(v.voters, v.holder, v.cycles, v.reached, log)
    BY <1>2, <2>1, <2>3, <2>8, SMTT(60) DEF WInv, Voters
  <2>13. Quorate(v.cycles, v.reached, log)
    BY <1>2, <2>1, <2>3, <2>8, SMTT(60) DEF WInv, Quorate
  <2> QED
    BY <2>1, <2>9, <2>10, <2>11, <2>12, <2>13 DEF WInv, v
<1>6. CASE /\ ~(claim = NoPin \/ w.holder[n] # claim) /\ claim \in DOMAIN w.cycles
           /\ ~Supersedes(w, log, p)
  BY <1>2, <1>6, <1>a DEF v
<1> QED
  BY <1>3, <1>4, <1>5, <1>6

\* One event keeps what holds of a walk, and so does each walk as a whole.
LEMMA WalkStepInv ==
    ASSUME NEW log, IsLog(log), Refers(log), NEW inTree, NEW p \in 1 .. Len(log),
           NEW w, WInv(w, log, p-1)
    PROVE  WInv(WalkStep(w, log, inTree, Acting(log), p), log, p)
<1> DEFINE v == WalkStep(w, log, inTree, Acting(log), p)
<1>1. WInv(w, log, p)
  BY NothingHappens
<1>2. p \in DOMAIN log
  BY DEF IsLog
<1>3. \/ v = w
      \/ p \in Acting(log) /\ v = AfterVote(w, log, p)
      \/ log[p].path = "claim" /\ v = AfterClaim(w, log, p)
      \/ log[p].path = "release" /\ v = AfterRelease(w, log, p)
      \/ log[p].path = "submission" /\ v = AfterSubmission(w, log, p)
  BY DEF WalkStep
<1> HIDE DEF v
<1>4. CASE p \in Acting(log) /\ v = AfterVote(w, log, p)
  BY <1>4, VoteStep DEF v
<1>5. CASE log[p].path = "claim" /\ v = AfterClaim(w, log, p)
  BY <1>2, <1>5, ClaimStep DEF v, Of
<1>6. CASE log[p].path = "release" /\ v = AfterRelease(w, log, p)
  BY <1>2, <1>6, ReleaseStep DEF v, Of
<1>7. CASE log[p].path = "submission" /\ v = AfterSubmission(w, log, p)
  BY <1>2, <1>7, SubmissionStep DEF v, Of
<1> QED
  BY <1>1, <1>3, <1>4, <1>5, <1>6, <1>7 DEF v

\* So the invariant holds after the walk, for any nodes in the tree.
LEMMA WalkInv ==
    ASSUME NEW log, IsLog(log), Refers(log), NEW inTree
    PROVE  WInv(Walk(log, inTree), log, Len(log))
<1> DEFINE to == WalkTo(log, inTree)
           good == {p \in 0 .. Len(log) : WInv(to[p], log, p)}
<1>1. 0 \in good
  BY EmptyWalkInv, WalkUnfolds DEF IsLog
<1>2. ASSUME NEW p \in 1 .. Len(log), p-1 \in good PROVE p \in good
  <2>1. to[p] = WalkStep(to[p-1], log, inTree, Acting(log), p)
    BY WalkUnfolds DEF IsLog
  <2> QED
    BY <1>2, <2>1, WalkStepInv DEF IsLog
<1>3. 0 .. Len(log) \subseteq good
  <2> HIDE DEF good
  <2> QED
    BY <1>1, <1>2, PlaceInduction DEF IsLog
<1> QED
  BY <1>3 DEF Walk, IsLog

\* So does expiry, which only takes nodes from their holders.
LEMMA ExpiredInv ==
    ASSUME NEW log, NEW last, last \in Nat, NEW w, WInv(w, log, last)
    PROVE  WInv(Expired(w, log), log, last)
<1> DEFINE v == Expired(w, log)
           claims == {n \in Nodes : ClaimExpired(w, log, n)}
           gone == claims \cup {n \in Nodes : ReviewExpired(w, log, n)}
<1>1. /\ Shape(v) /\ v.cycles = w.cycles /\ v.reached = w.reached
      /\ v.holder = [n \in Nodes |-> IF n \in gone THEN NoPin ELSE w.holder[n]]
      /\ v.voters = [n \in Nodes |-> IF n \in gone THEN {} ELSE w.voters[n]]
  BY DEF Expired, WInv, Shape
<1> HIDE DEF v, gone
<1>2. NoPin \notin DOMAIN w.cycles
  BY DEF WInv, Cycles, NoPin
<1>3. Holders(v.holder, v.cycles, log, last)
  BY <1>1 DEF WInv, Holders, NoPin
<1>4. Voters(v.voters, v.holder, v.cycles, v.reached, log)
  BY <1>1, <1>2 DEF WInv, Voters
<1> QED
  BY <1>1, <1>3, <1>4 DEF WInv, v

-----------------------------------------------------------------------------
(* The chain and its replay.                                               *)

IsSeq(s) == \E S : s \in Seq(S)

RInv == view = Replay(chain) /\ IsSeq(chain) /\ Refers(chain)

\* What an event may refer to in the log it is added to.
RefersTo(e, log) ==
    /\ e.path \in {"claim", "release", "submission"} => e.node \in Nodes
    /\ e.path = "submission" =>
          e.claimid \in Of("claim", log) /\ log[e.claimid].node = e.node
    /\ e.path = "verify" => e.targetid \in Of("submission", log)
    /\ e.path = "amend" => e.ops \in Amendments

\* A sequence and the one that is longer by one event.
LEMMA Longer ==
    ASSUME NEW s, IsSeq(s), NEW e
    PROVE  /\ IsLog(s) /\ IsSeq(Append(s, e)) /\ IsLog(Append(s, e))
           /\ Len(Append(s, e)) = Len(s) + 1 /\ Append(s, e)[Len(s) + 1] = e
           /\ \A i \in DOMAIN s : i # Len(s) + 1 /\ Append(s, e)[i] = s[i]
           /\ DOMAIN Append(s, e) = DOMAIN s \cup {Len(s) + 1}
<1>1. PICK S : s \in Seq(S)
  BY DEF IsSeq
<1>2. s \in Seq(S \cup {e}) /\ Append(s, e) \in Seq(S \cup {e})
  BY <1>1
<1>3. IsSeq(Append(s, e))
  BY <1>2 DEF IsSeq
<1> QED
  BY <1>1, <1>2, <1>3 DEF IsLog

\* A log in which events refer to what is there stays one.
LEMMA RefersAppend ==
    ASSUME NEW log, IsSeq(log), Refers(log), NEW e, RefersTo(e, log)
    PROVE  Refers(Append(log, e))
<1> DEFINE longer == Append(log, e)
<1>1. /\ \A i \in DOMAIN log : longer[i] = log[i]
      /\ longer[Len(log) + 1] = e /\ DOMAIN longer = DOMAIN log \cup {Len(log) + 1}
  BY Longer
<1> HIDE DEF longer
<1>2. \A path : Of(path, log) \subseteq Of(path, longer)
  BY <1>1 DEF Of
<1>3. \A path : \A p \in Of(path, log) : longer[p] = log[p]
  BY <1>1 DEF Of
<1>4. ASSUME NEW p \in DOMAIN longer PROVE RefersTo(longer[p], log)
  BY <1>1 DEF Refers, RefersTo
<1>5. \A p \in DOMAIN longer : RefersTo(longer[p], longer)
  BY <1>2, <1>3, <1>4 DEF RefersTo
<1> QED
  BY <1>5 DEF Refers, RefersTo, longer

\* What is published refers to what is there.
LEMMA PublishRefers ==
    ASSUME RInv, NextR
    PROVE  \E e : RefersTo(e, chain) /\ chain' = Append(chain, e) /\ view' = Replay(chain')
<1>1. CASE PostClaim
  <2> PICK n \in Nodes : Publish([path |-> "claim", node |-> n])
    BY <1>1 DEF PostClaim
  <2> QED
    BY DEF Publish, RefersTo
<1>2. CASE PostRelease
  <2> PICK c \in Of("claim", chain) :
         Publish([path |-> "release", node |-> chain[c].node, claimid |-> c])
    BY <1>2 DEF PostRelease
  <2>1. chain[c].node \in Nodes
    BY DEF RInv, Refers, Of
  <2> QED
    BY <2>1 DEF Publish, RefersTo
<1>3. CASE PostSubmission
  <2>1. PICK c, b, old, kids :
         /\ c \in Of("claim", chain)
         /\ Publish([path |-> "submission", author |-> b, node |-> chain[c].node,
                     claimid |-> c, supersedeid |-> old, childids |-> kids])
    BY <1>3 DEF PostSubmission
  <2>2. chain[c].node \in Nodes
    BY <2>1 DEF RInv, Refers, Of
  <2> QED
    BY <2>1, <2>2 DEF Publish, RefersTo
<1>4. CASE PostVerify
  <2>1. PICK s, b, verdict, formed :
         /\ s \in Of("submission", chain)
         /\ Publish([path |-> "verify", targetid |-> s, author |-> b, verdict |-> verdict,
                     formed |-> formed])
    BY <1>4 DEF PostVerify
  <2> QED
    BY <2>1 DEF Publish, RefersTo
<1>5. CASE PostAmend
  <2>1. PICK ops \in Amendments, old \in {TreePin} \cup Of("amend", chain),
             b \in {Publisher} \cup Workers :
         Publish([path |-> "amend", author |-> b, bases |-> old, ops |-> ops])
    BY <1>5 DEF PostAmend
  <2> QED
    BY <2>1 DEF Publish, RefersTo
<1>6. CASE PostChallenge
  <2>1. PICK s, b, back :
         Publish([path |-> "challenge", author |-> b, targetid |-> s, withdraw |-> back,
                  evidence |-> TRUE])
    BY <1>6 DEF PostChallenge
  <2> QED
    BY <2>1 DEF Publish, RefersTo
<1>7. CASE PostElsewhere
  BY <1>7 DEF PostElsewhere, Publish, RefersTo, Elsewhere
<1> QED
  BY <1>1, <1>2, <1>3, <1>4, <1>5, <1>6, <1>7 DEF NextR

\* The view is the replay of the chain, whose events refer to what is there.
LEMMA ReplayInvariant == SpecR => []RInv
<1>1. InitR => RInv
  <2> SUFFICES ASSUME InitR PROVE RInv
    OBVIOUS
  <2>1. chain \in Seq({}) /\ DOMAIN chain = {}
    BY DEF InitR
  <2> QED
    BY <2>1 DEF InitR, RInv, IsSeq, Refers
<1>2. RInv /\ [NextR]_rvars => RInv'
  <2> SUFFICES ASSUME RInv, [NextR]_rvars PROVE RInv'
    OBVIOUS
  <2>1. CASE NextR
    <3>1. PICK e : RefersTo(e, chain) /\ chain' = Append(chain, e) /\ view' = Replay(chain')
      BY <2>1, PublishRefers
    <3>2. IsSeq(Append(chain, e)) /\ Refers(Append(chain, e))
      BY <3>1, Longer, RefersAppend DEF RInv
    <3> QED
      BY <3>1, <3>2 DEF RInv
  <2>2. CASE UNCHANGED rvars
    BY <2>2 DEF RInv, rvars
  <2> QED
    BY <2>1, <2>2
<1> QED
  BY <1>1, <1>2, PTL DEF SpecR

-----------------------------------------------------------------------------
(* What the replay shows of a walk.                                        *)

\* A set of places has a latest one.
LEMMA LatestExists ==
    ASSUME NEW last \in Nat, NEW places, places \subseteq 1 .. last, places # {}
    PROVE  \E c \in places : \A d \in places : d <= c
<1> DEFINE bounded == {k \in 0 .. last : (\A d \in places : d <= k) =>
                          \E c \in places : \A d \in places : d <= c}
<1>1. 0 \in bounded
  <2>1. \E d : d \in places
    BY Zenon
  <2>2. \E d \in places : ~(d <= 0)
    BY <2>1
  <2> QED
    BY <2>2
<1>2. ASSUME NEW k \in 1 .. last, k-1 \in bounded PROVE k \in bounded
  <2> SUFFICES ASSUME \A d \in places : d <= k
               PROVE  \E c \in places : \A d \in places : d <= c
    OBVIOUS
  <2>1. CASE k \in places
    BY <2>1
  <2>2. CASE k \notin places
    <3>1. \A d \in places : d <= k-1
      BY <2>2
    <3> QED
      BY <1>2, <3>1
  <2> QED
    BY <2>1, <2>2
<1>3. last \in bounded
  <2> HIDE DEF bounded
  <2> QED
    BY <1>1, <1>2, PlaceInduction
<1> QED
  BY <1>3

\* A node with a cycle is judged by one of its own, the latest.
LEMMA ActiveCycleOf ==
    ASSUME NEW log, NEW last \in Nat, NEW w, WInv(w, log, last), NEW n
    PROVE  LET c == ActiveCycle(w, log, n)
           IN  \/ c = NoPin /\ \A d \in DOMAIN w.cycles : log[d].node # n
               \/ /\ c \in DOMAIN w.cycles /\ log[c].node = n
                  /\ \A d \in DOMAIN w.cycles : log[d].node = n => d <= c
<1> DEFINE own == {c \in DOMAIN w.cycles : log[c].node = n}
<1>1. own \subseteq 1 .. last
  BY DEF WInv, Cycles
<1>2. CASE own = {}
  BY <1>2 DEF ActiveCycle
<1>3. CASE own # {}
  <2>1. \E c \in own : \A d \in own : d <= c
    BY <1>1, <1>3, LatestExists
  <2>2. ActiveCycle(w, log, n) = CHOOSE c \in own : \A d \in own : d <= c
    BY <1>3 DEF ActiveCycle
  <2> QED
    BY <2>1, <2>2
<1> QED
  BY <1>2, <1>3

\* The claim that holds a node is the cycle it is judged by, once submitted to.
LEMMA HolderIsActive ==
    ASSUME NEW log, NEW last \in Nat, NEW w, WInv(w, log, last), NEW n \in Nodes,
           w.holder[n] \in DOMAIN w.cycles
    PROVE  ActiveCycle(w, log, n) = w.holder[n]
<1>1. \A d \in DOMAIN w.cycles : d \in 1 .. last
  BY DEF WInv, Cycles
<1>2. log[w.holder[n]].node = n
  BY HolderOf
<1>3. \A d \in DOMAIN w.cycles : log[d].node = n => d <= w.holder[n]
  BY <1>1 DEF WInv, Holders, NoPin
<1> QED
  BY <1>1, <1>2, <1>3, ActiveCycleOf DEF NoPin

\* Both walks of a replay, with what expired, are well-formed.
LEMMA PassesInv ==
    ASSUME NEW log, IsLog(log), Refers(log), NEW tree
    PROVE  /\ WInv(FirstPass(log), log, Len(log))
           /\ WInv(SecondPass(log, tree), log, Len(log))
BY WalkInv, ExpiredInv DEF FirstPass, SecondPass, IsLog

\* The walk a view shows, and the nodes it shows as verified.
LEMMA ViewInv ==
    ASSUME RInv
    PROVE  /\ WInv(view.walk, chain, Len(chain)) /\ Len(chain) \in Nat
           /\ view.verified \subseteq {n \in DOMAIN view.tree : OwnVerified(chain, view.walk, n)}
<1> DEFINE fold == AmendedTo(chain, FirstPass(chain))[Len(chain)]
           w == SecondPass(chain, fold.tree)
<1>1. IsLog(chain) /\ Refers(chain)
  BY Longer DEF RInv
<1>2. /\ view.tree = fold.tree /\ view.walk = w
      /\ view.verified = FinallyVerified(chain, w, fold.tree)
  BY DEF RInv, Replay
<1> HIDE DEF fold
<1>3. WInv(w, chain, Len(chain))
  BY <1>1, PassesInv
<1>4. FinallyVerified(chain, w, fold.tree) \subseteq
         {n \in DOMAIN fold.tree : OwnVerified(chain, w, n)}
  BY DEF FinallyVerified
<1> QED
  BY <1>1, <1>2, <1>3, <1>4 DEF IsLog

\* The bots that passed a cycle are independent, and so voters that count.
LEMMA PassedByVotes ==
    ASSUME NEW log, IsLog(log), NEW last, NEW w, WInv(w, log, last), NEW c \in DOMAIN w.cycles
    PROVE  LET subs == ToSet(w.cycles[c].subs)
               votes == {v \in Acting(log) : /\ log[v].targetid \in subs
                                             /\ log[v].verdict = "pass" /\ v \in w.reached}
               counted == {log[v].author : v \in votes} \
                             ({Publisher} \cup {log[s].author : s \in subs})
           IN  PassedBy(w.reached, w.cycles[c], log) \subseteq counted /\ IsFiniteSet(counted)
<1> DEFINE subs == ToSet(w.cycles[c].subs)
           votes == {v \in Acting(log) : /\ log[v].targetid \in subs
                                         /\ log[v].verdict = "pass" /\ v \in w.reached}
           authors == {log[v].author : v \in votes}
<1>1. \A s, t \in subs : log[s].author = log[t].author
  <2>1. Cycle(w.cycles[c], log, c)
    BY DEF WInv, Cycles
  <2> QED
    BY <2>1 DEF Cycle
<1>2. w.reached \subseteq Acting(log)
  BY DEF WInv, Met, MetOf
<1>3. PassedBy(w.reached, w.cycles[c], log) \subseteq
         authors \ ({Publisher} \cup {log[s].author : s \in subs})
  <2> SUFFICES ASSUME NEW u \in w.reached, log[u].targetid \in subs, Passing(log, u)
               PROVE  /\ log[u].author \in authors
                      /\ log[u].author \notin {Publisher} \cup {log[s].author : s \in subs}
    BY DEF PassedBy
  <2>1. u \in votes /\ log[u].author # Publisher /\ log[u].author # log[log[u].targetid].author
    BY <1>2 DEF Passing, Independent
  <2> HIDE DEF subs
  <2> QED
    BY <1>1, <2>1
<1>4. IsFiniteSet(authors)
  <2>1. votes \in SUBSET (1 .. Len(log))
    BY ActingVotes DEF IsLog
  <2>2. IsFiniteSet(1 .. Len(log))
    BY FS_Interval DEF IsLog
  <2>3. IsFiniteSet(votes)
    BY <2>1, <2>2, FS_Subset
  <2> HIDE DEF votes
  <2> DEFINE author == [v \in votes |-> log[v].author]
  <2>4. author \in Surjection(votes, authors)
    BY DEF Surjection
  <2> QED
    BY <2>3, <2>4, FS_Surjection
<1>5. IsFiniteSet(authors \ ({Publisher} \cup {log[s].author : s \in subs}))
  <2> HIDE DEF authors
  <2> QED
    BY <1>4, FS_Subset
<1> QED
  BY <1>3, <1>5

\* A verified node was passed by a quorum of independent bots on the cycle it is
\* judged by.
THEOREM VerifiedNodesHaveQuorum == SpecR => []VerifiedByQuorum
<1>1. RInv => VerifiedByQuorum
  <2> SUFFICES ASSUME RInv, NEW n \in view.verified
               PROVE  LET votes == {v \in Acting(chain) :
                                       /\ chain[v].targetid \in CycleSubmissions(n)
                                       /\ chain[v].verdict = "pass" /\ v \in view.walk.reached}
                          conflicted == {Publisher} \cup {chain[s].author : s \in CycleSubmissions(n)}
                      IN  Cardinality({chain[v].author : v \in votes} \ conflicted) >= Quorum
    BY DEF VerifiedByQuorum
  <2> DEFINE w == view.walk
             c == ActiveCycle(w, chain, n)
             passed == PassedBy(w.reached, w.cycles[c], chain)
             votes == {v \in Acting(chain) : /\ chain[v].targetid \in ToSet(w.cycles[c].subs)
                                             /\ chain[v].verdict = "pass" /\ v \in w.reached}
             counted == {chain[v].author : v \in votes} \
                           ({Publisher} \cup {chain[s].author : s \in ToSet(w.cycles[c].subs)})
  <2>1. IsLog(chain) /\ WInv(w, chain, Len(chain)) /\ Len(chain) \in Nat
    BY ViewInv, Longer DEF RInv
  <2>2. c # NoPin /\ w.cycles[c].outcome = "verified"
    BY ViewInv DEF OwnVerified
  <2>3. c \in DOMAIN w.cycles
    BY <2>1, <2>2, ActiveCycleOf
  <2>4. passed \subseteq counted /\ IsFiniteSet(counted)
    BY <2>1, <2>3, PassedByVotes, ZenonT(60)
  <2>5. Cardinality(passed) >= Quorum
    BY <2>1, <2>2, <2>3 DEF WInv, Quorate
  <2> HIDE DEF passed, counted
  <2>6. Cardinality(counted) >= Quorum
    <3>1. Cardinality(passed) <= Cardinality(counted) /\ IsFiniteSet(passed)
      BY <2>4, FS_Subset
    <3>2. Cardinality(passed) \in Nat /\ Cardinality(counted) \in Nat
      BY <2>4, <3>1, FS_CardinalityType
    <3> QED
      BY <2>5, <3>1, <3>2, WalkAssumption
  <2> QED
    BY <2>6 DEF counted, CycleSubmissions
<1> QED
  BY <1>1, ReplayInvariant, PTL

\* The votes shown as counted for a node under review are those the quorum is
\* measured by.
THEOREM ShownVotesAreCounted == SpecR => []ShownVotesAgree
<1>1. RInv => ShownVotesAgree
  <2> SUFFICES ASSUME RInv, NEW n \in Nodes, view.walk.holder[n] \in DOMAIN view.walk.cycles
               PROVE  view.walk.voters[n] =
                         {chain[v].author : v \in {u \in Ballots(chain) :
                            /\ chain[u].targetid \in CycleSubmissions(n)
                            /\ chain[u].verdict = "pass"
                            /\ Disposition(view.walk, chain, u) = "counted"}}
    BY DEF ShownVotesAgree
  <2> DEFINE w == view.walk
             c == w.holder[n]
             subs == ToSet(w.cycles[c].subs)
  <2>1. IsLog(chain) /\ WInv(w, chain, Len(chain)) /\ Len(chain) \in Nat
    BY ViewInv, Longer DEF RInv
  <2>2. CycleSubmissions(n) = subs
    BY <2>1, HolderIsActive DEF CycleSubmissions
  <2>3. w.voters[n] = PassedBy(w.reached, w.cycles[c], chain)
    BY <2>1 DEF WInv, Voters
  <2>4. w.reached \subseteq Acting(chain)
    BY <2>1 DEF WInv, Met, MetOf
  <2> HIDE DEF w, c
  <2>5. ASSUME NEW u
        PROVE  (u \in w.reached /\ chain[u].targetid \in subs /\ Passing(chain, u))
               <=> (/\ u \in Ballots(chain) /\ chain[u].targetid \in subs
                    /\ chain[u].verdict = "pass" /\ Disposition(w, chain, u) = "counted")
    <3>1. Acting(chain) \subseteq Ballots(chain)
          /\ \A v \in Acting(chain) : ~Malformed(chain, v) /\ ~BarredByRoster(chain, v)
      BY DEF Acting, ValidBallots
    <3>2. chain[u].verdict = "pass" =>
             (Disposition(w, chain, u) = "counted" <=>
                 /\ ~Malformed(chain, u) /\ ~BarredByRoster(chain, u) /\ u \in Acting(chain)
                 /\ u \in w.reached /\ Independent(chain, u))
      BY DEF Disposition, Independent
    <3> QED
      BY <2>4, <3>1, <3>2 DEF Passing
  <2> QED
    BY <2>2, <2>3, <2>5 DEF PassedBy, w
<1> QED
  BY <1>1, ReplayInvariant, PTL

-----------------------------------------------------------------------------
(* Nodes that were claimed are frozen.                                     *)

ClaimsOf(log, n, last) == {c \in Of("claim", log) : log[c].node = n /\ c <= last}

\* The first claim of a node in the tree is the first there is.
FirstInv(w, log, inTree, last) ==
    /\ w.first \in [Nodes -> 0 .. last]
    /\ \A n \in Nodes :
          /\ w.first[n] # NoPin => w.first[n] \in ClaimsOf(log, n, last)
          /\ w.holder[n] # NoPin => w.first[n] # NoPin
          /\ n \in inTree => \A c \in ClaimsOf(log, n, last) :
                w.first[n] # NoPin /\ w.first[n] <= c

\* No event but a claim gives a node to anyone.
LEMMA FirstKept ==
    ASSUME NEW log, IsLog(log), NEW inTree, NEW p \in 1 .. Len(log), log[p].path # "claim",
           Refers(log), NEW w, WInv(w, log, p-1)
    PROVE  LET v == WalkStep(w, log, inTree, Acting(log), p)
           IN  v.first = w.first /\ \A n \in Nodes : v.holder[n] \in {w.holder[n], NoPin}
<1>1. Shape(w) /\ w.holder \in [Nodes -> 0 .. p-1]
  BY DEF WInv, Holders
<1> DEFINE v == WalkStep(w, log, inTree, Acting(log), p)
           kept(u) == u.first = w.first /\ \A n \in Nodes : u.holder[n] \in {w.holder[n], NoPin}
<1>2. \/ v = w
      \/ p \in Acting(log) /\ v = AfterVote(w, log, p)
      \/ v = AfterRelease(w, log, p)
      \/ v = AfterSubmission(w, log, p)
  BY DEF WalkStep
<1> HIDE DEF v
<1>3. ASSUME NEW u, Shape(u), u.first = w.first, u.holder = w.holder, NEW n, NEW why
      PROVE  kept(Vacated(u, n, why))
  <2>1. LET x == Vacated(u, n, why)
        IN  x.first = u.first /\ x.holder = [u.holder EXCEPT ![n] = NoPin]
    BY <1>3 DEF Vacated, Shape
  <2> QED
    BY <1>1, <1>3, <2>1
<1>4. kept(w)
  OBVIOUS
<1>5. kept(AfterRelease(w, log, p))
  <2> HIDE DEF kept
  <2> QED
    BY <1>1, <1>3, <1>4 DEF AfterRelease
<1>6. kept(AfterSubmission(w, log, p))
  <2> DEFINE claim == log[p].claimid
             opened == [w EXCEPT !.cycles = [c \in DOMAIN @ \cup {claim} |->
                           IF c = claim THEN [subs |-> <<p>>, outcome |-> "open"] ELSE @[c]]]
             appended == [w EXCEPT !.cycles[claim].subs = Append(@, p)]
  <2>1. kept(opened) /\ kept(appended)
    BY <1>1 DEF Shape
  <2> HIDE DEF opened, appended, kept
  <2>2. AfterSubmission(w, log, p) \in {w, opened, appended}
    BY DEF AfterSubmission, opened, appended
  <2> QED
    BY <1>4, <2>1, <2>2
<1>7. kept(AfterVote(w, log, p))
  <2> DEFINE n == log[log[p].targetid].node
             c == w.holder[n]
             met == [w EXCEPT !.reached = @ \cup {p}]
             ended == [met EXCEPT !.cycles[c].outcome = "fail_rejected",
                                  !.approved = @ \ {Effective(met, c)}]
             counted == [met EXCEPT !.voters[n] = met.voters[n] \cup {log[p].author}]
             verified == [counted EXCEPT !.cycles[c].outcome = "verified",
                                         !.approved = @ \cup {log[p].targetid}]
  <2>1. Shape(met) /\ met.first = w.first /\ met.holder = w.holder
    BY <1>1 DEF Shape
  <2> HIDE DEF met
  <2>2. /\ Shape(ended) /\ ended.first = w.first /\ ended.holder = w.holder
        /\ Shape(counted) /\ counted.first = w.first /\ counted.holder = w.holder
    BY <2>1 DEF Shape
  <2> HIDE DEF ended, counted
  <2>3. Shape(verified) /\ verified.first = w.first /\ verified.holder = w.holder
    BY <2>2 DEF Shape
  <2>4. kept(met) /\ kept(counted) /\ kept(verified)
    BY <2>1, <2>2, <2>3
  <2>5. kept(Vacated(ended, n, "rejected"))
    BY <2>2, <1>3
  <2> HIDE DEF verified, kept
  <2>6. Passed(met, log, p, n, c) \in {met, counted, verified}
    BY DEF Passed, counted, verified
  <2>7. Failed(met, n, c) = Vacated(ended, n, "rejected")
    BY DEF Failed, ended
  <2>8. AfterVote(w, log, p) \in {w, Failed(met, n, c), Passed(met, log, p, n, c), met}
    BY DEF AfterVote, met
  <2> QED
    BY <1>4, <2>4, <2>5, <2>6, <2>7, <2>8
<1> QED
  BY <1>2, <1>4, <1>5, <1>6, <1>7 DEF v

\* A step keeps the first claims of the nodes in the tree.
LEMMA FirstStep ==
    ASSUME NEW log, IsLog(log), Refers(log), NEW inTree, NEW p \in 1 .. Len(log),
           NEW w, WInv(w, log, p-1), FirstInv(w, log, inTree, p-1)
    PROVE  FirstInv(WalkStep(w, log, inTree, Acting(log), p), log, inTree, p)
<1> DEFINE v == WalkStep(w, log, inTree, Acting(log), p)
<1>1. ASSUME NEW n, ~(p \in Of("claim", log) /\ log[p].node = n)
      PROVE  ClaimsOf(log, n, p) = ClaimsOf(log, n, p-1)
  BY <1>1 DEF ClaimsOf, Of, IsLog
<1>2. w.first \in [Nodes -> 0 .. p]
  BY DEF FirstInv
<1>3. CASE log[p].path # "claim"
  <2>1. v.first = w.first /\ \A n \in Nodes : v.holder[n] \in {w.holder[n], NoPin}
    BY <1>3, FirstKept
  <2>2. \A n : ClaimsOf(log, n, p) = ClaimsOf(log, n, p-1)
    BY <1>1, <1>3 DEF Of
  <2> HIDE DEF v
  <2> QED
    BY <1>2, <2>1, <2>2 DEF FirstInv, v
<1>4. CASE log[p].path = "claim"
  <2> DEFINE n == log[p].node
  <2>1. p \in Of("claim", log) /\ n \in Nodes
    BY <1>4 DEF Of, IsLog, Refers
  <2>2. ClaimsOf(log, n, p) = ClaimsOf(log, n, p-1) \cup {p}
    BY <2>1 DEF ClaimsOf, Of, IsLog
  <2>3. \A m \in Nodes \ {n} : ClaimsOf(log, m, p) = ClaimsOf(log, m, p-1)
    BY <1>1
  <2>4. v = w \/ (n \in inTree /\ v = AfterClaim(w, log, p))
    BY <1>4 DEF WalkStep
  <2>5. n \notin inTree => v = w
    BY <1>4 DEF WalkStep
  <2>6. CASE v = w /\ (n \notin inTree \/ w.holder[n] # NoPin)
    <3>1. FirstInv(w, log, inTree, p)
      <4> SUFFICES ASSUME NEW m \in Nodes
                   PROVE  /\ w.first[m] # NoPin => w.first[m] \in ClaimsOf(log, m, p)
                          /\ w.holder[m] # NoPin => w.first[m] # NoPin
                          /\ m \in inTree => \A c \in ClaimsOf(log, m, p) :
                                w.first[m] # NoPin /\ w.first[m] <= c
        BY <1>2 DEF FirstInv
      <4>1. CASE m # n
        BY <2>3, <4>1 DEF FirstInv
      <4>2. CASE m = n
        BY <2>2, <2>6, <4>2 DEF FirstInv
      <4> QED
        BY <4>1, <4>2
    <3> QED
      BY <2>6, <3>1
  <2>7. CASE n \in inTree /\ w.holder[n] = NoPin
    <3>1. /\ v.holder = [w.holder EXCEPT ![n] = p]
          /\ v.first = [w.first EXCEPT ![n] = IF @ = NoPin THEN p ELSE @]
      <4>1. v = [w EXCEPT !.holder[n] = p, !.first[n] = IF @ = NoPin THEN p ELSE @,
                          !.outcome[n] = "none"]
        BY <1>4, <2>7 DEF WalkStep, AfterClaim
      <4> HIDE DEF v
      <4> QED
        BY <4>1 DEF WInv, Shape
    <3>2. w.holder \in [Nodes -> 0 .. p-1]
      BY DEF WInv, Holders
    <3> HIDE DEF v
    <3>3. v.first \in [Nodes -> 0 .. p]
      <4>1. (IF w.first[n] = NoPin THEN p ELSE w.first[n]) \in 0 .. p
        BY <1>2, <2>1
      <4> QED
        BY <1>2, <3>1, <4>1
    <3> SUFFICES ASSUME NEW m \in Nodes
                 PROVE  /\ v.first[m] # NoPin => v.first[m] \in ClaimsOf(log, m, p)
                        /\ v.holder[m] # NoPin => v.first[m] # NoPin
                        /\ m \in inTree => \A c \in ClaimsOf(log, m, p) :
                              v.first[m] # NoPin /\ v.first[m] <= c
      BY <3>3 DEF FirstInv, v
    <3>4. CASE m # n
      <4>1. v.first[m] = w.first[m] /\ v.holder[m] = w.holder[m]
        BY <1>2, <3>1, <3>2, <3>4
      <4> QED
        BY <2>3, <3>4, <4>1 DEF FirstInv
    <3>5. CASE m = n
      <4>1. v.first[n] = IF w.first[n] = NoPin THEN p ELSE w.first[n]
        BY <1>2, <2>1, <3>1
      <4>2. w.first[n] = NoPin => ClaimsOf(log, n, p-1) = {}
        BY <2>1, <2>7 DEF FirstInv
      <4>3. w.first[n] # NoPin => w.first[n] \in ClaimsOf(log, n, p-1) /\ w.first[n] <= p-1
        BY <2>1 DEF FirstInv, ClaimsOf
      <4>4. \A c \in ClaimsOf(log, n, p-1) : w.first[n] # NoPin /\ w.first[n] <= c
        BY <2>1, <2>7 DEF FirstInv
      <4>5. CASE w.first[n] = NoPin
        <5>1. v.first[n] = p /\ p # NoPin /\ ClaimsOf(log, n, p) = {p}
          BY <2>2, <4>1, <4>2, <4>5 DEF NoPin
        <5> QED
          BY <3>5, <5>1
      <4>6. CASE w.first[n] # NoPin
        <5>1. v.first[n] = w.first[n] /\ v.first[n] \in ClaimsOf(log, n, p) /\ v.first[n] <= p
          <6>1. w.first[n] \in 0 .. p
            BY <1>2, <2>1
          <6>2. v.first[n] = w.first[n]
            BY <4>1, <4>6
          <6> QED
            BY <2>2, <4>3, <4>6, <6>1, <6>2
        <5>2. \A c \in ClaimsOf(log, n, p) : v.first[n] <= c
          BY <2>2, <4>4, <5>1
        <5> QED
          BY <3>5, <4>6, <5>1, <5>2
      <4> QED
        BY <4>5, <4>6
    <3> QED
      BY <3>4, <3>5
  <2> QED
    BY <2>4, <2>5, <2>6, <2>7 DEF AfterClaim
<1> QED
  BY <1>3, <1>4

\* So the walk, with what expired, knows them.
LEMMA WalkFirst ==
    ASSUME NEW log, IsLog(log), Refers(log), NEW inTree
    PROVE  FirstInv(Expired(Walk(log, inTree), log), log, inTree, Len(log))
<1> DEFINE to == WalkTo(log, inTree)
           good == {p \in 0 .. Len(log) : WInv(to[p], log, p) /\ FirstInv(to[p], log, inTree, p)}
<1>1. 0 \in good
  <2>1. \A n : ClaimsOf(log, n, 0) = {}
    BY DEF ClaimsOf, Of, IsLog
  <2>2. /\ EmptyWalk.first = [n \in Nodes |-> NoPin]
        /\ EmptyWalk.holder = [n \in Nodes |-> NoPin]
    BY DEF EmptyWalk
  <2>3. FirstInv(EmptyWalk, log, inTree, 0)
    BY <2>1, <2>2 DEF FirstInv, NoPin
  <2> QED
    BY <2>3, EmptyWalkInv, WalkUnfolds DEF IsLog
<1>2. ASSUME NEW p \in 1 .. Len(log), p-1 \in good PROVE p \in good
  <2>1. to[p] = WalkStep(to[p-1], log, inTree, Acting(log), p)
    BY WalkUnfolds DEF IsLog
  <2> QED
    BY <1>2, <2>1, WalkStepInv, FirstStep DEF IsLog
<1>3. 0 .. Len(log) \subseteq good
  <2> HIDE DEF good
  <2> QED
    BY <1>1, <1>2, PlaceInduction DEF IsLog
<1> DEFINE w == Walk(log, inTree)
           v == Expired(w, log)
<1>4. WInv(w, log, Len(log)) /\ FirstInv(w, log, inTree, Len(log))
  BY <1>3 DEF Walk, IsLog
<1> HIDE DEF w
<1>5. v.first = w.first /\ \A n \in Nodes : v.holder[n] \in {w.holder[n], NoPin}
  <2> DEFINE gone == {n \in Nodes : ClaimExpired(w, log, n)} \cup
                     {n \in Nodes : ReviewExpired(w, log, n)}
  <2>1. v.first = w.first /\ v.holder = [n \in Nodes |-> IF n \in gone THEN NoPin ELSE w.holder[n]]
    BY <1>4 DEF Expired, WInv, Shape
  <2> HIDE DEF v, gone
  <2> QED
    BY <2>1
<1> HIDE DEF v
<1> QED
  BY <1>4, <1>5 DEF FirstInv, w, v

\* A node keeps its place, its weight and its title from one tree to another.
Keeps(n, before, after) == n \in DOMAIN before => n \in DOMAIN after /\ after[n] = before[n]

\* No operation touches a node that is frozen.
LEMMA OperateKeeps ==
    ASSUME NEW log, NEW w, NEW p, NEW before, NEW tree, NEW op,
           NEW t \in Operate(log, w, p, before, tree, op), NEW n, Frozen(w, n, p)
    PROVE  Keeps(n, tree, t)
<1>1. CASE /\ op.op = "add_node" /\ op.node \notin DOMAIN tree
           /\ t = [m \in DOMAIN tree \cup {op.node} |->
                     IF m \in DOMAIN tree THEN tree[m]
                     ELSE [parent |-> op.parent, weight |-> op.weight, title |-> "new"]]
  BY <1>1 DEF Keeps
<1>2. CASE /\ op.op = "remove_node" /\ op.node \in DOMAIN tree
           /\ \A m \in Subtree(tree, op.node) : ~Frozen(w, m, p)
           /\ t = [m \in DOMAIN tree \ {op.node} |-> tree[m]]
  <2>1. op.node \in Subtree(tree, op.node)
    BY <1>2 DEF Subtree
  <2> QED
    BY <1>2, <2>1 DEF Keeps
<1>3. CASE /\ op.op = "reweight" /\ ~Frozen(w, op.node, p)
           /\ t = [tree EXCEPT ![op.node].weight = op.weight]
  BY <1>3 DEF Keeps
<1>4. CASE /\ op.op = "retitle" /\ ~Frozen(w, op.node, p)
           /\ t = [tree EXCEPT ![op.node].title = "retitled"]
  BY <1>4 DEF Keeps
<1> QED
  BY <1>1, <1>2, <1>3, <1>4 DEF Operate

\* Nor do all operations of an amendment together.
LEMMA OperatedKeeps ==
    ASSUME NEW log, NEW w, NEW p, NEW tree, NEW ops \in Amendments,
           NEW t \in Operated(log, w, p, tree, ops), NEW n, Frozen(w, n, p)
    PROVE  Keeps(n, tree, t)
<1> DEFINE to == OperatedTo(log, w, p, tree, ops)
           good == {i \in 0 .. Len(ops) : \A u \in to[i] : Keeps(n, tree, u)}
<1>1. Len(ops) \in Nat
  BY ReplayAssumption
<1>2. 0 \in good
  <2>1. to[0] = {tree}
    BY <1>1, OperatedUnfolds
  <2>2. Keeps(n, tree, tree)
    BY DEF Keeps
  <2> HIDE DEF to
  <2> QED
    BY <1>1, <2>1, <2>2
<1>3. ASSUME NEW i \in 1 .. Len(ops), i-1 \in good PROVE i \in good
  <2> SUFFICES ASSUME NEW u \in to[i] PROVE Keeps(n, tree, u)
    OBVIOUS
  <2>1. to[i] = OperateEach(log, w, p, tree, to[i-1], ops[i])
    BY <1>1, OperatedUnfolds
  <2> HIDE DEF to
  <2>2. PICK x \in to[i-1] : u \in Operate(log, w, p, tree, x, ops[i])
    BY <2>1 DEF OperateEach
  <2>3. Keeps(n, tree, x)
    BY <1>3
  <2>4. Keeps(n, x, u)
    BY <2>2, OperateKeeps
  <2> QED
    BY <2>3, <2>4 DEF Keeps
<1>4. 0 .. Len(ops) \subseteq good
  <2> HIDE DEF good
  <2> QED
    BY <1>1, <1>2, <1>3, PlaceInduction
<1> QED
  BY <1>1, <1>4 DEF Operated

\* Nor does an amendment, taken or not.
LEMMA AmendKeeps ==
    ASSUME NEW log, NEW w, NEW f, NEW p, log[p].ops \in Amendments, NEW n, Frozen(w, n, p)
    PROVE  Keeps(n, f.tree, Amend(log, w, f, p).tree)
<1> DEFINE g == Amend(log, w, f, p)
           trees == {t \in Operated(log, w, p, f.tree, log[p].ops) : Sound(t)}
<1>1. g = f \/ (trees # {} /\ g = [tree |-> CHOOSE t \in trees : TRUE, head |-> p])
  BY DEF Amend
<1> HIDE DEF g
<1>2. CASE g = f
  BY <1>2 DEF Keeps, g
<1>3. CASE trees # {} /\ g = [tree |-> CHOOSE t \in trees : TRUE, head |-> p]
  <2>1. g.tree \in Operated(log, w, p, f.tree, log[p].ops)
    <3>1. g.tree = CHOOSE t \in trees : TRUE
      BY <1>3
    <3> HIDE DEF trees
    <3>2. g.tree \in trees
      BY <1>3, <3>1, Zenon
    <3> QED
      BY <3>2 DEF trees
  <2> QED
    BY <2>1, OperatedKeeps DEF g
<1> QED
  BY <1>1, <1>2, <1>3

\* Amendments keep a node from the place on from which it is frozen.
LEMMA AmendedKeeps ==
    ASSUME NEW log, IsLog(log), Refers(log), NEW w, NEW n, NEW q \in 0 .. Len(log),
           \A p \in q+1 .. Len(log) : log[p].path = "amend" => Frozen(w, n, p)
    PROVE  Keeps(n, AmendedTo(log, w)[q].tree, AmendedTo(log, w)[Len(log)].tree)
<1> DEFINE to == AmendedTo(log, w)
<1>1. Len(log) \in Nat /\ DOMAIN log = 1 .. Len(log)
  BY DEF IsLog
<1>2. /\ to[0] = [tree |-> InitialTree, head |-> TreePin]
      /\ \A p \in 1 .. Len(log) : to[p] = IF log[p].path = "amend"
                                           THEN Amend(log, w, to[p-1], p) ELSE to[p-1]
  BY <1>1, AmendedUnfolds
<1>3. \A p \in 1 .. Len(log) : log[p].path = "amend" => log[p].ops \in Amendments
  BY <1>1 DEF Refers
<1> HIDE DEF to
<1> DEFINE good == {p \in 0 .. Len(log) : p >= q => Keeps(n, to[q].tree, to[p].tree)}
<1>4. 0 \in good
  BY <1>1 DEF Keeps
<1>5. ASSUME NEW p \in 1 .. Len(log), p-1 \in good PROVE p \in good
  <2> SUFFICES ASSUME p >= q PROVE Keeps(n, to[q].tree, to[p].tree)
    OBVIOUS
  <2>1. CASE p = q
    BY <2>1 DEF Keeps
  <2>2. CASE p # q
    <3>1. p-1 >= q /\ p \in q+1 .. Len(log)
      BY <2>2
    <3>2. Keeps(n, to[q].tree, to[p-1].tree)
      BY <1>5, <3>1
    <3>3. Keeps(n, to[p-1].tree, to[p].tree)
      <4>1. CASE log[p].path = "amend"
        BY <1>2, <1>3, <3>1, <4>1, AmendKeeps
      <4>2. CASE log[p].path # "amend"
        BY <1>2, <4>2 DEF Keeps
      <4> QED
        BY <4>1, <4>2
    <3> QED
      BY <3>2, <3>3 DEF Keeps
  <2> QED
    BY <2>1, <2>2
<1>6. 0 .. Len(log) \subseteq good
  <2> HIDE DEF good
  <2> QED
    BY <1>1, <1>4, <1>5, PlaceInduction
<1> QED
  BY <1>1, <1>6 DEF to

\* A node that was claimed keeps its place, the weight and the title it had then.
THEOREM ClaimedNodesAreFrozen == SpecR => []FrozenNodesKept
<1>1. RInv => FrozenNodesKept
  <2> SUFFICES ASSUME RInv, NEW q \in Of("claim", chain)
               PROVE  LET n == chain[q].node
                          then == AmendedTo(chain, FirstPass(chain))[q-1].tree
                      IN  n \in DOMAIN then => n \in DOMAIN view.tree /\ view.tree[n] = then[n]
    BY DEF FrozenNodesKept
  <2> DEFINE n == chain[q].node
             w == FirstPass(chain)
             to == AmendedTo(chain, w)
             tree == to[Len(chain)].tree
  <2>1. IsLog(chain) /\ Refers(chain) /\ Len(chain) \in Nat
    BY Longer DEF RInv, IsLog
  <2>2. view.tree = tree
    BY DEF RInv, Replay
  <2>3. q \in 1 .. Len(chain) /\ n \in Nodes /\ q \in ClaimsOf(chain, n, Len(chain))
    BY <2>1 DEF IsLog, Of, Refers, ClaimsOf
  <2>4. FirstInv(w, chain, Nodes, Len(chain))
    BY <2>1, WalkFirst DEF FirstPass
  <2> HIDE DEF w, tree, n
  <2>5. w.first[n] # NoPin /\ w.first[n] <= q /\ w.first[n] \in Int
    BY <2>3, <2>4 DEF FirstInv
  <2>6. q-1 \in 0 .. Len(chain) /\ \A p \in (q-1)+1 .. Len(chain) :
           chain[p].path = "amend" => Frozen(w, n, p)
    <3> SUFFICES ASSUME NEW p \in q .. Len(chain), chain[p].path = "amend"
                 PROVE  Frozen(w, n, p)
      BY <2>3
    <3>1. p # q
      BY DEF Of
    <3> QED
      BY <2>3, <2>5, <3>1 DEF Frozen
  <2>7. Keeps(n, to[q-1].tree, tree)
    <3> HIDE DEF to
    <3> QED
      BY <2>1, <2>6, AmendedKeeps DEF to, tree
  <2> QED
    BY <2>2, <2>7 DEF Keeps, n, w
<1> QED
  BY <1>1, ReplayInvariant, PTL

-----------------------------------------------------------------------------
(* Sums over finite sets.                                                  *)

\* Induction over the subsets of a finite set, with a set for the predicate: every
\* set is in it whose proper subsets are.
LEMMA SubsetInduction ==
    ASSUME NEW S, IsFiniteSet(S), NEW G,
           \A T \in SUBSET S : (\A U \in SUBSET T : U # T => U \in G) => T \in G
    PROVE  SUBSET S \subseteq G
<1> DEFINE size == Cardinality(S)
           good == {k \in 0 .. size : \A T \in SUBSET S : Cardinality(T) <= k => T \in G}
<1>1. size \in Nat /\ \A T \in SUBSET S : IsFiniteSet(T) /\ Cardinality(T) \in 0 .. size
  BY FS_CardinalityType, FS_Subset
<1>2. ASSUME NEW T \in SUBSET S, NEW U \in SUBSET T, U # T
      PROVE  Cardinality(U) < Cardinality(T) /\ U \in SUBSET S
  <2>1. IsFiniteSet(T) /\ Cardinality(T) \in Nat /\ U \in SUBSET S /\ Cardinality(U) \in Nat
    BY <1>1
  <2>2. Cardinality(U) <= Cardinality(T) /\ Cardinality(U) # Cardinality(T)
    BY <1>2, <2>1, FS_Subset
  <2> QED
    BY <2>1, <2>2
<1> HIDE DEF size
<1>3. 0 \in good
  <2> SUFFICES ASSUME NEW T \in SUBSET S, Cardinality(T) <= 0 PROVE T \in G
    BY <1>1
  <2>1. \A U \in SUBSET T : U # T => Cardinality(U) < 0
    BY <1>1, <1>2
  <2> QED
    BY <1>1, <1>2, <2>1
<1>4. ASSUME NEW k \in 1 .. size, k-1 \in good PROVE k \in good
  <2> SUFFICES ASSUME NEW T \in SUBSET S, Cardinality(T) <= k PROVE T \in G
    OBVIOUS
  <2>1. ASSUME NEW U \in SUBSET T, U # T PROVE U \in G
    <3>1. Cardinality(U) <= k-1 /\ U \in SUBSET S
      BY <1>1, <1>2, <2>1
    <3> QED
      BY <1>4, <3>1
  <2> QED
    BY <2>1
<1>5. 0 .. size \subseteq good
  <2> HIDE DEF good
  <2> QED
    BY <1>1, <1>3, <1>4, PlaceInduction
<1>6. size \in good
  BY <1>1, <1>5
<1> QED
  BY <1>1, <1>6

One(s) == CHOOSE x \in s : TRUE

\* A sum takes one element after the other.
SumStep(f, g, s) == IF s = {} THEN 0 ELSE f[One(s)] + g[s \ {One(s)}]

\* The sum of the community modules is the value of a function on the subsets.
LEMMA SumDefined ==
    ASSUME NEW f, NEW S
    PROVE  SumFunctionOnSet(f, S) = (CHOOSE g : g = [s \in SUBSET S |-> SumStep(f, g, s)])[S]
BY Zenon DEF SumFunctionOnSet, FoldFunctionOnSet, MapThenFoldSet, SumStep, One

Sums(g, f, S) == g = [s \in SUBSET S |-> SumStep(f, g, s)]

\* There is one way to sum over all the subsets of a finite set.
LEMMA SumsUnique ==
    ASSUME NEW f, NEW S, IsFiniteSet(S), NEW g, Sums(g, f, S), NEW h, Sums(h, f, S)
    PROVE  g = h
<1> DEFINE same == {T \in SUBSET S : g[T] = h[T]}
<1>1. \A s \in SUBSET S : g[s] = SumStep(f, g, s) /\ h[s] = SumStep(f, h, s)
  <2> HIDE DEF SumStep
  <2> QED
    BY DEF Sums
<1>2. ASSUME NEW T \in SUBSET S, \A U \in SUBSET T : U # T => U \in same
      PROVE  T \in same
  <2>1. CASE T = {}
    BY <1>1, <2>1 DEF SumStep
  <2>2. CASE T # {}
    <3>1. One(T) \in T
      BY <2>2 DEF One
    <3>2. g[T \ {One(T)}] = h[T \ {One(T)}]
      BY <1>2, <3>1
    <3> QED
      BY <1>1, <2>2, <3>2 DEF SumStep
  <2> QED
    BY <2>1, <2>2
<1>3. SUBSET S \subseteq same
  <2> HIDE DEF same
  <2> QED
    BY <1>2, SubsetInduction
<1>4. \A s \in SUBSET S : SumStep(f, g, s) = SumStep(f, h, s)
  <2> HIDE DEF SumStep
  <2> QED
    BY <1>1, <1>3
<1> QED
  <2>1. [s \in SUBSET S |-> SumStep(f, g, s)] = [s \in SUBSET S |-> SumStep(f, h, s)]
    BY <1>4
  <2> QED
    BY <2>1 DEF Sums

\* The sum over a set is that over the rest of it and one of its elements more.
LEMMA SumUnfolds ==
    ASSUME NEW f, NEW S, IsFiniteSet(S)
    PROVE  SumFunctionOnSet(f, S) =
              IF S = {} THEN 0 ELSE f[One(S)] + SumFunctionOnSet(f, S \ {One(S)})
<1> DEFINE sum(T) == SumFunctionOnSet(f, T)
           next(T) == IF T = {} THEN 0 ELSE f[One(T)] + sum(T \ {One(T)})
           good == {T \in SUBSET S : sum(T) = next(T)}
<1> HIDE DEF sum
<1>1. ASSUME NEW T \in SUBSET S, \A U \in SUBSET T : U # T => U \in good
      PROVE  T \in good
  <2> DEFINE g == [s \in SUBSET T |-> IF s = T THEN next(T) ELSE sum(s)]
             h == CHOOSE x : Sums(x, f, T)
  <2>1. ASSUME NEW s \in SUBSET T PROVE g[s] = SumStep(f, g, s)
    <3>1. g[s] = next(s)
      <4> HIDE DEF next
      <4> QED
        BY <1>1, <2>1
    <3>2. s # {} => One(s) \in s
      BY DEF One
    <3>3. s # {} => g[s \ {One(s)}] = sum(s \ {One(s)})
      BY <3>2
    <3> HIDE DEF g
    <3> QED
      BY <3>1, <3>3 DEF SumStep
  <2>2. Sums(g, f, T)
    <3>1. g = [s \in SUBSET T |-> g[s]]
      OBVIOUS
    <3> HIDE DEF g
    <3> QED
      BY <2>1, <3>1 DEF Sums
  <2>3. Sums(h, f, T)
    <3> HIDE DEF g
    <3> QED
      BY <2>2, Zenon
  <2>4. sum(T) = h[T]
    BY SumDefined, Zenon DEF sum, Sums
  <2>5. IsFiniteSet(T)
    BY FS_Subset
  <2>6. g[T] = next(T)
    <3> HIDE DEF next
    <3> QED
      OBVIOUS
  <2> HIDE DEF g, h, next
  <2>7. sum(T) = next(T)
    BY <2>2, <2>3, <2>4, <2>5, <2>6, SumsUnique
  <2> QED
    BY <2>7
<1>2. SUBSET S \subseteq good
  <2> HIDE DEF good
  <2> QED
    BY <1>1, SubsetInduction
<1> QED
  <2>1. S \in good
    BY <1>2
  <2> QED
    BY <2>1 DEF sum

\* Induction over a finite set, element by element.
LEMMA ElementInduction ==
    ASSUME NEW S, IsFiniteSet(S), NEW G, {} \in G,
           \A T \in SUBSET S : \A x \in S \ T : T \in G => T \cup {x} \in G
    PROVE  S \in G
<1>1. ASSUME NEW T \in SUBSET S, \A U \in SUBSET T : U # T => U \in G
      PROVE  T \in G
  <2>1. CASE T # {}
    <3>1. PICK x \in T : TRUE
      BY <2>1
    <3>2. T \ {x} \in SUBSET T /\ T \ {x} # T /\ T = (T \ {x}) \cup {x}
      OBVIOUS
    <3>3. T \ {x} \in SUBSET S /\ x \in S \ (T \ {x})
      OBVIOUS
    <3> QED
      BY <1>1, <3>2, <3>3
  <2> QED
    BY <2>1
<1>2. SUBSET S \subseteq G
  BY <1>1, SubsetInduction
<1> QED
  BY <1>2

Naturals(f, S) == \A x \in S : f[x] \in Nat

\* Sums of naturals are naturals, and any element may be taken first.
LEMMA SumAny ==
    ASSUME NEW f, NEW S, IsFiniteSet(S), Naturals(f, S)
    PROVE  /\ SumFunctionOnSet(f, S) \in Nat
           /\ \A y \in S : SumFunctionOnSet(f, S) = f[y] + SumFunctionOnSet(f, S \ {y})
<1> DEFINE sum(T) == SumFunctionOnSet(f, T)
           good == {T \in SUBSET S : sum(T) \in Nat /\ \A y \in T : sum(T) = f[y] + sum(T \ {y})}
<1>1. \A T \in SUBSET S : sum(T) = IF T = {} THEN 0 ELSE f[One(T)] + sum(T \ {One(T)})
  BY FS_Subset, SumUnfolds
<1>2. \A T \in SUBSET S : T # {} => One(T) \in T
  BY DEF One
<1> HIDE DEF sum
<1>3. ASSUME NEW T \in SUBSET S, \A U \in SUBSET T : U # T => U \in good
      PROVE  T \in good
  <2>1. CASE T = {}
    <3>1. sum(T) = 0
      BY <1>1, <2>1
    <3> QED
      BY <2>1, <3>1
  <2>2. CASE T # {}
    <3> DEFINE x == One(T)
               rest == T \ {x}
    <3>1. x \in T /\ rest \in good /\ f[x] \in Nat
      BY <1>2, <1>3, <2>2 DEF Naturals
    <3>2. sum(T) = f[x] + sum(rest)
      BY <1>1, <2>2
    <3> HIDE DEF x
    <3>3. ASSUME NEW y \in T, y # x PROVE sum(T) = f[y] + sum(T \ {y})
      <4> DEFINE both == T \ {x, y}
                 other == T \ {y}
      <4>1. rest \ {y} = both /\ other \ {x} = both
        OBVIOUS
      <4>2. sum(rest) = f[y] + sum(both)
        BY <3>1, <3>3, <4>1
      <4>3. other \in good /\ both \in good
        BY <1>3, <3>1, <3>3
      <4>4. sum(other) = f[x] + sum(both)
        BY <3>1, <3>3, <4>1, <4>3
      <4>5. f[y] \in Nat /\ sum(both) \in Nat
        BY <4>3 DEF Naturals
      <4> HIDE DEF both, other, rest
      <4>6. sum(T) = f[y] + sum(other)
        BY <3>1, <3>2, <4>2, <4>4, <4>5
      <4> QED
        BY <4>6 DEF other
    <3>4. sum(T) \in Nat
      BY <3>1, <3>2
    <3> QED
      BY <3>2, <3>3, <3>4
  <2> QED
    BY <2>1, <2>2
<1>4. S \in good
  <2> HIDE DEF good
  <2> QED
    BY <1>3, SubsetInduction
<1> QED
  BY <1>4 DEF sum

\* A sum with one element more.
LEMMA SumInsert ==
    ASSUME NEW f, NEW S, IsFiniteSet(S), Naturals(f, S), NEW T \in SUBSET S, NEW x \in S \ T
    PROVE  /\ SumFunctionOnSet(f, T) \in Nat /\ f[x] \in Nat
           /\ SumFunctionOnSet(f, T \cup {x}) = f[x] + SumFunctionOnSet(f, T)
<1>1. T \cup {x} \in SUBSET S /\ (T \cup {x}) \ {x} = T
  OBVIOUS
<1>2. IsFiniteSet(T) /\ IsFiniteSet(T \cup {x})
  BY <1>1, FS_Subset
<1>3. Naturals(f, T) /\ Naturals(f, T \cup {x}) /\ f[x] \in Nat
  BY DEF Naturals
<1> QED
  BY <1>1, <1>2, <1>3, SumAny

\* The sum over no element.
LEMMA SumEmpty ==
    ASSUME NEW f
    PROVE  SumFunctionOnSet(f, {}) = 0
BY FS_EmptySet, SumUnfolds

\* Sums of greater numbers are greater.
LEMMA SumLeq ==
    ASSUME NEW S, IsFiniteSet(S), NEW f, Naturals(f, S), NEW g, Naturals(g, S),
           \A x \in S : f[x] <= g[x]
    PROVE  SumFunctionOnSet(f, S) <= SumFunctionOnSet(g, S)
<1> DEFINE good == {T \in SUBSET S : SumFunctionOnSet(f, T) <= SumFunctionOnSet(g, T)}
<1>1. {} \in good
  BY SumEmpty
<1>2. ASSUME NEW T \in SUBSET S, NEW x \in S \ T, T \in good PROVE T \cup {x} \in good
  <2> DEFINE a == SumFunctionOnSet(f, T)
             b == SumFunctionOnSet(g, T)
  <2>1. /\ a \in Nat /\ f[x] \in Nat /\ SumFunctionOnSet(f, T \cup {x}) = f[x] + a
        /\ b \in Nat /\ g[x] \in Nat /\ SumFunctionOnSet(g, T \cup {x}) = g[x] + b
    BY SumInsert
  <2>2. f[x] <= g[x] /\ a <= b
    BY <1>2
  <2> HIDE DEF a, b
  <2> QED
    BY <2>1, <2>2
<1>3. S \in good
  <2> HIDE DEF good
  <2> QED
    BY <1>1, <1>2, ElementInduction
<1> QED
  BY <1>3

\* The sum of the sums of two functions.
LEMMA SumPlus ==
    ASSUME NEW S, IsFiniteSet(S), NEW f, Naturals(f, S), NEW g, Naturals(g, S),
           NEW h, \A x \in S : h[x] = f[x] + g[x]
    PROVE  SumFunctionOnSet(h, S) = SumFunctionOnSet(f, S) + SumFunctionOnSet(g, S)
<1> DEFINE good == {T \in SUBSET S : SumFunctionOnSet(h, T) =
                       SumFunctionOnSet(f, T) + SumFunctionOnSet(g, T)}
<1>0. Naturals(h, S)
  BY DEF Naturals
<1>1. {} \in good
  BY SumEmpty
<1>2. ASSUME NEW T \in SUBSET S, NEW x \in S \ T, T \in good PROVE T \cup {x} \in good
  <2> DEFINE a == SumFunctionOnSet(f, T)
             b == SumFunctionOnSet(g, T)
             c == SumFunctionOnSet(h, T)
  <2>1. /\ a \in Nat /\ f[x] \in Nat /\ SumFunctionOnSet(f, T \cup {x}) = f[x] + a
        /\ b \in Nat /\ g[x] \in Nat /\ SumFunctionOnSet(g, T \cup {x}) = g[x] + b
        /\ c \in Nat /\ h[x] \in Nat /\ SumFunctionOnSet(h, T \cup {x}) = h[x] + c
    BY <1>0, SumInsert, ZenonT(60)
  <2>2. h[x] = f[x] + g[x] /\ c = a + b
    BY <1>2
  <2> HIDE DEF a, b, c
  <2> QED
    BY <2>1, <2>2
<1>3. S \in good
  <2> HIDE DEF good
  <2> QED
    BY <1>1, <1>2, ElementInduction
<1> QED
  BY <1>3

\* A sum of which all terms but one are zero.
LEMMA SumAlone ==
    ASSUME NEW S, IsFiniteSet(S), NEW f, Naturals(f, S), NEW a, NEW k \in Nat,
           \A x \in S : IF x = a THEN f[x] <= k ELSE f[x] = 0
    PROVE  SumFunctionOnSet(f, S) <= k
<1> DEFINE sum(T) == SumFunctionOnSet(f, T)
           good == {T \in SUBSET S : sum(T) <= IF a \in T THEN k ELSE 0}
<1>1. {} \in good
  BY SumEmpty
<1>2. ASSUME NEW T \in SUBSET S, NEW x \in S \ T, T \in good PROVE T \cup {x} \in good
  <2>1. sum(T) \in Nat /\ f[x] \in Nat /\ sum(T \cup {x}) = f[x] + sum(T)
    BY SumInsert
  <2>2. IF x = a THEN f[x] <= k ELSE f[x] = 0
    OBVIOUS
  <2> HIDE DEF sum
  <2> QED
    BY <1>2, <2>1, <2>2
<1>3. S \in good
  <2> HIDE DEF good
  <2> QED
    BY <1>1, <1>2, ElementInduction
<1>4. sum(S) \in Nat
  BY SumAny
<1> HIDE DEF sum
<1> QED
  BY <1>3, <1>4 DEF sum

\* A sum that is not zero has a term that is not.
LEMMA SumPositive ==
    ASSUME NEW S, IsFiniteSet(S), NEW f, Naturals(f, S), SumFunctionOnSet(f, S) > 0
    PROVE  \E x \in S : f[x] > 0
<1> SUFFICES ASSUME \A x \in S : ~(f[x] > 0) PROVE FALSE
  OBVIOUS
<1>1. \A x \in S : f[x] = 0
  BY DEF Naturals
<1>2. SumFunctionOnSet(f, S) <= 0
  BY <1>1, SumAlone
<1>3. SumFunctionOnSet(f, S) \in Nat
  BY SumAny
<1> QED
  BY <1>2, <1>3

\* A part of a sum is not greater.
LEMMA SumSubset ==
    ASSUME NEW S, IsFiniteSet(S), NEW f, Naturals(f, S), NEW R \in SUBSET S
    PROVE  SumFunctionOnSet(f, R) <= SumFunctionOnSet(f, S)
<1> DEFINE sum(T) == SumFunctionOnSet(f, T)
           good == {T \in SUBSET (S \ R) : sum(R) <= sum(R \cup T)}
<1>1. {} \in good
  <2>1. IsFiniteSet(R) /\ Naturals(f, R)
    BY FS_Subset DEF Naturals
  <2>2. sum(R) \in Nat /\ R \cup {} = R
    BY <2>1, SumAny
  <2> HIDE DEF sum
  <2> QED
    BY <2>2
<1>2. ASSUME NEW T \in SUBSET (S \ R), NEW x \in (S \ R) \ T, T \in good PROVE T \cup {x} \in good
  <2> DEFINE Q == R \cup T
  <2>1. /\ Q \in SUBSET S /\ x \in S /\ x \notin Q
        /\ R \cup (T \cup {x}) = Q \cup {x} /\ T \cup {x} \in SUBSET (S \ R)
    OBVIOUS
  <2>2. sum(R) <= sum(Q)
    BY <1>2
  <2> HIDE DEF Q
  <2>3. sum(Q) \in Nat /\ f[x] \in Nat /\ sum(Q \cup {x}) = f[x] + sum(Q)
    BY <2>1, SumInsert, ZenonT(60)
  <2>4. IsFiniteSet(R) /\ Naturals(f, R)
    BY FS_Subset DEF Naturals
  <2>5. sum(R) \in Nat
    BY <2>4, SumAny
  <2> HIDE DEF sum
  <2>6. sum(R) <= sum(Q \cup {x})
    BY <2>2, <2>3, <2>5
  <2> QED
    BY <2>1, <2>6
<1>3. S \ R \in good
  <2>1. IsFiniteSet(S \ R)
    BY FS_Subset
  <2> HIDE DEF good
  <2> QED
    BY <1>1, <1>2, <2>1, ElementInduction
<1>4. R \cup (S \ R) = S
  OBVIOUS
<1> HIDE DEF sum
<1> QED
  BY <1>3, <1>4 DEF sum

\* Numbers in rows, each with its limit, and in columns, each with its total.
Grid(R, C, m, limit, column, total) ==
    /\ \A r \in R : Naturals(m[r], C) /\ SumFunctionOnSet(m[r], C) <= limit[r]
    /\ Naturals(limit, R)
    /\ \A c \in C : \A r \in R : column[c][r] = m[r][c]
    /\ \A c \in C : total[c] = SumFunctionOnSet(column[c], R)

\* What is handed out in rows, of which each has its limit, has the limit of all rows
\* together when it is taken in columns.
LEMMA SumGrid ==
    ASSUME NEW R, IsFiniteSet(R), NEW C, IsFiniteSet(C), NEW m, NEW limit, NEW column, NEW total,
           Grid(R, C, m, limit, column, total)
    PROVE  /\ SumFunctionOnSet(total, C) <= SumFunctionOnSet(limit, R)
           /\ SumFunctionOnSet(total, C) \in Nat /\ SumFunctionOnSet(limit, R) \in Nat
<1>0. /\ \A r \in R : Naturals(m[r], C) /\ SumFunctionOnSet(m[r], C) <= limit[r]
      /\ Naturals(limit, R)
      /\ \A c \in C : \A r \in R : column[c][r] = m[r][c]
      /\ \A c \in C : total[c] = SumFunctionOnSet(column[c], R)
  BY DEF Grid
<1> DEFINE part(T) == [c \in C |-> SumFunctionOnSet(column[c], T)]
           good == {T \in SUBSET R : SumFunctionOnSet(part(T), C) <= SumFunctionOnSet(limit, T)}
<1>1. ASSUME NEW c \in C PROVE Naturals(column[c], R)
  <2>1. \A r \in R : m[r][c] \in Nat
    BY <1>0 DEF Naturals
  <2>2. \A r \in R : column[c][r] = m[r][c]
    BY <1>0
  <2> QED
    BY <2>1, <2>2 DEF Naturals
<1>2. ASSUME NEW T \in SUBSET R PROVE Naturals(part(T), C)
  <2>1. ASSUME NEW c \in C PROVE SumFunctionOnSet(column[c], T) \in Nat
    <3>1. Naturals(column[c], T) /\ IsFiniteSet(T)
      BY <1>1, FS_Subset DEF Naturals
    <3> QED
      BY <3>1, SumAny
  <2> QED
    BY <2>1 DEF Naturals
<1>3. {} \in good
  <2>1. \A c \in C : part({})[c] = 0
    BY SumEmpty
  <2>2. Naturals(part({}), C)
    BY <1>2
  <2> HIDE DEF part
  <2>3. SumFunctionOnSet(part({}), C) <= 0
    BY <2>1, <2>2, SumAlone
  <2> QED
    BY <2>3, SumEmpty
<1>4. ASSUME NEW T \in SUBSET R, NEW r \in R \ T, T \in good PROVE T \cup {r} \in good
  <2>1. ASSUME NEW c \in C PROVE part(T \cup {r})[c] = m[r][c] + part(T)[c]
    <3>1. SumFunctionOnSet(column[c], T \cup {r}) = column[c][r] + SumFunctionOnSet(column[c], T)
      BY <1>1, SumInsert
    <3>2. column[c][r] = m[r][c]
      BY <1>0
    <3> QED
      BY <3>1, <3>2
  <2>2. Naturals(part(T), C) /\ Naturals(m[r], C)
    BY <1>0, <1>2
  <2> DEFINE longer == part(T \cup {r})
             shorter == part(T)
             row == m[r]
  <2>3. SumFunctionOnSet(longer, C) = SumFunctionOnSet(row, C) + SumFunctionOnSet(shorter, C)
    <3>1. Naturals(shorter, C) /\ Naturals(row, C) /\ \A c \in C : longer[c] = row[c] + shorter[c]
      BY <2>1, <2>2
    <3> HIDE DEF longer, shorter, row
    <3> QED
      BY <3>1, SumPlus
  <2> HIDE DEF part
  <2>4. /\ SumFunctionOnSet(limit, T) \in Nat /\ limit[r] \in Nat
        /\ SumFunctionOnSet(limit, T \cup {r}) = limit[r] + SumFunctionOnSet(limit, T)
    BY <1>0, SumInsert
  <2>5. SumFunctionOnSet(m[r], C) \in Nat /\ SumFunctionOnSet(part(T), C) \in Nat
    BY <2>2, SumAny
  <2>6. SumFunctionOnSet(m[r], C) <= limit[r]
    BY <1>0
  <2>7. SumFunctionOnSet(part(T), C) <= SumFunctionOnSet(limit, T)
    BY <1>4
  <2> QED
    BY <2>3, <2>4, <2>5, <2>6, <2>7
<1>5. R \in good
  <2> HIDE DEF good
  <2> QED
    BY <1>3, <1>4, ElementInduction
<1>6. Naturals(total, C) /\ Naturals(part(R), C) /\ \A c \in C : total[c] = part(R)[c]
  <2>1. \A c \in C : total[c] = part(R)[c]
    BY <1>0
  <2>2. Naturals(part(R), C)
    BY <1>2
  <2> HIDE DEF part
  <2> QED
    BY <2>1, <2>2 DEF Naturals
<1> HIDE DEF part
<1>7. SumFunctionOnSet(total, C) <= SumFunctionOnSet(part(R), C)
  BY <1>6, SumLeq DEF Naturals
<1>8. /\ SumFunctionOnSet(total, C) \in Nat /\ SumFunctionOnSet(part(R), C) \in Nat
      /\ SumFunctionOnSet(limit, R) \in Nat
  BY <1>0, <1>6, SumAny
<1> QED
  BY <1>5, <1>7, <1>8

-----------------------------------------------------------------------------
(* What a settlement pays.                                                 *)

\* What a quotient gives back is not more than there was.
LEMMA QuotientBelow ==
    ASSUME NEW x \in Nat, NEW s \in Nat, s > 0
    PROVE  x \div s \in Nat /\ s * (x \div s) <= x
OBVIOUS

\* A common factor does not change the order.
LEMMA FactorBelow ==
    ASSUME NEW a \in Nat, NEW b \in Nat, NEW s \in Nat, s > 0, s * a <= s * b
    PROVE  a <= b
OBVIOUS

\* Products with a sum.
LEMMA Products ==
    ASSUME NEW a \in Nat, NEW b \in Nat, NEW s \in Nat
    PROVE  s * a \in Nat /\ s * (a + b) = s * a + s * b
OBVIOUS

\* A pool is not exceeded when each takes its part of it, rounded down.
LEMMA PoolSuffices ==
    ASSUME NEW P, IsFiniteSet(P), NEW rate, \A v \in P : rate[v] \in Nat /\ rate[v] > 0,
           NEW pool \in Nat, P # {},
           NEW part, \A v \in P : part[v] = (pool * rate[v]) \div SumFunctionOnSet(rate, P)
    PROVE  Naturals(part, P) /\ SumFunctionOnSet(part, P) <= pool
<1> DEFINE all == SumFunctionOnSet(rate, P)
<1>1. Naturals(rate, P)
  BY DEF Naturals
<1>2. all \in Nat /\ all > 0
  <2>1. PICK v \in P : TRUE
    OBVIOUS
  <2>2. /\ SumFunctionOnSet(rate, P) = rate[v] + SumFunctionOnSet(rate, P \ {v})
        /\ SumFunctionOnSet(rate, P) \in Nat
    BY <1>1, SumAny
  <2>3. IsFiniteSet(P \ {v}) /\ Naturals(rate, P \ {v})
    BY <1>1, FS_Subset DEF Naturals
  <2>4. SumFunctionOnSet(rate, P \ {v}) \in Nat
    BY <2>3, SumAny
  <2>5. rate[v] \in Nat /\ rate[v] > 0
    OBVIOUS
  <2> QED
    BY <2>2, <2>4, <2>5
<1>3. \A v \in P : part[v] = (pool * rate[v]) \div all
  OBVIOUS
<1> HIDE DEF all
<1>4. ASSUME NEW v \in P
      PROVE  /\ part[v] \in Nat /\ rate[v] \in Nat /\ pool * rate[v] \in Nat
             /\ all * part[v] \in Nat /\ all * part[v] <= pool * rate[v]
  <2>1. rate[v] \in Nat /\ pool * rate[v] \in Nat
    BY Products
  <2>2. part[v] \in Nat /\ all * part[v] <= pool * rate[v]
    BY <1>2, <1>3, <2>1, QuotientBelow
  <2> QED
    BY <1>2, <2>1, <2>2, Products
<1>5. Naturals(part, P)
  BY <1>4 DEF Naturals
<1> DEFINE taken(T) == SumFunctionOnSet(part, T)
           rated(T) == SumFunctionOnSet(rate, T)
           good == {T \in SUBSET P : all * taken(T) <= pool * rated(T)}
<1>6. {} \in good
  <2>1. taken({}) = 0 /\ rated({}) = 0
    BY SumEmpty
  <2> HIDE DEF taken, rated
  <2> QED
    BY <1>2, <2>1
<1>7. ASSUME NEW T \in SUBSET P, NEW v \in P \ T, T \in good PROVE T \cup {v} \in good
  <2>1. /\ taken(T) \in Nat /\ taken(T \cup {v}) = part[v] + taken(T)
        /\ rated(T) \in Nat /\ rated(T \cup {v}) = rate[v] + rated(T)
    BY <1>1, <1>5, SumInsert
  <2>2. all * taken(T) <= pool * rated(T)
    BY <1>7
  <2> DEFINE a == taken(T)
             b == rated(T)
  <2> HIDE DEF taken, rated
  <2>3. /\ all * taken(T \cup {v}) = all * part[v] + all * taken(T)
        /\ pool * rated(T \cup {v}) = pool * rate[v] + pool * rated(T)
        /\ all * taken(T) \in Nat /\ pool * rated(T) \in Nat
    BY <1>2, <1>4, <2>1, Products
  <2>4. all * taken(T \cup {v}) <= pool * rated(T \cup {v})
    BY <1>4, <2>2, <2>3
  <2> QED
    BY <2>4
<1>8. P \in good
  <2> HIDE DEF good
  <2> QED
    BY <1>6, <1>7, ElementInduction
<1>9. taken(P) \in Nat /\ rated(P) = all
  BY <1>5, SumAny DEF all
<1>10. all * taken(P) <= all * pool
  BY <1>2, <1>8, <1>9
<1> HIDE DEF taken
<1> QED
  BY <1>2, <1>5, <1>9, <1>10, FactorBelow DEF taken

\* Sets of places and of bots are finite.
LEMMA ActingFinite ==
    ASSUME NEW log, IsLog(log)
    PROVE  IsFiniteSet(Acting(log)) /\ IsFiniteSet(DOMAIN log)
<1>1. Acting(log) \in SUBSET (1 .. Len(log)) /\ DOMAIN log = 1 .. Len(log)
  BY ActingVotes DEF IsLog
<1>2. IsFiniteSet(1 .. Len(log))
  BY FS_Interval DEF IsLog
<1> QED
  BY <1>1, <1>2, FS_Subset

\* Accuracy is between a quarter and the whole.
LEMMA AccuracyBounds ==
    ASSUME NEW log, IsLog(log), NEW last, NEW w, WInv(w, log, last), NEW bot
    PROVE  Accuracy(log, w, bot) \in Nat /\ Accuracy(log, w, bot) > 0
<1> DEFINE ended == {c \in DOMAIN w.cycles : w.cycles[c].outcome \in {"verified", "fail_rejected"}}
           Agrees(c, v) == \/ log[v].verdict = "pass" /\ w.cycles[c].outcome = "verified"
                           \/ log[v].verdict = "fail" /\ w.cycles[c].outcome = "fail_rejected"
           cast == {cv \in ended \X Acting(log) :
                       cv[2] \in Reviews(log, Effective(w, cv[1])) /\ log[cv[2]].author = bot}
           correct == {cv \in cast : Agrees(cv[1], cv[2])}
           smoothed == (Total * (Cardinality(correct) + 1)) \div (Cardinality(cast) + 2)
<1>1. ended \subseteq DOMAIN log
  BY DEF WInv, Cycles, Of
<1>2. IsFiniteSet(ended \X Acting(log))
  <2>1. IsFiniteSet(ended)
    <3> HIDE DEF ended
    <3> QED
      BY <1>1, ActingFinite, FS_Subset
  <2> HIDE DEF ended
  <2> QED
    BY <2>1, ActingFinite, FS_Product
<1>3. IsFiniteSet(cast) /\ IsFiniteSet(correct)
  <2>1. cast \in SUBSET (ended \X Acting(log)) /\ correct \in SUBSET cast
    OBVIOUS
  <2> HIDE DEF cast, correct
  <2> QED
    BY <1>2, <2>1, FS_Subset
<1>4. smoothed \in Nat
  <2> HIDE DEF cast, correct
  <2>1. Cardinality(cast) \in Nat /\ Cardinality(correct) \in Nat
    BY <1>3, FS_CardinalityType
  <2> QED
    BY <2>1 DEF Total
<1>5. Accuracy(log, w, bot) = Min({Max({smoothed, 2500}), Total})
  BY Zenon DEF Accuracy
<1> HIDE DEF smoothed
<1>6. ASSUME NEW x \in Nat, NEW y \in Nat
      PROVE  Max({x, y}) \in {x, y} /\ Max({x, y}) >= y
             /\ Min({x, y}) \in {x, y}
  <2>1. \E m \in {x, y} : \A k \in {x, y} : k <= m
    OBVIOUS
  <2>2. \E m \in {x, y} : \A k \in {x, y} : m <= k
    OBVIOUS
  <2> QED
    BY <2>1, <2>2 DEF Max, Min
<1>7. Max({smoothed, 2500}) \in Nat /\ Max({smoothed, 2500}) >= 2500
  BY <1>4, <1>6
<1>8. Min({Max({smoothed, 2500}), Total}) \in {Max({smoothed, 2500}), Total}
  BY <1>6, <1>7 DEF Total
<1> QED
  BY <1>5, <1>7, <1>8 DEF Total

\* The submitter's part and the pool are the whole weight of a node.
LEMMA PartsOfWeight ==
    ASSUME NEW weight \in Nat
    PROVE  /\ SubmitterPart(weight) \in Nat /\ Pool(weight) \in Nat
           /\ SubmitterPart(weight) + Pool(weight) = weight
<1>1. (weight * SubmitterShare) \div 10000 \in 0 .. weight
  <2>1. SubmitterShare \in 6000 .. 9000
    BY ReplayAssumption
  <2> QED
    BY <2>1, SMTT(60)
<1> QED
  BY <1>1 DEF SubmitterPart, Pool, Total

\* The bots that passed a node share its pool.
LEMMA ReviewersPaid ==
    ASSUME NEW log, IsLog(log), NEW last, NEW w, WInv(w, log, last),
           NEW n, NEW weight, weight[n] \in Nat,
           NEW paid, paid = [b \in Bots |-> ReviewedBP(log, w, weight, n, b)]
    PROVE  /\ Naturals(paid, Bots)
           /\ SumFunctionOnSet(paid, Bots) <=
                 IF Passes(log, EffectiveOf(log, w, n)) = {} THEN 0 ELSE Pool(weight[n])
<1> DEFINE passes == Passes(log, EffectiveOf(log, w, n))
           pool == Pool(weight[n])
           rate == [v \in passes |-> Accuracy(log, w, log[v].author)]
           all == SumFunctionOnSet(rate, passes)
           share(b) == (pool * Accuracy(log, w, b)) \div all
           part == [v \in passes |-> (pool * rate[v]) \div all]
           upto(T) == [b \in Bots |-> IF \E v \in T : log[v].author = b THEN share(b) ELSE 0]
<1>1. paid = upto(passes)
  <2>1. all = SumFunction(rate)
    BY Zenon DEF SumFunction
  <2>2. ASSUME NEW b \in Bots PROVE paid[b] = upto(passes)[b]
    <3>1. ReviewedBP(log, w, weight, n, b) =
             IF \E v \in passes : log[v].author = b THEN share(b) ELSE 0
      BY <2>1, Zenon DEF ReviewedBP
    <3> HIDE DEF passes, share
    <3> QED
      BY <3>1
  <2> HIDE DEF passes, share
  <2> QED
    BY <2>2
<1>2. IsFiniteSet(Bots) /\ IsFiniteSet(passes)
  <2>1. passes \in SUBSET Acting(log)
    BY DEF Passes, Reviews
  <2> HIDE DEF passes
  <2> QED
    BY <2>1, ActingFinite, FS_Subset, WalkAssumption
<1>3. pool \in Nat
  BY PartsOfWeight
<1>4. \A b : Accuracy(log, w, b) \in Nat /\ Accuracy(log, w, b) > 0
  BY AccuracyBounds
<1>5. CASE passes = {}
  <2>1. \A b \in Bots : paid[b] = 0
    BY <1>1, <1>5
  <2>2. Naturals(paid, Bots)
    BY <2>1 DEF Naturals
  <2> HIDE DEF passes
  <2> QED
    BY <1>2, <1>5, <2>1, <2>2, SumAlone DEF passes
<1>6. CASE passes # {}
  <2> HIDE DEF passes, pool
  <2>1. /\ \A v \in passes : rate[v] \in Nat /\ rate[v] > 0
        /\ \A v \in passes : part[v] = (pool * rate[v]) \div all
    BY <1>4
  <2>2. Naturals(part, passes) /\ SumFunctionOnSet(part, passes) <= pool
    <3> HIDE DEF rate, part
    <3> QED
      BY <1>2, <1>3, <1>6, <2>1, PoolSuffices
  <2>3. \A v \in passes : part[v] = share(log[v].author)
    OBVIOUS
  <2> HIDE DEF part, share
  <2>4. ASSUME NEW T \in SUBSET passes PROVE Naturals(upto(T), Bots)
    <3>1. \A v \in passes : share(log[v].author) \in Nat
      BY <2>2, <2>3 DEF Naturals
    <3> QED
      BY <3>1 DEF Naturals
  <2> DEFINE good == {T \in SUBSET passes :
                        SumFunctionOnSet(upto(T), Bots) <= SumFunctionOnSet(part, T)}
  <2>5. {} \in good
    <3>1. \A b \in Bots : upto({})[b] = 0
      OBVIOUS
    <3> HIDE DEF upto
    <3>2. Naturals(upto({}), Bots)
      <4>1. {} \in SUBSET passes
        OBVIOUS
      <4> QED
        BY <2>4, <4>1
    <3>3. SumFunctionOnSet(upto({}), Bots) <= 0
      BY <1>2, <3>1, <3>2, SumAlone
    <3> QED
      BY <3>3, SumEmpty
  <2>6. ASSUME NEW T \in SUBSET passes, NEW v \in passes \ T, T \in good
        PROVE  T \cup {v} \in good
    <3> DEFINE author == log[v].author
               one == [b \in Bots |-> IF b = author THEN share(b) ELSE 0]
               both == [b \in Bots |-> one[b] + upto(T)[b]]
               longer == upto(T \cup {v})
               shorter == upto(T)
    <3>1. share(author) = part[v] /\ share(author) \in Nat
      BY <2>2, <2>3 DEF Naturals
    <3>2. Naturals(one, Bots) /\ \A b \in Bots : IF b = author THEN one[b] <= part[v] ELSE one[b] = 0
      BY <3>1 DEF Naturals
    <3>3. Naturals(longer, Bots) /\ Naturals(shorter, Bots)
      BY <2>4
    <3>4. \A b \in Bots : longer[b] <= both[b]
      <4> SUFFICES ASSUME NEW b \in Bots PROVE longer[b] <= both[b]
        OBVIOUS
      <4>1. CASE \E u \in T : log[u].author = b
        <5>1. /\ shorter[b] = share(b) /\ longer[b] = share(b) /\ share(b) \in Nat
              /\ both[b] = one[b] + shorter[b] /\ one[b] \in Nat
          <6>1. shorter[b] = share(b) /\ longer[b] = share(b)
            BY <4>1
          <6>2. shorter[b] \in Nat /\ one[b] \in Nat
            BY <3>2, <3>3 DEF Naturals
          <6> QED
            BY <6>1, <6>2
        <5> QED
          BY <5>1
      <4>2. CASE ~\E u \in T : log[u].author = b
        <5>1. longer[b] = one[b] /\ shorter[b] = 0
          BY <4>2
        <5>2. one[b] \in Nat
          BY <3>2 DEF Naturals
        <5> QED
          BY <5>1, <5>2
      <4> QED
        BY <4>1, <4>2
    <3>5. \A b \in Bots : both[b] = one[b] + shorter[b]
      OBVIOUS
    <3> HIDE DEF one, longer, shorter, both
    <3>6. Naturals(both, Bots)
      BY <3>2, <3>3, <3>5 DEF Naturals
    <3>7. /\ SumFunctionOnSet(longer, Bots) <= SumFunctionOnSet(both, Bots)
          /\ SumFunctionOnSet(both, Bots) =
                SumFunctionOnSet(one, Bots) + SumFunctionOnSet(shorter, Bots)
      BY <1>2, <3>2, <3>3, <3>4, <3>5, <3>6, SumLeq, SumPlus
    <3>8. SumFunctionOnSet(one, Bots) <= part[v]
      BY <1>2, <3>1, <3>2, SumAlone
    <3>9. /\ SumFunctionOnSet(part, T) \in Nat /\ part[v] \in Nat
          /\ SumFunctionOnSet(part, T \cup {v}) = part[v] + SumFunctionOnSet(part, T)
      BY <1>2, <2>2, SumInsert
    <3>10. /\ SumFunctionOnSet(longer, Bots) \in Nat /\ SumFunctionOnSet(one, Bots) \in Nat
           /\ SumFunctionOnSet(both, Bots) \in Nat /\ SumFunctionOnSet(shorter, Bots) \in Nat
      BY <1>2, <3>2, <3>3, <3>6, SumAny
    <3>11. SumFunctionOnSet(shorter, Bots) <= SumFunctionOnSet(part, T)
      BY <2>6 DEF shorter
    <3>12. SumFunctionOnSet(longer, Bots) <= SumFunctionOnSet(part, T \cup {v})
      BY <3>7, <3>8, <3>9, <3>10, <3>11
    <3> QED
      BY <3>12 DEF longer
  <2>7. passes \in good
    <3> HIDE DEF good
    <3> QED
      BY <1>2, <2>5, <2>6, ElementInduction
  <2>8. Naturals(paid, Bots) /\ SumFunctionOnSet(paid, Bots) <= SumFunctionOnSet(part, passes)
    BY <1>1, <2>4, <2>7
  <2>9. SumFunctionOnSet(paid, Bots) \in Nat /\ SumFunctionOnSet(part, passes) \in Nat
    BY <1>2, <2>2, <2>8, SumAny
  <2> QED
    BY <1>3, <1>6, <2>2, <2>8, <2>9 DEF passes, pool
<1> QED
  BY <1>5, <1>6

\* So does its submitter.
LEMMA SubmitterPaid ==
    ASSUME NEW log, NEW w, NEW n, NEW weight, weight[n] \in Nat,
           NEW paid, paid = [b \in Bots |-> SubmittedBP(log, w, weight, n, b)]
    PROVE  /\ Naturals(paid, Bots)
           /\ SumFunctionOnSet(paid, Bots) <=
                 SubmitterPart(weight[n]) +
                 (IF Passes(log, EffectiveOf(log, w, n)) = {} THEN Pool(weight[n]) ELSE 0)
<1> DEFINE author == log[EffectiveOf(log, w, n)].author
           most == SubmitterPart(weight[n]) +
                   (IF Passes(log, EffectiveOf(log, w, n)) = {} THEN Pool(weight[n]) ELSE 0)
<1>1. \A b \in Bots : paid[b] = IF b = author THEN most ELSE 0
  <2>1. \A b \in Bots : SubmittedBP(log, w, weight, n, b) = IF b = author THEN most ELSE 0
    BY DEF SubmittedBP
  <2> HIDE DEF author, most
  <2> QED
    BY <2>1
<1>2. most \in Nat
  BY PartsOfWeight, SMTT(60)
<1> HIDE DEF author, most
<1>3. Naturals(paid, Bots)
  BY <1>1, <1>2 DEF Naturals
<1>4. \A b \in Bots : IF b = author THEN paid[b] <= most ELSE paid[b] = 0
  BY <1>1, <1>2
<1>5. SumFunctionOnSet(paid, Bots) <= most
  BY <1>2, <1>3, <1>4, SumAlone, WalkAssumption
<1> QED
  BY <1>3, <1>5 DEF most

\* What a node pays is not more than its weight.
LEMMA NodePays ==
    ASSUME NEW log, IsLog(log), NEW last, NEW w, WInv(w, log, last),
           NEW n, NEW weight, weight[n] \in Nat,
           NEW paid, paid = [b \in Bots |-> SubmittedBP(log, w, weight, n, b)
                                            + ReviewedBP(log, w, weight, n, b)]
    PROVE  /\ Naturals(paid, Bots) /\ SumFunctionOnSet(paid, Bots) <= weight[n]
           /\ \A b \in Bots : /\ SubmittedBP(log, w, weight, n, b) \in Nat
                              /\ ReviewedBP(log, w, weight, n, b) \in Nat
<1> DEFINE submitted == [b \in Bots |-> SubmittedBP(log, w, weight, n, b)]
           reviewed == [b \in Bots |-> ReviewedBP(log, w, weight, n, b)]
           extra == IF Passes(log, EffectiveOf(log, w, n)) = {} THEN Pool(weight[n]) ELSE 0
           shared == IF Passes(log, EffectiveOf(log, w, n)) = {} THEN 0 ELSE Pool(weight[n])
<1>1. Naturals(submitted, Bots) /\ SumFunctionOnSet(submitted, Bots) <= SubmitterPart(weight[n]) + extra
  <2> HIDE DEF submitted
  <2> QED
    BY SubmitterPaid DEF submitted
<1>2. Naturals(reviewed, Bots) /\ SumFunctionOnSet(reviewed, Bots) <= shared
  <2> HIDE DEF reviewed
  <2> QED
    BY ReviewersPaid DEF reviewed
<1>3. \A b \in Bots : /\ submitted[b] = SubmittedBP(log, w, weight, n, b)
                      /\ reviewed[b] = ReviewedBP(log, w, weight, n, b)
                      /\ paid[b] = submitted[b] + reviewed[b]
  OBVIOUS
<1>4. SubmitterPart(weight[n]) + extra + shared = weight[n] /\ extra \in Nat /\ shared \in Nat
      /\ SubmitterPart(weight[n]) \in Nat
  <2>1. /\ SubmitterPart(weight[n]) \in Nat /\ Pool(weight[n]) \in Nat
        /\ SubmitterPart(weight[n]) + Pool(weight[n]) = weight[n]
    BY PartsOfWeight
  <2>2. (extra = Pool(weight[n]) /\ shared = 0) \/ (extra = 0 /\ shared = Pool(weight[n]))
    OBVIOUS
  <2> HIDE DEF extra, shared
  <2> QED
    BY <2>1, <2>2
<1> HIDE DEF submitted, reviewed, extra, shared
<1>5. IsFiniteSet(Bots)
  BY WalkAssumption
<1>6. SumFunctionOnSet(paid, Bots) =
         SumFunctionOnSet(submitted, Bots) + SumFunctionOnSet(reviewed, Bots)
  BY <1>1, <1>2, <1>3, <1>5, SumPlus
<1>7. SumFunctionOnSet(submitted, Bots) \in Nat /\ SumFunctionOnSet(reviewed, Bots) \in Nat
  BY <1>1, <1>2, <1>5, SumAny
<1>8. SumFunctionOnSet(paid, Bots) <= weight[n]
  BY <1>1, <1>2, <1>4, <1>6, <1>7
<1>9. \A b \in Bots : submitted[b] \in Nat /\ reviewed[b] \in Nat
  BY <1>1, <1>2 DEF Naturals
<1> QED
  BY <1>3, <1>8, <1>9 DEF Naturals

\* A sum of equal terms.
LEMMA SumConstant ==
    ASSUME NEW S, IsFiniteSet(S), NEW k \in Nat, NEW f, \A x \in S : f[x] = k
    PROVE  SumFunctionOnSet(f, S) = Cardinality(S) * k
<1> DEFINE good == {T \in SUBSET S : SumFunctionOnSet(f, T) = Cardinality(T) * k}
<1>1. Naturals(f, S)
  BY DEF Naturals
<1>2. {} \in good
  BY SumEmpty, FS_EmptySet
<1>3. ASSUME NEW T \in SUBSET S, NEW x \in S \ T, T \in good PROVE T \cup {x} \in good
  <2>1. IsFiniteSet(T) /\ Cardinality(T) \in Nat /\ Cardinality(T \cup {x}) = Cardinality(T) + 1
    BY FS_Subset, FS_CardinalityType, FS_AddElement
  <2>2. SumFunctionOnSet(f, T \cup {x}) = f[x] + SumFunctionOnSet(f, T)
    BY <1>1, SumInsert
  <2>3. f[x] = k /\ SumFunctionOnSet(f, T) = Cardinality(T) * k
    BY <1>3
  <2> DEFINE size == Cardinality(T)
             longer == T \cup {x}
  <2>4. size \in Nat /\ Cardinality(longer) = size + 1 /\ SumFunctionOnSet(f, longer) = k + size * k
    BY <2>1, <2>2, <2>3
  <2>5. longer \in SUBSET S
    OBVIOUS
  <2> HIDE DEF size, longer
  <2>6. k + size * k = (size + 1) * k
    BY <2>4
  <2> QED
    BY <2>4, <2>5, <2>6 DEF longer
<1>4. S \in good
  <2> HIDE DEF good
  <2> QED
    BY <1>2, <1>3, ElementInduction
<1> QED
  BY <1>4

\* The weights of a tree are the whole at most.
LEMMA WeightsBounded ==
    ASSUME NEW tree, IsFiniteSet(DOMAIN tree), DOMAIN tree # {}
    PROVE  /\ Naturals(Weights(tree), DOMAIN tree)
           /\ SumFunctionOnSet(Weights(tree), DOMAIN tree) <= Total
<1> DEFINE own == [n \in DOMAIN tree |-> tree[n].weight]
           equal == [n \in DOMAIN tree |-> Total \div Cardinality(DOMAIN tree)]
           full == (\A n \in DOMAIN tree : Weighted(tree, n)) /\ TreeWeight(tree) = Total
<1>1. CASE full
  <2>1. Weights(tree) = own
    BY <1>1, Zenon DEF Weights
  <2>2. Naturals(own, DOMAIN tree)
    <3>1. \A n \in DOMAIN tree : own[n] \in Nat
      <4>1. \A n \in DOMAIN tree : tree[n].weight \in 1 .. Total
        BY <1>1, Zenon DEF Weighted
      <4>2. \A x \in 1 .. Total : x \in Nat
        BY DEF Total
      <4>3. \A n \in DOMAIN tree : tree[n].weight \in Nat
        BY <4>1, <4>2, Zenon
      <4> QED
        BY <4>3
    <3> HIDE DEF own
    <3> QED
      BY <3>1 DEF Naturals
  <2>3. TreeWeight(tree) = SumFunctionOnSet(own, DOMAIN own) /\ DOMAIN own = DOMAIN tree
    BY Zenon DEF TreeWeight, SumFunction
  <2>4. SumFunctionOnSet(own, DOMAIN tree) = Total
    <3> HIDE DEF own
    <3> QED
      BY <1>1, <2>3
  <2> HIDE DEF own
  <2> QED
    BY <2>1, <2>2, <2>4 DEF Total
<1>2. CASE ~full
  <2> DEFINE size == Cardinality(DOMAIN tree)
             k == Total \div size
  <2>1. size \in Nat /\ size # 0
    BY FS_CardinalityType, FS_EmptySet
  <2>2. Weights(tree) = equal
    BY <1>2, Zenon DEF Weights
  <2>3. \A n \in DOMAIN tree : equal[n] = k
    OBVIOUS
  <2> HIDE DEF size, equal
  <2>4. k \in Nat /\ size * k <= Total
    BY <2>1, QuotientBelow DEF Total
  <2> HIDE DEF k
  <2>5. SumFunctionOnSet(equal, DOMAIN tree) = size * k
    BY <2>3, <2>4, SumConstant DEF size
  <2> QED
    BY <2>2, <2>3, <2>4, <2>5 DEF Naturals
<1> QED
  BY <1>1, <1>2

\* The shares of a settlement are the whole at most.
LEMMA SharesBounded ==
    ASSUME NEW log, IsLog(log), NEW last, NEW w, WInv(w, log, last),
           NEW tree, IsFiniteSet(DOMAIN tree),
           NEW verified, verified \subseteq DOMAIN tree, verified # {}
    PROVE  LET s == Settlement(log, w, tree, verified)
           IN  SumFunction([b \in Bots |-> s.submitted[b] + s.reviewed[b]]) <= Total
<1> DEFINE weight == Weights(tree)
           Sub(n, b) == SubmittedBP(log, w, weight, n, b)
           Rev(n, b) == ReviewedBP(log, w, weight, n, b)
           m == [n \in verified |-> [b \in Bots |-> Sub(n, b) + Rev(n, b)]]
           submitted == [b \in Bots |-> [n \in verified |-> Sub(n, b)]]
           reviewed == [b \in Bots |-> [n \in verified |-> Rev(n, b)]]
           column == [b \in Bots |-> [n \in verified |-> m[n][b]]]
           total == [b \in Bots |-> SumFunctionOnSet(submitted[b], verified)
                                    + SumFunctionOnSet(reviewed[b], verified)]
           s == Settlement(log, w, tree, verified)
<1> HIDE DEF weight
<1>1. IsFiniteSet(verified) /\ IsFiniteSet(Bots) /\ DOMAIN tree # {}
  BY FS_Subset, WalkAssumption
<1>2. /\ Naturals(weight, DOMAIN tree) /\ SumFunctionOnSet(weight, DOMAIN tree) <= Total
      /\ Naturals(weight, verified)
  BY <1>1, WeightsBounded DEF weight, Naturals
<1>3. SumFunctionOnSet(weight, verified) <= SumFunctionOnSet(weight, DOMAIN tree)
  BY <1>2, SumSubset
<1>4. ASSUME NEW n \in verified
      PROVE  /\ Naturals(m[n], Bots) /\ SumFunctionOnSet(m[n], Bots) <= weight[n]
             /\ \A b \in Bots : Sub(n, b) \in Nat /\ Rev(n, b) \in Nat
  <2>1. weight[n] \in Nat /\ m[n] = [b \in Bots |-> Sub(n, b) + Rev(n, b)]
    BY <1>2 DEF Naturals
  <2> DEFINE row == m[n]
  <2> HIDE DEF m
  <2> QED
    BY <2>1, NodePays
<1>5. ASSUME NEW b \in Bots
      PROVE  total[b] = SumFunctionOnSet(column[b], verified)
  <2> DEFINE f == submitted[b]
             g == reviewed[b]
             h == column[b]
  <2>1. Naturals(f, verified) /\ Naturals(g, verified)
    BY <1>4 DEF Naturals
  <2>2. \A n \in verified : h[n] = f[n] + g[n]
    BY <1>4
  <2>3. total[b] = SumFunctionOnSet(f, verified) + SumFunctionOnSet(g, verified)
    <3> HIDE DEF submitted, reviewed
    <3> QED
      OBVIOUS
  <2> HIDE DEF f, g, h, total
  <2>4. SumFunctionOnSet(h, verified) = SumFunctionOnSet(f, verified) + SumFunctionOnSet(g, verified)
    BY <1>1, <2>1, <2>2, SumPlus
  <2> QED
    BY <2>3, <2>4 DEF h
<1>6. \A b \in Bots : \A n \in verified : column[b][n] = m[n][b]
  <2> HIDE DEF m
  <2> QED
    OBVIOUS
<1>7. SumFunction([b \in Bots |-> s.submitted[b] + s.reviewed[b]]) = SumFunctionOnSet(total, Bots)
  <2>1. ASSUME NEW b \in Bots
        PROVE  /\ s.submitted[b] = SumFunctionOnSet(submitted[b], verified)
               /\ s.reviewed[b] = SumFunctionOnSet(reviewed[b], verified)
    <3>1. /\ s.submitted = [x \in Bots |-> SumFunction([n \in verified |-> Sub(n, x)])]
          /\ s.reviewed = [x \in Bots |-> SumFunction([n \in verified |-> Rev(n, x)])]
      BY DEF Settlement, weight
    <3>2. /\ s.submitted[b] = SumFunction([n \in verified |-> Sub(n, b)])
          /\ s.reviewed[b] = SumFunction([n \in verified |-> Rev(n, b)])
      <4> HIDE DEF s, Sub, Rev
      <4> QED
        BY <3>1
    <3>3. /\ submitted[b] = [n \in verified |-> Sub(n, b)] /\ DOMAIN submitted[b] = verified
          /\ reviewed[b] = [n \in verified |-> Rev(n, b)] /\ DOMAIN reviewed[b] = verified
      OBVIOUS
    <3> HIDE DEF s, submitted, reviewed
    <3> QED
      BY <3>2, <3>3, Zenon DEF SumFunction
  <2> HIDE DEF s, submitted, reviewed
  <2>2. [b \in Bots |-> s.submitted[b] + s.reviewed[b]] = total
    BY <2>1
  <2>3. DOMAIN total = Bots
    OBVIOUS
  <2> HIDE DEF total
  <2> QED
    BY <2>2, <2>3, Zenon DEF SumFunction
<1> HIDE DEF m, column, total, s
<1>8. /\ SumFunctionOnSet(total, Bots) <= SumFunctionOnSet(weight, verified)
      /\ SumFunctionOnSet(total, Bots) \in Nat /\ SumFunctionOnSet(weight, verified) \in Nat
  <2>1. Grid(verified, Bots, m, weight, column, total)
    BY <1>2, <1>4, <1>5, <1>6 DEF Grid
  <2> QED
    BY <1>1, <2>1, SumGrid
<1>9. SumFunctionOnSet(weight, DOMAIN tree) \in Nat
  BY <1>2, SumAny
<1> QED
  BY <1>2, <1>3, <1>7, <1>8, <1>9 DEF s, Total

-----------------------------------------------------------------------------
(* A settlement pays what is earned.                                       *)

\* The submissions of a cycle are of this time, and its last one is in it once.
Ordered(subs, last) ==
    \A i \in 1 .. Len(subs) : subs[i] <= last /\ (i # Len(subs) => subs[i] < subs[Len(subs)])

OrderedInv(w, last) == \A c \in DOMAIN w.cycles : Ordered(w.cycles[c].subs, last)

\* An event leaves the submissions of a cycle alone, opens one or adds itself.
LEMMA SubsKept ==
    ASSUME NEW log, IsLog(log), NEW inTree, NEW p \in 1 .. Len(log),
           Refers(log), NEW w, WInv(w, log, p-1)
    PROVE  LET v == WalkStep(w, log, inTree, Acting(log), p)
           IN  \A d \in DOMAIN v.cycles :
                  \/ v.cycles[d].subs = <<p>>
                  \/ /\ d \in DOMAIN w.cycles
                     /\ v.cycles[d].subs \in {w.cycles[d].subs, Append(w.cycles[d].subs, p)}
<1>1. Shape(w) /\ \A c \in DOMAIN w.cycles : DOMAIN w.cycles[c] = {"subs", "outcome"}
  BY DEF WInv, Cycles, Cycle
<1> DEFINE v == WalkStep(w, log, inTree, Acting(log), p)
           same(cycles) == /\ DOMAIN cycles = DOMAIN w.cycles
                           /\ \A d \in DOMAIN cycles : cycles[d].subs = w.cycles[d].subs
           kept(cycles) == \A d \in DOMAIN cycles :
                              \/ cycles[d].subs = <<p>>
                              \/ /\ d \in DOMAIN w.cycles
                                 /\ cycles[d].subs \in {w.cycles[d].subs, Append(w.cycles[d].subs, p)}
<1>2. \/ v = w
      \/ p \in Acting(log) /\ v = AfterVote(w, log, p)
      \/ v = AfterClaim(w, log, p)
      \/ v = AfterRelease(w, log, p)
      \/ v = AfterSubmission(w, log, p)
  BY DEF WalkStep
<1> HIDE DEF v
<1>3. ASSUME NEW cycles, same(cycles) PROVE kept(cycles)
  BY <1>3
<1>4. same(w.cycles)
  OBVIOUS
<1>5. ASSUME NEW u, Shape(u), same(u.cycles), NEW n, NEW why
      PROVE  same(Vacated(u, n, why).cycles)
  <2>1. Vacated(u, n, why).cycles = u.cycles
    BY <1>5 DEF Vacated, Shape
  <2> HIDE DEF same
  <2> QED
    BY <1>5, <2>1
<1>6. same(AfterClaim(w, log, p).cycles) /\ same(AfterRelease(w, log, p).cycles)
  <2>1. AfterClaim(w, log, p).cycles = w.cycles
    BY <1>1 DEF AfterClaim, Shape
  <2> HIDE DEF same
  <2> QED
    BY <1>1, <1>4, <1>5, <2>1 DEF AfterRelease
<1>7. kept(AfterSubmission(w, log, p).cycles)
  <2> DEFINE claim == log[p].claimid
             opened == [w EXCEPT !.cycles = [c \in DOMAIN @ \cup {claim} |->
                           IF c = claim THEN [subs |-> <<p>>, outcome |-> "open"] ELSE @[c]]]
             appended == [w EXCEPT !.cycles[claim].subs = Append(@, p)]
  <2>1. kept(opened.cycles)
    <3>1. opened.cycles = [c \in DOMAIN w.cycles \cup {claim} |->
             IF c = claim THEN [subs |-> <<p>>, outcome |-> "open"] ELSE w.cycles[c]]
      BY <1>1 DEF Shape
    <3> DEFINE cycles == opened.cycles
    <3> HIDE DEF opened
    <3>2. DOMAIN cycles = DOMAIN w.cycles \cup {claim}
          /\ \A d \in DOMAIN cycles : cycles[d].subs = IF d = claim THEN <<p>> ELSE w.cycles[d].subs
      BY <3>1
    <3> HIDE DEF cycles
    <3>3. kept(cycles)
      BY <3>2
    <3> HIDE DEF kept
    <3> QED
      BY <3>3 DEF cycles
  <2>2. kept(appended.cycles)
    <3>1. DOMAIN appended.cycles = DOMAIN w.cycles
          /\ \A d \in DOMAIN w.cycles : appended.cycles[d] =
                IF d = claim THEN [w.cycles[d] EXCEPT !.subs = Append(@, p)] ELSE w.cycles[d]
      BY <1>1 DEF Shape
    <3>2. \A d \in DOMAIN w.cycles : [w.cycles[d] EXCEPT !.subs = Append(@, p)].subs =
             Append(w.cycles[d].subs, p)
      BY <1>1
    <3> HIDE DEF appended
    <3> QED
      BY <3>1, <3>2
  <2> HIDE DEF opened, appended, kept
  <2>3. AfterSubmission(w, log, p) \in {w, opened, appended}
    BY DEF AfterSubmission, opened, appended
  <2> QED
    BY <1>3, <1>4, <2>1, <2>2, <2>3
<1>8. same(AfterVote(w, log, p).cycles)
  <2> DEFINE n == log[log[p].targetid].node
             c == w.holder[n]
             met == [w EXCEPT !.reached = @ \cup {p}]
             ended == [met EXCEPT !.cycles[c].outcome = "fail_rejected",
                                  !.approved = @ \ {Effective(met, c)}]
             counted == [met EXCEPT !.voters[n] = met.voters[n] \cup {log[p].author}]
             verified == [counted EXCEPT !.cycles[c].outcome = "verified",
                                         !.approved = @ \cup {log[p].targetid}]
  <2>1. Shape(met) /\ met.cycles = w.cycles
    BY <1>1 DEF Shape
  <2> HIDE DEF met
  <2>2. Shape(counted) /\ counted.cycles = w.cycles
    BY <2>1 DEF Shape
  <2> HIDE DEF counted
  <2>3. ASSUME NEW outcome
        PROVE  same([w.cycles EXCEPT ![c].outcome = outcome])
    <3> DEFINE cycles == [w.cycles EXCEPT ![c].outcome = outcome]
    <3>1. /\ DOMAIN cycles = DOMAIN w.cycles
          /\ \A d \in DOMAIN w.cycles :
                cycles[d] = IF d = c THEN [w.cycles[d] EXCEPT !.outcome = outcome] ELSE w.cycles[d]
      OBVIOUS
    <3>2. \A d \in DOMAIN w.cycles : [w.cycles[d] EXCEPT !.outcome = outcome].subs = w.cycles[d].subs
      BY <1>1
    <3> HIDE DEF cycles
    <3>3. same(cycles)
      BY <3>1, <3>2
    <3> QED
      BY <3>3 DEF cycles
  <2>4. Shape(ended) /\ ended.cycles = [w.cycles EXCEPT ![c].outcome = "fail_rejected"]
    BY <2>1 DEF Shape
  <2>5. Shape(verified) /\ verified.cycles = [w.cycles EXCEPT ![c].outcome = "verified"]
    BY <2>2 DEF Shape
  <2> HIDE DEF ended, verified, same
  <2>6. same(ended.cycles) /\ same(verified.cycles) /\ same(met.cycles) /\ same(counted.cycles)
    BY <1>4, <2>1, <2>2, <2>3, <2>4, <2>5, ZenonT(60)
  <2>7. same(Vacated(ended, n, "rejected").cycles)
    BY <1>5, <2>4, <2>6
  <2>8. Passed(met, log, p, n, c) \in {met, counted, verified}
    BY DEF Passed, counted, verified
  <2>9. Failed(met, n, c) = Vacated(ended, n, "rejected")
    BY DEF Failed, ended
  <2>10. AfterVote(w, log, p) \in {w, Failed(met, n, c), Passed(met, log, p, n, c), met}
    BY DEF AfterVote, met
  <2> QED
    BY <1>4, <2>6, <2>7, <2>8, <2>9, <2>10
<1>9. kept(v.cycles)
  <2> HIDE DEF kept, same
  <2> QED
    BY <1>2, <1>3, <1>4, <1>6, <1>7, <1>8
<1> QED
  BY <1>9 DEF v

\* A cycle stays in order.
LEMMA OrderedStep ==
    ASSUME NEW log, IsLog(log), Refers(log), NEW inTree, NEW p \in 1 .. Len(log),
           NEW w, WInv(w, log, p-1), OrderedInv(w, p-1)
    PROVE  OrderedInv(WalkStep(w, log, inTree, Acting(log), p), p)
<1> DEFINE v == WalkStep(w, log, inTree, Acting(log), p)
<1>1. \A d \in DOMAIN v.cycles :
         \/ v.cycles[d].subs = <<p>>
         \/ /\ d \in DOMAIN w.cycles
            /\ v.cycles[d].subs \in {w.cycles[d].subs, Append(w.cycles[d].subs, p)}
  BY SubsKept
<1> HIDE DEF v
<1>2. Ordered(<<p>>, p)
  BY DEF Ordered
<1>3. ASSUME NEW d \in DOMAIN w.cycles
      PROVE  Ordered(w.cycles[d].subs, p) /\ Ordered(Append(w.cycles[d].subs, p), p)
  <2> DEFINE subs == w.cycles[d].subs
  <2>1. subs \in Seq(DOMAIN log) /\ DOMAIN log = 1 .. Len(log) /\ Len(log) \in Nat
    <3>1. Cycle(w.cycles[d], log, d) /\ Of("submission", log) \subseteq DOMAIN log
      BY DEF WInv, Cycles, Of
    <3> DEFINE S == Of("submission", log)
    <3>2. subs \in Seq(S) /\ S \subseteq DOMAIN log
      BY <3>1 DEF Cycle
    <3> HIDE DEF S, subs
    <3> QED
      BY <3>2 DEF IsLog
  <2>2. Ordered(subs, p-1)
    BY DEF OrderedInv
  <2> HIDE DEF subs
  <2>3. \A i \in 1 .. Len(subs) : subs[i] \in Nat /\ subs[i] <= p-1
    BY <2>1, <2>2 DEF Ordered
  <2>4. Ordered(subs, p)
    BY <2>2, <2>3 DEF Ordered
  <2> DEFINE longer == Append(subs, p)
  <2>5. /\ Len(longer) = Len(subs) + 1 /\ Len(subs) \in Nat /\ longer[Len(subs) + 1] = p
        /\ \A i \in 1 .. Len(subs) : longer[i] = subs[i]
    <3>1. subs \in Seq(Nat)
      BY <2>1
    <3> QED
      BY <3>1
  <2> HIDE DEF longer
  <2>6. Ordered(longer, p)
    <3> SUFFICES ASSUME NEW i \in 1 .. Len(longer)
                 PROVE  longer[i] <= p /\ (i # Len(longer) => longer[i] < longer[Len(longer)])
      BY DEF Ordered
    <3>1. CASE i = Len(subs) + 1
      BY <2>5, <3>1
    <3>2. CASE i # Len(subs) + 1
      <4>1. i \in 1 .. Len(subs)
        BY <2>5, <3>2
      <4> QED
        BY <2>3, <2>5, <4>1
    <3> QED
      BY <3>1, <3>2
  <2> QED
    BY <2>4, <2>6 DEF subs, longer
<1> QED
  BY <1>1, <1>2, <1>3 DEF OrderedInv, v

\* So is every cycle of a walk, with what expired.
LEMMA WalkOrdered ==
    ASSUME NEW log, IsLog(log), Refers(log), NEW inTree
    PROVE  OrderedInv(Expired(Walk(log, inTree), log), Len(log))
<1> DEFINE to == WalkTo(log, inTree)
           good == {p \in 0 .. Len(log) : WInv(to[p], log, p) /\ OrderedInv(to[p], p)}
<1>1. 0 \in good
  <2>1. DOMAIN EmptyWalk.cycles = {}
    BY DEF EmptyWalk
  <2>2. OrderedInv(EmptyWalk, 0)
    BY <2>1 DEF OrderedInv
  <2> QED
    BY <2>2, EmptyWalkInv, WalkUnfolds DEF IsLog
<1>2. ASSUME NEW p \in 1 .. Len(log), p-1 \in good PROVE p \in good
  <2>1. to[p] = WalkStep(to[p-1], log, inTree, Acting(log), p)
    BY WalkUnfolds DEF IsLog
  <2> QED
    BY <1>2, <2>1, WalkStepInv, OrderedStep DEF IsLog
<1>3. 0 .. Len(log) \subseteq good
  <2> HIDE DEF good
  <2> QED
    BY <1>1, <1>2, PlaceInduction DEF IsLog
<1> DEFINE w == Walk(log, inTree)
<1>4. WInv(w, log, Len(log)) /\ OrderedInv(w, Len(log))
  BY <1>3 DEF Walk, IsLog
<1> HIDE DEF w
<1>5. Expired(w, log).cycles = w.cycles
  BY <1>4 DEF Expired, WInv, Shape
<1> QED
  BY <1>4, <1>5 DEF OrderedInv, w

\* Trees are finite.
LEMMA OperateFinite ==
    ASSUME NEW log, NEW w, NEW p, NEW before, NEW tree, IsFiniteSet(DOMAIN tree), NEW op,
           NEW t \in Operate(log, w, p, before, tree, op)
    PROVE  IsFiniteSet(DOMAIN t)
<1>1. \/ DOMAIN t = DOMAIN tree
      \/ DOMAIN t = DOMAIN tree \cup {op.node}
      \/ DOMAIN t = DOMAIN tree \ {op.node}
  BY DEF Operate
<1> QED
  BY <1>1, FS_AddElement, FS_RemoveElement

\* So are the trees amendments make of them.
LEMMA AmendFinite ==
    ASSUME NEW log, NEW w, NEW f, IsFiniteSet(DOMAIN f.tree), NEW p, log[p].ops \in Amendments
    PROVE  IsFiniteSet(DOMAIN Amend(log, w, f, p).tree)
<1> DEFINE ops == log[p].ops
           to == OperatedTo(log, w, p, f.tree, ops)
           good == {i \in 0 .. Len(ops) : \A t \in to[i] : IsFiniteSet(DOMAIN t)}
<1>1. Len(ops) \in Nat
  BY ReplayAssumption
<1>2. 0 \in good
  <2>1. to[0] = {f.tree}
    BY <1>1, OperatedUnfolds
  <2> HIDE DEF to
  <2> QED
    BY <1>1, <2>1
<1>3. ASSUME NEW i \in 1 .. Len(ops), i-1 \in good PROVE i \in good
  <2> SUFFICES ASSUME NEW t \in to[i] PROVE IsFiniteSet(DOMAIN t)
    OBVIOUS
  <2>1. to[i] = OperateEach(log, w, p, f.tree, to[i-1], ops[i])
    BY <1>1, OperatedUnfolds
  <2> HIDE DEF to
  <2>2. PICK x \in to[i-1] : t \in Operate(log, w, p, f.tree, x, ops[i])
    BY <2>1 DEF OperateEach
  <2> QED
    BY <1>3, <2>2, OperateFinite
<1>4. 0 .. Len(ops) \subseteq good
  <2> HIDE DEF good
  <2> QED
    BY <1>1, <1>2, <1>3, PlaceInduction
<1>5. \A t \in Operated(log, w, p, f.tree, ops) : IsFiniteSet(DOMAIN t)
  BY <1>1, <1>4 DEF Operated
<1> DEFINE g == Amend(log, w, f, p)
           trees == {t \in Operated(log, w, p, f.tree, ops) : Sound(t)}
<1>6. g = f \/ (trees # {} /\ g = [tree |-> CHOOSE t \in trees : TRUE, head |-> p])
  BY DEF Amend
<1> HIDE DEF g
<1>7. CASE trees # {} /\ g = [tree |-> CHOOSE t \in trees : TRUE, head |-> p]
  <2>1. g.tree = CHOOSE t \in trees : TRUE
    BY <1>7
  <2> HIDE DEF trees
  <2>2. g.tree \in trees
    BY <1>7, <2>1, Zenon
  <2> QED
    BY <1>5, <2>2 DEF trees, g
<1> QED
  BY <1>6, <1>7 DEF g

\* So is the tree a replay ends with.
LEMMA TreeFinite ==
    ASSUME NEW log, IsLog(log), Refers(log), NEW w
    PROVE  IsFiniteSet(DOMAIN AmendedTo(log, w)[Len(log)].tree)
<1> DEFINE to == AmendedTo(log, w)
           good == {p \in 0 .. Len(log) : IsFiniteSet(DOMAIN to[p].tree)}
<1>1. Len(log) \in Nat /\ DOMAIN log = 1 .. Len(log)
  BY DEF IsLog
<1>2. /\ to[0] = [tree |-> InitialTree, head |-> TreePin]
      /\ \A p \in 1 .. Len(log) : to[p] = IF log[p].path = "amend"
                                           THEN Amend(log, w, to[p-1], p) ELSE to[p-1]
  BY <1>1, AmendedUnfolds
<1> HIDE DEF to
<1>3. 0 \in good
  <2>1. to[0].tree = InitialTree
    BY <1>2
  <2>2. IsFiniteSet(DOMAIN InitialTree)
    BY FS_Subset, ReplayAssumption, WalkAssumption
  <2> QED
    BY <1>1, <2>1, <2>2
<1>4. ASSUME NEW p \in 1 .. Len(log), p-1 \in good PROVE p \in good
  <2>1. CASE log[p].path = "amend"
    <3>1. log[p].ops \in Amendments
      BY <1>1, <2>1 DEF Refers
    <3> QED
      BY <1>2, <1>4, <2>1, <3>1, AmendFinite
  <2>2. CASE log[p].path # "amend"
    BY <1>2, <1>4, <2>2
  <2> QED
    BY <2>1, <2>2
<1>5. 0 .. Len(log) \subseteq good
  <2> HIDE DEF good
  <2> QED
    BY <1>1, <1>3, <1>4, PlaceInduction
<1> QED
  BY <1>1, <1>5 DEF to

\* A submission that is paid is not among those that are not.
LEMMA PaidApart ==
    ASSUME NEW log, IsLog(log), NEW last, NEW w, WInv(w, log, last), OrderedInv(w, last),
           NEW c \in DOMAIN w.cycles, w.cycles[c].outcome = "verified"
    PROVE  Effective(w, c) \notin Unpaid(w)
<1> DEFINE s == Effective(w, c)
<1> SUFFICES ASSUME NEW d \in DOMAIN w.cycles,
                    \/ s \in ToSet(Front(w.cycles[d].subs))
                    \/ w.cycles[d].outcome = "fail_rejected" /\ s = Last(w.cycles[d].subs)
             PROVE  FALSE
  BY DEF Unpaid
<1>1. /\ Cycle(w.cycles[c], log, c) /\ Cycle(w.cycles[d], log, d)
      /\ Ordered(w.cycles[d].subs, last)
  BY DEF WInv, Cycles, OrderedInv
<1>2. s \in ToSet(w.cycles[c].subs)
  BY <1>1, EffectiveIn DEF Effective
<1> DEFINE subs == w.cycles[d].subs
           S == Of("submission", log)
<1>3. subs \in Seq(S) /\ subs # << >>
  BY <1>1 DEF Cycle
<1>4. Last(subs) \in ToSet(subs) /\ ToSet(Front(subs)) \subseteq ToSet(subs)
  <2> HIDE DEF subs, S
  <2> QED
    BY <1>3 DEF Last, Front, ToSet
<1>5. s \in ToSet(subs)
  BY <1>4
<1>6. c = d
  BY <1>1, <1>2, <1>5 DEF Cycle
<1>7. s = Last(subs) /\ s \in ToSet(Front(subs))
  BY <1>6 DEF Effective
<1>8. \A i \in 1 .. Len(subs) : i # Len(subs) => subs[i] < subs[Len(subs)]
  BY <1>1 DEF Ordered
<1>9. S \subseteq DOMAIN log
  BY DEF Of
<1> HIDE DEF subs, S, s
<1>10. PICK i \in 1 .. Len(subs) - 1 : Front(subs)[i] = s
  BY <1>3, <1>7 DEF Front, ToSet
<1>11. Front(subs)[i] = subs[i] /\ i \in 1 .. Len(subs) /\ i # Len(subs) /\ Last(subs) = subs[Len(subs)]
  BY <1>3, <1>10 DEF Front, Last
<1>12. subs[i] < subs[i]
  BY <1>7, <1>8, <1>10, <1>11
<1> QED
  <2>1. subs[i] \in Nat
    BY <1>3, <1>9, <1>11 DEF IsLog
  <2> QED
    BY <1>12, <2>1

\* The settlement shown is that of the walk and the tree shown.
LEMMA SettledView ==
    ASSUME RInv, Settled(view)
    PROVE  /\ view.settlement = Settlement(chain, view.walk, view.tree, view.verified)
           /\ view.verified # {} /\ view.verified \subseteq DOMAIN view.tree
           /\ IsFiniteSet(DOMAIN view.tree)
           /\ WInv(view.walk, chain, Len(chain)) /\ OrderedInv(view.walk, Len(chain))
           /\ \A n \in view.verified : OwnVerified(chain, view.walk, n)
           /\ IsLog(chain)
<1> DEFINE fold == AmendedTo(chain, FirstPass(chain))[Len(chain)]
           w == SecondPass(chain, fold.tree)
           verified == FinallyVerified(chain, w, fold.tree)
           disputed == Disputed(chain, w, fold.tree, verified)
<1>1. IsLog(chain) /\ Refers(chain)
  BY Longer DEF RInv
<1>2. /\ view.tree = fold.tree /\ view.walk = w /\ view.verified = verified
      /\ view.settlement = IF Settles(verified, disputed)
                           THEN Settlement(chain, w, fold.tree, verified) ELSE NotSettled
  BY DEF RInv, Replay
<1>3. IsFiniteSet(DOMAIN fold.tree)
  BY <1>1, TreeFinite
<1>4. OrderedInv(w, Len(chain))
  <2> HIDE DEF fold
  <2> QED
    BY <1>1, WalkOrdered DEF SecondPass
<1> HIDE DEF fold, w, verified, disputed
<1>5. Settles(verified, disputed)
  BY <1>2, Zenon DEF Settled
<1> QED
  BY <1>1, <1>2, <1>3, <1>4, <1>5, ViewInv DEF Settles

\* The shares never exceed the whole, and each is earned.
THEOREM SharesOfTheSettlement == SpecR => []SharesAreEarned
<1>1. RInv => SharesAreEarned
  <2> SUFFICES ASSUME RInv, Settled(view) PROVE SharesAreEarned
    BY DEF SharesAreEarned
  <2> DEFINE s == view.settlement
             w == view.walk
             weight == Weights(view.tree)
             Judged(n) == EffectiveOf(chain, w, n)
             verified == view.verified
             Sub(b) == [n \in verified |-> SubmittedBP(chain, w, weight, n, b)]
             Rev(b) == [n \in verified |-> ReviewedBP(chain, w, weight, n, b)]
  <2>1. /\ s = Settlement(chain, w, view.tree, verified)
        /\ verified # {} /\ verified \subseteq DOMAIN view.tree
        /\ IsFiniteSet(DOMAIN view.tree) /\ IsFiniteSet(verified)
        /\ WInv(w, chain, Len(chain)) /\ OrderedInv(w, Len(chain))
        /\ \A n \in verified : OwnVerified(chain, w, n)
        /\ IsLog(chain) /\ Len(chain) \in Nat
    BY SettledView, FS_Subset DEF IsLog
  <2>2. SumFunction([b \in Bots |-> s.submitted[b] + s.reviewed[b]]) <= Total
    BY <2>1, SharesBounded
  <2>3. /\ s.submitted = [b \in Bots |-> SumFunction(Sub(b))]
        /\ s.reviewed = [b \in Bots |-> SumFunction(Rev(b))]
        /\ s.unpaid = Unpaid(w)
    BY <2>1 DEF Settlement
  <2> HIDE DEF s, w, verified, weight
  <2>4. ASSUME NEW b \in Bots
        PROVE  /\ Naturals(Sub(b), verified) /\ Naturals(Rev(b), verified)
               /\ s.submitted[b] = SumFunctionOnSet(Sub(b), verified)
               /\ s.reviewed[b] = SumFunctionOnSet(Rev(b), verified)
    <3>1. Naturals(weight, DOMAIN view.tree)
      BY <2>1, WeightsBounded DEF weight
    <3>2. \A n \in verified : /\ SubmittedBP(chain, w, weight, n, b) \in Nat
                              /\ ReviewedBP(chain, w, weight, n, b) \in Nat
      <4> SUFFICES ASSUME NEW n \in verified
                   PROVE  /\ SubmittedBP(chain, w, weight, n, b) \in Nat
                          /\ ReviewedBP(chain, w, weight, n, b) \in Nat
        OBVIOUS
      <4>1. weight[n] \in Nat
        BY <2>1, <3>1 DEF Naturals
      <4> QED
        BY <2>1, <4>1, NodePays
    <3>3. DOMAIN Sub(b) = verified /\ DOMAIN Rev(b) = verified
      OBVIOUS
    <3>4. Naturals(Sub(b), verified) /\ Naturals(Rev(b), verified)
      BY <3>2 DEF Naturals
    <3> HIDE DEF Sub, Rev
    <3>5. s.submitted[b] = SumFunction(Sub(b)) /\ s.reviewed[b] = SumFunction(Rev(b))
      BY <2>3
    <3> QED
      BY <3>3, <3>4, <3>5, Zenon DEF SumFunction
  <2>5. \A b \in Bots : s.submitted[b] > 0 =>
           \E n \in verified : chain[Judged(n)].author = b
    <3> SUFFICES ASSUME NEW b \in Bots, s.submitted[b] > 0
                 PROVE  \E n \in verified : chain[Judged(n)].author = b
      OBVIOUS
    <3> HIDE DEF Sub
    <3>1. PICK n \in verified : Sub(b)[n] > 0
      BY <2>1, <2>4, SumPositive
    <3> USE DEF Sub
    <3>2. SubmittedBP(chain, w, weight, n, b) # 0
      BY <3>1
    <3> QED
      BY <3>2 DEF SubmittedBP
  <2>6. \A b \in Bots : s.reviewed[b] > 0 =>
           b # Publisher /\ \E n \in verified, v \in Of("verify", chain) :
              /\ chain[v].targetid = Judged(n) /\ chain[v].author = b
              /\ chain[v].verdict = "pass" /\ chain[Judged(n)].author # b
    <3> SUFFICES ASSUME NEW b \in Bots, s.reviewed[b] > 0
                 PROVE  b # Publisher /\ \E n \in verified, v \in Of("verify", chain) :
                           /\ chain[v].targetid = Judged(n) /\ chain[v].author = b
                           /\ chain[v].verdict = "pass" /\ chain[Judged(n)].author # b
      OBVIOUS
    <3> HIDE DEF Rev
    <3>1. PICK n \in verified : Rev(b)[n] > 0
      BY <2>1, <2>4, SumPositive
    <3> USE DEF Rev
    <3>2. ReviewedBP(chain, w, weight, n, b) # 0
      BY <3>1
    <3>3. PICK v \in Passes(chain, Judged(n)) : chain[v].author = b
      BY <3>2 DEF ReviewedBP
    <3>4. /\ v \in Acting(chain) /\ chain[v].targetid = Judged(n) /\ Independent(chain, v)
          /\ chain[v].verdict = "pass"
      BY DEF Passes, Reviews
    <3>5. v \in Of("verify", chain)
      BY <3>4, ActingVotes DEF Of
    <3> QED
      BY <3>3, <3>4, <3>5 DEF Independent
  <2>7. \A p \in s.unpaid : \A n \in verified : p # Judged(n)
    <3> SUFFICES ASSUME NEW n \in verified PROVE Judged(n) \notin Unpaid(w)
      BY <2>3
    <3>1. /\ ActiveCycle(w, chain, n) \in DOMAIN w.cycles
          /\ w.cycles[ActiveCycle(w, chain, n)].outcome = "verified"
      BY <2>1, ActiveCycleOf DEF OwnVerified
    <3> QED
      BY <2>1, <3>1, PaidApart DEF EffectiveOf
  <2> QED
    BY <2>2, <2>5, <2>6, <2>7 DEF SharesAreEarned, s, w, verified
<1> QED
  BY <1>1, ReplayInvariant, PTL
=============================================================================
