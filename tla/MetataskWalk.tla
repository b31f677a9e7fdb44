---------------------------- MODULE MetataskWalk ----------------------------
(***************************************************************************)
(* The ordered walk of the MetaTask replay (internal/metatask/v121.go).    *)
(* The events of one task are a sequence in their total order; the pin id  *)
(* of an event is its place in that sequence, which also serves as its     *)
(* block height and as its time in hours. Everything here is a function of *)
(* the sequence: the code reads no clock and keeps no state of its own.    *)
(***************************************************************************)
EXTENDS Integers, Sequences, FiniteSets, SequencesExt

CONSTANTS
    Bots,
    Publisher,     \* the author of the task root
    Nodes,         \* node ids events may name, in the tree or not
    Quorum,        \* policy.verify_quorum
    TtlHours,      \* policy.claim_ttl_hours, 0 when there is none
    WindowHours,   \* policy.verify_window_hours, 0 when there is none
    Roster,        \* groups of the roster pin the policy names, {} when there is none
    HAct, HAct2    \* heights from which the vote gates and the v1.2 rules hold

ASSUME WalkAssumption ==
    /\ IsFiniteSet(Bots) /\ IsFiniteSet(Nodes) /\ Publisher \in Bots
    /\ Quorum \in Nat \ {0}
    /\ {TtlHours, WindowHours, HAct, HAct2} \subseteq Nat
    /\ HAct <= HAct2
    /\ Roster \subseteq SUBSET Bots

NoPin == 0

Of(path, log) == {p \in DOMAIN log : log[p].path = path}

-----------------------------------------------------------------------------
(* The ballots that act: well-formed, not from the submitter's or the      *)
(* publisher's side, and the last one of their bot on their target.        *)

Malformed(log, p) == p >= HAct /\ ~log[p].formed

SameSide(a, b) == a = b \/ \E group \in Roster : {a, b} \subseteq group

BarredByRoster(log, p) ==
    /\ Roster # {} /\ p >= HAct2
    /\ \/ SameSide(log[p].author, log[log[p].targetid].author)
       \/ SameSide(log[p].author, Publisher)

Ballots(log) == {p \in Of("verify", log) : log[p].targetid \in Of("submission", log)}

ValidBallots(log) == {p \in Ballots(log) : ~Malformed(log, p) /\ ~BarredByRoster(log, p)}

SameBallot(log, p, q) == log[p].targetid = log[q].targetid /\ log[p].author = log[q].author

\* Mutant: the last ballot of a bot is taken before the malformed ones are dropped.
Acting_LastFirst(log) ==
    {p \in ValidBallots(log) : \A q \in Ballots(log) : SameBallot(log, p, q) => q <= p}

Acting(log) ==
    {p \in ValidBallots(log) : \A q \in ValidBallots(log) : SameBallot(log, p, q) => q <= p}

-----------------------------------------------------------------------------
(* The state of a walk. A submission cycle is named by the claim that      *)
(* holds the node; all of its submissions but the last are superseded.     *)

EmptyWalk ==
    [holder   |-> [n \in Nodes |-> NoPin],   \* the claim that holds the node
     first    |-> [n \in Nodes |-> NoPin],   \* its first effective claim
     cycles   |-> << >>,                     \* claim -> [subs, outcome]
     voters   |-> [n \in Nodes |-> {}],      \* bots whose pass counts in the live cycle
     approved |-> {},                        \* submissions that reached the quorum
     outcome  |-> [n \in Nodes |-> "none"],  \* how the last cycle of the node ended
     reached  |-> {}]                        \* ballots that met a live target

Effective(w, claim) == Last(w.cycles[claim].subs)

\* The latest cycle of a node, or NoPin.
ActiveCycle(w, log, n) ==
    LET own == {c \in DOMAIN w.cycles : log[c].node = n}
    IN  IF own = {} THEN NoPin ELSE CHOOSE c \in own : \A d \in own : d <= c

\* Mutant: the bots that passed the old cycle still count in the next one.
Vacated_KeepsVoters(w, n, why) ==
    [w EXCEPT !.holder[n] = NoPin, !.outcome[n] = why]

Vacated(w, n, why) ==
    [w EXCEPT !.holder[n] = NoPin, !.voters[n] = {}, !.outcome[n] = why]

AfterClaim(w, log, p) ==
    LET n == log[p].node
    IN  IF w.holder[n] # NoPin THEN w
        ELSE [w EXCEPT !.holder[n] = p,
                       !.first[n] = IF @ = NoPin THEN p ELSE @,
                       !.outcome[n] = "none"]

\* Mutant: a release ends the submission cycle, decided or not.
AfterRelease_Reopens(w, log, p) ==
    LET n == log[p].node
    IN  IF w.holder[n] = NoPin \/ w.holder[n] # log[p].claimid THEN w
        ELSE IF w.holder[n] \in DOMAIN w.cycles
             THEN Vacated([w EXCEPT !.cycles[w.holder[n]].outcome = "open"], n, "released")
        ELSE Vacated(w, n, "released")

\* A release names the claim it gives up; who signs it is not looked at.
AfterRelease(w, log, p) ==
    LET n == log[p].node
    IN  IF w.holder[n] = NoPin \/ w.holder[n] # log[p].claimid THEN w
        ELSE Vacated(w, n, "released")

Supersedes(w, log, p) ==
    LET old == Effective(w, log[p].claimid)
    IN  /\ log[p].supersedeid = old
        /\ log[old].author = log[p].author
        /\ old >= HAct2 /\ p >= HAct2

AfterSubmission(w, log, p) ==
    LET claim == log[p].claimid
    IN  IF claim = NoPin \/ w.holder[log[p].node] # claim THEN w
        ELSE IF claim \notin DOMAIN w.cycles
             THEN [w EXCEPT !.cycles = [c \in DOMAIN @ \cup {claim} |->
                      IF c = claim THEN [subs |-> <<p>>, outcome |-> "open"] ELSE @[c]]]
        ELSE IF Supersedes(w, log, p) THEN [w EXCEPT !.cycles[claim].subs = Append(@, p)]
        ELSE w

\* A fail reopens the node at once, whoever casts it; a pass counts when its
\* bot is neither the submitter nor the publisher.
Failed(w, n, claim) ==
    Vacated([w EXCEPT !.cycles[claim].outcome = "fail_rejected",
                      !.approved = @ \ {Effective(w, claim)}], n, "rejected")

\* Mutant: a vote of the submitter counts.
Independent_NotPublisher(log, p) == log[p].author # Publisher

Independent(log, p) == log[p].author \notin {log[log[p].targetid].author, Publisher}

Passed(w, log, p, n, claim) ==
    LET voters == w.voters[n] \cup {log[p].author}
        counted == [w EXCEPT !.voters[n] = voters]
    IN  IF ~Independent(log, p) THEN w
        ELSE IF Cardinality(voters) >= Quorum
             THEN [counted EXCEPT !.cycles[claim].outcome = "verified",
                                  !.approved = @ \cup {log[p].targetid}]
        ELSE counted

AfterVote(w, log, p) ==
    LET target == log[p].targetid
        n == log[target].node
        claim == w.holder[n]
        met == [w EXCEPT !.reached = @ \cup {p}]
    IN  IF claim \notin DOMAIN w.cycles \/ target # Effective(w, claim) THEN w
        ELSE IF log[p].verdict = "fail" THEN Failed(met, n, claim)
        ELSE IF log[p].verdict = "pass" THEN Passed(met, log, p, n, claim)
        ELSE met

\* One event of the walk: claims, releases and submissions of nodes outside
\* inTree are ignored, and so are ballots that do not act.
WalkStep(w, log, inTree, acting, p) ==
    IF log[p].path = "verify" THEN IF p \in acting THEN AfterVote(w, log, p) ELSE w
    ELSE IF log[p].path \notin {"claim", "release", "submission"} THEN w
    ELSE IF log[p].node \notin inTree THEN w
    ELSE IF log[p].path = "claim" THEN AfterClaim(w, log, p)
    ELSE IF log[p].path = "release" THEN AfterRelease(w, log, p)
    ELSE AfterSubmission(w, log, p)

\* The walk after each place of the log, from place 0 on, where it begins.
WalkTo(log, inTree) ==
    LET acting == Acting(log)
        after[p \in 0 .. Len(log)] ==
            IF p = 0 THEN EmptyWalk ELSE WalkStep(after[p-1], log, inTree, acting, p)
    IN  after

\* runWalk.
Walk(log, inTree) == WalkTo(log, inTree)[Len(log)]

-----------------------------------------------------------------------------
(* applyExpiry: a claim without submission and a submission without quorum *)
(* lose the node when their time is over. The time is that of the newest   *)
(* event of any task.                                                      *)

ClaimExpired(w, log, n) ==
    /\ w.holder[n] # NoPin /\ w.holder[n] \notin DOMAIN w.cycles
    /\ TtlHours > 0 /\ Len(log) - w.holder[n] > TtlHours

ReviewExpired(w, log, n) ==
    /\ w.holder[n] \in DOMAIN w.cycles
    /\ Cardinality(w.voters[n]) < Quorum
    /\ WindowHours > 0 /\ Len(log) - Effective(w, w.holder[n]) > WindowHours

Expired(w, log) ==
    LET claims == {n \in Nodes : ClaimExpired(w, log, n)}
        gone == claims \cup {n \in Nodes : ReviewExpired(w, log, n)}
    IN  [w EXCEPT
            !.holder = [n \in Nodes |-> IF n \in gone THEN NoPin ELSE @[n]],
            !.voters = [n \in Nodes |-> IF n \in gone THEN {} ELSE @[n]],
            !.outcome = [n \in Nodes |-> IF n \in claims THEN "expired_claim"
                                         ELSE IF n \in gone THEN "expired_review_window"
                                         ELSE @[n]]]

-----------------------------------------------------------------------------
(* How a ballot is shown to readers, derived apart from the walk.          *)

Disposition(w, log, p) ==
    IF Malformed(log, p) THEN "malformed"
    ELSE IF BarredByRoster(log, p) THEN "same_side_roster"
    ELSE IF p \notin Acting(log) THEN "duplicate_vote_superseded"
    ELSE IF p \notin w.reached THEN "target_not_active"
    ELSE IF log[p].verdict = "pass" /\ log[p].author = log[log[p].targetid].author
         THEN "voter_is_submitter"
    ELSE IF log[p].verdict = "pass" /\ log[p].author = Publisher THEN "voter_is_task_author"
    ELSE IF log[p].verdict \in {"pass", "fail"} THEN "counted"
    ELSE "verdict_invalid"

=============================================================================
