-------------------------- MODULE MCMetataskReplay --------------------------
(* A task of a root and one child, with amendments that add a grandchild,  *)
(* remove the child or shift its weight.                                   *)
EXTENDS MetataskReplay

CONSTANTS r, x, y, ann, ben, cat, dan

MCTree == [n \in {r, x} |-> IF n = r THEN [parent |-> NoParent, weight |-> 4000, title |-> "root"]
                                     ELSE [parent |-> r, weight |-> 6000, title |-> "child"]]

Reweight(n, w) == [op |-> "reweight", node |-> n, weight |-> w]

MCAmendments ==
    {<<[op |-> "add_node", node |-> y, parent |-> x, weight |-> 1000], Reweight(x, 5000)>>,
     <<[op |-> "remove_node", node |-> x], Reweight(r, Total)>>,
     <<Reweight(x, 5000)>>}

\* A script bounds the number of events of each path and the ballots cast.
Mix(claim, release, submission, verify, amend, challenge, elsewhere, ballots) ==
    [most |-> [claim |-> claim, release |-> release, submission |-> submission,
               verify |-> verify, amend |-> amend, challenge |-> challenge,
               elsewhere |-> elsewhere],
     ballots |-> ballots]

Passing == {<<ben, "pass", TRUE>>, <<cat, "pass", TRUE>>}
AnyBallot == {ann, ben, cat, dan} \X {"pass", "fail"} \X BOOLEAN

MCScripts ==
    {Mix(2, 0, 2, 4, 0, 0, 0, Passing),     \* both nodes are verified
     Mix(1, 1, 1, 2, 0, 1, 1, Passing),     \* a settled task is challenged
     Mix(1, 1, 1, 2, 1, 0, 1, Passing),     \* and amended
     Mix(2, 1, 1, 2, 0, 0, 0, Passing),     \* and claimed again
     Mix(1, 0, 2, 2, 0, 0, 2, Passing \cup {<<ann, "pass", TRUE>>}),  \* a new version
     Mix(2, 1, 2, 2, 0, 0, 0, Passing),     \* the work starts over
     Mix(1, 0, 1, 3, 0, 0, 0, AnyBallot),   \* ballots that do not act
     Mix(2, 0, 0, 0, 2, 0, 1, {})}          \* the tree is amended
=============================================================================
