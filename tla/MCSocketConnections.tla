------------------------ MODULE MCSocketConnections -------------------------
(* Three connections of a user that may have two, one without a metaid, and  *)
(* one event for the user.                                                   *)
EXTENDS SocketConnections, TLC

CONSTANTS pc1, pc2, pc3, anonymous

MCSlot == [s \in Sockets |-> IF s = anonymous THEN "none" ELSE "pc"]
MCIdentity == [x \in {"pc", "none"} |-> IF x = "none" THEN None ELSE "alice"]
MCLimit == [x \in {"pc", "none"} |-> 2]
MCTargets == [e \in Events |-> <<"alice", "alice">>]
MCSymmetry == Permutations({pc1, pc2, pc3})
=============================================================================
