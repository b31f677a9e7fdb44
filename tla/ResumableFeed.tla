--------------------------- MODULE ResumableFeed ----------------------------
(***************************************************************************)
(* What a resumable consumer of several numbered feeds promises: an item   *)
(* is done once it was offered to every consumer or given up on, done is   *)
(* for ever, and the durable resume point of a feed only ever covers items *)
(* that are done. How items get done, how often they are offered, what a   *)
(* crash undoes and whether the resume point falls back is left open.      *)
(***************************************************************************)
EXTENDS Naturals

CONSTANTS Feeds, First   \* First[f]: resume point before anything was consumed

VARIABLES
    done,       \* done[f]: numbers of the items of f that are done
    committed   \* committed[f]: durable resume point of f

fvars == <<done, committed>>

Init ==
    /\ committed = First
    /\ done \in [Feeds -> SUBSET Nat]

\* Some items become done.
Progress ==
    /\ done' \in [Feeds -> SUBSET Nat]
    /\ \A f \in Feeds : done[f] \subseteq done'[f]
    /\ UNCHANGED committed

\* The resume point of f moves to n.
Commit(f, n) ==
    /\ n > First[f]
    /\ (First[f] + 1) .. n \subseteq done[f]
    /\ committed' = [committed EXCEPT ![f] = n]
    /\ UNCHANGED done

Next ==
    \/ Progress
    \/ \E f \in Feeds : \E n \in done[f] : Commit(f, n)

Spec == Init /\ [][Next]_fvars
=============================================================================
