------------------------------ MODULE Records ------------------------------
(***************************************************************************)
(* What the read models of the aggregators share: families of keys in one  *)
(* ordered store (internal/storage), a record read by its key, and lists   *)
(* scanned newest first.  A family whose values matter is a function from  *)
(* its keys; one that is an index is the set of its keys.                  *)
(***************************************************************************)
EXTENDS Integers, SequencesExt, FiniteSetsExt, TLC

NoPin == 0

None == [kind |-> "none"]

\* Get of a key that may be missing.
Entry(f, k) == IF k \in DOMAIN f THEN f[k] ELSE None

\* Set and Delete of a family.
With(f, k, v) == [x \in DOMAIN f \cup {k} |-> IF x = k THEN v ELSE f[x]]

Without(f, keys) == Restrict(f, DOMAIN f \ keys)

\* Set of several keys at once.
Over(f, g) == [x \in DOMAIN f \cup DOMAIN g |-> IF x \in DOMAIN f THEN f[x] ELSE g[x]]

\* A key ends in a time, stored inverted, and a source pin: a prefix scan
\* meets the newest first and the smaller pin first at the same time.
Newer(k, j) ==
    LET n == Len(k)
    IN  k[n-1] > j[n-1] \/ (k[n-1] = j[n-1] /\ k[n] < j[n])

\* The elements of a set in an order that is strict and total on it.
Sorted(S, Before(_, _)) ==
    [i \in 1..Cardinality(S) |->
        CHOOSE x \in S : Cardinality({y \in S : Before(y, x)}) = i - 1]

Scan(keys) == LET ks == Sorted(keys, Newer) IN [i \in DOMAIN ks |-> Last(ks[i])]

\* One page of a list at an offset, and whether a next cursor is given.
Page(list, offset, size) ==
    [items |-> SubSeq(list, offset + 1, Min({offset + size, Len(list)})),
     more |-> Len(list) > offset + size]

\* Following the cursors of pages from the first to the last, and all they show.
Turned(Turn(_), bound) ==
    FoldLeft(LAMBDA s, i : LET at == IF s = <<>> THEN <<>> ELSE Last(s).next
                           IN  IF s # <<>> /\ at = <<>> THEN s ELSE Append(s, Turn(at)),
             <<>>, [i \in 1..(bound + 1) |-> i])

AllOf(pages) == FlattenSeq([i \in DOMAIN pages |-> pages[i].items])

\* A list shows each of the ids once and nothing else.
Lists(list, ids) == IsInjective(list) /\ Range(list) = ids

=============================================================================
