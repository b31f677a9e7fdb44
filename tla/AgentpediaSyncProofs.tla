------------------------ MODULE AgentpediaSyncProofs ------------------------
(***************************************************************************)
(* What holds of Agentpedia for every story, size of a page and number of  *)
(* pages: the sweep brings every pin that was listed; nobody but a founder *)
(* is an editor without every step; a ruling takes effect exactly by the   *)
(* votes of its quorum; and a revision is written only by those who may.   *)
(***************************************************************************)
EXTENDS AgentpediaSync, FiniteSetTheorems, SequenceTheorems, WellFoundedInduction, TLAPS

-----------------------------------------------------------------------------
(* A finite set in its order *)

\* R is a strict total order on S, as a set of pairs.
StrictOrder(R, S) ==
    /\ \A x \in S : <<x, x>> \notin R
    /\ \A x, y, z \in S : <<x, y>> \in R /\ <<y, z>> \in R => <<x, z>> \in R
    /\ \A x, y \in S : x # y => <<x, y>> \in R \/ <<y, x>> \in R

Below(R, S, x) == {y \in S : <<y, x>> \in R}

\* The elements of S by the number of those before them.
Ranked(R, S) ==
    [i \in 1 .. Cardinality(S) |-> CHOOSE x \in S : Cardinality(Below(R, S, x)) = i - 1]

\* Each element is at one place of the ranking, and places follow the order.
LEMMA RankingLists ==
    ASSUME NEW S, IsFiniteSet(S), NEW R, StrictOrder(R, S)
    PROVE  /\ Cardinality(S) \in Nat
           /\ \A i \in 1 .. Cardinality(S) : Ranked(R, S)[i] \in S
           /\ \A x \in S : \E i \in 1 .. Cardinality(S) : Ranked(R, S)[i] = x
           /\ \A i, j \in 1 .. Cardinality(S) :
                 i < j => <<Ranked(R, S)[i], Ranked(R, S)[j]>> \in R
<1> DEFINE n == Cardinality(S)
           rank == [x \in S |-> Cardinality(Below(R, S, x)) + 1]
<1>1. n \in Nat
  BY FS_CardinalityType
<1>2. \A x \in S : Below(R, S, x) \subseteq S \ {x}
  BY DEF StrictOrder, Below
<1>3. ASSUME NEW x \in S PROVE IsFiniteSet(Below(R, S, x)) /\ rank[x] \in 1 .. n
  <2>1. IsFiniteSet(S \ {x}) /\ Cardinality(S \ {x}) = n - 1
    BY FS_RemoveElement
  <2>2. IsFiniteSet(Below(R, S, x)) /\ Cardinality(Below(R, S, x)) <= n - 1
    BY <1>2, <2>1, FS_Subset
  <2>3. Cardinality(Below(R, S, x)) \in Nat
    BY <2>2, FS_CardinalityType
  <2> QED
    BY <1>1, <2>2, <2>3
<1>4. ASSUME NEW x \in S, NEW y \in S, <<x, y>> \in R PROVE rank[x] < rank[y]
  <2>1. Below(R, S, x) \cup {x} \subseteq Below(R, S, y) /\ x \notin Below(R, S, x)
    BY <1>4 DEF StrictOrder, Below
  <2>2. /\ IsFiniteSet(Below(R, S, x) \cup {x})
        /\ Cardinality(Below(R, S, x) \cup {x}) = Cardinality(Below(R, S, x)) + 1
    BY <1>3, <2>1, FS_AddElement
  <2>3. Cardinality(Below(R, S, x) \cup {x}) <= Cardinality(Below(R, S, y))
    BY <1>3, <2>1, FS_Subset
  <2>4. Cardinality(Below(R, S, x)) \in Nat /\ Cardinality(Below(R, S, y)) \in Nat
    BY <1>3, FS_CardinalityType
  <2> QED
    BY <2>2, <2>3, <2>4
<1> HIDE DEF rank
<1>5. \A x, y \in S : rank[x] = rank[y] => x = y
  <2> SUFFICES ASSUME NEW x \in S, NEW y \in S, rank[x] = rank[y], x # y PROVE FALSE
    OBVIOUS
  <2>1. rank[x] < rank[y] \/ rank[y] < rank[x]
    BY <1>4 DEF StrictOrder
  <2> QED
    BY <1>3, <2>1
<1>6. rank \in Injection(S, 1 .. n)
  BY <1>3, <1>5 DEF rank, Injection, IsInjective
<1>7. IsFiniteSet(1 .. n) /\ Cardinality(1 .. n) = n
  BY <1>1, FS_Interval
<1>8. rank \in Surjection(S, 1 .. n)
  BY <1>6, <1>7, FS_Injection
<1>9. \A i \in 1 .. n : \E x \in S : rank[x] = i
  BY <1>8 DEF Surjection
<1>10. \A x \in S : Cardinality(Below(R, S, x)) = rank[x] - 1
  BY <1>3, FS_CardinalityType DEF rank
<1>11. ASSUME NEW i \in 1 .. n
       PROVE  /\ \E x \in S : Cardinality(Below(R, S, x)) = i - 1
              /\ \A x \in S : Cardinality(Below(R, S, x)) = i - 1 <=> rank[x] = i
  BY <1>3, <1>9, <1>10
<1>12. \A i \in 1 .. n : Ranked(R, S)[i] = CHOOSE x \in S : Cardinality(Below(R, S, x)) = i - 1
  BY DEF Ranked
<1>13. \A i \in 1 .. n : Ranked(R, S)[i] \in S /\ rank[Ranked(R, S)[i]] = i
  BY <1>11, <1>12
<1>14. \A x \in S : Ranked(R, S)[rank[x]] = x
  BY <1>3, <1>5, <1>13
<1>15. ASSUME NEW i \in 1 .. n, NEW j \in 1 .. n, i < j
       PROVE  <<Ranked(R, S)[i], Ranked(R, S)[j]>> \in R
  <2> DEFINE x == Ranked(R, S)[i]
             y == Ranked(R, S)[j]
  <2>1. x \in S /\ y \in S /\ rank[x] = i /\ rank[y] = j
    BY <1>13
  <2>2. x # y
    BY <1>15, <2>1
  <2>3. ~(<<y, x>> \in R)
    BY <1>4, <1>15, <2>1
  <2> QED
    BY <2>1, <2>2, <2>3 DEF StrictOrder
<1> QED
  BY <1>1, <1>3, <1>13, <1>14, <1>15

-----------------------------------------------------------------------------
(* The keys of a listing *)

Keys == {0, 1, 2} \X Nat \X Nat

\* A key comes after another in one way.
LEMMA KeyOrder ==
    /\ \A j \in Keys : ~After(j, j)
    /\ \A j, k, l \in Keys : After(j, k) /\ After(k, l) => After(j, l)
    /\ \A j, k \in Keys : j # k => After(j, k) \/ After(k, j)
<1>1. \A k \in Keys : /\ k = <<k[1], k[2], k[3]>>
                      /\ k[1] \in {0, 1, 2} /\ k[2] \in Nat /\ k[3] \in Nat
  BY DEF Keys
<1>2. \A j \in Keys : ~After(j, j)
  BY <1>1 DEF After
<1>3. \A j, k, l \in Keys : After(j, k) /\ After(k, l) => After(j, l)
  BY <1>1 DEF After
<1>4. ASSUME NEW j \in Keys, NEW k \in Keys, ~After(j, k), ~After(k, j) PROVE j = k
  <2>1. j[1] = k[1] /\ j[2] = k[2] /\ j[3] = k[3]
    BY <1>1, <1>4 DEF After
  <2> QED
    BY <1>1, <2>1
<1> QED
  BY <1>2, <1>3, <1>4

\* The pins of a path that come after a cursor, mined or in the mempool.
Listed(path, cursor) ==
    {e \in OnPath(Confirmed \cup {t \in Range(todo) : t.pin \in sighted}, path) :
        After(ListKey(e), cursor)}

\* Each pin has a key of its own.
Keyed(S) ==
    /\ \A e \in S : ListKey(e) \in Keys
    /\ \A e, f \in S : ListKey(e) = ListKey(f) => e = f

\* A listing goes from newer to older and has every pin once.
LEMMA ListingOrder ==
    ASSUME NEW path, NEW cursor, IsFiniteSet(Listed(path, cursor)), Keyed(Listed(path, cursor))
    PROVE  LET S == Listed(path, cursor)
               list == Listing(path, cursor)
           IN  /\ Cardinality(S) \in Nat /\ list \in Seq(S) /\ Len(list) = Cardinality(S)
               /\ \A x \in S : \E i \in 1 .. Len(list) : list[i] = x
               /\ \A i, j \in 1 .. Len(list) : i < j => After(ListKey(list[j]), ListKey(list[i]))
<1> DEFINE S == Listed(path, cursor)
           list == Listing(path, cursor)
           R == {p \in S \X S : After(ListKey(p[2]), ListKey(p[1]))}
<1>1. StrictOrder(R, S)
  BY KeyOrder DEF StrictOrder, Keyed
<1>2. \A x \in S : Below(R, S, x) = {y \in S : After(ListKey(x), ListKey(y))}
  BY DEF Below
<1>3. list = [i \in 1 .. Cardinality(S) |->
                CHOOSE x \in S : Cardinality({y \in S : After(ListKey(x), ListKey(y))}) = i - 1]
  BY DEF Listing, Sorted, Listed
<1> HIDE DEF R, S
<1>4. list = Ranked(R, S)
  BY <1>2, <1>3 DEF Ranked
<1>5. /\ Cardinality(S) \in Nat
      /\ \A i \in 1 .. Cardinality(S) : list[i] \in S
      /\ \A x \in S : \E i \in 1 .. Cardinality(S) : list[i] = x
      /\ \A i, j \in 1 .. Cardinality(S) : i < j => <<list[i], list[j]>> \in R
  <2>1. IsFiniteSet(S)
    BY DEF S
  <2> HIDE DEF list
  <2> QED
    BY <1>1, <1>4, <2>1, RankingLists
<1>6. list \in Seq(S) /\ Len(list) = Cardinality(S)
  <2>1. list \in [1 .. Cardinality(S) -> S]
    <3>1. list = [i \in 1 .. Cardinality(S) |-> list[i]]
      BY <1>3
    <3> HIDE DEF list
    <3> QED
      BY <1>5, <3>1
  <2> HIDE DEF list
  <2> QED
    BY <1>5, <2>1
<1>7. \A i, j \in 1 .. Len(list) : i < j => After(ListKey(list[j]), ListKey(list[i]))
  BY <1>5, <1>6 DEF R
<1> QED
  BY <1>5, <1>6, <1>7 DEF S

\* What a page of a listing shows: all of it, or its newest pins.
LEMMA PageShows ==
    ASSUME NEW path, NEW cursor, IsFiniteSet(Listed(path, cursor)), Keyed(Listed(path, cursor))
    PROVE  LET S == Listed(path, cursor)
               page == Page(Listing(path, cursor), 0, PageSize)
               items == page.items
           IN  /\ Range(items) \subseteq S /\ IsFiniteSet(Range(items))
               /\ page.more \in BOOLEAN
               /\ ~page.more => Range(items) = S
               /\ \A x \in S \ Range(items), y \in Range(items) : After(ListKey(x), ListKey(y))
               /\ page.more =>
                     /\ Last(items) \in Range(items)
                     /\ \A x \in Range(items) : ~After(ListKey(x), ListKey(Last(items)))
<1> DEFINE S == Listed(path, cursor)
           list == Listing(path, cursor)
           page == Page(list, 0, PageSize)
           items == page.items
           size == IF PageSize <= Len(list) THEN PageSize ELSE Len(list)
<1>1. /\ list \in Seq(S) /\ Len(list) \in Nat
      /\ \A x \in S : \E i \in 1 .. Len(list) : list[i] = x
      /\ \A i, j \in 1 .. Len(list) : i < j => After(ListKey(list[j]), ListKey(list[i]))
  BY ListingOrder
<1>0. IsFiniteSet(S) /\ Keyed(S)
  OBVIOUS
<1> HIDE DEF S
<1>2. PageSize \in Nat \ {0}
  BY SyncAssumption
<1> HIDE DEF list
<1>3. Min({0 + PageSize, Len(list)}) = size
  BY <1>1, <1>2 DEF Min
<1>4. /\ size \in Nat /\ size <= Len(list) /\ size <= PageSize
      /\ Len(list) > PageSize => size = PageSize
      /\ ~(Len(list) > PageSize) => size = Len(list)
  BY <1>1, <1>2
<1>4a. items = SubSeq(list, 1, size) /\ page.more = (Len(list) > PageSize)
  <2>1. page = [items |-> SubSeq(list, 0 + 1, size), more |-> Len(list) > 0 + PageSize]
    BY <1>3, Zenon DEF Page
  <2> HIDE DEF size, page
  <2>2. 0 + 1 = 1 /\ 0 + PageSize = PageSize
    BY <1>2
  <2> QED
    BY <2>1, <2>2
<1> DEFINE more == page.more
<1>5. items = SubSeq(list, 1, size) /\ (more <=> Len(list) > PageSize) /\ more \in BOOLEAN
  <2> DEFINE longer == Len(list) > PageSize
  <2>1. longer \in BOOLEAN
    BY <1>1, <1>2
  <2> HIDE DEF longer, page
  <2>2. more = longer
    BY <1>4a DEF longer
  <2> QED
    BY <1>4a, <2>1, <2>2, Zenon DEF longer
<1> HIDE DEF items, more, page, size
<1>6. /\ Len(items) = size /\ DOMAIN items = 1 .. size
      /\ \A i \in 1 .. size : items[i] = list[i]
  BY <1>1, <1>4, <1>5
<1>7. Range(items) = {list[i] : i \in 1 .. size}
  BY <1>6 DEF Range
<1>8. more => size = PageSize /\ Last(items) = list[size]
  BY <1>2, <1>4, <1>5, <1>6 DEF Last
<1>9. ~more => size = Len(list)
  BY <1>4, <1>5
<1>10. \A i \in 1 .. Len(list) : list[i] \in S /\ ListKey(list[i]) \in Keys
  BY <1>0, <1>1 DEF Keyed
<1>11. Range(items) \subseteq S /\ IsFiniteSet(Range(items))
  BY <1>0, <1>4, <1>7, <1>10, FS_Subset
<1>12. ~more => Range(items) = S
  BY <1>1, <1>7, <1>9, <1>11
<1>13. ASSUME NEW x \in S \ Range(items), NEW y \in Range(items)
       PROVE  After(ListKey(x), ListKey(y))
  <2>1. PICK i \in 1 .. Len(list) : list[i] = x
    BY <1>1
  <2>2. PICK j \in 1 .. size : list[j] = y
    BY <1>7
  <2>3. ~(i <= size)
    BY <1>4, <1>7, <1>13, <2>1
  <2>4. j < i /\ j \in 1 .. Len(list)
    BY <1>1, <1>4, <2>3
  <2>5. After(ListKey(list[i]), ListKey(list[j]))
    BY <1>1, <2>4
  <2> QED
    BY <2>1, <2>2, <2>5
<1>14. ASSUME more
       PROVE  /\ Last(items) \in Range(items)
              /\ \A x \in Range(items) : ~After(ListKey(x), ListKey(Last(items)))
  <2>1. size \in 1 .. size /\ Last(items) = list[size]
    BY <1>2, <1>8, <1>14
  <2>2. ASSUME NEW x \in Range(items) PROVE ~After(ListKey(x), ListKey(Last(items)))
    <3>1. PICK i \in 1 .. size : list[i] = x
      BY <1>7
    <3>0. i = size \/ (i < size /\ i \in 1 .. Len(list) /\ size \in 1 .. Len(list))
      BY <1>1, <1>4, <2>1
    <3>2. i = size \/ After(ListKey(list[size]), ListKey(x))
      BY <1>1, <3>0, <3>1
    <3>3. ListKey(list[size]) \in Keys /\ ListKey(x) \in Keys
      BY <1>4, <1>10, <2>1, <3>1
    <3> QED
      BY <2>1, <3>1, <3>2, <3>3, KeyOrder
  <2> QED
    BY <1>7, <2>1, <2>2
<1>15. more \in BOOLEAN
  BY <1>5
<1>16. /\ Range(items) \subseteq S /\ IsFiniteSet(Range(items)) /\ more \in BOOLEAN
       /\ ~more => Range(items) = S
       /\ \A x \in S \ Range(items), y \in Range(items) : After(ListKey(x), ListKey(y))
       /\ more =>
             /\ Last(items) \in Range(items)
             /\ \A x \in Range(items) : ~After(ListKey(x), ListKey(Last(items)))
  BY <1>11, <1>12, <1>13, <1>14, <1>15
<1> QED
  BY <1>16 DEF S, items, more, page, list

-----------------------------------------------------------------------------
(* The invariant *)

At(e) == <<0, e.h, e.tx>>

\* The mined pins are in the order of the chain, each of them once.
LogInv ==
    /\ chain \in Seq(Confirmed)
    /\ \A e \in Confirmed : e.h \in Nat /\ e.tx \in Nat /\ e.pin \in Nat /\ e.pin \notin sighted
    /\ \A e, f \in Confirmed : e # f => e.pin # f.pin /\ (ChainOrder(e, f) \/ ChainOrder(f, e))
    /\ chain # <<>> => \A e \in Confirmed : e = Last(chain) \/ ChainOrder(e, Last(chain))

\* What is still to be mined is not in the chain, and each of it once.
TodoInv ==
    /\ todo \in Seq(Range(todo))
    /\ \A i, j \in 1 .. Len(todo) : todo[i].pin = todo[j].pin => i = j
    /\ \A t \in Range(todo) : /\ {"pin", "path", "wait", "h", "tx"} \subseteq DOMAIN t
                              /\ t.pin \in Nat /\ t.wait \in Nat
                              /\ \A e \in Confirmed : e.pin # t.pin

\* A cursor is the key of a pin, mined or in the mempool, and empty before the
\* first page of a path.
SweepInv ==
    /\ sweep = [path |-> sweep.path, cursor |-> sweep.cursor,
                pages |-> sweep.pages, applied |-> sweep.applied]
    /\ sweep.path \in 0 .. (Len(Paths) + 1) /\ sweep.pages \in Nat /\ sweep.applied \in Nat
    /\ sweep.pages = 0 => sweep.cursor = Top
    /\ sweep.path \notin DOMAIN Paths => sweep.pages = 0
    /\ \/ sweep.cursor = Top
       \/ \E n \in Nat : sweep.cursor = <<1, 0, n>>
       \/ \E c \in Confirmed : sweep.cursor = At(c)

\* A mined pin that was seen is pooled or skipped.
PoolInv ==
    /\ pool \cup skipped = {e \in Confirmed : e.pin \in seen}
    /\ pool \cap skipped = {}
    /\ seen \subseteq {e.pin : e \in Confirmed}

\* A mined pin of the path in hand that is after the cursor of the sweep.
Open(e) ==
    /\ sweep.path \in DOMAIN Paths /\ sweep.pages > 0
    /\ e.path = SweepPath /\ After(At(e), sweep.cursor)

\* With a pin of a path all older ones are due.  What the sweep comes to after
\* a mined pin was there when it came to that.
DueInv ==
    /\ due \subseteq Confirmed
    /\ \A e \in Confirmed : e.pin \in seen => e \in due
    /\ \A e \in due, f \in Confirmed : f.path = e.path /\ ChainOrder(f, e) => f \in due
    /\ \A e \in Confirmed : Open(e) /\ sweep.cursor[1] = 0 => e \in due

\* Unless a path was left early, all that is due was seen, except after the
\* cursor, and there nothing older than a seen pin was missed.
ReachInv ==
    ~torn =>
        /\ \A e \in due : ~Open(e) => e.pin \in seen
        /\ \A e, f \in Confirmed :
              Open(e) /\ e.pin \in seen /\ f.path = e.path /\ ChainOrder(f, e) => f.pin \in seen

\* The view is the replay of the pool, until something is added to it.
ViewInv == ~behind /\ sweep.applied = 0 => view = Replay(pool)

AInv == LogInv /\ TodoInv /\ SweepInv /\ PoolInv /\ DueInv /\ ReachInv /\ ViewInv

-----------------------------------------------------------------------------
(* Pins and their keys *)

\* There are seven paths.
LEMMA PathsDomain == Len(Paths) = 7 /\ DOMAIN Paths = 1 .. 7
BY DEF Paths

\* The elements of a sequence are finitely many.
LEMMA RangeFinite ==
    ASSUME NEW S, NEW q \in Seq(S)
    PROVE  IsFiniteSet(Range(q)) /\ Range(q) \subseteq S
<1> DEFINE D == 1 .. Len(q)
           f == [i \in D |-> q[i]]
<1>1. Range(q) = {q[i] : i \in D} /\ Range(q) \subseteq S
  BY DEF Range
<1>2. IsFiniteSet(D)
  BY FS_Interval
<1>3. f \in Surjection(D, Range(q))
  BY <1>1 DEF Surjection
<1> QED
  BY <1>1, <1>2, <1>3, FS_Surjection

\* The keys of mined pins are in the order of the chain.
LEMMA MinedKeys ==
    ASSUME LogInv
    PROVE  /\ \A e \in Confirmed : ListKey(e) = At(e) /\ At(e) \in Keys /\ At(e)[1] = 0
           /\ \A e, f \in Confirmed : After(At(f), At(e)) <=> ChainOrder(f, e)
           /\ \A e, f \in Confirmed : e.pin = f.pin => e = f
           /\ \A e \in Confirmed : After(At(e), Top)
           /\ \A n : \A e \in Confirmed : After(At(e), <<1, 0, n>>)
BY DEF LogInv, ListKey, At, Keys, After, ChainOrder, Top

\* What is listed has keys of its own.
LEMMA ListedKeys ==
    ASSUME LogInv, TodoInv, NEW path, NEW cursor
    PROVE  /\ IsFiniteSet(Listed(path, cursor)) /\ Keyed(Listed(path, cursor))
           /\ \A e \in Listed(path, cursor) :
                 \/ e \in Confirmed
                 \/ e.pin \in Nat /\ e.pin \in sighted /\ ListKey(e) = <<1, 0, e.pin>>
<1> DEFINE S == Listed(path, cursor)
<1>1. IsFiniteSet(Confirmed) /\ IsFiniteSet(Range(todo))
  BY RangeFinite DEF LogInv, TodoInv, Confirmed
<1>2. IsFiniteSet(Confirmed \cup Range(todo))
  BY <1>1, FS_Union
<1>3. S \subseteq Confirmed \cup Range(todo)
  BY DEF Listed, OnPath
<1>4. IsFiniteSet(S)
  BY <1>2, <1>3, FS_Subset
<1>5. \A e \in S : \/ e \in Confirmed /\ ListKey(e) = At(e)
                   \/ e \in Range(todo) /\ e.pin \in Nat /\ e.pin \in sighted /\ ListKey(e) = <<1, 0, e.pin>>
  BY MinedKeys DEF Listed, OnPath, ListKey, TodoInv
<1>6. \A e, f \in Confirmed : At(e) = At(f) => e = f
  BY MinedKeys, KeyOrder DEF LogInv
<1>7. \A e, f \in Range(todo) : e.pin = f.pin => e = f
  <2>1. Range(todo) = {todo[i] : i \in 1 .. Len(todo)}
    BY DEF TodoInv, Range
  <2> QED
    BY <2>1 DEF TodoInv
<1>8. \A n : \A e \in Confirmed : At(e) # <<1, 0, n>>
  BY DEF At
<1>9. \A n \in Nat : <<1, 0, n>> \in Keys
  BY DEF Keys
<1>10. \A m, n : <<1, 0, m>> = <<1, 0, n>> => m = n
  OBVIOUS
<1>11. Keyed(S)
  BY <1>5, <1>6, <1>7, <1>8, <1>9, <1>10, MinedKeys DEF Keyed
<1> QED
  BY <1>4, <1>5, <1>11

-----------------------------------------------------------------------------
(* A page is taken *)

\* The page a sweep is at, and the pins it may still list.
Here == Listed(SweepPath, sweep.cursor)
ThisPage == Page(Listing(SweepPath, sweep.cursor), 0, PageSize)

\* Of a path in hand: what is before the cursor was seen, what is after it is
\* due, and nothing older than a seen pin was missed.
LEMMA PathInHand ==
    ASSUME AInv, sweep.path \in DOMAIN Paths
    PROVE  LET due2 == due \cup (IF sweep.cursor[1] # 0 THEN OnPath(Confirmed, SweepPath) ELSE {})
               next(e) == e \in Confirmed /\ e.path = SweepPath /\ After(At(e), sweep.cursor)
           IN  /\ \A e : next(e) => e \in due2
               /\ ~torn => \A e \in due2 : ~next(e) => e.pin \in seen
               /\ ~torn => \A e, f : next(e) /\ e.pin \in seen /\ next(f) /\ ChainOrder(f, e)
                                   => f.pin \in seen
               /\ due2 \subseteq Confirmed
               /\ \A e \in due2, f \in Confirmed :
                     f.path = e.path /\ ChainOrder(f, e) => f \in due2
               /\ \A e \in Confirmed : e.pin \in seen => e \in due2
<1> DEFINE path == SweepPath
           early == sweep.cursor[1] # 0
           mine == OnPath(Confirmed, path)
           due2 == due \cup (IF early THEN mine ELSE {})
           next(e) == e \in Confirmed /\ e.path = path /\ After(At(e), sweep.cursor)
<1>1. LogInv /\ SweepInv /\ DueInv /\ ReachInv
  BY DEF AInv
<1>2. sweep.pages \in Nat /\ (sweep.pages = 0 => sweep.cursor = Top)
  BY <1>1 DEF SweepInv
<1>3. mine = {e \in Confirmed : e.path = path}
  BY DEF OnPath
<1>4. early => \A e \in mine : After(At(e), sweep.cursor)
  <2>1. \A c \in Confirmed : At(c)[1] = 0
    BY DEF At
  <2> QED
    BY <1>1, <1>3, <2>1, MinedKeys DEF SweepInv
<1>5. sweep.pages = 0 => early
  BY <1>2 DEF Top
<1>6. \A e : Open(e) <=> sweep.pages > 0 /\ e.path = path /\ After(At(e), sweep.cursor)
  BY DEF Open
<1> HIDE DEF path, early, mine
<1>7. \A e : next(e) => e \in due2
  BY <1>1, <1>2, <1>3, <1>5, <1>6 DEF DueInv, early
<1>8. ASSUME ~torn, NEW e \in due2, ~next(e) PROVE e.pin \in seen
  <2>1. e \in due
    BY <1>3, <1>4, <1>8
  <2>2. e \in Confirmed
    BY <1>1, <2>1 DEF DueInv
  <2>3. ~Open(e)
    BY <1>6, <1>8, <2>2
  <2> QED
    BY <1>1, <1>8, <2>1, <2>3 DEF ReachInv
<1>9. ASSUME ~torn, NEW e, NEW f, next(e), e.pin \in seen, next(f), ChainOrder(f, e)
      PROVE  f.pin \in seen
  <2>1. CASE sweep.pages > 0
    BY <1>1, <1>6, <1>9, <2>1 DEF ReachInv
  <2>2. CASE sweep.pages = 0
    <3>1. f \in due
      BY <1>1, <1>9 DEF DueInv
    <3>2. ~Open(f)
      BY <1>6, <2>2
    <3> QED
      BY <1>1, <1>9, <3>1, <3>2 DEF ReachInv
  <2> QED
    BY <1>2, <2>1, <2>2
<1>10. due2 \subseteq Confirmed /\ \A e \in Confirmed : e.pin \in seen => e \in due2
  BY <1>1, <1>3 DEF DueInv
<1>11. \A e \in due2, f \in Confirmed : f.path = e.path /\ ChainOrder(f, e) => f \in due2
  BY <1>1, <1>3 DEF DueInv
<1> HIDE DEF due2, next
<1>12. /\ \A e : next(e) => e \in due2
       /\ ~torn => \A e \in due2 : ~next(e) => e.pin \in seen
       /\ ~torn => \A e, f : next(e) /\ e.pin \in seen /\ next(f) /\ ChainOrder(f, e)
                           => f.pin \in seen
       /\ due2 \subseteq Confirmed
       /\ \A e \in due2, f \in Confirmed : f.path = e.path /\ ChainOrder(f, e) => f \in due2
       /\ \A e \in Confirmed : e.pin \in seen => e \in due2
  BY <1>7, <1>8, <1>9, <1>10, <1>11
<1> QED
  BY <1>12 DEF due2, next, early, mine, path

\* What a page brings: pins that were not seen, and all the mined ones of it are
\* seen with it.
LEMMA PageNews ==
    ASSUME AInv, sweep.path \in DOMAIN Paths
    PROVE  LET items == Range(ThisPage.items)
               news == NewOn(ThisPage.items)
               next(e) == e \in Confirmed /\ e.path = SweepPath /\ After(At(e), sweep.cursor)
           IN  /\ IsFiniteSet(news) /\ ThisPage.more \in BOOLEAN
               /\ news = {e \in items : e \in Confirmed /\ e.pin \notin seen}
               /\ \A e \in items : e \in Confirmed => next(e)
               /\ ~ThisPage.more => \A e : next(e) => e \in items
               /\ \A e \in items : e.pin \in seen => e \in Confirmed
               /\ \A e : next(e) /\ e \notin items =>
                     \A f \in items : f \in Confirmed => ChainOrder(e, f)
<1> DEFINE items == Range(ThisPage.items)
           more == ThisPage.more
           news == NewOn(ThisPage.items)
           next(e) == e \in Confirmed /\ e.path = SweepPath /\ After(At(e), sweep.cursor)
<1>1. LogInv /\ TodoInv /\ PoolInv
  BY DEF AInv
<1>2. /\ IsFiniteSet(Here) /\ Keyed(Here)
      /\ \A e \in Here : \/ e \in Confirmed
                         \/ e.pin \in Nat /\ e.pin \in sighted /\ ListKey(e) = <<1, 0, e.pin>>
  BY <1>1, ListedKeys DEF Here
<1>3. /\ items \subseteq Here /\ IsFiniteSet(items) /\ more \in BOOLEAN
      /\ ~more => items = Here
      /\ \A x \in Here \ items, y \in items : After(ListKey(x), ListKey(y))
  BY <1>2, PageShows DEF Here, ThisPage
<1>4. \A e \in Confirmed : e \in Here <=> next(e)
  BY <1>1, MinedKeys DEF Here, Listed, OnPath
<1>5. \A e \in Confirmed : e.pin \notin sighted
  BY <1>1 DEF LogInv
<1>6. news = {e \in items : e.pin \notin seen /\ e.pin \notin sighted}
  BY DEF NewOn
<1> HIDE DEF items, more, news
<1>7. news = {e \in items : e \in Confirmed /\ e.pin \notin seen}
  BY <1>2, <1>3, <1>5, <1>6
<1>8. IsFiniteSet(news)
  BY <1>3, <1>7, FS_Subset
<1>9. \A e \in items : e.pin \in seen => e \in Confirmed
  <2>1. \A e : e.pin \in seen => e.pin \notin sighted
    BY <1>1, <1>5 DEF PoolInv
  <2> QED
    BY <1>2, <1>3, <2>1
<1>10. \A e, f : next(e) /\ e \notin items /\ f \in items /\ f \in Confirmed => ChainOrder(e, f)
  BY <1>1, <1>3, <1>4, MinedKeys
<1> HIDE DEF next
<1>11. /\ \A e \in items : e \in Confirmed => next(e)
       /\ ~more => \A e : next(e) => e \in items
  BY <1>3, <1>4 DEF next
<1>12. /\ IsFiniteSet(news) /\ more \in BOOLEAN
       /\ news = {e \in items : e \in Confirmed /\ e.pin \notin seen}
       /\ \A e \in items : e \in Confirmed => next(e)
       /\ ~more => \A e : next(e) => e \in items
       /\ \A e \in items : e.pin \in seen => e \in Confirmed
       /\ \A e : next(e) /\ e \notin items =>
             \A f \in items : f \in Confirmed => ChainOrder(e, f)
  BY <1>3, <1>7, <1>8, <1>9, <1>10, <1>11
<1> QED
  BY <1>12 DEF items, more, news, next

\* The mined pins and their order stay when neither chain nor mempool changes.
LEMMA ChainStays ==
    ASSUME LogInv, TodoInv, UNCHANGED chainVars
    PROVE  LogInv' /\ TodoInv' /\ Confirmed' = Confirmed
BY DEF LogInv, TodoInv, chainVars, Confirmed, ChainOrder

\* The last pin of a page that has more behind it.
LEMMA LastOfPage ==
    ASSUME AInv, sweep.path \in DOMAIN Paths, ThisPage.more
    PROVE  LET end == ListKey(Last(ThisPage.items))
           IN  /\ end \in Keys
               /\ \/ \E n \in Nat : end = <<1, 0, n>>
                  \/ \E c \in Confirmed : end = At(c)
               /\ \A e : e \in Range(ThisPage.items) /\ e \in Confirmed => ~After(At(e), end)
               /\ \A e \in Confirmed : After(At(e), end) => After(At(e), sweep.cursor)
               /\ \A e \in Confirmed \ Range(ThisPage.items) :
                     e.path = SweepPath /\ After(At(e), sweep.cursor) => After(At(e), end)
<1> DEFINE items == Range(ThisPage.items)
           last == Last(ThisPage.items)
           end == ListKey(last)
<1>1. LogInv /\ TodoInv /\ SweepInv
  BY DEF AInv
<1>2. /\ IsFiniteSet(Here) /\ Keyed(Here)
      /\ \A e \in Here : \/ e \in Confirmed
                         \/ e.pin \in Nat /\ e.pin \in sighted /\ ListKey(e) = <<1, 0, e.pin>>
  BY <1>1, ListedKeys DEF Here
<1>3. /\ items \subseteq Here /\ last \in items
      /\ \A x \in items : ~After(ListKey(x), ListKey(last))
      /\ \A x \in Here \ items, y \in items : After(ListKey(x), ListKey(y))
  BY <1>2, PageShows DEF Here, ThisPage
<1>3a. \A e \in Confirmed : e.path = SweepPath /\ After(At(e), sweep.cursor) => e \in Here
  BY <1>1, MinedKeys DEF Here, Listed, OnPath
<1>4. After(ListKey(last), sweep.cursor)
  BY <1>3 DEF Here, Listed
<1> HIDE DEF items, last
<1>5. end \in Keys
  BY <1>2, <1>3 DEF Keyed
<1>6. \/ \E n \in Nat : end = <<1, 0, n>>
      \/ \E c \in Confirmed : end = At(c)
  BY <1>1, <1>2, <1>3, MinedKeys
<1>7. \A e : e \in items /\ e \in Confirmed => ~After(At(e), end)
  BY <1>1, <1>3, MinedKeys
<1>8. sweep.cursor \in Keys
  <2>1. Top \in Keys /\ \A n \in Nat : <<1, 0, n>> \in Keys
    BY DEF Top, Keys
  <2> QED
    BY <1>1, <2>1, MinedKeys DEF SweepInv
<1>9. \A e \in Confirmed : After(At(e), end) => After(At(e), sweep.cursor)
  BY <1>1, <1>4, <1>5, <1>8, KeyOrder, MinedKeys
<1>9a. \A e \in Confirmed \ items :
         e.path = SweepPath /\ After(At(e), sweep.cursor) => After(At(e), end)
  BY <1>1, <1>3, <1>3a, MinedKeys
<1> HIDE DEF end
<1>10. /\ end \in Keys
       /\ \/ \E n \in Nat : end = <<1, 0, n>>
          \/ \E c \in Confirmed : end = At(c)
       /\ \A e : e \in items /\ e \in Confirmed => ~After(At(e), end)
       /\ \A e \in Confirmed : After(At(e), end) => After(At(e), sweep.cursor)
       /\ \A e \in Confirmed \ items :
             e.path = SweepPath /\ After(At(e), sweep.cursor) => After(At(e), end)
  BY <1>5, <1>6, <1>7, <1>9, <1>9a
<1> QED
  BY <1>10 DEF end, last, items

\* A page is taken, and the path is done with it or not.
LEMMA PageTaken ==
    ASSUME AInv, sweep.path \in DOMAIN Paths, NEW lost, TakePage(ThisPage.items, ThisPage.more, lost),
           due' = due \cup (IF sweep.cursor[1] # 0 THEN OnPath(Confirmed, SweepPath) ELSE {}),
           torn' = (torn \/ (ThisPage.more /\ sweep.pages + 1 = MaxPages)),
           UNCHANGED <<chainVars, view, behind>>
    PROVE  AInv'
<1> DEFINE path == SweepPath
           items == Range(ThisPage.items)
           more == ThisPage.more
           news == NewOn(ThisPage.items)
           next(e) == e \in Confirmed /\ e.path = path /\ After(At(e), sweep.cursor)
           known == \E e \in items : e.pin \in seen
           full == sweep.pages + 1 = MaxPages
           done == PathDone(ThisPage.items, ThisPage.more)
           end == ListKey(Last(ThisPage.items))
           due2 == due \cup (IF sweep.cursor[1] # 0 THEN OnPath(Confirmed, path) ELSE {})
<1>1. LogInv /\ TodoInv /\ SweepInv /\ PoolInv /\ ViewInv
  BY DEF AInv
<1>2. LogInv' /\ TodoInv' /\ Confirmed' = Confirmed
  BY <1>1, ChainStays
<1>3. /\ IsFiniteSet(news) /\ more \in BOOLEAN
      /\ news = {e \in items : e \in Confirmed /\ e.pin \notin seen}
      /\ \A e \in items : e \in Confirmed => next(e)
      /\ ~more => \A e : next(e) => e \in items
      /\ \A e \in items : e.pin \in seen => e \in Confirmed
      /\ \A e : next(e) /\ e \notin items =>
            \A f \in items : f \in Confirmed => ChainOrder(e, f)
  BY PageNews
<1>4. /\ \A e : next(e) => e \in due2
      /\ ~torn => \A e \in due2 : ~next(e) => e.pin \in seen
      /\ ~torn => \A e, f : next(e) /\ e.pin \in seen /\ next(f) /\ ChainOrder(f, e)
                          => f.pin \in seen
      /\ due2 \subseteq Confirmed
      /\ \A e \in due2, f \in Confirmed : f.path = e.path /\ ChainOrder(f, e) => f \in due2
      /\ \A e \in Confirmed : e.pin \in seen => e \in due2
  BY PathInHand
<1>5. more => /\ end \in Keys
              /\ \/ \E n \in Nat : end = <<1, 0, n>>
                 \/ \E c \in Confirmed : end = At(c)
              /\ \A e : e \in items /\ e \in Confirmed => ~After(At(e), end)
              /\ \A e \in Confirmed : After(At(e), end) => After(At(e), sweep.cursor)
              /\ \A e \in Confirmed \ items :
                    e.path = path /\ After(At(e), sweep.cursor) => After(At(e), end)
  BY LastOfPage
<1>6. /\ lost \subseteq news
      /\ seen' = seen \cup {e.pin : e \in news}
      /\ pool' = pool \cup (news \ lost)
      /\ skipped' = skipped \cup lost
      /\ done => sweep' = [path |-> sweep.path + 1, cursor |-> Top, pages |-> 0,
                           applied |-> sweep.applied + Cardinality(news \ lost)]
      /\ ~done => sweep' = [path |-> sweep.path, cursor |-> end, pages |-> sweep.pages + 1,
                            applied |-> sweep.applied + Cardinality(news \ lost)]
  BY DEF TakePage
<1>7. done <=> (~more \/ full \/ known)
  BY DEF PathDone
<1>8. due' = due2 /\ (~torn' => ~torn /\ ~(more /\ full))
  OBVIOUS
<1>9. /\ sweep.path \in 1 .. 7 /\ sweep.pages \in Nat /\ sweep.applied \in Nat
      /\ DOMAIN Paths = 1 .. 7 /\ Len(Paths) = 7
  BY <1>1, PathsDomain DEF SweepInv
<1>10. /\ \A e \in Confirmed : At(e)' = At(e)
       /\ view' = view /\ (behind' <=> behind)
  BY DEF At
<1>11. IsFiniteSet(news \ lost) /\ Cardinality(news \ lost) \in Nat
  BY <1>3, FS_Subset, FS_CardinalityType
<1> HIDE DEF items, more, news, known, full, done, end, due2, path
<1>12. \A e \in Confirmed : e.pin \in seen' <=> e.pin \in seen \/ e \in news
  <2>1. \A e, f \in Confirmed : e.pin = f.pin => e = f
    BY <1>1, MinedKeys
  <2> QED
    BY <1>3, <1>6, <2>1
<1>13. \A e \in items : e \in Confirmed => e.pin \in seen'
  BY <1>3, <1>12
<1>14. PoolInv'
  <2>1. pool' \cup skipped' = {e \in Confirmed : e.pin \in seen'}
    BY <1>1, <1>3, <1>6, <1>12 DEF PoolInv
  <2>2. pool' \cap skipped' = {}
    BY <1>1, <1>3, <1>6 DEF PoolInv
  <2>3. seen' \subseteq {e.pin : e \in Confirmed}
    BY <1>1, <1>3, <1>6 DEF PoolInv
  <2> QED
    BY <1>2, <2>1, <2>2, <2>3 DEF PoolInv
<1>15. ViewInv'
  <2>1. SUFFICES ASSUME ~behind, sweep'.applied = 0 PROVE view = Replay(pool')
    BY <1>10 DEF ViewInv
  <2>2. sweep'.applied = sweep.applied + Cardinality(news \ lost)
    BY <1>6
  <2>3. sweep.applied = 0 /\ Cardinality(news \ lost) = 0
    BY <1>9, <1>11, <2>1, <2>2
  <2>4. news \ lost = {}
    BY <1>11, <2>3, FS_EmptySet
  <2>5. pool' = pool
    BY <1>6, <2>4
  <2> QED
    BY <1>1, <2>1, <2>3, <2>5 DEF ViewInv
<1>16. /\ due2 \subseteq Confirmed
       /\ \A e \in Confirmed : e.pin \in seen' => e \in due2
       /\ \A e \in due2, f \in Confirmed : f.path = e.path /\ ChainOrder(f, e) => f \in due2
  BY <1>3, <1>4, <1>12
<1>17. CASE done
  <2>1. sweep'.pages = 0 /\ sweep'.path = sweep.path + 1 /\ sweep'.cursor = Top
    BY <1>6, <1>17
  <2>2. \A e : ~Open(e)'
    BY <2>1 DEF Open
  <2>3. SweepInv'
    BY <1>6, <1>9, <1>11, <1>17 DEF SweepInv
  <2>4. DueInv'
    BY <1>2, <1>8, <1>16, <2>2 DEF DueInv, ChainOrder
  <2>5. ASSUME ~torn', NEW e \in due2 PROVE e.pin \in seen'
    <3>1. CASE ~next(e)
      BY <1>4, <1>6, <1>8, <2>5, <3>1
    <3>2. CASE next(e) /\ e \in items
      BY <1>13, <3>2
    <3>3. CASE next(e) /\ e \notin items
      <4>1. more
        BY <1>3, <3>3
      <4>2. known
        BY <1>7, <1>8, <1>17, <2>5, <4>1
      <4>3. PICK f \in items : f.pin \in seen
        BY <4>2 DEF known
      <4>4. f \in Confirmed /\ next(f) /\ ChainOrder(e, f)
        BY <1>3, <3>3, <4>3
      <4>5. e.pin \in seen
        BY <1>4, <1>8, <2>5, <3>3, <4>3, <4>4
      <4> QED
        BY <1>6, <4>5
    <3> QED
      BY <3>1, <3>2, <3>3
  <2>6. ReachInv'
    BY <1>8, <2>2, <2>5 DEF ReachInv
  <2> QED
    BY <1>2, <1>14, <1>15, <2>3, <2>4, <2>6 DEF AInv
<1>18. CASE ~done
  <2>1. more /\ ~known
    BY <1>7, <1>18
  <2>2. sweep'.pages = sweep.pages + 1 /\ sweep'.path = sweep.path /\ sweep'.cursor = end
    BY <1>6, <1>18
  <2>3. \A e \in Confirmed : Open(e)' <=> e.path = path /\ After(At(e), end)
    BY <1>9, <1>10, <2>2 DEF Open, SweepPath, After, path
  <2>4. SweepInv'
    <3>1. \/ \E n \in Nat : end = <<1, 0, n>>
          \/ \E c \in Confirmed' : end = At(c)'
      BY <1>2, <1>5, <1>10, <2>1
    <3> QED
      BY <1>6, <1>9, <1>11, <1>18, <3>1 DEF SweepInv
  <2>5. \A e \in Confirmed : Open(e)' => next(e)
    BY <1>5, <2>1, <2>3
  <2>6. DueInv'
    BY <1>2, <1>4, <1>8, <1>16, <2>5 DEF DueInv, ChainOrder
  <2>7. ASSUME ~torn', NEW e \in due2, ~Open(e)' PROVE e.pin \in seen'
    <3>1. CASE ~next(e)
      BY <1>4, <1>6, <1>8, <2>7, <3>1
    <3>2. CASE e \in items
      BY <1>4, <1>13, <3>2
    <3>3. CASE next(e) /\ e \notin items
      <4>1. After(At(e), end)
        BY <1>5, <2>1, <3>3
      <4> QED
        BY <2>3, <2>7, <3>3, <4>1
    <3> QED
      BY <3>1, <3>2, <3>3
  <2>8. ASSUME ~torn', NEW e \in Confirmed, NEW f \in Confirmed,
               Open(e)', e.pin \in seen', f.path = e.path, ChainOrder(f, e)
        PROVE  f.pin \in seen'
    <3>1. e \notin items
      BY <1>5, <2>1, <2>3, <2>8
    <3>2. e.pin \in seen
      BY <1>3, <1>12, <2>8, <3>1
    <3>3. next(e)
      BY <2>5, <2>8
    <3>4. f \in due2
      BY <1>4, <2>8, <3>3
    <3>5. CASE next(f)
      BY <1>4, <1>6, <1>8, <2>8, <3>2, <3>3, <3>5
    <3>6. CASE ~next(f)
      BY <1>4, <1>6, <1>8, <2>8, <3>4, <3>6
    <3> QED
      BY <3>5, <3>6
  <2>9. ReachInv'
    BY <1>2, <1>8, <2>7, <2>8 DEF ReachInv, ChainOrder
  <2> QED
    BY <1>2, <1>14, <1>15, <2>4, <2>6, <2>9 DEF AInv
<1> QED
  BY <1>17, <1>18

-----------------------------------------------------------------------------
(* The other steps of a sweep *)

\* What the sweep knows stays so while its state and the chain do.
LEMMA SweepStays ==
    ASSUME AInv, LogInv', TodoInv', Confirmed' = Confirmed, UNCHANGED syncVars
    PROVE  AInv'
<1>1. /\ sweep' = sweep /\ seen' = seen /\ pool' = pool /\ skipped' = skipped /\ view' = view
      /\ due' = due /\ torn' = torn /\ behind' = behind
  BY DEF syncVars
<1>2. SweepInv'
  BY <1>1 DEF AInv, SweepInv, At
<1>3. PoolInv' /\ ViewInv'
  BY <1>1 DEF AInv, PoolInv, ViewInv
<1>4. \A e : Open(e)' <=> Open(e)
  BY <1>1 DEF Open, SweepPath, After, At
<1>5. DueInv'
  BY <1>1, <1>4 DEF AInv, DueInv, ChainOrder
<1>6. ReachInv'
  BY <1>1, <1>4 DEF AInv, ReachInv, ChainOrder
<1> QED
  BY <1>2, <1>3, <1>5, <1>6 DEF AInv

\* A page that comes, with all its payloads or with one of them lost.
LEMMA FetchStep ==
    ASSUME AInv, FetchPage
    PROVE  AInv'
<1>1. sweep.path \in DOMAIN Paths
  BY DEF FetchPage
<1>2. /\ due' = due \cup (IF sweep.cursor[1] # 0 THEN OnPath(Confirmed, SweepPath) ELSE {})
      /\ torn' = (torn \/ (ThisPage.more /\ sweep.pages + 1 = MaxPages))
      /\ UNCHANGED <<chainVars, view, behind>>
  BY Zenon DEF FetchPage, ThisPage
<1>3. \E lost : TakePage(ThisPage.items, ThisPage.more, lost)
  BY Zenon DEF FetchPage, ThisPage
<1> QED
  BY <1>1, <1>2, <1>3, PageTaken

\* A page fails: the path is complete all the same if nothing more was listed.
LEMMA FailStep ==
    ASSUME AInv, FetchFails
    PROVE  AInv'
<1>1. LogInv /\ TodoInv /\ SweepInv /\ PoolInv /\ DueInv /\ ReachInv /\ ViewInv
  BY DEF AInv
<1>2. UNCHANGED chainVars /\ LogInv' /\ TodoInv' /\ Confirmed' = Confirmed
  BY <1>1, ChainStays DEF FetchFails
<1>3. /\ sweep' = Idle /\ seen' = seen /\ pool' = pool /\ skipped' = skipped /\ view' = view
      /\ due' = due /\ sweep.path \in DOMAIN Paths
      /\ ~behind' => ~behind /\ ~(sweep.applied > 0)
      /\ ~torn' => ~torn /\ ~(sweep.pages > 0 /\ Listing(SweepPath, sweep.cursor) # <<>>)
  BY DEF FetchFails
<1>4. \A e : ~Open(e)'
  BY <1>3 DEF Open, Idle
<1>5. SweepInv'
  BY <1>3, PathsDomain DEF SweepInv, Idle
<1>6. PoolInv'
  BY <1>1, <1>2, <1>3 DEF PoolInv
<1>7. ViewInv'
  BY <1>1, <1>3 DEF ViewInv, SweepInv
<1>8. DueInv'
  BY <1>1, <1>2, <1>3, <1>4 DEF DueInv, ChainOrder
<1>9. ASSUME ~torn', NEW e \in due PROVE e.pin \in seen
  <2>1. CASE ~Open(e)
    BY <1>1, <1>3, <1>9, <2>1 DEF ReachInv
  <2>2. CASE Open(e)
    <3>1. Listing(SweepPath, sweep.cursor) = <<>>
      BY <1>3, <1>9, <2>2 DEF Open
    <3>2. e \in Listed(SweepPath, sweep.cursor)
      BY <1>1, <2>2, MinedKeys DEF Open, DueInv, Listed, OnPath
    <3>3. /\ IsFiniteSet(Listed(SweepPath, sweep.cursor))
          /\ Keyed(Listed(SweepPath, sweep.cursor))
      BY <1>1, ListedKeys
    <3>4. \E i \in 1 .. Len(Listing(SweepPath, sweep.cursor)) :
             Listing(SweepPath, sweep.cursor)[i] = e
      BY <3>2, <3>3, ListingOrder
    <3> QED
      BY <3>1, <3>4
  <2> QED
    BY <2>1, <2>2
<1>10. ReachInv'
  BY <1>3, <1>4, <1>9 DEF ReachInv
<1> QED
  BY <1>2, <1>5, <1>6, <1>7, <1>8, <1>10 DEF AInv

\* A sweep begins.
LEMMA StartStep ==
    ASSUME AInv, StartSweep
    PROVE  AInv'
<1>1. LogInv /\ TodoInv /\ SweepInv /\ PoolInv /\ DueInv /\ ReachInv /\ ViewInv
  BY DEF AInv
<1>2. LogInv' /\ TodoInv' /\ Confirmed' = Confirmed
  BY <1>1, ChainStays DEF StartSweep
<1>3. /\ seen' = seen /\ pool' = pool /\ skipped' = skipped /\ view' = view
      /\ due' = due /\ torn' = torn /\ behind' = behind
      /\ sweep = Idle /\ sweep' = [path |-> 1, cursor |-> Top, pages |-> 0, applied |-> 0]
  BY DEF StartSweep, Idle
<1>4. \A e : ~Open(e) /\ ~Open(e)'
  BY <1>3 DEF Open, Idle
<1>5. SweepInv'
  BY <1>3, PathsDomain DEF SweepInv
<1>6. PoolInv' /\ ViewInv'
  BY <1>1, <1>2, <1>3 DEF PoolInv, ViewInv, Idle
<1>7. DueInv' /\ ReachInv'
  BY <1>1, <1>2, <1>3, <1>4 DEF DueInv, ReachInv, ChainOrder
<1> QED
  BY <1>2, <1>5, <1>6, <1>7 DEF AInv

\* A sweep ends with a rebuild, unless it brought nothing.
LEMMA EndStep ==
    ASSUME AInv, EndSweep
    PROVE  AInv'
<1>1. LogInv /\ TodoInv /\ SweepInv /\ PoolInv /\ DueInv /\ ReachInv /\ ViewInv
  BY DEF AInv
<1>2. LogInv' /\ TodoInv' /\ Confirmed' = Confirmed
  BY <1>1, ChainStays DEF EndSweep
<1>3. /\ seen' = seen /\ pool' = pool /\ skipped' = skipped /\ due' = due /\ torn' = torn
      /\ sweep.path = 8 /\ sweep' = Idle
      /\ IF sweep.applied > 0 THEN view' = Replay(pool) /\ behind' = FALSE
         ELSE view' = view /\ behind' = behind
  BY PathsDomain DEF EndSweep
<1>4. \A e : ~Open(e) /\ ~Open(e)'
  BY <1>3, PathsDomain DEF Open, Idle
<1>5. SweepInv'
  BY <1>3, PathsDomain DEF SweepInv, Idle
<1>6. PoolInv'
  BY <1>1, <1>2, <1>3 DEF PoolInv
<1>7. ViewInv'
  BY <1>1, <1>3 DEF ViewInv, SweepInv
<1>8. DueInv' /\ ReachInv'
  BY <1>1, <1>2, <1>3, <1>4 DEF DueInv, ReachInv, ChainOrder
<1> QED
  BY <1>2, <1>5, <1>6, <1>7, <1>8 DEF AInv

-----------------------------------------------------------------------------
(* The chain goes on *)

\* todo' is todo without the pin at k.
Dropped(k) ==
    /\ todo' \in Seq(Range(todo)) /\ Len(todo') = Len(todo) - 1
    /\ \A i \in 1 .. Len(todo') : todo'[i] = todo[IF i < k THEN i ELSE i + 1]

\* The head of what is still to be mined, or the pin after it, is taken.
LEMMA Taken ==
    ASSUME TodoInv, todo # <<>>
    PROVE  /\ Len(todo) \in Nat \ {0} /\ Head(todo) = todo[1]
           /\ todo' = Tail(todo) => Dropped(1)
           /\ Len(todo) > 1 /\ todo' = RemoveAt(todo, 2) => Dropped(2)
<1> DEFINE n == Len(todo)
           T == Range(todo)
<1>1. todo \in Seq(T) /\ n \in Nat \ {0} /\ Head(todo) = todo[1]
  BY DEF TodoInv
<1> HIDE DEF T
<1>2. ASSUME todo' = Tail(todo) PROVE Dropped(1)
  <2>1. todo' \in Seq(T) /\ Len(todo') = n - 1
    BY <1>1, <1>2
  <2>2. \A i \in 1 .. n - 1 : todo'[i] = todo[i + 1]
    BY <1>1, <1>2
  <2> QED
    BY <1>1, <2>1, <2>2 DEF Dropped, T
<1>3. ASSUME n > 1, todo' = RemoveAt(todo, 2) PROVE Dropped(2)
  <2> DEFINE a == SubSeq(todo, 1, 1)
             b == SubSeq(todo, 3, n)
  <2>1. todo' = a \o b
    BY <1>1, <1>3 DEF RemoveAt
  <2>2. a \in Seq(T) /\ Len(a) = 1 /\ a[1] = todo[1]
    BY <1>1, <1>3
  <2>3. b \in Seq(T) /\ Len(b) = n - 2 /\ \A i \in 1 .. n - 2 : b[i] = todo[i + 2]
    <3>1. \A i \in 3 .. n : todo[i] \in T
      BY <1>1
    <3>2. /\ b \in Seq(T) /\ Len(b) = IF 3 <= n THEN n - 3 + 1 ELSE 0
          /\ \A i \in 1 .. n - 3 + 1 : b[i] = todo[3 + i - 1]
      <4>1. 3 \in Int /\ n \in Int
        BY <1>1
      <4> HIDE DEF n
      <4> QED
        BY <3>1, <4>1, SubSeqProperties
    <3>3. n - 3 + 1 = n - 2 /\ (~(3 <= n) => n - 2 = 0) /\ \A i \in 1 .. n - 2 : 3 + i - 1 = i + 2
      <4>1. n \in Nat /\ n > 1
        BY <1>1, <1>3
      <4> HIDE DEF n
      <4> QED
        BY <4>1
    <3> HIDE DEF b, n
    <3> QED
      BY <3>2, <3>3
  <2> HIDE DEF a, b
  <2>4. /\ todo' \in Seq(T) /\ Len(todo') = n - 1
        /\ \A i \in 1 .. n - 1 : todo'[i] = IF i <= 1 THEN a[i] ELSE b[i - 1]
    <3>1. /\ a \o b \in Seq(T) /\ Len(a \o b) = Len(a) + Len(b)
          /\ \A i \in 1 .. Len(a) + Len(b) : (a \o b)[i] = IF i <= Len(a) THEN a[i] ELSE b[i - Len(a)]
      BY <2>2, <2>3, ConcatProperties
    <3>2. Len(a) + Len(b) = n - 1 /\ Len(a) = 1
      BY <1>1, <2>2, <2>3
    <3> HIDE DEF n
    <3> QED
      BY <2>1, <3>1, <3>2
  <2>5. \A i \in 1 .. n - 1 : todo'[i] = IF i < 2 THEN todo[1] ELSE b[i - 1]
    BY <1>1, <2>2, <2>4
  <2>6. ASSUME NEW i \in 1 .. n - 1 PROVE todo'[i] = todo[IF i < 2 THEN i ELSE i + 1]
    <3>1. CASE i < 2
      BY <1>1, <2>5, <3>1
    <3>2. CASE ~(i < 2)
      <4>1. i - 1 \in 1 .. n - 2 /\ (i - 1) + 2 = i + 1
        BY <1>1, <3>2
      <4> QED
        BY <2>3, <2>5, <3>2, <4>1
    <3> QED
      BY <3>1, <3>2
  <2> QED
    BY <2>4, <2>6 DEF Dropped, T
<1> QED
  BY <1>1, <1>2, <1>3

\* What is left after a pin is taken: pins of before, and not that one.
LEMMA LeftOver ==
    ASSUME TodoInv, NEW k \in 1 .. Len(todo), Dropped(k)
    PROVE  /\ todo' \in Seq(Range(todo'))
           /\ \A i, j \in 1 .. Len(todo') : todo'[i].pin = todo'[j].pin => i = j
           /\ Range(todo') \subseteq Range(todo)
           /\ \A t \in Range(todo') : t.pin # todo[k].pin
<1>1. Len(todo) \in Nat /\ Len(todo') \in Nat /\ DOMAIN todo' = 1 .. Len(todo')
  BY DEF TodoInv, Dropped
<1> DEFINE at(i) == IF i < k THEN i ELSE i + 1
<1>2. \A i \in 1 .. Len(todo') : at(i) \in 1 .. Len(todo) /\ at(i) # k /\ todo'[i] = todo[at(i)]
  BY <1>1 DEF Dropped
<1>3. \A i, j \in 1 .. Len(todo') : at(i) = at(j) => i = j
  BY <1>1
<1> HIDE DEF at
<1>4. Range(todo') = {todo'[i] : i \in 1 .. Len(todo')}
  BY <1>1 DEF Range
<1>5. Range(todo) = {todo[i] : i \in 1 .. Len(todo)}
  BY DEF TodoInv, Range
<1>6. Range(todo') \subseteq Range(todo)
  BY <1>2, <1>4, <1>5
<1>7. todo' \in Seq(Range(todo'))
  BY <1>1, <1>4 DEF Dropped
<1>8. \A i, j \in 1 .. Len(todo') : todo'[i].pin = todo'[j].pin => i = j
  BY <1>2, <1>3 DEF TodoInv
<1>9. \A t \in Range(todo') : t.pin # todo[k].pin
  <2>1. \A i \in 1 .. Len(todo') : todo'[i].pin # todo[k].pin
    BY <1>2 DEF TodoInv
  <2> QED
    BY <1>4, <2>1
<1> QED
  BY <1>6, <1>7, <1>8, <1>9

\* A mined pin is after all that were mined before.
LEMMA MinedLast ==
    ASSUME LogInv, NEW e, {"pin", "path", "wait", "h", "tx"} \subseteq DOMAIN e, e.wait \in Nat, NEW more \in Nat
    PROVE  LET m == Mined(e, more)
           IN  /\ m.h \in Nat /\ m.tx \in Nat /\ m.pin = e.pin /\ m.path = e.path
               /\ \A f \in Confirmed : ChainOrder(f, m)
<1> DEFINE last == IF chain = <<>> THEN [h |-> 1, tx |-> -1] ELSE Last(chain)
           h == last.h + e.wait + more
           tx == IF h = last.h THEN last.tx + 1 ELSE 0
           m == Mined(e, more)
<1>1. m = [e EXCEPT !.h = h, !.tx = tx]
  BY DEF Mined
<1> HIDE DEF h, tx, m
<1>3. m.h = h /\ m.tx = tx /\ m.pin = e.pin /\ m.path = e.path
  BY <1>1
<1>4. chain # <<>> => Last(chain) \in Confirmed
  BY DEF LogInv, Confirmed, Range, Last
<1>5. /\ last.h \in Nat /\ last.tx \in Nat \cup {-1}
      /\ \A f \in Confirmed : f = last \/ ChainOrder(f, last)
  <2>1. CASE chain = <<>>
    BY <2>1 DEF Confirmed, Range
  <2>2. CASE chain # <<>>
    BY <1>4, <2>2 DEF LogInv
  <2> QED
    BY <2>1, <2>2
<1> HIDE DEF last
<1>6. /\ h \in Nat /\ tx \in Nat /\ h >= last.h /\ (h = last.h => tx > last.tx)
  BY <1>5 DEF h, tx
<1>7. ASSUME NEW f \in Confirmed PROVE ChainOrder(f, m)
  <2>1. f.h \in Nat /\ f.tx \in Nat
    BY DEF LogInv
  <2>2. f.h < h \/ (f.h = h /\ f.tx < tx)
    BY <1>5, <1>6, <2>1 DEF ChainOrder
  <2> QED
    BY <1>3, <2>2 DEF ChainOrder
<1> QED
  BY <1>3, <1>6, <1>7 DEF m

\* A pin is mined.
LEMMA AddStep ==
    ASSUME AInv, NEW k \in 1 .. Len(todo), NEW more \in Nat, Add(Mined(todo[k], more)), Dropped(k)
    PROVE  AInv'
<1> DEFINE m == Mined(todo[k], more)
<1>1. LogInv /\ TodoInv /\ SweepInv /\ PoolInv /\ DueInv /\ ReachInv /\ ViewInv
  BY DEF AInv
<1>2. /\ todo[k] \in Range(todo)
      /\ {"pin", "path", "wait", "h", "tx"} \subseteq DOMAIN todo[k]
      /\ todo[k].wait \in Nat /\ todo[k].pin \in Nat
      /\ \A e \in Confirmed : e.pin # todo[k].pin
  BY <1>1 DEF TodoInv, Range
<1>3. /\ m.h \in Nat /\ m.tx \in Nat /\ m.pin = todo[k].pin
      /\ \A f \in Confirmed : ChainOrder(f, m)
  BY <1>1, <1>2, MinedLast
<1>4. /\ chain' = Append(chain, m) /\ sighted' = sighted \ {m.pin}
      /\ sweep' = sweep /\ seen' = seen /\ pool' = pool /\ skipped' = skipped /\ view' = view
      /\ due' = due /\ torn' = torn /\ behind' = behind
  BY DEF Add, syncVars
<1> HIDE DEF m
<1>5. m \notin Confirmed
  BY <1>2, <1>3
<1>6. /\ Confirmed' = Confirmed \cup {m} /\ chain' \in Seq(Confirmed') /\ chain' # <<>>
      /\ Last(chain') = m
  <2>1. chain \in Seq(Confirmed) /\ Len(chain) \in Nat
    BY <1>1 DEF LogInv
  <2>2. /\ chain' \in Seq(Confirmed \cup {m}) /\ Len(chain') = Len(chain) + 1
        /\ chain'[Len(chain) + 1] = m
        /\ \A i \in 1 .. Len(chain) : chain'[i] = chain[i]
    BY <1>4, <2>1
  <2>3. Confirmed' = {chain'[i] : i \in 1 .. Len(chain) + 1}
    BY <2>2 DEF Confirmed, Range
  <2>4. Confirmed = {chain[i] : i \in 1 .. Len(chain)}
    BY <2>1 DEF Confirmed, Range
  <2>5. Confirmed' = Confirmed \cup {m}
    <3> DEFINE n == Len(chain)
    <3>1. n \in Nat /\ 1 .. n + 1 = (1 .. n) \cup {n + 1}
      BY <2>1
    <3> HIDE DEF n
    <3>2. Confirmed' = {chain'[i] : i \in (1 .. n) \cup {n + 1}}
      BY <2>3, <3>1 DEF n
    <3>3. Confirmed = {chain'[i] : i \in 1 .. n}
      BY <2>2, <2>4 DEF n
    <3>4. chain'[n + 1] = m
      BY <2>2 DEF n
    <3> QED
      BY <3>2, <3>3, <3>4
  <2> QED
    BY <2>1, <2>2, <2>5 DEF Last
<1>7. LogInv'
  <2>1. \A e \in Confirmed' : e.h \in Nat /\ e.tx \in Nat /\ e.pin \in Nat /\ e.pin \notin sighted'
    BY <1>1, <1>2, <1>3, <1>4, <1>6 DEF LogInv
  <2>2. \A e, f \in Confirmed' : e # f => e.pin # f.pin /\ (ChainOrder(e, f) \/ ChainOrder(f, e))
    BY <1>1, <1>2, <1>3, <1>6 DEF LogInv
  <2>3. \A e \in Confirmed' : e = Last(chain') \/ ChainOrder(e, Last(chain'))
    BY <1>3, <1>6
  <2> QED
    BY <1>6, <2>1, <2>2, <2>3 DEF LogInv, ChainOrder
<1>8. TodoInv'
  <2>1. /\ todo' \in Seq(Range(todo'))
        /\ \A i, j \in 1 .. Len(todo') : todo'[i].pin = todo'[j].pin => i = j
        /\ Range(todo') \subseteq Range(todo)
        /\ \A t \in Range(todo') : t.pin # todo[k].pin
    BY <1>1, LeftOver
  <2>2. \A t \in Range(todo') : /\ {"pin", "path", "wait", "h", "tx"} \subseteq DOMAIN t
                               /\ t.pin \in Nat /\ t.wait \in Nat
                               /\ \A e \in Confirmed' : e.pin # t.pin
    BY <1>1, <1>3, <1>6, <2>1 DEF TodoInv
  <2> QED
    BY <2>1, <2>2 DEF TodoInv
<1>9. \A e : At(e)' = At(e) /\ (Open(e)' <=> Open(e))
  BY <1>4 DEF At, Open, SweepPath, After
<1>10. SweepInv'
  BY <1>1, <1>4, <1>6, <1>9 DEF SweepInv
<1>11. m.pin \notin seen
  BY <1>1, <1>2, <1>3 DEF PoolInv
<1>12. PoolInv' /\ ViewInv'
  BY <1>1, <1>4, <1>6, <1>11 DEF PoolInv, ViewInv
<1>13. \A e \in Confirmed : ~ChainOrder(m, e)
  BY <1>1, <1>3 DEF LogInv, ChainOrder
<1>14. Open(m) => sweep.cursor[1] # 0
  <2>1. ASSUME NEW c \in Confirmed, sweep.cursor = At(c) PROVE ~Open(m)
    <3>1. c.h \in Nat /\ c.tx \in Nat /\ ChainOrder(c, m)
      BY <1>1, <1>3 DEF LogInv
    <3> QED
      BY <1>3, <2>1, <3>1 DEF Open, After, At, ChainOrder
  <2> QED
    BY <1>1, <2>1 DEF SweepInv, Top
<1>15. DueInv'
  <2>1. due \subseteq Confirmed'
    BY <1>1, <1>6 DEF DueInv
  <2>2. \A e \in Confirmed' : e.pin \in seen => e \in due
    BY <1>1, <1>6, <1>11 DEF DueInv
  <2>3. \A e \in due, f \in Confirmed' : f.path = e.path /\ ChainOrder(f, e) => f \in due
    BY <1>1, <1>6, <1>13 DEF DueInv
  <2>4. \A e \in Confirmed' : Open(e) /\ sweep.cursor[1] = 0 => e \in due
    BY <1>1, <1>6, <1>14 DEF DueInv
  <2> QED
    BY <1>4, <1>9, <2>1, <2>2, <2>3, <2>4 DEF DueInv, ChainOrder
<1>16. ReachInv'
  <2>1. ASSUME ~torn, NEW e \in Confirmed', NEW f \in Confirmed',
               Open(e), e.pin \in seen, f.path = e.path, ChainOrder(f, e)
        PROVE  f.pin \in seen
    <3>1. e \in Confirmed
      BY <1>6, <1>11, <2>1
    <3>2. f \in Confirmed
      BY <1>6, <1>13, <2>1, <3>1
    <3> QED
      BY <1>1, <2>1, <3>1, <3>2 DEF ReachInv
  <2> QED
    BY <1>1, <1>4, <1>9, <2>1 DEF ReachInv, ChainOrder
<1> QED
  BY <1>7, <1>8, <1>10, <1>12, <1>15, <1>16 DEF AInv

\* A pin is left out, or seen in the mempool.
LEMMA OtherStep ==
    ASSUME AInv, Omit \/ Sight
    PROVE  AInv'
<1>1. LogInv /\ TodoInv
  BY DEF AInv
<1>2. UNCHANGED <<chain, syncVars>>
  BY DEF Omit, Sight
<1>3. Confirmed' = Confirmed
  BY <1>2 DEF Confirmed
<1>4. CASE Omit
  <2>1. todo # <<>> /\ todo' = Tail(todo) /\ sighted' = sighted
    BY <1>4 DEF Omit
  <2>2. Len(todo) \in Nat \ {0} /\ Dropped(1)
    BY <1>1, <2>1, Taken
  <2>3. 1 \in 1 .. Len(todo)
    BY <2>2
  <2>4. /\ todo' \in Seq(Range(todo')) /\ Range(todo') \subseteq Range(todo)
        /\ \A i, j \in 1 .. Len(todo') : todo'[i].pin = todo'[j].pin => i = j
    BY <1>1, <2>2, <2>3, LeftOver
  <2>5. TodoInv'
    BY <1>1, <1>3, <2>4 DEF TodoInv
  <2>6. LogInv'
    BY <1>1, <1>2, <1>3, <2>1 DEF LogInv, ChainOrder
  <2> QED
    BY <1>2, <1>3, <2>5, <2>6, SweepStays
<1>5. CASE Sight
  <2>1. todo' = todo /\ \E t \in Range(todo) : sighted' = sighted \cup {t.pin}
    BY <1>5 DEF Sight
  <2>2. TodoInv'
    BY <1>1, <1>3, <2>1 DEF TodoInv
  <2>3. LogInv'
    BY <1>1, <1>2, <1>3, <2>1 DEF LogInv, TodoInv, ChainOrder
  <2> QED
    BY <1>2, <1>3, <2>2, <2>3, SweepStays
<1> QED
  BY <1>4, <1>5

\* The chain goes on as the story goes, later or in another order.
LEMMA MineStep ==
    ASSUME AInv, Mine \/ MineLate \/ MineEarly
    PROVE  AInv'
<1>1. TodoInv
  BY DEF AInv
<1>2. CASE Mine \/ MineLate
  <2>1. todo # <<>> /\ todo' = Tail(todo)
    BY <1>2 DEF Mine, MineLate
  <2>2. Len(todo) \in Nat \ {0} /\ Head(todo) = todo[1] /\ Dropped(1)
    BY <1>1, <2>1, Taken
  <2>3. \E more \in Nat : Add(Mined(todo[1], more))
    BY <1>2, <2>2, SyncAssumption DEF Mine, MineLate
  <2> QED
    BY <2>2, <2>3, AddStep
<1>3. CASE MineEarly
  <2>1. Len(todo) > 1 /\ todo' = RemoveAt(todo, 2) /\ Add(Mined(todo[2], 0))
    BY <1>3 DEF MineEarly
  <2>2. todo # <<>>
    BY <1>1, <2>1 DEF TodoInv
  <2>3. Len(todo) \in Nat /\ Dropped(2)
    BY <1>1, <2>1, <2>2, Taken
  <2>4. 2 \in 1 .. Len(todo) /\ 0 \in Nat
    BY <2>1, <2>3
  <2> QED
    BY <2>1, <2>3, <2>4, AddStep
<1> QED
  BY <1>2, <1>3

-----------------------------------------------------------------------------
(* Nothing to replay *)

\* A fold over an empty sequence is where it began.
LEMMA EmptyReplay == Replay({}) = View(Start, 0)
<1>1. Cardinality({}) = 0
  BY FS_EmptySet
<1>2. Sorted({}, ChainOrder) = <<>>
  BY <1>1 DEF Sorted
<1>3. FoldLeft(Apply, Start, <<>>) = Start
  <2> DEFINE step(g, s) == IF s = {} THEN Start
                           ELSE LET x == Max(s) IN Apply(g[s \ {x}], <<>>[x])
             only == [s \in SUBSET DOMAIN <<>> |-> Start]
  <2>1. FoldLeft(Apply, Start, <<>>)
          = (CHOOSE g : g = [s \in SUBSET DOMAIN <<>> |-> step(g, s)])[DOMAIN <<>>]
    BY Zenon DEF FoldLeft, MapThenFoldSet
  <2>2. DOMAIN <<>> = {}
    OBVIOUS
  <2>3. \A g : [s \in SUBSET DOMAIN <<>> |-> step(g, s)] = only
    BY <2>2
  <2> HIDE DEF step, only
  <2>4. (CHOOSE g : g = [s \in SUBSET DOMAIN <<>> |-> step(g, s)]) = only
    BY <2>3
  <2> QED
    BY <2>1, <2>2, <2>4 DEF only
<1>4. CloseExpired(Start, 1) = Start
  <2>1. {pin \in DOMAIN Start.props : /\ Start.props[pin].state = "open"
                                      /\ 1 >= Start.props[pin].expiry} = {}
    BY DEF Start
  <2>2. CloseExpired(Start, 1) = FoldLeft(Void, Start, <<>>)
    BY <1>1, <2>1 DEF CloseExpired, Sorted
  <2>3. FoldLeft(Void, Start, <<>>) = Start
    <3> DEFINE step(g, s) == IF s = {} THEN Start
                             ELSE LET x == Max(s) IN Void(g[s \ {x}], <<>>[x])
               only == [s \in SUBSET DOMAIN <<>> |-> Start]
    <3>1. FoldLeft(Void, Start, <<>>)
            = (CHOOSE g : g = [s \in SUBSET DOMAIN <<>> |-> step(g, s)])[DOMAIN <<>>]
      BY Zenon DEF FoldLeft, MapThenFoldSet
    <3>2. DOMAIN <<>> = {}
      OBVIOUS
    <3>3. \A g : [s \in SUBSET DOMAIN <<>> |-> step(g, s)] = only
      BY <3>2
    <3> HIDE DEF step, only
    <3>4. (CHOOSE g : g = [s \in SUBSET DOMAIN <<>> |-> step(g, s)]) = only
      BY <3>3
    <3> QED
      BY <3>1, <3>2, <3>4 DEF only
  <2> QED
    BY <2>2, <2>3
<1>5. Replay({}) = View(CloseExpired(Start, 0 + 1), 0)
  BY <1>2, <1>3 DEF Replay
<1> QED
  BY <1>4, <1>5

-----------------------------------------------------------------------------
(* The theorem *)

\* A story is a sequence of pins, each of them once.
LEMMA Begins == ASSUME Init PROVE AInv
<1>1. PICK story \in Stories : todo = story.pins
  BY DEF Init
<1>2. /\ chain = <<>> /\ sighted = {} /\ seen = {} /\ pool = {} /\ skipped = {}
      /\ view = View(Start, 0) /\ sweep = Idle /\ due = {} /\ torn = FALSE /\ behind = FALSE
  BY DEF Init
<1>3. Confirmed = {}
  BY <1>2 DEF Confirmed, Range
<1>4. LogInv
  BY <1>2, <1>3 DEF LogInv
<1>5. TodoInv
  <2>1. /\ todo \in Seq(Range(todo)) /\ IsInjective([i \in DOMAIN todo |-> todo[i].pin])
        /\ \A e \in Range(todo) : /\ {"pin", "path", "wait", "h", "tx"} \subseteq DOMAIN e
                                  /\ e.pin \in Nat /\ e.wait \in Nat
    BY <1>1, SyncAssumption
  <2>2. DOMAIN todo = 1 .. Len(todo)
    BY <2>1
  <2>3. \A i, j \in 1 .. Len(todo) : todo[i].pin = todo[j].pin => i = j
    BY <2>1, <2>2 DEF IsInjective
  <2> QED
    BY <1>3, <2>1, <2>3 DEF TodoInv
<1>6. \A e : ~Open(e)
  BY <1>2 DEF Open, Idle
<1>7. SweepInv
  BY <1>2, PathsDomain DEF SweepInv, Idle
<1>8. PoolInv /\ DueInv /\ ReachInv
  BY <1>2, <1>3 DEF PoolInv, DueInv, ReachInv
<1>9. ViewInv
  BY <1>2, EmptyReplay DEF ViewInv
<1> QED
  BY <1>4, <1>5, <1>7, <1>8, <1>9 DEF AInv

\* Every step keeps the invariant.
LEMMA Keeps == ASSUME AInv, [Next]_vars PROVE AInv'
<1>1. CASE Mine \/ MineLate \/ MineEarly
  BY <1>1, MineStep
<1>2. CASE Omit \/ Sight
  BY <1>2, OtherStep
<1>3. CASE StartSweep
  BY <1>3, StartStep
<1>4. CASE FetchPage
  BY <1>4, FetchStep
<1>5. CASE FetchFails
  BY <1>5, FailStep
<1>6. CASE EndSweep
  BY <1>6, EndStep
<1>7. CASE UNCHANGED vars
  <2>1. UNCHANGED chainVars /\ UNCHANGED syncVars
    BY <1>7 DEF vars
  <2>2. LogInv /\ TodoInv
    BY DEF AInv
  <2> QED
    BY <2>1, <2>2, ChainStays, SweepStays
<1>8. CASE Done
  BY <1>7, <1>8 DEF Done
<1> QED
  BY <1>1, <1>2, <1>3, <1>4, <1>5, <1>6, <1>7, <1>8 DEF Next

\* With no sweep in progress nothing is left after a cursor, so what is due was
\* seen, and what was seen is pooled or skipped.
LEMMA Suffices == ASSUME AInv PROVE SyncedViewIsReplay
<1> SUFFICES ASSUME sweep = Idle, ~torn, ~behind
             PROVE  pool = due \ skipped /\ view = Replay(due \ skipped)
  BY DEF SyncedViewIsReplay
<1>1. \A e : ~Open(e)
  BY DEF Open, Idle
<1>2. \A e \in due : e \in Confirmed /\ e.pin \in seen
  BY <1>1 DEF AInv, DueInv, ReachInv
<1>3. due = {e \in Confirmed : e.pin \in seen}
  BY <1>2 DEF AInv, DueInv
<1>4. pool = due \ skipped
  BY <1>3 DEF AInv, PoolInv
<1>5. view = Replay(pool)
  BY DEF AInv, ViewInv, Idle
<1> QED
  BY <1>4, <1>5

\* Sweeps miss nothing: between sweeps the view is the replay of every pin that
\* was mined when a sweep came to the mined pins of its path, but for payloads
\* that nobody has, unless a path was left early or no sweep replayed what one
\* that failed had pooled (SyncOnce, fetchPage, rebuildLocked).
THEOREM SweepsMissNothing == Spec => []SyncedViewIsReplay
<1>1. Init => AInv
  BY Begins
<1>2. AInv /\ [Next]_vars => AInv'
  BY Keeps
<1>3. AInv => SyncedViewIsReplay
  BY Suffices
<1> QED
  BY <1>1, <1>2, <1>3, PTL DEF Spec

-----------------------------------------------------------------------------
(* Proposals voided in the order of their pins *)

\* Induction along the numbers up to N, with a set for the predicate.
LEMMA UpTo ==
    ASSUME NEW N \in Nat, NEW G,
           0 \in G, \A p \in 1 .. N : p-1 \in G => p \in G
    PROVE  0 .. N \subseteq G
<1> SUFFICES ASSUME NEW q \in 0 .. N, q \notin G PROVE FALSE
  OBVIOUS
<1> DEFINE smaller == {ss \in Nat \X Nat : ss[1] < ss[2]}
           outside == {p \in 0 .. N : p \notin G}
<1>1. IsWellFoundedOn(smaller, Nat)
  BY NatLessThanWellFounded DEF OpToRel
<1>2. outside \subseteq Nat /\ outside # {}
  OBVIOUS
<1>3. PICK m \in outside : \A k \in outside : ~(<<k, m>> \in smaller)
  <2> HIDE DEF smaller, outside
  <2> QED
    BY <1>1, <1>2, WFMin, Zenon
<1>4. m # 0 /\ m-1 \in 0 .. N /\ m-1 \notin outside
  <2>1. m \in 1 .. N /\ <<m-1, m>> \in smaller
    OBVIOUS
  <2> QED
    BY <2>1, <1>3
<1> QED
  BY <1>4

\* Proposals voided in the order of a sequence.
VoidAll(s, pins) == FoldLeft(Void, s, pins)

\* Voiding proposals one after the other goes through as many states.
LEMMA VoidUnfolds ==
    ASSUME NEW s, NEW pins, NEW n \in Nat, DOMAIN pins = 1 .. n
    PROVE  \E F : /\ F[0] = s
                  /\ \A k \in 1 .. n : F[k] = Void(F[k-1], pins[k])
                  /\ VoidAll(s, pins) = F[n]
<1> DEFINE D == 1 .. n
           step(g, T) == IF T = {} THEN s ELSE LET x == Max(T) IN Void(g[T \ {x}], pins[x])
           solves(g) == g = [T \in SUBSET D |-> step(g, T)]
           ups == {1 .. k : k \in 0 .. n}
<1>1. \A k \in 1 .. n : Max(1 .. k) = k /\ (1 .. k) \ {k} = 1 .. k-1 /\ 1 .. k # {}
  BY DEF Max
<1>2. VoidAll(s, pins) = (CHOOSE g : solves(g))[D]
  BY Zenon DEF VoidAll, FoldLeft, MapThenFoldSet
<1>3. \E g : solves(g)
  <2> DEFINE Sub(k) == {T \in SUBSET D : Cardinality(T) <= k}
             partly(g, k) == g = [T \in Sub(k) |-> step(g, T)]
             G == {k \in 0 .. n : \E g : partly(g, k)}
  <2>1. \A T \in SUBSET D : IsFiniteSet(T) /\ Cardinality(T) \in 0 .. n
    <3>1. IsFiniteSet(D) /\ Cardinality(D) = n
      BY FS_Interval
    <3>2. ASSUME NEW T \in SUBSET D PROVE IsFiniteSet(T) /\ Cardinality(T) \in 0 .. n
      <4>1. IsFiniteSet(T) /\ Cardinality(T) <= n
        <5> HIDE DEF D
        <5> QED
          BY <3>1, FS_Subset
      <4>2. Cardinality(T) \in Nat
        BY <4>1, FS_CardinalityType
      <4> QED
        BY <4>1, <4>2
    <3> QED
      BY <3>2
  <2>2. \A T \in SUBSET D : T # {} => Max(T) \in T
    <3> SUFFICES ASSUME NEW T \in SUBSET D, T # {} PROVE \E x \in T : \A y \in T : x >= y
      BY DEF Max
    <3> DEFINE H == {k \in 0 .. n : (\E x \in T : \A y \in T : x >= y) \/ \A y \in T : y <= n - k}
    <3>1. 0 \in H
      OBVIOUS
    <3>2. ASSUME NEW p \in 1 .. n, p-1 \in H PROVE p \in H
      <4>1. CASE \A y \in T : y <= n - (p-1)
        <5>1. CASE n - (p-1) \in T
          <6>1. \A y \in T : y \in Nat /\ n - (p-1) >= y
            BY <4>1
          <6> QED
            BY <5>1, <6>1
        <5>2. CASE n - (p-1) \notin T
          <6>1. \A y \in T : y \in Nat /\ y # n - (p-1) /\ y <= n - (p-1)
            BY <4>1, <5>2
          <6>2. \A y \in T : y <= n - p
            BY <6>1
          <6> QED
            BY <6>2
        <5> QED
          BY <5>1, <5>2
      <4> QED
        BY <3>2, <4>1
    <3>3. n \in H
      <4> HIDE DEF H
      <4> QED
        BY <3>1, <3>2, UpTo
    <3>4. PICK t \in T : t \in 1 .. n
      OBVIOUS
    <3>5. ~\A y \in T : y <= n - n
      BY <3>4
    <3> QED
      BY <3>3, <3>5
  <2>3. 0 \in G
    <3> DEFINE g == [T \in Sub(0) |-> s]
    <3>1. \A T \in Sub(0) : T = {}
      BY <2>1, FS_EmptySet
    <3>2. \A T \in Sub(0) : step(g, T) = s
      <4> HIDE DEF g
      <4> QED
        BY <3>1
    <3>3. partly(g, 0)
      <4> HIDE DEF Sub, step
      <4> QED
        BY <3>2
    <3> QED
      <4> HIDE DEF partly, g
      <4> QED
        BY <3>3
  <2>4. ASSUME NEW p \in 1 .. n, p-1 \in G PROVE p \in G
    <3>1. PICK g : partly(g, p-1)
      BY <2>4
    <3> DEFINE next == [T \in Sub(p) |-> step(g, T)]
    <3>2. \A T \in Sub(p) : T # {} => T \ {Max(T)} \in Sub(p-1)
      <4> SUFFICES ASSUME NEW T \in Sub(p), T # {} PROVE T \ {Max(T)} \in Sub(p-1)
        OBVIOUS
      <4>1. Max(T) \in T /\ IsFiniteSet(T) /\ Cardinality(T) \in Nat
        BY <2>1, <2>2
      <4>2. Cardinality(T \ {Max(T)}) = Cardinality(T) - 1
        BY <4>1, FS_RemoveElement
      <4> DEFINE c == Cardinality(T)
                 R == T \ {Max(T)}
      <4>3. c <= p /\ c \in Nat /\ Cardinality(R) = c - 1 /\ R \in SUBSET D
        BY <4>1, <4>2
      <4> HIDE DEF c, R
      <4>4. R \in SUBSET D /\ Cardinality(R) <= p-1
        BY <4>3
      <4> USE DEF R
      <4> QED
        BY <4>4
    <3>3. Sub(p-1) \subseteq Sub(p)
      BY <2>1
    <3>4. \A T \in Sub(p-1) : next[T] = g[T]
      <4> DEFINE P == Sub(p-1)
      <4>0. g = [T \in P |-> step(g, T)]
        BY <3>1, Zenon
      <4>1. \A T \in P : g[T] = step(g, T)
        <5> HIDE DEF P, step
        <5> QED
          BY <4>0
      <4> HIDE DEF Sub, step
      <4> QED
        BY <3>3, <4>1
    <3>5. \A T \in Sub(p) : step(next, T) = step(g, T)
      <4>1. ASSUME NEW T \in Sub(p) PROVE step(next, T) = step(g, T)
        <5> HIDE DEF Sub, next
        <5> QED
          BY <3>2, <3>4
      <4> HIDE DEF Sub, next, step
      <4> QED
        BY <4>1
    <3>6. partly(next, p)
      <4> HIDE DEF Sub, step
      <4> QED
        BY <3>5
    <3> QED
      <4> HIDE DEF partly, next
      <4> QED
        BY <3>6
  <2>5. n \in G
    <3> HIDE DEF G
    <3> QED
      BY <2>3, <2>4, UpTo
  <2>6. Sub(n) = SUBSET D
    BY <2>1
  <2>7. PICK g : partly(g, n)
    BY <2>5
  <2> HIDE DEF Sub, step
  <2> QED
    BY <2>6, <2>7
<1> DEFINE g == CHOOSE g : solves(g)
           F == [k \in 0 .. n |-> g[1 .. k]]
<1>4. solves(g)
  <2> HIDE DEF solves
  <2> QED
    BY <1>3
<1>5. \A T \in SUBSET D : g[T] = step(g, T)
  <2> HIDE DEF step, g
  <2> QED
    BY <1>4
<1> HIDE DEF g
<1>6. F[0] = s
  <2>1. 1 .. 0 = {} /\ 0 \in 0 .. n
    OBVIOUS
  <2> QED
    BY <1>5, <2>1
<1>7. \A k \in 1 .. n : F[k] = Void(F[k-1], pins[k])
  <2> SUFFICES ASSUME NEW k \in 1 .. n PROVE F[k] = Void(F[k-1], pins[k])
    OBVIOUS
  <2>1. k \in 0 .. n /\ k-1 \in 0 .. n /\ 1 .. k \in SUBSET D /\ F[k] = g[1 .. k] /\ F[k-1] = g[1 .. k-1]
    OBVIOUS
  <2>2. g[1 .. k] = Void(g[(1 .. k) \ {k}], pins[k])
    BY <1>1, <1>5, <2>1
  <2> QED
    BY <1>1, <2>1, <2>2
<1>8. VoidAll(s, pins) = F[n]
  <2>1. F[n] = g[D]
    OBVIOUS
  <2> QED
    BY <1>2, <2>1 DEF g
<1> QED
  BY <1>6, <1>7, <1>8

-----------------------------------------------------------------------------
(* What the end of the vote does to a state *)

\* The proposals whose time is over at a height.
Expired(s, h) == {pin \in DOMAIN s.props : /\ s.props[pin].state = "open"
                                           /\ h >= s.props[pin].expiry}

\* A record as it was, or no longer frozen.
Calmed(r, q) ==
    \/ q = r
    \/ r.status = "frozen" /\ \E head : q = [r EXCEPT !.status = "normal", !.head = head]

\* What is left of a state when the proposals of some pins are voided.
VoidedIn(s, t, pins) ==
    /\ DOMAIN t = DOMAIN s
    /\ \A f \in DOMAIN s \ {"recs", "props"} : t[f] = s[f]
    /\ DOMAIN t.props = DOMAIN s.props /\ DOMAIN t.recs = DOMAIN s.recs
    /\ \A pin \in DOMAIN s.props :
          t.props[pin] = IF pin \in pins THEN [s.props[pin] EXCEPT !.state = "voided"]
                         ELSE s.props[pin]
    /\ \A k \in DOMAIN s.recs : Calmed(s.recs[k], t.recs[k])

\* One proposal is voided.
LEMMA VoidDoes ==
    ASSUME NEW s, {"recs", "props"} \subseteq DOMAIN s, NEW pin \in DOMAIN s.props
    PROVE  VoidedIn(s, Void(s, pin), {pin})
<1> DEFINE p == s.props[pin]
           key == s.entries[p.entry]
           r == s.recs[key]
           neutral == [r EXCEPT !.status = "normal", !.head = IF p.base # NoRev THEN p.base ELSE @]
           q == IF r.status = "frozen" THEN neutral ELSE r
           t == Void(s, pin)
<1>1. Calmed(r, q)
  BY DEF Calmed
<1>2. t = [[s EXCEPT !.recs[key] = q] EXCEPT !.props[pin].state = "voided"]
  BY DEF Void, RecordAt, WithRecord
<1> HIDE DEF q, key, p
<1>3. /\ DOMAIN t = DOMAIN s
      /\ \A f \in DOMAIN s \ {"recs", "props"} : t[f] = s[f]
      /\ t.recs = [s.recs EXCEPT ![key] = q]
      /\ t.props = [s.props EXCEPT ![pin] = [s.props[pin] EXCEPT !.state = "voided"]]
  <2> DEFINE u == [s EXCEPT !.recs[key] = q]
  <2>1. /\ DOMAIN u = DOMAIN s /\ u.props = s.props /\ u.recs = [s.recs EXCEPT ![key] = q]
        /\ \A f \in DOMAIN s \ {"recs"} : u[f] = s[f]
    OBVIOUS
  <2>2. t = [u EXCEPT !.props[pin].state = "voided"]
    BY <1>2
  <2> HIDE DEF u, t
  <2>3. DOMAIN t = DOMAIN u /\ \A f \in DOMAIN u \ {"props"} : t[f] = u[f]
    BY <2>2
  <2>4. t.props = [u.props EXCEPT ![pin] = [u.props[pin] EXCEPT !.state = "voided"]]
    BY <2>1, <2>2
  <2> QED
    BY <2>1, <2>3, <2>4
<1> HIDE DEF t
<1>4. \A k \in DOMAIN s.recs : Calmed(s.recs[k], t.recs[k])
  <2>1. \A k \in DOMAIN s.recs : t.recs[k] = IF k = key THEN q ELSE s.recs[k]
    BY <1>3
  <2>2. \A x : Calmed(x, x)
    BY DEF Calmed
  <2> QED
    BY <1>1, <2>1, <2>2
<1>5. \A i \in DOMAIN s.props :
          t.props[i] = IF i = pin THEN [s.props[pin] EXCEPT !.state = "voided"] ELSE s.props[i]
  BY <1>3
<1>6. DOMAIN t.props = DOMAIN s.props /\ DOMAIN t.recs = DOMAIN s.recs
  BY <1>3
<1> QED
  BY <1>3, <1>4, <1>5, <1>6 DEF VoidedIn, t

\* So one after the other.
LEMMA VoidMore ==
    ASSUME NEW s, {"recs", "props"} \subseteq DOMAIN s, NEW t, NEW u, NEW some, NEW pin,
           VoidedIn(s, t, some), VoidedIn(t, u, {pin})
    PROVE  VoidedIn(s, u, some \cup {pin})
<1>1. /\ DOMAIN u = DOMAIN s /\ \A f \in DOMAIN s \ {"recs", "props"} : u[f] = s[f]
      /\ DOMAIN u.props = DOMAIN s.props /\ DOMAIN u.recs = DOMAIN s.recs
  BY DEF VoidedIn
<1>2. ASSUME NEW i \in DOMAIN s.props
      PROVE  u.props[i] = IF i \in some \cup {pin} THEN [s.props[i] EXCEPT !.state = "voided"]
                          ELSE s.props[i]
  <2>1. \A p : LET v == [p EXCEPT !.state = "voided"] IN [v EXCEPT !.state = "voided"] = v
    OBVIOUS
  <2>2. /\ t.props[i] = IF i \in some THEN [s.props[i] EXCEPT !.state = "voided"] ELSE s.props[i]
        /\ u.props[i] = IF i = pin THEN [t.props[i] EXCEPT !.state = "voided"] ELSE t.props[i]
    BY DEF VoidedIn
  <2> QED
    BY <2>1, <2>2
<1>3. ASSUME NEW k \in DOMAIN s.recs PROVE Calmed(s.recs[k], u.recs[k])
  <2>1. Calmed(s.recs[k], t.recs[k]) /\ Calmed(t.recs[k], u.recs[k])
    BY DEF VoidedIn
  <2>2. ASSUME NEW r, NEW q, NEW z, Calmed(r, q), Calmed(q, z) PROVE Calmed(r, z)
    <3>1. CASE q = r \/ z = q
      BY <2>2, <3>1
    <3>2. CASE q # r /\ z # q
      <4>1. PICK head : r.status = "frozen" /\ q = [r EXCEPT !.status = "normal", !.head = head]
        BY <2>2, <3>2 DEF Calmed
      <4>2. PICK other : z = [q EXCEPT !.status = "normal", !.head = other]
        BY <2>2, <3>2 DEF Calmed
      <4>3. z = [r EXCEPT !.status = "normal", !.head = other]
        BY <4>1, <4>2
      <4> QED
        BY <4>1, <4>3 DEF Calmed
    <3> QED
      BY <3>1, <3>2
  <2> QED
    BY <2>1, <2>2
<1> QED
  BY <1>1, <1>2, <1>3 DEF VoidedIn

\* closeExpired voids what has expired, all of it and nothing else.
LEMMA CloseDoes ==
    ASSUME NEW s, {"recs", "props"} \subseteq DOMAIN s, NEW h,
           IsFiniteSet(DOMAIN s.props), DOMAIN s.props \subseteq Nat
    PROVE  VoidedIn(s, CloseExpired(s, h), Expired(s, h))
<1> DEFINE S == Expired(s, h)
           R == {p \in S \X S : p[1] < p[2]}
           pins == Sorted(S, LAMBDA i, j : i < j)
           n == Cardinality(S)
<1>1. IsFiniteSet(S) /\ S \subseteq Nat /\ S \subseteq DOMAIN s.props
  BY FS_Subset DEF Expired
<1>2. CloseExpired(s, h) = VoidAll(s, pins)
  BY Zenon DEF CloseExpired, Expired, VoidAll
<1> HIDE DEF S
<1>3. StrictOrder(R, S)
  BY <1>1 DEF StrictOrder
<1>4. \A x \in S : Below(R, S, x) = {y \in S : y < x}
  BY DEF Below
<1>5. pins = [i \in 1 .. n |-> CHOOSE x \in S : Cardinality({y \in S : y < x}) = i - 1]
  BY DEF Sorted
<1>6. pins = Ranked(R, S)
  BY <1>4, <1>5 DEF Ranked
<1>7. DOMAIN pins = 1 .. n
  BY <1>5
<1> HIDE DEF pins, R
<1>8. n \in Nat /\ (\A i \in 1 .. n : pins[i] \in S) /\ \A x \in S : \E i \in 1 .. n : pins[i] = x
  BY <1>1, <1>3, <1>6, RankingLists
<1> HIDE DEF n
<1>9. PICK F : /\ F[0] = s
               /\ \A k \in 1 .. n : F[k] = Void(F[k-1], pins[k])
               /\ VoidAll(s, pins) = F[n]
  <2>1. ASSUME NEW q, NEW m \in Nat, DOMAIN q = 1 .. m
        PROVE  \E F : /\ F[0] = s
                      /\ \A k \in 1 .. m : F[k] = Void(F[k-1], q[k])
                      /\ VoidAll(s, q) = F[m]
    BY <2>1, VoidUnfolds
  <2> QED
    BY <1>7, <1>8, <2>1
<1> DEFINE done(k) == {pins[i] : i \in 1 .. k}
           G == {k \in 0 .. n : VoidedIn(s, F[k], done(k))}
<1>10. 0 \in G
  <2>1. \A x : Calmed(x, x)
    BY DEF Calmed
  <2>2. done(0) = {}
    OBVIOUS
  <2> HIDE DEF done
  <2>3. VoidedIn(s, s, done(0))
    BY <2>1, <2>2 DEF VoidedIn
  <2> QED
    BY <1>8, <1>9, <2>3
<1>11. ASSUME NEW k \in 1 .. n, k-1 \in G PROVE k \in G
  <2>1. VoidedIn(s, F[k-1], done(k-1))
    BY <1>11
  <2>2. pins[k] \in DOMAIN s.props
    BY <1>1, <1>8
  <2>3. {"recs", "props"} \subseteq DOMAIN F[k-1] /\ pins[k] \in DOMAIN F[k-1].props
    BY <2>1, <2>2 DEF VoidedIn
  <2>4. VoidedIn(F[k-1], F[k], {pins[k]})
    BY <1>9, <2>3, VoidDoes
  <2>5. done(k) = done(k-1) \cup {pins[k]}
    <3>1. 1 .. k = (1 .. k-1) \cup {k}
      BY <1>8
    <3> QED
      BY <3>1
  <2> DEFINE before == done(k-1)
             t == F[k-1]
             u == F[k]
             pin == pins[k]
  <2>6. VoidedIn(s, u, before \cup {pin})
    <3>1. VoidedIn(s, t, before) /\ VoidedIn(t, u, {pin})
      BY <2>1, <2>4
    <3> HIDE DEF before, t, u, pin
    <3> QED
      BY <3>1, VoidMore
  <2> QED
    BY <1>8, <2>5, <2>6
<1>12. n \in G
  <2> HIDE DEF G
  <2> QED
    BY <1>8, <1>10, <1>11, UpTo
<1>13. done(n) = S
  BY <1>8
<1> QED
  <2> HIDE DEF done
  <2> QED
    BY <1>2, <1>9, <1>12, <1>13 DEF S

-----------------------------------------------------------------------------
(* What each pin may touch *)

\* Nothing but some of the fields of a state is different.
Touches(s, t, fields) == DOMAIN t = DOMAIN s /\ \A f \in DOMAIN s \ fields : t[f] = s[f]

\* What is left alone by two changes is left alone by both.
LEMMA TouchesMore ==
    ASSUME NEW s, NEW t, NEW u, NEW some, NEW more, Touches(s, t, some), Touches(t, u, more)
    PROVE  Touches(s, u, some \cup more)
BY DEF Touches

\* A pin goes to the graveyard.
LEMMA GraveDoes ==
    ASSUME NEW s, "grave" \in DOMAIN s, NEW e, NEW reason
    PROVE  /\ Touches(s, Grave(s, e, reason), {"grave"})
           /\ Grave(s, e, reason).grave = With(s.grave, e.pin, reason)
BY DEF Grave, Touches

\* An editor is written.
LEMMA WithEditorDoes ==
    ASSUME NEW s, "eds" \in DOMAIN s, NEW id, NEW ed
    PROVE  LET t == WithEditor(s, id, ed)
           IN  /\ Touches(s, t, {"eds"}) /\ DOMAIN t.eds = DOMAIN s.eds \cup {id}
               /\ \A i \in DOMAIN s.eds \cup {id} : t.eds[i] = IF i = id THEN ed ELSE s.eds[i]
               /\ \A i : EditorOf(t, i) = IF i = id THEN ed ELSE EditorOf(s, i)
<1> DEFINE t == WithEditor(s, id, ed)
<1>1. Touches(s, t, {"eds"}) /\ t.eds = With(s.eds, id, ed)
  BY DEF WithEditor, Touches
<1> HIDE DEF t
<1>2. /\ DOMAIN t.eds = DOMAIN s.eds \cup {id}
      /\ \A i \in DOMAIN s.eds \cup {id} : t.eds[i] = IF i = id THEN ed ELSE s.eds[i]
  BY <1>1 DEF With
<1>3. \A i : EditorOf(t, i) = IF i = id THEN ed ELSE EditorOf(s, i)
  BY <1>2 DEF EditorOf
<1> QED
  BY <1>1, <1>2, <1>3 DEF t

\* A record is written.
LEMMA WithRecordDoes ==
    ASSUME NEW s, "recs" \in DOMAIN s, NEW key, NEW r
    PROVE  /\ Touches(s, WithRecord(s, key, r), {"recs"})
           /\ WithRecord(s, key, r).recs = [s.recs EXCEPT ![s.entries[key]] = r]
BY DEF WithRecord, Touches

\* The fields of a state.
Fields ==
    {"params", "genesis", "bootEnd", "founders", "eds", "entries", "recs", "alias", "grave",
     "challenges", "regs", "props", "votes", "reviews", "day", "slugDay"}

\* The fields of an editor.
EditorFields ==
    {"founder", "reg", "pending", "endorsed", "rep", "revs", "until", "revoked", "banned"}

\* A state and its editors have the fields they should.
Shaped(s) == DOMAIN s = Fields /\ \A id : DOMAIN EditorOf(s, id) = EditorFields

\* An editor is what they were, but for what rulings and revisions change.
Stands(old, new) ==
    DOMAIN new = DOMAIN old /\ \A f \in DOMAIN old \ {"rep", "banned", "revs"} : new[f] = old[f]

SameStanding(s, t) == \A id : Stands(EditorOf(s, id), EditorOf(t, id))

\* Where the editors are the same, so is their standing.
LEMMA SameEditors ==
    ASSUME NEW s, NEW t, t.eds = s.eds
    PROVE  SameStanding(s, t)
BY DEF SameStanding, EditorOf, Stands

\* Standing that is left alone by two changes is left alone by both.
LEMMA StandingMore ==
    ASSUME NEW s, NEW t, NEW u, SameStanding(s, t), SameStanding(t, u)
    PROVE  SameStanding(s, u)
BY DEF SameStanding, Stands

\* Nobody is banned, and nobody's ban is lifted.
SameBans(s, t) == \A id : EditorOf(t, id).banned = EditorOf(s, id).banned

\* What a review changes.
LEMMA ReviewDoes ==
    ASSUME NEW s, Shaped(s), NEW e
    PROVE  LET t == ApplyReview(s, e)
           IN  /\ Touches(s, t, {"reviews", "grave"})
               /\ \/ t.reviews = s.reviews
                  \/ t.reviews = s.reviews \cup {[pin |-> e.pin, by |-> e.by, rev |-> e.goal]}
BY DEF ApplyReview, Grave, Touches, Shaped, Fields

\* What a challenge changes.
LEMMA ChallengeDoes ==
    ASSUME NEW s, Shaped(s), NEW e
    PROVE  Touches(s, ApplyChallenge(s, e), {"challenges", "recs", "grave"})
<1> DEFINE key == EntryKeyOfRev(s, e.goal)
           made == [s EXCEPT !.challenges = With(@, e.pin, [rev |-> e.goal, by |-> e.by, entry |-> key])]
           r == [RecordAt(s, key) EXCEPT !.disputed = @ \cup {e.goal}]
<1>1. Touches(s, made, {"challenges"})
  BY DEF Touches
<1>2. Touches(made, WithRecord(made, key, r), {"recs"})
  <2>1. "recs" \in DOMAIN made
    BY <1>1 DEF Touches, Shaped, Fields
  <2> HIDE DEF made, r
  <2> QED
    BY <2>1, WithRecordDoes
<1>3. ApplyChallenge(s, e) = WithRecord(made, key, r) \/ \E why : ApplyChallenge(s, e) = Grave(s, e, why)
  BY DEF ApplyChallenge
<1>4. \A why : Touches(s, Grave(s, e, why), {"grave"})
  BY GraveDoes DEF Shaped, Fields
<1> HIDE DEF made, r
<1> QED
  BY <1>1, <1>2, <1>3, <1>4 DEF Touches

\* What is asked of the rules changes votes only.
LEMMA ParamProposalDoes ==
    ASSUME NEW s, Shaped(s), NEW e
    PROVE  Touches(s, ApplyParamProposal(s, e), {"votes", "grave"})
BY DEF ApplyParamProposal, ParamVote, Grave, Touches, Shaped, Fields

\* Who is banned was banned before, or by a ruling.
BansBy(s, t, p) ==
    \A id : EditorOf(t, id).banned =>
        EditorOf(s, id).banned \/ (p.outcome = "ban-editor" /\ p.who = id)

\* What the outcome of a proposal changes.
LEMMA OutcomeDoes ==
    ASSUME NEW s, Shaped(s), NEW pin
    PROVE  LET t == ApplyOutcome(s, pin)
               p == s.props[pin]
           IN  /\ Touches(s, t, {"props", "recs", "entries", "alias", "eds"})
               /\ SameStanding(s, t)
               /\ BansBy(s, t, p)
               /\ t.props = [s.props EXCEPT ![pin].state = "effective"]
               /\ t.recs = [s.recs EXCEPT ![s.entries[p.entry]] =
                              OutcomeFor(s, pin, p, RecordAt(s, p.entry))]
               /\ \/ t.entries = s.entries
                  \/ p.from \in DOMAIN s.entries /\ t.entries = With(s.entries, p.to, s.entries[p.from])
<1> DEFINE p == s.props[pin]
           r == OutcomeFor(s, pin, p, RecordAt(s, p.entry))
           a == WithRecord(s, p.entry, r)
           b == [a EXCEPT !.props[pin].state = "effective"]
           c == Transferred(b, p)
           t == Sanctioned(c, p)
<1>1. ApplyOutcome(s, pin) = t
  BY DEF ApplyOutcome
<1> HIDE DEF r, p
<1>2. Touches(s, a, {"recs"}) /\ a.recs = [s.recs EXCEPT ![s.entries[p.entry]] = r]
  BY WithRecordDoes DEF Shaped, Fields
<1> HIDE DEF a
<1>3. /\ Touches(a, b, {"props"})
      /\ b.props = [a.props EXCEPT ![pin].state = "effective"]
  BY <1>2 DEF Touches, Shaped, Fields
<1> HIDE DEF b
<1>4. /\ Touches(b, c, {"entries", "alias"})
      /\ \/ c.entries = b.entries
         \/ p.from \in DOMAIN b.entries /\ c.entries = With(b.entries, p.to, b.entries[p.from])
  BY <1>2, <1>3 DEF Transferred, Touches, Shaped, Fields
<1> HIDE DEF c
<1>5. DOMAIN c = Fields /\ \A id : DOMAIN EditorOf(c, id) = EditorFields
  <2>1. DOMAIN c = Fields /\ c.eds = s.eds
    BY <1>2, <1>3, <1>4 DEF Touches, Shaped, Fields
  <2>2. \A id : EditorOf(c, id) = EditorOf(s, id)
    BY <2>1 DEF EditorOf
  <2> QED
    BY <2>1, <2>2 DEF Shaped
<1>6. /\ Touches(c, t, {"eds"}) /\ SameStanding(c, t)
      /\ \A id : EditorOf(t, id).banned =>
                    EditorOf(c, id).banned \/ (p.outcome = "ban-editor" /\ p.who = id)
  <2>1. CASE p.outcome \in DOMAIN Reputation
    <3> DEFINE ed == [EditorOf(c, p.who) EXCEPT !.rep = @ + Reputation[p.outcome],
                                                !.banned = @ \/ p.outcome = "ban-editor"]
    <3>1. t = WithEditor(c, p.who, ed)
      BY <2>1 DEF Sanctioned
    <3>2. Stands(EditorOf(c, p.who), ed)
      BY DEF Stands
    <3>3. ed.banned => EditorOf(c, p.who).banned \/ p.outcome = "ban-editor"
      <4>1. "banned" \in DOMAIN EditorOf(c, p.who)
        BY <1>5 DEF EditorFields
      <4> QED
        BY <4>1, Zenon
    <3> HIDE DEF ed
    <3>4. Touches(c, t, {"eds"}) /\ \A i : EditorOf(t, i) = IF i = p.who THEN ed ELSE EditorOf(c, i)
      <4>1. "eds" \in DOMAIN c
        BY <1>5 DEF Shaped, Fields
      <4> QED
        BY <3>1, <4>1, WithEditorDoes
    <3>5. \A x : Stands(x, x)
      BY DEF Stands
    <3> HIDE DEF t
    <3> QED
      BY <3>2, <3>3, <3>4, <3>5 DEF SameStanding
  <2>2. CASE p.outcome \notin DOMAIN Reputation
    BY <2>2 DEF Sanctioned, Touches, SameStanding, Stands
  <2> QED
    BY <2>1, <2>2
<1> HIDE DEF t
<1>7. s.eds = c.eds
  BY <1>2, <1>3, <1>4 DEF Touches, Shaped, Fields
<1>8. \A id : EditorOf(c, id) = EditorOf(s, id)
  BY <1>7 DEF EditorOf
<1>9. SameStanding(s, t)
  BY <1>6, <1>8 DEF SameStanding
<1>10. Touches(s, t, {"props", "recs", "entries", "alias", "eds"})
  BY <1>2, <1>3, <1>4, <1>6 DEF Touches
<1>11. t.props = b.props /\ t.recs = a.recs /\ t.entries = c.entries /\ b.entries = s.entries /\ a.props = s.props
  BY <1>2, <1>3, <1>4, <1>6 DEF Touches, Shaped, Fields
<1>12. BansBy(s, t, p)
  BY <1>6, <1>8 DEF BansBy
<1> QED
  BY <1>1, <1>2, <1>3, <1>4, <1>9, <1>10, <1>11, <1>12 DEF t, r, p

\* What comes with a ruling changes nobody's standing.
LEMMA RulingDoes ==
    ASSUME NEW s, Shaped(s), NEW e
    PROVE  LET t == ApplyRuling(s, e)
           IN  /\ Touches(s, t, {"props", "recs", "entries", "alias", "eds", "grave"})
               /\ SameStanding(s, t)
               /\ DOMAIN t.props \subseteq DOMAIN s.props \cup {e.pin}
<1> DEFINE t == ApplyRuling(s, e)
           Fine(x) == /\ Touches(s, x, {"props", "recs", "entries", "alias", "eds", "grave"})
                      /\ SameStanding(s, x)
                      /\ DOMAIN x.props \subseteq DOMAIN s.props \cup {e.pin}
<1>1. ASSUME NEW x, \/ /\ Touches(s, x, {"props"})
                      /\ DOMAIN x.props \subseteq DOMAIN s.props \cup {e.pin}
                   \/ Touches(s, x, {"grave"})
      PROVE  Fine(x)
  <2>1. /\ x.eds = s.eds /\ Touches(s, x, {"props", "recs", "entries", "alias", "eds", "grave"})
        /\ DOMAIN x.props \subseteq DOMAIN s.props \cup {e.pin}
    BY <1>1 DEF Touches, Shaped, Fields
  <2> QED
    BY <2>1, SameEditors
<1>2. \A why : Fine(Grave(s, e, why))
  <2>1. \A why : Touches(s, Grave(s, e, why), {"grave"})
    BY GraveDoes DEF Shaped, Fields
  <2> QED
    BY <1>1, <2>1
<1>3. CASE e.op = "proposal"
  <2>1. t = Propose(s, e)
    BY <1>3 DEF ApplyRuling
  <2>2. \/ \E why : t = Grave(s, e, why)
        \/ \E p : t = [s EXCEPT !.props = With(@, e.pin, p)]
    BY <2>1 DEF Propose
  <2>3. ASSUME NEW p, t = [s EXCEPT !.props = With(@, e.pin, p)]
        PROVE  Touches(s, t, {"props"}) /\ DOMAIN t.props \subseteq DOMAIN s.props \cup {e.pin}
    BY <2>3 DEF With, Touches, Shaped, Fields
  <2> QED
    BY <1>1, <1>2, <2>2, <2>3
<1>4. CASE e.op = "vote"
  <2> DEFINE p == s.props[e.ref]
             approves == IF e.ok THEN p.approves \cup ({e.by} \cap p.arbiters) ELSE p.approves
             voted == [s EXCEPT !.props[e.ref].voters = @ \cup {e.by},
                                !.props[e.ref].approves = approves]
  <2>1. t = Vote(s, e)
    BY <1>4 DEF ApplyRuling
  <2>2. \/ \E why : t = Grave(s, e, why)
        \/ t = voted \/ t = ApplyOutcome(voted, e.ref)
    BY <2>1 DEF Vote
  <2>3. Touches(s, voted, {"props"}) /\ DOMAIN voted.props = DOMAIN s.props
    BY DEF Touches, Shaped, Fields
  <2> HIDE DEF voted
  <2>4. Shaped(voted) /\ \A id : EditorOf(voted, id) = EditorOf(s, id)
    <3>1. DOMAIN voted = Fields /\ voted.eds = s.eds
      BY <2>3 DEF Touches, Shaped, Fields
    <3> QED
      BY <3>1 DEF Shaped, EditorOf
  <2>5. Fine(ApplyOutcome(voted, e.ref))
    <3> DEFINE u == ApplyOutcome(voted, e.ref)
    <3>1. /\ Touches(voted, u, {"props", "recs", "entries", "alias", "eds"}) /\ SameStanding(voted, u)
          /\ u.props = [voted.props EXCEPT ![e.ref].state = "effective"]
      BY <2>4, OutcomeDoes
    <3> HIDE DEF u
    <3>2. SameStanding(s, u)
      BY <2>4, <3>1 DEF SameStanding
    <3> QED
      BY <2>3, <3>1, <3>2 DEF Touches, u
  <2> QED
    BY <1>1, <1>2, <2>2, <2>3, <2>5
<1>5. CASE e.op \notin {"proposal", "vote"}
  BY <1>2, <1>5 DEF ApplyRuling
<1> QED
  BY <1>3, <1>4, <1>5

\* The entry of a revision is opened.
LEMMA OpenedDoes ==
    ASSUME NEW s, Shaped(s), NEW key
    PROVE  Touches(s, Opened(s, key), {"entries", "recs"})
BY DEF Opened, Touches

\* A revision that is counted changes nobody's standing.
LEMMA CountDoes ==
    ASSUME NEW s, Shaped(s), NEW e, NEW r
    PROVE  LET t == CountRev(s, e, r)
           IN  /\ Touches(s, t, {"day", "slugDay", "eds"})
               /\ t.day = With(s.day, <<e.by, DayOf(s, e.h)>>,
                               Counted(s.day, <<e.by, DayOf(s, e.h)>>) + 1)
               /\ SameStanding(s, t) /\ SameBans(s, t)
<1> DEFINE t == CountRev(s, e, r)
<1>1. /\ Touches(s, t, {"day", "slugDay", "eds"})
      /\ t.eds = [s.eds EXCEPT ![e.by].revs = @ + 1]
      /\ t.day = With(s.day, <<e.by, DayOf(s, e.h)>>, Counted(s.day, <<e.by, DayOf(s, e.h)>>) + 1)
  BY DEF CountRev, Touches, Shaped, Fields
<1> HIDE DEF t
<1>2. ASSUME NEW id PROVE Stands(EditorOf(s, id), EditorOf(t, id)) /\ EditorOf(t, id).banned = EditorOf(s, id).banned
  <2>1. CASE id \in DOMAIN s.eds
    <3>1. /\ EditorOf(s, id) = s.eds[id] /\ "banned" \in DOMAIN EditorOf(s, id)
          /\ EditorOf(t, id) = IF id = e.by THEN [s.eds[id] EXCEPT !.revs = @ + 1] ELSE s.eds[id]
      BY <1>1, <2>1 DEF EditorOf, Shaped, EditorFields
    <3> QED
      BY <3>1 DEF Stands
  <2>2. CASE id \notin DOMAIN s.eds
    <3>1. EditorOf(s, id) = NewEditor /\ EditorOf(t, id) = NewEditor
      BY <1>1, <2>2 DEF EditorOf
    <3> QED
      BY <3>1 DEF Stands
  <2> QED
    BY <2>1, <2>2
<1> QED
  BY <1>1, <1>2 DEF SameStanding, SameBans, t

\* What is written or refused of a revision.
LEMMA RevDoes ==
    ASSUME NEW s, Shaped(s), NEW e
    PROVE  LET t == ApplyRev(s, e)
           IN  /\ Touches(s, t, {"entries", "recs", "day", "slugDay", "eds", "grave"})
               /\ SameStanding(s, t) /\ SameBans(s, t)
<1> DEFINE o == Opened(s, e.entry)
           r == RecordAt(o, e.entry)
           t == ApplyRev(s, e)
           Fine(x) == /\ Touches(o, x, {"recs", "day", "slugDay", "eds", "grave"})
                      /\ SameStanding(o, x) /\ SameBans(o, x)
<1>1. Touches(s, o, {"entries", "recs"})
  BY OpenedDoes
<1>2. t = Gated(o, e, r)
  BY DEF ApplyRev
<1> HIDE DEF o, t
<1>3. SameStanding(s, o) /\ SameBans(s, o) /\ Shaped(o)
  <2>1. DOMAIN o = Fields /\ o.eds = s.eds
    BY <1>1 DEF Touches, Shaped, Fields
  <2>2. \A id : EditorOf(o, id) = EditorOf(s, id)
    BY <2>1 DEF EditorOf
  <2> QED
    BY <2>1, <2>2, SameEditors DEF Shaped, SameBans
<1>4. \A why : Fine(Grave(o, e, why))
  <2>1. \A why : Touches(o, Grave(o, e, why), {"grave"})
    BY <1>3, GraveDoes DEF Shaped, Fields
  <2>2. \A why : Grave(o, e, why).eds = o.eds /\ Fine(Grave(o, e, why))
    <3>1. \A why : Grave(o, e, why).eds = o.eds
      BY <1>3, <2>1 DEF Touches, Shaped, Fields
    <3> QED
      BY <2>1, <3>1, SameEditors DEF Touches, SameBans, EditorOf
  <2> QED
    BY <2>2
<1>5. ASSUME NEW q, NEW w PROVE Fine(WithRecord(CountRev(o, e, w), e.entry, q))
  <2> DEFINE c == CountRev(o, e, w)
             x == WithRecord(c, e.entry, q)
  <2>1. Touches(o, c, {"day", "slugDay", "eds"}) /\ SameStanding(o, c) /\ SameBans(o, c)
    BY <1>3, CountDoes
  <2> HIDE DEF c
  <2>2. "recs" \in DOMAIN c /\ "eds" \in DOMAIN c
    BY <1>3, <2>1 DEF Touches, Shaped, Fields
  <2>3. Touches(c, x, {"recs"})
    BY <2>2, WithRecordDoes
  <2> HIDE DEF x
  <2>4. x.eds = c.eds
    BY <2>2, <2>3 DEF Touches
  <2>5. SameStanding(o, x)
    BY <2>1, <2>4, SameEditors, StandingMore
  <2>6. SameBans(o, x)
    BY <2>1, <2>4 DEF SameBans, EditorOf
  <2> QED
    BY <2>1, <2>3, <2>5, <2>6 DEF Touches, x, c
<1>6. ASSUME NEW q, NEW w PROVE Fine(CountRev(WithRecord(o, e.entry, q), e, w))
  <2> DEFINE x == WithRecord(o, e.entry, q)
             c == CountRev(x, e, w)
  <2>1. Touches(o, x, {"recs"})
    BY <1>3, WithRecordDoes DEF Shaped, Fields
  <2> HIDE DEF x
  <2>2. DOMAIN x = Fields /\ x.eds = o.eds
    BY <1>3, <2>1 DEF Touches, Shaped, Fields
  <2>3. Shaped(x) /\ SameStanding(o, x) /\ SameBans(o, x)
    BY <1>3, <2>2, SameEditors DEF Shaped, EditorOf, SameBans
  <2>4. Touches(x, c, {"day", "slugDay", "eds"}) /\ SameStanding(x, c) /\ SameBans(x, c)
    BY <2>3, CountDoes
  <2> HIDE DEF c
  <2>5. SameStanding(o, c) /\ SameBans(o, c)
    BY <2>3, <2>4, StandingMore DEF SameBans
  <2> QED
    BY <2>1, <2>4, <2>5 DEF Touches, x, c
<1>7. \/ \E why : t = Grave(o, e, why)
      \/ \E q, w : t = WithRecord(CountRev(o, e, w), e.entry, q)
      \/ \E q, w : t = CountRev(WithRecord(o, e.entry, q), e, w)
  <2>1. ASSUME NEW q, NEW rev
        PROVE  \E p, w : Headed(o, e, q, rev) = CountRev(WithRecord(o, e.entry, p), e, w)
    BY DEF Headed
  <2>2. \E q : Reverted(CountRev(o, e, r), e, r) = WithRecord(CountRev(o, e, r), e.entry, q)
    BY DEF Reverted
  <2>3. \/ \E why : t = Grave(o, e, why)
        \/ \E q, rev : t = Headed(o, e, q, rev)
        \/ t = Reverted(CountRev(o, e, r), e, r)
    BY <1>2 DEF Gated, Written, Create, Edit, Revert, Redirect
  <2> QED
    BY <2>1, <2>2, <2>3
<1>8. Fine(t)
  BY <1>4, <1>5, <1>6, <1>7
<1>9. SameStanding(s, t) /\ SameBans(s, t)
  BY <1>3, <1>8, StandingMore DEF SameBans
<1> QED
  BY <1>1, <1>8, <1>9 DEF Touches, t

-----------------------------------------------------------------------------
(* Membership is earned *)

On(C, path, op) == {e \in C : e.path = path /\ e.op = op}

\* A pin of proof of work that answers a challenge in time.
Proven(C, c, p) ==
    /\ p \in On(C, "editor", "poc-response")
    /\ p.by = c.who /\ p.ref = c.pin /\ ChainOrder(c, p) /\ p.h - c.h <= BlocksPerHour
    /\ \E v \in C : v.path = "review" /\ v.pin = p.aux /\ v.by = c.who /\ ChainOrder(v, p)

\* A register with a stake, after the proof of work.
Staked(C, c, p, r) ==
    /\ r \in On(C, "editor", "register")
    /\ r.by = c.who /\ r.ref = c.pin /\ ChainOrder(p, r)

RegFields == {"who", "by", "h", "poc", "stake", "regH", "regTx", "regPin"}

\* Each registration is that of a challenge, and has come as far as it says.
RegInv(rc, k, C) ==
    /\ DOMAIN rc = RegFields /\ rc.poc \in BOOLEAN /\ rc.stake \in BOOLEAN
    /\ \E c \in On(C, "editor", "challenge") :
          /\ c.pin = k /\ c.who = rc.who /\ c.h = rc.h
          /\ rc.poc => \E p \in C : Proven(C, c, p)
          /\ rc.stake => \E p, r \in C : /\ Proven(C, c, p) /\ Staked(C, c, p, r)
                                         /\ r.h = rc.regH /\ r.tx = rc.regTx /\ r.pin = rc.regPin

\* Each review was pinned.
ReviewInv(v, C) == \E x \in C : x.path = "review" /\ x.pin = v.pin /\ x.by = v.by

\* Each endorsement was pinned, and nobody endorsed themselves.
EndorsedInv(ed, id, C) ==
    /\ IsFiniteSet(ed.endorsed) /\ id \notin ed.endorsed
    /\ \A b \in ed.endorsed : \E x \in On(C, "editor", "endorse") : x.by = b /\ x.who = id

BackersOf(C, ed, id, last) ==
    {b \in ed.endorsed \ {id} : \E x \in On(C, "editor", "endorse") :
        x.by = b /\ x.who = id /\ ~ChainOrder(last, x)}

\* All the steps of an editor are there.
Earned(C, ed, id, bootEnd) ==
    \E c, p, r, last \in C :
        /\ c \in On(C, "editor", "challenge") /\ last \in On(C, "editor", "endorse")
        /\ c.who = id /\ Proven(C, c, p) /\ Staked(C, c, p, r)
        /\ last.who = id /\ ChainOrder(r, last) /\ ed.reg = r.h
        /\ Cardinality(BackersOf(C, ed, id, last)) >= IF last.h < bootEnd THEN 4 ELSE 2

\* Before the genesis there is nobody and no vote; after it there are rules.
Founding(s) ==
    /\ s.params = None => DOMAIN s.eds = {} /\ DOMAIN s.votes = {}
    /\ s.params # None => "bootDays" \in DOMAIN s.params

Kept(s) == IsFiniteSet(DOMAIN s.props) /\ DOMAIN s.props \subseteq Nat

MInv(s, C) ==
    /\ Shaped(s) /\ Founding(s) /\ Kept(s)
    /\ \A k \in DOMAIN s.regs : RegInv(s.regs[k], k, C)
    /\ \A v \in s.reviews : ReviewInv(v, C)
    /\ \A id : EndorsedInv(EditorOf(s, id), id, C)
    /\ \A id : id \notin s.founders /\ EditorOf(s, id).reg # NotYet =>
                  Earned(C, EditorOf(s, id), id, s.bootEnd)

\* A pin that comes after others in the chain.
Comes(C, e) ==
    /\ e.h \in Nat /\ e.tx \in Nat /\ e.pin \in Nat
    /\ \A f \in C : /\ f.h \in Nat /\ f.tx \in Nat /\ f.pin \in Nat
                    /\ ChainOrder(f, e) /\ ~ChainOrder(e, f)

\* What was shown by the pins of before is shown by those and one more.
LEMMA ShownStill ==
    ASSUME NEW C, NEW e, Comes(C, e)
    PROVE  /\ \A rc, k : RegInv(rc, k, C) => RegInv(rc, k, C \cup {e})
           /\ \A v : ReviewInv(v, C) => ReviewInv(v, C \cup {e})
           /\ \A ed, id : EndorsedInv(ed, id, C) => EndorsedInv(ed, id, C \cup {e})
           /\ \A ed, id, h : Earned(C, ed, id, h) => Earned(C \cup {e}, ed, id, h)
<1> DEFINE D == C \cup {e}
<1>1. /\ C \subseteq D
      /\ \A path, op : On(C, path, op) \subseteq On(D, path, op)
      /\ \A c, p : Proven(C, c, p) => Proven(D, c, p)
      /\ \A c, p, r : Staked(C, c, p, r) => Staked(D, c, p, r)
  BY DEF On, Proven, Staked
<1>2. ASSUME NEW ed, NEW id, NEW last \in C PROVE BackersOf(D, ed, id, last) = BackersOf(C, ed, id, last)
  BY DEF BackersOf, On, Comes
<1>3. \A rc, k : RegInv(rc, k, C) => RegInv(rc, k, D)
  <2> SUFFICES ASSUME NEW rc, NEW k, RegInv(rc, k, C) PROVE RegInv(rc, k, D)
    OBVIOUS
  <2> HIDE DEF D
  <2> QED
    BY <1>1 DEF RegInv
<1>4. \A v : ReviewInv(v, C) => ReviewInv(v, D)
  BY DEF ReviewInv
<1>5. \A ed, id : EndorsedInv(ed, id, C) => EndorsedInv(ed, id, D)
  <2> HIDE DEF D
  <2> QED
    BY <1>1 DEF EndorsedInv
<1>6. ASSUME NEW ed, NEW id, NEW h, Earned(C, ed, id, h) PROVE Earned(D, ed, id, h)
  <2>1. PICK c, p, r, last \in C :
        /\ c \in On(C, "editor", "challenge") /\ last \in On(C, "editor", "endorse")
        /\ c.who = id /\ Proven(C, c, p) /\ Staked(C, c, p, r)
        /\ last.who = id /\ ChainOrder(r, last) /\ ed.reg = r.h
        /\ Cardinality(BackersOf(C, ed, id, last)) >= IF last.h < h THEN 4 ELSE 2
    BY <1>6 DEF Earned
  <2>2. last \in C
    BY DEF On
  <2>3. BackersOf(D, ed, id, last) = BackersOf(C, ed, id, last)
    BY <1>2, <2>2
  <2> HIDE DEF D
  <2> QED
    BY <1>1, <2>1, <2>3 DEF Earned
<1> QED
  BY <1>3, <1>4, <1>5, <1>6

\* So the invariant stays as the chain grows.
LEMMA MembersGrow ==
    ASSUME NEW s, NEW C, NEW e, Comes(C, e), MInv(s, C)
    PROVE  MInv(s, C \cup {e})
<1> DEFINE D == C \cup {e}
<1>1. /\ \A rc, k : RegInv(rc, k, C) => RegInv(rc, k, D)
      /\ \A v : ReviewInv(v, C) => ReviewInv(v, D)
      /\ \A ed, id : EndorsedInv(ed, id, C) => EndorsedInv(ed, id, D)
      /\ \A ed, id, h : Earned(C, ed, id, h) => Earned(D, ed, id, h)
  BY ShownStill
<1> HIDE DEF D
<1>2. MInv(s, D)
  BY <1>1 DEF MInv
<1> QED
  BY <1>2 DEF D

\* Every editor has the endorsements and the membership they had.
SameClaims(s, t) ==
    \A id : /\ DOMAIN EditorOf(t, id) = EditorFields
            /\ EditorOf(t, id).reg = EditorOf(s, id).reg
            /\ EditorOf(t, id).endorsed = EditorOf(s, id).endorsed

\* Standing includes both.
LEMMA StandingClaims ==
    ASSUME NEW s, NEW t, Shaped(s), SameStanding(s, t)
    PROVE  SameClaims(s, t)
BY DEF SameStanding, Stands, SameClaims, Shaped, EditorFields

\* And when nothing of what makes a member is touched.
LEMMA MembersStand ==
    ASSUME NEW s, NEW t, NEW C, MInv(s, C), DOMAIN t = Fields, Kept(t), Founding(t),
           t.founders = s.founders, t.bootEnd = s.bootEnd, t.regs = s.regs,
           \A v \in t.reviews : ReviewInv(v, C), SameClaims(s, t)
    PROVE  MInv(t, C)
<1>1. \A id : /\ EditorOf(t, id).reg = EditorOf(s, id).reg
              /\ EditorOf(t, id).endorsed = EditorOf(s, id).endorsed
              /\ DOMAIN EditorOf(t, id) = EditorFields
  BY DEF SameClaims
<1>2. \A id : EndorsedInv(EditorOf(t, id), id, C)
  BY <1>1 DEF MInv, EndorsedInv
<1>3. \A id, h : Earned(C, EditorOf(s, id), id, h) => Earned(C, EditorOf(t, id), id, h)
  <2>1. ASSUME NEW old, NEW new, NEW id, NEW h,
               new.reg = old.reg, new.endorsed = old.endorsed, Earned(C, old, id, h)
        PROVE  Earned(C, new, id, h)
    <3>1. \A last : BackersOf(C, new, id, last) = BackersOf(C, old, id, last)
      BY <2>1 DEF BackersOf
    <3> QED
      BY <2>1, <3>1 DEF Earned
  <2> QED
    BY <1>1, <2>1
<1> QED
  BY <1>1, <1>2, <1>3 DEF MInv, Shaped

\* The earliest of some registers.
LEMMA EarliestIs ==
    ASSUME NEW S, S # {},
           \A rc \in S : rc.regH \in Nat /\ rc.regTx \in Nat /\ rc.regPin \in Nat
    PROVE  \E rc \in S : \A other \in S :
              ~ \/ other.regH < rc.regH
                \/ other.regH = rc.regH /\ other.regTx < rc.regTx
                \/ other.regH = rc.regH /\ other.regTx = rc.regTx /\ other.regPin < rc.regPin
<1> DEFINE smaller == {ss \in Nat \X Nat : ss[1] < ss[2]}
<1>1. ASSUME NEW T, T # {}, T \subseteq Nat PROVE \E m \in T : \A k \in T : m <= k
  <2>1. IsWellFoundedOn(smaller, Nat)
    BY NatLessThanWellFounded DEF OpToRel
  <2>2. PICK m \in T : \A k \in T : ~(<<k, m>> \in smaller)
    <3> HIDE DEF smaller
    <3> QED
      BY <1>1, <2>1, WFMin, Zenon
  <2>3. ASSUME NEW k \in T PROVE m <= k
    <3>1. k \in Nat /\ m \in Nat /\ ~(<<k, m>> \in smaller)
      BY <1>1, <2>2
    <3> QED
      BY <3>1
  <2> QED
    BY <2>3
<1> DEFINE hs == {rc.regH : rc \in S}
<1>2. PICK h \in hs : \A k \in hs : h <= k
  <2>1. hs # {} /\ hs \subseteq Nat
    OBVIOUS
  <2> HIDE DEF hs
  <2> QED
    BY <1>1, <2>1
<1> DEFINE txs == {rc.regTx : rc \in {x \in S : x.regH = h}}
<1>3. PICK tx \in txs : \A k \in txs : tx <= k
  <2>1. txs # {} /\ txs \subseteq Nat
    OBVIOUS
  <2> HIDE DEF txs
  <2> QED
    BY <1>1, <2>1
<1> DEFINE pins == {rc.regPin : rc \in {x \in S : x.regH = h /\ x.regTx = tx}}
<1>4. PICK pin \in pins : \A k \in pins : pin <= k
  <2>1. pins # {} /\ pins \subseteq Nat
    OBVIOUS
  <2> HIDE DEF pins
  <2> QED
    BY <1>1, <2>1
<1>5. PICK rc \in S : rc.regH = h /\ rc.regTx = tx /\ rc.regPin = pin
  BY <1>4
<1>6. ASSUME NEW other \in S
      PROVE  ~ \/ other.regH < rc.regH
               \/ other.regH = rc.regH /\ other.regTx < rc.regTx
               \/ other.regH = rc.regH /\ other.regTx = rc.regTx /\ other.regPin < rc.regPin
  <2>1. h <= other.regH
    BY <1>2
  <2>2. other.regH = h => tx <= other.regTx
    BY <1>3
  <2>3. other.regH = h /\ other.regTx = tx => pin <= other.regPin
    BY <1>4
  <2>4. other.regH \in Nat /\ other.regTx \in Nat /\ other.regPin \in Nat /\ h \in Nat /\ tx \in Nat /\ pin \in Nat
    BY <1>5
  <2> QED
    BY <1>5, <2>1, <2>2, <2>3, <2>4
<1> QED
  BY <1>6

\* The register an endorsement means is a staked one of the applicant.
LEMMA EndorsedRegister ==
    ASSUME NEW s, NEW C, MInv(s, C), NEW f, Comes(C, f), NEW e, Endorsed(s, e) # None
    PROVE  \E k \in DOMAIN s.regs : /\ Endorsed(s, e) = s.regs[k]
                                    /\ s.regs[k].who = e.who /\ s.regs[k].stake
<1> DEFINE staked == {rc \in Range(s.regs) : rc.who = e.who /\ rc.stake}
           named == {rc \in staked : rc.regPin = e.aux}
           earliest == CHOOSE rc \in staked : \A other \in staked :
                          ~ \/ other.regH < rc.regH
                            \/ other.regH = rc.regH /\ other.regTx < rc.regTx
                            \/ /\ other.regH = rc.regH /\ other.regTx = rc.regTx
                               /\ other.regPin < rc.regPin
<1>1. Endorsed(s, e) = CASE named # {} -> CHOOSE rc \in named : TRUE
                         [] named = {} /\ staked # {} -> earliest
                         [] OTHER -> None
  BY Zenon DEF Endorsed
<1>2. \A rc \in staked : rc.regH \in Nat /\ rc.regTx \in Nat /\ rc.regPin \in Nat
  <2> SUFFICES ASSUME NEW k \in DOMAIN s.regs, s.regs[k].stake
               PROVE  /\ s.regs[k].regH \in Nat /\ s.regs[k].regTx \in Nat
                      /\ s.regs[k].regPin \in Nat
    BY DEF Range
  <2>1. RegInv(s.regs[k], k, C)
    BY DEF MInv
  <2>2. PICK r \in C : r.h = s.regs[k].regH /\ r.tx = s.regs[k].regTx /\ r.pin = s.regs[k].regPin
    BY <2>1 DEF RegInv, Staked, On
  <2> QED
    BY <2>2 DEF Comes
<1>3. staked # {} => earliest \in staked
  <2> SUFFICES ASSUME staked # {} PROVE earliest \in staked
    OBVIOUS
  <2>1. \E rc \in staked : \A other \in staked :
              ~ \/ other.regH < rc.regH
                \/ other.regH = rc.regH /\ other.regTx < rc.regTx
                \/ other.regH = rc.regH /\ other.regTx = rc.regTx /\ other.regPin < rc.regPin
    <3> HIDE DEF staked
    <3> QED
      BY <1>2, EarliestIs
  <2> HIDE DEF staked
  <2> QED
    BY <2>1
<1> HIDE DEF earliest
<1>4. Endorsed(s, e) \in staked
  <2>1. (CHOOSE rc \in named : TRUE) \in named \/ named = {}
    OBVIOUS
  <2> HIDE DEF staked
  <2> QED
    BY <1>1, <1>3, <2>1
<1> QED
  BY <1>4 DEF Range

\* The steps a pin of an editor takes: nothing.
LEMMA MembersGrave ==
    ASSUME NEW s, NEW C, MInv(s, C), NEW e, NEW why
    PROVE  MInv(Grave(s, e, why), C)
<1> DEFINE t == Grave(s, e, why)
<1>0. Shaped(s) /\ DOMAIN s = Fields /\ \A v \in s.reviews : ReviewInv(v, C)
  BY DEF MInv, Shaped
<1>1. Touches(s, t, {"grave"})
  BY <1>0, GraveDoes DEF Fields
<1> HIDE DEF t
<1>2. /\ t.eds = s.eds /\ t.props = s.props /\ t.params = s.params /\ t.votes = s.votes
      /\ t.founders = s.founders /\ t.bootEnd = s.bootEnd /\ t.regs = s.regs
      /\ t.reviews = s.reviews /\ DOMAIN t = Fields
  BY <1>0, <1>1 DEF Touches, Fields
<1>3. SameClaims(s, t)
  BY <1>0, <1>2, SameEditors, StandingClaims
<1>4. Kept(t) /\ Founding(t)
  BY <1>2 DEF MInv, Kept, Founding
<1> QED
  BY <1>0, <1>2, <1>3, <1>4, MembersStand DEF t

\* Registrations change.
LEMMA MembersRegs ==
    ASSUME NEW s, NEW C, MInv(s, C), NEW t, Touches(s, t, {"regs"}),
           \A k \in DOMAIN t.regs : RegInv(t.regs[k], k, C)
    PROVE  MInv(t, C)
<1>1. /\ t.eds = s.eds /\ t.props = s.props /\ t.params = s.params /\ t.votes = s.votes
      /\ t.founders = s.founders /\ t.bootEnd = s.bootEnd
      /\ t.reviews = s.reviews /\ DOMAIN t = Fields
  BY DEF Touches, Fields, MInv, Shaped
<1>2. \A id : EditorOf(t, id) = EditorOf(s, id)
  BY <1>1 DEF EditorOf
<1> QED
  BY <1>1, <1>2 DEF MInv, Shaped, Kept, Founding

\* An editor challenges an applicant.
LEMMA MembersChallenge ==
    ASSUME NEW s, NEW C, MInv(s, C), NEW e, Comes(C, e), e.path = "editor", e.op = "challenge"
    PROVE  MInv(EditorChallenge(s, e), C \cup {e})
<1> DEFINE D == C \cup {e}
           rc == [who |-> e.who, by |-> e.by, h |-> e.h, poc |-> FALSE, stake |-> FALSE,
                  regH |-> 0, regTx |-> 0, regPin |-> 0]
           t == [s EXCEPT !.regs = With(@, e.pin, rc)]
<1>1. MInv(s, D)
  BY MembersGrow
<1>2. RegInv(rc, e.pin, D)
  BY DEF RegInv, RegFields, On
<1>3. Touches(s, t, {"regs"}) /\ t.regs = With(s.regs, e.pin, rc)
  BY <1>1 DEF Touches, MInv, Shaped, Fields
<1>4. (\E why : EditorChallenge(s, e) = Grave(s, e, why)) \/ EditorChallenge(s, e) = t
  BY DEF EditorChallenge
<1> HIDE DEF t, rc, D
<1>5. \A k \in DOMAIN t.regs : RegInv(t.regs[k], k, D)
  <2>1. \A k \in DOMAIN s.regs : RegInv(s.regs[k], k, D)
    BY <1>1 DEF MInv
  <2> QED
    BY <1>2, <1>3, <2>1 DEF With
<1>6. MInv(t, D)
  BY <1>1, <1>3, <1>5, MembersRegs
<1> QED
  BY <1>1, <1>4, <1>6, MembersGrave DEF D

\* An applicant proves their work.
LEMMA MembersProve ==
    ASSUME NEW s, NEW C, MInv(s, C), NEW e, Comes(C, e), e.path = "editor", e.op = "poc-response"
    PROVE  MInv(PocResponse(s, e), C \cup {e})
<1> DEFINE D == C \cup {e}
           rc == Entry(s.regs, e.ref)
           t == [s EXCEPT !.regs[e.ref].poc = TRUE]
<1>1. MInv(s, D)
  BY MembersGrow
<1>2. \/ \E why : PocResponse(s, e) = Grave(s, e, why)
      \/ /\ PocResponse(s, e) = t
         /\ rc # None /\ rc.who = e.by /\ ~(e.h - rc.h > BlocksPerHour)
         /\ \E r \in s.reviews : r.pin = e.aux /\ r.by = e.by
  BY DEF PocResponse
<1>3. Touches(s, t, {"regs"}) /\ t.regs = [s.regs EXCEPT ![e.ref].poc = TRUE]
  BY <1>1 DEF Touches, MInv, Shaped, Fields
<1> HIDE DEF t
<1>4. ASSUME rc # None, rc.who = e.by, ~(e.h - rc.h > BlocksPerHour),
             \E r \in s.reviews : r.pin = e.aux /\ r.by = e.by
      PROVE  MInv(t, D)
  <2>1. e.ref \in DOMAIN s.regs /\ rc = s.regs[e.ref]
    BY <1>4 DEF Entry
  <2>2. RegInv(rc, e.ref, C) /\ RegInv(rc, e.ref, D)
    BY <1>1, <2>1 DEF MInv
  <2> DEFINE new == [rc EXCEPT !.poc = TRUE]
  <2>3. RegInv(new, e.ref, D)
    <3>1. PICK c \in On(C, "editor", "challenge") :
             /\ c.pin = e.ref /\ c.who = rc.who /\ c.h = rc.h
             /\ rc.stake => \E p, r \in C : /\ Proven(C, c, p) /\ Staked(C, c, p, r)
                                            /\ r.h = rc.regH /\ r.tx = rc.regTx /\ r.pin = rc.regPin
      BY <2>2 DEF RegInv
    <3>2. c \in C /\ c.h \in Nat /\ ChainOrder(c, e) /\ e.h \in Nat
      BY DEF On, Comes
    <3>3. PICK v \in C : v.path = "review" /\ v.pin = e.aux /\ v.by = e.by
      BY <1>4 DEF MInv, ReviewInv
    <3>4. ChainOrder(v, e)
      BY DEF Comes
    <3>5. BlocksPerHour \in Nat
      BY AgentpediaAssumption
    <3>6. e.h - c.h <= BlocksPerHour
      BY <1>4, <3>1, <3>2, <3>5
    <3>7. Proven(D, c, e)
      BY <1>4, <3>1, <3>2, <3>3, <3>4, <3>6 DEF Proven, On
    <3>8. /\ \A p : Proven(C, c, p) => Proven(D, c, p)
          /\ \A p, r : Staked(C, c, p, r) => Staked(D, c, p, r)
          /\ c \in On(D, "editor", "challenge") /\ C \subseteq D /\ e \in D
      BY DEF Proven, Staked, On
    <3>9. /\ DOMAIN new = RegFields /\ new.poc = TRUE /\ new.stake = rc.stake /\ new.who = rc.who
          /\ new.h = rc.h /\ new.regH = rc.regH /\ new.regTx = rc.regTx /\ new.regPin = rc.regPin
      BY <2>2 DEF RegInv, RegFields
    <3>10. rc.stake \in BOOLEAN
      BY <2>2 DEF RegInv
    <3> HIDE DEF new, D, rc
    <3> QED
      BY <3>1, <3>7, <3>8, <3>9, <3>10 DEF RegInv
  <2>4. \A k \in DOMAIN t.regs : t.regs[k] = IF k = e.ref THEN new ELSE s.regs[k]
    BY <1>3, <2>1
  <2>5. DOMAIN t.regs = DOMAIN s.regs
    BY <1>3
  <2>6. \A k \in DOMAIN s.regs : RegInv(s.regs[k], k, D)
    BY <1>1 DEF MInv
  <2> HIDE DEF new, D, rc
  <2> QED
    BY <1>1, <1>3, <2>3, <2>4, <2>5, <2>6, MembersRegs
<1> HIDE DEF D
<1> QED
  BY <1>1, <1>2, <1>4, MembersGrave DEF D

\* An editor is written, whose claims stay.
LEMMA MembersEdit ==
    ASSUME NEW s, NEW C, MInv(s, C), NEW id, NEW ed, DOMAIN ed = EditorFields,
           ed.reg = EditorOf(s, id).reg, ed.endorsed = EditorOf(s, id).endorsed, s.params # None
    PROVE  MInv(WithEditor(s, id, ed), C)
<1> DEFINE t == WithEditor(s, id, ed)
<1>0. Shaped(s) /\ DOMAIN s = Fields /\ \A v \in s.reviews : ReviewInv(v, C)
  BY DEF MInv, Shaped
<1>1. Touches(s, t, {"eds"}) /\ \A i : EditorOf(t, i) = IF i = id THEN ed ELSE EditorOf(s, i)
  <2>1. "eds" \in DOMAIN s
    BY <1>0 DEF Fields
  <2> QED
    BY <2>1, WithEditorDoes
<1> HIDE DEF t
<1>2. /\ t.props = s.props /\ t.params = s.params
      /\ t.founders = s.founders /\ t.bootEnd = s.bootEnd /\ t.regs = s.regs
      /\ t.reviews = s.reviews /\ DOMAIN t = Fields
  BY <1>0, <1>1 DEF Touches, Fields
<1>3. SameClaims(s, t)
  BY <1>0, <1>1 DEF SameClaims, Shaped
<1>4. Kept(t) /\ Founding(t)
  BY <1>2 DEF MInv, Kept, Founding
<1> QED
  BY <1>0, <1>2, <1>3, <1>4, MembersStand DEF t

\* An applicant registers with a stake.
LEMMA MembersRegister ==
    ASSUME NEW s, NEW C, MInv(s, C), NEW e, Comes(C, e), e.path = "editor", e.op = "register",
           s.params # None
    PROVE  MInv(Register(s, e), C \cup {e})
<1> DEFINE D == C \cup {e}
           rc == Entry(s.regs, e.ref)
           new == [rc EXCEPT !.stake = TRUE, !.regH = e.h, !.regTx = e.tx, !.regPin = e.pin]
           t == [s EXCEPT !.regs[e.ref].stake = TRUE, !.regs[e.ref].regH = e.h,
                          !.regs[e.ref].regTx = e.tx, !.regs[e.ref].regPin = e.pin]
           ed == [EditorOf(s, e.by) EXCEPT !.pending = e.h]
<1>1. MInv(s, D)
  BY MembersGrow
<1>2. \/ \E why : Register(s, e) = Grave(s, e, why)
      \/ /\ Register(s, e) = WithEditor(t, e.by, ed)
         /\ rc # None /\ rc.who = e.by /\ rc.poc
  <2> DEFINE mine == rc # None => rc.who = e.by /\ rc.poc
             poor == e.num < s.params.stake
  <2>1. Register(s, e) = CASE rc = None \/ ~mine -> Grave(s, e, "register-invalid")
                           [] rc # None /\ mine /\ poor -> Grave(s, e, "stake-insufficient")
                           [] OTHER -> WithEditor(t, e.by, ed)
    BY DEF Register
  <2> HIDE DEF t, ed, poor
  <2> QED
    BY <2>1
<1>3. ASSUME rc # None, rc.who = e.by, rc.poc
      PROVE  MInv(t, D)
  <2>1. e.ref \in DOMAIN s.regs /\ rc = s.regs[e.ref]
    BY <1>3 DEF Entry
  <2>2. RegInv(rc, e.ref, C)
    BY <2>1 DEF MInv
  <2>3. Touches(s, t, {"regs"}) /\ t.regs = [s.regs EXCEPT ![e.ref] = new]
    <3>1. /\ s.regs = s["regs"] /\ "regs" \in DOMAIN s
      BY DEF MInv, Shaped, Fields
    <3> QED
      BY <2>1, <3>1 DEF Touches
  <2>4. RegInv(new, e.ref, D)
    <3>1. PICK c, p \in C :
             /\ c \in On(C, "editor", "challenge")
             /\ c.pin = e.ref /\ c.who = rc.who /\ c.h = rc.h /\ Proven(C, c, p)
      BY <1>3, <2>2 DEF RegInv, On
    <3>2. p \in C /\ ChainOrder(p, e)
      BY <3>1 DEF Proven, On, Comes
    <3>3. /\ Proven(D, c, p) /\ Staked(D, c, p, e) /\ c \in On(D, "editor", "challenge")
          /\ p \in D /\ e \in D
      BY <1>3, <3>1, <3>2 DEF Proven, Staked, On
    <3>4. /\ DOMAIN new = RegFields /\ new.poc = rc.poc /\ new.stake = TRUE /\ new.who = rc.who
          /\ new.h = rc.h /\ new.regH = e.h /\ new.regTx = e.tx /\ new.regPin = e.pin
      BY <2>2 DEF RegInv, RegFields
    <3>5. rc.poc \in BOOLEAN
      BY <2>2 DEF RegInv
    <3> HIDE DEF new, D, rc
    <3> QED
      BY <3>1, <3>3, <3>4, <3>5 DEF RegInv
  <2> HIDE DEF t, new, D
  <2>5. \A k \in DOMAIN t.regs : RegInv(t.regs[k], k, D)
    <3>1. \A k \in DOMAIN s.regs : RegInv(s.regs[k], k, D)
      BY <1>1 DEF MInv
    <3> QED
      BY <2>3, <2>4, <3>1
  <2> QED
    BY <1>1, <2>3, <2>5, MembersRegs
<1>4. ASSUME rc # None, rc.who = e.by, rc.poc
      PROVE  MInv(WithEditor(t, e.by, ed), D)
  <2>1. MInv(t, D)
    BY <1>3, <1>4
  <2>2. t.eds = s.eds /\ t.params = s.params
    BY <1>1 DEF MInv, Shaped, Fields
  <2> HIDE DEF t
  <2>3. EditorOf(t, e.by) = EditorOf(s, e.by)
    BY <2>2 DEF EditorOf
  <2>4. /\ DOMAIN ed = EditorFields /\ ed.reg = EditorOf(t, e.by).reg
        /\ ed.endorsed = EditorOf(t, e.by).endorsed
    <3>1. DOMAIN EditorOf(s, e.by) = EditorFields
      BY DEF MInv, Shaped
    <3> QED
      BY <2>3, <3>1 DEF EditorFields
  <2> HIDE DEF ed, D
  <2> QED
    BY <2>1, <2>2, <2>4, MembersEdit
<1> HIDE DEF t, ed, D
<1> QED
  BY <1>1, <1>2, <1>4, MembersGrave DEF D

\* A T2 editor endorses an applicant.
LEMMA MembersEndorse ==
    ASSUME NEW s, NEW C, MInv(s, C), NEW e, Comes(C, e), e.path = "editor", e.op = "endorse",
           s.params # None
    PROVE  MInv(Endorse(s, e), C \cup {e})
<1> DEFINE D == C \cup {e}
           rc == Endorsed(s, e)
           id == e.who
           ed == EditorOf(s, id)
           backers == ed.endorsed \cup {e.by}
           needed == IF e.h < s.bootEnd THEN 4 ELSE 2
           enough == Cardinality(backers) >= needed /\ ed.reg = NotYet
           new == [ed EXCEPT !.endorsed = backers, !.reg = IF enough THEN rc.regH ELSE @]
           t == WithEditor(s, id, new)
<1>1. MInv(s, D)
  BY MembersGrow
<1>2. \/ \E why : Endorse(s, e) = Grave(s, e, why)
      \/ Endorse(s, e) = t /\ rc # None /\ e.by # id /\ e.by \notin ed.endorsed
  <2> HIDE DEF rc
  <2>1. Endorse(s, e) = CASE TierOf(s, e.by, e.h) # "T2" -> Grave(s, e, "endorser-not-t2")
          [] TierOf(s, e.by, e.h) = "T2" /\ rc = None -> Grave(s, e, "endorse-no-register")
          [] OTHER ->
               IF e.by = id THEN Grave(s, e, "self-endorse")
               ELSE IF e.by \in ed.endorsed THEN Grave(s, e, "duplicate-endorse") ELSE t
    BY Zenon DEF Endorse, rc
  <2> HIDE DEF t, ed
  <2> QED
    BY <2>1
<1>3. ASSUME rc # None, e.by # id, e.by \notin ed.endorsed
      PROVE  MInv(t, D)
  <2>1. DOMAIN ed = EditorFields /\ EndorsedInv(ed, id, C)
    BY DEF MInv, Shaped
  <2>2. /\ DOMAIN new = EditorFields /\ new.endorsed = backers
        /\ new.reg = IF enough THEN rc.regH ELSE ed.reg
    BY <2>1 DEF EditorFields
  <2> HIDE DEF new, ed
  <2>3. EndorsedInv(new, id, D)
    <3>1. IsFiniteSet(backers)
      BY <2>1, FS_AddElement DEF EndorsedInv
    <3>2. e \in On(D, "editor", "endorse") /\ On(C, "editor", "endorse") \subseteq On(D, "editor", "endorse")
      BY DEF On
    <3> HIDE DEF D
    <3> QED
      BY <1>3, <2>1, <2>2, <3>1, <3>2 DEF EndorsedInv
  <2>4. ASSUME NEW last \in C PROVE BackersOf(C, ed, id, last) \subseteq BackersOf(D, new, id, last)
    BY <2>2 DEF BackersOf, On
  <2>5. ASSUME enough, id \notin s.founders PROVE Earned(D, new, id, s.bootEnd)
    <3>1. PICK k \in DOMAIN s.regs : rc = s.regs[k] /\ rc.who = id /\ rc.stake
      BY <1>3, EndorsedRegister
    <3>2. RegInv(rc, k, C)
      BY <3>1 DEF MInv
    <3>3. PICK c, p, r \in C :
             /\ c \in On(C, "editor", "challenge")
             /\ c.who = id /\ Proven(C, c, p) /\ Staked(C, c, p, r) /\ r.h = rc.regH
      BY <3>1, <3>2 DEF RegInv, On
    <3>4. r \in C /\ ChainOrder(r, e)
      BY <3>3 DEF Staked, On, Comes
    <3>5. Proven(D, c, p) /\ Staked(D, c, p, r) /\ c \in On(D, "editor", "challenge")
      BY <3>3 DEF Proven, Staked, On
    <3>6. e \in On(D, "editor", "endorse") /\ C \subseteq D /\ e \in D
      BY DEF On
    <3>7. BackersOf(D, new, id, e) = backers
      <4>1. ~ChainOrder(e, e) /\ \A f \in C : ~ChainOrder(e, f)
        BY DEF Comes, ChainOrder
      <4>2. \A x \in On(D, "editor", "endorse") : ~ChainOrder(e, x)
        BY <4>1 DEF On
      <4>3. EndorsedInv(new, id, D) /\ new.endorsed = backers
        BY <2>2, <2>3
      <4> HIDE DEF backers, D
      <4> QED
        BY <4>2, <4>3 DEF EndorsedInv, BackersOf
    <3>8. Cardinality(BackersOf(D, new, id, e)) >= IF e.h < s.bootEnd THEN 4 ELSE 2
      BY <2>5, <3>7
    <3> HIDE DEF D, backers, needed, enough
    <3> QED
      BY <2>2, <2>5, <3>3, <3>4, <3>5, <3>6, <3>8 DEF Earned
  <2>6. ASSUME ~enough, new.reg # NotYet, id \notin s.founders PROVE Earned(D, new, id, s.bootEnd)
    <3>1. Earned(C, ed, id, s.bootEnd)
      BY <2>2, <2>6 DEF MInv, ed
    <3>2. PICK c, p, r, last \in C :
        /\ c \in On(C, "editor", "challenge") /\ last \in On(C, "editor", "endorse")
        /\ c.who = id /\ Proven(C, c, p) /\ Staked(C, c, p, r)
        /\ last.who = id /\ ChainOrder(r, last) /\ ed.reg = r.h
        /\ Cardinality(BackersOf(C, ed, id, last)) >= IF last.h < s.bootEnd THEN 4 ELSE 2
      BY <3>1 DEF Earned
    <3>3. /\ Proven(D, c, p) /\ Staked(D, c, p, r) /\ c \in On(D, "editor", "challenge")
          /\ last \in On(D, "editor", "endorse") /\ C \subseteq D
      BY <3>2 DEF Proven, Staked, On
    <3> DEFINE X == BackersOf(C, ed, id, last)
               Y == BackersOf(D, new, id, last)
    <3>4. X \subseteq Y /\ Y \subseteq new.endorsed /\ IsFiniteSet(new.endorsed)
      BY <2>3, <2>4, <3>3 DEF BackersOf, EndorsedInv
    <3> HIDE DEF X, Y
    <3>5. IsFiniteSet(Y) /\ IsFiniteSet(X) /\ Cardinality(X) <= Cardinality(Y)
      BY <3>4, FS_Subset
    <3>6. Cardinality(X) \in Nat /\ Cardinality(Y) \in Nat
      BY <3>5, FS_CardinalityType
    <3>7. Cardinality(Y) >= IF last.h < s.bootEnd THEN 4 ELSE 2
      BY <3>2, <3>5, <3>6 DEF X
    <3> HIDE DEF D, backers, needed, enough
    <3> QED
      BY <2>2, <2>6, <3>2, <3>3, <3>7 DEF Earned, Y
  <2>7. Touches(s, t, {"eds"}) /\ \A i : EditorOf(t, i) = IF i = id THEN new ELSE EditorOf(s, i)
    <3>1. "eds" \in DOMAIN s
      BY DEF MInv, Shaped, Fields
    <3> QED
      BY <3>1, WithEditorDoes
  <2> HIDE DEF t, enough, backers, D
  <2>8. /\ t.props = s.props /\ t.params = s.params
        /\ t.founders = s.founders /\ t.bootEnd = s.bootEnd /\ t.regs = s.regs
        /\ t.reviews = s.reviews /\ DOMAIN t = Fields
    BY <2>7 DEF Touches, Fields, MInv, Shaped
  <2>9. ASSUME NEW i PROVE EndorsedInv(EditorOf(t, i), i, D)
    BY <1>1, <2>3, <2>7 DEF MInv
  <2>10. ASSUME NEW i, i \notin s.founders, EditorOf(t, i).reg # NotYet
         PROVE  Earned(D, EditorOf(t, i), i, s.bootEnd)
    BY <1>1, <2>5, <2>6, <2>7, <2>10 DEF MInv
  <2>11. Shaped(t)
    BY <1>1, <2>2, <2>7, <2>8 DEF Shaped, MInv
  <2>12. Founding(t) /\ Kept(t)
    BY <1>1, <2>8 DEF MInv, Founding, Kept
  <2> QED
    BY <1>1, <2>8, <2>9, <2>10, <2>11, <2>12 DEF MInv
<1> HIDE DEF t, D, ed, rc
<1> QED
  BY <1>1, <1>2, <1>3, MembersGrave DEF D

\* What members come from.
Roots == {"params", "bootEnd", "founders", "regs", "reviews"}

\* A step that leaves their standing and what it comes from alone.
LEMMA MembersUntouched ==
    ASSUME NEW s, NEW C, MInv(s, C), NEW t, Touches(s, t, Fields \ Roots), SameStanding(s, t), Kept(t),
           s.params # None \/ (t.eds = s.eds /\ t.votes = s.votes)
    PROVE  MInv(t, C)
<1>1. Shaped(s) /\ DOMAIN s = Fields /\ \A v \in s.reviews : ReviewInv(v, C)
  BY DEF MInv, Shaped
<1>2. /\ t.params = s.params /\ t.founders = s.founders /\ t.bootEnd = s.bootEnd
      /\ t.regs = s.regs /\ t.reviews = s.reviews /\ DOMAIN t = Fields
  BY <1>1 DEF Touches, Fields, Roots
<1>3. SameClaims(s, t)
  BY <1>1, StandingClaims
<1>4. Founding(t)
  BY <1>2 DEF MInv, Founding
<1> QED
  BY <1>1, <1>2, <1>3, <1>4, MembersStand

\* Time passes.
LEMMA MembersClose ==
    ASSUME NEW s, NEW C, MInv(s, C), NEW h
    PROVE  MInv(CloseExpired(s, h), C) /\ CloseExpired(s, h).params = s.params
<1> DEFINE t == CloseExpired(s, h)
<1>1. DOMAIN s = Fields /\ Kept(s)
  BY DEF MInv, Shaped
<1>2. VoidedIn(s, t, Expired(s, h))
  BY <1>1, CloseDoes DEF Kept, Fields
<1> HIDE DEF t
<1>3. /\ Touches(s, t, {"recs", "props"}) /\ DOMAIN t.props = DOMAIN s.props
      /\ t.eds = s.eds /\ t.votes = s.votes /\ t.params = s.params
  BY <1>1, <1>2 DEF VoidedIn, Touches, Fields
<1>4. Touches(s, t, Fields \ Roots)
  BY <1>3 DEF Touches, Fields, Roots
<1>5. SameStanding(s, t)
  BY <1>3, SameEditors
<1>6. Kept(t)
  BY <1>1, <1>3 DEF Kept
<1> QED
  BY <1>3, <1>4, <1>5, <1>6, MembersUntouched DEF t

\* A ruling is carried out.
LEMMA MembersSanction ==
    ASSUME NEW s, NEW C, MInv(s, C), NEW e, s.params # None
    PROVE  MInv(CarryOut(s, e), C)
<1> DEFINE ed == EditorOf(s, e.who)
           days == s.params.suspendDays
           revoked == [ed EXCEPT !.revoked = TRUE]
           suspended == [ed EXCEPT !.until = e.h + days * BlocksPerDay]
<1>1. \/ \E why : CarryOut(s, e) = Grave(s, e, why)
      \/ CarryOut(s, e) = WithEditor(s, e.who, revoked)
      \/ CarryOut(s, e) = WithEditor(s, e.who, suspended)
  BY DEF CarryOut
<1>2. DOMAIN ed = EditorFields
  BY DEF MInv, Shaped
<1>3. \A new \in {revoked, suspended} : DOMAIN new = EditorFields /\ new.reg = ed.reg /\ new.endorsed = ed.endorsed
  BY <1>2 DEF EditorFields
<1> HIDE DEF revoked, suspended
<1>4. MInv(WithEditor(s, e.who, revoked), C) /\ MInv(WithEditor(s, e.who, suspended), C)
  BY <1>3, MembersEdit
<1> QED
  BY <1>1, <1>4, MembersGrave

\* Whatever a pin of an editor does.
LEMMA MembersEditor ==
    ASSUME NEW state_, NEW C, MInv(state_, C), NEW e, Comes(C, e), e.path = "editor",
           state_.params # None
    PROVE  MInv(ApplyEditor(state_, e), C \cup {e})
<1> DEFINE ed == EditorOf(state_, e.who)
           s == WithEditor(state_, e.who, ed)
           t == ApplyEditor(state_, e)
<1>1. DOMAIN ed = EditorFields
  BY DEF MInv, Shaped
<1>2. MInv(s, C)
  BY <1>1, MembersEdit
<1>3. s.params # None
  <2>1. "eds" \in DOMAIN state_ /\ "params" \in DOMAIN state_
    BY DEF MInv, Shaped, Fields
  <2>2. Touches(state_, s, {"eds"})
    BY <2>1, WithEditorDoes
  <2> HIDE DEF s
  <2> QED
    BY <2>1, <2>2 DEF Touches
<1>4. t = CASE e.op = "challenge" -> EditorChallenge(s, e)
            [] e.op = "poc-response" -> PocResponse(s, e)
            [] e.op = "register" -> Register(s, e)
            [] e.op = "endorse" -> Endorse(s, e)
            [] e.op \in {"suspend", "revoke"} -> CarryOut(s, e)
            [] OTHER -> Grave(s, e, "editor-action-unknown")
  BY Zenon DEF ApplyEditor
<1> HIDE DEF s, t
<1>5. CASE e.op = "challenge"
  <2>1. t = EditorChallenge(s, e)
    BY <1>4, <1>5
  <2> QED
    BY <1>2, <1>5, <2>1, MembersChallenge DEF t
<1>6. CASE e.op = "poc-response"
  <2>1. t = PocResponse(s, e)
    BY <1>4, <1>6
  <2> QED
    BY <1>2, <1>6, <2>1, MembersProve DEF t
<1>7. CASE e.op = "register"
  <2>1. t = Register(s, e)
    BY <1>4, <1>7
  <2> QED
    BY <1>2, <1>3, <1>7, <2>1, MembersRegister DEF t
<1>8. CASE e.op = "endorse"
  <2>1. t = Endorse(s, e)
    BY <1>4, <1>8
  <2> QED
    BY <1>2, <1>3, <1>8, <2>1, MembersEndorse DEF t
<1>9. CASE e.op \in {"suspend", "revoke"}
  <2>1. t = CarryOut(s, e)
    BY <1>4, <1>9
  <2> QED
    BY <1>2, <1>3, <2>1, MembersSanction, MembersGrow DEF t
<1>10. CASE e.op \notin {"challenge", "poc-response", "register", "endorse", "suspend", "revoke"}
  <2>1. t = Grave(s, e, "editor-action-unknown")
    BY <1>4, <1>10
  <2> QED
    BY <1>2, <2>1, MembersGrave, MembersGrow DEF t
<1> QED
  BY <1>5, <1>6, <1>7, <1>8, <1>9, <1>10

\* A review is one of the pins.
LEMMA MembersReview ==
    ASSUME NEW s, NEW C, MInv(s, C), NEW e, Comes(C, e), e.path = "review"
    PROVE  MInv(ApplyReview(s, e), C \cup {e})
<1> DEFINE D == C \cup {e}
           t == ApplyReview(s, e)
           v == [pin |-> e.pin, by |-> e.by, rev |-> e.goal]
<1>1. MInv(s, D)
  BY MembersGrow
<1>2. Shaped(s) /\ DOMAIN s = Fields
  BY DEF MInv, Shaped
<1>3. Touches(s, t, {"reviews", "grave"}) /\ (t.reviews = s.reviews \/ t.reviews = s.reviews \cup {v})
  BY <1>2, ReviewDoes
<1>4. ReviewInv(v, D)
  BY DEF ReviewInv
<1> HIDE DEF t, v, D
<1>5. \A w \in t.reviews : ReviewInv(w, D)
  BY <1>1, <1>3, <1>4 DEF MInv
<1>6. /\ t.params = s.params /\ t.founders = s.founders /\ t.bootEnd = s.bootEnd /\ t.votes = s.votes
      /\ t.regs = s.regs /\ t.eds = s.eds /\ t.props = s.props /\ DOMAIN t = Fields
  BY <1>2, <1>3 DEF Touches, Fields
<1>7. SameClaims(s, t)
  BY <1>2, <1>6, SameEditors, StandingClaims
<1>8. Kept(t) /\ Founding(t)
  BY <1>1, <1>6 DEF MInv, Kept, Founding
<1> QED
  BY <1>1, <1>5, <1>6, <1>7, <1>8, MembersStand DEF t, D

\* Pins about entries, disputes and rules leave membership alone.
LEMMA MembersRest ==
    ASSUME NEW s, NEW C, MInv(s, C), NEW e, Comes(C, e), s.params # None
    PROVE  \A t \in {ApplyChallenge(s, e), ApplyRuling(s, e), ApplyParamProposal(s, e), ApplyRev(s, e)} :
              MInv(t, C \cup {e})
<1> DEFINE D == C \cup {e}
<1>1. MInv(s, D)
  BY MembersGrow
<1>2. Shaped(s) /\ DOMAIN s = Fields /\ Kept(s)
  BY DEF MInv, Shaped
<1> HIDE DEF D
<1>3. ASSUME NEW t, NEW fields, Touches(s, t, fields), fields \subseteq Fields \ Roots,
             SameStanding(s, t), Kept(t)
      PROVE  MInv(t, D)
  <2>1. Touches(s, t, Fields \ Roots)
    BY <1>3 DEF Touches
  <2> QED
    BY <1>1, <1>3, <2>1, MembersUntouched
<1>4. ASSUME NEW t, NEW fields, Touches(s, t, fields), fields \subseteq Fields \ (Roots \cup {"eds", "props"})
      PROVE  MInv(t, D)
  <2>1. t.eds = s.eds /\ t.props = s.props
    BY <1>2, <1>4 DEF Touches, Fields
  <2>2. SameStanding(s, t) /\ Kept(t)
    BY <1>2, <2>1, SameEditors DEF Kept
  <2> QED
    BY <1>3, <1>4, <2>2
<1>5. MInv(ApplyChallenge(s, e), D)
  <2>1. Touches(s, ApplyChallenge(s, e), {"challenges", "recs", "grave"})
    BY <1>2, ChallengeDoes
  <2>2. {"challenges", "recs", "grave"} \subseteq Fields \ (Roots \cup {"eds", "props"})
    BY DEF Fields, Roots
  <2> QED
    BY <1>4, <2>1, <2>2
<1>6. MInv(ApplyParamProposal(s, e), D)
  <2>1. Touches(s, ApplyParamProposal(s, e), {"votes", "grave"})
    BY <1>2, ParamProposalDoes
  <2>2. {"votes", "grave"} \subseteq Fields \ (Roots \cup {"eds", "props"})
    BY DEF Fields, Roots
  <2> QED
    BY <1>4, <2>1, <2>2
<1>7. MInv(ApplyRuling(s, e), D)
  <2> DEFINE t == ApplyRuling(s, e)
  <2>1. /\ Touches(s, t, {"props", "recs", "entries", "alias", "eds", "grave"})
        /\ SameStanding(s, t) /\ DOMAIN t.props \subseteq DOMAIN s.props \cup {e.pin}
    BY <1>2, RulingDoes
  <2>2. {"props", "recs", "entries", "alias", "eds", "grave"} \subseteq Fields \ Roots
    BY DEF Fields, Roots
  <2> HIDE DEF t
  <2>3. Kept(t)
    <3>1. IsFiniteSet(DOMAIN s.props \cup {e.pin}) /\ DOMAIN s.props \cup {e.pin} \subseteq Nat
      BY <1>2, FS_AddElement DEF Kept, Comes
    <3> QED
      BY <2>1, <3>1, FS_Subset DEF Kept
  <2>4. MInv(t, D)
    BY <1>3, <2>1, <2>2, <2>3
  <2> QED
    BY <2>4 DEF t
<1>8. MInv(ApplyRev(s, e), D)
  <2> DEFINE t == ApplyRev(s, e)
  <2>1. Touches(s, t, {"entries", "recs", "day", "slugDay", "eds", "grave"}) /\ SameStanding(s, t)
    BY <1>2, RevDoes
  <2>2. {"entries", "recs", "day", "slugDay", "eds", "grave"} \subseteq Fields \ Roots
    BY DEF Fields, Roots
  <2> HIDE DEF t
  <2>3. t.props = s.props
    BY <1>2, <2>1 DEF Touches, Fields
  <2>4. MInv(t, D)
    BY <1>2, <1>3, <2>1, <2>2, <2>3 DEF Kept
  <2> QED
    BY <2>4 DEF t
<1> QED
  BY <1>5, <1>6, <1>7, <1>8 DEF D

\* A genesis brings its rules.
Ruled(e) == e.path = "constitution" /\ e.op = "genesis" => "bootDays" \in DOMAIN e.params

\* The founders are the first editors, and the rules are amended.
LEMMA MembersRules ==
    ASSUME NEW s, NEW C, MInv(s, C), NEW e, e.path = "constitution", Ruled(e)
    PROVE  MInv(ApplyConstitution(s, e), C)
<1> DEFINE founder == [NewEditor EXCEPT !.founder = TRUE, !.reg = e.h]
           g == Genesis(s, e)
           a == [s EXCEPT !.params = Over(e.params, @)]
           t == ApplyConstitution(s, e)
<1>1. Shaped(s) /\ DOMAIN s = Fields /\ Founding(s) /\ Kept(s)
  BY DEF MInv, Shaped
<1>2. \/ \E why : t = Grave(s, e, why)
      \/ t = g /\ e.op = "genesis" /\ s.params = None
      \/ t = a /\ DOMAIN s.votes # {}
  BY DEF ApplyConstitution
<1> HIDE DEF t
<1>3. ASSUME e.op = "genesis", s.params = None PROVE MInv(g, C)
  <2>1. /\ g.params = e.params /\ g.founders = e.founders /\ g.regs = s.regs /\ g.reviews = s.reviews
        /\ g.props = s.props /\ g.eds = Over([id \in e.founders |-> founder], s.eds)
        /\ DOMAIN g = Fields
    BY <1>1 DEF Genesis, Fields
  <2>2. "bootDays" \in DOMAIN g.params /\ g.params # None
    BY <1>3, <2>1 DEF Ruled, None
  <2> HIDE DEF g
  <2>3. DOMAIN s.eds = {}
    BY <1>1, <1>3 DEF Founding
  <2>4. DOMAIN g.eds = e.founders /\ \A id \in e.founders : g.eds[id] = founder
    BY <2>1, <2>3 DEF Over
  <2>5. \A id : EditorOf(g, id) = IF id \in e.founders THEN founder ELSE NewEditor
    BY <2>4 DEF EditorOf
  <2>6. \A id : EditorOf(g, id) \in {founder, NewEditor} /\ (id \notin g.founders => EditorOf(g, id).reg = NotYet)
    BY <2>1, <2>5 DEF NewEditor
  <2>7. \A ed \in {founder, NewEditor} : DOMAIN ed = EditorFields /\ ed.endorsed = {}
    <3>1. DOMAIN NewEditor = EditorFields /\ NewEditor.endorsed = {}
      BY DEF NewEditor, EditorFields
    <3>2. DOMAIN founder = EditorFields /\ founder.endorsed = {}
      BY DEF NewEditor, EditorFields
    <3> HIDE DEF founder
    <3> QED
      BY <3>1, <3>2
  <2> HIDE DEF founder
  <2>8. Shaped(g)
    BY <2>1, <2>6, <2>7 DEF Shaped
  <2>9. \A id : EndorsedInv(EditorOf(g, id), id, C)
    BY <2>6, <2>7, FS_EmptySet DEF EndorsedInv
  <2>10. Founding(g) /\ Kept(g)
    BY <1>1, <2>1, <2>2 DEF Founding, Kept
  <2> QED
    BY <2>1, <2>6, <2>8, <2>9, <2>10 DEF MInv
<1>4. ASSUME DOMAIN s.votes # {} PROVE MInv(a, C)
  <2>1. /\ DOMAIN a = Fields /\ a.params = Over(e.params, s.params)
        /\ a.eds = s.eds /\ a.founders = s.founders /\ a.bootEnd = s.bootEnd /\ a.regs = s.regs
        /\ a.reviews = s.reviews /\ a.props = s.props
    BY <1>1 DEF Fields
  <2> HIDE DEF a
  <2>2. "bootDays" \in DOMAIN a.params /\ a.params # None
    <3>1. "bootDays" \in DOMAIN s.params
      BY <1>1, <1>4 DEF Founding
    <3>2. "bootDays" \in DOMAIN a.params
      BY <2>1, <3>1 DEF Over
    <3> QED
      BY <3>2 DEF None
  <2>3. SameClaims(s, a)
    BY <1>1, <2>1, SameEditors, StandingClaims
  <2>4. Founding(a) /\ Kept(a)
    BY <1>1, <2>1, <2>2 DEF Founding, Kept
  <2>5. \A v \in a.reviews : ReviewInv(v, C)
    BY <2>1 DEF MInv
  <2> QED
    BY <2>1, <2>3, <2>4, <2>5, MembersStand
<1> HIDE DEF g, a
<1> QED
  BY <1>2, <1>3, <1>4, MembersGrave DEF t

\* Applying a pin that comes after the others keeps the invariant.
LEMMA MembersApply ==
    ASSUME NEW s_, NEW C, MInv(s_, C), NEW e, Comes(C, e), Ruled(e)
    PROVE  MInv(Apply(s_, e), C \cup {e})
<1> DEFINE D == C \cup {e}
           s == CloseExpired(s_, e.h)
           t == Apply(s_, e)
           rest == {ApplyChallenge(s, e), ApplyRuling(s, e), ApplyParamProposal(s, e), ApplyRev(s, e)}
<1>1. MInv(s, C)
  BY MembersClose
<1>2. \/ e.path = "constitution" /\ t = ApplyConstitution(s, e)
      \/ \E why : t = Grave(s, e, why)
      \/ /\ s.params # None
         /\ \/ e.path = "editor" /\ t = ApplyEditor(s, e)
            \/ e.path = "review" /\ t = ApplyReview(s, e)
            \/ t \in rest
  <2>1. t = Dispatch(s, e)
    BY DEF Apply
  <2> HIDE DEF s
  <2> DEFINE inner == CASE e.path = "editor" -> ApplyEditor(s, e)
                        [] e.path = "review" -> ApplyReview(s, e)
                        [] e.path = "challenge" -> ApplyChallenge(s, e)
                        [] e.path = "ruling" -> ApplyRuling(s, e)
                        [] e.path = "param-proposal" -> ApplyParamProposal(s, e)
                        [] e.path = "rev" -> ApplyRev(s, e)
                        [] OTHER -> Grave(s, e, "unknown-path")
  <2>2. Dispatch(s, e) = CASE e.path = "constitution" -> ApplyConstitution(s, e)
                           [] e.path # "constitution" /\ s.params = None -> Grave(s, e, "no-genesis")
                           [] OTHER -> inner
    BY Zenon DEF Dispatch
  <2>3. \/ e.path = "editor" /\ inner = ApplyEditor(s, e)
        \/ e.path = "review" /\ inner = ApplyReview(s, e)
        \/ inner \in rest
        \/ inner = Grave(s, e, "unknown-path")
    OBVIOUS
  <2> HIDE DEF inner, t, rest
  <2> QED
    BY <2>1, <2>2, <2>3
<1> HIDE DEF t, s
<1>3. ASSUME NEW u, MInv(u, C) PROVE MInv(u, D)
  BY <1>3, MembersGrow
<1>4. ASSUME e.path = "constitution" PROVE MInv(ApplyConstitution(s, e), D)
  BY <1>1, <1>3, <1>4, MembersRules
<1>5. \A why : MInv(Grave(s, e, why), D)
  BY <1>1, <1>3, MembersGrave
<1>6. ASSUME s.params # None, e.path = "editor" PROVE MInv(ApplyEditor(s, e), D)
  BY <1>1, <1>6, MembersEditor
<1>7. ASSUME e.path = "review" PROVE MInv(ApplyReview(s, e), D)
  BY <1>1, <1>7, MembersReview
<1>8. ASSUME s.params # None PROVE \A u \in rest : MInv(u, D)
  BY <1>1, <1>8, MembersRest
<1> HIDE DEF rest, D
<1> QED
  BY <1>2, <1>4, <1>5, <1>6, <1>7, <1>8 DEF t, D

\* Nothing has happened yet.
LEMMA MembersStart == MInv(Start, {})
<1>1. \A id : EditorOf(Start, id) = NewEditor
  BY DEF EditorOf, Start
<1>2. DOMAIN NewEditor = EditorFields /\ NewEditor.endorsed = {} /\ NewEditor.reg = NotYet
  BY DEF NewEditor, EditorFields
<1>3. /\ DOMAIN Start = Fields /\ Start.params = None /\ DOMAIN Start.eds = {} /\ DOMAIN Start.votes = {}
      /\ DOMAIN Start.props = {} /\ DOMAIN Start.regs = {} /\ Start.reviews = {}
  BY DEF Start, Fields
<1> QED
  BY <1>1, <1>2, <1>3, FS_EmptySet DEF MInv, Shaped, Founding, Kept, EndorsedInv

-----------------------------------------------------------------------------
(* The chain and the members it makes *)

\* What is still to be mined is as the story says.
StoryInv == \A t \in Range(todo) : {"op", "params"} \subseteq DOMAIN t /\ Ruled(t)

MembersInv == AInv /\ StoryInv /\ MInv(state, Confirmed)

\* What is left of a story is as it was.
LEMMA StoryStays ==
    ASSUME StoryInv, Range(todo') \subseteq Range(todo)
    PROVE  StoryInv'
BY DEF StoryInv, Ruled

\* The pin that is mined comes after the others, and the chain is longer by it.
LEMMA ChainGrows ==
    ASSUME AInv, NEW k \in 1 .. Len(todo), NEW more \in Nat, Add(Mined(todo[k], more))
    PROVE  LET m == Mined(todo[k], more)
           IN  /\ Comes(Confirmed, m) /\ Confirmed' = Confirmed \cup {m} /\ m \notin Confirmed
               /\ chain' = Append(chain, m) /\ state' = Apply(state, m)
               /\ \A f \in DOMAIN todo[k] \ {"h", "tx"} : m[f] = todo[k][f]
<1> DEFINE m == Mined(todo[k], more)
<1>1. LogInv /\ TodoInv
  BY DEF AInv
<1>2. /\ {"pin", "path", "wait", "h", "tx"} \subseteq DOMAIN todo[k]
      /\ todo[k].wait \in Nat /\ todo[k].pin \in Nat
      /\ \A e \in Confirmed : e.pin # todo[k].pin
  BY <1>1 DEF TodoInv, Range
<1>3. /\ m.h \in Nat /\ m.tx \in Nat /\ m.pin = todo[k].pin /\ \A f \in Confirmed : ChainOrder(f, m)
  BY <1>1, <1>2, MinedLast
<1>4. \A f \in DOMAIN todo[k] \ {"h", "tx"} : m[f] = todo[k][f]
  BY DEF Mined
<1>5. chain' = Append(chain, m) /\ state' = Apply(state, m)
  BY DEF Add
<1> HIDE DEF m
<1>6. Comes(Confirmed, m) /\ m \notin Confirmed
  BY <1>1, <1>2, <1>3 DEF Comes, LogInv, ChainOrder
<1>7. Confirmed' = Confirmed \cup {m}
  <2>1. chain \in Seq(Confirmed) /\ Len(chain) \in Nat
    BY <1>1 DEF LogInv
  <2> DEFINE n == Len(chain)
  <2>2. /\ chain' \in Seq(Confirmed \cup {m}) /\ Len(chain') = n + 1 /\ chain'[n + 1] = m
        /\ \A i \in 1 .. n : chain'[i] = chain[i]
    BY <1>5, <2>1
  <2>3. Confirmed' = {chain'[i] : i \in 1 .. n + 1} /\ Confirmed = {chain[i] : i \in 1 .. n}
    <3>1. DOMAIN chain' = 1 .. n + 1 /\ DOMAIN chain = 1 .. n
      BY <2>1, <2>2
    <3> HIDE DEF n
    <3> QED
      BY <3>1 DEF Confirmed, Range
  <2>4. n \in Nat /\ 1 .. n + 1 = (1 .. n) \cup {n + 1}
    BY <2>1
  <2> HIDE DEF n
  <2>5. Confirmed' = {chain'[i] : i \in (1 .. n) \cup {n + 1}}
    BY <2>3, <2>4
  <2>6. Confirmed = {chain'[i] : i \in 1 .. n}
    BY <2>2, <2>3
  <2> QED
    BY <2>2, <2>5, <2>6
<1> QED
  BY <1>4, <1>5, <1>6, <1>7 DEF m

\* The pin a mining step mines, and what it leaves to be mined.
LEMMA MineTakes ==
    ASSUME TodoInv, Mine \/ MineLate \/ MineEarly
    PROVE  /\ Range(todo') \subseteq Range(todo)
           /\ \E k \in 1 .. Len(todo), more \in Nat : Add(Mined(todo[k], more))
<1>1. CASE Mine \/ MineLate
  <2>1. todo # <<>> /\ todo' = Tail(todo)
    BY <1>1 DEF Mine, MineLate
  <2>2. Len(todo) \in Nat \ {0} /\ Head(todo) = todo[1] /\ Dropped(1)
    BY <2>1, Taken
  <2>3. 1 \in 1 .. Len(todo) /\ \E more \in Nat : Add(Mined(todo[1], more))
    BY <1>1, <2>2, SyncAssumption DEF Mine, MineLate
  <2> QED
    BY <2>2, <2>3, LeftOver
<1>2. CASE MineEarly
  <2>1. Len(todo) > 1 /\ todo' = RemoveAt(todo, 2) /\ Add(Mined(todo[2], 0))
    BY <1>2 DEF MineEarly
  <2>2. todo # <<>>
    BY <2>1 DEF TodoInv
  <2>3. Len(todo) \in Nat /\ Dropped(2)
    BY <2>1, <2>2, Taken
  <2>4. 2 \in 1 .. Len(todo) /\ 0 \in Nat
    BY <2>1, <2>3
  <2> QED
    BY <2>1, <2>3, <2>4, LeftOver
<1> QED
  BY <1>1, <1>2

\* Any other step leaves the chain, its state and the story alone.
LEMMA ChainWaits ==
    ASSUME TodoInv, [Next]_vars, ~(Mine \/ MineLate \/ MineEarly)
    PROVE  chain' = chain /\ state' = state /\ Range(todo') \subseteq Range(todo)
<1>1. CASE Omit
  <2>1. todo # <<>> /\ todo' = Tail(todo) /\ chain' = chain /\ state' = state
    BY <1>1 DEF Omit
  <2>2. Len(todo) \in Nat \ {0} /\ Dropped(1)
    BY <2>1, Taken
  <2>3. 1 \in 1 .. Len(todo)
    BY <2>2
  <2> QED
    BY <2>1, <2>2, <2>3, LeftOver
<1>2. CASE Sight
  BY <1>2 DEF Sight
<1>3. CASE StartSweep \/ FetchPage \/ FetchFails \/ EndSweep
  BY <1>3 DEF StartSweep, FetchPage, FetchFails, EndSweep, chainVars
<1>4. CASE Done \/ UNCHANGED vars
  BY <1>4 DEF Done, vars, chainVars
<1> QED
  BY <1>1, <1>2, <1>3, <1>4 DEF Next

\* The members of the state are those of the chain.
LEMMA MembersKept == ASSUME MembersInv, [Next]_vars PROVE MembersInv'
<1>1. AInv' /\ TodoInv
  BY Keeps DEF MembersInv, AInv
<1>2. CASE Mine \/ MineLate \/ MineEarly
  <2>1. PICK k \in 1 .. Len(todo), more \in Nat : Add(Mined(todo[k], more))
    BY <1>1, <1>2, MineTakes
  <2>2. StoryInv'
    BY <1>1, <1>2, MineTakes, StoryStays DEF MembersInv
  <2> DEFINE m == Mined(todo[k], more)
  <2>3. /\ Comes(Confirmed, m) /\ Confirmed' = Confirmed \cup {m} /\ state' = Apply(state, m)
        /\ \A f \in DOMAIN todo[k] \ {"h", "tx"} : m[f] = todo[k][f]
    BY <2>1, ChainGrows DEF MembersInv
  <2> HIDE DEF m
  <2>4. todo[k] \in Range(todo) /\ {"path", "op", "params"} \subseteq DOMAIN todo[k]
    BY <1>1 DEF MembersInv, TodoInv, StoryInv, Range
  <2>5. m.path = todo[k].path /\ m.op = todo[k].op /\ m.params = todo[k].params
    BY <2>3, <2>4
  <2>6. Ruled(m)
    BY <2>4, <2>5 DEF MembersInv, StoryInv, Ruled
  <2>7. MInv(state', Confirmed')
    BY <2>3, <2>6, MembersApply DEF MembersInv
  <2>8. MInv(state, Confirmed)'
    BY <2>7
  <2> QED
    BY <1>1, <2>2, <2>8 DEF MembersInv
<1>3. CASE ~(Mine \/ MineLate \/ MineEarly)
  <2>1. chain' = chain /\ state' = state /\ Range(todo') \subseteq Range(todo)
    BY <1>1, <1>3, ChainWaits
  <2>2. Confirmed' = Confirmed
    BY <2>1 DEF Confirmed
  <2>3. StoryInv'
    BY <2>1, StoryStays DEF MembersInv
  <2>4. MInv(state, Confirmed)'
    BY <2>1, <2>2 DEF MembersInv
  <2> QED
    BY <1>1, <2>3, <2>4 DEF MembersInv
<1> QED
  BY <1>2, <1>3

\* Nothing is mined in the beginning.
LEMMA MembersBegin == ASSUME Init PROVE MembersInv
<1>1. AInv
  BY Begins
<1>2. PICK story \in Stories : todo = story.pins
  BY DEF Init
<1>3. StoryInv
  BY <1>2, SyncAssumption DEF StoryInv, Ruled
<1>4. Confirmed = {} /\ state = Start
  BY DEF Init, Confirmed, Range
<1>5. MInv(state, Confirmed)
  BY <1>4, MembersStart
<1> QED
  BY <1>1, <1>3, <1>5 DEF MembersInv

\* The invariant is what the property says of those who are no founders.
LEMMA MembersSuffice == ASSUME MembersInv PROVE MembersAreEarned
<1>1. MInv(state, Confirmed)
  BY DEF MembersInv
<1>2. \A path, op : Pins(path, op) = On(Confirmed, path, op)
  BY DEF Pins, On
<1>3. \A ed, id, last : Backers(ed, id, last) = BackersOf(Confirmed, ed, id, last)
  BY <1>2 DEF Backers, BackersOf
<1> SUFFICES ASSUME NEW id \in DOMAIN state.eds \ state.founders, state.eds[id].reg # NotYet
             PROVE  LET ed == state.eds[id]
                    IN  \E c \in Pins("editor", "challenge"), p \in Pins("editor", "poc-response"),
                           r \in Pins("editor", "register"), last \in Pins("editor", "endorse") :
                 /\ c.who = id /\ p.by = id /\ r.by = id /\ last.who = id
                 /\ p.ref = c.pin /\ r.ref = c.pin
                 /\ ChainOrder(c, p) /\ ChainOrder(p, r) /\ ChainOrder(r, last)
                 /\ p.h - c.h <= BlocksPerHour
                 /\ \E v \in Confirmed : /\ v.path = "review" /\ v.pin = p.aux /\ v.by = id
                                         /\ ChainOrder(v, p)
                 /\ ed.reg = r.h
                 /\ Cardinality(Backers(ed, id, last))
                      >= IF last.h < state.bootEnd THEN 4 ELSE 2
  BY Zenon DEF MembersAreEarned
<1> DEFINE ed == state.eds[id]
<1>4. Earned(Confirmed, ed, id, state.bootEnd)
  BY <1>1 DEF MInv, EditorOf
<1> HIDE DEF ed
<1>5. PICK c, p, r, last \in Confirmed :
        /\ c \in On(Confirmed, "editor", "challenge") /\ last \in On(Confirmed, "editor", "endorse")
        /\ c.who = id /\ Proven(Confirmed, c, p) /\ Staked(Confirmed, c, p, r)
        /\ last.who = id /\ ChainOrder(r, last) /\ ed.reg = r.h
        /\ Cardinality(BackersOf(Confirmed, ed, id, last)) >= IF last.h < state.bootEnd THEN 4 ELSE 2
  BY <1>4 DEF Earned
<1>6. /\ c \in Pins("editor", "challenge") /\ p \in Pins("editor", "poc-response")
      /\ r \in Pins("editor", "register") /\ last \in Pins("editor", "endorse")
  BY <1>2, <1>5 DEF Proven, Staked
<1>7. /\ p.by = id /\ r.by = id /\ p.ref = c.pin /\ r.ref = c.pin
      /\ ChainOrder(c, p) /\ ChainOrder(p, r) /\ p.h - c.h <= BlocksPerHour
      /\ \E v \in Confirmed : v.path = "review" /\ v.pin = p.aux /\ v.by = id /\ ChainOrder(v, p)
  BY <1>5 DEF Proven, Staked
<1>8. Cardinality(Backers(ed, id, last)) >= IF last.h < state.bootEnd THEN 4 ELSE 2
  BY <1>3, <1>5
<1> QED
  BY <1>5, <1>6, <1>7, <1>8, Zenon DEF ed

\* Nobody but a founder becomes an editor without every step, in order and in
\* time, whatever is pinned and in whatever order (applyEditor).
THEOREM MembersEarnMembership == Spec => []MembersAreEarned
<1>1. Init => MembersInv
  BY MembersBegin
<1>2. MembersInv /\ [Next]_vars => MembersInv'
  BY MembersKept
<1>3. MembersInv => MembersAreEarned
  BY MembersSuffice
<1> QED
  BY <1>1, <1>2, <1>3, PTL DEF Spec

-----------------------------------------------------------------------------
(* Rulings are what their votes say *)

\* The votes on a proposal, and the first ones of each voter in time.
VotesOn(C, p) == {v \in On(C, "ruling", "vote") : v.ref = p.pin /\ ChainOrder(p, v)}

FirstOn(C, p, expiry) ==
    {v \in VotesOn(C, p) : /\ v.h < expiry
                           /\ ~\E w \in VotesOn(C, p) : w.by = v.by /\ ChainOrder(w, v)}

Approvals(C, p, rec) == {v \in FirstOn(C, p, rec.expiry) : v.ok /\ v.by \in rec.arbiters}

PropFields ==
    {"challenge", "outcome", "by", "h", "expiry", "arbiters", "approves", "voters", "state",
     "entry", "base", "goal", "from", "to", "who"}

\* While a proposal is open its record counts the voters and the approvals of
\* the chain; it is effective exactly if they are enough, and void only after
\* its time.
PropInv(C, p, rec, quorum, now) ==
    /\ DOMAIN rec = PropFields /\ rec.expiry \in Int /\ rec.state \in {"open", "voided", "effective"}
    /\ rec.state = "open" =>
          /\ rec.voters = {v.by : v \in VotesOn(C, p)}
          /\ \A v \in VotesOn(C, p) : v.h < rec.expiry
          /\ rec.approves \subseteq rec.voters /\ IsFiniteSet(rec.approves)
          /\ Cardinality(rec.approves) = Cardinality(Approvals(C, p, rec))
    /\ rec.state = "voided" => rec.expiry <= now
    /\ rec.state = "effective" <=> Cardinality(Approvals(C, p, rec)) >= quorum

\* One who is banned was so by a ruling.
BanInv(s) ==
    \A id : EditorOf(s, id).banned =>
        \E k \in DOMAIN s.props : /\ s.props[k].state = "effective"
                                  /\ s.props[k].outcome = "ban-editor" /\ s.props[k].who = id

QInv(s, C, now) ==
    /\ IsFiniteSet(C) /\ now \in Nat /\ \A f \in C : f.h \in Nat /\ f.h <= now
    /\ \A e, f \in C : e.pin = f.pin => e = f
    /\ DOMAIN s.props \subseteq {p.pin : p \in C}
    /\ IF s.params = None THEN DOMAIN s.props = {} ELSE Orderly(s.params)
    /\ \A p \in C : p.pin \in DOMAIN s.props =>
          PropInv(C, p, s.props[p.pin], s.params.quorum, now)
    /\ BanInv(s)

\* A pin that no pin of the chain has the number of.
Unique(C, e) == Comes(C, e) /\ \A f \in C : f.pin # e.pin

\* Whatever is not a vote on a proposal changes nothing of the votes on it.
LEMMA VotesStay ==
    ASSUME NEW C, NEW e, Comes(C, e), NEW p \in C,
           ~(e.path = "ruling" /\ e.op = "vote" /\ e.ref = p.pin)
    PROVE  /\ VotesOn(C \cup {e}, p) = VotesOn(C, p)
           /\ \A rec : Approvals(C \cup {e}, p, rec) = Approvals(C, p, rec)
<1>1. VotesOn(C \cup {e}, p) = VotesOn(C, p)
  BY DEF VotesOn, On
<1>2. \A x : FirstOn(C \cup {e}, p, x) = FirstOn(C, p, x)
  BY <1>1 DEF FirstOn
<1> QED
  BY <1>1, <1>2 DEF Approvals

\* A vote is one more, and counts if it is in time and the first of the voter.
LEMMA VoteAdds ==
    ASSUME NEW C, NEW e, Comes(C, e), NEW p \in C, IsFiniteSet(C), NEW rec,
           e.path = "ruling", e.op = "vote", e.ref = p.pin
    PROVE  LET D == C \cup {e}
               counts == /\ e.h < rec.expiry /\ e.by \notin {v.by : v \in VotesOn(C, p)}
                         /\ e.ok /\ e.by \in rec.arbiters
           IN  /\ VotesOn(D, p) = VotesOn(C, p) \cup {e}
               /\ Cardinality(Approvals(C, p, rec)) \in Nat
               /\ Cardinality(Approvals(D, p, rec))
                    = IF counts THEN Cardinality(Approvals(C, p, rec)) + 1
                      ELSE Cardinality(Approvals(C, p, rec))
<1> DEFINE D == C \cup {e}
           counts == /\ e.h < rec.expiry /\ e.by \notin {v.by : v \in VotesOn(C, p)}
                     /\ e.ok /\ e.by \in rec.arbiters
           A == Approvals(C, p, rec)
           B == Approvals(D, p, rec)
<1>1. VotesOn(D, p) = VotesOn(C, p) \cup {e}
  BY DEF VotesOn, On, Comes
<1>2. /\ \A v \in VotesOn(C, p) : v \in C /\ ChainOrder(v, e) /\ ~ChainOrder(e, v)
      /\ ~ChainOrder(e, e) /\ e \notin C
  BY DEF VotesOn, On, Comes, ChainOrder
<1>3. \A x : FirstOn(D, p, x) = FirstOn(C, p, x)
                 \cup {v \in {e} : e.h < x /\ e.by \notin {w.by : w \in VotesOn(C, p)}}
  BY <1>1, <1>2 DEF FirstOn
<1>4. B = A \cup {v \in {e} : counts}
  BY <1>3 DEF Approvals
<1>5. A \subseteq C
  BY DEF Approvals, FirstOn, VotesOn, On
<1> HIDE DEF A, B, counts
<1>6. IsFiniteSet(A) /\ Cardinality(A) \in Nat /\ e \notin A
  BY <1>2, <1>5, FS_Subset, FS_CardinalityType
<1>7. Cardinality(B) = IF counts THEN Cardinality(A) + 1 ELSE Cardinality(A)
  <2>1. CASE counts
    <3>1. B = A \cup {e}
      BY <1>4, <2>1
    <3> QED
      BY <1>6, <2>1, <3>1, FS_AddElement
  <2>2. CASE ~counts
    <3>1. B = A
      BY <1>4, <2>2
    <3> QED
      BY <2>2, <3>1
  <2> QED
    BY <2>1, <2>2
<1> QED
  BY <1>1, <1>6, <1>7 DEF A, B, counts

\* Nobody has voted on what was only just proposed.
LEMMA NoVotesYet ==
    ASSUME NEW C, NEW e, Comes(C, e)
    PROVE  /\ VotesOn(C \cup {e}, e) = {}
           /\ \A rec : Approvals(C \cup {e}, e, rec) = {}
<1>1. \A v \in C \cup {e} : ~ChainOrder(e, v)
  BY DEF Comes, ChainOrder
<1>2. VotesOn(C \cup {e}, e) = {}
  BY <1>1 DEF VotesOn, On
<1> QED
  BY <1>2 DEF Approvals, FirstOn

\* The invariant of a proposal stays while its record and its votes do.
LEMMA PropStays ==
    ASSUME NEW C, NEW D, NEW p, NEW rec, NEW quorum, NEW now \in Nat, NEW later \in Nat, now <= later,
           PropInv(C, p, rec, quorum, now), VotesOn(D, p) = VotesOn(C, p),
           Approvals(D, p, rec) = Approvals(C, p, rec)
    PROVE  PropInv(D, p, rec, quorum, later)
BY DEF PropInv

\* A pin that leaves proposals, bans and the quorum alone.
LEMMA QuorumUntouched ==
    ASSUME NEW s, NEW C, NEW now, QInv(s, C, now), NEW e, Unique(C, e), now <= e.h,
           e.path # "ruling" \/ e.op # "vote",
           NEW t, t.props = s.props, SameBans(s, t),
           IF t.params = None THEN s.params = None ELSE Orderly(t.params),
           s.params # None => t.params # None /\ t.params.quorum = s.params.quorum
    PROVE  QInv(t, C \cup {e}, e.h)
<1> DEFINE D == C \cup {e}
<1>1. e.h \in Nat /\ IsFiniteSet(D) /\ (\A f \in D : f.h \in Nat /\ f.h <= e.h) /\ \A f, g \in D : f.pin = g.pin => f = g
  BY FS_AddElement DEF QInv, Unique, Comes
<1>2. ASSUME NEW p \in D, p.pin \in DOMAIN t.props
      PROVE  PropInv(D, p, t.props[p.pin], t.params.quorum, e.h)
  <2>1. p \in C
    BY <1>2 DEF QInv, Unique
  <2>2. PropInv(C, p, s.props[p.pin], s.params.quorum, now)
    BY <1>2, <2>1 DEF QInv
  <2>3. s.params # None
    BY <1>2 DEF QInv
  <2>4. now \in Nat
    BY DEF QInv
  <2>5. VotesOn(D, p) = VotesOn(C, p) /\ \A rec : Approvals(D, p, rec) = Approvals(C, p, rec)
    BY <2>1, VotesStay DEF Unique
  <2> HIDE DEF D
  <2>6. PropInv(D, p, s.props[p.pin], s.params.quorum, e.h)
    BY <1>1, <2>2, <2>4, <2>5, PropStays
  <2> QED
    BY <2>3, <2>6
<1>3. DOMAIN t.props \subseteq {p.pin : p \in D}
  BY DEF QInv
<1>4. IF t.params = None THEN DOMAIN t.props = {} ELSE Orderly(t.params)
  BY DEF QInv
<1>5. BanInv(t)
  BY DEF QInv, BanInv, SameBans
<1> HIDE DEF D
<1> QED
  BY <1>1, <1>2, <1>3, <1>4, <1>5 DEF QInv, D

\* Proposals whose time is over are void, and those still open have time.
LEMMA QuorumClose ==
    ASSUME NEW s, NEW C, NEW now, MInv(s, C), QInv(s, C, now), NEW h \in Nat, now <= h
    PROVE  LET t == CloseExpired(s, h)
           IN  /\ QInv(t, C, h)
               /\ \A k \in DOMAIN t.props : t.props[k].state = "open" => h < t.props[k].expiry
<1> DEFINE t == CloseExpired(s, h)
<1>1. DOMAIN s = Fields /\ Kept(s) /\ now \in Nat
  BY DEF MInv, Shaped, QInv
<1>2. VoidedIn(s, t, Expired(s, h))
  BY <1>1, CloseDoes DEF Kept, Fields
<1> HIDE DEF t
<1>3. /\ DOMAIN t.props = DOMAIN s.props /\ t.params = s.params /\ t.eds = s.eds
      /\ \A k \in DOMAIN s.props :
            t.props[k] = IF k \in Expired(s, h) THEN [s.props[k] EXCEPT !.state = "voided"]
                         ELSE s.props[k]
  BY <1>1, <1>2 DEF VoidedIn, Fields
<1>4. ASSUME NEW p \in C, p.pin \in DOMAIN s.props
      PROVE  /\ PropInv(C, p, t.props[p.pin], s.params.quorum, h)
             /\ t.props[p.pin].state = "open" => h < t.props[p.pin].expiry
  <2> DEFINE old == s.props[p.pin]
             new == t.props[p.pin]
  <2>1. PropInv(C, p, old, s.params.quorum, now)
    BY <1>4 DEF QInv
  <2>2. s.params.quorum \in Nat
    BY <1>4 DEF QInv, Orderly
  <2>3. new = IF p.pin \in Expired(s, h) THEN [old EXCEPT !.state = "voided"] ELSE old
    BY <1>3, <1>4
  <2>4. p.pin \in Expired(s, h) <=> old.state = "open" /\ h >= old.expiry
    BY <1>4 DEF Expired
  <2>5. old.expiry \in Int /\ "state" \in DOMAIN old /\ DOMAIN old = PropFields
    BY <2>1 DEF PropInv, PropFields
  <2> HIDE DEF old, new
  <2>6. CASE p.pin \in Expired(s, h)
    <3>1. /\ new.state = "voided" /\ new.expiry = old.expiry /\ new.arbiters = old.arbiters
          /\ DOMAIN new = PropFields
      BY <2>3, <2>5, <2>6 DEF PropFields
    <3>2. Approvals(C, p, new) = Approvals(C, p, old)
      BY <3>1 DEF Approvals
    <3>3. ~(Cardinality(Approvals(C, p, old)) >= s.params.quorum)
      BY <2>1, <2>4, <2>6 DEF PropInv
    <3> QED
      BY <2>4, <2>5, <2>6, <3>1, <3>2, <3>3 DEF PropInv, new
  <2>7. CASE p.pin \notin Expired(s, h)
    <3>1. new = old
      BY <2>3, <2>7
    <3>2. PropInv(C, p, new, s.params.quorum, h)
      BY <1>1, <2>1, <3>1, PropStays
    <3>3. new.state = "open" => h < new.expiry
      BY <2>4, <2>5, <2>7, <3>1
    <3> QED
      BY <3>2, <3>3 DEF new
  <2> QED
    BY <2>6, <2>7
<1>5. \A k \in DOMAIN s.props : \E p \in C : p.pin = k
  BY DEF QInv
<1>6. \A k \in DOMAIN t.props : t.props[k].state = "open" => h < t.props[k].expiry
  BY <1>3, <1>4, <1>5
<1>7. BanInv(t)
  <2>1. \A id : EditorOf(t, id) = EditorOf(s, id)
    BY <1>3 DEF EditorOf
  <2>2. \A k \in DOMAIN s.props : s.props[k].state = "effective" => t.props[k] = s.props[k]
    BY <1>3 DEF Expired
  <2> QED
    BY <1>3, <2>1, <2>2 DEF QInv, BanInv
<1>8. \A f \in C : f.h \in Nat /\ f.h <= h
  BY <1>1 DEF QInv
<1> QED
  BY <1>3, <1>4, <1>6, <1>7, <1>8 DEF QInv, t

\* The record of a vote.
Counted_(p, e) == [p EXCEPT !.voters = @ \cup {e.by},
                            !.approves = IF e.ok THEN @ \cup ({e.by} \cap p.arbiters) ELSE @]

\* Enough approvals, the last of them this one.
Decided(s, p, e) ==
    /\ Counted_(p, e).approves # p.approves
    /\ Cardinality(Counted_(p, e).approves) >= s.params.quorum

\* A vote is refused, or counted, and the last one needed decides.
LEMMA VoteDoes ==
    ASSUME NEW s, Shaped(s), NEW e,
           e.ref \in DOMAIN s.props => DOMAIN s.props[e.ref] = PropFields
    PROVE  LET t == Vote(s, e)
               p == s.props[e.ref]
           IN  \/ /\ \E why : t = Grave(s, e, why)
                  /\ \/ e.ref \notin DOMAIN s.props \/ p.state # "open" \/ e.h > p.expiry
                     \/ e.by \in p.voters
               \/ /\ e.ref \in DOMAIN s.props /\ p.state = "open" /\ e.by \notin p.voters
                  /\ t.params = s.params
                  /\ t.props = [s.props EXCEPT ![e.ref] =
                                  IF Decided(s, p, e)
                                  THEN [Counted_(p, e) EXCEPT !.state = "effective"]
                                  ELSE Counted_(p, e)]
                  /\ \A id : EditorOf(t, id).banned =>
                        \/ EditorOf(s, id).banned
                        \/ Decided(s, p, e) /\ p.outcome = "ban-editor" /\ p.who = id
<1> DEFINE t == Vote(s, e)
           p == s.props[e.ref]
           approves == IF e.ok THEN p.approves \cup ({e.by} \cap p.arbiters) ELSE p.approves
           voted == [s EXCEPT !.props[e.ref].voters = @ \cup {e.by},
                              !.props[e.ref].approves = approves]
           enough == approves # p.approves /\ Cardinality(approves) >= s.params.quorum
<1>1. \/ /\ \E why : t = Grave(s, e, why)
         /\ \/ e.ref \notin DOMAIN s.props \/ p.state # "open" \/ e.h > p.expiry
            \/ e.by \in p.voters
      \/ /\ e.ref \in DOMAIN s.props /\ p.state = "open" /\ e.by \notin p.voters
         /\ t = IF enough THEN ApplyOutcome(voted, e.ref) ELSE voted
  BY DEF Vote
<1> SUFFICES ASSUME e.ref \in DOMAIN s.props, p.state = "open", e.by \notin p.voters,
                    t = IF enough THEN ApplyOutcome(voted, e.ref) ELSE voted
             PROVE  /\ t.params = s.params
                    /\ t.props = [s.props EXCEPT ![e.ref] =
                                    IF Decided(s, p, e)
                                    THEN [Counted_(p, e) EXCEPT !.state = "effective"]
                                    ELSE Counted_(p, e)]
                    /\ \A id : EditorOf(t, id).banned =>
                          \/ EditorOf(s, id).banned
                          \/ Decided(s, p, e) /\ p.outcome = "ban-editor" /\ p.who = id
  BY <1>1
<1>2. DOMAIN p = PropFields /\ DOMAIN s = Fields
  BY DEF Shaped
<1>3. /\ voted.props = [s.props EXCEPT ![e.ref] = Counted_(p, e)]
      /\ DOMAIN voted = Fields /\ voted.params = s.params /\ voted.eds = s.eds
  BY <1>2 DEF Fields, PropFields, Counted_
<1>4. enough <=> Decided(s, p, e)
  <2>1. Counted_(p, e).approves = approves
    BY <1>2 DEF Counted_, PropFields
  <2> QED
    BY <2>1 DEF Decided
<1> HIDE DEF voted, t, enough, approves
<1>5. Shaped(voted) /\ \A id : EditorOf(voted, id) = EditorOf(s, id)
  <2>1. \A id : EditorOf(voted, id) = EditorOf(s, id)
    BY <1>3 DEF EditorOf
  <2> QED
    BY <1>3, <2>1 DEF Shaped
<1>6. CASE ~enough
  BY <1>3, <1>4, <1>5, <1>6
<1>7. CASE enough
  <2> DEFINE u == ApplyOutcome(voted, e.ref)
             q == voted.props[e.ref]
  <2>1. /\ Touches(voted, u, {"props", "recs", "entries", "alias", "eds"})
        /\ BansBy(voted, u, q)
        /\ u.props = [voted.props EXCEPT ![e.ref].state = "effective"]
    BY <1>5, OutcomeDoes
  <2>2. q = Counted_(p, e) /\ q.outcome = p.outcome /\ q.who = p.who
    <3>1. q = Counted_(p, e)
      BY <1>3
    <3> QED
      BY <1>2, <3>1 DEF Counted_, PropFields
  <2> HIDE DEF u
  <2>3. t = u
    BY <1>7 DEF u
  <2>4. u.params = s.params
    BY <1>3, <2>1 DEF Touches, Fields
  <2>5. u.props = [s.props EXCEPT ![e.ref] = [Counted_(p, e) EXCEPT !.state = "effective"]]
    <3> DEFINE c == Counted_(p, e)
    <3>1. u.props = [voted.props EXCEPT ![e.ref] = [c EXCEPT !.state = "effective"]]
      BY <2>1, <2>2
    <3> HIDE DEF c
    <3>2. u.props = [s.props EXCEPT ![e.ref] = [c EXCEPT !.state = "effective"]]
      BY <1>3, <3>1 DEF c
    <3> QED
      BY <3>2 DEF c
  <2> QED
    BY <1>4, <1>5, <1>7, <2>1, <2>2, <2>3, <2>4, <2>5 DEF BansBy
<1> QED
  BY <1>6, <1>7

\* Enough of a vote: it adds an approval, or none, to those of the chain.
LEMMA VoteCounts ==
    ASSUME NEW C, NEW e, Comes(C, e), IsFiniteSet(C), NEW p \in C, NEW rec, NEW quorum \in Nat \ {0},
           NEW now \in Nat, now <= e.h, PropInv(C, p, rec, quorum, now),
           e.path = "ruling", e.op = "vote", e.ref = p.pin
    PROVE  /\ rec.state # "open" \/ (e.by \in rec.voters /\ e.h < rec.expiry) =>
                 PropInv(C \cup {e}, p, rec, quorum, e.h)
           /\ rec.state = "open" /\ e.by \notin rec.voters /\ e.h < rec.expiry =>
                 LET new == Counted_(rec, e)
                     decided == new.approves # rec.approves /\ Cardinality(new.approves) >= quorum
                 IN  PropInv(C \cup {e}, p, IF decided THEN [new EXCEPT !.state = "effective"] ELSE new,
                             quorum, e.h)
<1> DEFINE D == C \cup {e}
           A(r) == Cardinality(Approvals(C, p, r))
           B(r) == Cardinality(Approvals(D, p, r))
           counts(r) == /\ e.h < r.expiry /\ e.by \notin {v.by : v \in VotesOn(C, p)}
                        /\ e.ok /\ e.by \in r.arbiters
<1>1. /\ VotesOn(D, p) = VotesOn(C, p) \cup {e}
      /\ \A r : A(r) \in Nat /\ B(r) = IF counts(r) THEN A(r) + 1 ELSE A(r)
  BY VoteAdds
<1>2. e.h \in Nat
  BY DEF Comes
<1> HIDE DEF D
<1>3. /\ DOMAIN rec = PropFields /\ rec.expiry \in Int /\ rec.state \in {"open", "voided", "effective"}
      /\ rec.state = "open" =>
            /\ rec.voters = {v.by : v \in VotesOn(C, p)}
            /\ \A v \in VotesOn(C, p) : v.h < rec.expiry
            /\ rec.approves \subseteq rec.voters /\ IsFiniteSet(rec.approves)
            /\ Cardinality(rec.approves) = A(rec)
      /\ rec.state = "voided" => rec.expiry <= now
      /\ rec.state = "effective" <=> A(rec) >= quorum
  BY DEF PropInv
<1>4. ASSUME rec.state # "open" PROVE PropInv(D, p, rec, quorum, e.h)
  <2>1. CASE rec.state = "voided"
    <3>1. ~(e.h < rec.expiry) /\ rec.expiry <= e.h
      BY <1>2, <1>3, <2>1
    <3>2. B(rec) = A(rec)
      BY <1>1, <3>1
    <3> QED
      BY <1>3, <2>1, <3>1, <3>2 DEF PropInv
  <2>2. CASE rec.state = "effective"
    <3>1. A(rec) \in Nat /\ B(rec) \in {A(rec), A(rec) + 1}
      BY <1>1
    <3> HIDE DEF A, B
    <3>2. B(rec) >= quorum
      BY <1>3, <2>2, <3>1
    <3> QED
      BY <1>3, <2>2, <3>2 DEF PropInv, B
  <2> QED
    BY <1>3, <1>4, <2>1, <2>2
<1>5. ASSUME rec.state = "open", e.by \in rec.voters, e.h < rec.expiry
      PROVE  PropInv(D, p, rec, quorum, e.h)
  <2>1. PICK w \in VotesOn(C, p) : w.by = e.by
    BY <1>3, <1>5
  <2>2. B(rec) = A(rec)
    BY <1>1, <2>1
  <2>3. rec.voters = {v.by : v \in VotesOn(D, p)}
    BY <1>1, <1>3, <1>5
  <2>4. \A v \in VotesOn(D, p) : v.h < rec.expiry
    BY <1>1, <1>3, <1>5
  <2> QED
    BY <1>3, <1>5, <2>2, <2>3, <2>4 DEF PropInv
<1>6. ASSUME rec.state = "open", e.by \notin rec.voters, e.h < rec.expiry
      PROVE  LET new == Counted_(rec, e)
                 decided == new.approves # rec.approves /\ Cardinality(new.approves) >= quorum
             IN  PropInv(D, p, IF decided THEN [new EXCEPT !.state = "effective"] ELSE new, quorum, e.h)
  <2> DEFINE new == Counted_(rec, e)
             decided == new.approves # rec.approves /\ Cardinality(new.approves) >= quorum
             final == IF decided THEN [new EXCEPT !.state = "effective"] ELSE new
             approves == e.ok /\ e.by \in rec.arbiters
  <2>1. /\ DOMAIN new = PropFields /\ new.state = "open" /\ new.expiry = rec.expiry
        /\ new.arbiters = rec.arbiters /\ new.voters = rec.voters \cup {e.by}
        /\ new.approves = IF approves THEN rec.approves \cup {e.by} ELSE rec.approves
    BY <1>3, <1>6 DEF Counted_, PropFields
  <2> HIDE DEF new
  <2>2. /\ DOMAIN final = PropFields /\ final.state = (IF decided THEN "effective" ELSE "open")
        /\ final.expiry = rec.expiry /\ final.arbiters = rec.arbiters
        /\ final.voters = new.voters /\ final.approves = new.approves
    BY <2>1 DEF PropFields
  <2> HIDE DEF final
  <2>3. Approvals(D, p, final) = Approvals(D, p, rec)
    BY <2>2 DEF Approvals
  <2>4. B(rec) = (IF approves THEN A(rec) + 1 ELSE A(rec)) /\ A(rec) \in Nat
    BY <1>1, <1>3, <1>6
  <2>5. /\ IsFiniteSet(new.approves) /\ new.approves \subseteq new.voters
        /\ Cardinality(new.approves) = IF approves THEN A(rec) + 1 ELSE A(rec)
        /\ approves => new.approves # rec.approves
        /\ ~approves => new.approves = rec.approves
    <3>1. e.by \notin rec.approves
      BY <1>3, <1>6
    <3>2. IsFiniteSet(rec.approves) /\ Cardinality(rec.approves) = A(rec)
      BY <1>3, <1>6
    <3> DEFINE more == rec.approves \cup {e.by}
    <3>3. IsFiniteSet(more) /\ Cardinality(more) = A(rec) + 1 /\ more # rec.approves
      <4> DEFINE S == rec.approves
      <4>1. IsFiniteSet(S) /\ e.by \notin S
        BY <3>1, <3>2
      <4> HIDE DEF S, A
      <4>2. IsFiniteSet(S \cup {e.by}) /\ Cardinality(S \cup {e.by}) = Cardinality(S) + 1
        BY <4>1, FS_AddElement
      <4>3. S \cup {e.by} # S
        BY <4>1
      <4> QED
        BY <3>2, <4>2, <4>3 DEF S
    <3>4. rec.approves \subseteq new.voters /\ more \subseteq new.voters
      <4>1. rec.approves \subseteq rec.voters
        BY <1>3, <1>6
      <4>2. new.voters = rec.voters \cup {e.by}
        BY <2>1
      <4> QED
        BY <4>1, <4>2, Zenon
    <3>5. new.approves = IF approves THEN more ELSE rec.approves
      BY <2>1
    <3> HIDE DEF approves, A, more
    <3> QED
      BY <3>2, <3>3, <3>4, <3>5
  <2>6. final.voters = {v.by : v \in VotesOn(D, p)}
    BY <1>1, <1>3, <1>6, <2>1, <2>2
  <2>7. \A v \in VotesOn(D, p) : v.h < final.expiry
    BY <1>1, <1>3, <1>6, <2>2
  <2>8. ~(A(rec) >= quorum)
    BY <1>3, <1>6
  <2>9. Cardinality(Approvals(D, p, final)) = B(rec)
    BY <2>3
  <2> HIDE DEF A, B, approves
  <2>10. Cardinality(new.approves) = B(rec)
    BY <2>4, <2>5
  <2>11. decided <=> B(rec) >= quorum
    BY <2>4, <2>5, <2>8, <2>10
  <2> HIDE DEF decided
  <2>12. PropInv(D, p, final, quorum, e.h)
    BY <1>3, <2>2, <2>5, <2>6, <2>7, <2>9, <2>10, <2>11 DEF PropInv
  <2> QED
    BY <2>12 DEF final, decided, new
<1> QED
  BY <1>4, <1>5, <1>6 DEF D

\* What is open has time left.
InTime(s, h) == \A k \in DOMAIN s.props : s.props[k].state = "open" => h < s.props[k].expiry

\* A pin that goes to the graveyard leaves what the invariant is about alone.
LEMMA GraveBans ==
    ASSUME NEW s, Shaped(s), NEW e, NEW why
    PROVE  LET t == Grave(s, e, why)
           IN  t.props = s.props /\ t.params = s.params /\ SameBans(s, t)
<1> DEFINE t == Grave(s, e, why)
<1>1. Touches(s, t, {"grave"})
  BY GraveDoes DEF Shaped, Fields
<1> HIDE DEF t
<1>2. t.props = s.props /\ t.params = s.params /\ t.eds = s.eds
  BY <1>1 DEF Touches, Shaped, Fields
<1> QED
  BY <1>2 DEF SameBans, EditorOf, t

\* Every proposal has the fields it should.
LEMMA PropsShaped ==
    ASSUME NEW s, NEW C, NEW now, QInv(s, C, now), NEW k \in DOMAIN s.props
    PROVE  /\ DOMAIN s.props[k] = PropFields /\ Orderly(s.params) /\ s.params # None
           /\ \E p \in C : p.pin = k /\ PropInv(C, p, s.props[k], s.params.quorum, now)
BY DEF QInv, PropInv

\* A vote.
LEMMA QuorumVote ==
    ASSUME NEW s, NEW C, NEW now, Shaped(s), QInv(s, C, now), NEW e, Unique(C, e), now <= e.h,
           InTime(s, e.h), e.path = "ruling", e.op = "vote"
    PROVE  QInv(Vote(s, e), C \cup {e}, e.h)
<1> DEFINE D == C \cup {e}
           t == Vote(s, e)
           p == s.props[e.ref]
           final == IF Decided(s, p, e) THEN [Counted_(p, e) EXCEPT !.state = "effective"]
                    ELSE Counted_(p, e)
<1>1. /\ e.h \in Nat /\ IsFiniteSet(D) /\ (\A f \in D : f.h \in Nat /\ f.h <= e.h)
      /\ \A f, g \in D : f.pin = g.pin => f = g
  BY FS_AddElement DEF QInv, Unique, Comes
<1>2. Comes(C, e) /\ now \in Nat /\ IsFiniteSet(C)
  BY DEF Unique, QInv
<1>3. \/ /\ \E why : t = Grave(s, e, why)
         /\ \/ e.ref \notin DOMAIN s.props \/ p.state # "open" \/ e.h > p.expiry
            \/ e.by \in p.voters
      \/ /\ e.ref \in DOMAIN s.props /\ p.state = "open" /\ e.by \notin p.voters
         /\ t.params = s.params
         /\ t.props = [s.props EXCEPT ![e.ref] = final]
         /\ \A id : EditorOf(t, id).banned =>
               \/ EditorOf(s, id).banned
               \/ Decided(s, p, e) /\ p.outcome = "ban-editor" /\ p.who = id
  BY PropsShaped, VoteDoes
<1>4. ASSUME NEW q \in C, q.pin \in DOMAIN s.props, q.pin # e.ref
      PROVE  PropInv(D, q, s.props[q.pin], s.params.quorum, e.h)
  <2>1. PropInv(C, q, s.props[q.pin], s.params.quorum, now)
    BY <1>4 DEF QInv
  <2>2. VotesOn(D, q) = VotesOn(C, q) /\ \A rec : Approvals(D, q, rec) = Approvals(C, q, rec)
    BY <1>2, <1>4, VotesStay
  <2> HIDE DEF D
  <2> DEFINE was == s.props[q.pin]
             quorum == s.params.quorum
  <2>3. PropInv(C, q, was, quorum, now) /\ Approvals(D, q, was) = Approvals(C, q, was)
    BY <2>1, <2>2
  <2>4. now \in Nat /\ e.h \in Nat /\ now <= e.h
    BY <1>1, <1>2
  <2> HIDE DEF was, quorum
  <2>5. PropInv(D, q, was, quorum, e.h)
    BY <2>2, <2>3, <2>4, PropStays
  <2> QED
    BY <2>5 DEF was, quorum
<1>5. ASSUME NEW q \in C, q.pin \in DOMAIN s.props, q.pin = e.ref
      PROVE  /\ p.state # "open" \/ e.by \in p.voters => PropInv(D, q, p, s.params.quorum, e.h)
             /\ p.state = "open" /\ e.by \notin p.voters => PropInv(D, q, final, s.params.quorum, e.h)
  <2>1. PropInv(C, q, p, s.params.quorum, now)
    BY <1>5 DEF QInv
  <2>2. s.params.quorum \in Nat \ {0}
    BY <1>5, PropsShaped DEF Orderly
  <2>3. p.state = "open" => e.h < p.expiry
    BY <1>5 DEF InTime
  <2> DEFINE quorum == s.params.quorum
             new == Counted_(p, e)
             decided == new.approves # p.approves /\ Cardinality(new.approves) >= quorum
             rec == IF decided THEN [new EXCEPT !.state = "effective"] ELSE new
  <2>4. rec = final
    BY DEF Decided
  <2> HIDE DEF p
  <2>5. /\ p.state # "open" \/ (e.by \in p.voters /\ e.h < p.expiry) => PropInv(D, q, p, quorum, e.h)
        /\ p.state = "open" /\ e.by \notin p.voters /\ e.h < p.expiry =>
              PropInv(D, q, rec, quorum, e.h)
    BY <1>2, <1>5, <2>1, <2>2, VoteCounts
  <2> HIDE DEF D, rec, final
  <2> QED
    BY <2>3, <2>4, <2>5
<1>6. DOMAIN s.props \subseteq {q.pin : q \in D} /\ \A q \in D : q.pin \in DOMAIN s.props => q \in C
  BY DEF QInv, Unique
<1>7. IF s.params = None THEN DOMAIN s.props = {} ELSE Orderly(s.params)
  BY DEF QInv
<1> HIDE DEF D, final
<1>8. CASE /\ \E why : t = Grave(s, e, why)
           /\ \/ e.ref \notin DOMAIN s.props \/ p.state # "open" \/ e.h > p.expiry
              \/ e.by \in p.voters
  <2>1. t.props = s.props /\ t.params = s.params /\ SameBans(s, t)
    BY <1>8, GraveBans
  <2>2. e.ref \in DOMAIN s.props => p.state # "open" \/ e.by \in p.voters
    <3>1. ASSUME e.ref \in DOMAIN s.props, e.h > p.expiry PROVE p.state # "open"
      <4>1. p.expiry \in Int
        BY <3>1, PropsShaped DEF PropInv
      <4>2. p.state = "open" => e.h < p.expiry
        BY <3>1 DEF InTime
      <4> HIDE DEF p
      <4> QED
        BY <1>1, <3>1, <4>1, <4>2
    <3> QED
      BY <1>8, <3>1
  <2> HIDE DEF t
  <2>3. ASSUME NEW q \in D, q.pin \in DOMAIN t.props
        PROVE  PropInv(D, q, t.props[q.pin], t.params.quorum, e.h)
    <3>1. q \in C /\ q.pin \in DOMAIN s.props
      BY <1>6, <2>1, <2>3
    <3>2. CASE q.pin = e.ref
      BY <1>5, <2>1, <2>2, <3>1, <3>2
    <3>3. CASE q.pin # e.ref
      BY <1>4, <2>1, <3>1, <3>3
    <3> QED
      BY <3>2, <3>3
  <2>4. BanInv(t)
    BY <2>1 DEF QInv, BanInv, SameBans
  <2>5. QInv(t, D, e.h)
    BY <1>1, <1>6, <1>7, <2>1, <2>3, <2>4 DEF QInv
  <2> QED
    BY <2>5 DEF t, D
<1>9. CASE /\ e.ref \in DOMAIN s.props /\ p.state = "open" /\ e.by \notin p.voters
           /\ t.params = s.params
           /\ t.props = [s.props EXCEPT ![e.ref] = final]
           /\ \A id : EditorOf(t, id).banned =>
                 \/ EditorOf(s, id).banned
                 \/ Decided(s, p, e) /\ p.outcome = "ban-editor" /\ p.who = id
  <2> HIDE DEF t
  <2>1. /\ DOMAIN t.props = DOMAIN s.props
        /\ \A k \in DOMAIN s.props : t.props[k] = IF k = e.ref THEN final ELSE s.props[k]
    BY <1>9
  <2>2. ASSUME NEW q \in D, q.pin \in DOMAIN t.props
        PROVE  PropInv(D, q, t.props[q.pin], t.params.quorum, e.h)
    <3>1. q \in C /\ q.pin \in DOMAIN s.props
      BY <1>6, <2>1, <2>2
    <3>2. CASE q.pin = e.ref
      BY <1>5, <1>9, <2>1, <3>1, <3>2
    <3>3. CASE q.pin # e.ref
      BY <1>4, <1>9, <2>1, <3>1, <3>3
    <3> QED
      BY <3>2, <3>3
  <2>3. BanInv(t)
    <3>1. ASSUME NEW id, EditorOf(s, id).banned
          PROVE  \E k \in DOMAIN t.props : /\ t.props[k].state = "effective"
                                           /\ t.props[k].outcome = "ban-editor" /\ t.props[k].who = id
      <4>1. PICK k \in DOMAIN s.props : /\ s.props[k].state = "effective"
                                        /\ s.props[k].outcome = "ban-editor" /\ s.props[k].who = id
        BY <3>1 DEF QInv, BanInv
      <4>2. k # e.ref
        BY <1>9, <4>1
      <4> QED
        BY <2>1, <4>1, <4>2
    <3>2. ASSUME NEW id, Decided(s, p, e), p.outcome = "ban-editor", p.who = id
          PROVE  \E k \in DOMAIN t.props : /\ t.props[k].state = "effective"
                                           /\ t.props[k].outcome = "ban-editor" /\ t.props[k].who = id
      <4>1. DOMAIN p = PropFields
        BY <1>9, PropsShaped
      <4> HIDE DEF p
      <4>2. final.state = "effective" /\ final.outcome = p.outcome /\ final.who = p.who
        BY <3>2, <4>1 DEF final, Counted_, PropFields
      <4> QED
        BY <1>9, <2>1, <3>2, <4>2
    <3> HIDE DEF p
    <3> QED
      BY <1>9, <3>1, <3>2 DEF BanInv
  <2>4. QInv(t, D, e.h)
    BY <1>1, <1>6, <1>7, <1>9, <2>1, <2>2, <2>3 DEF QInv
  <2> QED
    BY <2>4 DEF t, D
<1> QED
  BY <1>3, <1>8, <1>9 DEF D

\* A proposal.
LEMMA QuorumPropose ==
    ASSUME NEW s, NEW C, NEW now, Shaped(s), QInv(s, C, now), NEW e, Unique(C, e), now <= e.h,
           s.params # None, e.path = "ruling", e.op = "proposal"
    PROVE  QInv(Propose(s, e), C \cup {e}, e.h)
<1> DEFINE D == C \cup {e}
           t == Propose(s, e)
           c == s.challenges[e.ref]
           rec == [challenge |-> e.ref, outcome |-> e.outcome, by |-> e.by, h |-> e.h,
                   expiry |-> e.h + s.params.voteHours * BlocksPerHour,
                   arbiters |-> Drawn(s, e.ref, e.h), approves |-> {}, voters |-> {},
                   state |-> "open", entry |-> c.entry, base |-> e.base,
                   goal |-> e.goal, from |-> e.entry, to |-> e.to, who |-> e.who]
<1>1. /\ e.h \in Nat /\ IsFiniteSet(D) /\ (\A f \in D : f.h \in Nat /\ f.h <= e.h)
      /\ \A f, g \in D : f.pin = g.pin => f = g
  BY FS_AddElement DEF QInv, Unique, Comes
<1>2. Comes(C, e) /\ now \in Nat /\ Orderly(s.params)
  BY DEF Unique, QInv
<1>3. (\E why : t = Grave(s, e, why)) \/ t = [s EXCEPT !.props = With(@, e.pin, rec)]
  BY DEF Propose
<1>4. ASSUME NEW q \in C, q.pin \in DOMAIN s.props
      PROVE  PropInv(D, q, s.props[q.pin], s.params.quorum, e.h)
  <2>1. PropInv(C, q, s.props[q.pin], s.params.quorum, now)
    BY <1>4 DEF QInv
  <2>2. VotesOn(D, q) = VotesOn(C, q) /\ \A r : Approvals(D, q, r) = Approvals(C, q, r)
    BY <1>2, <1>4, VotesStay
  <2> HIDE DEF D
  <2> DEFINE was == s.props[q.pin]
             quorum == s.params.quorum
  <2>3. PropInv(C, q, was, quorum, now) /\ Approvals(D, q, was) = Approvals(C, q, was)
    BY <2>1, <2>2
  <2>4. now \in Nat /\ e.h \in Nat /\ now <= e.h
    BY <1>1, <1>2
  <2> HIDE DEF was, quorum
  <2>5. PropInv(D, q, was, quorum, e.h)
    BY <2>2, <2>3, <2>4, PropStays
  <2> QED
    BY <2>5 DEF was, quorum
<1>5. PropInv(D, e, rec, s.params.quorum, e.h)
  <2>1. /\ DOMAIN rec = PropFields /\ rec.state = "open" /\ rec.voters = {} /\ rec.approves = {}
        /\ rec.expiry \in Int
    <3>1. e.h + s.params.voteHours * BlocksPerHour \in Int
      BY <1>1, <1>2, AgentpediaAssumption DEF Orderly
    <3> QED
      BY <3>1 DEF PropFields
  <2>2. VotesOn(D, e) = {} /\ Approvals(D, e, rec) = {}
    BY <1>2, NoVotesYet
  <2>3. IsFiniteSet({}) /\ Cardinality({}) = 0
    BY FS_EmptySet
  <2>4. s.params.quorum \in Nat \ {0}
    BY <1>2 DEF Orderly
  <2> HIDE DEF rec, D
  <2> QED
    BY <2>1, <2>2, <2>3, <2>4 DEF PropInv
<1> HIDE DEF t, rec
<1>6. CASE \E why : t = Grave(s, e, why)
  <2>1. t.props = s.props /\ t.params = s.params /\ SameBans(s, t)
    BY <1>6, GraveBans
  <2> QED
    BY <1>2, <2>1, QuorumUntouched DEF t
<1>7. CASE t = [s EXCEPT !.props = With(@, e.pin, rec)]
  <2>1. /\ t.params = s.params /\ t.eds = s.eds /\ DOMAIN t.props = DOMAIN s.props \cup {e.pin}
        /\ \A k \in DOMAIN s.props \cup {e.pin} :
              t.props[k] = IF k = e.pin THEN rec ELSE s.props[k]
    BY <1>7 DEF Shaped, Fields, With
  <2>2. e.pin \notin DOMAIN s.props /\ \A q \in C : q.pin # e.pin
    BY DEF QInv, Unique
  <2>3. ASSUME NEW q \in D, q.pin \in DOMAIN t.props
        PROVE  PropInv(D, q, t.props[q.pin], t.params.quorum, e.h)
    <3>1. CASE q = e
      BY <1>5, <2>1, <3>1
    <3>2. CASE q \in C
      BY <1>4, <2>1, <2>2, <2>3, <3>2
    <3> QED
      BY <3>1, <3>2
  <2>4. BanInv(t)
    <3>1. \A id : EditorOf(t, id) = EditorOf(s, id)
      BY <2>1 DEF EditorOf
    <3> QED
      BY <2>1, <2>2, <3>1 DEF QInv, BanInv
  <2>5. DOMAIN t.props \subseteq {q.pin : q \in D}
    BY <2>1 DEF QInv
  <2> HIDE DEF D
  <2> QED
    BY <1>1, <1>2, <2>1, <2>3, <2>4, <2>5 DEF QInv, t, D
<1> QED
  BY <1>3, <1>6, <1>7

\* What the invariant of proposals is about is left alone.
Aloof(s, t) == t.props = s.props /\ t.params = s.params /\ SameBans(s, t)

\* A pin of an editor bans nobody, and lifts no ban.
LEMMA EditorBans ==
    ASSUME NEW state_, Shaped(state_), NEW e
    PROVE  Aloof(state_, ApplyEditor(state_, e))
<1> DEFINE ed == EditorOf(state_, e.who)
           s == WithEditor(state_, e.who, ed)
           t == ApplyEditor(state_, e)
<1>1. ASSUME NEW a, Shaped(a), NEW id, NEW new, DOMAIN new = EditorFields,
             new.banned = EditorOf(a, id).banned
      PROVE  Shaped(WithEditor(a, id, new)) /\ Aloof(a, WithEditor(a, id, new))
  <2> DEFINE b == WithEditor(a, id, new)
  <2>1. Touches(a, b, {"eds"}) /\ \A i : EditorOf(b, i) = IF i = id THEN new ELSE EditorOf(a, i)
    <3>1. "eds" \in DOMAIN a
      BY <1>1 DEF Shaped, Fields
    <3> QED
      BY <3>1, WithEditorDoes
  <2> HIDE DEF b
  <2>2. b.props = a.props /\ b.params = a.params /\ DOMAIN b = Fields
    BY <1>1, <2>1 DEF Touches, Shaped, Fields
  <2> QED
    BY <1>1, <2>1, <2>2 DEF Shaped, Aloof, SameBans, b
<1>2. Shaped(s) /\ Aloof(state_, s)
  BY <1>1 DEF Shaped
<1>3. t = CASE e.op = "challenge" -> EditorChallenge(s, e)
            [] e.op = "poc-response" -> PocResponse(s, e)
            [] e.op = "register" -> Register(s, e)
            [] e.op = "endorse" -> Endorse(s, e)
            [] e.op \in {"suspend", "revoke"} -> CarryOut(s, e)
            [] OTHER -> Grave(s, e, "editor-action-unknown")
  BY Zenon DEF ApplyEditor
<1> HIDE DEF s
<1>4. \A why : Aloof(s, Grave(s, e, why))
  BY <1>2, GraveBans DEF Aloof
<1>5. ASSUME NEW a, Touches(s, a, {"regs"}) PROVE Shaped(a) /\ Aloof(s, a)
  <2>1. a.props = s.props /\ a.params = s.params /\ a.eds = s.eds /\ DOMAIN a = Fields
    BY <1>2, <1>5 DEF Touches, Shaped, Fields
  <2> QED
    BY <1>2, <2>1 DEF Shaped, Aloof, SameBans, EditorOf
<1>6. Aloof(s, EditorChallenge(s, e))
  <2>1. \/ \E why : EditorChallenge(s, e) = Grave(s, e, why)
        \/ \E rc : EditorChallenge(s, e) = [s EXCEPT !.regs = With(@, e.pin, rc)]
    BY DEF EditorChallenge
  <2>2. \A rc : Touches(s, [s EXCEPT !.regs = With(@, e.pin, rc)], {"regs"})
    BY DEF Touches
  <2> QED
    BY <1>4, <1>5, <2>1, <2>2
<1>7. Aloof(s, PocResponse(s, e))
  <2>1. \/ \E why : PocResponse(s, e) = Grave(s, e, why)
        \/ PocResponse(s, e) = [s EXCEPT !.regs[e.ref].poc = TRUE]
    BY DEF PocResponse
  <2>2. Touches(s, [s EXCEPT !.regs[e.ref].poc = TRUE], {"regs"})
    BY DEF Touches
  <2> QED
    BY <1>4, <1>5, <2>1, <2>2
<1>8. Aloof(s, Register(s, e))
  <2> DEFINE a == [s EXCEPT !.regs[e.ref].stake = TRUE, !.regs[e.ref].regH = e.h,
                            !.regs[e.ref].regTx = e.tx, !.regs[e.ref].regPin = e.pin]
             new == [EditorOf(s, e.by) EXCEPT !.pending = e.h]
  <2>1. \/ \E why : Register(s, e) = Grave(s, e, why)
        \/ Register(s, e) = WithEditor(a, e.by, new)
    BY DEF Register
  <2>2. Touches(s, a, {"regs"})
    BY DEF Touches
  <2> HIDE DEF a
  <2>3. Shaped(a) /\ Aloof(s, a)
    BY <1>5, <2>2
  <2>4. DOMAIN new = EditorFields /\ new.banned = EditorOf(a, e.by).banned
    <3>1. DOMAIN EditorOf(s, e.by) = EditorFields /\ EditorOf(a, e.by).banned = EditorOf(s, e.by).banned
      BY <1>2, <2>3 DEF Shaped, Aloof, SameBans
    <3> QED
      BY <3>1 DEF EditorFields
  <2> HIDE DEF new
  <2>5. Aloof(a, WithEditor(a, e.by, new))
    BY <1>1, <2>3, <2>4
  <2>6. Aloof(s, WithEditor(a, e.by, new))
    BY <2>3, <2>5 DEF Aloof, SameBans
  <2> QED
    BY <1>4, <2>1, <2>6
<1>9. Aloof(s, Endorse(s, e))
  <2> DEFINE old == EditorOf(s, e.who)
  <2>1. \/ \E why : Endorse(s, e) = Grave(s, e, why)
        \/ \E backers, reg : Endorse(s, e) = WithEditor(s, e.who, [old EXCEPT !.endorsed = backers, !.reg = reg])
    BY DEF Endorse
  <2>2. ASSUME NEW backers, NEW reg
        PROVE  Aloof(s, WithEditor(s, e.who, [old EXCEPT !.endorsed = backers, !.reg = reg]))
    <3> DEFINE new == [old EXCEPT !.endorsed = backers, !.reg = reg]
    <3>1. DOMAIN old = EditorFields
      BY <1>2 DEF Shaped
    <3>2. DOMAIN new = EditorFields /\ new.banned = old.banned
      BY <3>1 DEF EditorFields
    <3> HIDE DEF new
    <3>3. Aloof(s, WithEditor(s, e.who, new))
      BY <1>1, <1>2, <3>2
    <3> QED
      BY <3>3 DEF new
  <2> QED
    BY <1>4, <2>1, <2>2
<1>10. Aloof(s, CarryOut(s, e))
  <2> DEFINE old == EditorOf(s, e.who)
             days == s.params.suspendDays
             revoked == [old EXCEPT !.revoked = TRUE]
             suspended == [old EXCEPT !.until = e.h + days * BlocksPerDay]
  <2>1. \/ \E why : CarryOut(s, e) = Grave(s, e, why)
        \/ CarryOut(s, e) = WithEditor(s, e.who, revoked)
        \/ CarryOut(s, e) = WithEditor(s, e.who, suspended)
    BY DEF CarryOut
  <2>2. DOMAIN old = EditorFields
    BY <1>2 DEF Shaped
  <2>3. /\ DOMAIN revoked = EditorFields /\ revoked.banned = old.banned
        /\ DOMAIN suspended = EditorFields /\ suspended.banned = old.banned
    BY <2>2 DEF EditorFields
  <2> HIDE DEF revoked, suspended
  <2>4. Aloof(s, WithEditor(s, e.who, revoked)) /\ Aloof(s, WithEditor(s, e.who, suspended))
    BY <1>1, <1>2, <2>3
  <2> QED
    BY <1>4, <2>1, <2>4
<1> HIDE DEF t
<1>11. Aloof(s, t)
  BY <1>3, <1>4, <1>6, <1>7, <1>8, <1>9, <1>10
<1> QED
  BY <1>2, <1>11 DEF Aloof, SameBans, t

\* Nor does any other pin but a vote, or a pin of the rules.
LEMMA OthersAloof ==
    ASSUME NEW s, Shaped(s), NEW e
    PROVE  \A t \in {ApplyReview(s, e), ApplyChallenge(s, e), ApplyParamProposal(s, e), ApplyRev(s, e)} :
              Aloof(s, t)
<1>1. DOMAIN s = Fields
  BY DEF Shaped
<1>2. ASSUME NEW t, NEW fields, Touches(s, t, fields), {"eds", "props", "params"} \cap fields = {}
      PROVE  Aloof(s, t)
  <2>1. t.props = s.props /\ t.params = s.params /\ t.eds = s.eds
    BY <1>1, <1>2 DEF Touches, Fields
  <2> QED
    BY <2>1 DEF Aloof, SameBans, EditorOf
<1>3. Aloof(s, ApplyReview(s, e))
  <2>1. Touches(s, ApplyReview(s, e), {"reviews", "grave"})
    BY ReviewDoes
  <2>2. {"eds", "props", "params"} \cap {"reviews", "grave"} = {}
    OBVIOUS
  <2> QED
    BY <1>2, <2>1, <2>2
<1>4. Aloof(s, ApplyChallenge(s, e))
  <2>1. Touches(s, ApplyChallenge(s, e), {"challenges", "recs", "grave"})
    BY ChallengeDoes
  <2>2. {"eds", "props", "params"} \cap {"challenges", "recs", "grave"} = {}
    OBVIOUS
  <2> QED
    BY <1>2, <2>1, <2>2
<1>5. Aloof(s, ApplyParamProposal(s, e))
  <2>1. Touches(s, ApplyParamProposal(s, e), {"votes", "grave"})
    BY ParamProposalDoes
  <2>2. {"eds", "props", "params"} \cap {"votes", "grave"} = {}
    OBVIOUS
  <2> QED
    BY <1>2, <2>1, <2>2
<1>6. Aloof(s, ApplyRev(s, e))
  <2> DEFINE t == ApplyRev(s, e)
  <2>1. Touches(s, t, {"entries", "recs", "day", "slugDay", "eds", "grave"}) /\ SameBans(s, t)
    BY RevDoes
  <2> HIDE DEF t
  <2>2. t.props = s.props /\ t.params = s.params
    BY <1>1, <2>1 DEF Touches, Fields
  <2>3. Aloof(s, t)
    BY <2>1, <2>2 DEF Aloof
  <2> QED
    BY <2>3 DEF t
<1> QED
  BY <1>3, <1>4, <1>5, <1>6

\* The rules begin, or are amended.
LEMMA QuorumRules ==
    ASSUME NEW s, NEW C, NEW now, MInv(s, C), QInv(s, C, now), NEW e, Unique(C, e), now <= e.h,
           e.path = "constitution", Steady(e)
    PROVE  QInv(ApplyConstitution(s, e), C \cup {e}, e.h)
<1> DEFINE founder == [NewEditor EXCEPT !.founder = TRUE, !.reg = e.h]
           g == Genesis(s, e)
           a == [s EXCEPT !.params = Over(e.params, @)]
           t == ApplyConstitution(s, e)
<1>1. Shaped(s) /\ DOMAIN s = Fields /\ Founding(s)
  BY DEF MInv, Shaped
<1>2. \/ \E why : t = Grave(s, e, why)
      \/ t = g /\ e.op = "genesis" /\ s.params = None
      \/ t = a /\ e.op # "genesis" /\ DOMAIN s.votes # {}
  BY DEF ApplyConstitution
<1> HIDE DEF t
<1>3. ASSUME NEW why PROVE QInv(Grave(s, e, why), C \cup {e}, e.h)
  <2> DEFINE u == Grave(s, e, why)
  <2>1. Aloof(s, u)
    BY <1>1, GraveBans DEF Aloof
  <2>2. IF s.params = None THEN TRUE ELSE Orderly(s.params)
    BY DEF QInv
  <2> HIDE DEF u
  <2> QED
    BY <2>1, <2>2, QuorumUntouched DEF Aloof, u
<1>4. \A params : Orderly(params) => params # None
  BY DEF Orderly, None
<1>5. ASSUME e.op = "genesis", s.params = None PROVE QInv(g, C \cup {e}, e.h)
  <2>1. /\ g.params = e.params /\ g.props = s.props
        /\ g.eds = Over([id \in e.founders |-> founder], s.eds)
    BY <1>1 DEF Genesis, Fields
  <2> HIDE DEF g
  <2>2. DOMAIN s.eds = {}
    BY <1>1, <1>5 DEF Founding
  <2>3. DOMAIN g.eds = e.founders /\ \A id \in e.founders : g.eds[id] = founder
    BY <2>1, <2>2 DEF Over
  <2>4. founder.banned = FALSE /\ NewEditor.banned = FALSE
    BY DEF NewEditor
  <2> HIDE DEF founder
  <2>5. \A id : EditorOf(g, id) = IF id \in e.founders THEN founder ELSE NewEditor
    BY <2>3 DEF EditorOf
  <2>6. SameBans(s, g)
    BY <2>2, <2>4, <2>5 DEF SameBans, EditorOf
  <2>7. Orderly(g.params) /\ g.params # None
    BY <1>4, <1>5, <2>1 DEF Steady
  <2> QED
    BY <1>5, <2>1, <2>6, <2>7, QuorumUntouched
<1>6. ASSUME e.op # "genesis", DOMAIN s.votes # {} PROVE QInv(a, C \cup {e}, e.h)
  <2>1. a.params = Over(e.params, s.params) /\ a.props = s.props /\ a.eds = s.eds
    BY <1>1 DEF Fields
  <2> HIDE DEF a
  <2>2. s.params # None /\ Orderly(s.params)
    BY <1>1, <1>6 DEF Founding, QInv
  <2>3. Orderly(a.params) /\ a.params.quorum = s.params.quorum
    BY <1>6, <2>1, <2>2 DEF Over, Orderly, Steady
  <2>4. SameBans(s, a) /\ a.params # None
    BY <1>4, <2>1, <2>3 DEF SameBans, EditorOf
  <2> QED
    BY <2>1, <2>2, <2>3, <2>4, QuorumUntouched
<1> HIDE DEF g, a
<1> QED
  BY <1>2, <1>3, <1>5, <1>6 DEF t

\* Applying a pin keeps the invariant of proposals.
LEMMA QuorumApply ==
    ASSUME NEW s_, NEW C, NEW now, MInv(s_, C), QInv(s_, C, now), NEW e, Unique(C, e), now <= e.h, Steady(e)
    PROVE  QInv(Apply(s_, e), C \cup {e}, e.h)
<1> DEFINE D == C \cup {e}
           s == CloseExpired(s_, e.h)
           t == Apply(s_, e)
           rest == {ApplyReview(s, e), ApplyChallenge(s, e), ApplyParamProposal(s, e), ApplyRev(s, e)}
<1> SUFFICES QInv(t, D, e.h)
  OBVIOUS
<1>1. MInv(s, C)
  BY MembersClose
<1>2. e.h \in Nat /\ e.h <= e.h
  BY DEF Unique, Comes
<1>3. QInv(s, C, e.h) /\ InTime(s, e.h)
  BY <1>2, QuorumClose DEF InTime
<1>4. \/ e.path = "constitution" /\ t = ApplyConstitution(s, e)
      \/ (e.path # "ruling" \/ s.params = None) /\ \E why : t = Grave(s, e, why)
      \/ /\ s.params # None /\ e.path \notin {"constitution", "ruling"}
         /\ t = ApplyEditor(s, e) \/ t \in rest
      \/ s.params # None /\ e.path = "ruling" /\ t = ApplyRuling(s, e)
  <2>1. t = Dispatch(s, e)
    BY DEF Apply
  <2> HIDE DEF s
  <2> DEFINE inner == CASE e.path = "editor" -> ApplyEditor(s, e)
                        [] e.path = "review" -> ApplyReview(s, e)
                        [] e.path = "challenge" -> ApplyChallenge(s, e)
                        [] e.path = "ruling" -> ApplyRuling(s, e)
                        [] e.path = "param-proposal" -> ApplyParamProposal(s, e)
                        [] e.path = "rev" -> ApplyRev(s, e)
                        [] OTHER -> Grave(s, e, "unknown-path")
  <2>2. Dispatch(s, e) = CASE e.path = "constitution" -> ApplyConstitution(s, e)
                           [] e.path # "constitution" /\ s.params = None -> Grave(s, e, "no-genesis")
                           [] OTHER -> inner
    BY Zenon DEF Dispatch
  <2>3. \/ e.path = "ruling" /\ inner = ApplyRuling(s, e)
        \/ e.path # "ruling" /\ inner = ApplyEditor(s, e)
        \/ e.path # "ruling" /\ inner \in rest
        \/ e.path # "ruling" /\ inner = Grave(s, e, "unknown-path")
    OBVIOUS
  <2> HIDE DEF inner, t, rest
  <2> QED
    BY <2>1, <2>2, <2>3
<1> HIDE DEF t, s
<1>5. Shaped(s) /\ (IF s.params = None THEN TRUE ELSE Orderly(s.params))
  BY <1>1, <1>3 DEF MInv, QInv
<1>6. ASSUME NEW u, Aloof(s, u), e.path # "ruling" \/ e.op # "vote" PROVE QInv(u, D, e.h)
  BY <1>2, <1>3, <1>5, <1>6, QuorumUntouched DEF Aloof
<1>7. CASE e.path = "constitution" /\ t = ApplyConstitution(s, e)
  BY <1>1, <1>2, <1>3, <1>7, QuorumRules
<1>8. ASSUME NEW u, Aloof(s, u), e.path = "ruling", e.op = "vote", s.params = None PROVE QInv(u, D, e.h)
  <2>1. DOMAIN s.props = {} /\ IsFiniteSet(C) /\ \A f, g \in C : f.pin = g.pin => f = g
    BY <1>3, <1>8 DEF QInv
  <2>2. /\ IsFiniteSet(D) /\ (\A f \in D : f.h \in Nat /\ f.h <= e.h)
        /\ \A f, g \in D : f.pin = g.pin => f = g
    BY <1>2, <1>3, <2>1, FS_AddElement DEF QInv, Unique
  <2>3. BanInv(u)
    BY <1>3, <1>8 DEF QInv, BanInv, Aloof, SameBans
  <2> HIDE DEF D
  <2> QED
    BY <1>2, <1>8, <2>1, <2>2, <2>3 DEF QInv, Aloof
<1>9. CASE (e.path # "ruling" \/ s.params = None) /\ \E why : t = Grave(s, e, why)
  <2>1. Aloof(s, t)
    BY <1>5, <1>9, GraveBans DEF Aloof
  <2> QED
    BY <1>6, <1>8, <1>9, <2>1
<1>10. CASE /\ s.params # None /\ e.path \notin {"constitution", "ruling"}
            /\ t = ApplyEditor(s, e) \/ t \in rest
  <2>1. Aloof(s, t)
    BY <1>5, <1>10, EditorBans, OthersAloof
  <2> QED
    BY <1>6, <1>10, <2>1
<1>11. CASE s.params # None /\ e.path = "ruling" /\ t = ApplyRuling(s, e)
  <2>1. CASE e.op = "proposal"
    <3>1. t = Propose(s, e)
      BY <1>11, <2>1 DEF ApplyRuling
    <3> QED
      BY <1>2, <1>3, <1>5, <1>11, <2>1, <3>1, QuorumPropose
  <2>2. CASE e.op = "vote"
    <3>1. t = Vote(s, e)
      BY <1>11, <2>2 DEF ApplyRuling
    <3> QED
      BY <1>2, <1>3, <1>5, <1>11, <2>2, <3>1, QuorumVote
  <2>3. CASE e.op \notin {"proposal", "vote"}
    <3>1. \E why : t = Grave(s, e, why)
      BY <1>11, <2>3 DEF ApplyRuling
    <3>2. Aloof(s, t)
      BY <1>5, <3>1, GraveBans DEF Aloof
    <3> QED
      BY <1>6, <2>3, <3>2
  <2> QED
    BY <2>1, <2>2, <2>3
<1> QED
  BY <1>4, <1>7, <1>9, <1>10, <1>11

-----------------------------------------------------------------------------
(* The chain and its rulings *)

\* The height the chain has come to.
Height == IF chain = <<>> THEN 0 ELSE Last(chain).h

SteadyInv == \A t \in Range(todo) : Steady(t)

QuorumInv == MembersInv /\ SteadyInv /\ QInv(state, Confirmed, Height)

\* The proposals of the state are decided by the votes of the chain.
LEMMA QuorumKept == ASSUME QuorumInv, [Next]_vars PROVE QuorumInv'
<1>1. MembersInv' /\ AInv /\ LogInv /\ TodoInv
  BY MembersKept DEF QuorumInv, MembersInv, AInv
<1>2. CASE Mine \/ MineLate \/ MineEarly
  <2>1. PICK k \in 1 .. Len(todo), more \in Nat : Add(Mined(todo[k], more))
    BY <1>1, <1>2, MineTakes
  <2>2. SteadyInv'
    BY <1>1, <1>2, MineTakes DEF QuorumInv, SteadyInv, Steady, Orderly
  <2> DEFINE m == Mined(todo[k], more)
  <2>3. /\ Comes(Confirmed, m) /\ Confirmed' = Confirmed \cup {m} /\ state' = Apply(state, m)
        /\ \A f \in DOMAIN todo[k] \ {"h", "tx"} : m[f] = todo[k][f]
        /\ chain' = Append(chain, m)
    BY <1>1, <2>1, ChainGrows
  <2> HIDE DEF m
  <2>4. todo[k] \in Range(todo) /\ {"pin", "path", "op", "params"} \subseteq DOMAIN todo[k]
    BY <1>1 DEF QuorumInv, MembersInv, TodoInv, StoryInv, Range
  <2>5. /\ m.path = todo[k].path /\ m.op = todo[k].op /\ m.params = todo[k].params
        /\ m.pin = todo[k].pin
    BY <2>3, <2>4
  <2>6. Steady(m) /\ Unique(Confirmed, m)
    BY <1>1, <2>3, <2>4, <2>5 DEF QuorumInv, SteadyInv, Steady, TodoInv, Unique
  <2>7. Height <= m.h /\ m.h \in Nat
    <3>1. chain # <<>> => Last(chain) \in Confirmed
      BY <1>1 DEF LogInv, Confirmed, Range, Last
    <3> QED
      BY <2>3, <3>1 DEF Comes, ChainOrder, Height
  <2>8. Height' = m.h
    <3>1. chain \in Seq(Confirmed) /\ Len(chain) \in Nat
      BY <1>1 DEF LogInv
    <3>2. chain' # <<>> /\ Last(chain') = m
      BY <2>3, <3>1 DEF Last
    <3> QED
      BY <3>2 DEF Height
  <2>9. MInv(state, Confirmed) /\ QInv(state, Confirmed, Height)
    BY DEF QuorumInv, MembersInv
  <2>10. QInv(state', Confirmed', Height')
    BY <2>3, <2>6, <2>7, <2>8, <2>9, QuorumApply
  <2>11. QInv(state, Confirmed, Height)'
    BY <2>10
  <2> QED
    BY <1>1, <2>2, <2>11 DEF QuorumInv
<1>3. CASE ~(Mine \/ MineLate \/ MineEarly)
  <2>1. chain' = chain /\ state' = state /\ Range(todo') \subseteq Range(todo)
    BY <1>1, <1>3, ChainWaits
  <2>2. Confirmed' = Confirmed /\ Height' = Height
    BY <2>1 DEF Confirmed, Height
  <2>3. SteadyInv'
    BY <2>1 DEF QuorumInv, SteadyInv, Steady, Orderly
  <2>4. QInv(state, Confirmed, Height)'
    BY <2>1, <2>2 DEF QuorumInv
  <2> QED
    BY <1>1, <2>3, <2>4 DEF QuorumInv
<1> QED
  BY <1>2, <1>3

\* There are no proposals in the beginning.
LEMMA QuorumBegins == ASSUME SteadyRules, Init PROVE QuorumInv
<1>1. MembersInv
  BY MembersBegin
<1>2. SteadyInv
  BY DEF Init, SteadyRules, SteadyInv
<1>3. Confirmed = {} /\ state = Start /\ Height = 0
  BY DEF Init, Confirmed, Range, Height
<1>4. DOMAIN Start.props = {} /\ Start.params = None /\ \A id : EditorOf(Start, id).banned = FALSE
  BY DEF Start, EditorOf, NewEditor
<1>5. QInv(Start, {}, 0)
  BY <1>4, FS_EmptySet DEF QInv, BanInv
<1> QED
  BY <1>1, <1>2, <1>3, <1>5 DEF QuorumInv

\* The invariant is what the property says.
LEMMA QuorumSuffices == ASSUME QuorumInv PROVE RulingsHaveQuorum
<1>1. QInv(state, Confirmed, Height)
  BY DEF QuorumInv
<1>2. ASSUME NEW p \in Confirmed, p.pin \in DOMAIN state.props
      PROVE  LET rec == state.props[p.pin]
                 approvals == {v \in FirstVotes(p) : v.ok /\ v.by \in rec.arbiters}
             IN  rec.state = "effective" <=> Cardinality(approvals) >= state.params.quorum
  <2> DEFINE rec == state.props[p.pin]
  <2>1. PropInv(Confirmed, p, rec, state.params.quorum, Height)
    BY <1>1, <1>2 DEF QInv
  <2>2. FirstVotes(p) = FirstOn(Confirmed, p, rec.expiry)
    BY DEF FirstVotes, FirstOn, VotesOn, On, Pins
  <2>3. {v \in FirstVotes(p) : v.ok /\ v.by \in rec.arbiters} = Approvals(Confirmed, p, rec)
    BY <2>2 DEF Approvals
  <2> QED
    BY <2>1, <2>3 DEF PropInv
<1>3. ASSUME NEW id \in DOMAIN state.eds, state.eds[id].banned
      PROVE  \E rec \in Range(state.props) :
                rec.state = "effective" /\ rec.outcome = "ban-editor" /\ rec.who = id
  <2>1. EditorOf(state, id).banned
    BY <1>3 DEF EditorOf
  <2>2. PICK k \in DOMAIN state.props : /\ state.props[k].state = "effective"
                                        /\ state.props[k].outcome = "ban-editor" /\ state.props[k].who = id
    BY <1>1, <2>1 DEF QInv, BanInv
  <2> QED
    BY <2>2 DEF Range
<1> QED
  BY <1>2, <1>3 DEF RulingsHaveQuorum

\* Where the quorum stays what the genesis made it, a ruling takes effect
\* exactly if so many of the arbiters drawn for it approved with their first
\* vote in time, and nobody is banned without one (applyRuling, closeExpired,
\* applyOutcome).
THEOREM RulingsNeedQuorum == SteadyRules => (Spec => []RulingsHaveQuorum)
<1> SUFFICES ASSUME SteadyRules PROVE Spec => []RulingsHaveQuorum
  OBVIOUS
<1>1. Init => QuorumInv
  BY QuorumBegins
<1>2. QuorumInv /\ [Next]_vars => QuorumInv'
  BY QuorumKept
<1>3. QuorumInv => RulingsHaveQuorum
  BY QuorumSuffices
<1> QED
  BY <1>1, <1>2, <1>3, PTL DEF Spec

-----------------------------------------------------------------------------
(* What is written of revisions *)

\* The revisions of a chain that are not in a graveyard.
RevOps == {"create", "edit", "revert", "redirect"}

Admits(e, grave) == e.path = "rev" /\ e.op \in RevOps /\ e.pin \notin DOMAIN grave

AdmittedOf(C, grave) == {e \in C : Admits(e, grave)}

\* What a pin may be called in a history, and the history of a record that
\* names it.
Names(pin) == {Rev(pin), Equivalent(pin)}

Holds(r, pin) == \E i \in DOMAIN r.history : r.history[i] \in Names(pin)

Placed(recs, pin, k, i) ==
    k \in DOMAIN recs /\ i \in DOMAIN recs[k].history /\ recs[k].history[i] \in Names(pin)

\* What is admitted has one place, and nothing else has any.
PlaceInv(recs, A) ==
    /\ \A pin : (\E k, i : Placed(recs, pin, k, i)) <=> \E e \in A : e.pin = pin
    /\ \A pin, k, i, l, j :
          Placed(recs, pin, k, i) /\ Placed(recs, pin, l, j) => k = l /\ i = j

RecordFields ==
    {"key", "head", "status", "history", "disputed", "contests", "versions", "redirect",
     "frozenAt", "base", "arbiters", "weights"}

Revs == Nat \X {"", "eq", "rev"}

\* The reverts of a record in the window up to one of them.
Battles(r, A, f, params) ==
    {e \in A : /\ e.op = "revert" /\ Holds(r, e.pin) /\ ~ChainOrder(f, e)
               /\ e.h > f.h - params.warHours * BlocksPerHour}

FairlyFrozen(r, A, C, params) ==
    \E f \in On(C, "rev", "revert") :
        /\ f.pin = r.frozenAt
        /\ Cardinality(Battles(r, A, f, params)) >= params.warT
        /\ \A e \in A : Holds(r, e.pin) /\ ChainOrder(f, e) => e.by \in r.arbiters

\* Each weight is that of a revert of the record, and no revert has two.
WeightsInv(r, A) ==
    /\ IsFiniteSet(r.weights)
    /\ \A w \in r.weights : \E e \in A : /\ e.op = "revert" /\ e.pin = w.pin /\ e.h = w.h
                                         /\ Holds(r, e.pin)
    /\ \A v, w \in r.weights : v.pin = w.pin => v = w

RecordInv(r, A, C, params, n) ==
    /\ DOMAIN r = RecordFields
    /\ r.history \in Seq(Revs) /\ Len(r.history) <= n
    /\ WeightsInv(r, A)
    /\ r.status = "frozen" => FairlyFrozen(r, A, C, params)

\* The revisions of an editor on a day.
WrittenOn(A, s, by, d) == {f \in A : f.by = by /\ DayOf(s, f.h) = d}

\* The counters of the day count them, within the rate.
CountInv(s, A) ==
    \A by, d : /\ Counted(s.day, <<by, d>>) = Cardinality(WrittenOn(A, s, by, d))
               /\ s.params # None => Counted(s.day, <<by, d>>) <= s.params.rateG

\* Who wrote is an editor, and was one for long enough.
AuthorInv(s, A) ==
    \A e \in A : /\ EditorOf(s, e.by).reg # NotYet
                 /\ e.by \notin s.founders =>
                       e.h >= EditorOf(s, e.by).reg + s.params.t0Hours * BlocksPerHour

\* Who was revoked is, and has written nothing since.
RevokedInv(s, A, C) ==
    \A x \in On(C, "editor", "revoke") : x.pin \notin DOMAIN s.grave =>
        EditorOf(s, x.who).revoked /\ \A e \in A : e.by = x.who => ~ChainOrder(x, e)

FounderInv(s) == \A id : EditorOf(s, id).founder => id \in s.founders

\* Every key has a record, and no record is without a key.
Rooted(s) ==
    DOMAIN s.recs \subseteq DOMAIN s.entries /\ \A k \in DOMAIN s.entries : s.entries[k] \in DOMAIN s.recs

\* The pins of a chain, of which there are n, and the graveyard.
ChainInv(C, s, n) ==
    /\ n \in Nat /\ IsFiniteSet(C) /\ \A e \in C : e.h \in Nat
    /\ \A e, f \in C : e.pin = f.pin => e = f
    /\ DOMAIN s.grave \subseteq {f.pin : f \in C}

RInv(s, C, n) ==
    LET A == AdmittedOf(C, s.grave)
    IN  /\ ChainInv(C, s, n)
        /\ Rooted(s)
        /\ \A k \in DOMAIN s.recs : RecordInv(s.recs[k], A, C, s.params, n)
        /\ PlaceInv(s.recs, A)
        /\ CountInv(s, A) /\ AuthorInv(s, A) /\ RevokedInv(s, A, C) /\ FounderInv(s)
        /\ IF s.params = None THEN DOMAIN s.recs = {} ELSE Firm(s.params)

\* A record that no revision is written to.
Tame(r, q, n) ==
    /\ DOMAIN q = RecordFields
    /\ q.weights = r.weights
    /\ q.history \in Seq(Revs) /\ Len(q.history) <= n
    /\ \A pin, i : i \in DOMAIN q.history /\ q.history[i] \in Names(pin)
                     <=> i \in DOMAIN r.history /\ r.history[i] \in Names(pin)
    /\ q.status = "frozen" =>
          r.status = "frozen" /\ q.frozenAt = r.frozenAt /\ q.arbiters = r.arbiters

\* A record that was only just opened.
Fresh(q) ==
    /\ DOMAIN q = RecordFields
    /\ q.history = <<>> /\ q.weights = {} /\ q.status = "normal"

TameRecs(recs, more, n) ==
    /\ DOMAIN recs \subseteq DOMAIN more
    /\ \A k \in DOMAIN more : IF k \in DOMAIN recs THEN Tame(recs[k], more[k], n) ELSE Fresh(more[k])

\* Whoever is an editor stays one since when they are, and whoever is revoked
\* stays so.
Steadfast(s, t) ==
    \A id : /\ EditorOf(t, id).founder = EditorOf(s, id).founder
            /\ EditorOf(s, id).reg # NotYet => EditorOf(t, id).reg = EditorOf(s, id).reg
            /\ EditorOf(s, id).revoked => EditorOf(t, id).revoked

\* The rules and the counters are the same.
SameRules(s, t) ==
    t.params = s.params /\ t.genesis = s.genesis /\ t.founders = s.founders /\ t.day = s.day

\* The invariant of a record stays while no revision is written to it.
LEMMA TameStays ==
    ASSUME NEW r, NEW A, NEW C, NEW params, NEW n, RecordInv(r, A, C, params, n),
           NEW D, C \subseteq D, NEW q, NEW m, Tame(r, q, m)
    PROVE  RecordInv(q, A, D, params, m)
<1>1. \A pin : Holds(q, pin) <=> Holds(r, pin)
  BY DEF Holds, Tame
<1>2. WeightsInv(q, A)
  BY <1>1 DEF RecordInv, WeightsInv, Tame
<1>3. \A f : Battles(q, A, f, params) = Battles(r, A, f, params)
  BY <1>1 DEF Battles
<1>4. On(C, "rev", "revert") \subseteq On(D, "rev", "revert")
  BY DEF On
<1>5. q.status = "frozen" => FairlyFrozen(q, A, D, params)
  BY <1>1, <1>3, <1>4 DEF RecordInv, FairlyFrozen, Tame
<1> QED
  BY <1>2, <1>5 DEF RecordInv, Tame

\* A record that was only just opened has it.
LEMMA FreshStarts ==
    ASSUME NEW q, Fresh(q), NEW A, NEW C, NEW params, NEW n \in Nat
    PROVE  RecordInv(q, A, C, params, n)
<1>1. WeightsInv(q, A)
  BY FS_EmptySet DEF WeightsInv, Fresh
<1>2. q.history \in Seq(Revs) /\ Len(q.history) = 0
  BY DEF Fresh
<1> QED
  BY <1>1, <1>2 DEF RecordInv, Fresh

\* Places stay while no revision is written.
LEMMA TamePlaces ==
    ASSUME NEW recs, NEW more, NEW n, TameRecs(recs, more, n), NEW pin, NEW k, NEW i
    PROVE  Placed(more, pin, k, i) <=> Placed(recs, pin, k, i)
<1>1. CASE k \in DOMAIN recs
  BY <1>1 DEF TameRecs, Tame, Placed
<1>2. CASE k \in DOMAIN more \ DOMAIN recs
  BY <1>2 DEF TameRecs, Fresh, Placed
<1>3. CASE k \notin DOMAIN more
  BY <1>3 DEF TameRecs, Placed
<1> QED
  BY <1>1, <1>2, <1>3

\* A step that admits no revision keeps the invariant.
LEMMA RevsCarry ==
    ASSUME NEW s, NEW C, NEW n, RInv(s, C, n), NEW t, NEW D, NEW m \in Nat,
           C \subseteq D, ChainInv(D, t, m), AdmittedOf(D, t.grave) = AdmittedOf(C, s.grave),
           SameRules(s, t), Steadfast(s, t), TameRecs(s.recs, t.recs, m), Rooted(t),
           RevokedInv(t, AdmittedOf(D, t.grave), D), s.params = None => DOMAIN t.recs = {}
    PROVE  RInv(t, D, m)
<1> DEFINE A == AdmittedOf(C, s.grave)
<1>1. /\ \A k \in DOMAIN s.recs : RecordInv(s.recs[k], A, C, s.params, n)
      /\ PlaceInv(s.recs, A) /\ CountInv(s, A) /\ AuthorInv(s, A) /\ FounderInv(s)
      /\ IF s.params = None THEN DOMAIN s.recs = {} ELSE Firm(s.params)
  BY DEF RInv
<1> HIDE DEF A
<1>2. ASSUME NEW k \in DOMAIN t.recs PROVE RecordInv(t.recs[k], A, D, t.params, m)
  <2>1. t.params = s.params
    BY DEF SameRules
  <2>2. CASE k \in DOMAIN s.recs
    BY <1>1, <2>1, <2>2, TameStays DEF TameRecs
  <2>3. CASE k \notin DOMAIN s.recs
    BY <2>3, FreshStarts DEF TameRecs
  <2> QED
    BY <2>2, <2>3
<1>3. PlaceInv(t.recs, A)
  <2>1. \A pin, k, i : Placed(t.recs, pin, k, i) <=> Placed(s.recs, pin, k, i)
    BY TamePlaces
  <2> QED
    BY <1>1, <2>1 DEF PlaceInv
<1>4. CountInv(t, A)
  <2>1. \A by, d : WrittenOn(A, t, by, d) = WrittenOn(A, s, by, d)
    BY DEF WrittenOn, DayOf, SameRules
  <2> QED
    BY <1>1, <2>1 DEF CountInv, SameRules
<1>5. AuthorInv(t, A)
  BY <1>1 DEF AuthorInv, SameRules, Steadfast
<1>6. FounderInv(t)
  BY <1>1 DEF FounderInv, SameRules, Steadfast
<1>7. IF t.params = None THEN DOMAIN t.recs = {} ELSE Firm(t.params)
  BY <1>1 DEF SameRules
<1>8. AdmittedOf(D, t.grave) = A
  BY DEF A
<1> QED
  BY <1>2, <1>3, <1>4, <1>5, <1>6, <1>7, <1>8 DEF RInv

-----------------------------------------------------------------------------
(* Pins that write no revision *)

\* A graveyard grows by a pin or not at all.
Buries(s, t, e) ==
    DOMAIN s.grave \subseteq DOMAIN t.grave /\ DOMAIN t.grave \subseteq DOMAIN s.grave \cup {e.pin}

\* A pin that writes no revision.
Quiet(s, t, e, n) ==
    /\ SameRules(s, t) /\ Steadfast(s, t) /\ Buries(s, t, e)
    /\ TameRecs(s.recs, t.recs, n) /\ Rooted(t)

\* The chain grows by a pin.
LEMMA RevChainGrows ==
    ASSUME NEW s, NEW C, NEW n, ChainInv(C, s, n), NEW e, Unique(C, e), NEW t, Buries(s, t, e)
    PROVE  ChainInv(C \cup {e}, t, n+1)
<1>1. IsFiniteSet(C \cup {e}) /\ e.h \in Nat
  BY FS_AddElement DEF ChainInv, Unique, Comes
<1> QED
  BY <1>1 DEF ChainInv, Unique, Buries

\* What was admitted stays so, and the new pin is admitted or not.
LEMMA AdmittedGrow ==
    ASSUME NEW s, NEW C, NEW n, ChainInv(C, s, n), NEW e, Unique(C, e), NEW t, Buries(s, t, e),
           NEW D, D = C \cup {e}, NEW f
    PROVE  f \in AdmittedOf(D, t.grave) <=>
              f \in AdmittedOf(C, s.grave) \/ (f = e /\ Admits(e, t.grave))
BY DEF ChainInv, Unique, Buries, AdmittedOf, Admits

\* A pin that writes no revision keeps the invariant.
LEMMA RevsQuiet ==
    ASSUME NEW s, NEW C, NEW n, RInv(s, C, n), NEW e, Unique(C, e), NEW t, Quiet(s, t, e, n+1),
           e.path # "rev" \/ e.pin \in DOMAIN t.grave, s.params = None => t.recs = s.recs,
           e.path = "editor" /\ e.op = "revoke" /\ e.pin \notin DOMAIN t.grave =>
              EditorOf(t, e.who).revoked
    PROVE  RInv(t, C \cup {e}, n+1)
<1> DEFINE D == C \cup {e}
           A == AdmittedOf(C, s.grave)
<1>1. ChainInv(C, s, n) /\ n \in Nat /\ RevokedInv(s, A, C)
  BY DEF RInv, ChainInv
<1>2. ChainInv(D, t, n+1) /\ AdmittedOf(D, t.grave) = A
  <2>1. Buries(s, t, e)
    BY DEF Quiet
  <2>2. ChainInv(D, t, n+1)
    BY <1>1, <2>1, RevChainGrows
  <2>3. ~Admits(e, t.grave)
    BY DEF Admits
  <2>4. \A f : f \in AdmittedOf(D, t.grave) <=> f \in A
    BY <1>1, <2>1, <2>3, AdmittedGrow
  <2> QED
    BY <2>2, <2>4
<1>3. \A f \in C : f.pin \in DOMAIN s.grave <=> f.pin \in DOMAIN t.grave
  BY DEF Quiet, Buries, Unique
<1>4. A \subseteq C /\ \A f \in C : ~ChainOrder(e, f)
  BY DEF AdmittedOf, Unique, Comes
<1> HIDE DEF A
<1>5. RevokedInv(t, A, D)
  <2> SUFFICES ASSUME NEW x \in D, x.path = "editor", x.op = "revoke", x.pin \notin DOMAIN t.grave
               PROVE  EditorOf(t, x.who).revoked /\ \A f \in A : f.by = x.who => ~ChainOrder(x, f)
    BY DEF RevokedInv, On
  <2>1. CASE x \in C
    BY <1>1, <1>3, <2>1 DEF RevokedInv, On, Quiet, Steadfast
  <2>2. CASE x = e
    BY <1>4, <2>2
  <2> QED
    BY <2>1, <2>2
<1> HIDE DEF D
<1>6. C \subseteq D /\ (s.params = None => DOMAIN t.recs = {})
  BY DEF D, RInv
<1>7. RInv(t, D, n+1)
  <2>1. A = AdmittedOf(C, s.grave)
    BY DEF A
  <2> QED
    BY <1>1, <1>2, <1>5, <1>6, <2>1, RevsCarry DEF Quiet
<1> QED
  BY <1>7 DEF D

\* A record stays as it is.
LEMMA TameSame ==
    ASSUME NEW r, NEW A, NEW C, NEW params, NEW n \in Nat, RecordInv(r, A, C, params, n),
           NEW m \in Nat, n <= m
    PROVE  Tame(r, r, m)
BY DEF RecordInv, Tame

\* So do all records.
LEMMA SameRecs ==
    ASSUME NEW s, NEW C, NEW n, RInv(s, C, n), NEW m \in Nat, n <= m
    PROVE  TameRecs(s.recs, s.recs, m) /\ Rooted(s)
BY TameSame DEF RInv, ChainInv, TameRecs

\* Nothing of entries is touched, and editors stand.
LEMMA QuietSame ==
    ASSUME NEW s, NEW C, NEW n, RInv(s, C, n), NEW e, NEW t, SameRules(s, t), Steadfast(s, t),
           Buries(s, t, e), t.recs = s.recs, t.entries = s.entries
    PROVE  Quiet(s, t, e, n+1)
<1>1. n \in Nat /\ n+1 \in Nat /\ n <= n+1
  BY DEF RInv, ChainInv
<1>2. TameRecs(s.recs, s.recs, n+1) /\ Rooted(s)
  BY <1>1, SameRecs
<1> QED
  BY <1>2 DEF Quiet, Rooted

\* Standing that stays is steadfast.
LEMMA StandingHolds ==
    ASSUME NEW s, Shaped(s), NEW t, SameStanding(s, t)
    PROVE  Steadfast(s, t)
BY DEF Shaped, EditorFields, SameStanding, Stands, Steadfast

\* Where editors are the same, so is what they hold.
LEMMA EditorsHold ==
    ASSUME NEW s, NEW t, t.eds = s.eds
    PROVE  Steadfast(s, t)
BY DEF Steadfast, EditorOf

\* What a pin may touch that goes to the graveyard, or changes neither
\* entries, editors nor rules.
Aside == {"alias", "challenges", "regs", "props", "votes", "reviews", "slugDay", "bootEnd"}

\* What a pin of an editor may change of the rest, and of an editor.
StandsBy(s, t, e) ==
    SameRules(s, t) /\ Steadfast(s, t) /\ Buries(s, t, e) /\ t.recs = s.recs /\ t.entries = s.entries

HoldsOn(old, new) ==
    /\ new.founder = old.founder /\ (old.reg # NotYet => new.reg = old.reg)
    /\ old.revoked => new.revoked

\* A pin goes to the graveyard, or touches neither entries, editors nor rules.
LEMMA AsideStands ==
    ASSUME NEW s, DOMAIN s = Fields, NEW e, NEW t,
           (\E why : t = Grave(s, e, why)) \/ Touches(s, t, Aside)
    PROVE  StandsBy(s, t, e)
<1>1. SameRules(s, t) /\ t.eds = s.eds /\ t.recs = s.recs /\ t.entries = s.entries /\ Buries(s, t, e)
  <2>1. CASE Touches(s, t, Aside)
    BY <2>1 DEF Touches, Fields, Aside, SameRules, Buries
  <2>2. ASSUME NEW why, t = Grave(s, e, why)
        PROVE  SameRules(s, t) /\ t.eds = s.eds /\ t.recs = s.recs /\ t.entries = s.entries /\ Buries(s, t, e)
    <3>1. Touches(s, t, {"grave"}) /\ t.grave = With(s.grave, e.pin, why)
      BY <2>2, GraveDoes DEF Fields
    <3>2. DOMAIN t.grave = DOMAIN s.grave \cup {e.pin}
      BY <3>1 DEF With
    <3> QED
      BY <3>1, <3>2 DEF Touches, Fields, SameRules, Buries
  <2> QED
    BY <2>1, <2>2
<1> QED
  BY <1>1, EditorsHold DEF StandsBy

\* An editor is written who holds what they held.
LEMMA EditorStands ==
    ASSUME NEW s, DOMAIN s = Fields, NEW x, Touches(s, x, {"regs"}), NEW id, NEW ed,
           HoldsOn(EditorOf(s, id), ed), NEW e
    PROVE  StandsBy(s, WithEditor(x, id, ed), e)
<1> DEFINE t == WithEditor(x, id, ed)
<1>1. DOMAIN x = Fields /\ x.eds = s.eds
  BY DEF Touches, Fields
<1>2. Touches(x, t, {"eds"}) /\ \A i : EditorOf(t, i) = IF i = id THEN ed ELSE EditorOf(x, i)
  BY <1>1, WithEditorDoes DEF Fields
<1>3. \A i : EditorOf(x, i) = EditorOf(s, i)
  BY <1>1 DEF EditorOf
<1> HIDE DEF t
<1>4. Steadfast(s, t)
  BY <1>2, <1>3 DEF Steadfast, HoldsOn
<1>5. SameRules(s, t) /\ t.recs = s.recs /\ t.entries = s.entries /\ Buries(s, t, e)
  BY <1>1, <1>2 DEF Touches, Fields, SameRules, Buries
<1> QED
  BY <1>4, <1>5 DEF StandsBy, t

\* What a pin of an editor does to those who are editors.
LEMMA EditorKindStands ==
    ASSUME NEW s, Shaped(s), NEW e,
           NEW t, t \in {EditorChallenge(s, e), PocResponse(s, e), Register(s, e), Endorse(s, e),
                         CarryOut(s, e), Grave(s, e, "editor-action-unknown")}
    PROVE  StandsBy(s, t, e)
<1>1. DOMAIN s = Fields /\ \A id : DOMAIN EditorOf(s, id) = EditorFields
  BY DEF Shaped
<1>2. CASE \E why : t = Grave(s, e, why)
  BY <1>1, <1>2, AsideStands
<1>3. \A regs : Touches(s, [s EXCEPT !.regs = regs], {"regs"})
                /\ Touches(s, [s EXCEPT !.regs = regs], Aside)
  BY <1>1 DEF Touches, Fields, Aside
<1>4. CASE \E regs : t = [s EXCEPT !.regs = regs]
  BY <1>1, <1>3, <1>4, AsideStands
<1>5. ASSUME NEW x, Touches(s, x, {"regs"}), NEW pending,
             t = WithEditor(x, e.by, [EditorOf(s, e.by) EXCEPT !.pending = pending])
      PROVE  StandsBy(s, t, e)
  <2>1. HoldsOn(EditorOf(s, e.by), [EditorOf(s, e.by) EXCEPT !.pending = pending])
    BY <1>1 DEF HoldsOn, EditorFields
  <2> QED
    BY <1>1, <1>5, <2>1, EditorStands
<1>6. ASSUME NEW ed, HoldsOn(EditorOf(s, e.who), ed), t = WithEditor(s, e.who, ed)
      PROVE  StandsBy(s, t, e)
  <2>1. Touches(s, s, {"regs"})
    BY DEF Touches
  <2> QED
    BY <1>1, <1>6, <2>1, EditorStands
<1>7. CASE t = EditorChallenge(s, e) \/ t = PocResponse(s, e)
  <2>1. (\E why : t = Grave(s, e, why)) \/ \E regs : t = [s EXCEPT !.regs = regs]
    BY <1>7 DEF EditorChallenge, PocResponse
  <2> QED
    BY <1>2, <1>4, <2>1
<1>8. CASE t = Register(s, e)
  <2> DEFINE x == [s EXCEPT !.regs[e.ref].stake = TRUE, !.regs[e.ref].regH = e.h,
                            !.regs[e.ref].regTx = e.tx, !.regs[e.ref].regPin = e.pin]
  <2>1. \/ \E why : t = Grave(s, e, why)
        \/ t = WithEditor(x, e.by, [EditorOf(s, e.by) EXCEPT !.pending = e.h])
    BY <1>8 DEF Register
  <2>2. Touches(s, x, {"regs"})
    BY <1>1 DEF Touches, Fields
  <2> HIDE DEF x
  <2> QED
    BY <1>2, <1>5, <2>1, <2>2
<1>9. CASE t = Endorse(s, e)
  <2> DEFINE rc == Endorsed(s, e)
             ed == EditorOf(s, e.who)
             backers == ed.endorsed \cup {e.by}
             needed == IF e.h < s.bootEnd THEN 4 ELSE 2
             enough == Cardinality(backers) >= needed /\ ed.reg = NotYet
             new == [ed EXCEPT !.endorsed = backers, !.reg = IF enough THEN rc.regH ELSE @]
  <2>1. (\E why : t = Grave(s, e, why)) \/ t = WithEditor(s, e.who, new)
    BY <1>9 DEF Endorse
  <2>2. HoldsOn(ed, new)
    <3>1. DOMAIN ed = EditorFields /\ (enough => ed.reg = NotYet)
      BY <1>1
    <3> HIDE DEF ed, enough, backers, rc
    <3> QED
      BY <3>1 DEF HoldsOn, EditorFields
  <2> HIDE DEF new
  <2> QED
    BY <1>2, <1>6, <2>1, <2>2
<1>10. CASE t = CarryOut(s, e)
  <2> DEFINE ed == EditorOf(s, e.who)
             revoked == [ed EXCEPT !.revoked = TRUE]
  <2>1. \/ \E why : t = Grave(s, e, why)
        \/ t = WithEditor(s, e.who, revoked)
        \/ \E until : t = WithEditor(s, e.who, [ed EXCEPT !.until = until])
    BY <1>10 DEF CarryOut
  <2>2. HoldsOn(ed, revoked) /\ \A until : HoldsOn(ed, [ed EXCEPT !.until = until])
    BY <1>1 DEF HoldsOn, EditorFields
  <2> HIDE DEF revoked
  <2> QED
    BY <1>2, <1>6, <2>1, <2>2
<1> QED
  BY <1>2, <1>7, <1>8, <1>9, <1>10

\* Whoever is revoked by a pin that stands is so.
LEMMA RevokeDoes ==
    ASSUME NEW s, Shaped(s), NEW e, e.op = "revoke", e.pin \notin DOMAIN CarryOut(s, e).grave
    PROVE  EditorOf(CarryOut(s, e), e.who).revoked
<1> DEFINE ed == EditorOf(s, e.who)
           revoked == [ed EXCEPT !.revoked = TRUE]
           t == CarryOut(s, e)
<1>1. (\E why : t = Grave(s, e, why)) \/ t = WithEditor(s, e.who, revoked)
  BY DEF CarryOut
<1>2. \A why : e.pin \in DOMAIN Grave(s, e, why).grave
  <2>1. \A why : Grave(s, e, why).grave = With(s.grave, e.pin, why)
    BY GraveDoes DEF Shaped, Fields
  <2> QED
    BY <2>1 DEF With
<1>3. revoked.revoked
  BY DEF Shaped, EditorFields
<1>4. EditorOf(WithEditor(s, e.who, revoked), e.who) = revoked
  BY WithEditorDoes DEF Shaped, Fields
<1> QED
  BY <1>1, <1>2, <1>3, <1>4

\* A pin of an editor writes no revision.
LEMMA RevsEditor ==
    ASSUME NEW s_, NEW C, NEW n, RInv(s_, C, n), Shaped(s_), NEW e
    PROVE  /\ Quiet(s_, ApplyEditor(s_, e), e, n+1)
           /\ ApplyEditor(s_, e).recs = s_.recs
           /\ e.op = "revoke" /\ e.pin \notin DOMAIN ApplyEditor(s_, e).grave =>
                 EditorOf(ApplyEditor(s_, e), e.who).revoked
<1> DEFINE s == WithEditor(s_, e.who, EditorOf(s_, e.who))
           t == ApplyEditor(s_, e)
<1>1. Touches(s_, s, {"eds"}) /\ \A i : EditorOf(s, i) = EditorOf(s_, i)
  BY WithEditorDoes DEF Shaped, Fields
<1>2. /\ t \in {EditorChallenge(s, e), PocResponse(s, e), Register(s, e), Endorse(s, e),
                CarryOut(s, e), Grave(s, e, "editor-action-unknown")}
      /\ e.op = "revoke" => t = CarryOut(s, e)
  BY DEF ApplyEditor
<1> HIDE DEF s, t
<1>3. Shaped(s)
  BY <1>1 DEF Touches, Shaped
<1>4. StandsBy(s, t, e)
  BY <1>2, <1>3, EditorKindStands
<1>5. StandsBy(s_, t, e)
  BY <1>1, <1>4 DEF StandsBy, SameRules, Steadfast, Buries, Touches, Shaped, Fields
<1>6. Quiet(s_, t, e, n+1) /\ t.recs = s_.recs
  BY <1>5, QuietSame DEF StandsBy
<1>7. e.op = "revoke" /\ e.pin \notin DOMAIN t.grave => EditorOf(t, e.who).revoked
  BY <1>2, <1>3, RevokeDoes
<1> QED
  BY <1>6, <1>7 DEF t

\* Nor does a review, or what is asked of the rules, or a pin that is refused.
LEMMA RevsAside ==
    ASSUME NEW s, NEW C, NEW n, RInv(s, C, n), Shaped(s), NEW e, NEW t,
           \/ t \in {ApplyReview(s, e), ApplyParamProposal(s, e), Propose(s, e)}
           \/ \E why : t = Grave(s, e, why)
    PROVE  Quiet(s, t, e, n+1) /\ t.recs = s.recs
<1>1. (\E why : t = Grave(s, e, why)) \/ Touches(s, t, Aside)
  <2>1. \A x : Touches(s, [s EXCEPT !.reviews = x], Aside)
               /\ Touches(s, [s EXCEPT !.votes = x], Aside) /\ Touches(s, [s EXCEPT !.props = x], Aside)
    BY DEF Touches, Shaped, Fields, Aside
  <2>2. CASE t = ApplyReview(s, e)
    <3>1. (\E why : t = Grave(s, e, why)) \/ \E x : t = [s EXCEPT !.reviews = x]
      BY <2>2 DEF ApplyReview
    <3> QED
      BY <2>1, <3>1
  <2>3. CASE t = ApplyParamProposal(s, e)
    <3>1. (\E why : t = Grave(s, e, why)) \/ \E x : t = [s EXCEPT !.votes = x]
      BY <2>3 DEF ApplyParamProposal, ParamVote
    <3> QED
      BY <2>1, <3>1
  <2>4. CASE t = Propose(s, e)
    <3>1. (\E why : t = Grave(s, e, why)) \/ \E x : t = [s EXCEPT !.props = x]
      BY <2>4 DEF Propose
    <3> QED
      BY <2>1, <3>1
  <2> QED
    BY <2>2, <2>3, <2>4
<1>2. StandsBy(s, t, e)
  BY <1>1, AsideStands DEF Shaped
<1> QED
  BY <1>2, QuietSame DEF StandsBy

\* An outcome leaves a record tame.
LEMMA OutcomeTame ==
    ASSUME NEW r, NEW A, NEW C, NEW params, NEW n \in Nat, RecordInv(r, A, C, params, n),
           NEW s, NEW pin \in Nat, NEW p
    PROVE  Tame(r, OutcomeFor(s, pin, p, r), n+1)
<1> DEFINE q == OutcomeFor(s, pin, p, r)
<1>1. DOMAIN r = RecordFields /\ r.history \in Seq(Revs) /\ Len(r.history) <= n
  BY DEF RecordInv
<1>2. CASE p.outcome = "revert-to"
  <2> DEFINE versions == With(r.versions, Restored(pin), RestoredVersion(r, p, pin))
  <2>1. q = [r EXCEPT !.versions = versions, !.head = Restored(pin),
                      !.history = Append(r.history, Restored(pin))]
    BY <1>2 DEF OutcomeFor
  <2> HIDE DEF versions, q
  <2>2. /\ DOMAIN q = RecordFields /\ q.weights = r.weights /\ q.status = r.status
        /\ q.frozenAt = r.frozenAt /\ q.arbiters = r.arbiters
        /\ q.history = Append(r.history, Restored(pin))
    BY <1>1, <2>1 DEF RecordFields
  <2>3. Restored(pin) \in Revs /\ \A x : Restored(pin) \notin Names(x)
    BY DEF Restored, Revs, Names, Rev, Equivalent
  <2>4. /\ q.history \in Seq(Revs) /\ Len(q.history) = Len(r.history) + 1
        /\ DOMAIN r.history = 1 .. Len(r.history) /\ Len(r.history) \in Nat
        /\ DOMAIN q.history = 1 .. Len(r.history) + 1
        /\ \A i \in 1 .. Len(r.history) : q.history[i] = r.history[i]
        /\ q.history[Len(r.history) + 1] = Restored(pin)
    BY <1>1, <2>2, <2>3
  <2>5. ASSUME NEW x, NEW i
        PROVE  i \in DOMAIN q.history /\ q.history[i] \in Names(x)
                 <=> i \in DOMAIN r.history /\ r.history[i] \in Names(x)
    <3>1. i \in DOMAIN q.history <=> i \in DOMAIN r.history \/ i = Len(r.history) + 1
      BY <2>4
    <3>2. i = Len(r.history) + 1 => i \notin DOMAIN r.history /\ q.history[i] \notin Names(x)
      BY <2>3, <2>4
    <3>3. i \in DOMAIN r.history => q.history[i] = r.history[i]
      BY <2>4
    <3> QED
      BY <3>1, <3>2, <3>3
  <2>6. Tame(r, q, n+1)
    <3>1. Len(q.history) <= n+1
      BY <1>1, <2>4
    <3> QED
      BY <2>2, <2>4, <2>5, <3>1, Zenon DEF Tame
  <2> QED
    BY <2>6 DEF q
<1>3. CASE p.outcome # "revert-to"
  <2>1. \/ q = r
        \/ \E x : q = [r EXCEPT !.disputed = x]
        \/ \E x : q = [r EXCEPT !.status = x] /\ (x = "frozen" => r.status = "frozen")
    <3>1. CASE p.outcome = "dismiss"
      BY <3>1 DEF OutcomeFor
    <3>2. CASE p.outcome = "protect"
      BY <3>2 DEF OutcomeFor
    <3>3. CASE p.outcome = "unprotect"
      BY <3>3 DEF OutcomeFor
    <3>4. CASE p.outcome = "unfreeze"
      <4> DEFINE x == IF r.status = "frozen" THEN "normal" ELSE r.status
      <4>1. q = [r EXCEPT !.status = x]
        BY <3>4 DEF OutcomeFor
      <4>2. x = "frozen" => r.status = "frozen"
        OBVIOUS
      <4> HIDE DEF x, q
      <4> QED
        BY <4>1, <4>2
    <3>5. CASE p.outcome \notin {"dismiss", "protect", "unprotect", "unfreeze"}
      BY <1>3, <3>5 DEF OutcomeFor
    <3> QED
      BY <3>1, <3>2, <3>3, <3>4, <3>5
  <2> HIDE DEF q
  <2>2. /\ DOMAIN q = RecordFields /\ q.weights = r.weights /\ q.history = r.history
        /\ q.frozenAt = r.frozenAt /\ q.arbiters = r.arbiters
        /\ q.status = "frozen" => r.status = "frozen"
    BY <1>1, <2>1 DEF RecordFields
  <2>3. Tame(r, q, n+1)
    BY <1>1, <2>2 DEF Tame
  <2> QED
    BY <2>3 DEF q
<1> QED
  BY <1>2, <1>3

\* One record is written, and tame.
LEMMA TameOne ==
    ASSUME NEW s, NEW C, NEW n, RInv(s, C, n), NEW k, NEW q,
           k \in DOMAIN s.recs => Tame(s.recs[k], q, n+1)
    PROVE  /\ TameRecs(s.recs, [s.recs EXCEPT ![k] = q], n+1)
           /\ DOMAIN [s.recs EXCEPT ![k] = q] = DOMAIN s.recs
<1>1. n \in Nat /\ n <= n+1 /\ n+1 \in Nat
  BY DEF RInv, ChainInv
<1>2. TameRecs(s.recs, s.recs, n+1)
  BY <1>1, SameRecs
<1> QED
  BY <1>2 DEF TameRecs

\* An outcome writes no revision.
LEMMA RevsOutcome ==
    ASSUME NEW s, NEW C, NEW n, RInv(s, C, n), Shaped(s), NEW pin \in Nat, NEW e
    PROVE  Quiet(s, ApplyOutcome(s, pin), e, n+1)
<1> DEFINE p == s.props[pin]
           k == s.entries[p.entry]
           q == OutcomeFor(s, pin, p, RecordAt(s, p.entry))
           t == ApplyOutcome(s, pin)
<1>1. /\ Touches(s, t, {"props", "recs", "entries", "alias", "eds"}) /\ SameStanding(s, t)
      /\ t.recs = [s.recs EXCEPT ![k] = q]
      /\ \/ t.entries = s.entries
         \/ p.from \in DOMAIN s.entries /\ t.entries = With(s.entries, p.to, s.entries[p.from])
  BY OutcomeDoes
<1>2. k \in DOMAIN s.recs => Tame(s.recs[k], q, n+1)
  <2>1. RecordAt(s, p.entry) = s.recs[k]
    BY DEF RecordAt
  <2>2. ASSUME k \in DOMAIN s.recs
        PROVE  RecordInv(s.recs[k], AdmittedOf(C, s.grave), C, s.params, n) /\ n \in Nat
    BY <2>2 DEF RInv, ChainInv
  <2> HIDE DEF k
  <2> QED
    BY <2>1, <2>2, OutcomeTame
<1> HIDE DEF t, q, k, p
<1>3. TameRecs(s.recs, t.recs, n+1) /\ DOMAIN t.recs = DOMAIN s.recs
  BY <1>1, <1>2, TameOne
<1>4. Rooted(t)
  <2>1. Rooted(s)
    BY DEF RInv
  <2> QED
    BY <1>1, <1>3, <2>1 DEF Rooted, With
<1>5. SameRules(s, t) /\ Buries(s, t, e)
  BY <1>1 DEF Touches, Shaped, Fields, SameRules, Buries
<1>6. Steadfast(s, t)
  BY <1>1, StandingHolds
<1> QED
  BY <1>3, <1>4, <1>5, <1>6 DEF Quiet, t

\* The invariant says nothing of proposals.
LEMMA RevsButProps ==
    ASSUME NEW s, NEW C, NEW n, RInv(s, C, n), Shaped(s), NEW t, Touches(s, t, {"props"})
    PROVE  RInv(t, C, n) /\ Shaped(t) /\ SameRules(s, t) /\ Steadfast(s, t)
           /\ t.grave = s.grave /\ t.recs = s.recs
<1>1. /\ t.grave = s.grave /\ t.recs = s.recs /\ t.entries = s.entries /\ t.eds = s.eds
      /\ SameRules(s, t) /\ DOMAIN t = Fields
  BY DEF Touches, Shaped, Fields, SameRules
<1>2. Steadfast(s, t) /\ \A id : EditorOf(t, id) = EditorOf(s, id)
  BY <1>1, EditorsHold DEF EditorOf
<1>3. Shaped(t)
  BY <1>1, <1>2 DEF Shaped
<1>4. n \in Nat /\ TameRecs(s.recs, t.recs, n) /\ Rooted(t) /\ ChainInv(C, t, n)
  <2>1. n \in Nat /\ ChainInv(C, s, n) /\ n <= n
    BY DEF RInv, ChainInv
  <2>2. TameRecs(s.recs, s.recs, n) /\ Rooted(s)
    BY <2>1, SameRecs
  <2> QED
    BY <1>1, <2>1, <2>2 DEF ChainInv, Rooted
<1>5. RevokedInv(t, AdmittedOf(C, t.grave), C)
  BY <1>1, <1>2 DEF RInv, RevokedInv
<1>6. s.params = None => DOMAIN t.recs = {}
  BY <1>1 DEF RInv
<1>7. RInv(t, C, n)
  <2>1. C \subseteq C /\ AdmittedOf(C, t.grave) = AdmittedOf(C, s.grave)
    BY <1>1
  <2> QED
    BY <1>1, <1>2, <1>4, <1>5, <1>6, <2>1, RevsCarry
<1> QED
  BY <1>1, <1>2, <1>3, <1>7

\* A ruling writes no revision.
LEMMA RevsRuling ==
    ASSUME NEW s, NEW C, NEW n, RInv(s, C, n), Shaped(s), Kept(s), NEW e
    PROVE  Quiet(s, ApplyRuling(s, e), e, n+1)
<1> DEFINE t == ApplyRuling(s, e)
<1>1. CASE (\E why : t = Grave(s, e, why)) \/ t = Propose(s, e)
  BY <1>1, RevsAside
<1>2. CASE e.op = "vote"
  <2> DEFINE p == s.props[e.ref]
             approves == IF e.ok THEN p.approves \cup ({e.by} \cap p.arbiters) ELSE p.approves
             voted == [s EXCEPT !.props[e.ref].voters = @ \cup {e.by},
                                !.props[e.ref].approves = approves]
  <2>1. \/ \E why : t = Grave(s, e, why)
        \/ t = voted
        \/ t = ApplyOutcome(voted, e.ref) /\ e.ref \in DOMAIN s.props
    BY <1>2 DEF ApplyRuling, Vote
  <2>2. Touches(s, voted, {"props"})
    BY DEF Touches, Shaped, Fields
  <2> HIDE DEF voted, t
  <2>3. CASE t = voted
    <3>1. Touches(s, t, Aside)
      BY <2>2, <2>3 DEF Touches, Aside
    <3>2. StandsBy(s, t, e)
      BY <3>1, AsideStands DEF Shaped
    <3> QED
      BY <3>2, QuietSame DEF StandsBy, t
  <2>4. CASE t = ApplyOutcome(voted, e.ref) /\ e.ref \in DOMAIN s.props
    <3>1. /\ RInv(voted, C, n) /\ Shaped(voted) /\ SameRules(s, voted) /\ Steadfast(s, voted)
          /\ voted.grave = s.grave /\ voted.recs = s.recs
      BY <2>2, RevsButProps
    <3>2. e.ref \in Nat
      BY <2>4 DEF Kept
    <3>3. Quiet(voted, t, e, n+1)
      BY <2>4, <3>1, <3>2, RevsOutcome
    <3>4. Quiet(s, t, e, n+1)
      BY <3>1, <3>3 DEF Quiet, SameRules, Steadfast, Buries
    <3> QED
      BY <3>4 DEF t
  <2> QED
    BY <1>1, <2>1, <2>3, <2>4 DEF t
<1> QED
  BY <1>1, <1>2 DEF ApplyRuling

\* A challenge writes no revision.
LEMMA RevsChallenge ==
    ASSUME NEW s, NEW C, NEW n, RInv(s, C, n), Shaped(s), NEW e
    PROVE  Quiet(s, ApplyChallenge(s, e), e, n+1)
<1> DEFINE key == EntryKeyOfRev(s, e.goal)
           x == [s EXCEPT !.challenges = With(@, e.pin, [rev |-> e.goal, by |-> e.by, entry |-> key])]
           r == RecordAt(s, key)
           q == [r EXCEPT !.disputed = @ \cup {e.goal}]
           t == ApplyChallenge(s, e)
<1>1. (\E why : t = Grave(s, e, why)) \/ t = WithRecord(x, key, q)
  BY DEF ApplyChallenge
<1>2. CASE \E why : t = Grave(s, e, why)
  BY <1>2, RevsAside
<1>3. CASE t = WithRecord(x, key, q)
  <2>1. Touches(s, x, {"challenges"})
    BY DEF Touches
  <2>2. DOMAIN x = Fields /\ x.recs = s.recs /\ x.entries = s.entries
    BY <2>1 DEF Touches, Shaped, Fields
  <2>3. s.entries[key] \in DOMAIN s.recs => Tame(s.recs[s.entries[key]], q, n+1)
    <3> SUFFICES ASSUME s.entries[key] \in DOMAIN s.recs PROVE Tame(r, q, n+1)
      BY DEF RecordAt
    <3>1. RecordInv(r, AdmittedOf(C, s.grave), C, s.params, n) /\ n \in Nat
      BY DEF RInv, ChainInv, RecordAt
    <3>2. DOMAIN r = RecordFields /\ r.history \in Seq(Revs) /\ Len(r.history) <= n+1
      BY <3>1 DEF RecordInv
    <3> HIDE DEF r
    <3>3. /\ DOMAIN q = RecordFields /\ q.weights = r.weights /\ q.history = r.history
          /\ q.status = r.status /\ q.frozenAt = r.frozenAt /\ q.arbiters = r.arbiters
      BY <3>2 DEF RecordFields
    <3> QED
      BY <3>2, <3>3 DEF Tame
  <2> HIDE DEF x, q
  <2>4. Touches(x, t, {"recs"}) /\ t.recs = [x.recs EXCEPT ![x.entries[key]] = q]
    BY <1>3, <2>2, WithRecordDoes DEF Fields
  <2> HIDE DEF t, key
  <2>5. TameRecs(s.recs, t.recs, n+1) /\ DOMAIN t.recs = DOMAIN s.recs
    BY <2>2, <2>3, <2>4, TameOne
  <2>6. SameRules(s, t) /\ Buries(s, t, e) /\ t.entries = s.entries /\ t.eds = s.eds
    BY <2>1, <2>4 DEF Touches, Shaped, Fields, SameRules, Buries
  <2>7. Rooted(t) /\ Steadfast(s, t)
    BY <2>5, <2>6, EditorsHold DEF RInv, Rooted
  <2> QED
    BY <2>5, <2>6, <2>7 DEF Quiet, t
<1> QED
  BY <1>1, <1>2, <1>3

\* Time passes, and no revision is written.
LEMMA RevsClose ==
    ASSUME NEW s, NEW C, NEW n, RInv(s, C, n), Shaped(s), Kept(s), NEW h
    PROVE  RInv(CloseExpired(s, h), C, n)
<1> DEFINE t == CloseExpired(s, h)
<1>1. VoidedIn(s, t, Expired(s, h))
  BY CloseDoes DEF Shaped, Fields, Kept
<1> HIDE DEF t
<1>2. /\ t.grave = s.grave /\ t.entries = s.entries /\ t.eds = s.eds
      /\ SameRules(s, t) /\ DOMAIN t.recs = DOMAIN s.recs
  BY <1>1 DEF VoidedIn, Shaped, Fields, SameRules
<1>3. n \in Nat /\ ChainInv(C, t, n)
  BY <1>2 DEF RInv, ChainInv
<1>4. ASSUME NEW k \in DOMAIN s.recs PROVE Tame(s.recs[k], t.recs[k], n)
  <2> DEFINE r == s.recs[k]
             q == t.recs[k]
  <2>1. RecordInv(r, AdmittedOf(C, s.grave), C, s.params, n)
    BY DEF RInv
  <2>2. Calmed(r, q)
    BY <1>1 DEF VoidedIn
  <2> HIDE DEF r, q
  <2>3. DOMAIN r = RecordFields /\ r.history \in Seq(Revs) /\ Len(r.history) <= n
    BY <2>1 DEF RecordInv
  <2>4. /\ DOMAIN q = RecordFields /\ q.weights = r.weights /\ q.history = r.history
        /\ q.frozenAt = r.frozenAt /\ q.arbiters = r.arbiters
        /\ q.status = "frozen" => r.status = "frozen"
    BY <2>2, <2>3 DEF Calmed, RecordFields
  <2>5. Tame(r, q, n)
    BY <2>3, <2>4 DEF Tame
  <2> QED
    BY <2>5 DEF r, q
<1>5. TameRecs(s.recs, t.recs, n) /\ Rooted(t)
  BY <1>2, <1>4 DEF TameRecs, RInv, Rooted
<1>6. Steadfast(s, t) /\ RevokedInv(t, AdmittedOf(C, t.grave), C)
  <2>1. \A id : EditorOf(t, id) = EditorOf(s, id)
    BY <1>2 DEF EditorOf
  <2> QED
    BY <1>2, <2>1, EditorsHold DEF RInv, RevokedInv
<1>7. (s.params = None => DOMAIN t.recs = {}) /\ AdmittedOf(C, t.grave) = AdmittedOf(C, s.grave)
  BY <1>2 DEF RInv
<1>8. RInv(t, C, n)
  <2>1. C \subseteq C
    OBVIOUS
  <2> QED
    BY <1>2, <1>3, <1>5, <1>6, <1>7, <2>1, RevsCarry
<1> QED
  BY <1>8 DEF t

\* An entry is opened before anything is written to it.
LEMMA RevsOpen ==
    ASSUME NEW s, NEW C, NEW n, RInv(s, C, n), Shaped(s), s.params # None, NEW key
    PROVE  LET o == Opened(s, key)
           IN  /\ RInv(o, C, n) /\ Shaped(o) /\ key \in DOMAIN o.entries
               /\ SameRules(s, o) /\ o.eds = s.eds /\ o.grave = s.grave
<1> DEFINE o == Opened(s, key)
<1>1. Touches(s, o, {"entries", "recs"})
  BY OpenedDoes
<1>2. \/ key \in DOMAIN s.entries /\ o = s
      \/ /\ key \notin DOMAIN s.entries
         /\ o.entries = With(s.entries, key, key) /\ o.recs = With(s.recs, key, NewRecord(key))
  BY DEF Opened, Shaped, Fields
<1> HIDE DEF o
<1>3. DOMAIN o = Fields /\ o.grave = s.grave /\ o.eds = s.eds /\ SameRules(s, o)
  BY <1>1 DEF Touches, Shaped, Fields, SameRules
<1>4. \A id : EditorOf(o, id) = EditorOf(s, id)
  BY <1>3 DEF EditorOf
<1>5. Shaped(o)
  BY <1>3, <1>4 DEF Shaped
<1>6. CASE key \in DOMAIN s.entries /\ o = s
  BY <1>3, <1>5, <1>6 DEF o
<1>7. CASE /\ key \notin DOMAIN s.entries
           /\ o.entries = With(s.entries, key, key) /\ o.recs = With(s.recs, key, NewRecord(key))
  <2>1. n \in Nat /\ ChainInv(C, o, n) /\ n <= n /\ Rooted(s)
    BY <1>3 DEF RInv, ChainInv
  <2>2. TameRecs(s.recs, s.recs, n)
    BY <2>1, SameRecs
  <2>3. key \notin DOMAIN s.recs /\ Fresh(NewRecord(key))
    BY <1>7, <2>1 DEF Rooted, Fresh, NewRecord, RecordFields
  <2>4. TameRecs(s.recs, o.recs, n)
    BY <1>7, <2>2, <2>3 DEF TameRecs, With
  <2>5. Rooted(o) /\ key \in DOMAIN o.entries
    BY <1>7, <2>1 DEF Rooted, With
  <2>6. Steadfast(s, o) /\ RevokedInv(o, AdmittedOf(C, o.grave), C)
    BY <1>3, <1>4, EditorsHold DEF RInv, RevokedInv
  <2>7. C \subseteq C /\ AdmittedOf(C, o.grave) = AdmittedOf(C, s.grave)
    BY <1>3
  <2>8. RInv(o, C, n)
    BY <1>3, <2>1, <2>4, <2>5, <2>6, <2>7, RevsCarry
  <2> QED
    BY <1>3, <1>5, <2>5, <2>8 DEF o
<1> QED
  BY <1>2, <1>6, <1>7

-----------------------------------------------------------------------------
(* The rules of revisions *)

\* Rules of revisions are rules.
LEMMA FirmIs == \A params : Firm(params) => params # None
BY DEF Firm, None

\* Before the genesis nothing is written, and nobody revoked.
LEMMA RevsFound ==
    ASSUME NEW s, NEW C, NEW n, RInv(s, C, n), Shaped(s), Founding(s), s.params = None, NEW e,
           Unique(C, e), e.path = "constitution", Firm(e.params)
    PROVE  RInv(Genesis(s, e), C \cup {e}, n+1)
<1> DEFINE founder == [NewEditor EXCEPT !.founder = TRUE, !.reg = e.h]
           g == Genesis(s, e)
           D == C \cup {e}
           A == AdmittedOf(C, s.grave)
<1>1. /\ g.params = e.params /\ g.founders = e.founders /\ g.recs = s.recs /\ g.entries = s.entries
      /\ g.grave = s.grave /\ g.day = s.day /\ g.eds = Over([id \in e.founders |-> founder], s.eds)
  BY DEF Genesis, Shaped, Fields
<1>2. /\ ChainInv(C, s, n) /\ Rooted(s) /\ PlaceInv(s.recs, A) /\ CountInv(s, A)
      /\ RevokedInv(s, A, C) /\ DOMAIN s.recs = {}
  BY DEF RInv
<1> HIDE DEF g
<1>3. A = {}
  <2> HIDE DEF A
  <2>1. \A pin, k, i : ~Placed(s.recs, pin, k, i)
    BY <1>2 DEF Placed
  <2> QED
    BY <1>2, <2>1 DEF PlaceInv
<1>4. Buries(s, g, e) /\ ~Admits(e, g.grave)
  BY <1>1 DEF Buries, Admits
<1>5. ChainInv(D, g, n+1)
  BY <1>2, <1>4, RevChainGrows
<1>6. AdmittedOf(D, g.grave) = {}
  <2>1. \A f : f \in AdmittedOf(D, g.grave) <=> f \in A
    BY <1>2, <1>4, AdmittedGrow
  <2> HIDE DEF A, D
  <2> QED
    BY <1>3, <2>1
<1>7. \A by, d : Counted(s.day, <<by, d>>) = 0
  <2>1. \A by, d : WrittenOn(A, s, by, d) = {}
    BY <1>3 DEF WrittenOn
  <2> HIDE DEF A
  <2> QED
    BY <1>2, <2>1, FS_EmptySet DEF CountInv
<1>8. CountInv(g, {})
  <2>1. \A by, d : WrittenOn({}, g, by, d) = {}
    BY DEF WrittenOn
  <2>2. g.params.rateG >= 0
    BY <1>1 DEF Firm
  <2> QED
    BY <1>1, <1>7, <2>1, <2>2, FS_EmptySet DEF CountInv
<1>9. DOMAIN s.eds = {}
  BY DEF Founding
<1>10. RevokedInv(g, {}, D)
  <2> SUFFICES ASSUME NEW x \in On(D, "editor", "revoke"), x.pin \notin DOMAIN g.grave PROVE FALSE
    BY DEF RevokedInv
  <2>1. x \in On(C, "editor", "revoke") /\ x.pin \notin DOMAIN s.grave
    BY <1>1 DEF On
  <2>2. EditorOf(s, x.who) = NewEditor
    BY <1>9 DEF EditorOf
  <2> HIDE DEF A
  <2> QED
    BY <1>2, <2>1, <2>2 DEF RevokedInv, NewEditor
<1>11. FounderInv(g)
  <2>1. DOMAIN g.eds = e.founders
    BY <1>1, <1>9 DEF Over
  <2> QED
    BY <1>1, <2>1 DEF FounderInv, EditorOf, NewEditor
<1>12. Rooted(g) /\ DOMAIN g.recs = {} /\ AuthorInv(g, {}) /\ PlaceInv(g.recs, {})
  BY <1>1, <1>2, <1>3 DEF Rooted, AuthorInv
<1>13. g.params # None /\ Firm(g.params)
  BY <1>1, FirmIs
<1> HIDE DEF D
<1> QED
  BY <1>5, <1>6, <1>8, <1>10, <1>11, <1>12, <1>13 DEF RInv, g, D

\* An amendment leaves the rules of revisions as they are.
LEMMA RevsAmend ==
    ASSUME NEW s, NEW C, NEW n, RInv(s, C, n), Shaped(s), s.params # None, NEW params,
           {"rateG", "t0Hours", "t2Days", "warHours", "warT"} \cap DOMAIN params = {}
    PROVE  RInv([s EXCEPT !.params = Over(params, @)], C, n)
<1> DEFINE a == [s EXCEPT !.params = Over(params, @)]
           A == AdmittedOf(C, s.grave)
<1>1. a.params = Over(params, s.params) /\ \A f \in Fields \ {"params"} : a[f] = s[f]
  BY DEF Shaped, Fields
<1> HIDE DEF a
<1>2. /\ a.recs = s.recs /\ a.entries = s.entries /\ a.eds = s.eds /\ a.grave = s.grave
      /\ a.day = s.day /\ a.genesis = s.genesis /\ a.founders = s.founders
  BY <1>1 DEF Fields
<1>3. /\ ChainInv(C, s, n) /\ Rooted(s) /\ PlaceInv(s.recs, A) /\ CountInv(s, A)
      /\ AuthorInv(s, A) /\ RevokedInv(s, A, C) /\ FounderInv(s) /\ Firm(s.params)
      /\ \A k \in DOMAIN s.recs : RecordInv(s.recs[k], A, C, s.params, n)
  BY DEF RInv
<1> HIDE DEF A
<1>4. /\ Firm(a.params)
      /\ \A f \in {"rateG", "t0Hours", "t2Days", "warHours", "warT"} : a.params[f] = s.params[f]
  <2>1. \A f \in {"rateG", "t0Hours", "t2Days", "warHours", "warT"} :
           f \in DOMAIN a.params /\ a.params[f] = s.params[f]
    BY <1>1, <1>3 DEF Over, Firm
  <2> QED
    BY <1>3, <2>1 DEF Firm
<1>5. /\ a.params.rateG = s.params.rateG /\ a.params.t0Hours = s.params.t0Hours
      /\ a.params.warHours = s.params.warHours /\ a.params.warT = s.params.warT
  BY <1>4
<1>6. a.params # None
  BY <1>4, FirmIs
<1>7. \A id : EditorOf(a, id) = EditorOf(s, id)
  BY <1>2 DEF EditorOf
<1>8. ASSUME NEW k \in DOMAIN s.recs PROVE RecordInv(s.recs[k], A, C, a.params, n)
  <2> DEFINE r == s.recs[k]
  <2>1. RecordInv(r, A, C, s.params, n)
    BY <1>3
  <2> HIDE DEF r
  <2>2. \A f : Battles(r, A, f, a.params) = Battles(r, A, f, s.params)
    BY <1>5 DEF Battles
  <2>3. RecordInv(r, A, C, a.params, n)
    BY <1>5, <2>1, <2>2 DEF RecordInv, FairlyFrozen
  <2> QED
    BY <2>3 DEF r
<1>9. CountInv(a, A)
  <2>1. \A by, d : WrittenOn(A, a, by, d) = WrittenOn(A, s, by, d)
    BY <1>2 DEF WrittenOn, DayOf
  <2> QED
    BY <1>2, <1>3, <1>5, <1>6, <2>1, FirmIs DEF CountInv
<1>10. AuthorInv(a, A) /\ RevokedInv(a, A, C) /\ FounderInv(a)
  BY <1>2, <1>3, <1>5, <1>7 DEF AuthorInv, RevokedInv, FounderInv
<1>11. ChainInv(C, a, n) /\ Rooted(a) /\ PlaceInv(a.recs, A) /\ A = AdmittedOf(C, a.grave)
  BY <1>2, <1>3 DEF ChainInv, Rooted, A
<1> QED
  BY <1>2, <1>4, <1>6, <1>8, <1>9, <1>10, <1>11 DEF RInv, a

\* The rules themselves write no revision.
LEMMA RevsRules ==
    ASSUME NEW s, NEW C, NEW n, RInv(s, C, n), MInv(s, C), NEW e,
           Unique(C, e), e.path = "constitution", Unbending(e)
    PROVE  RInv(ApplyConstitution(s, e), C \cup {e}, n+1)
<1> DEFINE D == C \cup {e}
           a == [s EXCEPT !.params = Over(e.params, @)]
           t == ApplyConstitution(s, e)
<1>1. \/ \E why : t = Grave(s, e, why)
      \/ t = Genesis(s, e) /\ e.op = "genesis" /\ s.params = None
      \/ t = a /\ e.op # "genesis" /\ DOMAIN s.votes # {}
  BY DEF ApplyConstitution
<1>2. Shaped(s) /\ Founding(s)
  BY DEF MInv
<1> HIDE DEF t
<1>3. CASE \E why : t = Grave(s, e, why)
  <2>1. Quiet(s, t, e, n+1) /\ t.recs = s.recs
    BY <1>2, <1>3, RevsAside
  <2>2. e.path # "rev" /\ e.path # "editor"
    OBVIOUS
  <2> QED
    BY <2>1, <2>2, RevsQuiet DEF t
<1>4. CASE t = Genesis(s, e) /\ e.op = "genesis" /\ s.params = None
  BY <1>2, <1>4, RevsFound DEF Unbending, t
<1>5. CASE t = a /\ e.op # "genesis" /\ DOMAIN s.votes # {}
  <2>1. Quiet(s, s, e, n+1)
    <3>1. SameRules(s, s) /\ Steadfast(s, s) /\ Buries(s, s, e)
      BY DEF SameRules, Steadfast, Buries
    <3> QED
      BY <3>1, QuietSame
  <2>2. e.path # "rev" /\ e.path # "editor"
    OBVIOUS
  <2>3. RInv(s, D, n+1)
    BY <2>1, <2>2, RevsQuiet
  <2>4. s.params # None
    BY <1>2, <1>5 DEF Founding
  <2>5. {"rateG", "t0Hours", "t2Days", "warHours", "warT"} \cap DOMAIN e.params = {}
    BY <1>5 DEF Unbending
  <2> HIDE DEF D
  <2> QED
    BY <1>2, <1>5, <2>3, <2>4, <2>5, RevsAmend DEF t, D
<1> QED
  BY <1>1, <1>3, <1>4, <1>5

-----------------------------------------------------------------------------
(* A revision and its gates *)

\* What stays of a record that is not frozen by a revision.
SameState(r, q) == q.status = r.status /\ q.frozenAt = r.frozenAt /\ q.arbiters = r.arbiters

\* What a revert weighs in a record, and that it may freeze it.
Weighed(r, q, e, params) ==
    /\ e.op = "revert"
    /\ \E w : /\ w.pin = e.pin /\ w.h = e.h
              /\ q.weights = {v \in r.weights : v.h > e.h - params.warHours * BlocksPerHour} \cup {w}
    /\ \/ SameState(r, q)
       \/ /\ q.frozenAt = e.pin
          /\ 2 * Cardinality(q.weights) - Cardinality({w \in q.weights : w.half}) >= 2 * params.warT

\* What a revision makes of a record.
Takes(r, q, e, params) ==
    /\ DOMAIN q = RecordFields
    /\ \E rev \in Names(e.pin) : q.history = Append(r.history, rev)
    /\ (q.weights = r.weights /\ SameState(r, q)) \/ Weighed(r, q, e, params)

\* What a revision makes of a state.
Writes(s, t, e, r) ==
    /\ Touches(s, t, {"recs", "day", "slugDay", "eds"}) /\ SameStanding(s, t)
    /\ t.day = With(s.day, <<e.by, DayOf(s, e.h)>>, Counted(s.day, <<e.by, DayOf(s, e.h)>>) + 1)
    /\ \E q : Takes(r, q, e, s.params) /\ t.recs = [s.recs EXCEPT ![s.entries[e.entry]] = q]

\* A revision with a new head.
LEMMA HeadedWrites ==
    ASSUME NEW s, Shaped(s), NEW e, NEW r, DOMAIN r = RecordFields, NEW p, DOMAIN p = RecordFields,
           p.history = r.history, p.weights = r.weights, SameState(r, p)
    PROVE  Writes(s, Headed(s, e, p, Rev(e.pin)), e, r)
<1> DEFINE q == [p EXCEPT !.head = Rev(e.pin), !.history = Append(@, Rev(e.pin))]
           x == WithRecord(s, e.entry, q)
           c == CountRev(x, e, p)
<1>1. /\ DOMAIN q = RecordFields /\ q.history = Append(r.history, Rev(e.pin))
      /\ q.weights = r.weights /\ SameState(r, q)
  BY DEF RecordFields, SameState
<1> HIDE DEF q
<1>2. Takes(r, q, e, s.params)
  BY <1>1 DEF Takes, Names
<1>3. Touches(s, x, {"recs"}) /\ x.recs = [s.recs EXCEPT ![s.entries[e.entry]] = q]
  BY WithRecordDoes DEF Shaped, Fields
<1> HIDE DEF x
<1>4. DOMAIN x = Fields /\ x.eds = s.eds /\ x.day = s.day /\ x.genesis = s.genesis
  BY <1>3 DEF Touches, Shaped, Fields
<1>5. Shaped(x) /\ SameStanding(s, x) /\ DayOf(x, e.h) = DayOf(s, e.h)
  BY <1>4, SameEditors DEF Shaped, EditorOf, DayOf
<1>6. /\ Touches(x, c, {"day", "slugDay", "eds"}) /\ SameStanding(x, c)
      /\ c.day = With(x.day, <<e.by, DayOf(x, e.h)>>, Counted(x.day, <<e.by, DayOf(x, e.h)>>) + 1)
  BY <1>5, CountDoes
<1> HIDE DEF c
<1>7. c.recs = x.recs /\ Touches(s, c, {"recs", "day", "slugDay", "eds"})
  BY <1>3, <1>4, <1>6 DEF Touches, Fields
<1>8. SameStanding(s, c)
  BY <1>5, <1>6, StandingMore
<1>9. c.day = With(s.day, <<e.by, DayOf(s, e.h)>>, Counted(s.day, <<e.by, DayOf(s, e.h)>>) + 1)
  BY <1>4, <1>5, <1>6
<1>10. Writes(s, c, e, r)
  BY <1>2, <1>3, <1>7, <1>8, <1>9 DEF Writes
<1> QED
  BY <1>10 DEF Headed, c, x, q

\* A revert that freezes the record, or does not.
LEMMA FoughtDoes ==
    ASSUME NEW r, DOMAIN r = RecordFields, NEW s, NEW e, e.op = "revert", NEW versions
    PROVE  Takes(r, [Fought(s, e, r, Weights(s, e, r)) EXCEPT
                        !.head = Equivalent(e.pin), !.history = Append(@, Equivalent(e.pin)),
                        !.versions = versions], e, s.params)
<1> DEFINE weights == Weights(s, e, r)
           kept == [r EXCEPT !.weights = weights]
           b == Fought(s, e, r, weights)
           q == [b EXCEPT !.head = Equivalent(e.pin), !.history = Append(@, Equivalent(e.pin)),
                          !.versions = versions]
<1>1. \E w : /\ w.pin = e.pin /\ w.h = e.h
             /\ weights = {v \in r.weights : v.h > e.h - s.params.warHours * BlocksPerHour} \cup {w}
  <2> DEFINE w == [pin |-> e.pin, h |-> e.h, by |-> e.by, half |-> WeighsHalf(e, r), vf |-> e.vf]
  <2>1. w.pin = e.pin /\ w.h = e.h
    OBVIOUS
  <2>2. weights = {v \in r.weights : v.h > e.h - s.params.warHours * BlocksPerHour} \cup {w}
    BY DEF Weights
  <2> HIDE DEF w, weights
  <2> QED
    BY <2>1, <2>2
<1> HIDE DEF weights
<1>2. \/ b = kept
      \/ /\ 2 * Cardinality(weights) - Cardinality({w \in weights : w.half}) >= 2 * s.params.warT
         /\ b = [kept EXCEPT !.status = "frozen", !.frozenAt = e.pin, !.base = r.head,
                             !.arbiters = Drawn(s, e.pin, e.h)]
  BY Zenon DEF Fought
<1>3. /\ DOMAIN b = RecordFields /\ b.history = r.history /\ b.weights = weights
      /\ \/ SameState(r, b)
         \/ /\ b.frozenAt = e.pin
            /\ 2 * Cardinality(weights) - Cardinality({w \in weights : w.half}) >= 2 * s.params.warT
  <2>1. CASE b = kept
    BY <2>1 DEF RecordFields, SameState
  <2>2. CASE /\ 2 * Cardinality(weights) - Cardinality({w \in weights : w.half}) >= 2 * s.params.warT
             /\ b = [kept EXCEPT !.status = "frozen", !.frozenAt = e.pin, !.base = r.head,
                                 !.arbiters = Drawn(s, e.pin, e.h)]
    <3> HIDE DEF b
    <3>1. DOMAIN b = RecordFields /\ b.history = r.history /\ b.weights = weights /\ b.frozenAt = e.pin
      BY <2>2 DEF RecordFields
    <3> QED
      BY <2>2, <3>1
  <2> QED
    BY <1>2, <2>1, <2>2
<1> HIDE DEF b
<1>4. /\ DOMAIN q = RecordFields /\ q.history = Append(r.history, Equivalent(e.pin))
      /\ q.weights = weights /\ q.status = b.status /\ q.frozenAt = b.frozenAt
      /\ q.arbiters = b.arbiters
  BY <1>3 DEF RecordFields
<1> HIDE DEF q
<1>5. Weighed(r, q, e, s.params)
  BY <1>1, <1>3, <1>4 DEF Weighed, SameState
<1>6. Takes(r, q, e, s.params)
  BY <1>4, <1>5 DEF Takes, Names
<1> QED
  BY <1>6 DEF q, b, weights

\* What is written or refused of a revision that passed the gates.
LEMMA WrittenDoes ==
    ASSUME NEW s, Shaped(s), NEW e, NEW r, DOMAIN r = RecordFields
    PROVE  LET t == Written(s, e, r)
           IN  (\E why : t = Grave(s, e, why)) \/ (e.op \in RevOps /\ Writes(s, t, e, r))
<1> DEFINE t == Written(s, e, r)
<1>1. CASE e.op = "create"
  <2> DEFINE p == [r EXCEPT !.versions = With(@, Rev(e.pin), Version(e, e.hash))]
  <2>1. (\E why : t = Grave(s, e, why)) \/ t = Headed(s, e, p, Rev(e.pin))
    BY <1>1 DEF Written, Create
  <2>2. DOMAIN p = RecordFields /\ p.history = r.history /\ p.weights = r.weights /\ SameState(r, p)
    BY DEF RecordFields, SameState
  <2> HIDE DEF p, t
  <2> QED
    BY <1>1, <2>1, <2>2, HeadedWrites DEF RevOps, t
<1>2. CASE e.op = "edit"
  <2> DEFINE p == [r EXCEPT !.versions = With(@, Rev(e.pin), Version(e, e.hash)),
                            !.contests = IF e.based \notin {NoRev, r.head}
                                         THEN @ \cup {e.pin} ELSE @]
  <2>1. (\E why : t = Grave(s, e, why)) \/ t = Headed(s, e, p, Rev(e.pin))
    BY <1>2 DEF Written, Edit
  <2>2. DOMAIN p = RecordFields /\ p.history = r.history /\ p.weights = r.weights /\ SameState(r, p)
    BY DEF RecordFields, SameState
  <2> HIDE DEF p, t
  <2> QED
    BY <1>2, <2>1, <2>2, HeadedWrites DEF RevOps, t
<1>3. CASE e.op = "redirect"
  <2> DEFINE p == [r EXCEPT !.redirect = e.to]
  <2>1. (\E why : t = Grave(s, e, why)) \/ t = Headed(s, e, p, Rev(e.pin))
    BY <1>3 DEF Written, Redirect
  <2>2. DOMAIN p = RecordFields /\ p.history = r.history /\ p.weights = r.weights /\ SameState(r, p)
    BY DEF RecordFields, SameState
  <2> HIDE DEF p, t
  <2> QED
    BY <1>3, <2>1, <2>2, HeadedWrites DEF RevOps, t
<1>4. CASE e.op = "revert"
  <2> DEFINE c == CountRev(s, e, r)
             versions == With(Fought(c, e, r, Weights(c, e, r)).versions, Equivalent(e.pin),
                              Version(e, r.versions[e.goal].hash))
             q == [Fought(c, e, r, Weights(c, e, r)) EXCEPT
                     !.head = Equivalent(e.pin), !.history = Append(@, Equivalent(e.pin)),
                     !.versions = versions]
             x == WithRecord(c, e.entry, q)
  <2>1. (\E why : t = Grave(s, e, why)) \/ t = Reverted(c, e, r)
    BY <1>4 DEF Written, Revert
  <2>2. Reverted(c, e, r) = x
    BY DEF Reverted
  <2>3. /\ Touches(s, c, {"day", "slugDay", "eds"}) /\ SameStanding(s, c)
        /\ c.day = With(s.day, <<e.by, DayOf(s, e.h)>>, Counted(s.day, <<e.by, DayOf(s, e.h)>>) + 1)
    BY CountDoes
  <2>4. Takes(r, q, e, c.params)
    <3> HIDE DEF c, versions
    <3> QED
      BY <1>4, FoughtDoes
  <2> HIDE DEF c, q, t
  <2>5. DOMAIN c = Fields /\ c.params = s.params /\ c.recs = s.recs /\ c.entries = s.entries
    BY <2>3 DEF Touches, Shaped, Fields
  <2>6. Touches(c, x, {"recs"}) /\ x.recs = [s.recs EXCEPT ![s.entries[e.entry]] = q]
    BY <2>5, WithRecordDoes DEF Fields
  <2> HIDE DEF x
  <2>7. /\ Touches(s, x, {"recs", "day", "slugDay", "eds"})
        /\ x.day = c.day /\ x.eds = c.eds
    BY <2>3, <2>5, <2>6 DEF Touches, Fields
  <2>8. SameStanding(s, x)
    BY <2>3, <2>7, SameEditors, StandingMore
  <2>9. Writes(s, x, e, r)
    BY <2>3, <2>4, <2>5, <2>6, <2>7, <2>8 DEF Writes
  <2> QED
    BY <1>4, <2>1, <2>2, <2>9 DEF RevOps, t
<1>5. CASE e.op \notin RevOps
  BY <1>5 DEF Written, RevOps
<1> QED
  BY <1>1, <1>2, <1>3, <1>4, <1>5 DEF RevOps

\* Who passes the gates, and what for.
GatePassed(s, e, r) ==
    LET ed == EditorOf(s, e.by)
    IN  /\ ed.reg # NotYet /\ ~ed.revoked
        /\ e.by \notin s.founders => e.h >= ed.reg + s.params.t0Hours * BlocksPerHour
        /\ r.status = "frozen" => e.by \in r.arbiters
        /\ Counted(s.day, <<e.by, DayOf(s, e.h)>>) + 1 <= s.params.rateG

\* The gates are passed by those who are editors, not revoked, for long
\* enough, and within their rate.
LEMMA GatesPass ==
    ASSUME NEW s, NEW e, NEW r, RevGates(s, e, r) = "admitted", FounderInv(s), Firm(s.params),
           e.h \in Nat, e.by \notin s.founders /\ EditorOf(s, e.by).reg # NotYet =>
                           EditorOf(s, e.by).reg \in Nat,
           Counted(s.day, <<e.by, DayOf(s, e.h)>>) \in Nat
    PROVE  GatePassed(s, e, r)
<1> DEFINE ed == EditorOf(s, e.by)
           tier == TierOf(s, e.by, e.h)
           age == e.h - ed.reg
           day == <<e.by, DayOf(s, e.h)>>
           Highest == \/ ed.founder /\ e.h < s.bootEnd
                      \/ age >= s.params.t2Days * BlocksPerDay /\ ed.revs >= s.params.t2Revs
<1>1. /\ tier # "none" /\ tier # "T0"
      /\ r.status = "frozen" => e.by \in r.arbiters
      /\ RateGate(s, day, r.key) = "admitted"
  <2> HIDE DEF tier, day
  <2>1. RevGates(s, e, r) =
          CASE tier = "none" -> "unregistered"
            [] tier = "T0" -> "t0-no-rev"
            [] OTHER ->
                 IF r.status = "frozen" /\ e.by \notin r.arbiters THEN "frozen-unauthorized"
                 ELSE IF r.status = "protected" /\ ~(tier = "T2" /\ EditorOf(s, e.by).rep >= s.params.theta)
                 THEN "protected-unauthorized"
                 ELSE RateGate(s, day, r.key)
    BY Zenon DEF RevGates, tier, day
  <2>2. CASE tier = "none"
    BY <2>1, <2>2
  <2>3. CASE tier = "T0"
    BY <2>1, <2>3
  <2>4. CASE tier # "none" /\ tier # "T0"
    BY <2>1, <2>4
  <2> QED
    BY <2>2, <2>3, <2>4
<1>2. Counted(s.day, day) + 1 <= s.params.rateG
  <2> HIDE DEF day
  <2>1. Counted(s.day, day) + 1 > s.params.rateG => RateGate(s, day, r.key) = "rate-global"
    BY DEF RateGate
  <2>2. s.params.rateG \in Nat
    BY DEF Firm
  <2> QED
    BY <1>1, <2>1, <2>2 DEF day
<1>3. tier = CASE Inactive(ed, e.h) -> "none"
               [] ~Inactive(ed, e.h) /\ Highest -> "T2"
               [] OTHER -> IF age < s.params.t0Hours * BlocksPerHour THEN "T0"
                           ELSE IF ed.revs >= s.params.t1Revs THEN "T1" ELSE "T0+"
  BY Zenon DEF TierOf
<1> HIDE DEF tier
<1>4. ~Inactive(ed, e.h)
  BY <1>1, <1>3
<1>5. ed.reg # NotYet /\ ~ed.revoked
  BY <1>4 DEF Inactive
<1>6. Highest \/ ~(age < s.params.t0Hours * BlocksPerHour)
  <2> HIDE DEF Highest, age
  <2> QED
    BY <1>1, <1>3, <1>4
<1>7. ASSUME e.by \notin s.founders PROVE e.h >= ed.reg + s.params.t0Hours * BlocksPerHour
  <2>1. ~ed.founder /\ ed.reg \in Nat
    BY <1>5, <1>7 DEF FounderInv
  <2>2. age >= s.params.t2Days * BlocksPerDay \/ ~(age < s.params.t0Hours * BlocksPerHour)
    BY <1>6, <2>1
  <2> DEFINE early == s.params.t0Hours * BlocksPerHour
             late == s.params.t2Days * BlocksPerDay
  <2>3. early \in Nat /\ late \in Nat /\ late >= early
    BY AgentpediaAssumption DEF Firm
  <2> HIDE DEF early, late, ed
  <2>4. e.h - ed.reg >= late \/ ~(e.h - ed.reg < early)
    BY <2>2 DEF early, late
  <2>5. e.h >= ed.reg + early
    BY <2>1, <2>3, <2>4
  <2> QED
    BY <2>5 DEF early
<1> QED
  BY <1>1, <1>2, <1>5, <1>7 DEF GatePassed

\* A revision that is written is of nobody else's pin.
LEMMA NewRev ==
    ASSUME NEW s, NEW C, NEW n, RInv(s, C, n), NEW e, Unique(C, e)
    PROVE  /\ \A f \in AdmittedOf(C, s.grave) : f \in C /\ f.pin # e.pin
           /\ \A k, i : ~Placed(s.recs, e.pin, k, i)
           /\ \A k \in DOMAIN s.recs : ~Holds(s.recs[k], e.pin)
<1> DEFINE A == AdmittedOf(C, s.grave)
<1>1. \A f \in A : f \in C /\ f.pin # e.pin
  BY DEF AdmittedOf, Unique
<1>2. PlaceInv(s.recs, A)
  BY DEF RInv
<1> HIDE DEF A
<1>3. \A k, i : ~Placed(s.recs, e.pin, k, i)
  BY <1>1, <1>2 DEF PlaceInv
<1>4. \A k \in DOMAIN s.recs : ~Holds(s.recs[k], e.pin)
  BY <1>3 DEF Placed, Holds
<1> QED
  BY <1>1, <1>3, <1>4 DEF A

\* It leaves other records as they are.
LEMMA OtherRecords ==
    ASSUME NEW r, NEW A, NEW C, NEW params, NEW n \in Nat, RecordInv(r, A, C, params, n), NEW e,
           ~Holds(r, e.pin), NEW B, B = A \cup {e}, NEW D, D = C \cup {e}
    PROVE  RecordInv(r, B, D, params, n+1)
<1>1. WeightsInv(r, B)
  BY DEF RecordInv, WeightsInv
<1>2. \A f : Battles(r, B, f, params) = Battles(r, A, f, params)
  BY DEF Battles
<1>3. On(C, "rev", "revert") \subseteq On(D, "rev", "revert")
  BY DEF On
<1>4. r.status = "frozen" => FairlyFrozen(r, B, D, params)
  BY <1>2, <1>3 DEF RecordInv, FairlyFrozen
<1>5. r.history \in Seq(Revs) => Len(r.history) \in Nat
  OBVIOUS
<1> QED
  BY <1>1, <1>4, <1>5 DEF RecordInv

\* The name of a revision tells its pin.
LEMMA NamesTell ==
    ASSUME NEW pin, NEW name \in Names(pin)
    PROVE  name[1] = pin /\ (pin \in Nat => name \in Revs)
<1>1. name = <<pin, "">> \/ name = <<pin, "eq">>
  BY DEF Names, Rev, Equivalent
<1>2. CASE name = <<pin, "">>
  BY <1>2 DEF Revs
<1>3. CASE name = <<pin, "eq">>
  BY <1>3 DEF Revs
<1> QED
  BY <1>1, <1>2, <1>3

\* A history names what another does, and at its end one more pin.
Longer(old, new, pin) ==
    \A p, i : i \in DOMAIN new /\ new[i] \in Names(p)
                <=> \/ i \in DOMAIN old /\ old[i] \in Names(p)
                    \/ i = Len(old) + 1 /\ p = pin

\* The history of a record that a revision is written to.
LEMMA HistoryGrows ==
    ASSUME NEW r, r.history \in Seq(Revs), NEW pin \in Nat, NEW name \in Names(pin),
           NEW q, q.history = Append(r.history, name)
    PROVE  /\ q.history \in Seq(Revs) /\ Len(q.history) = Len(r.history) + 1
           /\ Len(r.history) \in Nat
           /\ Longer(r.history, q.history, pin)
<1>1. name \in Revs /\ \A p : name \in Names(p) <=> p = pin
  BY NamesTell
<1> DEFINE l == Len(r.history)
<1>2. /\ q.history \in Seq(Revs) /\ Len(q.history) = l + 1 /\ l \in Nat
      /\ DOMAIN r.history = 1 .. l /\ DOMAIN q.history = 1 .. l + 1
      /\ \A i \in 1 .. l : q.history[i] = r.history[i]
      /\ q.history[l + 1] = name
  BY <1>1
<1> HIDE DEF l
<1>3. ASSUME NEW p, NEW i
      PROVE  i \in DOMAIN q.history /\ q.history[i] \in Names(p)
               <=> \/ i \in DOMAIN r.history /\ r.history[i] \in Names(p)
                   \/ i = l + 1 /\ p = pin
  <2>1. i \in DOMAIN q.history <=> i \in DOMAIN r.history \/ i = l + 1
    BY <1>2
  <2>2. i = l + 1 => i \notin DOMAIN r.history /\ (q.history[i] \in Names(p) <=> p = pin)
    BY <1>1, <1>2
  <2>3. i \in DOMAIN r.history => q.history[i] = r.history[i]
    BY <1>2
  <2> QED
    BY <2>1, <2>2, <2>3
<1>4. Longer(r.history, q.history, pin)
  BY <1>3, Zenon DEF Longer, l
<1> QED
  BY <1>2, <1>4 DEF l

\* Enough weights are enough reverts.
LEMMA WeightsAreBattles ==
    ASSUME NEW q, NEW B, IsFiniteSet(B), WeightsInv(q, B), NEW f, NEW params, Firm(params),
           2 * Cardinality(q.weights) - Cardinality({w \in q.weights : w.half}) >= 2 * params.warT,
           \A w \in q.weights : w.h > f.h - params.warHours * BlocksPerHour,
           \A e \in B : ~ChainOrder(f, e)
    PROVE  Cardinality(Battles(q, B, f, params)) >= params.warT
<1> DEFINE W == q.weights
           H == {w \in W : w.half}
           T == Battles(q, B, f, params)
           g == [w \in W |-> CHOOSE e \in B : e.op = "revert" /\ e.pin = w.pin /\ e.h = w.h
                                              /\ Holds(q, e.pin)]
<1>1. IsFiniteSet(W) /\ IsFiniteSet(H) /\ Cardinality(W) \in Nat /\ Cardinality(H) \in Nat
  BY FS_Subset, FS_CardinalityType DEF WeightsInv
<1>2. params.warT \in Nat
  BY DEF Firm
<1>3. Cardinality(W) >= params.warT
  <2> HIDE DEF W, H
  <2>1. 2 * Cardinality(W) - Cardinality(H) >= 2 * params.warT
    BY DEF W, H
  <2> QED
    BY <1>1, <1>2, <2>1
<1>4. IsFiniteSet(T) /\ Cardinality(T) \in Nat
  BY FS_Subset, FS_CardinalityType DEF Battles
<1>5. \A w \in W : /\ g[w] \in B /\ g[w].op = "revert" /\ g[w].pin = w.pin /\ g[w].h = w.h
                   /\ Holds(q, g[w].pin)
  BY Zenon DEF WeightsInv
<1> HIDE DEF g
<1>6. \A w \in W : g[w] \in T
  BY <1>5 DEF Battles
<1>7. \A v, w \in W : g[v] = g[w] => v = w
  BY <1>5 DEF WeightsInv
<1>8. g \in [W -> T]
  <2> HIDE DEF W, T
  <2> QED
    BY <1>6 DEF g, W
<1>9. g \in Injection(W, T)
  BY <1>7, <1>8 DEF Injection, IsInjective
<1>10. Cardinality(W) <= Cardinality(T)
  BY <1>4, <1>9, FS_Injection
<1> HIDE DEF W, T
<1>11. Cardinality(T) >= params.warT
  BY <1>1, <1>2, <1>3, <1>4, <1>10
<1> QED
  BY <1>11 DEF T

\* What a record that a revision is written to holds.
LEMMA HoldsMore ==
    ASSUME NEW r, r.history \in Seq(Revs), NEW e, e.pin \in Nat, NEW q, NEW params, Takes(r, q, e, params)
    PROVE  /\ q.history \in Seq(Revs) /\ Len(q.history) = Len(r.history) + 1
           /\ Len(r.history) \in Nat
           /\ Longer(r.history, q.history, e.pin)
           /\ \A p : Holds(q, p) <=> Holds(r, p) \/ p = e.pin
<1>1. PICK rev \in Names(e.pin) : q.history = Append(r.history, rev)
  BY DEF Takes
<1>2. /\ q.history \in Seq(Revs) /\ Len(q.history) = Len(r.history) + 1
      /\ Len(r.history) \in Nat
      /\ Longer(r.history, q.history, e.pin)
  BY <1>1, HistoryGrows
<1>3. \A p : Holds(q, p) <=> Holds(r, p) \/ p = e.pin
  BY <1>2, Zenon DEF Holds, Longer
<1> QED
  BY <1>2, <1>3

\* A revision leaves a record what it should be.
LEMMA RecordTaken ==
    ASSUME NEW r, NEW A, NEW C, NEW params, NEW n \in Nat, RecordInv(r, A, C, params, n), NEW e,
           Unique(C, e), IsFiniteSet(C), e.path = "rev", NEW q, Takes(r, q, e, params), Firm(params),
           \A f \in A : f \in C /\ f.pin # e.pin, r.status = "frozen" => e.by \in r.arbiters,
           NEW B, B = A \cup {e}, NEW D, D = C \cup {e}
    PROVE  RecordInv(q, B, D, params, n+1)
<1>1. r.history \in Seq(Revs) /\ Len(r.history) <= n /\ WeightsInv(r, A) /\ e.pin \in Nat
  BY DEF RecordInv, Unique, Comes
<1>2. /\ q.history \in Seq(Revs) /\ Len(q.history) = Len(r.history) + 1
      /\ Len(r.history) \in Nat
      /\ \A p : Holds(q, p) <=> Holds(r, p) \/ p = e.pin
  BY <1>1, HoldsMore
<1>3. DOMAIN q = RecordFields /\ q.history \in Seq(Revs) /\ Len(q.history) <= n+1
  BY <1>1, <1>2 DEF Takes
<1>4. \A f \in B : ~ChainOrder(e, f)
  BY DEF Unique, Comes, ChainOrder
<1>5. WeightsInv(q, B)
  <2>1. CASE q.weights = r.weights
    BY <1>1, <1>2, <2>1 DEF WeightsInv
  <2>2. CASE Weighed(r, q, e, params)
    <3> DEFINE kept == {v \in r.weights : v.h > e.h - params.warHours * BlocksPerHour}
    <3>1. PICK w : w.pin = e.pin /\ w.h = e.h /\ q.weights = kept \cup {w}
      BY <2>2 DEF Weighed
    <3>2. IsFiniteSet(kept) /\ kept \subseteq r.weights
      BY <1>1, FS_Subset DEF WeightsInv
    <3> HIDE DEF kept
    <3>3. IsFiniteSet(q.weights)
      BY <3>1, <3>2, FS_AddElement
    <3>4. \A v \in kept : v.pin # e.pin /\ \E f \in B : /\ f.op = "revert" /\ f.pin = v.pin /\ f.h = v.h
                                                       /\ Holds(q, f.pin)
      BY <1>1, <1>2, <3>2 DEF WeightsInv
    <3>5. e \in B /\ e.op = "revert" /\ Holds(q, e.pin)
      BY <1>2, <2>2 DEF Weighed
    <3>6. \A v, x \in kept : v.pin = x.pin => v = x
      BY <1>1, <3>2 DEF WeightsInv
    <3>7. \A v \in q.weights : \E f \in B : /\ f.op = "revert" /\ f.pin = v.pin /\ f.h = v.h
                                            /\ Holds(q, f.pin)
      BY <3>1, <3>4, <3>5
    <3>8. \A v, x \in q.weights : v.pin = x.pin => v = x
      BY <3>1, <3>4, <3>6
    <3> QED
      BY <3>3, <3>7, <3>8 DEF WeightsInv
  <2> QED
    BY <2>1, <2>2 DEF Takes
<1>6. ASSUME SameState(r, q), q.status = "frozen" PROVE FairlyFrozen(q, B, D, params)
  <2>1. FairlyFrozen(r, A, C, params) /\ e.by \in r.arbiters
    BY <1>6 DEF RecordInv, SameState
  <2>2. PICK f \in On(C, "rev", "revert") :
           /\ f.pin = r.frozenAt
           /\ Cardinality(Battles(r, A, f, params)) >= params.warT
           /\ \A x \in A : Holds(r, x.pin) /\ ChainOrder(f, x) => x.by \in r.arbiters
    BY <2>1 DEF FairlyFrozen
  <2>3. f \in On(D, "rev", "revert") /\ f.pin = q.frozenAt /\ ChainOrder(f, e)
    BY <1>6, <2>2 DEF On, SameState, Unique, Comes
  <2>4. Battles(q, B, f, params) = Battles(r, A, f, params)
    BY <1>2, <2>3 DEF Battles
  <2>5. \A x \in B : Holds(q, x.pin) /\ ChainOrder(f, x) => x.by \in q.arbiters
    BY <1>2, <1>6, <2>1, <2>2 DEF SameState
  <2> QED
    BY <2>2, <2>3, <2>4, <2>5 DEF FairlyFrozen
<1>7. ASSUME Weighed(r, q, e, params), ~SameState(r, q) PROVE FairlyFrozen(q, B, D, params)
  <2>1. /\ e.op = "revert" /\ q.frozenAt = e.pin
        /\ 2 * Cardinality(q.weights) - Cardinality({w \in q.weights : w.half}) >= 2 * params.warT
    BY <1>7 DEF Weighed
  <2>2. e \in On(D, "rev", "revert")
    BY <2>1 DEF On
  <2>3. \A w \in q.weights : w.h > e.h - params.warHours * BlocksPerHour
    <3>1. e.h > e.h - params.warHours * BlocksPerHour
      <4>1. params.warHours \in Nat \ {0} /\ BlocksPerHour \in Nat \ {0} /\ e.h \in Nat
        BY AgentpediaAssumption DEF Firm, Unique, Comes
      <4>2. params.warHours * BlocksPerHour > 0
        BY <4>1
      <4> DEFINE span == params.warHours * BlocksPerHour
      <4>3. span \in Nat
        BY <4>1
      <4> HIDE DEF span
      <4>4. span > 0
        BY <4>2 DEF span
      <4>5. e.h > e.h - span
        BY <4>1, <4>3, <4>4
      <4> QED
        BY <4>5 DEF span
    <3> QED
      BY <1>7, <3>1 DEF Weighed
  <2>4. IsFiniteSet(B)
    <3>1. B \subseteq D /\ IsFiniteSet(D)
      BY FS_AddElement
    <3> QED
      BY <3>1, FS_Subset
  <2>5. Cardinality(Battles(q, B, e, params)) >= params.warT
    BY <1>4, <1>5, <2>1, <2>3, <2>4, WeightsAreBattles
  <2> QED
    BY <1>4, <2>1, <2>2, <2>5 DEF FairlyFrozen
<1>8. q.status = "frozen" => FairlyFrozen(q, B, D, params)
  BY <1>6, <1>7 DEF Takes
<1> QED
  BY <1>3, <1>5, <1>8 DEF RecordInv

\* Where the revisions of a chain are, with one more.
LEMMA PlacesGrow ==
    ASSUME NEW recs, NEW A, PlaceInv(recs, A), NEW k \in DOMAIN recs, NEW q, NEW e,
           \A l, i : ~Placed(recs, e.pin, l, i), Longer(recs[k].history, q.history, e.pin),
           NEW B, B = A \cup {e}
    PROVE  PlaceInv([recs EXCEPT ![k] = q], B)
<1> DEFINE more == [recs EXCEPT ![k] = q]
           m == Len(recs[k].history) + 1
<1>1. DOMAIN more = DOMAIN recs /\ more[k] = q /\ \A l \in DOMAIN recs : l # k => more[l] = recs[l]
  OBVIOUS
<1> HIDE DEF more, m
<1>2. \A p, l, i : Placed(more, p, l, i) <=> Placed(recs, p, l, i) \/ (p = e.pin /\ l = k /\ i = m)
  <2> TAKE p, l, i
  <2>1. CASE l = k
    BY <1>1, <2>1, Zenon DEF Placed, Longer, m
  <2>2. CASE l # k
    BY <1>1, <2>2 DEF Placed
  <2> QED
    BY <2>1, <2>2
<1>3. ASSUME NEW p PROVE (\E l, i : Placed(more, p, l, i)) <=> \E f \in B : f.pin = p
  <2>1. (\E l, i : Placed(recs, p, l, i)) <=> \E f \in A : f.pin = p
    BY DEF PlaceInv
  <2> QED
    BY <1>2, <2>1
<1>4. ASSUME NEW p, NEW l, NEW i, NEW j, NEW o, Placed(more, p, l, i), Placed(more, p, j, o)
      PROVE  l = j /\ i = o
  BY <1>2, <1>4 DEF PlaceInv
<1>5. PlaceInv(more, B)
  BY <1>3, <1>4, Zenon DEF PlaceInv
<1> QED
  BY <1>5 DEF more

\* The day of an editor is counted.
LEMMA CountsGrow ==
    ASSUME NEW s, NEW A, CountInv(s, A), IsFiniteSet(A), NEW e, e \notin A, NEW t,
           t.genesis = s.genesis, t.params = s.params,
           t.day = With(s.day, <<e.by, DayOf(s, e.h)>>, Counted(s.day, <<e.by, DayOf(s, e.h)>>) + 1),
           Counted(s.day, <<e.by, DayOf(s, e.h)>>) + 1 <= s.params.rateG,
           NEW B, B = A \cup {e}
    PROVE  CountInv(t, B)
<1> SUFFICES ASSUME NEW by, NEW d
             PROVE  /\ Counted(t.day, <<by, d>>) = Cardinality(WrittenOn(B, t, by, d))
                    /\ t.params # None => Counted(t.day, <<by, d>>) <= t.params.rateG
  BY DEF CountInv
<1> DEFINE k == <<by, d>>
           on == <<e.by, DayOf(s, e.h)>>
<1>1. \A f, x : Counted(With(s.day, on, x), f) = IF f = on THEN x ELSE Counted(s.day, f)
  BY DEF Counted, With
<1>2. /\ Counted(s.day, k) = Cardinality(WrittenOn(A, s, by, d))
      /\ s.params # None => Counted(s.day, k) <= s.params.rateG
  BY DEF CountInv
<1>3. DayOf(t, e.h) = DayOf(s, e.h) /\ \A f : DayOf(t, f.h) = DayOf(s, f.h)
  BY DEF DayOf
<1>4. CASE by = e.by /\ d = DayOf(s, e.h)
  <2>1. Counted(t.day, k) = Counted(s.day, k) + 1
    BY <1>1, <1>4
  <2>2. WrittenOn(B, t, by, d) = WrittenOn(A, s, by, d) \cup {e} /\ e \notin WrittenOn(A, s, by, d)
    BY <1>3, <1>4 DEF WrittenOn
  <2>3. IsFiniteSet(WrittenOn(A, s, by, d))
    BY FS_Subset DEF WrittenOn
  <2>4. Cardinality(WrittenOn(B, t, by, d)) = Cardinality(WrittenOn(A, s, by, d)) + 1
    BY <2>2, <2>3, FS_AddElement
  <2>5. Counted(s.day, k) + 1 <= s.params.rateG
    BY <1>4
  <2> QED
    BY <1>2, <2>1, <2>4, <2>5
<1>5. CASE ~(by = e.by /\ d = DayOf(s, e.h))
  <2>1. k # on
    BY <1>5
  <2>2. Counted(t.day, k) = Counted(s.day, k)
    BY <1>1, <2>1
  <2>3. WrittenOn(B, t, by, d) = WrittenOn(A, s, by, d)
    BY <1>3, <1>5 DEF WrittenOn
  <2> QED
    BY <1>2, <2>2, <2>3
<1> QED
  BY <1>4, <1>5

-----------------------------------------------------------------------------
(* Revisions are admitted *)

\* A revision that passed the gates keeps the invariant.
LEMMA RevsAdmit ==
    ASSUME NEW s, NEW C, NEW n, RInv(s, C, n), Shaped(s), Firm(s.params), NEW e, Unique(C, e),
           e.path = "rev", e.op \in RevOps, s.entries[e.entry] \in DOMAIN s.recs,
           NEW t, Writes(s, t, e, s.recs[s.entries[e.entry]]),
           GatePassed(s, e, s.recs[s.entries[e.entry]])
    PROVE  RInv(t, C \cup {e}, n+1)
<1> DEFINE k == s.entries[e.entry]
           r == s.recs[k]
           D == C \cup {e}
           A == AdmittedOf(C, s.grave)
           B == A \cup {e}
<1>1. /\ ChainInv(C, s, n) /\ n \in Nat /\ IsFiniteSet(C) /\ Rooted(s) /\ PlaceInv(s.recs, A)
      /\ CountInv(s, A) /\ AuthorInv(s, A) /\ RevokedInv(s, A, C) /\ FounderInv(s)
      /\ \A l \in DOMAIN s.recs : RecordInv(s.recs[l], A, C, s.params, n)
  BY DEF RInv, ChainInv
<1>2. /\ \A f \in A : f \in C /\ f.pin # e.pin
      /\ \A l, i : ~Placed(s.recs, e.pin, l, i)
      /\ \A l \in DOMAIN s.recs : ~Holds(s.recs[l], e.pin)
  BY NewRev
<1>3. /\ Touches(s, t, {"recs", "day", "slugDay", "eds"}) /\ SameStanding(s, t)
      /\ t.day = With(s.day, <<e.by, DayOf(s, e.h)>>, Counted(s.day, <<e.by, DayOf(s, e.h)>>) + 1)
  BY DEF Writes
<1>4. PICK q : Takes(r, q, e, s.params) /\ t.recs = [s.recs EXCEPT ![k] = q]
  BY DEF Writes
<1>5. /\ t.params = s.params /\ t.genesis = s.genesis /\ t.founders = s.founders
      /\ t.grave = s.grave /\ t.entries = s.entries
  BY <1>3 DEF Touches, Shaped, Fields
<1>6. /\ EditorOf(s, e.by).reg # NotYet /\ ~EditorOf(s, e.by).revoked
      /\ e.by \notin s.founders => e.h >= EditorOf(s, e.by).reg + s.params.t0Hours * BlocksPerHour
      /\ r.status = "frozen" => e.by \in r.arbiters
      /\ Counted(s.day, <<e.by, DayOf(s, e.h)>>) + 1 <= s.params.rateG
  BY DEF GatePassed
<1>7. Buries(s, t, e) /\ Admits(e, t.grave)
  <2>1. e.pin \notin DOMAIN s.grave
    BY <1>1 DEF ChainInv, Unique
  <2> QED
    BY <1>5, <2>1 DEF Buries, Admits
<1>8. ChainInv(D, t, n+1)
  BY <1>1, <1>7, RevChainGrows
<1>9. AdmittedOf(D, t.grave) = B
  <2>1. \A f : f \in AdmittedOf(D, t.grave) <=> f \in A \/ f = e
    BY <1>1, <1>7, AdmittedGrow
  <2> HIDE DEF A, D
  <2> QED
    BY <2>1
<1>10. k \in DOMAIN s.recs /\ RecordInv(r, A, C, s.params, n)
  BY <1>1
<1> HIDE DEF k, r, D, A, B
<1>11. RecordInv(q, B, D, t.params, n+1)
  <2>1. B = A \cup {e} /\ D = C \cup {e}
    BY DEF B, D
  <2> QED
    BY <1>1, <1>2, <1>4, <1>5, <1>6, <1>10, <2>1, RecordTaken
<1>12. ASSUME NEW l \in DOMAIN t.recs PROVE RecordInv(t.recs[l], B, D, t.params, n+1)
  <2>1. CASE l = k
    BY <1>4, <1>10, <1>11, <2>1
  <2>2. CASE l # k
    <3>1. l \in DOMAIN s.recs /\ t.recs[l] = s.recs[l] /\ B = A \cup {e} /\ D = C \cup {e}
      BY <1>4, <2>2 DEF B, D
    <3> QED
      BY <1>1, <1>2, <1>5, <3>1, OtherRecords
  <2> QED
    BY <2>1, <2>2
<1>13. PlaceInv(t.recs, B)
  <2>1. r.history \in Seq(Revs) /\ e.pin \in Nat
    BY <1>10 DEF RecordInv, Unique, Comes
  <2>2. Longer(r.history, q.history, e.pin)
    BY <1>4, <2>1, HoldsMore
  <2>3. Longer(s.recs[k].history, q.history, e.pin) /\ B = A \cup {e}
    BY <2>2 DEF r, B
  <2>4. PlaceInv([s.recs EXCEPT ![k] = q], B)
    BY <1>1, <1>2, <1>10, <2>3, PlacesGrow
  <2> QED
    BY <1>4, <2>4
<1>14. CountInv(t, B)
  <2>1. IsFiniteSet(A) /\ e \notin A /\ B = A \cup {e}
    <3>1. A \subseteq C /\ e \notin A
      BY <1>2
    <3> QED
      BY <1>1, <3>1, FS_Subset DEF B
  <2> QED
    BY <1>1, <1>3, <1>5, <1>6, <2>1, CountsGrow
<1>15. \A id : /\ EditorOf(t, id).reg = EditorOf(s, id).reg
               /\ EditorOf(t, id).revoked = EditorOf(s, id).revoked
               /\ EditorOf(t, id).founder = EditorOf(s, id).founder
  BY <1>3 DEF SameStanding, Stands, Shaped, EditorFields
<1>16. AuthorInv(t, B)
  BY <1>1, <1>5, <1>6, <1>15 DEF AuthorInv, B
<1>17. RevokedInv(t, B, D)
  <2> SUFFICES ASSUME NEW x \in On(D, "editor", "revoke"), x.pin \notin DOMAIN t.grave
               PROVE  EditorOf(t, x.who).revoked /\ \A f \in B : f.by = x.who => ~ChainOrder(x, f)
    BY DEF RevokedInv
  <2>1. x \in On(C, "editor", "revoke") /\ x.pin \notin DOMAIN s.grave
    BY <1>5 DEF On, D
  <2>2. EditorOf(s, x.who).revoked /\ \A f \in A : f.by = x.who => ~ChainOrder(x, f)
    BY <1>1, <2>1 DEF RevokedInv
  <2> QED
    BY <1>6, <1>15, <2>2 DEF B
<1>18. FounderInv(t)
  BY <1>1, <1>5, <1>15 DEF FounderInv
<1>19. Rooted(t)
  BY <1>1, <1>4, <1>5 DEF Rooted
<1>20. Firm(t.params) /\ t.params # None
  BY <1>5, FirmIs
<1>21. RInv(t, D, n+1)
  BY <1>8, <1>9, <1>12, <1>13, <1>14, <1>16, <1>17, <1>18, <1>19, <1>20 DEF RInv
<1> QED
  BY <1>21 DEF D

\* A pin that is refused is in the graveyard.
LEMMA GraveHolds ==
    ASSUME NEW s, Shaped(s), NEW e, NEW why
    PROVE  e.pin \in DOMAIN Grave(s, e, why).grave
<1>1. Grave(s, e, why).grave = With(s.grave, e.pin, why)
  BY GraveDoes DEF Shaped, Fields
<1> QED
  BY <1>1 DEF With

\* A revision is admitted or refused.
LEMMA RevsRev ==
    ASSUME NEW s, NEW C, NEW n, RInv(s, C, n), MInv(s, C), s.params # None, NEW e, Unique(C, e),
           e.path = "rev"
    PROVE  RInv(ApplyRev(s, e), C \cup {e}, n+1)
<1> DEFINE o == Opened(s, e.entry)
           r == RecordAt(o, e.entry)
           t == ApplyRev(s, e)
<1>1. Shaped(s)
  BY DEF MInv
<1>2. /\ RInv(o, C, n) /\ Shaped(o) /\ e.entry \in DOMAIN o.entries
      /\ SameRules(s, o) /\ o.eds = s.eds /\ o.grave = s.grave
  BY <1>1, RevsOpen
<1>3. t = Gated(o, e, r)
  BY DEF ApplyRev
<1> HIDE DEF o, t
<1>4. o.params # None /\ Firm(o.params) /\ FounderInv(o) /\ ChainInv(C, o, n) /\ Rooted(o)
  BY <1>2 DEF RInv, SameRules
<1>5. r = o.recs[o.entries[e.entry]] /\ o.entries[e.entry] \in DOMAIN o.recs
  BY <1>2, <1>4 DEF RecordAt, Rooted
<1>6. DOMAIN r = RecordFields
  BY <1>2, <1>5 DEF RInv, RecordInv
<1> HIDE DEF r
<1>7. CASE \E why : t = Grave(o, e, why)
  <2>1. Quiet(o, t, e, n+1)
    BY <1>2, <1>7, RevsAside
  <2>2. e.pin \in DOMAIN t.grave
    BY <1>2, <1>7, GraveHolds
  <2> QED
    BY <1>2, <1>4, <2>1, <2>2, RevsQuiet DEF t
<1>8. CASE RevGates(o, e, r) = "admitted" /\ t = Written(o, e, r)
  <2>1. e.h \in Nat
    BY DEF Unique, Comes
  <2>2. e.by \notin o.founders /\ EditorOf(o, e.by).reg # NotYet => EditorOf(o, e.by).reg \in Nat
    <3> SUFFICES ASSUME e.by \notin s.founders, EditorOf(s, e.by).reg # NotYet
                 PROVE  EditorOf(s, e.by).reg \in Nat
      BY <1>2 DEF SameRules, EditorOf
    <3>1. Earned(C, EditorOf(s, e.by), e.by, s.bootEnd)
      BY DEF MInv
    <3> QED
      BY <1>4, <3>1 DEF Earned, ChainInv
  <2>3. Counted(o.day, <<e.by, DayOf(o, e.h)>>) \in Nat
    <3> DEFINE A == AdmittedOf(C, o.grave)
               W == WrittenOn(A, o, e.by, DayOf(o, e.h))
    <3>1. W \subseteq C /\ IsFiniteSet(C)
      BY <1>4 DEF ChainInv, WrittenOn, AdmittedOf
    <3>2. CountInv(o, A)
      BY <1>2 DEF RInv
    <3>3. Counted(o.day, <<e.by, DayOf(o, e.h)>>) = Cardinality(W)
      BY <3>2 DEF CountInv
    <3> HIDE DEF W
    <3> QED
      BY <3>1, <3>3, FS_Subset, FS_CardinalityType
  <2>4. GatePassed(o, e, r)
    BY <1>4, <1>8, <2>1, <2>2, <2>3, GatesPass
  <2>5. (\E why : t = Grave(o, e, why)) \/ (e.op \in RevOps /\ Writes(o, t, e, r))
    BY <1>2, <1>6, <1>8, WrittenDoes
  <2>6. ASSUME e.op \in RevOps, Writes(o, t, e, r) PROVE RInv(t, C \cup {e}, n+1)
    BY <1>2, <1>4, <1>5, <2>4, <2>6, RevsAdmit
  <2> QED
    BY <1>7, <2>5, <2>6 DEF t
<1> QED
  BY <1>3, <1>7, <1>8 DEF Gated

\* Applying a pin keeps the invariant of revisions.
LEMMA RevsApply ==
    ASSUME NEW s_, NEW C, NEW n, MInv(s_, C), RInv(s_, C, n), NEW e, Unique(C, e), Unbending(e)
    PROVE  RInv(Apply(s_, e), C \cup {e}, n+1)
<1> DEFINE D == C \cup {e}
           s == CloseExpired(s_, e.h)
           t == Apply(s_, e)
<1> SUFFICES RInv(t, D, n+1)
  OBVIOUS
<1>1. MInv(s, C)
  BY MembersClose
<1>2. RInv(s, C, n)
  BY RevsClose DEF MInv
<1>3. \/ e.path = "constitution" /\ t = ApplyConstitution(s, e)
      \/ \E why : t = Grave(s, e, why)
      \/ /\ s.params # None
         /\ \/ e.path = "editor" /\ t = ApplyEditor(s, e)
            \/ e.path = "review" /\ t = ApplyReview(s, e)
            \/ e.path = "challenge" /\ t = ApplyChallenge(s, e)
            \/ e.path = "ruling" /\ t = ApplyRuling(s, e)
            \/ e.path = "param-proposal" /\ t = ApplyParamProposal(s, e)
            \/ e.path = "rev" /\ t = ApplyRev(s, e)
  <2>1. t = Dispatch(s, e)
    BY DEF Apply
  <2> HIDE DEF s
  <2> DEFINE inner == CASE e.path = "editor" -> ApplyEditor(s, e)
                        [] e.path = "review" -> ApplyReview(s, e)
                        [] e.path = "challenge" -> ApplyChallenge(s, e)
                        [] e.path = "ruling" -> ApplyRuling(s, e)
                        [] e.path = "param-proposal" -> ApplyParamProposal(s, e)
                        [] e.path = "rev" -> ApplyRev(s, e)
                        [] OTHER -> Grave(s, e, "unknown-path")
  <2>2. Dispatch(s, e) = CASE e.path = "constitution" -> ApplyConstitution(s, e)
                           [] e.path # "constitution" /\ s.params = None -> Grave(s, e, "no-genesis")
                           [] OTHER -> inner
    BY Zenon DEF Dispatch
  <2>3. \/ e.path = "editor" /\ inner = ApplyEditor(s, e)
        \/ e.path = "review" /\ inner = ApplyReview(s, e)
        \/ e.path = "challenge" /\ inner = ApplyChallenge(s, e)
        \/ e.path = "ruling" /\ inner = ApplyRuling(s, e)
        \/ e.path = "param-proposal" /\ inner = ApplyParamProposal(s, e)
        \/ e.path = "rev" /\ inner = ApplyRev(s, e)
        \/ inner = Grave(s, e, "unknown-path")
    OBVIOUS
  <2> HIDE DEF inner, t
  <2> QED
    BY <2>1, <2>2, <2>3
<1> HIDE DEF t, s
<1>4. Shaped(s) /\ Kept(s)
  BY <1>1 DEF MInv
<1>5. CASE e.path = "constitution" /\ t = ApplyConstitution(s, e)
  BY <1>1, <1>2, <1>5, RevsRules
<1>6. CASE \E why : t = Grave(s, e, why)
  <2>1. Quiet(s, t, e, n+1) /\ t.recs = s.recs
    BY <1>2, <1>4, <1>6, RevsAside
  <2>2. e.pin \in DOMAIN t.grave
    BY <1>4, <1>6, GraveHolds
  <2> QED
    BY <1>2, <2>1, <2>2, RevsQuiet
<1>7. ASSUME e.path \notin {"rev", "editor"}, s.params # None, Quiet(s, t, e, n+1) PROVE RInv(t, D, n+1)
  BY <1>2, <1>7, RevsQuiet
<1>8. CASE e.path = "editor" /\ t = ApplyEditor(s, e)
  <2>1. Quiet(s, t, e, n+1) /\ t.recs = s.recs
        /\ (e.op = "revoke" /\ e.pin \notin DOMAIN t.grave => EditorOf(t, e.who).revoked)
    BY <1>2, <1>4, <1>8, RevsEditor
  <2> QED
    BY <1>2, <1>8, <2>1, RevsQuiet
<1>9. CASE \/ e.path = "review" /\ t = ApplyReview(s, e)
           \/ e.path = "param-proposal" /\ t = ApplyParamProposal(s, e)
  <2>1. Quiet(s, t, e, n+1) /\ t.recs = s.recs
    BY <1>2, <1>4, <1>9, RevsAside
  <2> QED
    BY <1>2, <1>9, <2>1, RevsQuiet
<1>10. CASE e.path = "challenge" /\ t = ApplyChallenge(s, e) /\ s.params # None
  BY <1>2, <1>4, <1>7, <1>10, RevsChallenge
<1>11. CASE e.path = "ruling" /\ t = ApplyRuling(s, e) /\ s.params # None
  BY <1>2, <1>4, <1>7, <1>11, RevsRuling
<1>12. CASE e.path = "rev" /\ t = ApplyRev(s, e) /\ s.params # None
  BY <1>1, <1>2, <1>12, RevsRev
<1> QED
  BY <1>3, <1>5, <1>6, <1>8, <1>9, <1>10, <1>11, <1>12

-----------------------------------------------------------------------------
(* The chain and its revisions *)

FirmInv == \A t \in Range(todo) : Unbending(t)

RevInv == MembersInv /\ FirmInv /\ RInv(state, Confirmed, Len(chain))

\* The revisions of the state are those of the chain.
LEMMA RevsKept == ASSUME RevInv, [Next]_vars PROVE RevInv'
<1>1. MembersInv' /\ AInv /\ LogInv /\ TodoInv
  BY MembersKept DEF RevInv, MembersInv, AInv
<1>2. CASE Mine \/ MineLate \/ MineEarly
  <2>1. PICK k \in 1 .. Len(todo), more \in Nat : Add(Mined(todo[k], more))
    BY <1>1, <1>2, MineTakes
  <2>2. FirmInv'
    BY <1>1, <1>2, MineTakes DEF RevInv, FirmInv, Unbending, Firm
  <2> DEFINE m == Mined(todo[k], more)
  <2>3. /\ Comes(Confirmed, m) /\ Confirmed' = Confirmed \cup {m} /\ state' = Apply(state, m)
        /\ \A f \in DOMAIN todo[k] \ {"h", "tx"} : m[f] = todo[k][f]
        /\ chain' = Append(chain, m)
    BY <1>1, <2>1, ChainGrows
  <2> HIDE DEF m
  <2>4. todo[k] \in Range(todo) /\ {"pin", "path", "op", "params"} \subseteq DOMAIN todo[k]
    BY <1>1 DEF RevInv, MembersInv, TodoInv, StoryInv, Range
  <2>5. /\ m.path = todo[k].path /\ m.op = todo[k].op /\ m.params = todo[k].params
        /\ m.pin = todo[k].pin
    BY <2>3, <2>4
  <2>6. Unbending(m) /\ Unique(Confirmed, m)
    BY <1>1, <2>3, <2>4, <2>5 DEF RevInv, FirmInv, Unbending, TodoInv, Unique
  <2>7. Len(chain') = Len(chain) + 1
    BY <1>1, <2>3 DEF LogInv
  <2>8. MInv(state, Confirmed) /\ RInv(state, Confirmed, Len(chain))
    BY DEF RevInv, MembersInv
  <2>9. RInv(state', Confirmed', Len(chain'))
    BY <2>3, <2>6, <2>7, <2>8, RevsApply
  <2>10. RInv(state, Confirmed, Len(chain))'
    BY <2>9
  <2> QED
    BY <1>1, <2>2, <2>10 DEF RevInv
<1>3. CASE ~(Mine \/ MineLate \/ MineEarly)
  <2>1. chain' = chain /\ state' = state /\ Range(todo') \subseteq Range(todo)
    BY <1>1, <1>3, ChainWaits
  <2>2. Confirmed' = Confirmed /\ Len(chain') = Len(chain)
    BY <2>1 DEF Confirmed
  <2>3. FirmInv'
    BY <2>1 DEF RevInv, FirmInv, Unbending, Firm
  <2>4. RInv(state, Confirmed, Len(chain))'
    BY <2>1, <2>2 DEF RevInv
  <2> QED
    BY <1>1, <2>3, <2>4 DEF RevInv
<1> QED
  BY <1>2, <1>3

\* There are no revisions in the beginning.
LEMMA RevsBegin == ASSUME FirmRules, Init PROVE RevInv
<1>1. MembersInv
  BY MembersBegin
<1>2. FirmInv
  BY DEF Init, FirmRules, FirmInv
<1>3. Confirmed = {} /\ state = Start /\ Len(chain) = 0
  BY DEF Init, Confirmed, Range
<1>4. /\ DOMAIN Start.recs = {} /\ DOMAIN Start.entries = {} /\ DOMAIN Start.grave = {}
      /\ DOMAIN Start.day = {} /\ Start.params = None
      /\ \A id : EditorOf(Start, id).founder = FALSE
  BY DEF Start, EditorOf, NewEditor
<1>5. AdmittedOf({}, Start.grave) = {}
  BY DEF AdmittedOf
<1>6. ChainInv({}, Start, 0) /\ Rooted(Start) /\ FounderInv(Start)
  BY <1>4, FS_EmptySet DEF ChainInv, Rooted, FounderInv
<1>7. PlaceInv(Start.recs, {})
  BY <1>4 DEF PlaceInv, Placed
<1>8. CountInv(Start, {})
  <2>1. \A by, d : WrittenOn({}, Start, by, d) = {}
    BY DEF WrittenOn
  <2>2. \A f : Counted(Start.day, f) = 0
    BY <1>4 DEF Counted
  <2> QED
    BY <1>4, <2>1, <2>2, FS_EmptySet DEF CountInv
<1>9. AuthorInv(Start, {}) /\ RevokedInv(Start, {}, {})
  BY DEF AuthorInv, RevokedInv, On
<1>10. RInv(Start, {}, 0)
  BY <1>4, <1>5, <1>6, <1>7, <1>8, <1>9 DEF RInv
<1> QED
  BY <1>1, <1>2, <1>3, <1>10 DEF RevInv

\* The invariant says of each pin of a revision how many places it has.
LEMMA PlacesCounted ==
    ASSUME NEW s, NEW C, NEW n, RInv(s, C, n), NEW e \in C, NEW A, A = AdmittedOf(C, s.grave),
           NEW at, at = {x \in (DOMAIN s.recs) \X (1..n) : x[2] \in PlacesOf(e, s.recs[x[1]])}
    PROVE  Cardinality(at) = IF e \in A THEN 1 ELSE 0
<1>1. /\ PlaceInv(s.recs, A) /\ \A f \in A : f \in C
      /\ \A f \in C : f.pin = e.pin => f = e
  BY DEF RInv, ChainInv, AdmittedOf
<1>2. \A k, i : Placed(s.recs, e.pin, k, i) <=> k \in DOMAIN s.recs /\ i \in PlacesOf(e, s.recs[k])
  BY DEF Placed, PlacesOf, Names
<1>3. CASE e \in A
  <2>1. PICK k, i : Placed(s.recs, e.pin, k, i)
    BY <1>1, <1>3 DEF PlaceInv
  <2>2. k \in DOMAIN s.recs /\ i \in PlacesOf(e, s.recs[k]) /\ i \in DOMAIN s.recs[k].history
    BY <1>2, <2>1 DEF Placed
  <2>3. i \in 1..n
    <3>1. RecordInv(s.recs[k], AdmittedOf(C, s.grave), C, s.params, n) /\ n \in Nat
      BY <2>2 DEF RInv, ChainInv
    <3>2. s.recs[k].history \in Seq(Revs) /\ Len(s.recs[k].history) <= n
      BY <3>1 DEF RecordInv
    <3> QED
      BY <2>2, <3>1, <3>2
  <2>4. <<k, i>> \in at
    BY <2>2, <2>3
  <2>5. \A x \in at : x = <<k, i>>
    <3> TAKE x \in at
    <3>1. x = <<x[1], x[2]>> /\ Placed(s.recs, e.pin, x[1], x[2])
      BY <1>2
    <3>2. x[1] = k /\ x[2] = i
      BY <1>1, <2>1, <3>1 DEF PlaceInv
    <3> QED
      BY <3>1, <3>2
  <2>6. at = {<<k, i>>}
    BY <2>4, <2>5
  <2> QED
    BY <1>3, <2>6, FS_Singleton
<1>4. CASE e \notin A
  <2>1. ~\E f \in A : f.pin = e.pin
    BY <1>1, <1>4
  <2>2. \A k, i : ~Placed(s.recs, e.pin, k, i)
    BY <1>1, <2>1 DEF PlaceInv
  <2>3. \A x \in at : FALSE
    BY <1>2, <2>2
  <2>4. at = {}
    BY <2>3
  <2> QED
    BY <1>4, <2>4, FS_EmptySet
<1> QED
  BY <1>3, <1>4

\* The invariant is what the property says.
LEMMA RevsSuffice == ASSUME RevInv PROVE RevsAreAdmitted
<1> DEFINE A == AdmittedOf(Confirmed, state.grave)
           n == Len(chain)
<1>1. /\ RInv(state, Confirmed, n) /\ PlaceInv(state.recs, A) /\ CountInv(state, A)
      /\ AuthorInv(state, A) /\ RevokedInv(state, A, Confirmed)
      /\ \A k \in DOMAIN state.recs : RecordInv(state.recs[k], A, Confirmed, state.params, n)
      /\ state.params = None => DOMAIN state.recs = {}
  BY DEF RevInv, RInv
<1>2. Admitted = A
  BY DEF Admitted, AdmittedOf, Admits, RevOps, Pins
<1> HIDE DEF A, n
<1>3. ASSUME NEW e \in Confirmed
      PROVE  Cardinality({at \in (DOMAIN state.recs) \X (1..n) :
                            at[2] \in PlacesOf(e, state.recs[at[1]])})
               = IF e \in A THEN 1 ELSE 0
  <2> DEFINE at == {x \in (DOMAIN state.recs) \X (1..n) : x[2] \in PlacesOf(e, state.recs[x[1]])}
  <2>1. A = AdmittedOf(Confirmed, state.grave)
    BY DEF A
  <2> HIDE DEF at
  <2>2. at = {x \in (DOMAIN state.recs) \X (1..n) : x[2] \in PlacesOf(e, state.recs[x[1]])}
    BY DEF at
  <2>3. Cardinality(at) = IF e \in A THEN 1 ELSE 0
    BY <1>1, <2>1, <2>2, PlacesCounted
  <2> QED
    BY <2>3 DEF at
<1>4. ASSUME NEW e \in A
      PROVE  /\ Cardinality({f \in A : f.by = e.by /\ DayOf(state, f.h) = DayOf(state, e.h)})
                  <= state.params.rateG
             /\ e.by \notin state.founders =>
                   e.h >= state.eds[e.by].reg + state.params.t0Hours * BlocksPerHour
             /\ ~\E x \in Pins("editor", "revoke") :
                   x.who = e.by /\ x.pin \notin DOMAIN state.grave /\ ChainOrder(x, e)
  <2>1. state.params # None
    BY <1>1 DEF PlaceInv, Placed
  <2>2. Cardinality(WrittenOn(A, state, e.by, DayOf(state, e.h))) <= state.params.rateG
    BY <1>1, <2>1 DEF CountInv
  <2>3. /\ EditorOf(state, e.by).reg # NotYet
        /\ e.by \notin state.founders =>
              e.h >= EditorOf(state, e.by).reg + state.params.t0Hours * BlocksPerHour
    BY <1>1 DEF AuthorInv
  <2>4. EditorOf(state, e.by) = state.eds[e.by]
    BY <2>3 DEF EditorOf, NewEditor
  <2>5. Pins("editor", "revoke") = On(Confirmed, "editor", "revoke")
    BY DEF Pins, On
  <2>6. ~\E x \in Pins("editor", "revoke") :
           x.who = e.by /\ x.pin \notin DOMAIN state.grave /\ ChainOrder(x, e)
    BY <1>1, <2>5 DEF RevokedInv
  <2>7. WrittenOn(A, state, e.by, DayOf(state, e.h))
          = {f \in A : f.by = e.by /\ DayOf(state, f.h) = DayOf(state, e.h)}
    BY DEF WrittenOn
  <2> QED
    BY <2>2, <2>3, <2>4, <2>6, <2>7
<1>5. ASSUME NEW r \in Range(state.recs), r.status = "frozen" PROVE FrozenFairly(r)
  <2>1. FairlyFrozen(r, A, Confirmed, state.params)
    BY <1>1, <1>5 DEF RecordInv, Range
  <2>2. PICK f \in On(Confirmed, "rev", "revert") :
           /\ f.pin = r.frozenAt
           /\ Cardinality(Battles(r, A, f, state.params)) >= state.params.warT
           /\ \A e \in A : Holds(r, e.pin) /\ ChainOrder(f, e) => e.by \in r.arbiters
    BY <2>1 DEF FairlyFrozen
  <2>3. \A e : PlacesOf(e, r) # {} <=> Holds(r, e.pin)
    BY DEF PlacesOf, Holds, Names
  <2>4. Battles(r, A, f, state.params)
          = {e \in A : /\ e.op = "revert" /\ PlacesOf(e, r) # {} /\ ~ChainOrder(f, e)
                       /\ e.h > f.h - state.params.warHours * BlocksPerHour}
    BY <2>3 DEF Battles
  <2>5. f \in Pins("rev", "revert")
    BY <2>2 DEF Pins, On
  <2>6. \A e \in A : PlacesOf(e, r) # {} /\ ChainOrder(f, e) => e.by \in r.arbiters
    BY <2>2, <2>3
  <2> QED
    BY <1>2, <2>2, <2>4, <2>5, <2>6 DEF FrozenFairly
<1> QED
  BY <1>2, <1>3, <1>4, <1>5 DEF RevsAreAdmitted, n

\* Where the rules of revisions stay what the genesis made them, every pin of
\* a revision is in the graveyard or in one history, once; nobody writes more
\* than the day's rate, in their first hours as an editor or after they were
\* revoked; and a record is frozen only by a war of reverts, and then open to
\* its arbiters only (applyRev, checkRevGates).
THEOREM RevisionsAreAdmitted == FirmRules => (Spec => []RevsAreAdmitted)
<1> SUFFICES ASSUME FirmRules PROVE Spec => []RevsAreAdmitted
  OBVIOUS
<1>1. Init => RevInv
  BY RevsBegin
<1>2. RevInv /\ [Next]_vars => RevInv'
  BY RevsKept
<1>3. RevInv => RevsAreAdmitted
  BY RevsSuffice
<1> QED
  BY <1>1, <1>2, <1>3, PTL DEF Spec

=============================================================================
