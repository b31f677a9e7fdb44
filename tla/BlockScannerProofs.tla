------------------------- MODULE BlockScannerProofs -------------------------
(***************************************************************************)
(* Proofs about BlockScanner for every set of chains, aggregators and      *)
(* pins, every chain content and any number of faults and crashes.         *)
(***************************************************************************)
EXTENDS BlockScanner, TLAPS

\* Blocks of chain c after the configured start up to n are done.
DoneUpTo(c, n) == \A m \in (StartHeight[c] + 1) .. n : Done(c, m)

\* The node never reports more blocks than the chain has.
TipInv == \A c \in Chains : tip[c] <= Len(BlockPins[c])

\* While a range is scanned: the chain is known, the range lies within the
\* blocks the node has, and everything below h is done.
RangeInv ==
    phase \in {"catch", "route", "persist"} =>
        /\ cur \in Chains
        /\ toHeight <= tip[cur]
        /\ DoneUpTo(cur, h - 1)
        /\ h > StartHeight[cur]
        /\ cur \notin unrestored => stored[cur] < h

\* While pins are routed: those no longer queued were offered to everyone.
RouteInv ==
    phase = "route" =>
        /\ h <= toHeight
        /\ lastHeight[cur] < h
        /\ \A a \in Aggregators : \A i \in DOMAIN BlockPins[cur][h] :
              BlockPins[cur][h][i] \in handled[a] \cup lost[a] \cup PinsOf(queue)

\* Between the update of memory and the write of the store.
PersistInv ==
    phase = "persist" => h <= toHeight /\ lastHeight[cur] = h /\ Done(cur, h)

\* Before a block is fetched, memory is behind the loop variable.
CatchInv == phase = "catch" => lastHeight[cur] < h

\* Memory covers the store and only done blocks.
MemoryInv ==
    phase # "down" => \A c \in Chains :
        /\ c \notin unrestored => stored[c] <= lastHeight[c]
        /\ lastHeight[c] >= StartHeight[c]
        /\ DoneUpTo(c, lastHeight[c])

\* Memory and store stay within the chain.
BoundInv ==
    \A c \in Chains :
        /\ stored[c] <= tip[c]
        /\ stored[c] = 0 \/ stored[c] > StartHeight[c]
        /\ lastHeight[c] <= tip[c] \/ lastHeight[c] = StartHeight[c]

IInv ==
    /\ TypeOK
    /\ TipInv
    /\ NoSilentGap
    /\ RangeInv
    /\ RouteInv
    /\ PersistInv
    /\ CatchInv
    /\ MemoryInv
    /\ BoundInv

-----------------------------------------------------------------------------
(* What is done stays done.                                                *)

Grows ==
    /\ \A a \in Aggregators : handled[a] \subseteq handled'[a] /\ lost[a] \subseteq lost'[a]
    /\ skipped \subseteq skipped'

\* What only grows: one lemma for the facts the steps below need of it.
LEMMA NextGrows == TypeOK /\ [Next]_vars => Grows
<1> SUFFICES ASSUME TypeOK, [Next]_vars PROVE Grows
  OBVIOUS
<1> USE DEF Grows, TypeOK
<1>1. CASE UNCHANGED vars
  BY <1>1 DEF vars
<1>2. CASE RouteBlockPin
  BY <1>2 DEF RouteBlockPin
<1>3. CASE CatchPinsError
  BY <1>3 DEF CatchPinsError, disk
<1>4. CASE PersistHeight
  BY <1>4 DEF PersistHeight
<1>5. CASE Crash
  BY <1>5 DEF Crash, disk
<1>6. ASSUME NEW c \in Chains, NothingNew(c) PROVE Grows
  BY <1>6 DEF NothingNew, disk
<1>7. ASSUME UNCHANGED <<disk, lost, skipped>> PROVE Grows
  BY <1>7 DEF disk
<1> QED
  BY <1>1, <1>2, <1>3, <1>4, <1>5, <1>6, <1>7
  DEF Next, Scan, MineBlock, Start, Tick, BeginRange, EndRound, CatchPins, BlockRouted,
      EndRange, history

\* A block that is done stays done.
LEMMA DoneStable ==
    ASSUME NEW c, NEW n, Grows, Done(c, n)
    PROVE  Done(c, n)'
BY DEF Grows, Done, Accounted

\* So does everything up to a height.
LEMMA DoneUpToStable ==
    ASSUME NEW c, NEW n, Grows, DoneUpTo(c, n)
    PROVE  DoneUpTo(c, n)'
BY DoneStable DEF DoneUpTo

-----------------------------------------------------------------------------
\* The induction starts.
LEMMA InitIInv == Init => IInv
<1> SUFFICES ASSUME Init PROVE IInv
  OBVIOUS
<1> USE ScannerAssumption DEF Init
<1>1. TypeOK
  BY DEF TypeOK, Phase
<1> QED
  BY <1>1 DEF IInv, TypeOK, TipInv, NoSilentGap, RangeInv, RouteInv, PersistInv,
              CatchInv, MemoryInv, BoundInv

-----------------------------------------------------------------------------
\* The types are kept: one step per action.
LEMMA TypeStep == TypeOK /\ TipInv /\ RangeInv /\ [Next]_vars => TypeOK'
<1> SUFFICES ASSUME TypeOK, TipInv, RangeInv, [Next]_vars PROVE TypeOK'
  OBVIOUS
<1> USE ScannerAssumption DEF TypeOK, Phase
<1>1. CASE UNCHANGED vars
  BY <1>1 DEF vars
<1>2. ASSUME NEW c \in Chains, MineBlock(c) PROVE TypeOK'
  <2>1. tip' \in [Chains -> Nat]
    BY <1>2 DEF MineBlock
  <2> QED
    BY <1>2, <2>1 DEF MineBlock, disk, memory, history
<1>3. CASE Crash
  BY <1>3 DEF Crash, node, disk
<1>4. CASE Start
  <2>1. lastHeight' \in [Chains -> Nat]
    BY <1>4 DEF Start, RestoredHeight
  <2>2. unrestored' \in SUBSET Chains /\ faults' \in Nat
    BY <1>4 DEF Start
  <2>3. phase' \in Phase /\ todo' \in SUBSET Chains
    BY <1>4 DEF Start
  <2>4. UNCHANGED <<tip, stored, handled, cur, h, toHeight, queue, life, lost, skipped, crashes>>
    BY <1>4 DEF Start, node, disk
  <2> QED
    BY <2>1, <2>2, <2>3, <2>4
<1>5. CASE Tick
  BY <1>5 DEF Tick, node, disk, history
<1>6. ASSUME NEW c \in Chains, NothingNew(c) PROVE TypeOK'
  <2>1. todo' \in SUBSET Chains /\ faults' \in Nat
    BY <1>6 DEF NothingNew
  <2> QED
    BY <1>6, <2>1 DEF NothingNew, node, disk
<1>7. ASSUME NEW c \in Chains, BeginRange(c) PROVE TypeOK'
  <2>1. h' \in Nat /\ toHeight' \in Nat /\ cur' \in Chains
    BY <1>7 DEF BeginRange
  <2> QED
    BY <1>7, <2>1 DEF BeginRange, node, disk, history
<1>8. CASE EndRound
  BY <1>8 DEF EndRound, node, disk, history
<1>9. CASE CatchPins
  <2>1. h \in DOMAIN BlockPins[cur]
    BY <1>9 DEF CatchPins, TipInv, RangeInv
  <2>2. BlockPins[cur][h] \in Seq(Pins)
    BY <2>1, <1>9 DEF CatchPins, RangeInv
  <2>3. queue' \in Seq(Pins) /\ cur \in Chains
    BY <1>9, <2>2 DEF CatchPins, RangeInv
  <2>4. lastHeight' \in [Chains -> Nat]
    BY <1>9, <2>3 DEF CatchPins
  <2>5. life' \in SUBSET (Chains \X Nat)
    BY <1>9, <2>3 DEF CatchPins
  <2>6. phase' \in Phase
    BY <1>9 DEF CatchPins
  <2> QED
    BY <1>9, <2>3, <2>4, <2>5, <2>6 DEF CatchPins, node, disk, history
<1>10. CASE CatchPinsError
  <2>1. cur \in Chains /\ <<cur, h>> \in Chains \X Nat
    BY <1>10 DEF CatchPinsError, RangeInv
  <2>2. skipped' \in SUBSET (Chains \X Nat)
    BY <1>10, <2>1 DEF CatchPinsError
  <2>3. faults' \in Nat /\ h' \in Nat
    BY <1>10 DEF CatchPinsError
  <2>4. UNCHANGED <<tip, stored, handled, lastHeight, phase, todo, cur, toHeight, queue,
                    life, lost, unrestored, crashes>>
    BY <1>10 DEF CatchPinsError, node, disk
  <2> QED
    BY <2>2, <2>3, <2>4
<1>11. CASE RouteBlockPin
  <2>1. Head(queue) \in Pins /\ Tail(queue) \in Seq(Pins)
    BY <1>11 DEF RouteBlockPin
  <2>2. handled' \in [Aggregators -> SUBSET Pins]
    BY <1>11, <2>1 DEF RouteBlockPin
  <2>3. lost' \in [Aggregators -> SUBSET Pins]
    BY <1>11, <2>1 DEF RouteBlockPin
  <2>4. faults' \in Nat /\ queue' \in Seq(Pins)
    BY <1>11, <2>1 DEF RouteBlockPin
  <2>5. UNCHANGED <<tip, stored, lastHeight, phase, todo, cur, h, toHeight, life,
                    unrestored, skipped, crashes>>
    BY <1>11 DEF RouteBlockPin, node
  <2> QED
    BY <2>2, <2>3, <2>4, <2>5
<1>12. CASE BlockRouted
  BY <1>12 DEF BlockRouted, RangeInv, node, disk, history
<1>13. CASE PersistHeight
  <2>1. stored' \in [Chains -> Nat]
    BY <1>13 DEF PersistHeight
  <2>2. faults' \in Nat /\ h' \in Nat /\ phase' \in Phase
    BY <1>13 DEF PersistHeight
  <2>3. UNCHANGED <<tip, handled, lastHeight, todo, cur, toHeight, queue, life,
                    lost, unrestored, skipped, crashes>>
    BY <1>13 DEF PersistHeight, node
  <2> QED
    BY <2>1, <2>2, <2>3
<1>14. CASE EndRange
  BY <1>14 DEF EndRange, node, disk, history
<1> QED
  BY <1>1, <1>2, <1>3, <1>4, <1>5, <1>6, <1>7, <1>8, <1>9, <1>10, <1>11, <1>12,
     <1>13, <1>14 DEF Next, Scan

-----------------------------------------------------------------------------
(* Every step preserves the inductive invariant, one conjunct at a time.    *)

\* The tip of the node and the heights stay in order.
LEMMA TipStep == TypeOK /\ TipInv /\ [Next]_vars => TipInv'
<1> SUFFICES ASSUME TypeOK, TipInv, [Next]_vars PROVE TipInv'
  OBVIOUS
<1> USE ScannerAssumption DEF TypeOK, TipInv
<1>1. ASSUME NEW c \in Chains, MineBlock(c) PROVE TipInv'
  BY <1>1 DEF MineBlock, BestKnown
<1>2. CASE UNCHANGED tip
  BY <1>2
<1> QED
  BY <1>1, <1>2
  DEF Next, Scan, vars, node, Crash, Start, Tick, NothingNew, BeginRange, EndRound,
      CatchPins, CatchPinsError, RouteBlockPin, BlockRouted, PersistHeight, EndRange

\* The node's height never goes back: no step takes a block away.
LEMMA TipGrows == TypeOK /\ [Next]_vars => \A c \in Chains : tip[c] <= tip'[c]
<1> SUFFICES ASSUME TypeOK, [Next]_vars PROVE \A c \in Chains : tip[c] <= tip'[c]
  OBVIOUS
<1> USE DEF TypeOK
<1>1. ASSUME NEW c \in Chains, MineBlock(c) PROVE \A d \in Chains : tip[d] <= tip'[d]
  BY <1>1 DEF MineBlock
<1>2. CASE UNCHANGED tip
  BY <1>2
<1> QED
  BY <1>1, <1>2
  DEF Next, Scan, vars, node, Crash, Start, Tick, NothingNew, BeginRange, EndRound,
      CatchPins, CatchPinsError, RouteBlockPin, BlockRouted, PersistHeight, EndRange

\* What follows TypeOK and TipInv in the inductive invariant.
ScanInv ==
    /\ NoSilentGap
    /\ RangeInv
    /\ RouteInv
    /\ PersistInv
    /\ CatchInv
    /\ MemoryInv
    /\ BoundInv

\* A step that leaves the engine's own variables alone preserves all of it.
LEMMA EngineUnchanged ==
    /\ TypeOK /\ TypeOK' /\ ScanInv /\ Grows
    /\ \A c \in Chains : tip[c] <= tip'[c]
    /\ UNCHANGED <<stored, lastHeight, phase, cur, h, toHeight, queue, unrestored>>
  => ScanInv'
<1> SUFFICES ASSUME TypeOK, TypeOK', ScanInv, Grows,
                    \A c \in Chains : tip[c] <= tip'[c],
                    UNCHANGED <<stored, lastHeight, phase, cur, h, toHeight, queue, unrestored>>
             PROVE  ScanInv'
  OBVIOUS
<1> USE DEF TypeOK, ScanInv
<1>1. NoSilentGap'
  BY DoneStable DEF NoSilentGap
<1>2. RangeInv'
  BY DoneUpToStable DEF RangeInv
<1>3. RouteInv'
  BY DEF RouteInv, Grows
<1>4. PersistInv'
  BY DoneStable DEF PersistInv
<1>5. CatchInv'
  BY DEF CatchInv
<1>6. MemoryInv'
  BY DoneUpToStable DEF MemoryInv
<1>7. BoundInv'
  BY DEF BoundInv
<1> QED
  BY <1>1, <1>2, <1>3, <1>4, <1>5, <1>6, <1>7

\* A crash keeps the scan.
LEMMA CrashStep == TypeOK /\ ScanInv /\ Grows /\ Crash => ScanInv'
<1> SUFFICES ASSUME TypeOK, ScanInv, Grows, Crash PROVE ScanInv'
  OBVIOUS
<1> USE DEF Crash, node, disk, TypeOK, ScanInv
<1>1. NoSilentGap'
  BY DoneStable DEF NoSilentGap
<1>2. BoundInv'
  BY ScannerAssumption DEF BoundInv
<1> QED
  BY <1>1, <1>2 DEF RangeInv, RouteInv, PersistInv, CatchInv, MemoryInv

\* A restart keeps the scan.
LEMMA StartStep == TypeOK /\ ScanInv /\ Grows /\ Start => ScanInv'
<1> SUFFICES ASSUME TypeOK, ScanInv, Grows, Start PROVE ScanInv'
  OBVIOUS
<1> USE ScannerAssumption DEF Start, node, disk, TypeOK, ScanInv, RestoredHeight
<1>1. NoSilentGap'
  BY DoneStable DEF NoSilentGap
<1>2. BoundInv'
  BY DEF BoundInv
<1>3. MemoryInv'
  <2> SUFFICES ASSUME NEW c \in Chains
               PROVE  /\ c \notin unrestored' => stored'[c] <= lastHeight'[c]
                      /\ lastHeight'[c] >= StartHeight[c]
                      /\ DoneUpTo(c, lastHeight[c])'
    BY DEF MemoryInv
  <2>1. /\ c \notin unrestored' => stored'[c] <= lastHeight'[c]
        /\ lastHeight'[c] >= StartHeight[c]
    <3>1. /\ stored[c] \in Nat /\ StartHeight[c] \in Nat /\ stored'[c] = stored[c]
          /\ stored[c] = 0 \/ stored[c] > StartHeight[c]
      BY DEF BoundInv
    <3>2. CASE c \in unrestored'
      BY <3>1, <3>2
    <3>3. CASE c \notin unrestored'
      <4>1. lastHeight'[c] = IF stored[c] > 0 THEN stored[c] ELSE StartHeight[c]
        BY <3>3
      <4> QED
        BY <3>1, <4>1
    <3> QED
      BY <3>2, <3>3
  <2>2. \A m \in (StartHeight[c] + 1) .. lastHeight'[c] : Done(c, m)'
    BY <1>1 DEF NoSilentGap
  <2> QED
    BY <2>1, <2>2 DEF DoneUpTo
<1> QED
  BY <1>1, <1>2, <1>3 DEF RangeInv, RouteInv, PersistInv, CatchInv

\* The choice of a range keeps the scan.
LEMMA BeginRangeStep ==
    ASSUME TypeOK, ScanInv, Grows, NEW c \in Chains, BeginRange(c) PROVE ScanInv'
<1> USE DEF BeginRange, node, disk, history, TypeOK, ScanInv
<1>1. NoSilentGap'
  BY DoneStable DEF NoSilentGap
<1>2. BoundInv'
  BY DEF BoundInv
<1>3. MemoryInv'
  BY DoneUpToStable DEF MemoryInv
<1>4. RangeInv'
  <2>1. DoneUpTo(c, lastHeight[c])'
    BY <1>3 DEF MemoryInv
  <2>2. /\ h' - 1 = lastHeight[c] /\ h' > StartHeight[c] /\ cur' = c
        /\ c \notin unrestored' => stored'[c] < h'
    BY ScannerAssumption DEF MemoryInv, history
  <2> QED
    BY <2>1, <2>2 DEF RangeInv, DoneUpTo
<1>5. CatchInv'
  BY DEF CatchInv
<1> QED
  BY <1>1, <1>2, <1>3, <1>4, <1>5 DEF RouteInv, PersistInv

\* Tick, EndRound and EndRange: no range is being scanned afterwards.
LEMMA OutOfRangeStep ==
    /\ TypeOK /\ ScanInv /\ Grows
    /\ phase # "down" /\ phase' \in {"idle", "round"}
    /\ UNCHANGED <<tip, stored, lastHeight, unrestored>>
  => ScanInv'
<1> SUFFICES ASSUME TypeOK, ScanInv, Grows,
                    phase # "down", phase' \in {"idle", "round"},
                    UNCHANGED <<tip, stored, lastHeight, unrestored>>
             PROVE  ScanInv'
  OBVIOUS
<1> USE DEF TypeOK, ScanInv
<1>1. NoSilentGap'
  BY DoneStable DEF NoSilentGap
<1>2. MemoryInv'
  BY DoneUpToStable DEF MemoryInv
<1>3. BoundInv'
  BY DEF BoundInv
<1> QED
  BY <1>1, <1>2, <1>3 DEF RangeInv, RouteInv, PersistInv, CatchInv

\* The update of entry.lastHeight, shared by CatchPins and BlockRouted.
LEMMA TakeHeightStep ==
    ASSUME TypeOK, ScanInv, Grows,
           phase \in {"catch", "route"}, h <= toHeight,
           Done(cur, h)',
           lastHeight' = [lastHeight EXCEPT ![cur] = h],
           phase' = "persist",
           UNCHANGED <<tip, stored, cur, h, toHeight, unrestored>>
    PROVE  ScanInv'
<1> USE DEF TypeOK, ScanInv
<1>1. NoSilentGap'
  BY DoneStable DEF NoSilentGap
<1>2. RangeInv'
  BY DoneUpToStable DEF RangeInv
<1>3. PersistInv'
  BY DEF PersistInv, RangeInv
<1>4. BoundInv'
  BY DEF BoundInv, RangeInv
<1>5. MemoryInv'
  <2> SUFFICES ASSUME NEW c \in Chains
               PROVE  /\ c \notin unrestored' => stored'[c] <= lastHeight'[c]
                      /\ lastHeight'[c] >= StartHeight[c]
                      /\ DoneUpTo(c, lastHeight[c])'
    BY DEF MemoryInv
  <2>1. CASE c # cur
    <3>1. lastHeight'[c] = lastHeight[c]
      BY <2>1
    <3>2. /\ DoneUpTo(c, lastHeight[c]) /\ lastHeight[c] >= StartHeight[c]
          /\ c \notin unrestored' => stored'[c] <= lastHeight[c]
      BY DEF MemoryInv
    <3>3. \A m \in (StartHeight[c] + 1) .. lastHeight[c] : Done(c, m)'
      BY <3>2, DoneStable DEF DoneUpTo
    <3> QED
      BY <3>1, <3>2, <3>3 DEF DoneUpTo
  <2>2. CASE c = cur
    <3>0. /\ h > StartHeight[c] /\ StartHeight[c] \in Nat
          /\ c \notin unrestored => stored[c] < h
      BY <2>2, ScannerAssumption DEF RangeInv
    <3>1. /\ lastHeight'[c] = h /\ h >= StartHeight[c]
          /\ c \notin unrestored' => stored'[c] <= h
      BY <2>2, <3>0
    <3>2. \A m \in (StartHeight[c] + 1) .. h : Done(c, m)'
      <4> SUFFICES ASSUME NEW m \in (StartHeight[c] + 1) .. h PROVE Done(c, m)'
        OBVIOUS
      <4>1. CASE m = h
        BY <4>1, <2>2
      <4>2. CASE m \in (StartHeight[c] + 1) .. (h - 1)
        BY <4>2, <2>2, DoneStable DEF RangeInv, DoneUpTo
      <4> QED
        BY <4>1, <4>2, ScannerAssumption
    <3> QED
      BY <3>1, <3>2 DEF DoneUpTo
  <2> QED
    BY <2>1, <2>2
<1> QED
  BY <1>1, <1>2, <1>3, <1>4, <1>5 DEF RouteInv, CatchInv

\* A block that is read keeps the scan.
LEMMA CatchPinsStep == TypeOK /\ TipInv /\ ScanInv /\ Grows /\ CatchPins => ScanInv'
<1> SUFFICES ASSUME TypeOK, TipInv, ScanInv, Grows, CatchPins PROVE ScanInv'
  OBVIOUS
<1> USE DEF CatchPins, node, disk, history, TypeOK, ScanInv
<1>1. CASE queue' = <<>>
  <2>1. BlockPins[cur][h] = <<>>
    BY <1>1
  <2>2. Done(cur, h)'
    BY <2>1, <1>1 DEF Done, Accounted, PinsOf
  <2> QED
    BY <1>1, <2>2, TakeHeightStep
<1>2. CASE queue' # <<>>
  <2>1. NoSilentGap'
    BY <1>2, DoneStable DEF NoSilentGap
  <2>2. RangeInv'
    BY <1>2, DoneUpToStable DEF RangeInv
  <2>3. RouteInv'
    BY <1>2 DEF RouteInv, CatchInv, PinsOf
  <2>4. MemoryInv'
    BY <1>2, DoneUpToStable DEF MemoryInv
  <2>5. BoundInv'
    BY <1>2 DEF BoundInv
  <2> QED
    BY <1>2, <2>1, <2>2, <2>3, <2>4, <2>5 DEF PersistInv, CatchInv
<1> QED
  BY <1>1, <1>2

\* A block that cannot be read keeps the scan.
LEMMA CatchPinsErrorStep == TypeOK /\ ScanInv /\ Grows /\ CatchPinsError => ScanInv'
<1> SUFFICES ASSUME TypeOK, ScanInv, Grows, CatchPinsError PROVE ScanInv'
  OBVIOUS
<1>0. /\ phase = "catch" /\ phase' = "catch"
      /\ h' = h + 1
      /\ skipped' = skipped \cup {<<cur, h>>}
      /\ UNCHANGED <<tip, stored, lastHeight, cur, toHeight, unrestored>>
  BY DEF CatchPinsError, node, disk
<1>a. /\ h \in Nat /\ stored \in [Chains -> Nat] /\ lastHeight \in [Chains -> Nat]
      /\ tip \in [Chains -> Nat] /\ toHeight \in Nat
  BY DEF TypeOK
<1>b. /\ cur \in Chains /\ toHeight <= tip[cur] /\ h > StartHeight[cur]
      /\ cur \notin unrestored => stored[cur] < h
      /\ DoneUpTo(cur, h - 1)
      /\ StartHeight[cur] \in Nat
  BY <1>0, ScannerAssumption DEF ScanInv, RangeInv
<1>1. NoSilentGap'
  BY <1>0, DoneStable DEF NoSilentGap, ScanInv
<1>2. RangeInv'
  <2>2. ASSUME NEW m \in (StartHeight[cur] + 1) .. h PROVE Done(cur, m)'
    <3>0. StartHeight[cur] \in Nat
      BY <1>b, ScannerAssumption
    <3>1. CASE m = h
      BY <3>1, <1>0 DEF Done
    <3>2. CASE m # h
      <4>1. m \in (StartHeight[cur] + 1) .. (h - 1)
        BY <1>a, <3>0, <3>2
      <4>2. Done(cur, m)
        BY <4>1, <1>b DEF DoneUpTo
      <4> QED
        BY <4>2, <1>0, DoneStable
    <3> QED
      BY <3>1, <3>2
  <2>3. /\ h' - 1 = h /\ cur' = cur /\ h' > StartHeight[cur] /\ toHeight' <= tip'[cur]
        /\ cur \notin unrestored' => stored'[cur] < h'
    BY <1>0, <1>a, <1>b
  <2>4. DoneUpTo(cur, h - 1)'
    BY <2>2, <2>3 DEF DoneUpTo
  <2> QED
    BY <1>b, <2>3, <2>4 DEF RangeInv
<1>3. CatchInv'
  BY <1>0, <1>a, <1>b DEF CatchInv, ScanInv
<1>4. MemoryInv'
  BY <1>0, DoneUpToStable DEF MemoryInv, ScanInv
<1>5. BoundInv'
  BY <1>0 DEF BoundInv, ScanInv
<1> QED
  BY <1>0, <1>1, <1>2, <1>3, <1>4, <1>5 DEF RouteInv, PersistInv, ScanInv

\* A pin that is routed keeps the scan.
LEMMA RouteBlockPinStep == TypeOK /\ ScanInv /\ Grows /\ RouteBlockPin => ScanInv'
<1> SUFFICES ASSUME TypeOK, ScanInv, Grows, RouteBlockPin PROVE ScanInv'
  OBVIOUS
<1> USE DEF TypeOK, ScanInv
<1>0. /\ phase = "route" /\ queue # <<>> /\ queue' = Tail(queue)
      /\ UNCHANGED <<tip, stored, lastHeight, phase, todo, cur, h, toHeight, unrestored>>
  BY DEF RouteBlockPin, node
<1>1. NoSilentGap'
  BY <1>0, DoneStable DEF NoSilentGap
<1>2. RangeInv'
  BY <1>0, DoneUpToStable DEF RangeInv
<1>3. RouteInv'
  <2>1. \A a \in Aggregators : Head(queue) \in handled'[a] \cup lost'[a]
    BY DEF RouteBlockPin
  <2>2. ASSUME NEW p \in PinsOf(queue) PROVE p = Head(queue) \/ p \in PinsOf(queue')
    <3>1. PICK i \in 1 .. Len(queue) : p = queue[i]
      BY DEF PinsOf
    <3>2. CASE i = 1
      BY <3>1, <3>2, <1>0 DEF TypeOK
    <3>3. CASE i > 1
      <4>1. i - 1 \in DOMAIN queue' /\ queue'[i - 1] = queue[i]
        BY <3>3, <1>0 DEF TypeOK
      <4> QED
        BY <4>1, <3>1 DEF PinsOf
    <3> QED
      BY <3>2, <3>3
  <2>3. ASSUME NEW a \in Aggregators, NEW i \in DOMAIN BlockPins[cur][h]
        PROVE  BlockPins[cur][h][i] \in handled'[a] \cup lost'[a] \cup PinsOf(queue')
    <3>1. BlockPins[cur][h][i] \in handled[a] \cup lost[a] \cup PinsOf(queue)
      BY <1>0 DEF RouteInv
    <3>2. CASE BlockPins[cur][h][i] \in PinsOf(queue)
      BY <3>2, <2>1, <2>2
    <3>3. CASE BlockPins[cur][h][i] \in handled[a] \cup lost[a]
      BY <3>3 DEF Grows
    <3> QED
      BY <3>1, <3>2, <3>3
  <2>4. h' <= toHeight' /\ lastHeight'[cur'] < h'
    BY <1>0 DEF RouteInv
  <2> QED
    BY <1>0, <2>3, <2>4 DEF RouteInv, PinsOf
<1>4. MemoryInv'
  BY <1>0, DoneUpToStable DEF MemoryInv
<1>5. BoundInv'
  BY <1>0 DEF BoundInv
<1> QED
  BY <1>0, <1>1, <1>2, <1>3, <1>4, <1>5 DEF PersistInv, CatchInv

\* The end of the pins of a block keeps the scan.
LEMMA BlockRoutedStep == TypeOK /\ ScanInv /\ Grows /\ BlockRouted => ScanInv'
<1> SUFFICES ASSUME TypeOK, ScanInv, Grows, BlockRouted PROVE ScanInv'
  OBVIOUS
<1> USE DEF BlockRouted, node, disk, history, TypeOK, ScanInv
<1>1. Done(cur, h)'
  BY DEF Done, Accounted, PinsOf, RouteInv
<1> QED
  BY <1>1, TakeHeightStep DEF RouteInv

\* The stored height keeps the scan.
LEMMA PersistHeightStep == TypeOK /\ TipInv /\ ScanInv /\ Grows /\ PersistHeight => ScanInv'
<1> SUFFICES ASSUME TypeOK, TipInv, ScanInv, Grows, PersistHeight PROVE ScanInv'
  OBVIOUS
<1>0. /\ phase = "persist" /\ phase' = "catch" /\ h' = h + 1
      /\ UNCHANGED <<tip, lastHeight, cur, toHeight, unrestored>>
      /\ stored' = [stored EXCEPT ![cur] = h] \/ stored' = stored
  BY DEF PersistHeight, node
<1>a. /\ h \in Nat /\ stored \in [Chains -> Nat] /\ lastHeight \in [Chains -> Nat]
      /\ tip \in [Chains -> Nat] /\ toHeight \in Nat
  BY DEF TypeOK
<1>b. /\ cur \in Chains /\ toHeight <= tip[cur] /\ h > StartHeight[cur]
      /\ cur \notin unrestored => stored[cur] < h
      /\ lastHeight[cur] = h /\ h <= toHeight
      /\ StartHeight[cur] \in Nat
  BY <1>0, ScannerAssumption DEF ScanInv, RangeInv, PersistInv
<1>c. \A c \in Chains : /\ c \notin unrestored => stored[c] <= lastHeight[c]
                        /\ lastHeight[c] >= StartHeight[c]
                        /\ DoneUpTo(c, lastHeight[c])
  BY <1>0 DEF ScanInv, MemoryInv
<1>d. \A c \in Chains : \/ stored'[c] = stored[c]
                        \/ c = cur /\ stored'[c] = h
  BY <1>0, <1>a, <1>b
<1>1. \A c \in Chains : \A m \in (StartHeight[c] + 1) .. lastHeight[c] : Done(c, m)'
  BY <1>c, DoneStable DEF DoneUpTo
<1>2. \A c \in Chains : c \notin unrestored => stored'[c] <= lastHeight[c]
  BY <1>a, <1>b, <1>c, <1>d
<1>3. MemoryInv'
  BY <1>0, <1>1, <1>2, <1>c DEF MemoryInv, DoneUpTo
<1>4. NoSilentGap'
  <2> SUFFICES ASSUME NEW c \in Chains, NEW m \in (StartHeight[c] + 1) .. stored'[c]
               PROVE  Done(c, m)'
    BY DEF NoSilentGap
  <2>1. stored'[c] \in Nat /\ lastHeight[c] \in Nat /\ StartHeight[c] \in Nat
    BY <1>a, <1>d, ScannerAssumption
  <2>2. CASE stored'[c] = stored[c]
    BY <2>2, DoneStable DEF ScanInv, NoSilentGap
  <2>3. CASE c = cur /\ stored'[c] = h
    BY <2>1, <2>3, <1>1, <1>b
  <2> QED
    BY <2>2, <2>3, <1>d
<1>5. RangeInv'
  <2>1. /\ h' - 1 = lastHeight[cur] /\ h' > StartHeight[cur'] /\ cur' \in Chains
        /\ toHeight' <= tip'[cur']
        /\ cur' \notin unrestored' => stored'[cur'] < h'
    BY <1>0, <1>a, <1>b, <1>2
  <2>2. \A m \in (StartHeight[cur] + 1) .. (h' - 1) : Done(cur, m)'
    BY <1>0, <1>1, <1>b, <2>1
  <2> QED
    BY <1>0, <2>1, <2>2 DEF RangeInv, DoneUpTo
<1>6. CatchInv'
  BY <1>0, <1>a, <1>b DEF CatchInv
<1>7. BoundInv'
  <2> SUFFICES ASSUME NEW c \in Chains
               PROVE  /\ stored'[c] <= tip[c]
                      /\ stored'[c] = 0 \/ stored'[c] > StartHeight[c]
                      /\ lastHeight[c] <= tip[c] \/ lastHeight[c] = StartHeight[c]
    BY <1>0 DEF BoundInv
  <2>1. /\ stored[c] <= tip[c]
        /\ stored[c] = 0 \/ stored[c] > StartHeight[c]
        /\ lastHeight[c] <= tip[c] \/ lastHeight[c] = StartHeight[c]
    BY DEF ScanInv, BoundInv
  <2> QED
    BY <2>1, <1>a, <1>b, <1>d
<1> QED
  BY <1>0, <1>3, <1>4, <1>5, <1>6, <1>7 DEF RouteInv, PersistInv, ScanInv

\* The inductive step, from the lemmas on the actions.
LEMMA IInvStep == IInv /\ [Next]_vars => IInv'
<1> SUFFICES ASSUME IInv, [Next]_vars PROVE IInv'
  OBVIOUS
<1>0. TypeOK /\ TipInv /\ ScanInv
  BY DEF IInv, ScanInv
<1>1. TypeOK' /\ TipInv' /\ Grows /\ \A c \in Chains : tip[c] <= tip'[c]
  BY <1>0, TypeStep, TipStep, NextGrows, TipGrows DEF ScanInv
<1> SUFFICES ScanInv'
  BY <1>1 DEF IInv, ScanInv
<1>2. CASE UNCHANGED <<stored, lastHeight, phase, cur, h, toHeight, queue, unrestored>>
  BY <1>0, <1>1, <1>2, EngineUnchanged
<1>3. CASE Tick \/ EndRound \/ EndRange
  BY <1>0, <1>1, <1>3, OutOfRangeStep DEF Tick, EndRound, EndRange, node, disk, history
<1>4. CASE \E c \in Chains : MineBlock(c) \/ NothingNew(c)
  BY <1>2, <1>4 DEF MineBlock, NothingNew, disk, memory, history
<1>5. CASE UNCHANGED vars
  BY <1>2, <1>5 DEF vars
<1> QED
  BY <1>0, <1>1, <1>3, <1>4, <1>5, CrashStep, StartStep, BeginRangeStep, CatchPinsStep,
     CatchPinsErrorStep, RouteBlockPinStep, BlockRoutedStep, PersistHeightStep
  DEF Next, Scan

-----------------------------------------------------------------------------
\* The invariant of the scanner.
LEMMA InvariantHolds == Spec => []IInv
BY InitIInv, IInvStep, PTL DEF Spec

\* The scanner's variables keep their types, over every interleaving of mining,
\* scanning, faults and crashes.
THEOREM TypeCorrect == Spec => []TypeOK
<1>1. IInv => TypeOK
  BY DEF IInv
<1> QED
  BY <1>1, InvariantHolds, PTL

\* scanRange never leaves a block behind the stored height that was neither
\* offered to every aggregator nor given up on by CatchPins.
THEOREM NoBlockLeftBehind == Spec => []NoSilentGap
<1>1. IInv => NoSilentGap
  BY DEF IInv
<1> QED
  BY <1>1, InvariantHolds, PTL

\* The stored height passes neither the node nor, once it was read back, the one
\* in memory, and memory does not pass the node.
THEOREM HeightsAreOrdered == Spec => []HeightsOrdered
<1>1. IInv => HeightsOrdered
  <2> SUFFICES ASSUME IInv, NEW c \in Chains
               PROVE  /\ stored[c] <= tip[c]
                      /\ phase # "down" /\ c \notin unrestored => stored[c] <= lastHeight[c]
                      /\ lastHeight[c] > StartHeight[c] => lastHeight[c] <= tip[c]
    BY DEF HeightsOrdered
  <2>1. /\ stored[c] <= tip[c]
        /\ lastHeight[c] <= tip[c] \/ lastHeight[c] = StartHeight[c]
    BY DEF IInv, BoundInv
  <2>2. phase # "down" /\ c \notin unrestored => stored[c] <= lastHeight[c]
    BY DEF IInv, MemoryInv
  <2>3. StartHeight[c] \in Nat
    BY ScannerAssumption
  <2> QED
    BY <2>1, <2>2, <2>3
<1> QED
  BY <1>1, InvariantHolds, PTL

\* What is fetched and routed lies above the configured height, and above the
\* resume point when the start could read it.
THEOREM ReplayIsAboveResumePoint == Spec => []ReplayAboveResumePoint
<1>1. IInv => ReplayAboveResumePoint
  BY DEF IInv, TypeOK, RangeInv, ReplayAboveResumePoint
<1> QED
  BY <1>1, InvariantHolds, PTL

\* No step, crash or failed write moves back a resume point that was read when the
\* process started.
THEOREM ResumePointNeverMovesBack == Spec => ResumePointMonotone
<1>1. IInv /\ [Next]_vars => [\A c \in Chains \ unrestored : stored'[c] >= stored[c]]_vars
  <2> SUFFICES ASSUME IInv, [Next]_vars, NEW c \in Chains \ unrestored
               PROVE  stored'[c] >= stored[c]
    OBVIOUS
  <2>1. TypeOK
    BY DEF IInv
  <2> USE DEF TypeOK
  <2>2. CASE UNCHANGED stored
    BY <2>1, <2>2
  <2>3. CASE PersistHeight
    <3>1. h \in Nat /\ cur \in Chains /\ (cur \notin unrestored => stored[cur] < h)
      BY <2>1, <2>3 DEF IInv, RangeInv, PersistHeight
    <3>2. stored \in [Chains -> Nat] /\ stored[c] \in Nat
      BY <2>1
    <3>3. stored' = [stored EXCEPT ![cur] = h] \/ stored' = stored
      BY <2>3 DEF PersistHeight
    <3>4. stored'[c] = stored[c] \/ (c = cur /\ stored'[c] = h)
      BY <3>1, <3>2, <3>3
    <3> QED
      BY <3>1, <3>2, <3>4
  <2> QED
    BY <2>2, <2>3
    DEF Next, Scan, vars, disk, MineBlock, Crash, Start, Tick, NothingNew, BeginRange,
        EndRound, CatchPins, CatchPinsError, RouteBlockPin, BlockRouted, EndRange
<1> QED
  BY <1>1, InvariantHolds, PTL DEF Spec, ResumePointMonotone

-----------------------------------------------------------------------------
(* A block is routed once in a life of the process.                        *)

\* What was fetched for routing in this life lies at or below the height in
\* memory, but for the block that is being routed.
LifeInv ==
    /\ phase = "down" => life = {}
    /\ \A c \in Chains, n \in Nat :
          <<c, n>> \in life => n <= lastHeight[c] \/ (phase = "route" /\ c = cur /\ n = h)

\* The lives of the pins are kept.
LEMMA LifeStep == IInv /\ LifeInv /\ [Next]_vars => LifeInv'
<1> SUFFICES ASSUME IInv, LifeInv, [Next]_vars PROVE LifeInv'
  OBVIOUS
<1>0. TypeOK
  BY DEF IInv
<1>a. /\ h \in Nat /\ lastHeight \in [Chains -> Nat]
      /\ phase \in {"catch", "route"} => lastHeight[cur] < h /\ cur \in Chains
  BY <1>0 DEF IInv, TypeOK, CatchInv, RouteInv, RangeInv
<1>b. ASSUME phase # "route", phase' # "down", UNCHANGED <<lastHeight, life>>
      PROVE  LifeInv'
  BY <1>b DEF LifeInv
<1>c. ASSUME phase' = phase, UNCHANGED <<lastHeight, life, cur, h>> PROVE LifeInv'
  BY <1>c DEF LifeInv
<1>d. ASSUME phase \in {"catch", "route"}, lastHeight' = [lastHeight EXCEPT ![cur] = h],
             phase' = "persist", UNCHANGED life
      PROVE  LifeInv'
  <2> SUFFICES ASSUME NEW c \in Chains, NEW n \in Nat, <<c, n>> \in life
               PROVE  n <= lastHeight'[c]
    BY <1>d DEF LifeInv
  <2>1. n <= lastHeight[c] \/ (c = cur /\ n = h)
    BY DEF LifeInv
  <2>2. lastHeight'[c] = IF c = cur THEN h ELSE lastHeight[c]
    BY <1>a, <1>d
  <2>3. lastHeight[c] \in Nat
    BY <1>a
  <2> QED
    BY <2>1, <2>2, <2>3, <1>a, <1>d
<1>1. CASE Crash
  BY <1>1 DEF Crash, LifeInv
<1>2. CASE Start
  BY <1>2 DEF Start, LifeInv
<1>3. CASE CatchPins
  <2>1. CASE queue' = <<>>
    <3>1. /\ phase = "catch" /\ phase' = "persist" /\ UNCHANGED life
          /\ lastHeight' = [lastHeight EXCEPT ![cur] = h]
      BY <1>3, <2>1 DEF CatchPins
    <3> QED
      BY <3>1, <1>d
  <2>2. CASE queue' # <<>>
    <3>1. /\ phase = "catch" /\ phase' = "route" /\ life' = life \cup {<<cur, h>>}
          /\ UNCHANGED <<lastHeight, cur, h>>
      BY <1>3, <2>2 DEF CatchPins
    <3> QED
      BY <3>1 DEF LifeInv
  <2> QED
    BY <2>1, <2>2
<1>4. CASE BlockRouted
  BY <1>4, <1>d DEF BlockRouted
<1>5. CASE Tick \/ EndRound \/ CatchPinsError \/ PersistHeight \/ EndRange
  BY <1>5, <1>b DEF Tick, EndRound, CatchPinsError, PersistHeight, EndRange
<1>6. ASSUME NEW c \in Chains, BeginRange(c) PROVE LifeInv'
  BY <1>6, <1>b DEF BeginRange
<1>7. CASE RouteBlockPin \/ UNCHANGED vars \/ \E c \in Chains : MineBlock(c) \/ NothingNew(c)
  BY <1>7, <1>c DEF RouteBlockPin, vars, memory, history, MineBlock, NothingNew
<1> QED
  BY <1>1, <1>2, <1>3, <1>4, <1>5, <1>6, <1>7 DEF Next, Scan

\* Errors of CatchPins, of handlers and of the store included, no block is routed
\* twice between two starts of the process.
THEOREM BlocksAreRoutedOnce == Spec => RoutedOncePerLife
<1>1. Init => LifeInv
  BY DEF Init, LifeInv
<1>2. IInv /\ LifeInv /\ [Next]_vars
      => [phase = "catch" /\ phase' = "route" => <<cur, h>> \notin life]_vars
  <2> SUFFICES ASSUME IInv, LifeInv, phase = "catch" PROVE <<cur, h>> \notin life
    OBVIOUS
  <2>1. /\ h \in Nat /\ cur \in Chains /\ lastHeight[cur] \in Nat
        /\ lastHeight[cur] < h
    BY DEF IInv, TypeOK, CatchInv, RangeInv
  <2> QED
    BY <2>1 DEF LifeInv
<1> QED
  BY <1>1, <1>2, LifeStep, InvariantHolds, PTL DEF Spec, RoutedOncePerLife

-----------------------------------------------------------------------------
(* The scanner implements the resumable consumer.                          *)

\* The initial states are those of the feed.
LEMMA InitRefines == Init => Feed!Init
<1> SUFFICES ASSUME Init PROVE Feed!Init
  OBVIOUS
<1>1. [c \in Chains |-> Committed(c)] = StartHeight
  BY ScannerAssumption DEF Init, Committed
<1>2. [c \in Chains |-> DoneBlocks(c)] \in [Chains -> SUBSET Nat]
  BY ScannerAssumption DEF DoneBlocks, BestKnown
<1> QED
  BY <1>1, <1>2 DEF Feed!Init

\* Any step that leaves the stored heights alone is progress.
LEMMA ProgressRefines ==
    Grows /\ UNCHANGED stored => Feed!Progress
<1> SUFFICES ASSUME Grows, UNCHANGED stored PROVE Feed!Progress
  OBVIOUS
<1>1. \A c \in Chains : DoneBlocks(c) \subseteq DoneBlocks(c)'
  BY DoneStable DEF DoneBlocks, BestKnown
<1>2. \A c \in Chains : DoneBlocks(c)' \subseteq Nat
  BY ScannerAssumption DEF DoneBlocks, BestKnown
<1>3. \A c \in Chains : Committed(c)' = Committed(c)
  BY DEF Committed
<1> QED
  BY <1>1, <1>2, <1>3 DEF Feed!Progress

\* The write of the stored height commits the block, a lost write changes nothing.
LEMMA PersistRefines == IInv /\ PersistHeight => [Feed!Next]_(Feed!fvars)
<1> SUFFICES ASSUME IInv, PersistHeight, stored' # stored
             PROVE  [Feed!Next]_(Feed!fvars)
  <2> SUFFICES ASSUME IInv, PersistHeight, UNCHANGED stored
               PROVE  [Feed!Next]_(Feed!fvars)
    OBVIOUS
  <2>1. TypeOK /\ Next
    BY DEF IInv, Next, Scan
  <2>2. Grows
    BY <2>1, NextGrows
  <2> QED
    BY <2>2, ProgressRefines DEF Feed!Next
<1>1. /\ h \in Nat /\ stored \in [Chains -> Nat] /\ lastHeight \in [Chains -> Nat]
      /\ tip \in [Chains -> Nat] /\ toHeight \in Nat
  BY DEF IInv, TypeOK
<1>2. /\ phase = "persist" /\ stored' = [stored EXCEPT ![cur] = h]
      /\ UNCHANGED <<handled, lost, skipped, cur>>
  BY DEF PersistHeight
<1>3. /\ cur \in Chains /\ lastHeight[cur] = h /\ h > StartHeight[cur]
      /\ h <= toHeight /\ toHeight <= tip[cur] /\ tip[cur] <= BestKnown(cur)
  BY <1>2 DEF IInv, RangeInv, PersistInv, TipInv, BestKnown
<1>4. BestKnown(cur) \in Nat
  BY <1>3, ScannerAssumption DEF BestKnown
<1>5. \A c \in Chains : DoneBlocks(c)' = DoneBlocks(c)
  BY <1>2 DEF DoneBlocks, Done, Accounted
<1>6. \A c \in Chains : c # cur => Committed(c)' = Committed(c)
  BY <1>1, <1>2 DEF Committed
<1>9. /\ StartHeight[cur] \in Nat /\ stored[cur] \in Nat
      /\ stored'[cur] = h /\ cur' = cur
  BY <1>1, <1>2, <1>3, ScannerAssumption
<1>7. Committed(cur)' = h
  BY <1>3, <1>9 DEF Committed
<1>8. \A m \in (StartHeight[cur] + 1) .. h : Done(cur, m)
  BY <1>2, <1>3 DEF IInv, MemoryInv, DoneUpTo
<1>10. (StartHeight[cur] + 1) .. h \subseteq DoneBlocks(cur)
  <2> SUFFICES ASSUME NEW m \in (StartHeight[cur] + 1) .. h
               PROVE  m \in 1 .. BestKnown(cur) /\ Done(cur, m)
    BY DEF DoneBlocks
  <2>1. m \in 1 .. BestKnown(cur)
    BY <1>1, <1>3, <1>4, <1>9
  <2> QED
    BY <2>1, <1>8
<1>11. h \in DoneBlocks(cur)
  BY <1>1, <1>3, <1>9, <1>10
<1>12. [c \in Chains |-> Committed(c)]' =
           [[c \in Chains |-> Committed(c)] EXCEPT ![cur] = h]
  BY <1>3, <1>6, <1>7, <1>9
<1>13. [c \in Chains |-> DoneBlocks(c)]' = [c \in Chains |-> DoneBlocks(c)]
  BY <1>5
<1>14. Feed!Commit(cur, h)
  BY <1>3, <1>10, <1>12, <1>13 DEF Feed!Commit
<1> QED
  BY <1>3, <1>11, <1>14 DEF Feed!Next

\* Crashes, failed RPCs, swallowed handler errors, lost writes and failed reads of
\* the height included, the scanner is a resumable consumer of its chains.
THEOREM ScannerIsResumableFeed == Spec => IsResumableFeed
<1>1. IInv /\ [Next]_vars => [Feed!Next]_(Feed!fvars)
  <2> SUFFICES ASSUME IInv, [Next]_vars PROVE [Feed!Next]_(Feed!fvars)
    OBVIOUS
  <2>1. CASE PersistHeight
    BY <2>1, PersistRefines
  <2>2. CASE ~PersistHeight
    <3>1. UNCHANGED stored
      BY <2>2
      DEF Next, Scan, vars, disk, MineBlock, Crash, Start, Tick, NothingNew, BeginRange,
          EndRound, CatchPins, CatchPinsError, RouteBlockPin, BlockRouted, EndRange
    <3>2. Feed!Progress
      BY <3>1, NextGrows, ProgressRefines DEF IInv
    <3> QED
      BY <3>2 DEF Feed!Next
  <2> QED
    BY <2>1, <2>2
<1> QED
  BY <1>1, InitRefines, InvariantHolds, PTL DEF Spec, IsResumableFeed, Feed!Spec
=============================================================================
