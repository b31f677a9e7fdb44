---------------------------- MODULE BlockScanner ----------------------------
(***************************************************************************)
(* The block half of the indexer engine (internal/indexer/engine.go): the  *)
(* one scanLoop goroutine that walks every registered chain from its last  *)
(* height to the node's best height, routes the pins of each block to the  *)
(* aggregators through the Registry and persists the height it reached.    *)
(*                                                                         *)
(* A step is what the goroutine does between two points where something    *)
(* else can happen: one RPC call, one pin routed, one write of the store.  *)
(* The process may die between any two steps; what the aggregators and     *)
(* persistHeight wrote survives (the store writes with pebble.Sync), the   *)
(* rest is lost.                                                           *)
(***************************************************************************)
EXTENDS Naturals, Sequences

CONSTANTS
    Chains,        \* the chains registered with the engine
    Aggregators,   \* the aggregators of the Registry
    Pins,          \* the pins the chains carry
    BlockPins,     \* [Chains -> Seq(Seq(Pins))]: what CatchPins finds in each block
    StartHeight,   \* [Chains -> Nat]: the startHeight given to RegisterChain
    NoChain,       \* no chain is being scanned
    MaxFaults,     \* bound: RPC, handler and store errors in a behaviour
    MaxCrashes     \* bound: crashes of the process in a behaviour

ASSUME ScannerAssumption ==
    /\ BlockPins \in [Chains -> Seq(Seq(Pins))]
    /\ StartHeight \in [Chains -> Nat]
    /\ NoChain \notin Chains
    /\ MaxFaults \in Nat
    /\ MaxCrashes \in Nat

VARIABLES
    tip,         \* tip[c]: best height the node of chain c reports
    stored,      \* stored[c]: value of "<c>_lastheight" in the store, 0 when absent
    lastHeight,  \* chainEntry.lastHeight, lost with the process
    phase,       \* where the goroutine stands: see Phase
    todo,        \* chains the current round still has to visit
    cur,         \* chain being scanned
    h,           \* scanRange's loop variable
    toHeight,    \* scanRange's upper end
    queue,       \* pins of block h not yet routed
    handled,     \* handled[a]: pins aggregator a handled without error (its durable effect)
    lost,        \* lost[a]: pins for which HandleBlockPin of a returned an error
    unrestored,  \* chains whose stored height could not be read when the process started
    skipped,     \* <<chain, height>> for which CatchPins returned an error
    life,        \* blocks routed, wholly or in part, since the process started
    faults,      \* errors so far
    crashes      \* crashes so far

node == <<tip>>
disk == <<stored, handled>>
memory == <<lastHeight, phase, todo, cur, h, toHeight, queue, life>>
history == <<lost, unrestored, skipped, faults, crashes>>
vars == <<tip, stored, handled, lastHeight, phase, todo, cur, h, toHeight,
          queue, life, lost, unrestored, skipped, faults, crashes>>

Phase == {"down", "idle", "round", "catch", "route", "persist"}

BestKnown(c) == Len(BlockPins[c])

TypeOK ==
    /\ tip \in [Chains -> Nat]
    /\ stored \in [Chains -> Nat]
    /\ lastHeight \in [Chains -> Nat]
    /\ phase \in Phase
    /\ todo \in SUBSET Chains
    /\ cur \in Chains \cup {NoChain}
    /\ h \in Nat
    /\ toHeight \in Nat
    /\ queue \in Seq(Pins)
    /\ handled \in [Aggregators -> SUBSET Pins]
    /\ lost \in [Aggregators -> SUBSET Pins]
    /\ unrestored \in SUBSET Chains
    /\ skipped \in SUBSET (Chains \X Nat)
    /\ life \in SUBSET (Chains \X Nat)
    /\ faults \in Nat
    /\ crashes \in Nat

(***************************************************************************)
(* NewEngine and RegisterChain run before Start; the store may be empty.   *)
(***************************************************************************)
Init ==
    /\ tip = [c \in Chains |-> 0]
    /\ stored = [c \in Chains |-> 0]
    /\ lastHeight = StartHeight
    /\ phase = "down"
    /\ todo = {}
    /\ cur = NoChain
    /\ h = 0
    /\ toHeight = 0
    /\ queue = <<>>
    /\ handled = [a \in Aggregators |-> {}]
    /\ lost = [a \in Aggregators |-> {}]
    /\ unrestored = {}
    /\ skipped = {}
    /\ life = {}
    /\ faults = 0
    /\ crashes = 0

-----------------------------------------------------------------------------
(* The environment.                                                        *)

\* The node of chain c connects one more block.
MineBlock(c) ==
    /\ tip[c] < BestKnown(c)
    /\ tip' = [tip EXCEPT ![c] = @ + 1]
    /\ UNCHANGED <<disk, memory, history>>

\* The process dies: every volatile variable is lost.
Crash ==
    /\ phase # "down"
    /\ crashes < MaxCrashes
    /\ crashes' = crashes + 1
    /\ phase' = "down"
    /\ lastHeight' = StartHeight
    /\ todo' = {}
    /\ cur' = NoChain
    /\ h' = 0
    /\ toHeight' = 0
    /\ queue' = <<>>
    /\ life' = {}
    /\ UNCHANGED <<node, disk, lost, unrestored, skipped, faults>>

-----------------------------------------------------------------------------
(* The engine.                                                             *)

\* restoreHeights: a stored height above zero replaces the configured one.
RestoredHeight(c) == IF stored[c] > 0 THEN stored[c] ELSE StartHeight[c]

\* Start: restore the heights, then scanLoop enters its first round (catchUpAll).
\* A chain whose stored height cannot be read keeps the configured one.
Start ==
    /\ phase = "down"
    /\ unrestored' \in SUBSET Chains
    /\ unrestored' # {} => faults < MaxFaults
    /\ faults' = IF unrestored' = {} THEN faults ELSE faults + 1
    /\ lastHeight' = [c \in Chains |->
                         IF c \in unrestored' THEN StartHeight[c] ELSE RestoredHeight(c)]
    /\ phase' = "round"
    /\ todo' = Chains
    /\ UNCHANGED <<node, disk, cur, h, toHeight, queue, life, lost, skipped, crashes>>

\* The ticker fires: scanNewBlocks starts a round over every chain.
Tick ==
    /\ phase = "idle"
    /\ phase' = "round"
    /\ todo' = Chains
    /\ UNCHANGED <<node, disk, history, lastHeight, cur, h, toHeight, queue, life>>

\* Chain c has nothing new, or GetBestHeight failed and reported 0.
NothingNew(c) ==
    /\ phase = "round"
    /\ c \in todo
    /\ \/ tip[c] <= lastHeight[c] /\ UNCHANGED faults
       \/ faults < MaxFaults /\ faults' = faults + 1
    /\ todo' = todo \ {c}
    /\ UNCHANGED <<node, disk, lastHeight, phase, cur, h, toHeight, queue, life,
                   lost, unrestored, skipped, crashes>>

\* Mutant: the upper end of the range is taken as exclusive.
BeginRange_Exclusive(c) ==
    /\ phase = "round"
    /\ c \in todo
    /\ tip[c] > lastHeight[c]
    /\ phase' = "catch"
    /\ cur' = c
    /\ h' = lastHeight[c] + 1
    /\ toHeight' = tip[c] - 1
    /\ UNCHANGED <<node, disk, history, lastHeight, todo, queue, life>>

\* Chain c has new blocks: scanRange(lastHeight + 1, best).
BeginRange(c) ==
    /\ phase = "round"
    /\ c \in todo
    /\ tip[c] > lastHeight[c]
    /\ phase' = "catch"
    /\ cur' = c
    /\ h' = lastHeight[c] + 1
    /\ toHeight' = tip[c]
    /\ UNCHANGED <<node, disk, history, lastHeight, todo, queue, life>>

\* Every chain has been visited: back to the select of scanLoop.
EndRound ==
    /\ phase = "round"
    /\ todo = {}
    /\ phase' = "idle"
    /\ UNCHANGED <<node, disk, history, lastHeight, todo, cur, h, toHeight, queue, life>>

\* CatchPins(h) succeeds. An empty block goes straight to the height update.
CatchPins ==
    /\ phase = "catch"
    /\ h <= toHeight
    /\ queue' = BlockPins[cur][h]
    /\ IF queue' = <<>>
       THEN /\ phase' = "persist"
            /\ lastHeight' = [lastHeight EXCEPT ![cur] = h]
            /\ UNCHANGED life
       ELSE /\ phase' = "route"
            /\ life' = life \cup {<<cur, h>>}
            /\ UNCHANGED lastHeight
    /\ UNCHANGED <<node, disk, history, todo, cur, h, toHeight>>

\* CatchPins(h) returns an error: log and continue with the next height.
CatchPinsError ==
    /\ phase = "catch"
    /\ h <= toHeight
    /\ faults < MaxFaults
    /\ faults' = faults + 1
    /\ skipped' = skipped \cup {<<cur, h>>}
    /\ h' = h + 1
    /\ UNCHANGED <<node, disk, lastHeight, phase, todo, cur, toHeight, queue, life,
                   lost, unrestored, crashes>>

\* RouteBlockPin: every aggregator is called, an error of one is swallowed.
RouteBlockPin ==
    /\ phase = "route"
    /\ queue # <<>>
    /\ \E failing \in SUBSET Aggregators :
        /\ failing # {} => faults < MaxFaults
        /\ faults' = IF failing = {} THEN faults ELSE faults + 1
        /\ handled' = [a \in Aggregators |->
                          IF a \in failing THEN handled[a]
                          ELSE handled[a] \cup {Head(queue)}]
        /\ lost' = [a \in Aggregators |->
                       IF a \in failing THEN lost[a] \cup {Head(queue)} ELSE lost[a]]
    /\ queue' = Tail(queue)
    /\ UNCHANGED <<node, stored, lastHeight, phase, todo, cur, h, toHeight, life,
                   unrestored, skipped, crashes>>

\* Mutant: the height is taken before all pins are routed.
BlockRouted_Early ==
    /\ phase = "route"
    /\ lastHeight' = [lastHeight EXCEPT ![cur] = h]
    /\ phase' = "persist"
    /\ UNCHANGED <<node, disk, history, todo, cur, h, toHeight, queue, life>>
\* All pins of the block are routed: entry.lastHeight = h.
BlockRouted ==
    /\ phase = "route"
    /\ queue = <<>>
    /\ lastHeight' = [lastHeight EXCEPT ![cur] = h]
    /\ phase' = "persist"
    /\ UNCHANGED <<node, disk, history, todo, cur, h, toHeight, queue, life>>

\* persistHeight, whose error is only logged; the loop goes on either way.
PersistHeight ==
    /\ phase = "persist"
    /\ \/ stored' = [stored EXCEPT ![cur] = h] /\ UNCHANGED faults
       \/ faults < MaxFaults /\ faults' = faults + 1 /\ UNCHANGED stored
    /\ phase' = "catch"
    /\ h' = h + 1
    /\ UNCHANGED <<node, handled, lastHeight, todo, cur, toHeight, queue, life,
                   lost, unrestored, skipped, crashes>>

\* scanRange returns.
EndRange ==
    /\ phase = "catch"
    /\ h > toHeight
    /\ phase' = "round"
    /\ todo' = todo \ {cur}
    /\ cur' = NoChain
    /\ UNCHANGED <<node, disk, history, lastHeight, h, toHeight, queue, life>>

Scan ==
    \/ Start
    \/ Tick
    \/ \E c \in Chains : NothingNew(c) \/ BeginRange(c)
    \/ EndRound
    \/ CatchPins
    \/ CatchPinsError
    \/ RouteBlockPin
    \/ BlockRouted
    \/ PersistHeight
    \/ EndRange

Next ==
    \/ \E c \in Chains : MineBlock(c)
    \/ Crash
    \/ Scan

Spec == Init /\ [][Next]_vars

(***************************************************************************)
(* The goroutine never stops on its own: its loop is driven by a ticker    *)
(* and every error leads to the next iteration.                            *)
(***************************************************************************)
FairSpec == Spec /\ WF_vars(Scan)

-----------------------------------------------------------------------------
(* Properties.                                                             *)

PinsOf(s) == {s[i] : i \in DOMAIN s}

\* Every aggregator handled the pins of block n of chain c, or failed on them.
Accounted(c, n) ==
    \A a \in Aggregators : PinsOf(BlockPins[c][n]) \subseteq handled[a] \cup lost[a]

\* A block is done when it was offered to every aggregator or given up on.
Done(c, n) == Accounted(c, n) \/ <<c, n>> \in skipped

\* A block at or below the stored height has been offered to every aggregator
\* unless CatchPins failed on it: the height is persisted only after routing,
\* so no crash can put a block behind the resume point unprocessed
\* (scanRange, engine.go).
NoSilentGap ==
    \A c \in Chains : \A n \in (StartHeight[c] + 1) .. stored[c] :
        Done(c, n)

\* What is stored never runs ahead of the node nor, once it was read back, of
\* memory; memory never runs ahead of the node: a resume can lag but cannot jump
\* over blocks.
HeightsOrdered ==
    \A c \in Chains :
        /\ stored[c] <= tip[c]
        /\ phase # "down" /\ c \notin unrestored => stored[c] <= lastHeight[c]
        /\ lastHeight[c] > StartHeight[c] => lastHeight[c] <= tip[c]

\* The resume point only moves forward, over crashes and failed writes too; only
\* a start that could not read it lets the scanner write a lower one.
ResumePointMonotone ==
    [][\A c \in Chains \ unrestored : stored'[c] >= stored[c]]_vars

\* Within one life of the process a block is fetched for routing at most once,
\* whatever CatchPins errors made the scanner skip or revisit.
RoutedOncePerLife ==
    [][phase = "catch" /\ phase' = "route" => <<cur, h>> \notin life]_vars

\* A restart that read the resume point replays only blocks above it, and no
\* start replays blocks at or below the configured height.
ReplayAboveResumePoint ==
    phase \in {"catch", "route"} =>
        /\ h > StartHeight[cur]
        /\ cur \notin unrestored => h > stored[cur]

\* The scanner implements a resumable consumer of the chains: the resume point
\* is the stored height, or the configured one while nothing is stored.
Committed(c) == IF stored[c] > StartHeight[c] THEN stored[c] ELSE StartHeight[c]
DoneBlocks(c) == {n \in 1 .. BestKnown(c) : Done(c, n)}

Feed == INSTANCE ResumableFeed WITH
            Feeds <- Chains,
            First <- StartHeight,
            done <- [c \in Chains |-> DoneBlocks(c)],
            committed <- [c \in Chains |-> Committed(c)]

\* Refinement: crashes, failed RPCs, swallowed handler errors, lost writes and
\* failed reads of the height included, every step is one of the consumer's.
IsResumableFeed == Feed!Spec

\* A mined block is eventually offered to every aggregator, or CatchPins
\* failed on it, when errors and crashes stop.
MinedBlockIsConsidered ==
    \A c \in Chains : \A n \in 1 .. BestKnown(c) :
        (n > StartHeight[c] /\ tip[c] >= n) ~>
            Done(c, n)
=============================================================================
