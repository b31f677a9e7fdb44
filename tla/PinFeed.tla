------------------------------ MODULE PinFeed ------------------------------
(***************************************************************************)
(* What an aggregator sees of the indexer engine: the pins of each chain   *)
(* in block order, some of them once more before as mempool pins, and      *)
(* after a restart of the process the last blocks again.  BlockScanner and *)
(* MempoolPoller model how the engine produces this feed; the aggregators  *)
(* are modelled against it.                                                *)
(*                                                                         *)
(* A scenario gives every chain the sequence of pins its blocks will       *)
(* carry.  A pin has a block time, ts, and the time at which the poller    *)
(* met it, relay (CatchMempoolPins stamps the wall clock): no order        *)
(* between the two is assumed.                                             *)
(***************************************************************************)
EXTENDS Naturals, Sequences, TLC

CONSTANTS
    Scenarios,     \* set of functions from chains to sequences of pins
    StartsAt,      \* how many pins of a chain may lie below the start height
    MaxRestarts,   \* bound on the restarts of the process
    ReplayDepth,   \* how many handled pins of a chain a restart may repeat
    LateEcho       \* may the poller hand on a pin already seen in a block?

ASSUME FeedAssumption ==
    /\ StartsAt \subseteq Nat /\ MaxRestarts \in Nat /\ ReplayDepth \in Nat
    /\ LateEcho \in BOOLEAN

VARIABLES
    mined,      \* the scenario: what each chain will mine
    start,      \* pins of each chain below the height it is scanned from
    pos,        \* pins of each chain handled since the resume point
    high,       \* pins of each chain ever handled as block pins
    heard,      \* ids of the pins handled as mempool pins
    restarts

feedVars == <<mined, start, pos, high, heard, restarts>>

Chains == DOMAIN mined

FeedInit ==
    /\ mined \in Scenarios
    /\ start \in [Chains -> StartsAt]
    /\ \A c \in Chains : start[c] <= Len(mined[c])
    /\ pos = start
    /\ high = start
    /\ heard = {}
    /\ restarts = 0

\* The pin as a handler gets it: with the time and the origin of this copy.
AsBlockPin(p) == p @@ [at |-> p.ts, mem |-> FALSE]
AsMempoolPin(p) == p @@ [at |-> p.relay, mem |-> TRUE]

\* The scanner of chain c hands on its next pin.
NextBlockPin(c) == mined[c][pos[c] + 1]

FirstTime(c) == pos[c] = high[c]

Confirm(c) ==
    /\ pos[c] < Len(mined[c])
    /\ pos' = [pos EXCEPT ![c] = @ + 1]
    /\ high' = [high EXCEPT ![c] = IF FirstTime(c) THEN @ + 1 ELSE @]
    /\ UNCHANGED <<mined, start, heard, restarts>>

\* The poller of chain c hands on the pin at index i of that chain.
Hear(c, i) ==
    /\ mined[c][i].id \notin heard
    /\ LateEcho \/ high[c] < i
    /\ heard' = heard \cup {mined[c][i].id}
    /\ UNCHANGED <<mined, start, pos, high, restarts>>

\* The process stops and starts: the resume points may lie a little behind,
\* but not below the start height.
Restart ==
    /\ restarts < MaxRestarts
    /\ restarts' = restarts + 1
    /\ \E back \in [Chains -> 0..ReplayDepth] :
          /\ \A c \in Chains : start[c] + back[c] <= pos[c]
          /\ pos' = [c \in Chains |-> pos[c] - back[c]]
    /\ UNCHANGED <<mined, start, high, heard>>

\* Nothing is being repeated and every pin seen so far is in a block.
Settled ==
    \A c \in Chains :
        /\ pos[c] = high[c]
        /\ \A i \in DOMAIN mined[c] : mined[c][i].id \in heard => i <= high[c]

=============================================================================
