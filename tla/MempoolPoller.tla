--------------------------- MODULE MempoolPoller ----------------------------
(***************************************************************************)
(* The mempool half of the indexer engine (internal/indexer/engine.go):    *)
(* zmqLoop calls pollMempoolOnce on a ticker. One poll visits every chain, *)
(* asks its node for the mempool, parses pins, drops what mempoolSeen has  *)
(* seen within the TTL, routes the rest and, on a chain that can be        *)
(* fetched incrementally, remembers the fetched txids in mempoolTxSeen.    *)
(*                                                                         *)
(* Both maps are keyed by chain and transaction id (mempoolStableIDForPin  *)
(* reduces a pin to its GenesisTransaction), so they are functions on      *)
(* transactions here. They live in memory only.                            *)
(***************************************************************************)
EXTENDS Integers, Sequences

CONSTANTS
    Chains,
    Incremental,   \* chains that implement IncrementalMempoolChain
    Aggregators,
    Txs,           \* transactions
    Pins,
    ChainOf,       \* [Txs -> Chains]
    TxPins,        \* [Txs -> Seq(Pins)]: the pins parsed from a transaction
    NoChain,
    TTL,           \* mempoolDedupeTTL
    MaxTime,       \* bound on the clock
    MaxFaults,     \* bound: RPC, parse and handler errors
    MaxCrashes     \* bound: crashes of the process

ASSUME PollerAssumption ==
    /\ Incremental \subseteq Chains
    /\ ChainOf \in [Txs -> Chains]
    /\ TxPins \in [Txs -> Seq(Pins)]
    /\ NoChain \notin Chains
    /\ TTL \in Nat \ {0}
    /\ MaxTime \in Nat
    /\ MaxFaults \in Nat
    /\ MaxCrashes \in Nat

Never == -1
Time == 0 .. MaxTime

VARIABLES
    now,         \* the wall clock
    mempool,     \* transactions in the mempools of the nodes
    mphase,      \* where the goroutine stands
    mtodo,       \* chains this poll still has to visit
    mcur,        \* chain being polled
    at,          \* the time.Now() taken when the poll began
    pending,     \* txids to fetch (filterUnseenMempoolTxIDs)
    fetched,     \* transactions in hand (txList)
    batch,       \* pins that passed filterSeenMempoolPins and are not routed yet
    txSeen,      \* mempoolTxSeen
    pinSeen,     \* mempoolSeen
    handledM,    \* handledM[a]: pins HandleMempoolPin of a accepted (durable effect)
    lostM,       \* lostM[a]: pins for which HandleMempoolPin of a returned an error
    parsed,      \* transactions parsed without error in this life of the process
    routedAt,    \* poll time at which a transaction's pin was last routed in this life
    mfaults,
    mcrashes

memory == <<mphase, mtodo, mcur, at, pending, fetched, batch, txSeen, pinSeen>>
mvars == <<now, mempool, mphase, mtodo, mcur, at, pending, fetched, batch,
           txSeen, pinSeen, handledM, lostM, parsed, routedAt, mfaults, mcrashes>>

NothingSeen == [t \in Txs |-> Never]

InitM ==
    /\ now = 0
    /\ mempool = {}
    /\ mphase = "down"
    /\ mtodo = {}
    /\ mcur = NoChain
    /\ at = 0
    /\ pending = {}
    /\ fetched = {}
    /\ batch = {}
    /\ txSeen = NothingSeen
    /\ pinSeen = NothingSeen
    /\ handledM = [a \in Aggregators |-> {}]
    /\ lostM = [a \in Aggregators |-> {}]
    /\ parsed = {}
    /\ routedAt = NothingSeen
    /\ mfaults = 0
    /\ mcrashes = 0

-----------------------------------------------------------------------------
(* The environment.                                                        *)

ClockTick ==
    /\ now < MaxTime
    /\ now' = now + 1
    /\ UNCHANGED <<memory, mempool, handledM, lostM, parsed, routedAt, mfaults, mcrashes>>

\* A transaction reaches the mempool of its chain's node.
TxArrives(t) ==
    /\ t \notin mempool
    /\ mempool' = mempool \cup {t}
    /\ UNCHANGED <<memory, now, handledM, lostM, parsed, routedAt, mfaults, mcrashes>>

\* It leaves it: mined, replaced or evicted.
TxLeaves(t) ==
    /\ t \in mempool
    /\ mempool' = mempool \ {t}
    /\ UNCHANGED <<memory, now, handledM, lostM, parsed, routedAt, mfaults, mcrashes>>

CrashM ==
    /\ mphase # "down"
    /\ mcrashes < MaxCrashes
    /\ mcrashes' = mcrashes + 1
    /\ mphase' = "down"
    /\ mtodo' = {}
    /\ mcur' = NoChain
    /\ pending' = {}
    /\ fetched' = {}
    /\ batch' = {}
    /\ txSeen' = NothingSeen
    /\ pinSeen' = NothingSeen
    /\ parsed' = {}
    /\ routedAt' = NothingSeen
    /\ UNCHANGED <<now, mempool, at, handledM, lostM, mfaults>>

-----------------------------------------------------------------------------
(* The goroutine.                                                          *)

Fault == mfaults < MaxFaults /\ mfaults' = mfaults + 1

\* Mutant: the entry expires one instant early.
Expired_Early(seenAt, time) == time - seenAt >= TTL

\* now.Sub(seenAt) > mempoolDedupeTTL
Expired(seenAt, time) == time - seenAt > TTL

\* Both filters first delete every entry older than the TTL.
Purge(seen, time) ==
    [t \in Txs |-> IF seen[t] # Never /\ Expired(seen[t], time) THEN Never ELSE seen[t]]

\* zmqLoop starts (its first poll is immediate) or its ticker fires.
StartPoll ==
    /\ mphase \in {"down", "idle"}
    /\ mphase' = "list"
    /\ mtodo' = Chains
    /\ at' = now
    /\ UNCHANGED <<now, mempool, mcur, pending, fetched, batch, txSeen, pinSeen,
                   handledM, lostM, parsed, routedAt, mfaults, mcrashes>>

EndPoll ==
    /\ mphase = "list"
    /\ mtodo = {}
    /\ mphase' = "idle"
    /\ UNCHANGED <<now, mempool, mtodo, mcur, at, pending, fetched, batch, txSeen,
                   pinSeen, handledM, lostM, parsed, routedAt, mfaults, mcrashes>>

\* Leave the chain being polled: every `continue` of pollMempoolOnce ends here.
NextChain(c) ==
    /\ mphase' = "list"
    /\ mtodo' = mtodo \ {c}
    /\ mcur' = NoChain
    /\ pending' = {}
    /\ fetched' = {}
    /\ batch' = {}

InMempool(c) == {t \in mempool : ChainOf[t] = c}

\* The RPC that lists the mempool fails: log, next chain.
ListError(c) ==
    /\ mphase = "list"
    /\ c \in mtodo
    /\ Fault
    /\ NextChain(c)
    /\ UNCHANGED <<now, mempool, at, txSeen, pinSeen, handledM, lostM, parsed,
                   routedAt, mcrashes>>

\* A chain without the incremental interface lists and fetches everything; a
\* transaction whose raw fetch fails is left out of the list.
ListAll(c) ==
    /\ mphase = "list"
    /\ c \in mtodo \ Incremental
    /\ \E got \in SUBSET InMempool(c) :
        /\ IF got = InMempool(c) THEN UNCHANGED mfaults ELSE Fault
        /\ IF got = {}
           THEN NextChain(c)
           ELSE /\ mphase' = "parse"
                /\ mcur' = c
                /\ fetched' = got
                /\ UNCHANGED <<mtodo, pending, batch>>
    /\ UNCHANGED <<now, mempool, at, txSeen, pinSeen, handledM, lostM, parsed,
                   routedAt, mcrashes>>

\* GetMempoolTransactionIDs, then filterUnseenMempoolTxIDs.
ListUnseen(c) ==
    /\ mphase = "list"
    /\ c \in mtodo \cap Incremental
    /\ txSeen' = Purge(txSeen, at)
    /\ LET unseen == {t \in InMempool(c) : txSeen'[t] = Never}
       IN IF unseen = {}
          THEN NextChain(c)
          ELSE /\ mphase' = "fetch"
               /\ mcur' = c
               /\ pending' = unseen
               /\ UNCHANGED <<mtodo, fetched, batch>>
    /\ UNCHANGED <<now, mempool, at, pinSeen, handledM, lostM, parsed, routedAt,
                   mfaults, mcrashes>>

\* GetMempoolTransactions skips a transaction whose raw fetch fails; one that
\* left the mempool meanwhile may still be known to the node.
Fetch ==
    /\ mphase = "fetch"
    /\ \E got \in SUBSET pending :
        /\ IF pending \cap mempool \subseteq got THEN UNCHANGED mfaults ELSE Fault
        /\ IF got = {}
           THEN NextChain(mcur)
           ELSE /\ mphase' = "parse"
                /\ fetched' = got
                /\ UNCHANGED <<mtodo, mcur, pending, batch>>
    /\ UNCHANGED <<now, mempool, at, txSeen, pinSeen, handledM, lostM, parsed,
                   routedAt, mcrashes>>

\* Mutant: a batch that failed to parse is marked as seen all the same.
ParseError_Marks ==
    /\ mphase = "parse"
    /\ Fault
    /\ txSeen' = [t \in Txs |-> IF t \in fetched THEN at ELSE txSeen[t]]
    /\ NextChain(mcur)
    /\ UNCHANGED <<now, mempool, at, pinSeen, handledM, lostM, parsed, routedAt, mcrashes>>

\* CatchMempoolPins fails: nothing of this batch is marked as seen.
ParseError ==
    /\ mphase = "parse"
    /\ Fault
    /\ NextChain(mcur)
    /\ UNCHANGED <<now, mempool, at, txSeen, pinSeen, handledM, lostM, parsed,
                   routedAt, mcrashes>>

\* CatchMempoolPins, then filterSeenMempoolPins: of each transaction not seen
\* within the TTL the first pin is kept and the transaction is marked at once.
Parse ==
    /\ mphase = "parse"
    /\ parsed' = parsed \cup fetched
    /\ LET kept == Purge(pinSeen, at)
           fresh == {t \in fetched : TxPins[t] # <<>> /\ kept[t] = Never}
       IN /\ batch' = fresh
          /\ pinSeen' = [t \in Txs |-> IF t \in fresh THEN at ELSE kept[t]]
    /\ mphase' = "route"
    /\ UNCHANGED <<now, mempool, mtodo, mcur, at, pending, fetched, txSeen,
                   handledM, lostM, routedAt, mfaults, mcrashes>>

\* RouteMempoolPin of the pin kept for transaction t.
RouteMempoolPin(t) ==
    /\ mphase = "route"
    /\ t \in batch
    /\ \E failing \in SUBSET Aggregators :
        /\ IF failing = {} THEN UNCHANGED mfaults ELSE Fault
        /\ handledM' = [a \in Aggregators |->
                           IF a \in failing THEN handledM[a]
                           ELSE handledM[a] \cup {TxPins[t][1]}]
        /\ lostM' = [a \in Aggregators |->
                        IF a \in failing THEN lostM[a] \cup {TxPins[t][1]} ELSE lostM[a]]
    /\ batch' = batch \ {t}
    /\ routedAt' = [routedAt EXCEPT ![t] = at]
    /\ UNCHANGED <<now, mempool, mphase, mtodo, mcur, at, pending, fetched, txSeen,
                   pinSeen, parsed, mcrashes>>

\* Mutant: the txids are marked before the batch is routed.
MarkFetched_BeforeRouting ==
    /\ mphase = "route"
    /\ txSeen' = [t \in Txs |-> IF t \in fetched THEN at ELSE txSeen[t]]
    /\ NextChain(mcur)
    /\ UNCHANGED <<now, mempool, at, pinSeen, handledM, lostM, parsed, routedAt,
                   mfaults, mcrashes>>

\* markMempoolTxIDsSeen, with the txids an incremental fetch returned.
MarkFetched ==
    /\ mphase = "route"
    /\ batch = {}
    /\ txSeen' = IF mcur \in Incremental
                 THEN [t \in Txs |-> IF t \in fetched THEN at ELSE txSeen[t]]
                 ELSE txSeen
    /\ NextChain(mcur)
    /\ UNCHANGED <<now, mempool, at, pinSeen, handledM, lostM, parsed, routedAt,
                   mfaults, mcrashes>>

Poll ==
    \/ StartPoll
    \/ EndPoll
    \/ \E c \in Chains : ListError(c) \/ ListAll(c) \/ ListUnseen(c)
    \/ Fetch
    \/ ParseError
    \/ Parse
    \/ \E t \in Txs : RouteMempoolPin(t)
    \/ MarkFetched

NextM ==
    \/ ClockTick
    \/ \E t \in Txs : TxArrives(t) \/ TxLeaves(t)
    \/ CrashM
    \/ Poll

SpecM == InitM /\ [][NextM]_mvars

\* The goroutine is driven by a ticker and every error leads to the next poll.
FairSpecM == SpecM /\ WF_mvars(Poll)

-----------------------------------------------------------------------------
(* Properties.                                                             *)

Offered(p) == \A a \in Aggregators : p \in handledM[a] \cup lostM[a]

\* A transaction that either map suppresses had its first pin offered to every
\* aggregator, whatever failed or crashed in between; only the batch in hand
\* is marked ahead of its routing (pollMempoolOnce). And an incrementally fetched
\* transaction is marked only after it was parsed, so that a transient fetch or
\* parse failure is retried (SIMPLEMSG_DELIVERY_CONTRACT.md:10).
SuppressedOnlyAfterOffer ==
    \A t \in Txs :
        /\ txSeen[t] # Never => t \in parsed
        /\ /\ TxPins[t] # <<>>
           /\ txSeen[t] # Never \/ (pinSeen[t] # Never /\ t \notin batch)
           => Offered(TxPins[t][1])

\* Within one life of the process no transaction is routed twice by polls that
\* begin within the TTL of each other.
NoRepeatWithinTTL ==
    [][\A t \in batch : t \notin batch' /\ mphase' # "down" =>
          routedAt[t] = Never \/ at - routedAt[t] > TTL]_mvars

\* A transaction that stays in the mempool is offered to the aggregators.
MempoolTxIsOffered ==
    \A t \in Txs : TxPins[t] # <<>> =>
        (t \in mempool ~> (t \notin mempool \/ Offered(TxPins[t][1])))
=============================================================================
