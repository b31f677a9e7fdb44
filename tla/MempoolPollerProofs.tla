------------------------ MODULE MempoolPollerProofs -------------------------
(***************************************************************************)
(* What the two seen maps of the mempool poller may suppress, and for how  *)
(* long a routed transaction is not routed again, for any chains,          *)
(* transactions and aggregators, any TTL and any number of faults and      *)
(* crashes.                                                                *)
(***************************************************************************)
EXTENDS MempoolPoller, TLAPS

Instants == Nat \cup {Never}

\* The types the proof needs: the maps, the clock and what is in hand.
Types ==
    /\ now \in Nat /\ at \in Nat
    /\ txSeen \in [Txs -> Instants]
    /\ pinSeen \in [Txs -> Instants]
    /\ routedAt \in [Txs -> Instants]
    /\ handledM \in [Aggregators -> SUBSET Pins]
    /\ lostM \in [Aggregators -> SUBSET Pins]

FirstOffered(t) == TxPins[t] # <<>> => Offered(TxPins[t][1])

\* There is a batch only while it is routed; what is fetched was then parsed,
\* and those of its transactions that carry pins are marked.
InHand ==
    /\ at <= now
    /\ mphase # "route" => batch = {}
    /\ mphase = "route" =>
          /\ fetched \subseteq parsed
          /\ \A t \in fetched \cap Txs : TxPins[t] # <<>> => pinSeen[t] # Never
    /\ \A t \in batch \cap Txs : pinSeen[t] = at /\ TxPins[t] # <<>>

\* What is marked was parsed and offered, the batch in hand excepted.
Marked ==
    \A t \in Txs :
        /\ txSeen[t] # Never => t \in parsed /\ FirstOffered(t)
        /\ pinSeen[t] # Never /\ t \notin batch => FirstOffered(t)

\* A transaction was routed more than a TTL ago, or its mark is no older.
Remembered ==
    \A t \in Txs : routedAt[t] = Never \/ at - routedAt[t] > TTL
                     \/ (pinSeen[t] # Never /\ pinSeen[t] >= routedAt[t] /\ t \notin batch)

MInv == Types /\ InHand /\ Marked /\ Remembered

USE DEF Never

-----------------------------------------------------------------------------
(* The maps *)

\* What the purge of a map leaves is its entry; what it drops was over a TTL old.
LEMMA Purged ==
    ASSUME NEW seen \in [Txs -> Instants], NEW time \in Nat
    PROVE  /\ Purge(seen, time) \in [Txs -> Instants]
           /\ \A t \in Txs : \/ Purge(seen, time)[t] = seen[t]
                             \/ Purge(seen, time)[t] = Never /\ time - seen[t] > TTL
BY DEF Purge, Expired, Instants

\* What was offered stays offered.
LEMMA OfferedStays ==
    ASSUME NEW p, \A a \in Aggregators : handledM[a] \subseteq handledM'[a]
                                         /\ lostM[a] \subseteq lostM'[a]
    PROVE  Offered(p) => Offered(p)'
BY DEF Offered

-----------------------------------------------------------------------------
(* Initially and in every step *)

\* The start of the process.
LEMMA InitMInv == InitM => MInv
BY PollerAssumption
   DEF InitM, MInv, Types, InHand, Marked, Remembered, NothingSeen, Instants

\* The steps that leave the batch, the marks and the records alone.
LEMMA Quiet ==
    ASSUME MInv, at' = at, now' \in Nat, now <= now', batch' = batch,
           pinSeen' = pinSeen, txSeen' = txSeen, parsed' = parsed,
           routedAt' = routedAt, handledM' = handledM, lostM' = lostM,
           mphase' # "route" \/ (mphase' = mphase /\ fetched' = fetched),
           mphase' # "route" => batch' = {}
    PROVE  MInv'
<1>1. Types'
  BY DEF MInv, Types
<1>2. InHand'
  BY DEF MInv, Types, InHand
<1>3. Marked'
  BY DEF MInv, Marked, FirstOffered, Offered
<1>4. Remembered'
  BY DEF MInv, Remembered
<1> QED
  BY <1>1, <1>2, <1>3, <1>4 DEF MInv

\* The environment, a poll that begins or ends, and the fetching of a batch.
LEMMA OutsideSteps ==
    ASSUME MInv,
           \/ ClockTick
           \/ \E t \in Txs : TxArrives(t) \/ TxLeaves(t)
           \/ EndPoll
           \/ \E c \in Chains : ListError(c) \/ ListAll(c)
           \/ Fetch \/ ParseError
    PROVE  MInv'
<1>1. now \in Nat /\ (mphase # "route" => batch = {})
  BY DEF MInv, Types, InHand
<1>2. CASE ClockTick
  <2>1. now' \in Nat /\ now <= now'
    BY <1>1, <1>2 DEF ClockTick
  <2> QED
    BY <1>1, <1>2, <2>1, Quiet DEF ClockTick, memory
<1>3. CASE \E t \in Txs : TxArrives(t) \/ TxLeaves(t)
  BY <1>1, <1>3, Quiet DEF TxArrives, TxLeaves, memory
<1>4. CASE EndPoll
  BY <1>1, <1>4, Quiet DEF EndPoll
<1>5. CASE \E c \in Chains : ListError(c) \/ ListAll(c)
  BY <1>1, <1>5, Quiet DEF ListError, ListAll, NextChain
<1>6. CASE Fetch
  BY <1>1, <1>6, Quiet DEF Fetch, NextChain
<1>7. CASE ParseError
  BY <1>1, <1>7, Quiet DEF ParseError, NextChain
<1> QED
  BY <1>2, <1>3, <1>4, <1>5, <1>6, <1>7

\* A crash forgets the marks together with the record of what was routed.
LEMMA CrashStep == ASSUME MInv, CrashM PROVE MInv'
<1>1. Types'
  BY DEF MInv, Types, CrashM, NothingSeen, Instants
<1>2. InHand'
  BY DEF MInv, InHand, CrashM
<1>3. Marked' /\ Remembered'
  BY DEF Marked, Remembered, CrashM, NothingSeen
<1> QED
  BY <1>1, <1>2, <1>3 DEF MInv

\* A poll begins, no earlier than the one before.
LEMMA StartPollStep == ASSUME MInv, StartPoll PROVE MInv'
<1>1. Types'
  BY DEF MInv, Types, StartPoll
<1>2. InHand'
  BY DEF MInv, Types, InHand, StartPoll
<1>3. Marked'
  BY DEF MInv, Marked, FirstOffered, Offered, StartPoll
<1>4. Remembered'
  <2> SUFFICES ASSUME NEW t \in Txs, routedAt[t] # Never
               PROVE  \/ now - routedAt[t] > TTL
                      \/ pinSeen[t] # Never /\ pinSeen[t] >= routedAt[t] /\ t \notin batch
    BY DEF Remembered, StartPoll
  <2>1. /\ routedAt[t] \in Nat /\ at \in Nat /\ now \in Nat /\ at <= now
    BY DEF MInv, Types, InHand, Instants
  <2>2. at - routedAt[t] > TTL \/ (pinSeen[t] # Never /\ pinSeen[t] >= routedAt[t] /\ t \notin batch)
    BY DEF MInv, Remembered
  <2> QED
    BY <2>1, <2>2, PollerAssumption
<1> QED
  BY <1>1, <1>2, <1>3, <1>4 DEF MInv

\* The mempool is listed: the map of txids only loses entries.
LEMMA ListUnseenStep == ASSUME MInv, NEW c \in Chains, ListUnseen(c) PROVE MInv'
<1>1. /\ txSeen' \in [Txs -> Instants]
      /\ \A t \in Txs : txSeen'[t] # Never => txSeen[t] # Never
  BY Purged DEF MInv, Types, ListUnseen
<1>2. batch = {} /\ batch' = {} /\ mphase' # "route"
  BY DEF MInv, InHand, ListUnseen, NextChain
<1>3. /\ now' = now /\ at' = at /\ pinSeen' = pinSeen /\ routedAt' = routedAt
      /\ handledM' = handledM /\ lostM' = lostM /\ parsed' = parsed
  BY DEF ListUnseen
<1>4. Types'
  BY <1>1, <1>3 DEF MInv, Types
<1>5. InHand'
  BY <1>2, <1>3 DEF MInv, InHand
<1>6. Marked'
  BY <1>1, <1>2, <1>3 DEF MInv, Marked, FirstOffered, Offered
<1>7. Remembered'
  BY <1>2, <1>3 DEF MInv, Remembered
<1> QED
  BY <1>4, <1>5, <1>6, <1>7 DEF MInv

\* The batch is parsed: what is fresh is marked and becomes the batch, and it
\* was last routed over a TTL ago, if it was.
LEMMA ParseStep == ASSUME MInv, Parse PROVE MInv'
<1> DEFINE kept == Purge(pinSeen, at)
<1> DEFINE fresh == {t \in fetched : TxPins[t] # <<>> /\ kept[t] = Never}
<1>1. /\ mphase' = "route" /\ batch' = fresh /\ parsed' = parsed \cup fetched
      /\ pinSeen' = [t \in Txs |-> IF t \in fresh THEN at ELSE kept[t]]
      /\ now' = now /\ at' = at /\ txSeen' = txSeen /\ routedAt' = routedAt
      /\ handledM' = handledM /\ lostM' = lostM /\ fetched' = fetched
      /\ mphase # "route"
  BY DEF Parse
<1>2. /\ kept \in [Txs -> Instants]
      /\ \A t \in Txs : kept[t] = pinSeen[t] \/ (kept[t] = Never /\ at - pinSeen[t] > TTL)
  BY Purged DEF MInv, Types
<1>3. at \in Nat /\ batch = {} /\ at <= now
  BY <1>1 DEF MInv, Types, InHand
<1> HIDE DEF kept
<1>4. Types'
  <2>1. pinSeen' \in [Txs -> Instants]
    BY <1>1, <1>2, <1>3 DEF Instants
  <2> QED
    BY <1>1, <2>1 DEF MInv, Types
<1>5. InHand'
  <2>1. fetched' \subseteq parsed'
    BY <1>1
  <2>2. \A t \in fetched' \cap Txs : TxPins[t] # <<>> => pinSeen'[t] # Never
    BY <1>1, <1>3
  <2>3. \A t \in batch' \cap Txs : pinSeen'[t] = at' /\ TxPins[t] # <<>>
    BY <1>1
  <2> QED
    BY <1>1, <1>3, <2>1, <2>2, <2>3 DEF InHand
<1>6. Marked'
  <2>1. \A t \in Txs : FirstOffered(t)' = FirstOffered(t)
    BY <1>1 DEF FirstOffered, Offered
  <2>2. \A t \in Txs : txSeen'[t] # Never => t \in parsed' /\ FirstOffered(t)
    BY <1>1 DEF MInv, Marked
  <2>3. \A t \in Txs : pinSeen'[t] # Never /\ t \notin batch' => FirstOffered(t)
    BY <1>1, <1>2, <1>3 DEF MInv, Marked
  <2> QED
    BY <2>1, <2>2, <2>3 DEF Marked
<1>7. Remembered'
  <2> SUFFICES ASSUME NEW t \in Txs, routedAt[t] # Never
               PROVE  \/ at - routedAt[t] > TTL
                      \/ pinSeen'[t] # Never /\ pinSeen'[t] >= routedAt[t] /\ t \notin fresh
    BY <1>1 DEF Remembered
  <2>1. /\ routedAt[t] \in Nat /\ pinSeen[t] \in Nat \cup {-1}
    BY DEF MInv, Types, Instants
  <2>2. at - routedAt[t] > TTL \/ (pinSeen[t] # Never /\ pinSeen[t] >= routedAt[t])
    BY DEF MInv, Remembered
  <2>3. CASE kept[t] = pinSeen[t]
    BY <1>1, <2>2, <2>3
  <2>4. CASE kept[t] = Never /\ at - pinSeen[t] > TTL
    BY <1>3, <2>1, <2>2, <2>4, PollerAssumption
  <2> QED
    BY <1>2, <2>3, <2>4
<1> QED
  BY <1>4, <1>5, <1>6, <1>7 DEF MInv

\* A pin is routed: each aggregator handles or loses it.
LEMMA RouteStep == ASSUME MInv, NEW x \in Txs, RouteMempoolPin(x) PROVE MInv'
<1>1. /\ batch' = batch \ {x} /\ x \in batch /\ mphase = "route" /\ mphase' = "route"
      /\ routedAt' = [routedAt EXCEPT ![x] = at]
      /\ now' = now /\ at' = at /\ txSeen' = txSeen /\ pinSeen' = pinSeen
      /\ parsed' = parsed /\ fetched' = fetched
  BY DEF RouteMempoolPin
<1> DEFINE p == TxPins[x][1]
<1>2. PICK failing \in SUBSET Aggregators :
        /\ handledM' = [a \in Aggregators |->
                           IF a \in failing THEN handledM[a] ELSE handledM[a] \cup {p}]
        /\ lostM' = [a \in Aggregators |->
                        IF a \in failing THEN lostM[a] \cup {p} ELSE lostM[a]]
  BY DEF RouteMempoolPin
<1>3. Offered(p)'
  BY <1>2 DEF Offered
<1> HIDE DEF p
<1>4. \A a \in Aggregators : handledM[a] \subseteq handledM'[a] /\ lostM[a] \subseteq lostM'[a]
  BY <1>2
<1>5. \A t \in Txs : FirstOffered(t) => FirstOffered(t)'
  BY <1>4, OfferedStays DEF FirstOffered
<1>6. FirstOffered(x)'
  BY <1>3 DEF FirstOffered, p
<1>7. pinSeen[x] = at /\ at \in Nat
  BY <1>1 DEF MInv, Types, InHand
<1>8. InHand'
  BY <1>1 DEF MInv, InHand
<1>9. Types'
  <2>1. TxPins[x] # <<>> => p \in Pins
    BY PollerAssumption DEF p
  <2>2. TxPins[x] # <<>>
    BY <1>1 DEF MInv, InHand
  <2>3. /\ handledM' \in [Aggregators -> SUBSET Pins]
        /\ lostM' \in [Aggregators -> SUBSET Pins]
    BY <1>2, <2>1, <2>2 DEF MInv, Types
  <2>4. routedAt' \in [Txs -> Instants]
    BY <1>1, <1>7 DEF MInv, Types, Instants
  <2> QED
    BY <1>1, <2>3, <2>4 DEF MInv, Types
<1>10. Marked'
  BY <1>1, <1>5, <1>6 DEF MInv, Marked
<1>11. Remembered'
  BY <1>1, <1>7 DEF MInv, Types, Remembered
<1> QED
  BY <1>8, <1>9, <1>10, <1>11 DEF MInv

\* The batch is done: what was fetched is marked, and was offered.
LEMMA MarkFetchedStep == ASSUME MInv, MarkFetched PROVE MInv'
<1>1. /\ batch = {} /\ batch' = {} /\ mphase = "route" /\ mphase' = "list"
      /\ now' = now /\ at' = at /\ pinSeen' = pinSeen /\ routedAt' = routedAt
      /\ handledM' = handledM /\ lostM' = lostM /\ parsed' = parsed
  BY DEF MarkFetched, NextChain
<1>2. txSeen' = [t \in Txs |-> IF mcur \in Incremental /\ t \in fetched THEN at ELSE txSeen[t]]
  BY DEF MarkFetched, MInv, Types
<1>3. at \in Nat /\ at <= now /\ txSeen \in [Txs -> Instants]
  BY DEF MInv, Types, InHand
<1>4. Types'
  <2>1. txSeen' \in [Txs -> Instants]
    BY <1>2, <1>3 DEF Instants
  <2> QED
    BY <1>1, <2>1 DEF MInv, Types
<1>5. InHand'
  BY <1>1, <1>3 DEF InHand
<1>6. Marked'
  <2>1. \A t \in Txs : FirstOffered(t)' = FirstOffered(t)
    BY <1>1 DEF FirstOffered, Offered
  <2>2. \A t \in Txs : t \in fetched => t \in parsed /\ FirstOffered(t)
    BY <1>1 DEF MInv, InHand, Marked, FirstOffered
  <2>3. \A t \in Txs : txSeen'[t] # Never => t \in parsed /\ FirstOffered(t)
    BY <1>2, <2>2 DEF MInv, Marked
  <2>4. \A t \in Txs : pinSeen[t] # Never => FirstOffered(t)
    BY <1>1 DEF MInv, Marked
  <2> QED
    BY <1>1, <2>1, <2>3, <2>4 DEF Marked
<1>7. Remembered'
  BY <1>1 DEF MInv, Remembered
<1> QED
  BY <1>4, <1>5, <1>6, <1>7 DEF MInv

\* Every step of the poller and of its environment.
LEMMA StepMInv == MInv /\ [NextM]_mvars => MInv'
<1> SUFFICES ASSUME MInv, [NextM]_mvars PROVE MInv'
  OBVIOUS
<1>1. CASE UNCHANGED mvars
  BY <1>1 DEF mvars, MInv, Types, InHand, Marked, Remembered, FirstOffered, Offered
<1>2. CASE NextM
  BY <1>2, OutsideSteps, CrashStep, StartPollStep, ListUnseenStep, ParseStep, RouteStep,
     MarkFetchedStep
     DEF NextM, Poll
<1> QED
  BY <1>1, <1>2

\* In every reachable state.
LEMMA PollerInvariant == SpecM => []MInv
BY InitMInv, StepMInv, PTL DEF SpecM

-----------------------------------------------------------------------------
(* The theorems *)

\* A transaction that either map suppresses was offered to every aggregator,
\* whatever failed or crashed, and one marked as fetched was parsed
\* (pollMempoolOnce, markMempoolTxIDsSeen).
THEOREM MarksFollowOffers == SpecM => []SuppressedOnlyAfterOffer
<1>1. MInv => SuppressedOnlyAfterOffer
  BY DEF MInv, Marked, FirstOffered, SuppressedOnlyAfterOffer
<1> QED
  BY <1>1, PollerInvariant, PTL

\* Within one life of the process no transaction is routed by two polls that
\* begin within a TTL of each other (filterSeenMempoolPins).
THEOREM RoutedOncePerTTL == SpecM => NoRepeatWithinTTL
<1> DEFINE Fresh == \A t \in batch : t \notin batch' /\ mphase' # "down" =>
                       routedAt[t] = Never \/ at - routedAt[t] > TTL
<1>1. MInv /\ [NextM]_mvars => [Fresh]_mvars
  <2> SUFFICES ASSUME MInv, NextM, NEW t \in batch, t \notin batch', mphase' # "down"
               PROVE  routedAt[t] = Never \/ at - routedAt[t] > TTL
    OBVIOUS
  <2>1. mphase = "route"
    BY DEF MInv, InHand
  <2>2. t \in Txs
    BY <2>1 DEF NextM, Poll, ClockTick, TxArrives, TxLeaves, CrashM, StartPoll, EndPoll, ListError,
              ListAll, ListUnseen, Fetch, ParseError, Parse, RouteMempoolPin, MarkFetched, memory
  <2> QED
    BY <2>2 DEF MInv, Remembered
<1> QED
  BY <1>1, PollerInvariant, PTL DEF SpecM, NoRepeatWithinTTL

=============================================================================
