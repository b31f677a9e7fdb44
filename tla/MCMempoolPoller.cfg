CONSTANTS
    btc = btc
    mvc = mvc
    t1 = t1
    t2 = t2
    p1 = p1
    p2 = p2
    p3 = p3
    Chains = {btc, mvc}
    Incremental = {mvc}
    Aggregators = {userinfo, privatechat}
    Txs = {t1, t2}
    Pins = {p1, p2, p3}
    ChainOf <- MCChainOf
    TxPins <- MCTxPins
    NoChain = NoChain
    TTL = 1
    MaxTime = 3
    MaxFaults = 1
    MaxCrashes = 1
SPECIFICATION FairSpecM
INVARIANTS
    SuppressedOnlyAfterOffer
PROPERTIES
    NoRepeatWithinTTL
    MempoolTxIsOffered
