CONSTANTS
    btc = btc
    mvc = mvc
    p1 = p1
    p2 = p2
    p3 = p3
    p4 = p4
    Chains = {btc, mvc}
    Aggregators = {userinfo, privatechat}
    Pins = {p1, p2, p3, p4}
    BlockPins <- MCBlockPins
    StartHeight <- MCStartHeight
    NoChain = NoChain
    MaxFaults = 2
    MaxCrashes = 1
SPECIFICATION FairSpec
INVARIANTS
    NoSilentGap
PROPERTIES
    IsResumableFeed
    MinedBlockIsConsidered
