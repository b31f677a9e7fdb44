SPECIFICATION SpecC
CONSTANTS
    alice = alice
    bob = bob
    carol = carol
    None = None
    Users <- TwoUsers
    Pins <- TwoPins
    Sender <- TwoSender
    Recipient <- TwoRecipient
    ToForm <- BothGlobal
    TxOf <- TwoTxOf
    PollTime <- TwoPollTime
    BlockTime <- TwoBlockTime
    Known <- JustB
    Learnable <- JustA
    Scanner = scanner
    Poller = poller
    ChannelCap = 2
    MaxFaults = 0
INVARIANTS
    IndexContinuous
CHECK_DEADLOCK FALSE
