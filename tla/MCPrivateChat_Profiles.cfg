SPECIFICATION FairSpecC
CONSTANTS
    alice = alice
    bob = bob
    carol = carol
    None = None
    Users <- TwoUsers
    Pins <- TwoPins
    Sender <- TwoSender
    Recipient <- TwoRecipient
    ToForm <- BothGlobal
    TxOf <- TwoTxOf
    PollTime <- TwoPollTime
    BlockTime <- TwoBlockTime
    Known <- MCNobody
    Learnable <- JustB
    Scanner = scanner
    Poller = poller
    ChannelCap = 2
    MaxFaults = 0
PROPERTIES
    CallsReturn
CHECK_DEADLOCK FALSE
