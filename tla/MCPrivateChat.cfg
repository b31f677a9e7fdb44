SPECIFICATION SpecC
CONSTANTS
    alice = alice
    bob = bob
    carol = carol
    None = None
    Users <- MCUsers
    Pins <- MCPins
    Sender <- MCSender
    Recipient <- MCRecipient
    ToForm <- MCToForm
    TxOf <- MCTxOf
    PollTime <- MCPollTime
    BlockTime <- MCBlockTime
    Known <- MCKnown
    Learnable <- MCNobody
    Scanner = scanner
    Poller = poller
    ChannelCap = 1
    MaxFaults = 1
INVARIANTS
    IndexContinuous
    ReadModelAgrees
    EachPinOnce
PROPERTIES
    StoredMessageIsKept
CHECK_DEADLOCK FALSE
