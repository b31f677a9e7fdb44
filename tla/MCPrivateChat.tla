--------------------------- MODULE MCPrivateChat ----------------------------
(* A small instance of the private chat aggregator: two conversations of one *)
(* sender, one of them written from both sides. The block timestamps do not  *)
(* follow the order of the poll times, and two messages share one.           *)
EXTENDS PrivateChat

CONSTANTS alice, bob, carol

MCUsers == {alice, bob, carol}
MCPins == 1 .. 3
MCSender == <<alice, bob, alice>>
MCRecipient == <<bob, alice, carol>>
MCToForm == <<"global", "metaid", "global">>
MCTxOf == <<1, 2, 3>>
MCPollTime == <<2, 3, 2>>
MCBlockTime == <<3, 1, 3>>
MCKnown == {alice, bob}
MCNobody == {}

TwoUsers == {alice, bob}
TwoPins == 1 .. 2
TwoSender == <<alice, bob>>
TwoRecipient == <<bob, alice>>
TwoToForm == <<"global", "metaid">>
BothGlobal == <<"global", "global">>
TwoTxOf == <<1, 2>>
TwoPollTime == <<2, 3>>
TwoBlockTime == <<3, 1>>
JustB == {bob}
JustA == {alice}
=============================================================================
