--------------------------- MODULE MCBlockScanner ---------------------------
(* Two chains of three and two blocks; one starts above genesis. *)
EXTENDS BlockScanner, TLC

CONSTANTS btc, mvc, p1, p2, p3, p4

MCBlockPins == (btc :> <<<<p1>>, <<>>, <<p2, p3>>>>) @@ (mvc :> <<<<>>, <<p4>>>>)
MCStartHeight == (btc :> 0) @@ (mvc :> 1)
=============================================================================
