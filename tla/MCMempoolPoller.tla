-------------------------- MODULE MCMempoolPoller ---------------------------
(* mvc is fetched incrementally, btc is not; t1 carries two pins. *)
EXTENDS MempoolPoller, TLC

CONSTANTS btc, mvc, t1, t2, p1, p2, p3

MCChainOf == (t1 :> mvc) @@ (t2 :> btc)
MCTxPins == (t1 :> <<p1, p2>>) @@ (t2 :> <<p3>>)
=============================================================================
