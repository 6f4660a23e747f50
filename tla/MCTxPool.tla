------------------------------ MODULE MCTxPool ------------------------------
(***************************************************************************)
(* Two accounts x and y, on a genesis block g with two forks: a1 and a2,   *)
(* which mine x1 and then y1, and b1, which mines the other x1 (x1b).  The *)
(* limits keep the order of the code's defaults (account slots 16 <        *)
(* account queue 64 < global queue 1024 = global slots 4096 / 4).          *)
(***************************************************************************)
EXTENDS TxPool, TLC

CONSTANTS x, y, g, a1, a2, b1, none, x1, x1b, x2, x3, y1, y2

MCAccount == {x, y}
MCTx == {x1, x1b, x2, x3, y1, y2}
MCFrom == [t \in MCTx |-> IF t \in {y1, y2} THEN y ELSE x]
MCNonce == (x1 :> 1) @@ (x1b :> 1) @@ (x2 :> 2) @@ (x3 :> 3) @@ (y1 :> 1) @@ (y2 :> 2)
MCFee == (x1 :> 4) @@ (x1b :> 3) @@ (x2 :> 2) @@ (x3 :> 3) @@ (y1 :> 3) @@ (y2 :> 1)
MCPrice == [t \in MCTx |-> IF t = x2 THEN 4 ELSE 1]

MCBlock == {g, a1, a2, b1}
MCParent == (g :> none) @@ (a1 :> g) @@ (a2 :> a1) @@ (b1 :> g)
MCLevel == (g :> 0) @@ (a1 :> 1) @@ (a2 :> 2) @@ (b1 :> 1)
MCBlockTxs == (g :> <<>>) @@ (a1 :> <<x1>>) @@ (a2 :> <<y1>>) @@ (b1 :> <<x1b>>)
MCStateNonce ==
    (g :> (x :> 1 @@ y :> 1)) @@ (a1 :> (x :> 2 @@ y :> 1)) @@
    (a2 :> (x :> 2 @@ y :> 2)) @@ (b1 :> (x :> 2 @@ y :> 1))
MCBalance ==
    (g :> (x :> 12 @@ y :> 6)) @@ (a1 :> (x :> 7 @@ y :> 7)) @@
    (a2 :> (x :> 7 @@ y :> 3)) @@ (b1 :> (x :> 3 @@ y :> 6))

MCSent == {x1b, y1}
MCReceived == {<<x1>>, <<x2>>, <<x3>>, <<y2>>, <<y1, x1b>>}

=============================================================================
