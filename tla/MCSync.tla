------------------------------- MODULE MCSync -------------------------------
(***************************************************************************)
(* Sync with a peer p on branch b and a peer q that has less of it, while  *)
(* the node's own miner works on branch a.  The numbers of the protocol    *)
(* are scaled down: blocks come two at a time and the search goes back by  *)
(* one level.                                                              *)
(***************************************************************************)
EXTENDS Sync

MCBlock == {"g", "a1", "a2", "b1", "b2", "b3", "b4"}
MCParent == [g |-> "none", a1 |-> "g", a2 |-> "a1", b1 |-> "g", b2 |-> "b1", b3 |-> "b2", b4 |-> "b3"]
MCLevel == [g |-> 0, a1 |-> 1, a2 |-> 2, b1 |-> 1, b2 |-> 2, b3 |-> 3, b4 |-> 4]
MCKeyOrder == <<"g", "a1", "b1", "a2", "b2", "b3", "b4">>
MCSound == MCBlock
MCPeerChain == [p |-> <<"b1", "b2", "b3", "b4">>, q |-> <<"b1">>]
MCFirstTip == [p |-> 3, q |-> 0]

=============================================================================
