---------------------------- MODULE MCChainState ----------------------------
(* ChainState on the chain of ChainInstance. *)
EXTENDS ChainState, ChainInstance
=============================================================================
