------------------------------- MODULE MCNode -------------------------------
(* Node on the chain of ChainInstance. *)
EXTENDS Node, ChainInstance
=============================================================================
