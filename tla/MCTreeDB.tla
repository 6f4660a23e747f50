------------------------------ MODULE MCTreeDB ------------------------------
(***************************************************************************)
(* TreeDB with two accounts, the coinbase m and another account a.  m's    *)
(* balance is the age of a content: blocks credit it.                      *)
(***************************************************************************)
EXTENDS TreeDB

MCAge == [c \in Content |-> IF c["m"] \in Value THEN c["m"] ELSE -1]
MCWrites == {<<"m", 0>>, <<"m", 1>>, <<"a", 0>>, <<"a", Deleted>>}
MCBatches ==
    {[k \in {"m"} |-> 1], [k \in {"m", "a"} |-> IF k = "m" THEN 1 ELSE Deleted]}

=============================================================================
