--------------------------- MODULE ChainInstance ---------------------------
(***************************************************************************)
(* The small chain on which ChainState and Node are model-checked: two     *)
(* branches from genesis, a of levels 1..2 and b of levels 1..3, and a     *)
(* block x that does not verify.  a1 is a block on which                   *)
(* apply_txs_no_commit and finalize disagree (a coinbase that has no       *)
(* account yet, or that the block's transactions pay or debit).            *)
(***************************************************************************)
MCBlock == {"g", "a1", "a2", "b1", "b2", "b3", "x"}
MCParent == [b \in MCBlock |->
    CASE b = "g" -> "none" [] b \in {"a1", "b1"} -> "g"
      [] b \in {"a2", "x"} -> "a1" [] b = "b2" -> "b1" [] b = "b3" -> "b2"]
MCLevel == [b \in MCBlock |->
    CASE b = "g" -> 0 [] b \in {"a1", "b1"} -> 1
      [] b \in {"a2", "b2", "x"} -> 2 [] b = "b3" -> 3]

\* "?" is any state that no block of the instance states.
MCStateRoot == [g |-> "rg", a1 |-> "ra1", a2 |-> "ra2", b1 |-> "rb1", b2 |-> "rb2",
                b3 |-> "rb3", x |-> "rx"]
MCRoot == {MCStateRoot[b] : b \in MCBlock} \cup {"?"}
MCExec == [p \in MCRoot \X MCBlock |->
    IF p[2] # "g" /\ p[1] = MCStateRoot[MCParent[p[2]]] THEN MCStateRoot[p[2]] ELSE "?"]
MCForkExec == [p \in MCRoot \X MCBlock |-> IF p[2] = "a1" THEN "?" ELSE MCExec[p]]
MCSound == MCBlock \ {"x"}

\* With an interval of 2, level 1 retargets from genesis and level 3 from the
\* block of level 2 below it.
MCRetargetRef == [b \in MCBlock |->
    CASE b \in {"a1", "b1"} -> "g" [] b = "b3" -> "b2" [] OTHER -> "none"]

MCBatches == [t \in {"main", "miner"} |->
    IF t = "miner" THEN {<<"a1">>, <<"a2">>}
    ELSE {<<"b1">>, <<"b1", "b2", "b3">>, <<"b1", "a1">>, <<"a1", "b1", "b2">>, <<"x">>, <<"b3">>}]

\* For liveness, fewer calls: a fork of depth 1 and 2, a block that fails, and
\* the miner at the same time.
MCFewBatches == [t \in {"main", "miner"} |->
    IF t = "miner" THEN {<<"a1">>, <<"a2">>} ELSE {<<"b1", "b2">>, <<"x">>}]

=============================================================================
