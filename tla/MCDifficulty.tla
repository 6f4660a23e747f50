---------------------------- MODULE MCDifficulty ----------------------------
(***************************************************************************)
(* Periods of three blocks, a factor of 3 and targets of two significant   *)
(* bits, of which the two networks allow those up to 6 and up to 3.        *)
(***************************************************************************)
EXTENDS Difficulty

MCNetworks      == {"Mainnet", "Testnet"}
MCMaxDifficulty == [n \in MCNetworks |-> IF n = "Mainnet" THEN 7 ELSE 3]
MCCompact       == [t \in 0 .. 63 |-> LET unit == CHOOSE u \in {1, 2, 4, 8, 16} : t < 4 * u /\ (u = 1 \/ t >= 2 * u)
                                      IN t - (t % unit)]
============================================================================
