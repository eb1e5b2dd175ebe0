---------------------------- MODULE MCCoinsCache ----------------------------
(* CoinsCache for TLC: every unspent value takes one unit of memory. *)
EXTENDS CoinsCache, TLC

MCUsage == [c \in Coins |-> IF c = Pruned THEN 0 ELSE 1]

TxidSymmetry == Permutations(Txid)
=============================================================================
