---------------------------- MODULE MCChainState ----------------------------
(* Small block trees and call budgets for ChainState.                      *)
EXTENDS ChainState, TLC

(* 0 - 1 - 2    and    0 - 3 - 4                                           *)
ForkTree == (1 :> 0) @@ (2 :> 1) @@ (3 :> 0) @@ (4 :> 3)
(* 0 - 1 - 2 - 3    and    2 - 4 - 5                                       *)
LateForkTree == (1 :> 0) @@ (2 :> 1) @@ (3 :> 2) @@ (4 :> 2) @@ (5 :> 4)
(* 0 - 1 - 2 - 3                                                           *)
Line == (1 :> 0) @@ (2 :> 1) @@ (3 :> 2)

UnitProof == [b \in Block |-> 1]
(* The first block of the fork has the work of two blocks.                 *)
HeavyProof == [b \in Block |-> IF b = 4 THEN 2 ELSE 1]

Calls(i, r, p, d, f) ==
  [c \in Call |-> CASE c = "invalidate" -> i [] c = "reconsider" -> r
                    [] c = "precious" -> p [] c = "prune" -> d
                    [] c = "flusherror" -> f]
NoCalls == Calls(0, 0, 0, 0, 0)
AllCalls == Calls(1, 0, 1, 1, 1)
RepairCalls == Calls(1, 1, 0, 0, 0)

ThreadSymmetry == Permutations(Threads)
=============================================================================
