--------------------------- MODULE MCChainPersist ---------------------------
(* A small block tree and budgets of faults for ChainPersist.              *)
EXTENDS ChainPersist, TLC

(* 0 - 1 - 2 - 3, where block 2 may break a rule of ContextualCheckBlock   *)
PersistTree == (1 :> 0) @@ (2 :> 1) @@ (3 :> 2)
PersistHeight == (0 :> 0) @@ (1 :> 1) @@ (2 :> 2) @@ (3 :> 3)
PersistBad == {{}, {2}}

Events(h, f, t, r, s, i, k, p, a) ==
  [e \in Event |-> CASE e = "header" -> h [] e = "flush" -> f [] e = "stop" -> t
                     [] e = "prune" -> r [] e = "space" -> s [] e = "index" -> i
                     [] e = "kill" -> k [] e = "power" -> p [] e = "any" -> a]
CrashEvents == Events(2, 1, 1, 1, 1, 0, 2, 1, 3)
IndexEvents == Events(0, 1, 1, 0, 0, 1, 0, 0, 3)
=============================================================================
