--------------------------- MODULE MCHeaderRules ---------------------------
(* Small instances of HeaderRules: a chain 0-1-...-6 with a branch 3-7-8    *)
(* and periods of two blocks.  The parameters change at heights 3 (a block  *)
(* that is not checked itself) and 5, and Dark Gravity Wave starts at 6.    *)
EXTENDS HeaderRules, TLC

MCBlock == 0..8
MCHashPrev == [b \in MCBlock |-> CASE b = 0 -> NoBlock [] b = 7 -> 3 [] OTHER -> b - 1]
MCHeight == [b \in MCBlock |-> IF b >= 7 THEN b - 3 ELSE b]
MCAncestors == [b \in MCBlock |-> IF b >= 7 THEN (0..3) \cup (7..b) ELSE 0..b]

MCDeploymentBit == ("csv" :> 1)
MCStart == ("csv" :> 1)
MCTimeout == ("csv" :> 3)

\* The bit of the deployment signalled early or on the branch only, and a
\* bit of no deployment in three blocks.
MCVersions ==
  {[b \in MCBlock |-> (IF b \in signalled THEN {1} ELSE {}) \cup (IF b \in {2, 3, 4} THEN {2} ELSE {})] :
     signalled \in {{2, 3}, {7, 8}}}

\* The start time reached in the first period and the timeout in the third;
\* the start time in the second period and the timeout never; the start time
\* in the first period and, after a step back below it, again in the third.
MCTimes ==
  {[b \in MCBlock |-> time[MCHeight[b] + 1]] :
     time \in {<<0, 1, 1, 1, 1, 3, 3>>, <<0, 0, 1, 1, 1, 1, 1>>, <<0, 1, 1, 0, 0, 1, 1>>}}

MCIntervalFrom == (3 :> 3 @@ 5 :> 1)

\* The threshold of CMainParams: 95% of a window that is still zero when
\* the constructor reads it.
Ceil95(n) == (95 * n + 99) \div 100
MainThreshold == Ceil95(0)
MainTime == ("csv" :> 0)
=============================================================================
