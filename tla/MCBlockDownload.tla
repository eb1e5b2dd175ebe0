--------------------------- MODULE MCBlockDownload ---------------------------
(* Small instances of BlockDownload: a chain 0-1-2-3 with a fork 1-4, and  *)
(* a chain 0-1-2.                                                          *)
EXTENDS BlockDownload, TLC

CONSTANTS p1, p2

ForkBlock == 0..4
ForkHashPrev == [b \in 1..4 |-> IF b = 4 THEN 1 ELSE b - 1]
ForkHeight == [b \in 0..4 |-> IF b = 4 THEN 2 ELSE b]
ForkAncestors == [b \in 0..4 |-> IF b = 4 THEN {0, 1, 4} ELSE 0..b]
ForkChains == (p1 :> {3} @@ p2 :> {3, 4})

ForkConnects == (p1 :> 1 @@ p2 :> 1)
ForkAnnounces == (p1 :> 1 @@ p2 :> 1)

ShortBlock == 0..2
ShortHashPrev == [b \in 1..2 |-> b - 1]
ShortHeight == [b \in 0..2 |-> b]
ShortAncestors == [b \in 0..2 |-> 0..b]
ShortChains == (p1 :> {2} @@ p2 :> {2})
ShortConnects == (p1 :> 1 @@ p2 :> 2)
ShortAnnounces == (p1 :> 1 @@ p2 :> 0)
=============================================================================
