------------------------------ MODULE MCMemPool ------------------------------
(* A small instance of MemPool.  The block Base has a coinbase m and an     *)
(* ordinary transaction g that spends one of its outputs.  A and R spend    *)
(* the same output of g; B spends A, C spends B (not before height 3), D    *)
(* spends A, B and C, S spends A once that is 2 blocks deep, and K spends   *)
(* the coinbase.  Three branches of blocks follow: a1-a2 with A, B and C,   *)
(* c1-c2-c3 with A alone, and d1-d2 with R and T, which spends both outputs *)
(* of R.  The coinbases are those of one miner, the same at the same height *)
(* of every branch.                                                         *)
EXTENDS MemPool, TLC

MCTx == {"g", "m", "m2", "m3", "m4", "A", "R", "B", "C", "D", "S", "K", "T"}
MCCoinbase == {"m", "m2", "m3", "m4"}
Some(f, default) == [t \in MCTx |-> IF t \in DOMAIN f THEN f[t] ELSE default]

MCVin ==
  Some([g |-> <<<<"m", 1>>>>, A |-> <<<<"g", 0>>>>, R |-> <<<<"g", 0>>>>,
        B |-> <<<<"A", 0>>>>, C |-> <<<<"B", 1>>>>, D |-> <<<<"A", 2>>, <<"B", 0>>, <<"C", 0>>>>,
        S |-> <<<<"A", 1>>>>, K |-> <<<<"m", 0>>>>,
        T |-> <<<<"R", 1>>, <<"R", 0>>>>], <<>>)
MCVout ==
  Some([A |-> <<"p", "q", "p">>, B |-> <<"p", "q", "return">>,
        R |-> <<"q", "p">>, g |-> <<"p", "q">>, m |-> <<"p", "q">>], <<"p">>)
MCFee == Some([R |-> 3, D |-> 2], 1)
MCLockTime == Some([C |-> 2], 0)
MCSequence == Some([S |-> 2, T |-> 1], 0)
MCMaxDelta == Some([B |-> 1], 0)

MCBlock == {"base", "a1", "a2", "c1", "c2", "c3", "d1", "d2"}
MCHashPrev ==
  [a1 |-> "base", a2 |-> "a1", c1 |-> "base", c2 |-> "c1", c3 |-> "c2",
   d1 |-> "base", d2 |-> "d1"]
MCHeight ==
  [base |-> 1, a1 |-> 2, a2 |-> 3, c1 |-> 2, c2 |-> 3, c3 |-> 4, d1 |-> 2, d2 |-> 3]
MCAncestors ==
  [base |-> {"base"}, a1 |-> {"base", "a1"}, a2 |-> {"base", "a1", "a2"},
   c1 |-> {"base", "c1"}, c2 |-> {"base", "c1", "c2"},
   c3 |-> {"base", "c1", "c2", "c3"},
   d1 |-> {"base", "d1"}, d2 |-> {"base", "d1", "d2"}]
MCVtx ==
  [base |-> <<"m", "g">>, a1 |-> <<"m2", "A", "B">>, a2 |-> <<"m3", "C">>,
   c1 |-> <<"m2">>, c2 |-> <<"m3">>, c3 |-> <<"m4", "A">>,
   d1 |-> <<"m2", "R">>, d2 |-> <<"m3", "T">>]
=============================================================================
