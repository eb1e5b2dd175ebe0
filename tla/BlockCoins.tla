----------------------------- MODULE BlockCoins ------------------------------
(* What a block does to the coins, and how its undo data takes that back:   *)
(* UpdateCoins for every transaction of ConnectBlock, and DisconnectBlock.  *)
(* A CCoins is kept as the code keeps it, with a vector of outputs in which *)
(* spent ones are null and null ones at the end are cut off; the undo data  *)
(* of an input holds the height and the coinbase flag only if it spends the *)
(* last output left.  (nVersion goes the way of nHeight.)  A CCoins without *)
(* unspent outputs equals any other such one, and is Pruned here.           *)
EXTENDS Integers, Sequences

CONSTANTS Tx,           \* transactions
          Coinbase,     \* the coinbases among them
          Index,        \* output numbers, from 0
          Vin,          \* Vin[t]: the outputs <<hash, n>> that t spends, in order
          TxOut,        \* what an output may be
          Vout,         \* Vout[t]: the outputs of t
          Unspendable,  \* those whose script is IsUnspendable
          Null          \* a CTxOut that IsNull

OutPoint == Tx \X Index

(* CheckTransaction refuses a transaction that names an input twice.  The   *)
(* null input of a coinbase is left out.                                    *)
ASSUME BlockCoinsAssumption ==
  /\ Index \subseteq Nat
  /\ Vin \in [Tx -> Seq(OutPoint)]
  /\ \A t \in Tx : \A i, j \in DOMAIN Vin[t] : Vin[t][i] = Vin[t][j] => i = j
  /\ \A t \in Coinbase : Vin[t] = <<>>
  /\ Vout \in [Tx -> Seq(TxOut)] /\ Null \notin TxOut

(* A CCoins without unspent outputs.                                        *)
Pruned == [fCoinBase |-> FALSE, vout |-> <<>>, nHeight |-> 0]

(* The length of vout without the null outputs at its end.                  *)
LastUsed(vout) ==
  CHOOSE k \in 0..Len(vout) :
    /\ k = 0 \/ vout[k] # Null
    /\ \A i \in (k + 1)..Len(vout) : vout[i] = Null
Cleanup(vout) == SubSeq(vout, 1, LastUsed(vout))

IsPruned(c) == \A i \in DOMAIN c.vout : c.vout[i] = Null
IsAvailable(c, n) == n < Len(c.vout) /\ c.vout[n + 1] # Null

FromTx(t, height) ==
  LET vout == Cleanup([i \in DOMAIN Vout[t] |->
                         IF Vout[t][i] \in Unspendable THEN Null ELSE Vout[t][i]])
  IN IF vout = <<>> THEN Pruned
     ELSE [fCoinBase |-> t \in Coinbase, vout |-> vout, nHeight |-> height]

Spend(c, n) ==
  LET vout == Cleanup([c.vout EXCEPT ![n + 1] = Null])
  IN IF vout = <<>> THEN Pruned ELSE [c EXCEPT !.vout = vout]

-----------------------------------------------------------------------------
(* Connecting.                                                              *)

(* Mutant: the undo data of the last output misses what is cleared with it. *)
TxInUndoWithoutHeight(c, n) ==
  [txout |-> c.vout[n + 1], fCoinBase |-> FALSE, nHeight |-> 0]

(* CTxInUndo for spending output n of c.                                    *)
TxInUndo(c, n) ==
  IF Spend(c, n).vout = <<>>
  THEN [txout |-> c.vout[n + 1], fCoinBase |-> c.fCoinBase, nHeight |-> c.nHeight]
  ELSE [txout |-> c.vout[n + 1], fCoinBase |-> FALSE, nHeight |-> 0]

HaveAllInputs(coins, t) ==
  \A i \in DOMAIN Vin[t] : IsAvailable(coins[Vin[t][i][1]], Vin[t][i][2])

(* The coins and the undo data after the first i inputs of t.               *)
SpendInput(s, o) ==
  [coins |-> [s.coins EXCEPT ![o[1]] = Spend(@, o[2])],
   vprevout |-> Append(s.vprevout, TxInUndo(s.coins[o[1]], o[2]))]
Spent(coins, t) ==
  LET after[i \in 0..Len(Vin[t])] ==
        IF i = 0 THEN [coins |-> coins, vprevout |-> <<>>]
        ELSE SpendInput(after[i - 1], Vin[t][i])
  IN after

UpdateCoins(coins, t, height) ==
  LET spent == Spent(coins, t)[Len(Vin[t])]
  IN [coins |-> [spent.coins EXCEPT ![t] = FromTx(t, height)],
      vprevout |-> spent.vprevout]

(* A block that CheckBlock accepts: a coinbase, then other transactions;    *)
(* none of them twice.                                                      *)
IsBlock(vtx) ==
  /\ vtx \in Seq(Tx) /\ vtx # <<>>
  /\ \A j \in 1..Len(vtx) : vtx[j] \in Coinbase <=> j = 1
  /\ \A i, j \in 1..Len(vtx) : vtx[i] = vtx[j] => i = j

(* The same after the first i transactions of a block: they overwrite       *)
(* nothing that is unspent, and each finds its inputs when its turn comes.  *)
ConnectTx(s, t, height) ==
  IF ~s.valid \/ ~HaveAllInputs(s.coins, t) THEN [s EXCEPT !.valid = FALSE]
  ELSE LET u == UpdateCoins(s.coins, t, height)
       IN [coins |-> u.coins, valid |-> TRUE,
           vtxundo |-> IF t \in Coinbase THEN s.vtxundo
                       ELSE Append(s.vtxundo, u.vprevout)]
Connected(coins, vtx, height) ==
  LET after[i \in 0..Len(vtx)] ==
        IF i = 0 THEN [coins |-> coins, vtxundo |-> <<>>,
                       valid |-> \A j \in DOMAIN vtx : IsPruned(coins[vtx[j]])]
        ELSE ConnectTx(after[i - 1], vtx[i], height)
  IN after

ConnectBlock(coins, vtx, height) == Connected(coins, vtx, height)[Len(vtx)]

-----------------------------------------------------------------------------
(* Disconnecting.                                                           *)

(* The two checks of ApplyTxInUndo that say the data does not fit.          *)
UndoFits(undo, c, n) ==
  /\ undo.nHeight # 0 <=> IsPruned(c)
  /\ ~IsAvailable(c, n)

ApplyTxInUndo(undo, c, n) ==
  LET base == IF undo.nHeight = 0 THEN c
              ELSE [fCoinBase |-> undo.fCoinBase, vout |-> <<>>, nHeight |-> undo.nHeight]
      size == Len(base.vout)
  IN [base EXCEPT !.vout =
        [i \in 1..(IF size < n + 1 THEN n + 1 ELSE size) |->
           IF i = n + 1 THEN undo.txout
           ELSE IF i <= size THEN base.vout[i] ELSE Null]]

(* The coins after k inputs of t have come back, the last one first.        *)
RestoreInput(s, o, undo) ==
  LET c == s.coins[o[1]]
  IN [coins |-> [s.coins EXCEPT ![o[1]] = ApplyTxInUndo(undo, c, o[2])],
      fClean |-> s.fClean /\ UndoFits(undo, c, o[2])]
Restored(s, t, vprevout) ==
  LET size == Len(Vin[t])
      after[k \in 0..size] ==
        IF k = 0 THEN s
        ELSE RestoreInput(after[k - 1], Vin[t][size + 1 - k], vprevout[size + 1 - k])
  IN after

(* The same after k transactions, the last one first: the outputs are there *)
(* and none of them is spent; they go, and the inputs come back.            *)
DisconnectTx(s, t, height, vprevout) ==
  LET removed == [coins |-> [s.coins EXCEPT ![t] = Pruned],
                  fClean |-> /\ s.fClean
                             /\ s.coins[t] = FromTx(t, height)
                             /\ Len(vprevout) = Len(Vin[t])]
  IN Restored(removed, t, vprevout)[Len(Vin[t])]
Disconnected(coins, vtx, height, vtxundo) ==
  LET size == Len(vtx)
      after[k \in 0..size] ==
        IF k = 0 THEN [coins |-> coins, fClean |-> Len(vtxundo) + 1 = size]
        ELSE DisconnectTx(after[k - 1], vtx[size + 1 - k], height,
                          IF k = size THEN <<>> ELSE vtxundo[size - k])
  IN after

DisconnectBlock(coins, vtx, height, vtxundo) ==
  Disconnected(coins, vtx, height, vtxundo)[Len(vtx)]
=============================================================================
