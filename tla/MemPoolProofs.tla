---------------------------- MODULE MemPoolProofs ----------------------------
(* Two results.  For any coins and any block that connects, DisconnectBlock *)
(* takes back what ConnectBlock did.  For every set of transactions and     *)
(* every tree of blocks, mapNextTx of the pool is exact and the tip can be  *)
(* disconnected.                                                            *)
(*                                                                          *)
(* The first argument has three levels: one input (the undo data of a spent *)
(* output restores its CCoins exactly), the inputs of a transaction, and    *)
(* the transactions of a block; the last two walk back through the states   *)
(* the walk forward went through.                                           *)
(*                                                                          *)
(* Every change of the pool is a composition of removals of staged entries, *)
(* additions after the conflicts are gone, and updates of links and         *)
(* statistics; each kind keeps mapNextTx exact, so that proof is by kinds   *)
(* and not by the states of a reorganization.  The proof for the tip keeps  *)
(* a history: the coins each block left when it was first connected.        *)
EXTENDS MemPool, WellFoundedInduction, TLAPS

Output == TxOut \cup {Null}

(* Unspent outputs are left, and the last one of vout is one of them.       *)
Unpruned ==
  {c \in [fCoinBase : BOOLEAN, vout : Seq(Output), nHeight : Nat \ {0}] :
     c.vout # <<>> /\ c.vout[Len(c.vout)] # Null}
CCoins == Unpruned \cup {Pruned}

-----------------------------------------------------------------------------
(* Induction, with a set in the place of a predicate.                       *)

LEMMA Smallest ==
  ASSUME NEW S \in SUBSET Nat, S # {}
  PROVE  \E m \in S : \A k \in S : m <= k
<1>1. PICK m \in S : \A k \in S : ~(<<k, m>> \in OpToRel(<, Nat))
  BY NatLessThanWellFounded, WFMin, Zenon
<1>2. \A k \in S : ~(k < m)
  BY <1>1, Zenon DEF OpToRel
<1> QED BY <1>2

LEMMA Induction ==
  ASSUME NEW S, 0 \in S, \A n \in Nat : n \in S => n + 1 \in S
  PROVE  Nat \subseteq S
<1> SUFFICES ASSUME Nat \ S # {} PROVE FALSE
  BY Zenon
<1>1. PICK m \in Nat \ S : \A k \in Nat \ S : m <= k
  BY Smallest, Zenon
<1>2. m # 0 /\ m - 1 \in Nat
  BY <1>1
<1>3. m - 1 \in S
  BY <1>1, <1>2
<1> QED BY <1>1, <1>2, <1>3

(* The same up to a bound.                                                  *)
LEMMA BoundedInduction ==
  ASSUME NEW n \in Nat, NEW S, 0 \in S, \A i \in 0..(n - 1) : i \in S => i + 1 \in S
  PROVE  0..n \subseteq S
<1> DEFINE T == {i \in Nat : i <= n => i \in S}
<1>1. 0 \in T
  BY Zenon
<1>2. \A i \in Nat : i \in T => i + 1 \in T
  OBVIOUS
<1> HIDE DEF T
<1>3. Nat \subseteq T
  BY Zenon, <1>1, <1>2, Induction
<1> QED BY <1>3 DEF T

-----------------------------------------------------------------------------
(* One output.                                                              *)

LEMMA LastUsedIs ==
  ASSUME NEW v \in Seq(Output)
  PROVE  /\ LastUsed(v) \in 0..Len(v)
         /\ LastUsed(v) = 0 \/ v[LastUsed(v)] # Null
         /\ \A i \in (LastUsed(v) + 1)..Len(v) : v[i] = Null
<1> DEFINE S == {Len(v) - i : i \in {j \in 1..Len(v) : v[j] # Null}}
           P(k) == /\ k = 0 \/ v[k] # Null
                   /\ \A i \in (k + 1)..Len(v) : v[i] = Null
<1>1. \E k \in 0..Len(v) : P(k)
  <2>1. CASE S = {}
    <3>1. \A i \in 1..Len(v) : v[i] = Null
      BY Zenon, <2>1
    <3>2. P(0)
      BY <3>1
    <3> QED BY <3>2
  <2>2. CASE S # {}
    <3>1. S \subseteq Nat
      OBVIOUS
    <3>2. PICK m \in S : \A k \in S : m <= k
      BY <2>2, <3>1, Smallest, Zenon
    <3>3. PICK j \in 1..Len(v) : v[j] # Null /\ m = Len(v) - j
      BY Zenon
    <3>4. ASSUME NEW i \in (j + 1)..Len(v), v[i] # Null PROVE FALSE
      <4>1. Len(v) - i \in S
        BY <3>3, <3>4
      <4> HIDE DEF S
      <4>2. m <= Len(v) - i
        BY Zenon, <3>2, <4>1
      <4> QED BY <3>3, <4>2
    <3>5. P(j)
      BY Zenon, <3>3, <3>4
    <3> QED BY <3>3, <3>5
  <2> QED BY Zenon, <2>1, <2>2
<1> QED BY <1>1, Zenon DEF LastUsed

LEMMA CleanupIs ==
  ASSUME NEW v \in Seq(Output)
  PROVE  /\ Cleanup(v) \in Seq(Output) /\ Len(Cleanup(v)) \in 0..Len(v)
         /\ Cleanup(v) # <<>> => Cleanup(v)[Len(Cleanup(v))] # Null
         /\ \A i \in 1..Len(Cleanup(v)) : Cleanup(v)[i] = v[i]
         /\ \A i \in (Len(Cleanup(v)) + 1)..Len(v) : v[i] = Null
<1> DEFINE k == LastUsed(v)
<1>1. /\ k \in 0..Len(v)
      /\ k = 0 \/ v[k] # Null
      /\ \A i \in (k + 1)..Len(v) : v[i] = Null
  BY Zenon, LastUsedIs
<1> HIDE DEF k
<1>2. /\ SubSeq(v, 1, k) \in Seq(Output) /\ Len(SubSeq(v, 1, k)) = k
      /\ \A i \in 1..k : SubSeq(v, 1, k)[i] = v[i]
  BY <1>1
<1>3. SubSeq(v, 1, k) # <<>> => k # 0
  BY <1>1
<1> QED BY <1>1, <1>2, <1>3 DEF Cleanup, k

(* vout with output n marked spent.                                         *)
Nulled(c, n) == [c.vout EXCEPT ![n + 1] = Null]

LEMMA SpendIs ==
  ASSUME NEW c \in CCoins, NEW n \in Nat, IsAvailable(c, n)
  PROVE  LET v == Nulled(c, n) IN
         /\ c \in Unpruned
         /\ v \in Seq(Output) /\ Len(v) = Len(c.vout) /\ n + 1 \in 1..Len(v)
         /\ v[n + 1] = Null /\ \A i \in 1..Len(v) : i # n + 1 => v[i] = c.vout[i]
         /\ Spend(c, n) \in CCoins
         /\ Cleanup(v) = <<>> => Spend(c, n) = Pruned
         /\ Cleanup(v) # <<>> => Spend(c, n) = [c EXCEPT !.vout = Cleanup(v)]
         /\ Spend(c, n).vout = Cleanup(v)
<1> DEFINE v == Nulled(c, n)
<1>1. c \in Unpruned
  BY DEF CCoins, IsAvailable, Pruned
<1>2. /\ c.vout \in Seq(Output) /\ c.fCoinBase \in BOOLEAN /\ c.nHeight \in Nat \ {0}
      /\ c = [fCoinBase |-> c.fCoinBase, vout |-> c.vout, nHeight |-> c.nHeight]
  BY Zenon, <1>1 DEF Unpruned
<1>3. /\ v \in Seq(Output) /\ Len(v) = Len(c.vout) /\ n + 1 \in 1..Len(v)
      /\ v[n + 1] = Null /\ \A i \in 1..Len(v) : i # n + 1 => v[i] = c.vout[i]
  BY <1>2 DEF IsAvailable, Output, Nulled
<1>7. v = Nulled(c, n)
  BY Zenon
<1> HIDE DEF v
<1>4. /\ Cleanup(v) \in Seq(Output)
      /\ Cleanup(v) # <<>> => Cleanup(v)[Len(Cleanup(v))] # Null
  BY Zenon, <1>3, CleanupIs
<1>5. Spend(c, n) = IF Cleanup(v) = <<>> THEN Pruned ELSE [c EXCEPT !.vout = Cleanup(v)]
  BY Zenon, <1>7 DEF Spend, Nulled
<1>6. Cleanup(v) # <<>> => /\ [c EXCEPT !.vout = Cleanup(v)] \in Unpruned
                           /\ [c EXCEPT !.vout = Cleanup(v)].vout = Cleanup(v)
  BY Zenon, <1>2, <1>4 DEF Unpruned
<1> QED BY <1>1, <1>3, <1>5, <1>6, <1>7 DEF CCoins, Pruned

(* Other outputs stay available.                                            *)
LEMMA SpendKeepsOthers ==
  ASSUME NEW c \in CCoins, NEW n \in Nat, IsAvailable(c, n),
         NEW m \in Nat, m # n, IsAvailable(c, m)
  PROVE  IsAvailable(Spend(c, n), m)
<1> DEFINE v == Nulled(c, n)
           w == Cleanup(v)
<1>1. /\ v \in Seq(Output) /\ Len(v) = Len(c.vout)
      /\ \A i \in 1..Len(v) : i # n + 1 => v[i] = c.vout[i]
      /\ Spend(c, n).vout = w
  BY Zenon, SpendIs
<1> HIDE DEF v
<1>2. /\ w \in Seq(Output) /\ Len(w) \in 0..Len(v)
      /\ \A i \in 1..Len(w) : w[i] = v[i]
      /\ \A i \in (Len(w) + 1)..Len(v) : v[i] = Null
  BY Zenon, <1>1, CleanupIs
<1> HIDE DEF w
<1>3. m + 1 \in 1..Len(v) /\ v[m + 1] # Null
  BY <1>1 DEF IsAvailable
<1>4. m + 1 \in 1..Len(w)
  BY <1>2, <1>3
<1> QED BY <1>1, <1>2, <1>3, <1>4 DEF IsAvailable

(* The undo data of a spent output restores the CCoins, and fits it.        *)
LEMMA SpendUndone ==
  ASSUME NEW c \in CCoins, NEW n \in Nat, IsAvailable(c, n)
  PROVE  /\ ApplyTxInUndo(TxInUndo(c, n), Spend(c, n), n) = c
         /\ UndoFits(TxInUndo(c, n), Spend(c, n), n)
<1> DEFINE v == Nulled(c, n)
           w == Cleanup(v)
           s == Spend(c, n)
<1>1. /\ c \in Unpruned
      /\ v \in Seq(Output) /\ Len(v) = Len(c.vout) /\ n + 1 \in 1..Len(v)
      /\ v[n + 1] = Null /\ \A i \in 1..Len(v) : i # n + 1 => v[i] = c.vout[i]
      /\ w = <<>> => s = Pruned
      /\ w # <<>> => s = [c EXCEPT !.vout = w]
      /\ s.vout = w
  BY Zenon, SpendIs
<1>0. TxInUndo(c, n) = IF w = <<>>
        THEN [txout |-> c.vout[n + 1], fCoinBase |-> c.fCoinBase, nHeight |-> c.nHeight]
        ELSE [txout |-> c.vout[n + 1], fCoinBase |-> FALSE, nHeight |-> 0]
  BY Zenon, <1>1 DEF TxInUndo
<1> HIDE DEF v, s
<1>2. /\ w \in Seq(Output) /\ Len(w) \in 0..Len(v)
      /\ w # <<>> => w[Len(w)] # Null
      /\ \A i \in 1..Len(w) : w[i] = v[i]
      /\ \A i \in (Len(w) + 1)..Len(v) : v[i] = Null
  BY Zenon, <1>1, CleanupIs
<1> HIDE DEF w
<1>3. /\ c.vout \in Seq(Output) /\ c.fCoinBase \in BOOLEAN /\ c.nHeight \in Nat \ {0}
      /\ c = [fCoinBase |-> c.fCoinBase, vout |-> c.vout, nHeight |-> c.nHeight]
      /\ Len(c.vout) # 0 /\ c.vout[Len(c.vout)] # Null
  BY <1>1 DEF Unpruned
<1> DEFINE size == Len(w)
           vout == [i \in 1..(IF size < n + 1 THEN n + 1 ELSE size) |->
                      IF i = n + 1 THEN c.vout[n + 1]
                      ELSE IF i <= size THEN w[i] ELSE Null]
<1>4. (IF size < n + 1 THEN n + 1 ELSE size) = Len(c.vout)
  <2>1. CASE Len(c.vout) = n + 1
    BY <1>1, <1>2, <2>1
  <2>2. CASE Len(c.vout) # n + 1
    <3>1. v[Len(v)] # Null
      BY <1>1, <1>3, <2>2
    <3> QED BY <1>1, <1>2, <2>2, <3>1
  <2> QED BY Zenon, <2>1, <2>2
<1>5. \A i \in 1..Len(c.vout) : vout[i] = c.vout[i]
  <2> SUFFICES ASSUME NEW i \in 1..Len(c.vout) PROVE vout[i] = c.vout[i]
    BY SMTT(20)
  <2>1. CASE i = n + 1
    BY Zenon, <1>4, <2>1
  <2>2. CASE i # n + 1 /\ i <= size
    BY <1>1, <1>2, <1>4, <2>2
  <2>3. CASE i # n + 1 /\ i > size
    BY <1>1, <1>2, <1>4, <2>3
  <2> QED BY <1>2, <2>1, <2>2, <2>3
<1>6. vout = c.vout
  <2>1. c.vout = [i \in 1..Len(c.vout) |-> c.vout[i]]
    BY <1>3
  <2>2. vout = [i \in 1..Len(c.vout) |-> vout[i]]
    BY Zenon, <1>4
  <2> HIDE DEF vout
  <2>3. [i \in 1..Len(c.vout) |-> vout[i]] = [i \in 1..Len(c.vout) |-> c.vout[i]]
    BY Zenon, <1>5
  <2> QED BY <2>1, <2>2, <2>3, SMTT(20)
<1>8. CASE w = <<>>
  <2> DEFINE u == TxInUndo(c, n)
  <2>1. s = Pruned /\ size = 0
    BY Zenon, <1>1, <1>8
  <2>2. u = [txout |-> c.vout[n + 1], fCoinBase |-> c.fCoinBase, nHeight |-> c.nHeight]
    BY Zenon, <1>0, <1>8
  <2> HIDE DEF u
  <2>3. u.nHeight # 0 /\ u.txout = c.vout[n + 1] /\ u.fCoinBase = c.fCoinBase
        /\ u.nHeight = c.nHeight
    BY Zenon, <1>3, <2>2
  <2>4. UndoFits(u, s, n)
    BY <2>1, <2>3 DEF UndoFits, IsPruned, IsAvailable, Pruned
  <2>5. ApplyTxInUndo(u, s, n) = [fCoinBase |-> c.fCoinBase, vout |-> vout, nHeight |-> c.nHeight]
    <3> DEFINE base == [fCoinBase |-> u.fCoinBase, vout |-> <<>>, nHeight |-> u.nHeight]
    <3>1. ApplyTxInUndo(u, s, n) =
            [base EXCEPT !.vout =
               [i \in 1..(IF Len(base.vout) < n + 1 THEN n + 1 ELSE Len(base.vout)) |->
                      IF i = n + 1 THEN u.txout
                      ELSE IF i <= Len(base.vout) THEN base.vout[i] ELSE Null]]
      BY Zenon, <2>3 DEF ApplyTxInUndo
    <3>2. base.vout = w
      BY Zenon, <1>8
    <3>3. ApplyTxInUndo(u, s, n) = [base EXCEPT !.vout = vout]
      BY Zenon, <2>3, <3>1, <3>2 DEF vout
    <3> QED BY <2>3, <3>3, Zenon
  <2> QED BY Zenon, <1>3, <1>6, <2>4, <2>5 DEF u, s
<1>9. CASE w # <<>>
  <2> DEFINE u == TxInUndo(c, n)
  <2>1. s = [c EXCEPT !.vout = w] /\ s.vout = w
    BY Zenon, <1>1, <1>9
  <2>2. u.nHeight = 0 /\ u.txout = c.vout[n + 1]
    BY <1>0, <1>9
  <2> HIDE DEF u
  <2>3. w[Len(w)] # Null /\ Len(w) \in 1..Len(w)
    BY <1>2, <1>9
  <2>4. ~IsPruned(s)
    BY <1>2, <2>1, <2>3 DEF IsPruned
  <2>5. ~IsAvailable(s, n)
    BY <1>1, <1>2, <2>1 DEF IsAvailable
  <2>6. UndoFits(u, s, n)
    BY Zenon, <2>2, <2>4, <2>5 DEF UndoFits
  <2>7. ApplyTxInUndo(u, s, n) = [s EXCEPT !.vout = vout]
    BY Zenon, <2>1, <2>2 DEF ApplyTxInUndo, vout
  <2>8. [s EXCEPT !.vout = vout] = [c EXCEPT !.vout = vout]
    BY <1>3, <2>1, Zenon
  <2>9. [c EXCEPT !.vout = c.vout] = c
    BY Zenon, <1>3
  <2> QED BY Zenon, <1>6, <2>6, <2>7, <2>8, <2>9 DEF u, s
<1> QED BY Zenon, <1>8, <1>9

-----------------------------------------------------------------------------
(* The recursive functions of BlockCoins are what their definitions say.    *)

LEMMA SpentIs ==
  ASSUME NEW view, NEW t, Len(Vin[t]) \in Nat
  PROVE  /\ Spent(view, t)[0] = [coins |-> view, vprevout |-> <<>>]
         /\ \A i \in 1..Len(Vin[t]) : Spent(view, t)[i] =
              SpendInput(Spent(view, t)[i - 1], Vin[t][i])
<1> DEFINE base == [coins |-> view, vprevout |-> <<>>]
           Step(x, i) == SpendInput(x, Vin[t][i])
           Is(f, k) == f = [i \in 0..k |-> IF i = 0 THEN base ELSE Step(f[i - 1], i)]
           S == {k \in Nat : \E f : Is(f, k)}
<1>1. Spent(view, t) = CHOOSE f : Is(f, Len(Vin[t]))
  BY Zenon DEF Spent
<1> HIDE DEF base, Step
<1>2. 0 \in S
  <2>1. Is([i \in 0..0 |-> base], 0)
    OBVIOUS
  <2> QED BY <2>1, Zenon
<1>3. ASSUME NEW k \in Nat, k \in S PROVE k + 1 \in S
  <2>1. PICK f : Is(f, k)
    BY Zenon, <1>3
  <2> DEFINE g == [i \in 0..(k + 1) |-> IF i = k + 1 THEN Step(f[k], k + 1) ELSE f[i]]
  <2>2. ASSUME NEW i \in 0..(k + 1)
        PROVE  g[i] = IF i = 0 THEN base ELSE Step(g[i - 1], i)
    <3>1. CASE i = k + 1
      BY <3>1
    <3>2. CASE i # k + 1
      <4>1. i \in 0..k /\ g[i] = f[i] /\ (i # 0 => g[i - 1] = f[i - 1])
        BY <3>2
      <4>2. f[i] = IF i = 0 THEN base ELSE Step(f[i - 1], i)
        BY Zenon, <2>1, <4>1
      <4> QED BY Zenon, <4>1, <4>2
    <3> QED BY Zenon, <3>1, <3>2
  <2>3. g = [i \in 0..(k + 1) |-> g[i]]
    BY Zenon
  <2> HIDE DEF g
  <2>4. Is(g, k + 1)
    BY <2>2, <2>3, SMTT(20)
  <2> QED BY <2>4
<1> HIDE DEF Is
<1>4. Nat \subseteq S
  <2> HIDE DEF S
  <2> QED BY Zenon, <1>2, <1>3, Induction
<1>5. \E f : Is(f, Len(Vin[t]))
  BY Zenon, <1>4
<1>6. Is(Spent(view, t), Len(Vin[t]))
  BY Zenon, <1>1, <1>5
<1>7. /\ Spent(view, t)[0] = base
      /\ \A i \in 1..Len(Vin[t]) : Spent(view, t)[i] = Step(Spent(view, t)[i - 1], i)
  BY <1>6 DEF Is
<1> QED BY Zenon, <1>7 DEF base, Step

LEMMA ConnectedIs ==
  ASSUME NEW view, NEW vtx, NEW height, Len(vtx) \in Nat
  PROVE  /\ Connected(view, vtx, height)[0] = [coins |-> view, vtxundo |-> <<>>,
                            valid |-> \A j \in DOMAIN vtx : IsPruned(view[vtx[j]])]
         /\ \A i \in 1..Len(vtx) : Connected(view, vtx, height)[i] =
              ConnectTx(Connected(view, vtx, height)[i - 1], vtx[i], height)
<1> DEFINE base == [coins |-> view, vtxundo |-> <<>>,
                            valid |-> \A j \in DOMAIN vtx : IsPruned(view[vtx[j]])]
           Step(x, i) == ConnectTx(x, vtx[i], height)
           Is(f, k) == f = [i \in 0..k |-> IF i = 0 THEN base ELSE Step(f[i - 1], i)]
           S == {k \in Nat : \E f : Is(f, k)}
<1>1. Connected(view, vtx, height) = CHOOSE f : Is(f, Len(vtx))
  BY Zenon DEF Connected
<1> HIDE DEF base, Step
<1>2. 0 \in S
  <2>1. Is([i \in 0..0 |-> base], 0)
    OBVIOUS
  <2> QED BY <2>1, Zenon
<1>3. ASSUME NEW k \in Nat, k \in S PROVE k + 1 \in S
  <2>1. PICK f : Is(f, k)
    BY Zenon, <1>3
  <2> DEFINE g == [i \in 0..(k + 1) |-> IF i = k + 1 THEN Step(f[k], k + 1) ELSE f[i]]
  <2>2. ASSUME NEW i \in 0..(k + 1)
        PROVE  g[i] = IF i = 0 THEN base ELSE Step(g[i - 1], i)
    <3>1. CASE i = k + 1
      BY <3>1
    <3>2. CASE i # k + 1
      <4>1. i \in 0..k /\ g[i] = f[i] /\ (i # 0 => g[i - 1] = f[i - 1])
        BY <3>2
      <4>2. f[i] = IF i = 0 THEN base ELSE Step(f[i - 1], i)
        BY Zenon, <2>1, <4>1
      <4> QED BY Zenon, <4>1, <4>2
    <3> QED BY Zenon, <3>1, <3>2
  <2>3. g = [i \in 0..(k + 1) |-> g[i]]
    BY Zenon
  <2> HIDE DEF g
  <2>4. Is(g, k + 1)
    BY Zenon, <2>2, <2>3
  <2> QED BY <2>4
<1> HIDE DEF Is
<1>4. Nat \subseteq S
  <2> HIDE DEF S
  <2> QED BY Zenon, <1>2, <1>3, Induction
<1>5. \E f : Is(f, Len(vtx))
  BY Zenon, <1>4
<1>6. Is(Connected(view, vtx, height), Len(vtx))
  BY Zenon, <1>1, <1>5
<1>7. /\ Connected(view, vtx, height)[0] = base
      /\ \A i \in 1..Len(vtx) :
           Connected(view, vtx, height)[i] = Step(Connected(view, vtx, height)[i - 1], i)
  BY <1>6 DEF Is
<1> QED BY Zenon, <1>7 DEF base, Step

LEMMA RestoredIs ==
  ASSUME NEW s, NEW t, NEW vprevout, Len(Vin[t]) \in Nat
  PROVE  /\ Restored(s, t, vprevout)[0] = s
         /\ \A i \in 1..Len(Vin[t]) : Restored(s, t, vprevout)[i] =
              RestoreInput(Restored(s, t, vprevout)[i - 1],
                                Vin[t][Len(Vin[t]) + 1 - i], vprevout[Len(Vin[t]) + 1 - i])
<1> DEFINE base == s
           Step(x, i) == RestoreInput(x,
                                Vin[t][Len(Vin[t]) + 1 - i], vprevout[Len(Vin[t]) + 1 - i])
           Is(f, k) == f = [i \in 0..k |-> IF i = 0 THEN base ELSE Step(f[i - 1], i)]
           S == {k \in Nat : \E f : Is(f, k)}
<1>1. Restored(s, t, vprevout) = CHOOSE f : Is(f, Len(Vin[t]))
  BY Zenon DEF Restored
<1> HIDE DEF base, Step
<1>2. 0 \in S
  <2>1. Is([i \in 0..0 |-> base], 0)
    OBVIOUS
  <2> QED BY <2>1, Zenon
<1>3. ASSUME NEW k \in Nat, k \in S PROVE k + 1 \in S
  <2>1. PICK f : Is(f, k)
    BY Zenon, <1>3
  <2> DEFINE g == [i \in 0..(k + 1) |-> IF i = k + 1 THEN Step(f[k], k + 1) ELSE f[i]]
  <2>2. ASSUME NEW i \in 0..(k + 1)
        PROVE  g[i] = IF i = 0 THEN base ELSE Step(g[i - 1], i)
    <3>1. CASE i = k + 1
      BY <3>1
    <3>2. CASE i # k + 1
      <4>1. i \in 0..k /\ g[i] = f[i] /\ (i # 0 => g[i - 1] = f[i - 1])
        BY <3>2
      <4>2. f[i] = IF i = 0 THEN base ELSE Step(f[i - 1], i)
        BY Zenon, <2>1, <4>1
      <4> QED BY Zenon, <4>1, <4>2
    <3> QED BY Zenon, <3>1, <3>2
  <2>3. g = [i \in 0..(k + 1) |-> g[i]]
    BY Zenon
  <2> HIDE DEF g
  <2>4. Is(g, k + 1)
    BY <2>2, <2>3, SMTT(20)
  <2> QED BY <2>4
<1> HIDE DEF Is
<1>4. Nat \subseteq S
  <2> HIDE DEF S
  <2> QED BY Zenon, <1>2, <1>3, Induction
<1>5. \E f : Is(f, Len(Vin[t]))
  BY Zenon, <1>4
<1>6. Is(Restored(s, t, vprevout), Len(Vin[t]))
  BY Zenon, <1>1, <1>5
<1>7. /\ Restored(s, t, vprevout)[0] = base
      /\ \A i \in 1..Len(Vin[t]) :
           Restored(s, t, vprevout)[i] = Step(Restored(s, t, vprevout)[i - 1], i)
  BY <1>6 DEF Is
<1> QED BY Zenon, <1>7 DEF base, Step

LEMMA DisconnectedIs ==
  ASSUME NEW view, NEW vtx, NEW height, NEW vtxundo, Len(vtx) \in Nat
  PROVE  /\ Disconnected(view, vtx, height, vtxundo)[0] =
              [coins |-> view, fClean |-> Len(vtxundo) + 1 = Len(vtx)]
         /\ \A i \in 1..Len(vtx) : Disconnected(view, vtx, height, vtxundo)[i] =
              DisconnectTx(Disconnected(view, vtx, height, vtxundo)[i - 1],
                       vtx[Len(vtx) + 1 - i], height,
                       IF i = Len(vtx) THEN <<>> ELSE vtxundo[Len(vtx) - i])
<1> DEFINE base == [coins |-> view, fClean |-> Len(vtxundo) + 1 = Len(vtx)]
           Step(x, i) == DisconnectTx(x,
                       vtx[Len(vtx) + 1 - i], height,
                       IF i = Len(vtx) THEN <<>> ELSE vtxundo[Len(vtx) - i])
           Is(f, k) == f = [i \in 0..k |-> IF i = 0 THEN base ELSE Step(f[i - 1], i)]
           S == {k \in Nat : \E f : Is(f, k)}
<1>1. Disconnected(view, vtx, height, vtxundo) = CHOOSE f : Is(f, Len(vtx))
  BY Zenon DEF Disconnected
<1> HIDE DEF base, Step
<1>2. 0 \in S
  <2>1. Is([i \in 0..0 |-> base], 0)
    OBVIOUS
  <2> QED BY <2>1, Zenon
<1>3. ASSUME NEW k \in Nat, k \in S PROVE k + 1 \in S
  <2>1. PICK f : Is(f, k)
    BY Zenon, <1>3
  <2> DEFINE g == [i \in 0..(k + 1) |-> IF i = k + 1 THEN Step(f[k], k + 1) ELSE f[i]]
  <2>2. ASSUME NEW i \in 0..(k + 1)
        PROVE  g[i] = IF i = 0 THEN base ELSE Step(g[i - 1], i)
    <3>1. CASE i = k + 1
      BY <3>1
    <3>2. CASE i # k + 1
      <4>1. i \in 0..k /\ g[i] = f[i] /\ (i # 0 => g[i - 1] = f[i - 1])
        BY <3>2
      <4>2. f[i] = IF i = 0 THEN base ELSE Step(f[i - 1], i)
        BY Zenon, <2>1, <4>1
      <4> QED BY Zenon, <4>1, <4>2
    <3> QED BY Zenon, <3>1, <3>2
  <2>3. g = [i \in 0..(k + 1) |-> g[i]]
    BY Zenon
  <2> HIDE DEF g
  <2>4. Is(g, k + 1)
    BY Zenon, <2>2, <2>3
  <2> QED BY <2>4
<1> HIDE DEF Is
<1>4. Nat \subseteq S
  <2> HIDE DEF S
  <2> QED BY Zenon, <1>2, <1>3, Induction
<1>5. \E f : Is(f, Len(vtx))
  BY Zenon, <1>4
<1>6. Is(Disconnected(view, vtx, height, vtxundo), Len(vtx))
  BY Zenon, <1>1, <1>5
<1>7. /\ Disconnected(view, vtx, height, vtxundo)[0] = base
      /\ \A i \in 1..Len(vtx) :
           Disconnected(view, vtx, height, vtxundo)[i] =
             Step(Disconnected(view, vtx, height, vtxundo)[i - 1], i)
  BY <1>6 DEF Is
<1> QED BY Zenon, <1>7 DEF base, Step

-----------------------------------------------------------------------------
(* The inputs of one transaction.                                           *)

Undo == [txout : Output, fCoinBase : BOOLEAN, nHeight : Nat]

LEMMA AppendIs ==
  ASSUME NEW U, NEW q \in Seq(U), NEW e \in U
  PROVE  /\ Append(q, e) \in Seq(U) /\ Len(Append(q, e)) = Len(q) + 1
         /\ Append(q, e)[Len(q) + 1] = e
         /\ \A j \in 1..Len(q) : Append(q, e)[j] = q[j]
  OBVIOUS

LEMMA TxInUndoType ==
  ASSUME NEW c \in CCoins, NEW n \in Nat, IsAvailable(c, n)
  PROVE  TxInUndo(c, n) \in Undo
<1>1. c \in Unpruned
  BY Zenon, SpendIs
<1>2. n + 1 \in DOMAIN c.vout /\ c.vout[n + 1] \in Output
  BY <1>1 DEF Unpruned, IsAvailable
<1> QED BY Zenon, <1>1, <1>2 DEF TxInUndo, Undo, Unpruned

LEMMA PrunedIs ==
  ASSUME NEW c \in CCoins
  PROVE  /\ IsPruned(c) => c = Pruned
         /\ \A n \in Nat : c = Pruned => ~IsAvailable(c, n)
<1>1. ASSUME c \in Unpruned PROVE ~IsPruned(c)
  <2>1. Len(c.vout) \in DOMAIN c.vout /\ c.vout[Len(c.vout)] # Null
    BY <1>1 DEF Unpruned
  <2> QED BY Zenon, <2>1 DEF IsPruned
<1>2. \A n \in Nat : ~IsAvailable(Pruned, n)
  BY DEF IsAvailable, Pruned
<1> QED BY Zenon, <1>1, <1>2 DEF CCoins

LEMMA VinIs ==
  ASSUME NEW t \in Tx
  PROVE  /\ Len(Vin[t]) \in Nat /\ DOMAIN Vin[t] = 1..Len(Vin[t])
         /\ \A j \in 1..Len(Vin[t]) : /\ Vin[t][j][1] \in Tx /\ Vin[t][j][2] \in Nat
                                      /\ Vin[t][j] = <<Vin[t][j][1], Vin[t][j][2]>>
         /\ \A i, j \in 1..Len(Vin[t]) : Vin[t][i] = Vin[t][j] => i = j
<1>1. Vin[t] \in Seq(OutPoint)
  BY Zenon, BlockCoinsAssumption
<1>2. Len(Vin[t]) \in Nat /\ DOMAIN Vin[t] = 1..Len(Vin[t])
  BY <1>1
<1>3. \A j \in 1..Len(Vin[t]) : Vin[t][j] \in Tx \X Index
  BY <1>1, <1>2 DEF OutPoint
<1>4. Index \subseteq Nat
  BY Zenon, BlockCoinsAssumption
<1>5. \A i, j \in DOMAIN Vin[t] : Vin[t][i] = Vin[t][j] => i = j
  BY Zenon, BlockCoinsAssumption
<1>6. \A o \in Tx \X Index : o[1] \in Tx /\ o[2] \in Index /\ o = <<o[1], o[2]>>
  OBVIOUS
<1>7. \A j \in 1..Len(Vin[t]) : /\ Vin[t][j][1] \in Tx /\ Vin[t][j][2] \in Index
                               /\ Vin[t][j] = <<Vin[t][j][1], Vin[t][j][2]>>
  BY <1>3, <1>6, Zenon
<1> QED BY <1>2, <1>4, <1>5, <1>7, Zenon

(* The states that UpdateCoins goes through, A[0] to A[n].                  *)
LEMMA SpentStates ==
  ASSUME NEW view \in [Tx -> CCoins], NEW t \in Tx, HaveAllInputs(view, t)
  PROVE  LET A == Spent(view, t)
             n == Len(Vin[t])
         IN /\ A[0] = [coins |-> view, vprevout |-> <<>>]
            /\ \A i \in 0..n :
                 /\ A[i].coins \in [Tx -> CCoins]
                 /\ \A x \in Tx : view[x] = Pruned => A[i].coins[x] = Pruned
                 /\ A[i].vprevout \in Seq(Undo) /\ Len(A[i].vprevout) = i
                 /\ \A j \in (i + 1)..n : IsAvailable(A[i].coins[Vin[t][j][1]], Vin[t][j][2])
                 /\ \A j \in 1..i : A[i].vprevout[j] =
                       TxInUndo(A[j - 1].coins[Vin[t][j][1]], Vin[t][j][2])
            /\ \A i \in 1..n : A[i].coins =
                 [A[i - 1].coins EXCEPT ![Vin[t][i][1]] = Spend(@, Vin[t][i][2])]
<1> DEFINE A == Spent(view, t)
           n == Len(Vin[t])
           Good(i) == /\ A[i].coins \in [Tx -> CCoins]
                      /\ \A x \in Tx : view[x] = Pruned => A[i].coins[x] = Pruned
                      /\ A[i].vprevout \in Seq(Undo) /\ Len(A[i].vprevout) = i
                      /\ \A j \in (i + 1)..n :
                           IsAvailable(A[i].coins[Vin[t][j][1]], Vin[t][j][2])
                      /\ \A j \in 1..i : A[i].vprevout[j] =
                           TxInUndo(A[j - 1].coins[Vin[t][j][1]], Vin[t][j][2])
           S == {i \in 0..n : Good(i)}
<1>1. /\ n \in Nat /\ DOMAIN Vin[t] = 1..n
      /\ \A j \in 1..n : /\ Vin[t][j][1] \in Tx /\ Vin[t][j][2] \in Nat
                        /\ Vin[t][j] = <<Vin[t][j][1], Vin[t][j][2]>>
      /\ \A i, j \in 1..n : Vin[t][i] = Vin[t][j] => i = j
  BY Zenon, VinIs
<1>3. /\ A[0] = [coins |-> view, vprevout |-> <<>>]
      /\ \A i \in 1..n : A[i] = SpendInput(A[i - 1], Vin[t][i])
  <2>1. Len(Vin[t]) \in Nat
    BY Zenon, <1>1
  <2> QED BY Zenon, <2>1, SpentIs
<1> HIDE DEF A, n
<1>2. A[0] = [coins |-> view, vprevout |-> <<>>]
  BY Zenon, <1>3
<1>4. \A i \in 1..n : A[i] = SpendInput(A[i - 1], Vin[t][i])
  BY Zenon, <1>3
<1>5. \A i \in 1..n :
        /\ A[i].coins = [A[i - 1].coins EXCEPT ![Vin[t][i][1]] = Spend(@, Vin[t][i][2])]
        /\ A[i].vprevout = Append(A[i - 1].vprevout,
                                  TxInUndo(A[i - 1].coins[Vin[t][i][1]], Vin[t][i][2]))
  <2> SUFFICES ASSUME NEW i \in 1..n
               PROVE  /\ A[i].coins = [A[i - 1].coins EXCEPT
                                         ![Vin[t][i][1]] = Spend(@, Vin[t][i][2])]
                      /\ A[i].vprevout =
                           Append(A[i - 1].vprevout,
                                  TxInUndo(A[i - 1].coins[Vin[t][i][1]], Vin[t][i][2]))
    BY Zenon
  <2> DEFINE a == A[i - 1]
             o == Vin[t][i]
             x == [a.coins EXCEPT ![o[1]] = Spend(a.coins[o[1]], o[2])]
             y == Append(a.vprevout, TxInUndo(a.coins[o[1]], o[2]))
  <2>1. A[i] = SpendInput(a, o)
    BY Zenon, <1>4
  <2>2. SpendInput(a, o) = [coins |-> x, vprevout |-> y]
    BY Zenon DEF SpendInput
  <2> HIDE DEF x, y
  <2>3. A[i].coins = x /\ A[i].vprevout = y
    BY <2>1, <2>2
  <2> QED BY Zenon, <2>3 DEF x, y
<1>6. Good(0)
  BY <1>1, <1>2, SMTT(20) DEF HaveAllInputs
<1>7. ASSUME NEW i \in 0..(n - 1), Good(i) PROVE Good(i + 1)
  <2> DEFINE h == Vin[t][i + 1][1]
             m == Vin[t][i + 1][2]
             c == A[i].coins[h]
  <2>1. /\ i + 1 \in 1..n /\ (i + 1) - 1 = i /\ i \in Nat
        /\ h \in Tx /\ m \in Nat /\ c \in CCoins /\ IsAvailable(c, m)
    BY <1>1, <1>7
  <2>2. /\ A[i + 1].coins = [A[i].coins EXCEPT ![h] = Spend(c, m)]
        /\ A[i + 1].vprevout = Append(A[i].vprevout, TxInUndo(c, m))
    BY <1>5, <2>1, Zenon
  <2>3. Spend(c, m) \in CCoins /\ TxInUndo(c, m) \in Undo
    BY Zenon, <2>1, SpendIs, TxInUndoType
  <2>4. c # Pruned
    BY Zenon, <2>1, PrunedIs
  <2>5. A[i + 1].coins \in [Tx -> CCoins]
    BY <1>7, <2>2, <2>3, ZenonT(30)
  <2>6. \A x \in Tx : view[x] = Pruned => A[i + 1].coins[x] = Pruned
    BY <1>7, <2>1, <2>2, <2>4, Zenon
  <2>10. /\ A[i + 1].vprevout \in Seq(Undo) /\ Len(A[i + 1].vprevout) = i + 1
         /\ A[i + 1].vprevout[i + 1] = TxInUndo(c, m)
         /\ \A j \in 1..i : A[i + 1].vprevout[j] = A[i].vprevout[j]
    <3> DEFINE q == A[i].vprevout
               e == TxInUndo(c, m)
    <3>1. q \in Seq(Undo) /\ Len(q) = i /\ e \in Undo /\ A[i + 1].vprevout = Append(q, e)
      BY <1>7, <2>2, <2>3, Zenon
    <3> HIDE DEF q, e
    <3>2. /\ Append(q, e) \in Seq(Undo) /\ Len(Append(q, e)) = Len(q) + 1
          /\ Append(q, e)[Len(q) + 1] = e
          /\ \A j \in 1..Len(q) : Append(q, e)[j] = q[j]
      BY <3>1, AppendIs
    <3> QED BY <3>1, <3>2, Zenon DEF q, e
  <2>7. A[i + 1].vprevout \in Seq(Undo) /\ Len(A[i + 1].vprevout) = i + 1
    BY Zenon, <2>10
  <2>8. ASSUME NEW j \in ((i + 1) + 1)..n
        PROVE  IsAvailable(A[i + 1].coins[Vin[t][j][1]], Vin[t][j][2])
    <3>1. j \in 1..n /\ j \in (i + 1)..n /\ j # i + 1
      BY <2>1
    <3>2. IsAvailable(A[i].coins[Vin[t][j][1]], Vin[t][j][2])
      BY Zenon, <1>7, <3>1
    <3>3. Vin[t][j][1] \in Tx /\ Vin[t][j][2] \in Nat
      BY Zenon, <1>1, <3>1
    <3>4. CASE Vin[t][j][1] = h
      <4>1. Vin[t][j][2] # m
        <5>1. Vin[t][j] # Vin[t][i + 1]
          BY Zenon, <1>1, <2>1, <3>1
        <5>2. Vin[t][j] = <<h, Vin[t][j][2]>> /\ Vin[t][i + 1] = <<h, m>>
          BY Zenon, <1>1, <2>1, <3>1, <3>4
        <5> QED BY Zenon, <5>1, <5>2
      <4>2. IsAvailable(Spend(c, m), Vin[t][j][2])
        <5> DEFINE k == Vin[t][j][2]
        <5>1. IsAvailable(c, k) /\ k \in Nat /\ k # m
          BY Zenon, <3>2, <3>3, <3>4, <4>1
        <5> HIDE DEF k, c, m
        <5>2. IsAvailable(Spend(c, m), k)
          BY Zenon, <2>1, <5>1, SpendKeepsOthers
        <5> QED BY Zenon, <5>2 DEF k
      <4> QED BY <1>7, <2>1, <2>2, <3>4, <4>2, Zenon
    <3>5. CASE Vin[t][j][1] # h
      BY <1>7, <2>2, <3>2, <3>3, <3>5, Zenon
    <3> QED BY Zenon, <3>4, <3>5
  <2>9. ASSUME NEW j \in 1..(i + 1)
        PROVE  A[i + 1].vprevout[j] = TxInUndo(A[j - 1].coins[Vin[t][j][1]], Vin[t][j][2])
    <3>1. CASE j = i + 1
      <4>1. A[i + 1].vprevout[i + 1] = TxInUndo(c, m)
        BY Zenon, <2>10
      <4> QED BY Zenon, <2>1, <3>1, <4>1
    <3>2. CASE j # i + 1
      <4>1. j \in 1..i
        BY <2>1, <3>2
      <4>2. A[i + 1].vprevout[j] = A[i].vprevout[j]
        BY Zenon, <2>10, <4>1
      <4> QED BY Zenon, <1>7, <4>1, <4>2
    <3> QED BY Zenon, <3>1, <3>2
  <2> QED BY Zenon, <2>5, <2>6, <2>7, <2>8, <2>9
<1> HIDE DEF Good
<1>8. 0 \in S /\ \A i \in 0..(n - 1) : i \in S => i + 1 \in S
  <2>1. 0 \in 0..n /\ \A i \in 0..(n - 1) : i + 1 \in 0..n
    BY <1>1
  <2> QED BY Zenon, <1>6, <1>7, <2>1
<1>9. 0..n \subseteq S
  <2> HIDE DEF S
  <2> QED BY <1>1, <1>8, BoundedInduction, Zenon
<1>10. \A i \in 0..n : Good(i)
  BY Zenon, <1>9
<1> QED BY <1>2, <1>5, <1>10, ZenonT(30) DEF Good, A, n

(* Taking the inputs back goes through the same states, the last one first. *)
LEMMA RestoredStates ==
  ASSUME NEW view \in [Tx -> CCoins], NEW t \in Tx, HaveAllInputs(view, t)
  PROVE  LET A == Spent(view, t)
             n == Len(Vin[t])
         IN Restored([coins |-> A[n].coins, fClean |-> TRUE], t, A[n].vprevout)[n] =
              [coins |-> view, fClean |-> TRUE]
<1> DEFINE A == Spent(view, t)
           n == Len(Vin[t])
           s == [coins |-> A[n].coins, fClean |-> TRUE]
           p == A[n].vprevout
           R == Restored(s, t, p)
           S == {k \in 0..n : R[k] = [coins |-> A[n - k].coins, fClean |-> TRUE]}
<1>1. /\ n \in Nat
      /\ \A j \in 1..n : Vin[t][j][1] \in Tx /\ Vin[t][j][2] \in Nat
  BY Zenon, VinIs
<1>0. /\ A[0] = [coins |-> view, vprevout |-> <<>>]
      /\ \A i \in 0..n :
           /\ A[i].coins \in [Tx -> CCoins]
           /\ \A x \in Tx : view[x] = Pruned => A[i].coins[x] = Pruned
           /\ A[i].vprevout \in Seq(Undo) /\ Len(A[i].vprevout) = i
           /\ \A j \in (i + 1)..n : IsAvailable(A[i].coins[Vin[t][j][1]], Vin[t][j][2])
           /\ \A j \in 1..i : A[i].vprevout[j] =
                 TxInUndo(A[j - 1].coins[Vin[t][j][1]], Vin[t][j][2])
      /\ \A i \in 1..n : A[i].coins =
           [A[i - 1].coins EXCEPT ![Vin[t][i][1]] = Spend(@, Vin[t][i][2])]
  BY SpentStates, ZenonT(30)
<1> HIDE DEF A, s, p
<1>3. /\ R[0] = s
      /\ \A k \in 1..n : R[k] =
           RestoreInput(R[k - 1], Vin[t][n + 1 - k], p[n + 1 - k])
  BY SMTT(15), <1>1, RestoredIs
<1> HIDE DEF n, R
<1>2. /\ A[0] = [coins |-> view, vprevout |-> <<>>]
      /\ \A i \in 0..n : /\ A[i].coins \in [Tx -> CCoins]
                         /\ \A j \in (i + 1)..n :
                              IsAvailable(A[i].coins[Vin[t][j][1]], Vin[t][j][2])
      /\ \A j \in 1..n : p[j] = TxInUndo(A[j - 1].coins[Vin[t][j][1]], Vin[t][j][2])
      /\ \A i \in 1..n : A[i].coins =
           [A[i - 1].coins EXCEPT ![Vin[t][i][1]] = Spend(@, Vin[t][i][2])]
  <2>1. n \in 0..n
    BY <1>1
  <2> QED BY <1>0, <2>1, Zenon DEF p
<1>4. 0 \in S
  BY <1>1, <1>3 DEF s
<1>5. ASSUME NEW k \in 0..(n - 1), k \in S PROVE k + 1 \in S
  <2> DEFINE j == n - k
             h == Vin[t][j][1]
             m == Vin[t][j][2]
             a == A[j - 1].coins
             c == a[h]
  <2>1. /\ j \in 1..n /\ j - 1 \in 0..n /\ n + 1 - (k + 1) = j /\ n - (k + 1) = j - 1
        /\ k + 1 \in 1..n /\ (k + 1) - 1 = k /\ j \in ((j - 1) + 1)..n
    BY <1>1
  <2>2. R[k] = [coins |-> A[j].coins, fClean |-> TRUE]
    BY Zenon, <1>5
  <2>3. R[k + 1] = RestoreInput(R[k], Vin[t][j], p[j])
    <3>1. R[k + 1] = RestoreInput(R[(k + 1) - 1], Vin[t][n + 1 - (k + 1)], p[n + 1 - (k + 1)])
      BY Zenon, <1>1, <1>3, <2>1
    <3> HIDE DEF j
    <3> QED BY Zenon, <2>1, <3>1
  <2> HIDE DEF j
  <2>4. h \in Tx /\ m \in Nat
    BY Zenon, <1>1, <2>1
  <2>5. a \in [Tx -> CCoins] /\ IsAvailable(c, m)
    BY Zenon, <1>2, <2>1
  <2>6. A[j].coins = [a EXCEPT ![h] = Spend(c, m)] /\ p[j] = TxInUndo(c, m)
    BY <1>2, <2>1, Zenon
  <2> DEFINE u == TxInUndo(c, m)
             z == Spend(c, m)
  <2>7. c \in CCoins
    BY Zenon, <2>4, <2>5
  <2>8. ApplyTxInUndo(u, z, m) = c /\ UndoFits(u, z, m)
    <3> HIDE DEF c, m
    <3> QED BY Zenon, <2>4, <2>5, <2>7, SpendUndone
  <2>9. RestoreInput(R[k], Vin[t][j], p[j]) =
          [coins |-> [A[j].coins EXCEPT ![h] = ApplyTxInUndo(u, A[j].coins[h], m)],
           fClean |-> UndoFits(u, A[j].coins[h], m)]
    <3> DEFINE b == A[j].coins
               r == [coins |-> b, fClean |-> TRUE]
    <3>1. r.coins = b /\ r.fClean = TRUE
      BY Zenon
    <3> HIDE DEF b, r
    <3>2. RestoreInput(r, Vin[t][j], u) =
            [coins |-> [b EXCEPT ![h] = ApplyTxInUndo(u, b[h], m)],
             fClean |-> TRUE /\ UndoFits(u, b[h], m)]
      BY Zenon, <3>1 DEF RestoreInput
    <3>3. (TRUE /\ UndoFits(u, b[h], m)) = UndoFits(u, b[h], m)
      BY Zenon DEF UndoFits
    <3> QED BY <2>2, <2>6, <3>2, <3>3, Zenon DEF b, r
  <2> HIDE DEF u, z, h, m, a
  <2>10. A[j].coins[h] = z
    BY Zenon, <2>4, <2>5, <2>6 DEF z
  <2>11. [A[j].coins EXCEPT ![h] = c] = a
    BY <2>4, <2>5, <2>6, Zenon
  <2>12. R[k + 1] = [coins |-> a, fClean |-> TRUE]
    BY <2>3, <2>8, <2>9, <2>10, <2>11, Zenon
  <2>13. A[n - (k + 1)].coins = a /\ k + 1 \in 0..n
    BY <1>1, <2>1 DEF a
  <2> QED BY <2>12, <2>13, Zenon
<1>6. 0..n \subseteq S
  <2> HIDE DEF S
  <2> QED BY Zenon, <1>1, <1>4, <1>5, BoundedInduction
<1>7. R[n] = [coins |-> A[0].coins, fClean |-> TRUE]
  BY <1>1, <1>6
<1>8. [coins |-> A[0].coins, fClean |-> TRUE] = [coins |-> view, fClean |-> TRUE]
  BY <1>2
<1>9. R[n] = [coins |-> view, fClean |-> TRUE]
  BY <1>7, <1>8, Zenon
<1> QED BY <1>9, Zenon DEF R, s, p, A, n

LEMMA FromTxType ==
  ASSUME NEW t \in Tx, NEW height \in Nat \ {0}
  PROVE  FromTx(t, height) \in CCoins
<1> DEFINE v == [i \in DOMAIN Vout[t] |->
                   IF Vout[t][i] \in Unspendable THEN Null ELSE Vout[t][i]]
           w == Cleanup(v)
<1>1. Vout[t] \in Seq(TxOut)
  BY Zenon, BlockCoinsAssumption
<1>2. v \in Seq(Output)
  BY <1>1 DEF Output
<1>3. FromTx(t, height) =
        IF w = <<>> THEN Pruned
        ELSE [fCoinBase |-> t \in Coinbase, vout |-> w, nHeight |-> height]
  BY Zenon DEF FromTx
<1> HIDE DEF v
<1>4. w \in Seq(Output) /\ (w # <<>> => w[Len(w)] # Null)
  BY Zenon, <1>2, CleanupIs
<1>5. (t \in Coinbase) \in BOOLEAN
  OBVIOUS
<1> HIDE DEF w
<1> QED BY <1>3, <1>4, <1>5 DEF CCoins, Unpruned

(* What UpdateCoins leaves, and that DisconnectTx takes it back.            *)
LEMMA TxUndone ==
  ASSUME NEW view \in [Tx -> CCoins], NEW t \in Tx, HaveAllInputs(view, t),
         view[t] = Pruned, NEW height \in Nat \ {0}
  PROVE  LET u == UpdateCoins(view, t, height)
         IN /\ u.coins \in [Tx -> CCoins]
            /\ \A x \in Tx \ {t} : view[x] = Pruned => u.coins[x] = Pruned
            /\ u.vprevout \in Seq(Undo) /\ Len(u.vprevout) = Len(Vin[t])
            /\ DisconnectTx([coins |-> u.coins, fClean |-> TRUE], t, height, u.vprevout) =
                 [coins |-> view, fClean |-> TRUE]
<1> DEFINE u == UpdateCoins(view, t, height)
           n == Len(Vin[t])
           a == Spent(view, t)[n]
           f == FromTx(t, height)
<1>1. n \in Nat
  BY Zenon, VinIs
<1>2. /\ a.coins \in [Tx -> CCoins]
      /\ \A x \in Tx : view[x] = Pruned => a.coins[x] = Pruned
      /\ a.vprevout \in Seq(Undo) /\ Len(a.vprevout) = n
  <2>1. n \in 0..n
    BY <1>1
  <2> DEFINE A == Spent(view, t)
  <2>3. /\ A[0] = [coins |-> view, vprevout |-> <<>>]
        /\ \A i \in 0..n :
             /\ A[i].coins \in [Tx -> CCoins]
             /\ \A x \in Tx : view[x] = Pruned => A[i].coins[x] = Pruned
             /\ A[i].vprevout \in Seq(Undo) /\ Len(A[i].vprevout) = i
             /\ \A j \in (i + 1)..n : IsAvailable(A[i].coins[Vin[t][j][1]], Vin[t][j][2])
             /\ \A j \in 1..i : A[i].vprevout[j] =
                   TxInUndo(A[j - 1].coins[Vin[t][j][1]], Vin[t][j][2])
        /\ \A i \in 1..n : A[i].coins =
             [A[i - 1].coins EXCEPT ![Vin[t][i][1]] = Spend(@, Vin[t][i][2])]
    BY SpentStates, ZenonT(30)
  <2> HIDE DEF A, n
  <2>2. \A i \in 0..n : /\ A[i].coins \in [Tx -> CCoins]
                       /\ \A x \in Tx : view[x] = Pruned => A[i].coins[x] = Pruned
                       /\ A[i].vprevout \in Seq(Undo) /\ Len(A[i].vprevout) = i
    BY Zenon, <2>3
  <2> QED BY Zenon, <2>1, <2>2 DEF A
<1>3. f \in CCoins
  BY Zenon, FromTxType
<1>4. Restored([coins |-> a.coins, fClean |-> TRUE], t, a.vprevout)[n] =
        [coins |-> view, fClean |-> TRUE]
  BY Zenon, RestoredStates
<1>5. u = [coins |-> [a.coins EXCEPT ![t] = f], vprevout |-> a.vprevout]
  BY Zenon DEF UpdateCoins
<1>6. DisconnectTx([coins |-> u.coins, fClean |-> TRUE], t, height, u.vprevout) =
        Restored([coins |-> [u.coins EXCEPT ![t] = Pruned],
                  fClean |-> u.coins[t] = f /\ Len(u.vprevout) = n], t, u.vprevout)[n]
  BY Zenon DEF DisconnectTx
<1> HIDE DEF a, f, n, u
<1>7. [u.coins EXCEPT ![t] = Pruned] = a.coins
  BY Zenon, <1>2, <1>5
<1>8. (u.coins[t] = f /\ Len(u.vprevout) = n) = TRUE /\ u.vprevout = a.vprevout
  BY Zenon, <1>2, <1>5
<1>9. DisconnectTx([coins |-> u.coins, fClean |-> TRUE], t, height, u.vprevout) =
        [coins |-> view, fClean |-> TRUE]
  BY <1>4, <1>6, <1>7, <1>8, Zenon
<1>10. /\ u.coins \in [Tx -> CCoins]
       /\ \A x \in Tx \ {t} : view[x] = Pruned => u.coins[x] = Pruned
  BY Zenon, <1>2, <1>3, <1>5
<1> QED BY <1>2, <1>5, <1>9, <1>10 DEF u, n

-----------------------------------------------------------------------------
(* The transactions of one block.                                           *)

(* What one transaction of a valid block does.                              *)
LEMMA ConnectTxIs ==
  ASSUME NEW s, NEW t, NEW height, ConnectTx(s, t, height).valid,
         s = [coins |-> s.coins, vtxundo |-> s.vtxundo, valid |-> s.valid]
  PROVE  LET u == UpdateCoins(s.coins, t, height)
         IN /\ s.valid /\ HaveAllInputs(s.coins, t)
            /\ ConnectTx(s, t, height) =
                 [coins |-> u.coins, valid |-> TRUE,
                  vtxundo |-> IF t \in Coinbase THEN s.vtxundo
                              ELSE Append(s.vtxundo, u.vprevout)]
<1>1. [s EXCEPT !.valid = FALSE].valid = FALSE
  BY Zenon
<1>2. s.valid /\ HaveAllInputs(s.coins, t)
  BY Zenon, <1>1 DEF ConnectTx
<1> QED BY Zenon, <1>2 DEF ConnectTx

(* The states that ConnectBlock goes through, B[0] to B[n], if it succeeds. *)
LEMMA ConnectedValid ==
  ASSUME NEW view \in [Tx -> CCoins], NEW vtx, IsBlock(vtx),
         NEW height \in Nat \ {0}, ConnectBlock(view, vtx, height).valid
  PROVE  LET B == Connected(view, vtx, height)
             n == Len(vtx)
         IN \A i \in 1..n :
              LET u == UpdateCoins(B[i - 1].coins, vtx[i], height)
              IN /\ B[i - 1].valid /\ HaveAllInputs(B[i - 1].coins, vtx[i])
                 /\ B[i] = [coins |-> u.coins, valid |-> TRUE,
                            vtxundo |-> IF vtx[i] \in Coinbase THEN B[i - 1].vtxundo
                                        ELSE Append(B[i - 1].vtxundo, u.vprevout)]
<1> DEFINE B == Connected(view, vtx, height)
           n == Len(vtx)
           Rec(x) == x = [coins |-> x.coins, vtxundo |-> x.vtxundo, valid |-> x.valid]
           F == {i \in 0..n : Rec(B[i])}
           S == {k \in 0..n : B[n - k].valid}
<1>1. n \in Nat
  BY DEF IsBlock
<1>2. /\ B[0] = [coins |-> view, vtxundo |-> <<>>,
                 valid |-> \A j \in DOMAIN vtx : IsPruned(view[vtx[j]])]
      /\ \A i \in 1..n : B[i] = ConnectTx(B[i - 1], vtx[i], height)
  BY Zenon, <1>1, ConnectedIs
<1>3. B[n].valid
  BY Zenon DEF ConnectBlock
<1> HIDE DEF B, n
<1>4. 0..n \subseteq F
  <2>1. 0 \in F
    BY <1>1, <1>2
  <2>2. ASSUME NEW i \in 0..(n - 1), i \in F PROVE i + 1 \in F
    <3>1. i + 1 \in 1..n /\ i + 1 \in 0..n /\ (i + 1) - 1 = i
      BY <1>1
    <3>2. B[i + 1] = ConnectTx(B[i], vtx[i + 1], height)
      BY Zenon, <1>2, <3>1
    <3>3. \A s, t : Rec(s) => Rec(ConnectTx(s, t, height))
      BY Zenon DEF ConnectTx
    <3>4. Rec(B[i])
      BY Zenon, <2>2
    <3> HIDE DEF Rec
    <3> QED BY Zenon, <3>1, <3>2, <3>3, <3>4
  <2> HIDE DEF F
  <2> QED BY Zenon, <1>1, <2>1, <2>2, BoundedInduction
<1>5. ASSUME NEW i \in 1..n, B[i].valid
      PROVE  LET u == UpdateCoins(B[i - 1].coins, vtx[i], height)
             IN /\ B[i - 1].valid /\ HaveAllInputs(B[i - 1].coins, vtx[i])
                /\ B[i] = [coins |-> u.coins, valid |-> TRUE,
                           vtxundo |-> IF vtx[i] \in Coinbase THEN B[i - 1].vtxundo
                                       ELSE Append(B[i - 1].vtxundo, u.vprevout)]
  <2> DEFINE s == B[i - 1]
             t == vtx[i]
  <2>1. i - 1 \in 0..n
    BY <1>1
  <2>2. Rec(s)
    BY Zenon, <1>4, <2>1
  <2>3. B[i] = ConnectTx(s, t, height)
    BY Zenon, <1>2
  <2> HIDE DEF s, t
  <2>4. ConnectTx(s, t, height).valid
    BY Zenon, <1>5, <2>3
  <2>5. LET u == UpdateCoins(s.coins, t, height)
        IN /\ s.valid /\ HaveAllInputs(s.coins, t)
           /\ ConnectTx(s, t, height) =
                [coins |-> u.coins, valid |-> TRUE,
                 vtxundo |-> IF t \in Coinbase THEN s.vtxundo
                             ELSE Append(s.vtxundo, u.vprevout)]
    BY <2>2, <2>4, ConnectTxIs
  <2> QED BY Zenon, <2>3, <2>5 DEF s, t
<1>6. 0..n \subseteq S
  <2>1. 0 \in S
    BY <1>1, <1>3
  <2>2. ASSUME NEW k \in 0..(n - 1), k \in S PROVE k + 1 \in S
    <3>1. n - k \in 1..n /\ n - (k + 1) = (n - k) - 1 /\ k + 1 \in 0..n
      BY <1>1
    <3>2. B[(n - k) - 1].valid
      BY <1>5, <2>2, <3>1, Zenon
    <3> QED BY Zenon, <3>1, <3>2
  <2> HIDE DEF S
  <2> QED BY Zenon, <1>1, <2>1, <2>2, BoundedInduction
<1>7. \A i \in 1..n : B[i].valid
  <2> SUFFICES ASSUME NEW i \in 1..n PROVE B[i].valid
    BY Zenon
  <2>1. n - i \in 0..n /\ n - (n - i) = i
    BY <1>1
  <2>2. B[n - (n - i)].valid
    BY Zenon, <1>6, <2>1
  <2> QED BY Zenon, <2>1, <2>2
<1> QED BY Zenon, <1>5, <1>7 DEF B, n

(* In B[i] the transactions that are still to come have no coins, and       *)
(* vtxundo holds the undo data of those that are not the coinbase.          *)
GoodState(B, vtx, height, i) ==
  /\ B[i].coins \in [Tx -> CCoins]
  /\ \A j \in (i + 1)..Len(vtx) : B[i].coins[vtx[j]] = Pruned
  /\ B[i].vtxundo \in Seq(Seq(Undo))
  /\ Len(B[i].vtxundo) = IF i = 0 THEN 0 ELSE i - 1
  /\ \A j \in 2..i : B[i].vtxundo[j - 1] =
       UpdateCoins(B[j - 1].coins, vtx[j], height).vprevout

LEMMA ConnectedStates ==
  ASSUME NEW view \in [Tx -> CCoins], NEW vtx, IsBlock(vtx),
         NEW height \in Nat \ {0}, ConnectBlock(view, vtx, height).valid
  PROVE  LET B == Connected(view, vtx, height)
             n == Len(vtx)
         IN \A i \in 0..n : GoodState(B, vtx, height, i)
<1> DEFINE B == Connected(view, vtx, height)
           n == Len(vtx)
           Good(i) == /\ B[i].coins \in [Tx -> CCoins]
                      /\ \A j \in (i + 1)..n : B[i].coins[vtx[j]] = Pruned
                      /\ B[i].vtxundo \in Seq(Seq(Undo))
                      /\ Len(B[i].vtxundo) = IF i = 0 THEN 0 ELSE i - 1
                      /\ \A j \in 2..i : B[i].vtxundo[j - 1] =
                           UpdateCoins(B[j - 1].coins, vtx[j], height).vprevout
           S == {i \in 0..n : Good(i)}
<1>1. /\ n \in Nat /\ n # 0 /\ DOMAIN vtx = 1..n
      /\ \A j \in 1..n : vtx[j] \in Tx /\ (vtx[j] \in Coinbase <=> j = 1)
      /\ \A i, j \in 1..n : vtx[i] = vtx[j] => i = j
  BY DEF IsBlock
<1>2. /\ B[0] = [coins |-> view, vtxundo |-> <<>>,
                 valid |-> \A j \in DOMAIN vtx : IsPruned(view[vtx[j]])]
      /\ \A i \in 1..n : B[i] = ConnectTx(B[i - 1], vtx[i], height)
  <2>1. n \in Nat
    BY Zenon, <1>1
  <2> QED BY Zenon, <2>1, ConnectedIs
<1>3. \A i \in 1..n :
        LET u == UpdateCoins(B[i - 1].coins, vtx[i], height)
        IN /\ B[i - 1].valid /\ HaveAllInputs(B[i - 1].coins, vtx[i])
           /\ B[i] = [coins |-> u.coins, valid |-> TRUE,
                      vtxundo |-> IF vtx[i] \in Coinbase THEN B[i - 1].vtxundo
                                  ELSE Append(B[i - 1].vtxundo, u.vprevout)]
  BY ConnectedValid
<1> HIDE DEF B, n
<1>4. Good(0)
  <2>1. B[0].valid
    <3>1. 1 \in 1..n /\ 1 - 1 = 0
      BY <1>1
    <3>2. B[1 - 1].valid
      BY <1>3, <3>1, Zenon
    <3> QED BY Zenon, <3>1, <3>2
  <2>2. \A j \in 1..n : IsPruned(view[vtx[j]])
    <3> DEFINE v == \A j \in DOMAIN vtx : IsPruned(view[vtx[j]])
    <3>1. B[0] = [coins |-> view, vtxundo |-> <<>>, valid |-> v]
      BY Zenon, <1>2
    <3> HIDE DEF v
    <3>2. v
      BY <2>1, <3>1
    <3> QED BY Zenon, <1>1, <3>2 DEF v
  <2>3. \A j \in 1..n : view[vtx[j]] = Pruned
    BY Zenon, <1>1, <2>2, PrunedIs
  <2> QED BY <1>1, <1>2, <2>3
<1>5. ASSUME NEW i \in 0..(n - 1), Good(i) PROVE Good(i + 1)
  <2> DEFINE a == B[i].coins
             t == vtx[i + 1]
             u == UpdateCoins(a, t, height)
  <2>1. /\ i + 1 \in 1..n /\ (i + 1) - 1 = i /\ i \in Nat /\ i + 1 \in (i + 1)..n
        /\ t \in Tx /\ (t \in Coinbase <=> i = 0)
    BY <1>1
  <2>2. /\ HaveAllInputs(a, t)
        /\ B[i + 1] = [coins |-> u.coins, valid |-> TRUE,
                       vtxundo |-> IF t \in Coinbase THEN B[i].vtxundo
                                   ELSE Append(B[i].vtxundo, u.vprevout)]
    BY <1>3, <2>1, Zenon
  <2>3. a \in [Tx -> CCoins] /\ a[t] = Pruned
    BY Zenon, <1>5, <2>1
  <2>4. /\ u.coins \in [Tx -> CCoins]
        /\ \A x \in Tx \ {t} : a[x] = Pruned => u.coins[x] = Pruned
        /\ u.vprevout \in Seq(Undo)
    <3> HIDE DEF a, t
    <3> QED BY <2>1, <2>2, <2>3, TxUndone, Zenon
  <2> HIDE DEF u
  <2>5. B[i + 1].coins \in [Tx -> CCoins]
    BY <2>2, <2>4
  <2>6. ASSUME NEW j \in ((i + 1) + 1)..n PROVE B[i + 1].coins[vtx[j]] = Pruned
    <3>1. j \in 1..n /\ j \in (i + 1)..n /\ j # i + 1
      BY <2>1
    <3>2. vtx[j] \in Tx \ {t}
      BY Zenon, <1>1, <2>1, <3>1
    <3>3. a[vtx[j]] = Pruned
      BY Zenon, <1>5, <3>1
    <3> QED BY <2>2, <2>4, <3>2, <3>3
  <2>7. CASE i = 0
    <3>1. B[i + 1].vtxundo = B[i].vtxundo
      BY <2>1, <2>2, <2>7
    <3>2. /\ B[i + 1].vtxundo \in Seq(Seq(Undo))
          /\ Len(B[i + 1].vtxundo) = IF i + 1 = 0 THEN 0 ELSE (i + 1) - 1
      BY <1>5, <2>7, <3>1
    <3>3. 2..(i + 1) = {}
      BY <2>7
    <3> QED BY <2>5, <2>6, <3>2, <3>3, Zenon
  <2>8. CASE i # 0
    <3> DEFINE q == B[i].vtxundo
               e == u.vprevout
    <3>1. B[i + 1].vtxundo = Append(q, e) /\ q \in Seq(Seq(Undo)) /\ Len(q) = i - 1
          /\ e \in Seq(Undo)
      BY <1>5, <2>1, <2>2, <2>4, <2>8
    <3> HIDE DEF q, e
    <3>2. /\ Append(q, e) \in Seq(Seq(Undo)) /\ Len(Append(q, e)) = Len(q) + 1
          /\ Append(q, e)[Len(q) + 1] = e
          /\ \A j \in 1..Len(q) : Append(q, e)[j] = q[j]
      BY <3>1, AppendIs
    <3>3. /\ B[i + 1].vtxundo \in Seq(Seq(Undo))
          /\ Len(B[i + 1].vtxundo) = IF i + 1 = 0 THEN 0 ELSE (i + 1) - 1
      BY <2>1, <2>8, <3>1, <3>2
    <3>4. ASSUME NEW j \in 2..(i + 1)
          PROVE  B[i + 1].vtxundo[j - 1] =
                   UpdateCoins(B[j - 1].coins, vtx[j], height).vprevout
      <4>1. CASE j = i + 1
        <5>1. B[i + 1].vtxundo[i] = e
          BY <2>1, <2>8, <3>1, <3>2
        <5> QED BY Zenon, <2>1, <4>1, <5>1 DEF e, u
      <4>2. CASE j # i + 1
        <5>1. j \in 2..i /\ j - 1 \in 1..Len(q)
          BY <2>1, <3>1, <4>2
        <5>2. B[i + 1].vtxundo[j - 1] = B[i].vtxundo[j - 1]
          BY Zenon, <3>1, <3>2, <5>1 DEF q
        <5> QED BY Zenon, <1>5, <5>1, <5>2
      <4> QED BY Zenon, <4>1, <4>2
    <3> QED BY Zenon, <2>5, <2>6, <3>3, <3>4
  <2> QED BY Zenon, <2>7, <2>8
<1> HIDE DEF Good
<1>6. 0 \in S /\ \A i \in 0..(n - 1) : i \in S => i + 1 \in S
  BY <1>1, <1>4, <1>5
<1>7. 0..n \subseteq S
  <2> HIDE DEF S
  <2> QED BY Zenon, <1>1, <1>6, BoundedInduction
<1>8. \A i \in 0..n : Good(i)
  BY Zenon, <1>7
<1>9. \A i : Good(i) = GoodState(B, vtx, height, i)
  BY Zenon DEF Good, GoodState, n
<1> QED BY Zenon, <1>8, <1>9 DEF B, n

(* DisconnectBlock takes back exactly what ConnectBlock did: for any coins  *)
(* and any block that connects, disconnecting it with the undo data it      *)
(* wrote finds nothing wrong (fClean) and leaves the coins as they were, in *)
(* every field, whatever the block spends within itself or of one           *)
(* transaction in several inputs.                                           *)
THEOREM DisconnectUndoesConnect ==
  ASSUME NEW view \in [Tx -> CCoins], NEW vtx, IsBlock(vtx),
         NEW height \in Nat \ {0}, ConnectBlock(view, vtx, height).valid
  PROVE  LET b == ConnectBlock(view, vtx, height)
         IN DisconnectBlock(b.coins, vtx, height, b.vtxundo) =
              [coins |-> view, fClean |-> TRUE]
<1> DEFINE B == Connected(view, vtx, height)
           n == Len(vtx)
           p == B[n].vtxundo
           c == B[n].coins
           D == Disconnected(c, vtx, height, p)
           S == {k \in 0..n : D[k] = [coins |-> B[n - k].coins, fClean |-> TRUE]}
<1>1. /\ n \in Nat /\ n # 0
      /\ \A j \in 1..n : vtx[j] \in Tx /\ (vtx[j] \in Coinbase <=> j = 1)
  BY DEF IsBlock
<1>2. /\ B[0] = [coins |-> view, vtxundo |-> <<>>,
                 valid |-> \A j \in DOMAIN vtx : IsPruned(view[vtx[j]])]
      /\ \A i \in 1..n : B[i] = ConnectTx(B[i - 1], vtx[i], height)
  <2>1. n \in Nat
    BY Zenon, <1>1
  <2> QED BY Zenon, <2>1, ConnectedIs
<1>3. \A i \in 1..n :
        LET u == UpdateCoins(B[i - 1].coins, vtx[i], height)
        IN /\ B[i - 1].valid /\ HaveAllInputs(B[i - 1].coins, vtx[i])
           /\ B[i] = [coins |-> u.coins, valid |-> TRUE,
                      vtxundo |-> IF vtx[i] \in Coinbase THEN B[i - 1].vtxundo
                                  ELSE Append(B[i - 1].vtxundo, u.vprevout)]
  BY ConnectedValid
<1>4. \A i \in 0..n :
        /\ B[i].coins \in [Tx -> CCoins]
        /\ \A j \in (i + 1)..n : B[i].coins[vtx[j]] = Pruned
        /\ B[i].vtxundo \in Seq(Seq(Undo))
        /\ Len(B[i].vtxundo) = IF i = 0 THEN 0 ELSE i - 1
        /\ \A j \in 2..i : B[i].vtxundo[j - 1] =
             UpdateCoins(B[j - 1].coins, vtx[j], height).vprevout
  <2>1. \A i \in 0..n : GoodState(B, vtx, height, i)
    BY Zenon, ConnectedStates
  <2> HIDE DEF B
  <2> QED BY Zenon, <2>1 DEF GoodState
<1>5. ConnectBlock(view, vtx, height) = B[n]
  BY Zenon DEF ConnectBlock
<1> HIDE DEF B, c, p
<1>6. /\ D[0] = [coins |-> c, fClean |-> Len(p) + 1 = n]
      /\ \A k \in 1..n : D[k] =
           DisconnectTx(D[k - 1], vtx[n + 1 - k], height,
                        IF k = n THEN <<>> ELSE p[n - k])
  BY <1>1, DisconnectedIs
<1>7. DisconnectBlock(c, vtx, height, p) = D[n]
  BY Zenon DEF DisconnectBlock
<1> HIDE DEF D, n
<1>8. Len(p) = n - 1 /\ \A j \in 2..n : p[j - 1] =
        UpdateCoins(B[j - 1].coins, vtx[j], height).vprevout
  <2>1. n \in 0..n
    BY <1>1
  <2> QED BY Zenon, <1>1, <1>4, <2>1 DEF p
<1>9. 0 \in S
  <2>1. (Len(p) + 1 = n) = TRUE /\ n - 0 = n /\ 0 \in 0..n
    BY <1>1, <1>8
  <2> QED BY <1>6, <2>1, Zenon DEF c
<1>10. ASSUME NEW k \in 0..(n - 1), k \in S PROVE k + 1 \in S
  <2> DEFINE j == n - k
             a == B[j - 1].coins
             t == vtx[j]
             u == UpdateCoins(a, t, height)
             q == IF k + 1 = n THEN <<>> ELSE p[n - (k + 1)]
  <2>1. /\ j \in 1..n /\ j - 1 \in 0..n /\ n + 1 - (k + 1) = j /\ n - (k + 1) = j - 1
        /\ k + 1 \in 1..n /\ (k + 1) - 1 = k /\ j \in ((j - 1) + 1)..n
        /\ (k + 1 = n <=> j = 1) /\ k + 1 \in 0..n /\ (j # 1 => j \in 2..n)
    BY <1>1
  <2>2. D[k] = [coins |-> B[j].coins, fClean |-> TRUE]
    BY Zenon, <1>10
  <2>3. D[k + 1] = DisconnectTx(D[k], vtx[n + 1 - (k + 1)], height, q)
    BY <1>6, <2>1, Zenon
  <2> HIDE DEF j
  <2>4. D[k + 1] = DisconnectTx(D[k], t, height, q)
    BY Zenon, <2>1, <2>3
  <2>5. /\ HaveAllInputs(a, t) /\ B[j].coins = u.coins
        /\ a \in [Tx -> CCoins] /\ a[t] = Pruned /\ t \in Tx
    <3>1. HaveAllInputs(a, t) /\ B[j].coins = u.coins
      <4>1. /\ HaveAllInputs(a, t)
            /\ B[j] = [coins |-> u.coins, valid |-> TRUE,
                       vtxundo |-> IF t \in Coinbase THEN B[j - 1].vtxundo
                                   ELSE Append(B[j - 1].vtxundo, u.vprevout)]
        BY <1>3, <2>1, Zenon
      <4> HIDE DEF a, t, u
      <4> QED BY <4>1
    <3>2. a \in [Tx -> CCoins] /\ a[t] = Pruned
      <4>1. a \in [Tx -> CCoins]
        BY Zenon, <1>4, <2>1
      <4>2. \A i \in ((j - 1) + 1)..n : B[j - 1].coins[vtx[i]] = Pruned
        BY <1>4, <2>1, Zenon
      <4> QED BY Zenon, <2>1, <4>1, <4>2
    <3>3. t \in Tx
      BY Zenon, <1>1, <2>1
    <3> QED BY Zenon, <3>1, <3>2, <3>3
  <2>6. /\ u.vprevout \in Seq(Undo) /\ Len(u.vprevout) = Len(Vin[t])
        /\ DisconnectTx([coins |-> u.coins, fClean |-> TRUE], t, height, u.vprevout) =
             [coins |-> a, fClean |-> TRUE]
    <3> HIDE DEF a, t
    <3> QED BY Zenon, <2>5, TxUndone
  <2>7. q = u.vprevout
    <3>1. CASE j = 1
      <4>1. t \in Coinbase
        BY Zenon, <1>1, <2>1, <3>1
      <4>2. Len(Vin[t]) = 0
        BY <4>1, BlockCoinsAssumption
      <4> HIDE DEF u
      <4> QED BY <2>1, <2>6, <3>1, <4>2
    <3>2. CASE j # 1
      BY Zenon, <1>8, <2>1, <3>2
    <3> QED BY Zenon, <3>1, <3>2
  <2> HIDE DEF q, u
  <2>8. D[k + 1] = [coins |-> a, fClean |-> TRUE]
    BY Zenon, <2>2, <2>4, <2>5, <2>6, <2>7
  <2>9. B[n - (k + 1)].coins = a
    BY Zenon, <2>1
  <2> QED BY <2>1, <2>8, <2>9, Zenon
<1>11. 0..n \subseteq S
  <2> HIDE DEF S
  <2> QED BY Zenon, <1>1, <1>9, <1>10, BoundedInduction
<1>12. D[n] = [coins |-> view, fClean |-> TRUE]
  <2>1. n \in 0..n /\ n - n = 0
    BY <1>1
  <2> QED BY <1>2, <1>11, <2>1
<1> QED BY Zenon, <1>5, <1>7, <1>12 DEF c, p

-----------------------------------------------------------------------------
(* The pool and the chain.                                                  *)

Fields ==
  {"mapTx", "mapNextTx", "parents", "children", "feeDelta", "lockHeight",
   "maxInputBlock", "nCountWithDescendants", "nModFeesWithDescendants",
   "nCountWithAncestors", "nModFeesWithAncestors"}

IsPool(p) == p = [f \in Fields |-> p[f]]

(* SpendsExact, of any pool and with the types of the two maps.             *)
Exact(p) ==
  /\ p.mapTx \subseteq Tx
  /\ p.mapNextTx \in [OutPoint -> Tx \cup {NoTx}]
  /\ \A o \in OutPoint, t \in Tx : p.mapNextTx[o] = t <=> t \in p.mapTx /\ o \in Prevouts(t)

(* Where the call is: enough to know that what it goes through are          *)
(* transactions and that it never disconnects Base.                         *)
Typed ==
  /\ tip \in Block /\ coinsTip \in Block
  /\ todo \in Seq(Tx) /\ vHashUpdate \in Seq(Tx)
  /\ pc \in {"move", "resurrect", "update", "block"} => op \in {"step", "reorg", "invalidate"}
  /\ op \in {"step", "reorg"} => target \in Block
  /\ op = "invalidate" => target \in Block \ {Base}

Inv == Typed /\ IsPool(pool) /\ Exact(pool)

(* The two pools differ in links and statistics only.                       *)
SameSpends(p, q) == IsPool(q) /\ q.mapTx = p.mapTx /\ q.mapNextTx = p.mapNextTx

(* S is out of the pool q, and what it spent is not spent any more.         *)
Freed(p, q, S) ==
  /\ q.mapTx = p.mapTx \ S
  /\ \A o \in OutPoint : p.mapNextTx[o] \in S \cup {NoTx} => q.mapNextTx[o] = NoTx

-----------------------------------------------------------------------------
LEMMA PrevoutsType == \A t \in Tx : Prevouts(t) \subseteq OutPoint
<1> SUFFICES ASSUME NEW t \in Tx PROVE Prevouts(t) \subseteq OutPoint
  BY Zenon
<1>1. Vin[t] \in Seq(OutPoint)
  BY Zenon, BlockCoinsAssumption
<1> QED BY <1>1 DEF Prevouts, Range

LEMMA SameSpendsExact ==
  ASSUME NEW p, NEW q, Exact(p), SameSpends(p, q)
  PROVE  IsPool(q) /\ Exact(q)
  BY Zenon DEF Exact, SameSpends

(* The walks stay in the pool and contain where they start.                 *)
LEMMA CalculateDescendantsIn ==
  ASSUME NEW p, NEW S
  PROVE  /\ CalculateDescendants(p, S) \subseteq p.mapTx
         /\ S \cap p.mapTx \subseteq CalculateDescendants(p, S)
  BY Zenon DEF CalculateDescendants, Reach

LEMMA UpdateForRemoveSame ==
  ASSUME NEW p, NEW S, NEW updateDescendants, IsPool(p)
  PROVE  SameSpends(p, UpdateForRemoveFromMempool(p, S, updateDescendants))
<1> DEFINE q == IF updateDescendants
                THEN UpdateAncestorState(p, -1, [d \in Tx |-> {r \in S : d \in Descendants(p, r)}])
                ELSE p
           s == UpdateDescendantState(q, -1, [a \in Tx |-> {r \in S : a \in LinkedAncestors(p, r)}])
<1>1. SameSpends(p, q)
  BY Zenon DEF UpdateAncestorState, SameSpends, IsPool, Fields
<1>2. SameSpends(q, s)
  <2> HIDE DEF q
  <2> QED BY <1>1, Zenon DEF UpdateDescendantState, SameSpends, IsPool, Fields
<1> HIDE DEF q, s
<1>3. UpdateForRemoveFromMempool(p, S, updateDescendants) =
        [s EXCEPT
           !.children = [t \in Tx |-> @[t] \ {r \in S : t \in p.parents[r]}],
           !.parents = [t \in Tx |-> @[t] \ {r \in S : t \in p.children[r]}]]
  BY Zenon DEF UpdateForRemoveFromMempool, q, s
<1> QED BY <1>1, <1>2, <1>3, Zenon DEF SameSpends, IsPool, Fields

(* What is removed takes its spends with it, and nobody else's.             *)
LEMMA RemoveStagedExact ==
  ASSUME NEW p, NEW S, NEW updateDescendants,
         IsPool(p), Exact(p), S \subseteq p.mapTx,
         NEW q, q = RemoveStaged(p, S, updateDescendants)
  PROVE  IsPool(q) /\ Exact(q) /\ Freed(p, q, S)
<1> DEFINE u == UpdateForRemoveFromMempool(p, S, updateDescendants)
<1>1. SameSpends(p, u)
  BY Zenon, UpdateForRemoveSame
<1>0. q = removeUnchecked(u, S)
  BY Zenon DEF RemoveStaged
<1> HIDE DEF u
<1> DEFINE v == removeUnchecked(u, S)
<1>6. /\ IsPool(v)
      /\ v.mapTx = p.mapTx \ S
      /\ v.mapNextTx = [o \in OutPoint |-> IF \E r \in S : o \in Prevouts(r) THEN NoTx
                                            ELSE p.mapNextTx[o]]
  BY <1>1, Zenon DEF removeUnchecked, SameSpends, IsPool, Fields
<1>2. /\ IsPool(q)
      /\ q.mapTx = p.mapTx \ S
      /\ q.mapNextTx = [o \in OutPoint |-> IF \E r \in S : o \in Prevouts(r) THEN NoTx
                                            ELSE p.mapNextTx[o]]
  <2> HIDE DEF v
  <2>1. q = v
    BY Zenon, <1>0 DEF v
  <2> QED BY ONLY <2>1, <1>6
<1>3. Exact(q)
  BY <1>2, MemPoolAssumption DEF Exact
<1>4. \A o \in OutPoint : p.mapNextTx[o] \in S => q.mapNextTx[o] = NoTx
  BY Zenon, <1>2 DEF Exact
<1>5. \A o \in OutPoint : p.mapNextTx[o] = NoTx => q.mapNextTx[o] = NoTx
  BY Zenon, <1>2
<1> QED BY Zenon, <1>2, <1>3, <1>4, <1>5 DEF Freed

LEMMA RemoveWithDescendantsExact ==
  ASSUME NEW p, NEW S, IsPool(p), Exact(p)
  PROVE  LET q == RemoveStaged(p, CalculateDescendants(p, S), FALSE)
         IN IsPool(q) /\ Exact(q)
<1> DEFINE D == CalculateDescendants(p, S)
<1>1. D \subseteq p.mapTx
  BY Zenon, CalculateDescendantsIn
<1> HIDE DEF D
<1>2. IsPool(RemoveStaged(p, D, FALSE)) /\ Exact(RemoveStaged(p, D, FALSE))
  BY <1>1, RemoveStagedExact, Zenon
<1> QED BY Zenon, <1>2 DEF D

(* An addition is sound once nothing in the pool spends the same.           *)
LEMMA AddUncheckedExact ==
  ASSUME NEW p, NEW t \in Tx, NEW setAncestors,
         IsPool(p), Exact(p), t \notin p.mapTx,
         \A o \in Prevouts(t) : p.mapNextTx[o] = NoTx
  PROVE  LET q == addUnchecked(p, t, setAncestors) IN IsPool(q) /\ Exact(q)
<1> DEFINE self == {t}
           parents == Parents(p, t)
           q == [p EXCEPT
                   !.mapTx = @ \cup {t},
                   !.mapNextTx =
                      [o \in OutPoint |-> IF o \in Prevouts(t) /\ @[o] = NoTx THEN t ELSE @[o]],
                   !.feeDelta[t] = mapDeltas[t],
                   !.lockHeight[t] = CalculateSequenceLocks(p, t),
                   !.maxInputBlock[t] = MaxInputBlock(p, t),
                   !.parents[t] = parents,
                   !.children = [u \in Tx |-> IF u \in parents THEN @[u] \cup {t} ELSE @[u]]]
           s == UpdateDescendantState(q, 1,
                  [a \in Tx |-> IF a \in setAncestors \cup self THEN self ELSE {}])
           r == UpdateAncestorState(s, 1,
                  [d \in Tx |-> IF d = t THEN setAncestors \cup self ELSE {}])
<1>1. /\ IsPool(q)
      /\ q.mapTx = p.mapTx \cup {t}
      /\ q.mapNextTx = [o \in OutPoint |-> IF o \in Prevouts(t) /\ p.mapNextTx[o] = NoTx THEN t
                                            ELSE p.mapNextTx[o]]
  BY ZenonT(30) DEF IsPool, Fields
<1>2. SameSpends(q, s)
  <2> HIDE DEF q
  <2> QED BY <1>1, Zenon DEF UpdateDescendantState, SameSpends, IsPool, Fields
<1>3. SameSpends(s, r)
  <2> HIDE DEF s
  <2> QED BY <1>2, Zenon DEF UpdateAncestorState, SameSpends, IsPool, Fields
<1>4. addUnchecked(p, t, setAncestors) = r
  BY Zenon DEF addUnchecked
<1> HIDE DEF q, s, r
<1>5. Exact(q)
  BY <1>1, MemPoolAssumption DEF Exact
<1>6. IsPool(r) /\ Exact(r)
  BY Zenon, <1>2, <1>3, <1>5, SameSpendsExact
<1> QED BY Zenon, <1>4, <1>6

LEMMA AdmitExact ==
  ASSUME NEW p, NEW t \in Tx, IsPool(p), Exact(p), t \notin p.mapTx
  PROVE  LET q == Admit(p, t) IN IsPool(q) /\ Exact(q)
<1> DEFINE conflicts == Conflicts(p, t)
           D == CalculateDescendants(p, conflicts)
           q == RemoveStaged(p, D, FALSE)
<1>1. conflicts \subseteq p.mapTx
  BY PrevoutsType, MemPoolAssumption DEF Conflicts, Exact
<1>2. D \subseteq p.mapTx /\ conflicts \subseteq D
  <2> HIDE DEF conflicts
  <2> QED BY Zenon, <1>1, CalculateDescendantsIn
<1>3. \A o \in Prevouts(t) : p.mapNextTx[o] = NoTx \/ p.mapNextTx[o] \in D
  <2> HIDE DEF D
  <2> QED BY Zenon, <1>2, PrevoutsType DEF Conflicts, Exact
<1>0. q = RemoveStaged(p, D, FALSE)
  BY Zenon
<1> HIDE DEF D, q
<1>4. /\ IsPool(q) /\ Exact(q)
      /\ q.mapTx = p.mapTx \ D
      /\ \A o \in OutPoint : p.mapNextTx[o] \in D \cup {NoTx} => q.mapNextTx[o] = NoTx
  <2>1. D \subseteq p.mapTx
    BY Zenon, <1>2
  <2> HIDE DEF conflicts
  <2>2. IsPool(q) /\ Exact(q) /\ Freed(p, q, D)
    BY <1>0, <2>1, RemoveStagedExact, Zenon
  <2> QED BY Zenon, <2>2 DEF Freed
<1>5. t \notin q.mapTx /\ \A o \in Prevouts(t) : q.mapNextTx[o] = NoTx
  BY Zenon, <1>3, <1>4, PrevoutsType
<1>6. \A A : IsPool(addUnchecked(q, t, A)) /\ Exact(addUnchecked(q, t, A))
  BY Zenon, <1>4, <1>5, AddUncheckedExact
<1> QED BY <1>6, Zenon DEF Admit, q, D

LEMMA UpdateForDescendantsSame ==
  ASSUME NEW p, NEW t, NEW setExclude, IsPool(p)
  PROVE  SameSpends(p, UpdateForDescendants(p, t, setExclude))
<1> DEFINE children == ({p.mapNextTx[<<t, n>>] : n \in Index} \ {NoTx}) \ setExclude
           q == [p EXCEPT
                   !.children[t] = @ \cup children,
                   !.parents = [u \in Tx |-> IF u \in children THEN @[u] \cup {t} ELSE @[u]]]
           found == Descendants(q, t) \ setExclude
           s == UpdateDescendantState(q, 1, [a \in Tx |-> IF a = t THEN found ELSE {}])
           r == UpdateAncestorState(s, 1, [d \in Tx |-> IF d \in found THEN {t} ELSE {}])
<1>1. SameSpends(p, q)
  <2> HIDE DEF children
  <2> QED BY Zenon DEF SameSpends, IsPool, Fields
<1>2. SameSpends(q, s)
  <2> HIDE DEF q, found
  <2> QED BY <1>1, Zenon DEF UpdateDescendantState, SameSpends, IsPool, Fields
<1>3. SameSpends(s, r)
  <2> HIDE DEF s, found
  <2> QED BY <1>2, Zenon DEF UpdateAncestorState, SameSpends, IsPool, Fields
<1>4. UpdateForDescendants(p, t, setExclude) = r
  BY Zenon DEF UpdateForDescendants
<1> HIDE DEF q, s, r
<1> QED BY Zenon, <1>1, <1>2, <1>3, <1>4 DEF SameSpends

-----------------------------------------------------------------------------
LEMMA InitInv == Init => Inv
<1> SUFFICES ASSUME Init PROVE Inv
  BY Zenon
<1>1. IsPool(Empty)
  BY Zenon DEF Empty, IsPool, Fields
<1>2. Empty.mapTx = {} /\ Empty.mapNextTx = [o \in OutPoint |-> NoTx]
  BY Zenon DEF Empty
<1>3. Exact(Empty)
  <2>1. NoTx \notin Tx
    BY MemPoolAssumption
  <2> QED BY Zenon, <1>2, <2>1 DEF Exact
<1>4. Typed
  BY MemPoolAssumption DEF Init, Typed
<1> QED BY Zenon, <1>1, <1>3, <1>4 DEF Init, Inv

LEMMA TypedInv == Typed /\ [Next]_vars => Typed'
<1> SUFFICES ASSUME Typed, [Next]_vars PROVE Typed'
  BY Zenon
<1> USE DEF Typed
<1>1. ASSUME NEW t \in Tx, AcceptToMemoryPool(t) PROVE Typed'
  BY Zenon, <1>1 DEF AcceptToMemoryPool, chain
<1>2. ASSUME NEW t \in Tx, PrioritiseTransaction(t) PROVE Typed'
  BY Zenon, <1>2 DEF PrioritiseTransaction, chain, control
<1>3. ASSUME NEW b \in Block, ActivateBestChainStep(b) PROVE Typed'
  BY Zenon, <1>3 DEF ActivateBestChainStep, chain
<1>4. ASSUME NEW b \in Block, InvalidateBlock(b) PROVE Typed'
  BY Zenon, <1>4, MemPoolAssumption DEF InvalidateBlock, chain
<1>5. CASE DisconnectTip
  <2>1. tip # Base
    BY <1>5, MemPoolAssumption DEF DisconnectTip
  <2>2. HashPrev[tip] \in Block /\ Vtx[tip] \in Seq(Tx)
    BY Zenon, <2>1, MemPoolAssumption
  <2> QED BY <1>5, <2>2 DEF DisconnectTip
<1>6. CASE Resurrect
  <2>1. Head(todo) \in Tx /\ Tail(todo) \in Seq(Tx)
    BY <1>6 DEF Resurrect
  <2>2. vHashUpdate' \in Seq(Tx)
    <3>1. \/ vHashUpdate' = Append(vHashUpdate, Head(todo))
          \/ vHashUpdate' = vHashUpdate
      BY <1>6, Zenon DEF Resurrect
    <3> QED BY <2>1, <3>1
  <2>3. UNCHANGED <<tip, coinsTip, op, pc, target>> /\ todo' = Tail(todo)
    BY Zenon, <1>6 DEF Resurrect, chain
  <2> QED BY Zenon, <2>1, <2>2, <2>3
<1>7. CASE Resurrected
  BY Zenon, <1>7 DEF Resurrected, chain
<1>8. CASE UpdateTransactionsFromBlock
  <2>1. SubSeq(todo, 1, Len(todo) - 1) \in Seq(Tx)
    BY <1>8 DEF UpdateTransactionsFromBlock
  <2> QED BY Zenon, <1>8, <2>1 DEF UpdateTransactionsFromBlock, chain
<1>9. CASE ConnectTip
  <2>1. op \in {"step", "reorg"}
    BY Zenon, <1>9 DEF ConnectTip
  <2>2. PICK b \in Ancestors[target] \ {Base} : coinsTip' = b /\ todo' = Vtx[b]
    BY Zenon, <1>9 DEF ConnectTip
  <2>3. b \in Block /\ Vtx[b] \in Seq(Tx)
    BY Zenon, <2>1, <2>2, MemPoolAssumption
  <2> QED BY Zenon, <1>9, <2>1, <2>2, <2>3 DEF ConnectTip
<1>10. CASE removeForBlock
  <2>1. Tail(todo) \in Seq(Tx)
    BY <1>10 DEF removeForBlock
  <2> QED BY Zenon, <1>10, <2>1 DEF removeForBlock, chain
<1>11. CASE UpdateTip
  BY Zenon, <1>11 DEF UpdateTip
<1>12. CASE Moved
  BY <1>12, Zenon DEF Moved, Return, chain
<1>13. CASE removeForReorg
  BY Zenon, <1>13 DEF removeForReorg, Return, chain
<1>14. CASE Expire
  BY Zenon, <1>14 DEF Expire, chain
<1>15. CASE TrimToSize
  BY <1>15, Zenon DEF TrimToSize, Return, chain, control
<1>16. CASE UNCHANGED vars
  BY Zenon, <1>16 DEF vars, chain, control
<1> QED BY Zenon, <1>1, <1>2, <1>3, <1>4, <1>5, <1>6, <1>7, <1>8, <1>9, <1>10, <1>11,
           <1>12, <1>13, <1>14, <1>15, <1>16 DEF Next

(* One step per action that changes the pool.                               *)
LEMMA PoolInv == Inv /\ [Next]_vars => IsPool(pool') /\ Exact(pool')
<1> SUFFICES ASSUME Inv, [Next]_vars PROVE IsPool(pool') /\ Exact(pool')
  BY Zenon
<1>0. IsPool(pool) /\ Exact(pool) /\ Typed
  BY Zenon DEF Inv
<1>1. ASSUME NEW t \in Tx, AcceptToMemoryPool(t) PROVE IsPool(pool') /\ Exact(pool')
  <2>1. t \notin pool.mapTx /\ pool' = Admit(pool, t)
    BY Zenon, <1>1 DEF AcceptToMemoryPool, Admissible
  <2> QED BY Zenon, <1>0, <2>1, AdmitExact
<1>2. ASSUME NEW t \in Tx, PrioritiseTransaction(t) PROVE IsPool(pool') /\ Exact(pool')
  <2>1. SameSpends(pool, pool')
    <3>1. CASE t \notin pool.mapTx
      BY Zenon, <1>0, <1>2, <3>1 DEF PrioritiseTransaction, SameSpends
    <3>2. CASE t \in pool.mapTx
      <4> DEFINE own == mapDeltas'[t] - pool.feeDelta[t]
                 Gain(u, S) == IF u = t THEN own ELSE IF u \in S THEN 1 ELSE 0
                 f == [u \in Tx |-> pool.nModFeesWithDescendants[u]
                                      + Gain(u, LinkedAncestors(pool, t))]
                 g == [u \in Tx |-> pool.nModFeesWithAncestors[u]
                                      + Gain(u, Descendants(pool, t))]
      <4>1. pool' = [pool EXCEPT !.feeDelta[t] = mapDeltas'[t],
                                 !.nModFeesWithDescendants = f,
                                 !.nModFeesWithAncestors = g]
        BY Zenon, <1>2, <3>2 DEF PrioritiseTransaction
      <4> HIDE DEF f, g
      <4> QED BY <1>0, <4>1, Zenon DEF SameSpends, IsPool, Fields
    <3> QED BY Zenon, <3>1, <3>2
  <2> QED BY Zenon, <1>0, <2>1, SameSpendsExact
<1>3. CASE Resurrect
  <2> DEFINE t == Head(todo)
  <2>1. t \in Tx
    BY <1>0, <1>3 DEF Resurrect, Typed
  <2>2. CASE Admissible(pool, t) /\ pool' = Admit(pool, t)
    <3> HIDE DEF t
    <3>1. t \notin pool.mapTx
      BY Zenon, <2>2 DEF Admissible
    <3> QED BY Zenon, <1>0, <2>1, <2>2, <3>1, AdmitExact
  <2>3. CASE pool' = removeRecursive(pool, t)
    <3> HIDE DEF t
    <3> QED BY <1>0, <2>3, RemoveWithDescendantsExact, Zenon DEF removeRecursive
  <2> QED BY Zenon, <1>3, <2>2, <2>3 DEF Resurrect
<1>4. CASE UpdateTransactionsFromBlock
  <2>1. pool' = pool \/ \E t, E : pool' = UpdateForDescendants(pool, t, E)
    BY Zenon, <1>4 DEF UpdateTransactionsFromBlock
  <2> QED BY Zenon, <1>0, <2>1, UpdateForDescendantsSame, SameSpendsExact
<1>5. CASE removeForBlock
  <2> DEFINE t == Head(todo)
             p == IF t \in pool.mapTx THEN RemoveStaged(pool, {t}, TRUE) ELSE pool
  <2>1. IsPool(p) /\ Exact(p)
    <3> HIDE DEF t
    <3> QED BY <1>0, RemoveStagedExact, Zenon
  <2>2. pool' = removeConflicts(p, t)
    BY Zenon, <1>5 DEF removeForBlock
  <2> HIDE DEF p, t
  <2> QED BY Zenon, <2>1, <2>2, RemoveWithDescendantsExact DEF removeConflicts
<1>6. CASE removeForReorg
  <2>1. PICK p, S : /\ SameSpends(pool, p)
                    /\ pool' = RemoveStaged(p, CalculateDescendants(p, S), FALSE)
    <3> DEFINE S == {t \in pool.mapTx : NoLongerMinable(pool, t)}
               R == {t \in pool.mapTx \ S : ~TestLockPointValidity(pool, t)}
               p == [pool EXCEPT
                       !.lockHeight = [t \in Tx |-> IF t \in R
                          THEN CalculateSequenceLocks(pool, t) ELSE @[t]],
                       !.maxInputBlock = [t \in Tx |-> IF t \in R
                          THEN MaxInputBlock(pool, t) ELSE @[t]]]
    <3>1. pool' = RemoveStaged(p, CalculateDescendants(p, S), FALSE)
      BY Zenon, <1>6 DEF removeForReorg
    <3>2. SameSpends(pool, p)
      <4> HIDE DEF R
      <4> QED BY <1>0, Zenon DEF SameSpends, IsPool, Fields
    <3> HIDE DEF p, S
    <3> QED BY Zenon, <3>1, <3>2
  <2>2. IsPool(p) /\ Exact(p)
    BY Zenon, <1>0, <2>1, SameSpendsExact
  <2> QED BY Zenon, <2>1, <2>2, RemoveWithDescendantsExact
<1>7. CASE Expire
  BY <1>0, <1>7, RemoveWithDescendantsExact, Zenon DEF Expire
<1>8. CASE TrimToSize
  BY <1>0, <1>8, RemoveWithDescendantsExact, Zenon DEF TrimToSize
<1>9. CASE UNCHANGED pool
  BY Zenon, <1>0, <1>9
<1> QED
  BY <1>1, <1>2, <1>3, <1>4, <1>5, <1>6, <1>7, <1>8, <1>9, Zenon
  DEF Next, vars, ActivateBestChainStep, InvalidateBlock, DisconnectTip, Resurrected,
      ConnectTip, UpdateTip, Moved

LEMMA NextInv == Inv /\ [Next]_vars => Inv'
  BY Zenon, TypedInv, PoolInv DEF Inv

(* At every moment of every reorganization, replacement and eviction, the   *)
(* pool marks an output as spent by exactly the entry that spends it.       *)
THEOREM SpendsAlwaysExact == Spec => []SpendsExact
<1>1. Inv => SpendsExact
  BY Zenon DEF Inv, Exact, SpendsExact
<1> QED BY <1>1, InitInv, NextInv, PTL DEF Spec

-----------------------------------------------------------------------------
(* The coins and the undo data of the chain: F gives the coins up to each   *)
(* block of D, the blocks that were connected at some time.                 *)
BaseCoins == ConnectBlock([t \in Tx |-> Pruned], Vtx[Base], Height[Base]).coins

History(F, D) ==
  /\ F \in [Block -> [Tx -> CCoins]] /\ D \subseteq Block \ {Base}
  /\ F[Base] = BaseCoins
  /\ coinsTip \in D \cup {Base} /\ coins = F[coinsTip]
  /\ \A b \in D :
       LET done == ConnectBlock(F[HashPrev[b]], Vtx[b], Height[b])
       IN /\ HashPrev[b] \in D \cup {Base}
          /\ done.valid /\ F[b] = done.coins /\ undo[b] = done.vtxundo
  /\ undo = [b \in Block |-> undo[b]]
  /\ \A b \in Block \ D : undo[b] = NoUndo

ChainInv ==
  /\ Typed
  /\ pc \notin {"resurrect", "update", "block"} => coinsTip = tip
  /\ \E F, D : History(F, D)

(* A valid block leaves coins of the right form.                            *)
LEMMA ConnectBlockType ==
  ASSUME NEW c \in [Tx -> CCoins], NEW b \in Block,
         ConnectBlock(c, Vtx[b], Height[b]).valid
  PROVE  ConnectBlock(c, Vtx[b], Height[b]).coins \in [Tx -> CCoins]
<1> DEFINE B == Connected(c, Vtx[b], Height[b])
           n == Len(Vtx[b])
<1>1. IsBlock(Vtx[b]) /\ Height[b] \in Nat \ {0} /\ n \in 0..n
  BY MemPoolAssumption
<1>2. GoodState(B, Vtx[b], Height[b], n)
  BY Zenon, <1>1, ConnectedStates
<1> QED BY Zenon, <1>2 DEF GoodState, ConnectBlock

(* And disconnecting it again goes back to where it was.                    *)
LEMMA BlockUndone ==
  ASSUME NEW c \in [Tx -> CCoins], NEW b \in Block,
         ConnectBlock(c, Vtx[b], Height[b]).valid
  PROVE  LET done == ConnectBlock(c, Vtx[b], Height[b])
             undone == DisconnectBlock(done.coins, Vtx[b], Height[b], done.vtxundo)
         IN undone.fClean /\ undone.coins = c
<1>1. IsBlock(Vtx[b]) /\ Height[b] \in Nat \ {0}
  BY Zenon, MemPoolAssumption
<1> DEFINE done == ConnectBlock(c, Vtx[b], Height[b])
<1>2. DisconnectBlock(done.coins, Vtx[b], Height[b], done.vtxundo) =
        [coins |-> c, fClean |-> TRUE]
  BY <1>1, DisconnectUndoesConnect, Zenon
<1> HIDE DEF done
<1>3. LET undone == DisconnectBlock(done.coins, Vtx[b], Height[b], done.vtxundo)
      IN undone.fClean /\ undone.coins = c
  BY <1>2
<1> QED BY Zenon, <1>3 DEF done

LEMMA InitChain == Init => ChainInv
<1> SUFFICES ASSUME Init PROVE ChainInv
  BY Zenon
<1> DEFINE F == [b \in Block |-> coins]
<1>1. Typed /\ coinsTip = tip /\ coinsTip = Base /\ undo = [b \in Block |-> NoUndo]
  BY Zenon, InitInv DEF Init, Inv
<1>2. coins \in [Tx -> CCoins]
  <2>1. [t \in Tx |-> Pruned] \in [Tx -> CCoins]
    BY Zenon DEF CCoins
  <2> QED BY <2>1, ConnectBlockType, MemPoolAssumption, Zenon DEF Init
<1>3. F \in [Block -> [Tx -> CCoins]] /\ coins = F[Base] /\ F[Base] = BaseCoins
  <2>1. Base \in Block
    BY Zenon, MemPoolAssumption
  <2> QED BY Zenon, <1>2, <2>1 DEF Init, BaseCoins
<1> HIDE DEF F
<1>4. History(F, {})
  BY Zenon, <1>1, <1>3 DEF History
<1> QED BY Zenon, <1>1, <1>4 DEF ChainInv

(* Disconnecting the tip leads to the coins that its parent left.           *)
LEMMA TipUndone ==
  ASSUME NEW F, NEW D, History(F, D), coinsTip = tip, tip # Base
  PROVE  LET undone == DisconnectBlock(coins, Vtx[tip], Height[tip], undo[tip])
         IN /\ undone.fClean /\ undone.coins = F[HashPrev[tip]]
            /\ HashPrev[tip] \in D \cup {Base}
<1> DEFINE c == F[HashPrev[tip]]
           done == ConnectBlock(c, Vtx[tip], Height[tip])
<1>1. tip \in D /\ tip \in Block /\ HashPrev[tip] \in D \cup {Base}
  BY Zenon DEF History
<1>2. done.valid /\ coins = done.coins /\ undo[tip] = done.vtxundo
  BY <1>1, Zenon DEF History
<1>3. c \in [Tx -> CCoins]
  BY Zenon, <1>1, MemPoolAssumption DEF History
<1> HIDE DEF c
<1>4. LET undone == DisconnectBlock(done.coins, Vtx[tip], Height[tip], done.vtxundo)
      IN undone.fClean /\ undone.coins = c
  BY Zenon, <1>1, <1>2, <1>3, BlockUndone
<1> HIDE DEF done
<1> QED BY Zenon, <1>1, <1>2, <1>4 DEF c

LEMMA ConnectHistory ==
  ASSUME ChainInv, ConnectTip
  PROVE  \E F, D : History(F, D)'
<1>1. PICK F, D : History(F, D)
  BY Zenon DEF ChainInv
<1>2. coinsTip = tip
  BY Zenon DEF ChainInv, ConnectTip
<1>3. target \in Block
  BY Zenon DEF ChainInv, Typed, ConnectTip
<1>4. PICK b \in Ancestors[target] \ {Base} :
        /\ HashPrev[b] = tip
        /\ LET done == ConnectBlock(coins, Vtx[b], Height[b])
           IN /\ done.valid
              /\ coins' = done.coins
              /\ undo' = IF undo[b] = NoUndo THEN [undo EXCEPT ![b] = done.vtxundo]
                         ELSE undo
        /\ coinsTip' = b
  BY Zenon DEF ConnectTip
<1>5. b \in Block \ {Base}
  BY Zenon, <1>3, <1>4, MemPoolAssumption
<1> DEFINE done == ConnectBlock(coins, Vtx[b], Height[b])
           G == [F EXCEPT ![b] = done.coins]
           E == D \cup {b}
<1>6. coins = F[HashPrev[b]] /\ HashPrev[b] \in D \cup {Base}
  BY Zenon, <1>1, <1>2, <1>4 DEF History
<1>7. coins \in [Tx -> CCoins]
  BY <1>1, <1>5, <1>6, MemPoolAssumption DEF History
<1>8. done.valid /\ coins' = done.coins /\ done.coins \in [Tx -> CCoins]
  BY Zenon, <1>4, <1>5, <1>7, ConnectBlockType
<1>9. undo' = [undo EXCEPT ![b] = done.vtxundo]
  <2>1. CASE undo[b] = NoUndo
    BY Zenon, <1>4, <2>1
  <2>2. CASE undo[b] # NoUndo
    <3>1. b \in D
      BY Zenon, <1>1, <1>5, <2>2 DEF History
    <3>2. undo[b] = done.vtxundo
      BY <1>1, <1>6, <3>1, Zenon DEF History
    <3>3. undo = [x \in Block |-> undo[x]]
      BY Zenon, <1>1 DEF History
    <3> QED BY Zenon, <1>4, <2>2, <3>2, <3>3
  <2> QED BY Zenon, <2>1, <2>2
<1> HIDE DEF done
<1>10. CASE b \in D
  <2>1. F[b] = done.coins /\ undo[b] = done.vtxundo
    BY <1>1, <1>6, <1>10, Zenon DEF History, done
  <2>2. undo' = undo
    BY Zenon, <1>1, <1>9, <2>1 DEF History
  <2>3. History(F, D)'
    BY <1>1, <1>4, <1>8, <1>10, <2>1, <2>2, Zenon DEF History
  <2> QED BY Zenon, <2>3
<1>11. CASE b \notin D
  <2>1. \A d \in D : d # b /\ HashPrev[d] # b
    BY <1>1, <1>5, <1>11, Zenon DEF History
  <2>2. HashPrev[b] # b /\ HashPrev[b] \in Block
    <3>1. HashPrev \in [Block \ {Base} -> Block]
      BY MemPoolAssumption
    <3> QED BY Zenon, <1>5, <1>6, <1>11, <3>1
  <2>3. /\ G \in [Block -> [Tx -> CCoins]] /\ G[b] = done.coins
        /\ \A x \in Block : x # b => G[x] = F[x]
    BY Zenon, <1>1, <1>5, <1>8 DEF History
  <2>4. /\ undo'[b] = done.vtxundo /\ undo' = [x \in Block |-> undo'[x]]
        /\ \A x \in Block : x # b => undo'[x] = undo[x]
    BY <1>1, <1>5, <1>9, Zenon DEF History
  <2> HIDE DEF G
  <2>5. ASSUME NEW d \in E
        PROVE  LET now == ConnectBlock(G[HashPrev[d]], Vtx[d], Height[d])
               IN /\ HashPrev[d] \in E \cup {Base}
                  /\ now.valid /\ G[d] = now.coins /\ undo'[d] = now.vtxundo
    <3>1. CASE d = b
      <4>1. G[HashPrev[d]] = coins
        BY Zenon, <1>6, <2>2, <2>3, <3>1
      <4> QED BY Zenon, <1>6, <1>8, <2>3, <2>4, <3>1, <4>1 DEF done
    <3>2. CASE d \in D
      <4>1. d \in Block /\ HashPrev[d] \in Block /\ HashPrev[d] \in D \cup {Base}
        BY <1>1, <3>2, MemPoolAssumption, Zenon DEF History
      <4>2. G[HashPrev[d]] = F[HashPrev[d]] /\ G[d] = F[d] /\ undo'[d] = undo[d]
        BY Zenon, <2>1, <2>3, <2>4, <3>2, <4>1
      <4> QED BY <1>1, <3>2, <4>1, <4>2, Zenon DEF History
    <3> QED BY Zenon, <3>1, <3>2
  <2>6. E \subseteq Block \ {Base} /\ coinsTip' \in E /\ coins' = G[coinsTip']
    BY Zenon, <1>1, <1>4, <1>5, <1>8, <2>3 DEF History
  <2>7. \A x \in Block \ E : undo'[x] = NoUndo
    BY Zenon, <1>1, <2>4 DEF History
  <2>12. G[Base] = BaseCoins
    <3>1. Base \in Block
      BY Zenon, MemPoolAssumption
    <3> QED BY Zenon, <1>1, <1>5, <2>3, <3>1 DEF History
  <2> HIDE DEF E
  <2>8. PICK H, K : H = G /\ K = E
    BY Zenon
  <2>9. \A d \in K : LET now == ConnectBlock(H[HashPrev[d]], Vtx[d], Height[d])
                     IN /\ HashPrev[d] \in K \cup {Base}
                        /\ now.valid /\ H[d] = now.coins /\ undo'[d] = now.vtxundo
    BY <2>5, <2>8, Zenon
  <2>10. /\ H \in [Block -> [Tx -> CCoins]] /\ K \subseteq Block \ {Base}
         /\ coinsTip' \in K \cup {Base} /\ coins' = H[coinsTip']
         /\ \A x \in Block \ K : undo'[x] = NoUndo
         /\ H[Base] = BaseCoins
    BY <2>3, <2>6, <2>7, <2>8, <2>12, Zenon
  <2>11. History(H, K)'
    BY <2>4, <2>9, <2>10, Zenon DEF History
  <2> QED BY Zenon, <2>11
<1> QED BY Zenon, <1>10, <1>11

LEMMA NextChain == ChainInv /\ [Next]_vars => ChainInv'
<1> SUFFICES ASSUME ChainInv, [Next]_vars PROVE ChainInv'
  BY Zenon
<1> DEFINE Settled == pc \notin {"resurrect", "update", "block"} => coinsTip = tip
           Recorded == \E F, D : History(F, D)
<1>0. Typed' /\ Settled /\ Recorded
  BY Zenon, TypedInv DEF ChainInv
<1>1. CASE ConnectTip
  <2>1. Recorded'
    BY Zenon, <1>1, ConnectHistory
  <2> QED BY Zenon, <1>0, <1>1, <2>1 DEF ChainInv, ConnectTip
<1>2. CASE DisconnectTip
  <2>1. tip # Base /\ coinsTip = tip
    <3>1. pc = "move" /\ (target \in Ancestors[tip] \/ tip \notin Ancestors[target])
      BY Zenon, <1>2 DEF DisconnectTip
    <3>2. coinsTip = tip
      BY Zenon, <1>0, <3>1
    <3>3. CASE op = "invalidate"
      <4>1. target \in Ancestors[tip] /\ target # Base
        BY Zenon, <1>2, <3>3 DEF DisconnectTip, ChainInv, Typed
      <4> QED BY Zenon, <3>2, <4>1, MemPoolAssumption
    <3>4. CASE op # "invalidate"
      <4>1. tip \notin Ancestors[target] /\ target \in Block
        BY Zenon, <1>2, <3>1, <3>4 DEF DisconnectTip, ChainInv, Typed
      <4>2. Base \in Ancestors[target]
        BY <4>1, MemPoolAssumption
      <4> QED BY Zenon, <3>2, <4>1, <4>2
    <3> QED BY Zenon, <3>3, <3>4
  <2>2. PICK F, D : History(F, D)
    BY Zenon, <1>0
  <2>3. /\ coins' = F[HashPrev[tip]] /\ coinsTip' = HashPrev[tip]
        /\ HashPrev[tip] \in D \cup {Base} /\ undo' = undo
    BY Zenon, <1>2, <2>1, <2>2, TipUndone DEF DisconnectTip
  <2>4. History(F, D)'
    BY <2>2, <2>3, Zenon DEF History
  <2> QED BY Zenon, <1>0, <1>2, <2>4 DEF ChainInv, DisconnectTip
<1>3. CASE UpdateTip
  <2>1. Recorded'
    <3>1. PICK F, D : History(F, D)
      BY Zenon, <1>0
    <3>2. History(F, D)'
      BY <1>3, <3>1, Zenon DEF UpdateTip, History
    <3> QED BY Zenon, <3>2
  <2> QED BY Zenon, <1>0, <1>3, <2>1 DEF ChainInv, UpdateTip
<1>4. ASSUME UNCHANGED chain, Settled' PROVE ChainInv'
  <2>1. Recorded'
    <3>1. PICK F, D : History(F, D)
      BY Zenon, <1>0
    <3>2. coins' = coins /\ coinsTip' = coinsTip /\ undo' = undo
      BY Zenon, <1>4 DEF chain
    <3>3. History(F, D)'
      BY <3>1, <3>2, Zenon DEF History
    <3> QED BY Zenon, <3>3
  <2> QED BY Zenon, <1>0, <1>4, <2>1 DEF ChainInv
<1>5. ASSUME NEW t \in Tx, AcceptToMemoryPool(t) \/ PrioritiseTransaction(t)
      PROVE  UNCHANGED chain /\ Settled'
  BY Zenon, <1>0, <1>5 DEF AcceptToMemoryPool, PrioritiseTransaction, chain, control
<1>6. ASSUME NEW b \in Block, ActivateBestChainStep(b) \/ InvalidateBlock(b)
      PROVE  UNCHANGED chain /\ Settled'
  BY Zenon, <1>0, <1>6 DEF ActivateBestChainStep, InvalidateBlock, chain
<1>7. CASE Resurrect \/ Resurrected \/ UpdateTransactionsFromBlock \/ removeForBlock
  <2>1. UNCHANGED chain /\ Settled'
    BY <1>0, <1>7, Zenon
    DEF Resurrect, Resurrected, UpdateTransactionsFromBlock, removeForBlock, chain
  <2> QED BY Zenon, <1>4, <2>1
<1>8. CASE Moved \/ removeForReorg \/ Expire \/ TrimToSize
  <2>1. UNCHANGED chain /\ Settled'
    BY <1>0, <1>8, Zenon DEF Moved, removeForReorg, Expire, TrimToSize, Return, chain, control
  <2> QED BY Zenon, <1>4, <2>1
<1>9. CASE UNCHANGED vars
  BY Zenon, <1>0, <1>4, <1>9 DEF vars, control, chain
<1> HIDE DEF Settled
<1> QED BY Zenon, <1>1, <1>2, <1>3, <1>4, <1>5, <1>6, <1>7, <1>8, <1>9 DEF Next

(* However often blocks were connected, disconnected and connected again,   *)
(* with the undo data of their first connection, DisconnectBlock finds the  *)
(* coins as it expects them: DisconnectTip never fails on its data.         *)
THEOREM TipAlwaysUndoable == Spec => []TipUndoable
<1>1. ChainInv => TipUndoable
  <2> SUFFICES ASSUME ChainInv, pc = "move", tip # Base
               PROVE  DisconnectBlock(coins, Vtx[tip], Height[tip], undo[tip]).fClean
    BY Zenon DEF TipUndoable
  <2>1. coinsTip = tip
    BY Zenon DEF ChainInv
  <2>2. PICK F, D : History(F, D)
    BY Zenon DEF ChainInv
  <2> QED BY Zenon, <2>1, <2>2, TipUndone
<1> QED BY <1>1, InitChain, NextChain, PTL DEF Spec

-----------------------------------------------------------------------------
(* What is left of a transaction.                                           *)

(* c holds the outputs of t that are spendable and not in X.                *)
Left(c, t, X, h) ==
  /\ c \in CCoins
  /\ \A n \in Nat : IsAvailable(c, n) <=>
       n < Len(Vout[t]) /\ Vout[t][n + 1] \notin Unspendable /\ <<t, n>> \notin X
  /\ \A n \in Nat : IsAvailable(c, n) => c.vout[n + 1] = Vout[t][n + 1]
  /\ c # Pruned => (c.fCoinBase <=> t \in Coinbase) /\ c.nHeight = h

(* A new transaction has all of them.                                       *)
LEMMA FromTxLeft ==
  ASSUME NEW t \in Tx, NEW h \in Nat \ {0}, NEW X, \A n \in Nat : <<t, n>> \notin X
  PROVE  Left(FromTx(t, h), t, X, h)
<1> DEFINE v == [i \in DOMAIN Vout[t] |->
                   IF Vout[t][i] \in Unspendable THEN Null ELSE Vout[t][i]]
           w == Cleanup(v)
           c == FromTx(t, h)
<1>1. Vout[t] \in Seq(TxOut) /\ Null \notin TxOut
  BY Zenon, BlockCoinsAssumption
<1>2. /\ v \in Seq(Output) /\ Len(v) = Len(Vout[t])
      /\ \A i \in 1..Len(v) : v[i] = IF Vout[t][i] \in Unspendable THEN Null ELSE Vout[t][i]
      /\ \A i \in 1..Len(v) : Vout[t][i] # Null
  BY <1>1 DEF Output
<1>3. c = IF w = <<>> THEN Pruned
          ELSE [fCoinBase |-> t \in Coinbase, vout |-> w, nHeight |-> h]
  BY Zenon DEF FromTx
<1> HIDE DEF v
<1>4. /\ w \in Seq(Output) /\ Len(w) \in 0..Len(v)
      /\ \A i \in 1..Len(w) : w[i] = v[i]
      /\ \A i \in (Len(w) + 1)..Len(v) : v[i] = Null
  BY Zenon, <1>2, CleanupIs
<1> HIDE DEF w, c
<1>5. c.vout = w /\ (c # Pruned => (c.fCoinBase <=> t \in Coinbase) /\ c.nHeight = h)
  BY <1>3 DEF Pruned
<1>6. \A n \in Nat : /\ IsAvailable(c, n) <=> n < Len(w) /\ w[n + 1] # Null
  BY Zenon, <1>5 DEF IsAvailable
<1>7. ASSUME NEW n \in Nat
      PROVE  /\ IsAvailable(c, n) <=> n < Len(Vout[t]) /\ Vout[t][n + 1] \notin Unspendable
             /\ IsAvailable(c, n) => c.vout[n + 1] = Vout[t][n + 1]
  <2>1. CASE n < Len(w)
    <3>1. n + 1 \in 1..Len(w) /\ n + 1 \in 1..Len(v) /\ n < Len(Vout[t])
      BY <1>2, <1>4, <2>1
    <3> QED BY Zenon, <1>2, <1>4, <1>5, <1>6, <2>1, <3>1
  <2>2. CASE ~(n < Len(w))
    <3>1. n < Len(Vout[t]) => n + 1 \in (Len(w) + 1)..Len(v) /\ n + 1 \in 1..Len(v)
      BY <1>2, <1>4, <2>2
    <3> QED BY Zenon, <1>2, <1>4, <1>6, <2>2, <3>1
  <2> QED BY Zenon, <2>1, <2>2
<1>8. c \in CCoins
  BY Zenon, FromTxType DEF c
<1>9. Left(c, t, X, h)
  BY Zenon, <1>5, <1>7, <1>8 DEF Left
<1> QED BY Zenon, <1>9 DEF c

(* Spending one takes that one away.                                        *)
LEMMA SpendLeft ==
  ASSUME NEW c, NEW t \in Tx, NEW X, NEW h, NEW n \in Nat,
         Left(c, t, X, h), IsAvailable(c, n)
  PROVE  Left(Spend(c, n), t, X \cup {<<t, n>>}, h)
<1> DEFINE v == Nulled(c, n)
           w == Cleanup(v)
           d == Spend(c, n)
<1>0. c \in CCoins
  BY Zenon DEF Left
<1>1. /\ c \in Unpruned
      /\ v \in Seq(Output) /\ Len(v) = Len(c.vout) /\ n + 1 \in 1..Len(v)
      /\ v[n + 1] = Null /\ \A i \in 1..Len(v) : i # n + 1 => v[i] = c.vout[i]
      /\ d \in CCoins
      /\ w = <<>> => d = Pruned
      /\ w # <<>> => d = [c EXCEPT !.vout = w]
      /\ d.vout = w
  BY Zenon, <1>0, SpendIs
<1> HIDE DEF v
<1>2. /\ w \in Seq(Output) /\ Len(w) \in 0..Len(v)
      /\ \A i \in 1..Len(w) : w[i] = v[i]
  BY Zenon, <1>1, CleanupIs
<1> HIDE DEF w, d
<1>3. ASSUME NEW m \in Nat
      PROVE  /\ IsAvailable(d, m) <=> m # n /\ IsAvailable(c, m)
             /\ IsAvailable(d, m) => d.vout[m + 1] = c.vout[m + 1]
  <2>1. ASSUME IsAvailable(d, m)
        PROVE  m # n /\ IsAvailable(c, m) /\ d.vout[m + 1] = c.vout[m + 1]
    <3>1. m < Len(w) /\ w[m + 1] # Null
      BY Zenon, <1>1, <2>1 DEF IsAvailable
    <3>2. m + 1 \in 1..Len(w) /\ m + 1 \in 1..Len(v) /\ m < Len(c.vout)
      BY <1>1, <1>2, <3>1
    <3>3. w[m + 1] = v[m + 1]
      BY Zenon, <1>2, <3>2
    <3>4. m # n
      BY Zenon, <1>1, <3>1, <3>3
    <3>5. m + 1 # n + 1
      BY <3>4
    <3>6. v[m + 1] = c.vout[m + 1]
      BY Zenon, <1>1, <3>2, <3>5
    <3> QED BY Zenon, <1>1, <3>1, <3>2, <3>3, <3>4, <3>6 DEF IsAvailable
  <2>2. ASSUME m # n, IsAvailable(c, m) PROVE IsAvailable(d, m)
    BY Zenon, <1>0, <2>2, SpendKeepsOthers DEF d
  <2> QED BY Zenon, <2>1, <2>2
<1>4. d # Pruned => d.fCoinBase = c.fCoinBase /\ d.nHeight = c.nHeight /\ c # Pruned
  BY <1>1 DEF Unpruned, Pruned
<1>5. \A m \in Nat : <<t, m>> \in X \cup {<<t, n>>} <=> <<t, m>> \in X \/ m = n
  OBVIOUS
<1>6. Left(d, t, X \cup {<<t, n>>}, h)
  <2>1. /\ \A m \in Nat : IsAvailable(c, m) <=>
             m < Len(Vout[t]) /\ Vout[t][m + 1] \notin Unspendable /\ <<t, m>> \notin X
        /\ \A m \in Nat : IsAvailable(c, m) => c.vout[m + 1] = Vout[t][m + 1]
        /\ c # Pruned => (c.fCoinBase <=> t \in Coinbase) /\ c.nHeight = h
    BY Zenon DEF Left
  <2> DEFINE Y == X \cup {<<t, n>>}
  <2> HIDE DEF Y
  <2>2. \A m \in Nat : IsAvailable(d, m) <=>
          m < Len(Vout[t]) /\ Vout[t][m + 1] \notin Unspendable /\ <<t, m>> \notin Y
    BY Zenon, <1>3, <1>5, <2>1 DEF Y
  <2>3. \A m \in Nat : IsAvailable(d, m) => d.vout[m + 1] = Vout[t][m + 1]
    BY Zenon, <1>3, <2>1
  <2>4. d # Pruned => (d.fCoinBase <=> t \in Coinbase) /\ d.nHeight = h
    BY Zenon, <1>4, <2>1
  <2>5. Left(d, t, Y, h)
    BY Zenon, <1>1, <2>2, <2>3, <2>4 DEF Left
  <2> QED BY Zenon, <2>5 DEF Y
<1> QED BY Zenon, <1>6 DEF d

(* Only the outputs of t matter.                                            *)
LEMMA LeftSame ==
  ASSUME NEW c, NEW t, NEW X, NEW Y, NEW h, Left(c, t, X, h),
         \A n \in Nat : <<t, n>> \in Y <=> <<t, n>> \in X
  PROVE  Left(c, t, Y, h)
  BY Zenon DEF Left

-----------------------------------------------------------------------------
(* The coins of a set of transactions.                                      *)

SpentBy(C) == UNION {Prevouts(t) : t \in C}

(* c holds what the transactions of C leave of each other, H being their    *)
(* heights; and they spend nothing but each other's outputs.                *)
Holds(c, C, H) ==
  /\ c \in [Tx -> CCoins] /\ C \subseteq Tx /\ H \in [Tx -> Nat]
  /\ \A t \in C : \A o \in Prevouts(t) : o[1] \in C
  /\ \A t \in C : Left(c[t], t, SpentBy(C), H[t])
  /\ \A t \in Tx \ C : c[t] = Pruned

LEMMA PrevoutIs ==
  ASSUME NEW t \in Tx
  PROVE  /\ \A i \in 1..Len(Vin[t]) : Vin[t][i] \in Prevouts(t)
         /\ \A o \in Prevouts(t) : \E i \in 1..Len(Vin[t]) : o = Vin[t][i]
         /\ \A o \in Prevouts(t) : o[1] \in Tx /\ o[2] \in Nat /\ o = <<o[1], o[2]>>
<1>1. /\ DOMAIN Vin[t] = 1..Len(Vin[t])
      /\ \A j \in 1..Len(Vin[t]) : /\ Vin[t][j][1] \in Tx /\ Vin[t][j][2] \in Nat
                                   /\ Vin[t][j] = <<Vin[t][j][1], Vin[t][j][2]>>
  BY Zenon, VinIs
<1>2. Prevouts(t) = {Vin[t][i] : i \in 1..Len(Vin[t])}
  BY Zenon, <1>1 DEF Prevouts, Range
<1> QED BY Zenon, <1>1, <1>2

(* The inputs of s are spent one after the other.                           *)
LEMMA SpentLeft ==
  ASSUME NEW c, NEW C, NEW H, Holds(c, C, H), NEW s \in Tx, HaveAllInputs(c, s)
  PROVE  LET a == Spent(c, s)[Len(Vin[s])].coins
         IN /\ \A t \in C : Left(a[t], t, SpentBy(C) \cup Prevouts(s), H[t])
            /\ \A t \in Tx \ C : a[t] = Pruned
            /\ \A o \in Prevouts(s) : o[1] \in C /\ o \notin SpentBy(C)
<1> DEFINE A == Spent(c, s)
           n == Len(Vin[s])
           X(i) == SpentBy(C) \cup {Vin[s][j] : j \in 1..i}
           Good(i) == \A t \in C : Left(A[i].coins[t], t, X(i), H[t])
           S == {i \in 0..n : Good(i)}
<1>1. /\ n \in Nat /\ DOMAIN Vin[s] = 1..n
      /\ \A j \in 1..n : /\ Vin[s][j][1] \in Tx /\ Vin[s][j][2] \in Nat
                         /\ Vin[s][j] = <<Vin[s][j][1], Vin[s][j][2]>>
  BY Zenon, VinIs
<1>0. c \in [Tx -> CCoins] /\ C \subseteq Tx
  BY Zenon DEF Holds
<1>2. /\ A[0] = [coins |-> c, vprevout |-> <<>>]
      /\ \A i \in 0..n :
           /\ A[i].coins \in [Tx -> CCoins]
           /\ \A x \in Tx : c[x] = Pruned => A[i].coins[x] = Pruned
           /\ A[i].vprevout \in Seq(Undo) /\ Len(A[i].vprevout) = i
           /\ \A j \in (i + 1)..n : IsAvailable(A[i].coins[Vin[s][j][1]], Vin[s][j][2])
           /\ \A j \in 1..i : A[i].vprevout[j] =
                 TxInUndo(A[j - 1].coins[Vin[s][j][1]], Vin[s][j][2])
      /\ \A i \in 1..n : A[i].coins =
           [A[i - 1].coins EXCEPT ![Vin[s][i][1]] = Spend(@, Vin[s][i][2])]
  BY <1>0, SpentStates, ZenonT(30)
<1> HIDE DEF A, n
<1>3. /\ A[0].coins = c
      /\ \A i \in 0..n :
           /\ A[i].coins \in [Tx -> CCoins]
           /\ \A x \in Tx : c[x] = Pruned => A[i].coins[x] = Pruned
           /\ \A j \in (i + 1)..n : IsAvailable(A[i].coins[Vin[s][j][1]], Vin[s][j][2])
      /\ \A i \in 1..n : A[i].coins =
           [A[i - 1].coins EXCEPT ![Vin[s][i][1]] = Spend(@, Vin[s][i][2])]
  <2>1. A[0] = [coins |-> c, vprevout |-> <<>>]
    BY Zenon, <1>2
  <2>2. A[0].coins = c
    BY <2>1
  <2> QED BY Zenon, <1>2, <2>2
<1>4. Good(0)
  <2>1. X(0) = SpentBy(C)
    OBVIOUS
  <2> QED BY Zenon, <1>3, <2>1 DEF Holds
<1>5. ASSUME NEW i \in 0..(n - 1), Good(i) PROVE Good(i + 1)
  <2> DEFINE h == Vin[s][i + 1][1]
             m == Vin[s][i + 1][2]
             k == i + 1
  <2>1. k \in 1..n /\ k - 1 = i /\ i \in 0..n /\ k \in (i + 1)..n
    BY <1>1
  <2>2. /\ h \in Tx /\ m \in Nat /\ Vin[s][k] = <<h, m>>
        /\ IsAvailable(A[i].coins[h], m)
        /\ A[k].coins = [A[i].coins EXCEPT ![h] = Spend(A[i].coins[h], m)]
        /\ A[i].coins \in [Tx -> CCoins]
    BY Zenon, <1>1, <1>3, <2>1
  <2>3. X(k) = X(i) \cup {<<h, m>>}
    <3>1. 1..k = 1..i \cup {k}
      BY <2>1
    <3> HIDE DEF k
    <3>2. {Vin[s][j] : j \in 1..k} = {Vin[s][j] : j \in 1..i} \cup {Vin[s][k]}
      BY Zenon, <3>1
    <3> QED BY Zenon, <2>2, <3>2
  <2> HIDE DEF X, h, m, k
  <2>4. ASSUME NEW t \in C PROVE Left(A[k].coins[t], t, X(k), H[t])
    <3>0. t \in Tx /\ Left(A[i].coins[t], t, X(i), H[t])
      BY Zenon, <1>0, <1>5
    <3>1. CASE t = h
      <4>1. A[k].coins[t] = Spend(A[i].coins[t], m) /\ IsAvailable(A[i].coins[t], m)
        BY Zenon, <2>2, <3>0, <3>1
      <4>2. Left(Spend(A[i].coins[t], m), t, X(i) \cup {<<t, m>>}, H[t])
        BY Zenon, <2>2, <3>0, <4>1, SpendLeft
      <4> QED BY Zenon, <2>3, <3>1, <4>1, <4>2
    <3>2. CASE t # h
      <4>1. A[k].coins[t] = A[i].coins[t]
        BY Zenon, <2>2, <3>0, <3>2
      <4>2. \A j \in Nat : <<t, j>> \in X(k) <=> <<t, j>> \in X(i)
        <5>1. \A j \in Nat : <<t, j>> # <<h, m>>
          BY <3>2
        <5> QED BY Zenon, <2>3, <5>1
      <4> QED BY Zenon, <3>0, <4>1, <4>2, LeftSame
    <3> QED BY Zenon, <3>1, <3>2
  <2> QED BY Zenon, <2>4 DEF k
<1> HIDE DEF Good
<1>6. 0 \in S /\ \A i \in 0..(n - 1) : i \in S => i + 1 \in S
  <2>1. 0 \in 0..n /\ \A i \in 0..(n - 1) : i + 1 \in 0..n
    BY <1>1
  <2> QED BY Zenon, <1>4, <1>5, <2>1
<1>7. 0..n \subseteq S
  <2> HIDE DEF S
  <2> QED BY <1>1, <1>6, BoundedInduction, Zenon
<1>8. n \in 0..n
  BY <1>1
<1>9. Good(n)
  BY Zenon, <1>7, <1>8
<1>10. X(n) = SpentBy(C) \cup Prevouts(s)
  <2>1. Prevouts(s) = {Vin[s][j] : j \in 1..n}
    BY Zenon, <1>1 DEF Prevouts, Range
  <2> QED BY Zenon, <2>1
<1> HIDE DEF X
<1>11. ASSUME NEW t \in C PROVE Left(A[n].coins[t], t, SpentBy(C) \cup Prevouts(s), H[t])
  BY Zenon, <1>9, <1>10 DEF Good
<1>12. ASSUME NEW t \in Tx \ C PROVE A[n].coins[t] = Pruned
  BY Zenon, <1>3, <1>8 DEF Holds
<1>13. ASSUME NEW o \in Prevouts(s) PROVE o[1] \in C /\ o \notin SpentBy(C)
  <2>1. /\ o[1] \in Tx /\ o[2] \in Nat /\ o = <<o[1], o[2]>>
        /\ IsAvailable(c[o[1]], o[2])
    <3>1. PICK i \in 1..Len(Vin[s]) : o = Vin[s][i]
      BY Zenon, PrevoutIs
    <3>2. IsAvailable(c[Vin[s][i][1]], Vin[s][i][2])
      BY Zenon, <1>1, <3>1 DEF HaveAllInputs, n
    <3> QED BY Zenon, <3>1, <3>2, PrevoutIs
  <2>2. o[1] \in C
    BY Zenon, <1>0, <2>1, PrunedIs DEF Holds
  <2>3. <<o[1], o[2]>> \notin SpentBy(C)
    BY Zenon, <2>1, <2>2 DEF Holds, Left
  <2> QED BY Zenon, <2>1, <2>2, <2>3
<1> QED BY Zenon, <1>11, <1>12, <1>13 DEF A, n

(* One more transaction.                                                    *)
LEMMA UpdateHolds ==
  ASSUME NEW c, NEW C, NEW H, Holds(c, C, H), NEW s \in Tx \ C, HaveAllInputs(c, s),
         NEW h \in Nat \ {0}
  PROVE  Holds(UpdateCoins(c, s, h).coins, C \cup {s}, [H EXCEPT ![s] = h])
<1> DEFINE a == Spent(c, s)[Len(Vin[s])].coins
           d == [a EXCEPT ![s] = FromTx(s, h)]
           D == C \cup {s}
           G == [H EXCEPT ![s] = h]
           X == SpentBy(C) \cup Prevouts(s)
<1>0. /\ c \in [Tx -> CCoins] /\ C \subseteq Tx /\ H \in [Tx -> Nat]
      /\ \A t \in C : \A o \in Prevouts(t) : o[1] \in C
  BY Zenon DEF Holds
<1>1. /\ \A t \in C : Left(a[t], t, X, H[t])
      /\ \A t \in Tx \ C : a[t] = Pruned
      /\ \A o \in Prevouts(s) : o[1] \in C /\ o \notin SpentBy(C)
  BY Zenon, SpentLeft
<1>2. a \in [Tx -> CCoins]
  <2> DEFINE n == Len(Vin[s])
             A == Spent(c, s)
  <2>1. n \in 0..n
    <3>1. n \in Nat
      BY Zenon, VinIs
    <3> QED BY <3>1
  <2>2. \A i \in 0..n : A[i].coins \in [Tx -> CCoins]
    BY <1>0, SpentStates, ZenonT(30)
  <2> QED BY Zenon, <2>1, <2>2
<1>3. UpdateCoins(c, s, h).coins = d
  BY Zenon DEF UpdateCoins
<1> HIDE DEF a
<1>4. X = SpentBy(D)
  BY Zenon DEF SpentBy
<1>5. \A n \in Nat : <<s, n>> \notin X
  <2> SUFFICES ASSUME NEW n \in Nat, <<s, n>> \in X PROVE FALSE
    BY Zenon
  <2>1. <<s, n>>[1] = s
    BY Zenon
  <2>2. PICK t \in D : <<s, n>> \in Prevouts(t)
    BY Zenon, <1>4 DEF SpentBy
  <2>3. s \in C
    BY Zenon, <1>0, <1>1, <2>1, <2>2
  <2> QED BY Zenon, <2>3
<1>6. Left(FromTx(s, h), s, X, h) /\ FromTx(s, h) \in CCoins
  BY Zenon, <1>5, FromTxLeft, FromTxType
<1> HIDE DEF X
<1>7. /\ d \in [Tx -> CCoins] /\ d[s] = FromTx(s, h)
      /\ \A t \in Tx \ {s} : d[t] = a[t]
  BY Zenon, <1>2, <1>6
<1>8. /\ G \in [Tx -> Nat] /\ G[s] = h /\ \A t \in Tx \ {s} : G[t] = H[t]
  BY Zenon, <1>0
<1> HIDE DEF d, G
<1>9. \A t \in D : Left(d[t], t, SpentBy(D), G[t])
  BY Zenon, <1>0, <1>1, <1>4, <1>6, <1>7, <1>8
<1>10. \A t \in Tx \ D : d[t] = Pruned
  BY Zenon, <1>1, <1>7
<1>11. D \subseteq Tx /\ \A t \in D : \A o \in Prevouts(t) : o[1] \in D
  BY Zenon, <1>0, <1>1
<1> HIDE DEF D
<1>12. Holds(d, D, G)
  BY Zenon, <1>7, <1>8, <1>9, <1>10, <1>11 DEF Holds
<1> QED BY Zenon, <1>3, <1>12 DEF D, G

(* The heights after a block of height h with the transactions R.           *)
Raised(H, R, h) == [t \in Tx |-> IF t \in R THEN h ELSE H[t]]

(* A block: none of its transactions was there before, if its coinbase was  *)
(* not, because what it spends would be spent already.                      *)
LEMMA ConnectHolds ==
  ASSUME NEW c, NEW C, NEW H, Holds(c, C, H), NEW vtx, IsBlock(vtx), NEW h \in Nat \ {0},
         ConnectBlock(c, vtx, h).valid, vtx[1] \notin C
  PROVE  /\ Range(vtx) \cap C = {}
         /\ Holds(ConnectBlock(c, vtx, h).coins, C \cup Range(vtx), Raised(H, Range(vtx), h))
<1> DEFINE B == Connected(c, vtx, h)
           n == Len(vtx)
           V(i) == {vtx[j] : j \in 1..i}
           G(i) == Raised(H, V(i), h)
           Good(i) == V(i) \cap C = {} /\ Holds(B[i].coins, C \cup V(i), G(i))
           S == {i \in 0..n : Good(i)}
<1>0. c \in [Tx -> CCoins] /\ C \subseteq Tx /\ H \in [Tx -> Nat]
  BY Zenon DEF Holds
<1>1. /\ n \in Nat /\ n # 0 /\ DOMAIN vtx = 1..n
      /\ \A j \in 1..n : vtx[j] \in Tx /\ (vtx[j] \in Coinbase <=> j = 1)
      /\ \A i, j \in 1..n : vtx[i] = vtx[j] => i = j
  BY DEF IsBlock
<1>2. B[0].coins = c
  <2>1. B[0] = [coins |-> c, vtxundo |-> <<>>,
                 valid |-> \A j \in DOMAIN vtx : IsPruned(c[vtx[j]])]
    <3>1. Len(vtx) \in Nat
      BY Zenon, <1>1
    <3> QED BY <3>1, ConnectedIs
  <2> HIDE DEF B
  <2> QED BY <2>1
<1>3. \A i \in 1..n :
        LET u == UpdateCoins(B[i - 1].coins, vtx[i], h)
        IN /\ B[i - 1].valid /\ HaveAllInputs(B[i - 1].coins, vtx[i])
           /\ B[i] = [coins |-> u.coins, valid |-> TRUE,
                      vtxundo |-> IF vtx[i] \in Coinbase THEN B[i - 1].vtxundo
                                  ELSE Append(B[i - 1].vtxundo, u.vprevout)]
  BY <1>0, ConnectedValid
<1> HIDE DEF B, n
<1>4. Good(0)
  <2>1. V(0) = {}
    OBVIOUS
  <2> HIDE DEF V
  <2>2. G(0) = H
    BY Zenon, <1>0, <2>1 DEF Raised
  <2>3. C \cup V(0) = C
    BY Zenon, <2>1
  <2> QED BY Zenon, <1>2, <2>1, <2>2, <2>3
<1>5. ASSUME NEW i \in 0..(n - 1), Good(i) PROVE Good(i + 1)
  <2> DEFINE k == i + 1
             s == vtx[k]
             b == B[i].coins
  <2>1. k \in 1..n /\ k - 1 = i /\ i \in Nat /\ 1..k = 1..i \cup {k}
        /\ \A j \in 1..i : j \in 1..n /\ j # k
    BY <1>1
  <2>2. /\ s \in Tx /\ HaveAllInputs(b, s) /\ B[k].coins = UpdateCoins(b, s, h).coins
    <3>1. HaveAllInputs(B[k - 1].coins, vtx[k])
      BY Zenon, <1>3, <2>1
    <3> DEFINE u == UpdateCoins(B[k - 1].coins, vtx[k], h)
    <3>2. B[k] = [coins |-> u.coins, valid |-> TRUE,
                  vtxundo |-> IF vtx[k] \in Coinbase THEN B[k - 1].vtxundo
                              ELSE Append(B[k - 1].vtxundo, u.vprevout)]
      BY Zenon, <1>3, <2>1
    <3>3. B[k].coins = u.coins
      <4> HIDE DEF u, k
      <4> QED BY <3>2
    <3> QED BY Zenon, <1>1, <2>1, <3>1, <3>3
  <2>3. V(k) = V(i) \cup {s}
    <3> HIDE DEF k
    <3> QED BY Zenon, <2>1
  <2>4. s \notin V(i)
    BY Zenon, <1>1, <2>1
  <2> HIDE DEF V, s, b
  <2>5. Holds(b, C \cup V(i), G(i))
    BY Zenon, <1>5 DEF b
  <2>6. s \notin C
    <3>1. CASE k = 1
      BY Zenon, <3>1 DEF s
    <3>2. CASE k # 1
      <4>1. s \in Tx \ Coinbase
        BY Zenon, <1>1, <2>1, <2>2, <3>2 DEF s
      <4>2. Vin[s] # <<>>
        BY Zenon, <4>1, MemPoolAssumption
      <4>3. 1 \in 1..Len(Vin[s])
        <5>1. Vin[s] \in Seq(OutPoint)
          BY Zenon, <2>2, BlockCoinsAssumption
        <5> QED BY <4>2, <5>1
      <4>4. Vin[s][1] \in Prevouts(s)
        BY Zenon, <2>2, <4>3, PrevoutIs
      <4>5. Vin[s][1] \notin SpentBy(C \cup V(i))
        BY Zenon, <2>2, <2>5, <4>4, SpentLeft
      <4> QED BY Zenon, <4>4, <4>5 DEF SpentBy
    <3> QED BY Zenon, <3>1, <3>2
  <2>7. s \in Tx \ (C \cup V(i))
    BY Zenon, <2>2, <2>4, <2>6
  <2> DEFINE D == C \cup V(i)
             F == G(i)
  <2> HIDE DEF D, F
  <2>8. Holds(UpdateCoins(b, s, h).coins, D \cup {s}, [F EXCEPT ![s] = h])
    BY Zenon, <2>2, <2>5, <2>7, UpdateHolds DEF D, F
  <2>9. D \cup {s} = C \cup V(k)
    BY Zenon, <2>3 DEF D
  <2>10. [F EXCEPT ![s] = h] = G(k)
    BY Zenon, <2>2, <2>3 DEF F, Raised
  <2>11. V(k) \cap C = {}
    BY Zenon, <1>5, <2>3, <2>6
  <2> QED BY Zenon, <2>2, <2>8, <2>9, <2>10, <2>11 DEF k
<1> HIDE DEF Good
<1>6. 0 \in S /\ \A i \in 0..(n - 1) : i \in S => i + 1 \in S
  <2>1. 0 \in 0..n /\ \A i \in 0..(n - 1) : i + 1 \in 0..n
    BY <1>1
  <2> QED BY Zenon, <1>4, <1>5, <2>1
<1>7. 0..n \subseteq S
  <2> HIDE DEF S
  <2> QED BY <1>1, <1>6, BoundedInduction, Zenon
<1>8. n \in 0..n
  BY <1>1
<1>9. Good(n)
  BY Zenon, <1>7, <1>8
<1>10. V(n) = Range(vtx)
  BY Zenon, <1>1 DEF Range
<1>11. B[n] = ConnectBlock(c, vtx, h)
  BY Zenon DEF B, n, ConnectBlock
<1> QED BY Zenon, <1>9, <1>10, <1>11 DEF Good

-----------------------------------------------------------------------------
(* The coins of a chain.                                                    *)

Confirmed(b) == UNION {Range(Vtx[a]) : a \in Ancestors[b]}

(* c are the coins of the chain up to b.                                    *)
ChainCoins(c, b) ==
  \E H : /\ Holds(c, Confirmed(b), H)
         /\ \A t \in Confirmed(b) : \E a \in Ancestors[b] : t \in Range(Vtx[a]) /\ H[t] = Height[a]

(* Heights grow along a chain.                                              *)
LEMMA HeightsGrow ==
  \A b \in Block : \A a \in Ancestors[b] : a \in Block /\ Height[a] <= Height[b]
<1> DEFINE P(b) == \A a \in Ancestors[b] : Height[a] <= Height[b]
           S == {k \in Nat : \A b \in Block : Height[b] <= k => P(b)}
<1>1. /\ Ancestors[Base] = {Base} /\ Base \in Block
      /\ \A b \in Block : Height[b] \in Nat /\ Height[b] # 0
      /\ \A b \in Block : Ancestors[b] \subseteq Block
      /\ \A b \in Block \ {Base} : /\ HashPrev[b] \in Block
                                   /\ Ancestors[b] = Ancestors[HashPrev[b]] \cup {b}
                                   /\ Height[b] = Height[HashPrev[b]] + 1
  <2>1. Height \in [Block -> Nat \ {0}] /\ HashPrev \in [Block \ {Base} -> Block]
        /\ Ancestors \in [Block -> SUBSET Block]
    BY Zenon, MemPoolAssumption
  <2>2. \A b \in Block \ {Base} : /\ Ancestors[b] = Ancestors[HashPrev[b]] \cup {b}
                                  /\ Height[b] = Height[HashPrev[b]] + 1
    BY Zenon, MemPoolAssumption
  <2>3. Ancestors[Base] = {Base} /\ Base \in Block
    BY Zenon, MemPoolAssumption
  <2> QED BY Zenon, <2>1, <2>2, <2>3
<1>2. 0 \in S
  <2>1. \A b \in Block : ~(Height[b] <= 0)
    BY <1>1
  <2> QED BY Zenon, <2>1
<1>3. ASSUME NEW k \in Nat, k \in S PROVE k + 1 \in S
  <2>1. ASSUME NEW b \in Block, Height[b] <= k + 1 PROVE P(b)
    <3>1. CASE b = Base
      <4>1. Height[b] <= Height[b]
        BY <1>1
      <4> QED BY Zenon, <1>1, <3>1, <4>1
    <3>2. CASE b # Base
      <4> DEFINE p == HashPrev[b]
      <4>1. p \in Block /\ Ancestors[b] = Ancestors[p] \cup {b} /\ Height[b] = Height[p] + 1
        BY Zenon, <1>1, <3>2
      <4> HIDE DEF p
      <4>2. Height[p] <= k
        BY <1>1, <2>1, <4>1
      <4>3. P(p)
        BY Zenon, <1>3, <4>1, <4>2
      <4> QED
        <5> SUFFICES ASSUME NEW a \in Ancestors[b] PROVE Height[a] <= Height[b]
          BY Zenon
        <5>1. a \in Block /\ Height[a] \in Nat /\ Height[p] \in Nat
          BY Zenon, <1>1, <4>1
        <5>2. CASE a = b
          BY <5>1, <5>2
        <5>3. CASE a # b
          <6>1. Height[a] <= Height[p]
            BY Zenon, <4>1, <4>3, <5>3
          <6> QED BY <4>1, <5>1, <6>1
        <5> QED BY Zenon, <5>2, <5>3
    <3> QED BY Zenon, <3>1, <3>2
  <2>2. k + 1 \in Nat
    OBVIOUS
  <2> QED BY Zenon, <2>1, <2>2
<1> HIDE DEF S
<1>4. Nat \subseteq S
  BY Zenon, <1>2, <1>3, Induction
<1> SUFFICES ASSUME NEW b \in Block PROVE P(b) /\ Ancestors[b] \subseteq Block
  BY Zenon
<1>5. Height[b] \in Nat /\ Height[b] <= Height[b]
  BY <1>1
<1> QED BY Zenon, <1>1, <1>4, <1>5 DEF S

(* The coins after a block of the chain.                                    *)
LEMMA ChainCoinsGrow ==
  ASSUME NEW b \in Block \ {Base}, NEW c, ChainCoins(c, HashPrev[b]),
         ConnectBlock(c, Vtx[b], Height[b]).valid
  PROVE  /\ ChainCoins(ConnectBlock(c, Vtx[b], Height[b]).coins, b)
         /\ Range(Vtx[b]) \cap Confirmed(HashPrev[b]) = {}
<1> DEFINE p == HashPrev[b]
           C == Confirmed(p)
           h == Height[b]
           R == Range(Vtx[b])
<1>1. /\ p \in Block /\ Ancestors[b] = Ancestors[p] \cup {b} /\ h = Height[p] + 1
      /\ h \in Nat \ {0} /\ Height[p] \in Nat /\ IsBlock(Vtx[b])
  <2>1. Height \in [Block -> Nat \ {0}] /\ HashPrev \in [Block \ {Base} -> Block]
    BY Zenon, MemPoolAssumption
  <2>2. \A x \in Block \ {Base} : /\ Ancestors[x] = Ancestors[HashPrev[x]] \cup {x}
                                  /\ Height[x] = Height[HashPrev[x]] + 1
    BY Zenon, MemPoolAssumption
  <2>3. \A x \in Block : IsBlock(Vtx[x])
    BY Zenon, MemPoolAssumption
  <2> QED BY Zenon, <2>1, <2>2, <2>3
<1>2. PICK H : /\ Holds(c, C, H)
               /\ \A t \in C : \E a \in Ancestors[p] : t \in Range(Vtx[a]) /\ H[t] = Height[a]
  BY Zenon DEF ChainCoins
<1>3. Vtx[b][1] \notin C
  <2> SUFFICES ASSUME Vtx[b][1] \in C PROVE FALSE
    BY Zenon
  <2>1. PICK a \in Ancestors[p] : Vtx[b][1] \in Range(Vtx[a])
    BY Zenon DEF Confirmed
  <2>2. a \in Block /\ Height[a] <= Height[p] /\ IsBlock(Vtx[a]) /\ Height[a] \in Nat
    <3>1. \A x \in Block : IsBlock(Vtx[x]) /\ Height[x] \in Nat
      BY Zenon, MemPoolAssumption
    <3> QED BY Zenon, <1>1, <3>1, HeightsGrow
  <2>3. ASSUME NEW v, IsBlock(v)
        PROVE  v[1] \in Coinbase /\ \A t \in Range(v) \cap Coinbase : t = v[1]
    <3>1. 1 \in 1..Len(v) /\ DOMAIN v = 1..Len(v)
      BY <2>3 DEF IsBlock
    <3>2. \A j \in 1..Len(v) : v[j] \in Coinbase <=> j = 1
      BY Zenon, <2>3 DEF IsBlock
    <3> QED BY Zenon, <3>1, <3>2 DEF Range
  <2>4. Vtx[b][1] = Vtx[a][1]
    BY Zenon, <1>1, <2>1, <2>2, <2>3
  <2>5. Height[a] = Height[b]
    <3>1. \A x, y \in Block : Vtx[x][1] = Vtx[y][1] => Height[x] = Height[y]
      BY Zenon, MemPoolAssumption
    <3> QED BY Zenon, <2>2, <2>4, <3>1
  <2> QED BY <1>1, <2>2, <2>5
<1> DEFINE G == Raised(H, R, h)
           d == ConnectBlock(c, Vtx[b], h).coins
<1>4. R \cap C = {} /\ Holds(d, C \cup R, G)
  <2> DEFINE v == Vtx[b]
  <2>1. /\ Holds(c, C, H) /\ IsBlock(v) /\ h \in Nat \ {0} /\ v[1] \notin C
        /\ ConnectBlock(c, v, h).valid
    BY Zenon, <1>1, <1>2, <1>3
  <2> HIDE DEF v, h, C
  <2>2. /\ Range(v) \cap C = {}
        /\ Holds(ConnectBlock(c, v, h).coins, C \cup Range(v), Raised(H, Range(v), h))
    BY <2>1, ConnectHolds, Zenon
  <2> QED BY Zenon, <2>2 DEF v
<1>5. Confirmed(b) = C \cup R
  BY Zenon, <1>1 DEF Confirmed
<1>6. ASSUME NEW t \in Confirmed(b)
      PROVE  \E a \in Ancestors[b] : t \in Range(Vtx[a]) /\ G[t] = Height[a]
  <2>1. t \in Tx
    BY Zenon, <1>4, <1>5 DEF Holds
  <2>2. CASE t \in R
    BY Zenon, <1>1, <2>1, <2>2 DEF Raised
  <2>3. CASE t \notin R
    BY Zenon, <1>1, <1>2, <1>5, <2>1, <2>3 DEF Raised
  <2> QED BY Zenon, <2>2, <2>3
<1> HIDE DEF G, d, C, R
<1>7. ChainCoins(d, b)
  BY Zenon, <1>4, <1>5, <1>6 DEF ChainCoins
<1> QED BY Zenon, <1>4, <1>7 DEF d, C, R

LEMMA BaseChainCoins == ChainCoins(BaseCoins, Base)
<1> DEFINE c == [t \in Tx |-> Pruned]
           H == [t \in Tx |-> 0]
           v == Vtx[Base]
           h == Height[Base]
           G == Raised(H, Range(v), h)
<1>1. /\ IsBlock(v) /\ h \in Nat \ {0} /\ Ancestors[Base] = {Base}
      /\ ConnectBlock(c, v, h).valid
  <2>1. Base \in Block
    BY Zenon, MemPoolAssumption
  <2>2. \A b \in Block : IsBlock(Vtx[b])
    BY Zenon, MemPoolAssumption
  <2>3. Height \in [Block -> Nat \ {0}]
    BY Zenon, MemPoolAssumption
  <2>4. Ancestors[Base] = {Base} /\ ConnectBlock(c, v, h).valid
    BY Zenon, MemPoolAssumption
  <2> QED BY Zenon, <2>1, <2>2, <2>3, <2>4
<1>2. Holds(c, {}, H)
  <2>1. c \in [Tx -> CCoins] /\ \A t \in Tx : c[t] = Pruned
    BY Zenon DEF CCoins
  <2>2. H \in [Tx -> Nat]
    OBVIOUS
  <2> HIDE DEF c, H
  <2> QED BY Zenon, <2>1, <2>2 DEF Holds
<1> HIDE DEF c, H
<1>3. Holds(ConnectBlock(c, v, h).coins, {} \cup Range(v), G)
  <2>1. v[1] \notin {}
    BY Zenon
  <2> HIDE DEF v, h
  <2> QED BY <1>1, <1>2, <2>1, ConnectHolds, Zenon
<1>4. ConnectBlock(c, v, h).coins = BaseCoins
  BY Zenon DEF c, BaseCoins
<1>5. Confirmed(Base) = {} \cup Range(v)
  BY Zenon, <1>1 DEF Confirmed
<1>6. \A t \in Confirmed(Base) : \E a \in Ancestors[Base] :
        t \in Range(Vtx[a]) /\ G[t] = Height[a]
  BY Zenon, <1>1, <1>3, <1>5 DEF Holds, Raised
<1> HIDE DEF G
<1>7. Holds(BaseCoins, Confirmed(Base), G)
  BY Zenon, <1>3, <1>4, <1>5
<1> QED BY Zenon, <1>6, <1>7 DEF ChainCoins

(* So are the coins that every block left.                                  *)
LEMMA HistoryCoins ==
  ASSUME NEW F, NEW D, History(F, D)
  PROVE  \A b \in D \cup {Base} : ChainCoins(F[b], b)
<1> DEFINE P(b) == ChainCoins(F[b], b)
           S == {k \in Nat : \A b \in D \cup {Base} : Height[b] <= k => P(b)}
<1>1. /\ D \subseteq Block \ {Base} /\ F[Base] = BaseCoins
      /\ \A b \in D :
           /\ HashPrev[b] \in D \cup {Base}
           /\ ConnectBlock(F[HashPrev[b]], Vtx[b], Height[b]).valid
           /\ F[b] = ConnectBlock(F[HashPrev[b]], Vtx[b], Height[b]).coins
  BY Zenon DEF History
<1>2. /\ \A b \in D \cup {Base} : Height[b] \in Nat /\ Height[b] # 0
      /\ \A b \in D : Height[b] = Height[HashPrev[b]] + 1
  <2>1. Height \in [Block -> Nat \ {0}] /\ Base \in Block
    BY Zenon, MemPoolAssumption
  <2>2. \A b \in Block \ {Base} : Height[b] = Height[HashPrev[b]] + 1
    BY Zenon, MemPoolAssumption
  <2> QED BY Zenon, <1>1, <2>1, <2>2
<1>3. 0 \in S
  <2>1. \A b \in D \cup {Base} : ~(Height[b] <= 0)
    BY <1>2
  <2> QED BY Zenon, <2>1
<1>4. ASSUME NEW k \in Nat, k \in S PROVE k + 1 \in S
  <2>1. ASSUME NEW b \in D \cup {Base}, Height[b] <= k + 1 PROVE P(b)
    <3>1. CASE b = Base
      BY Zenon, <1>1, <3>1, BaseChainCoins
    <3>2. CASE b \in D
      <4> DEFINE p == HashPrev[b]
      <4>1. p \in D \cup {Base} /\ Height[b] = Height[p] + 1
        BY Zenon, <1>1, <1>2, <3>2
      <4> HIDE DEF p
      <4>2. Height[p] <= k
        BY <1>2, <2>1, <4>1
      <4>3. P(p)
        BY Zenon, <1>4, <4>1, <4>2
      <4> QED BY Zenon, <1>1, <3>2, <4>3, ChainCoinsGrow DEF p
    <3> QED BY Zenon, <3>1, <3>2
  <2>2. k + 1 \in Nat
    OBVIOUS
  <2> QED BY Zenon, <2>1, <2>2
<1> HIDE DEF S
<1>5. Nat \subseteq S
  BY Zenon, <1>3, <1>4, Induction
<1> SUFFICES ASSUME NEW b \in D \cup {Base} PROVE P(b)
  BY Zenon
<1>6. Height[b] \in Nat /\ Height[b] <= Height[b]
  BY <1>2
<1> QED BY Zenon, <1>5, <1>6 DEF S

(* The outputs of t that are spendable and not in X.                        *)
Outside(t, X) == {n \in 0..(Len(Vout[t]) - 1) :
                    Vout[t][n + 1] \notin Unspendable /\ <<t, n>> \notin X}

(* What is left, as CoinsExact says it.                                     *)
LEMMA LeftExact ==
  ASSUME NEW c, NEW t \in Tx, NEW X, NEW h, Left(c, t, X, h)
  PROVE  IF Outside(t, X) = {} THEN c = Pruned
         ELSE /\ \A n \in Outside(t, X) : c.vout[n + 1] = Vout[t][n + 1]
              /\ \A n \in 0..(Len(c.vout) - 1) : IsAvailable(c, n) => n \in Outside(t, X)
              /\ Len(c.vout) = Max(Outside(t, X)) + 1
              /\ (c.fCoinBase <=> t \in Coinbase) /\ c.nHeight = h
<1> DEFINE U == Outside(t, X)
<1>1. /\ c \in CCoins
      /\ \A n \in Nat : IsAvailable(c, n) <=>
           n < Len(Vout[t]) /\ Vout[t][n + 1] \notin Unspendable /\ <<t, n>> \notin X
      /\ \A n \in Nat : IsAvailable(c, n) => c.vout[n + 1] = Vout[t][n + 1]
      /\ c # Pruned => (c.fCoinBase <=> t \in Coinbase) /\ c.nHeight = h
  BY Zenon DEF Left
<1>2. \A n : n \in U <=> n \in Nat /\ IsAvailable(c, n)
  <2>1. Len(Vout[t]) \in Nat
    <3>1. Vout[t] \in Seq(TxOut)
      BY Zenon, BlockCoinsAssumption
    <3> QED BY <3>1
  <2>2. \A n : n \in 0..(Len(Vout[t]) - 1) <=> n \in Nat /\ n < Len(Vout[t])
    BY <2>1
  <2> QED BY Zenon, <1>1, <2>2 DEF Outside
<1>3. U \subseteq Nat
  BY Zenon, <1>2
<1> HIDE DEF U
<1>4. CASE c = Pruned
  <2>1. \A n \in Nat : ~IsAvailable(c, n)
    BY Zenon, <1>1, <1>4, PrunedIs
  <2>2. U = {}
    BY Zenon, <1>2, <2>1
  <2> QED BY Zenon, <1>4, <2>2 DEF U
<1>5. CASE c # Pruned
  <2> DEFINE L == Len(c.vout)
  <2>1. /\ c \in Unpruned
        /\ c.vout \in Seq(Output) /\ c.vout # <<>> /\ c.vout[L] # Null
        /\ c.fCoinBase \in BOOLEAN
    BY Zenon, <1>1, <1>5 DEF CCoins, Unpruned
  <2>2. L \in Nat /\ L - 1 \in Nat /\ L - 1 < L /\ (L - 1) + 1 = L
    BY <2>1
  <2>3. L - 1 \in U
    <3>1. IsAvailable(c, L - 1)
      BY Zenon, <2>1, <2>2 DEF IsAvailable
    <3> QED BY Zenon, <1>2, <2>2, <3>1
  <2>4. \A n \in U : n \in Nat /\ n < L
    BY Zenon, <1>2 DEF IsAvailable
  <2> HIDE DEF L
  <2>5. \A x \in U : (\A y \in U : x >= y) <=> x = L - 1
    BY <2>2, <2>3, <2>4
  <2>6. Max(U) = L - 1
    BY <2>3, <2>5 DEF Max
  <2>7. Len(c.vout) = Max(U) + 1
    BY Zenon, <2>2, <2>6 DEF L
  <2>8. (c.fCoinBase <=> t \in Coinbase) /\ c.nHeight = h
    BY Zenon, <1>1, <1>5
  <2>9. \A n \in 0..(Len(c.vout) - 1) : n \in Nat
    BY <2>2 DEF L
  <2>10. \A n \in 0..(Len(c.vout) - 1) : IsAvailable(c, n) => n \in U
    BY Zenon, <1>2, <2>9
  <2>11. \A n \in U : c.vout[n + 1] = Vout[t][n + 1]
    BY Zenon, <1>1, <1>2
  <2>12. U # {}
    BY Zenon, <2>3
  <2> QED BY Zenon, <2>7, <2>8, <2>10, <2>11, <2>12 DEF U
<1> QED BY Zenon, <1>4, <1>5

(* However the blocks were connected and disconnected, the coins are those  *)
(* of the chain up to the best block.                                       *)
THEOREM CoinsAlwaysExact == Spec => []CoinsExact
<1>1. ChainInv => CoinsExact
  <2> SUFFICES ASSUME ChainInv PROVE CoinsExact
    BY Zenon
  <2>1. PICK F, D : History(F, D)
    BY Zenon DEF ChainInv
  <2>2. coinsTip \in D \cup {Base} /\ coins = F[coinsTip]
    BY Zenon, <2>1 DEF History
  <2>3. ChainCoins(coins, coinsTip)
    BY Zenon, <2>1, <2>2, HistoryCoins
  <2>4. TipUndoable
    <3> SUFFICES ASSUME pc = "move", tip # Base
                 PROVE  DisconnectBlock(coins, Vtx[tip], Height[tip], undo[tip]).fClean
      BY Zenon DEF TipUndoable
    <3>1. coinsTip = tip
      BY Zenon DEF ChainInv
    <3> QED BY Zenon, <2>1, <3>1, TipUndone
  <2> DEFINE C == Confirmed(coinsTip)
             U(t) == Outside(t, SpentBy(C))
  <2>5. PICK H : /\ Holds(coins, C, H)
                 /\ \A t \in C : \E a \in Ancestors[coinsTip] :
                      t \in Range(Vtx[a]) /\ H[t] = Height[a]
    BY Zenon, <2>3 DEF ChainCoins
  <2>6. ASSUME NEW t \in Tx
        PROVE  IF t \notin C \/ U(t) = {} THEN coins[t] = Pruned
               ELSE /\ \A n \in U(t) : coins[t].vout[n + 1] = Vout[t][n + 1]
                    /\ \A n \in 0..(Len(coins[t].vout) - 1) :
                         IsAvailable(coins[t], n) => n \in U(t)
                    /\ Len(coins[t].vout) = Max(U(t)) + 1
                    /\ coins[t].fCoinBase <=> t \in Coinbase
                    /\ \E a \in Ancestors[coinsTip] :
                         t \in Range(Vtx[a]) /\ coins[t].nHeight = Height[a]
    <3>1. CASE t \notin C
      BY Zenon, <2>5, <3>1 DEF Holds
    <3>2. CASE t \in C
      <4> DEFINE c == coins[t]
                 X == SpentBy(C)
                 h == H[t]
      <4>1. Left(c, t, X, h)
        BY Zenon, <2>5, <3>2 DEF Holds
      <4> HIDE DEF c, X, h
      <4>2. IF Outside(t, X) = {} THEN c = Pruned
            ELSE /\ \A n \in Outside(t, X) : c.vout[n + 1] = Vout[t][n + 1]
                 /\ \A n \in 0..(Len(c.vout) - 1) : IsAvailable(c, n) => n \in Outside(t, X)
                 /\ Len(c.vout) = Max(Outside(t, X)) + 1
                 /\ (c.fCoinBase <=> t \in Coinbase) /\ c.nHeight = h
        BY Zenon, <4>1, LeftExact
      <4>3. U(t) = Outside(t, X)
        BY Zenon DEF X
      <4>4. \E a \in Ancestors[coinsTip] : t \in Range(Vtx[a]) /\ h = Height[a]
        BY Zenon, <2>5, <3>2 DEF h
      <4> HIDE DEF U
      <4> QED BY Zenon, <3>2, <4>2, <4>3, <4>4 DEF c
    <3> QED BY Zenon, <3>1, <3>2
  <2> QED BY Zenon, <2>4, <2>6 DEF CoinsExact, Confirmed, SpentBy, Outside
<1> QED BY <1>1, InitChain, NextChain, PTL DEF Spec
=============================================================================
