-------------------------- MODULE ChainStateProofs --------------------------
(***************************************************************************)
(* Invariants of ChainState for every block tree, every set of threads and *)
(* every bound on the calls; and, for runs that prune nothing, how         *)
(* received blocks get linked, that the order of the candidates is stable, *)
(* and that no candidate is worse than the tip.                            *)
(***************************************************************************)
EXTENDS ChainState, TLAPS

-----------------------------------------------------------------------------
(* Sequences.  These facts are in the library as well, but its modules put *)
(* all of theirs into the context of every step.                           *)

(* Sequences are functions on an initial segment of the numbers.           *)
LEMMA SeqIsFunction ==
  ASSUME NEW S, NEW s \in Seq(S)
  PROVE  /\ Len(s) \in Nat /\ s \in [1..Len(s) -> S]
         /\ s # <<>> => Len(s) > 0
         /\ \A i \in 1..Len(s) : s[i] \in S
  OBVIOUS

(* And functions on an initial segment are sequences.                      *)
LEMMA FunctionIsSeq ==
  ASSUME NEW S, NEW n \in Nat, NEW f \in [1..n -> S]
  PROVE  f \in Seq(S) /\ Len(f) = n
  OBVIOUS

(* A sequence over a set is one over a larger set.                         *)
LEMMA SeqMonotonic ==
  ASSUME NEW S, NEW T, NEW s \in Seq(S), S \subseteq T
  PROVE  s \in Seq(T)
  OBVIOUS

(* The first element of a sequence and the others.                         *)
LEMMA HeadAndTail ==
  ASSUME NEW S, NEW s \in Seq(S), s # <<>>
  PROVE  /\ Head(s) = s[1] /\ Head(s) \in S /\ Tail(s) \in Seq(S)
         /\ Len(Tail(s)) = Len(s) - 1
         /\ \A i \in 1..Len(Tail(s)) : Tail(s)[i] = s[i + 1]
  OBVIOUS

(* One sequence after another.                                             *)
LEMMA Concatenated ==
  ASSUME NEW S, NEW s \in Seq(S), NEW u \in Seq(S)
  PROVE  /\ s \o u \in Seq(S) /\ Len(s \o u) = Len(s) + Len(u)
         /\ \A i \in 1..Len(s) + Len(u) :
              (s \o u)[i] = IF i <= Len(s) THEN s[i] ELSE u[i - Len(s)]
  OBVIOUS

(* A sequence and one more element.                                        *)
LEMMA Appended ==
  ASSUME NEW S, NEW s \in Seq(S), NEW e \in S
  PROVE  /\ Append(s, e) \in Seq(S) /\ Append(s, e) # <<>>
         /\ Len(Append(s, e)) = Len(s) + 1
         /\ \A i \in 1..Len(s) : Append(s, e)[i] = s[i]
         /\ Append(s, e)[Len(s) + 1] = e
  OBVIOUS

(* A sequence without its last element.                                    *)
LEMMA Shortened ==
  ASSUME NEW S, NEW s \in Seq(S), Len(s) >= 2
  PROVE  LET r == SubSeq(s, 1, Len(s) - 1) IN
         /\ r \in Seq(S) /\ r # <<>> /\ Len(r) = Len(s) - 1
         /\ \A i \in 1..(Len(s) - 1) : r[i] = s[i]
<1> DEFINE n == Len(s)
           r == SubSeq(s, 1, n - 1)
<1>1. n \in Nat /\ n >= 2 /\ \A i \in 1..(n - 1) : s[i] \in S
  OBVIOUS
<1>2. r = [i \in 1..(n - 1) |-> s[i]]
  BY <1>1
<1>3. n - 1 \in Nat /\ n - 1 # 0
  BY <1>1
<1> HIDE DEF r, n
<1>4. r \in [1..(n - 1) -> S] /\ \A i \in 1..(n - 1) : r[i] = s[i]
  BY Zenon, <1>1, <1>2
<1>5. r \in Seq(S) /\ Len(r) = n - 1
  BY Zenon, <1>3, <1>4, FunctionIsSeq
<1>6. r # <<>>
  BY Zenon, <1>3, <1>5
<1> QED
  BY Zenon, <1>4, <1>5, <1>6 DEF r, n

-----------------------------------------------------------------------------
(* Indices of the active chain.                                            *)

(* A chain of more than one block.                                         *)
LEMMA AtLeastTwo ==
  \A n \in Nat : /\ n > 0 /\ n # 1 => n >= 2 /\ n \in 2..n
                 /\ n >= 2 => n - 1 # 0
  OBVIOUS

(* A chain with a block above index 1.                                     *)
LEMMA AboveOne == \A h, n \in Nat : h < n /\ h + 1 # 1 => n \in 2..n
  OBVIOUS

(* The indices after one more block.                                       *)
LEMMA OneLonger ==
  \A n \in Nat : n > 0 =>
    /\ 1 \in 1..n /\ n \in 1..n /\ 1..(n + 1) = (1..n) \cup {n + 1}
    /\ 2..(n + 1) = (2..n) \cup {n + 1} /\ (n + 1) - 1 = n /\ (n - 1) + 1 = n
    /\ \A i \in 2..n : i \in 1..n /\ i - 1 \in 1..n
  OBVIOUS

-----------------------------------------------------------------------------
(* The block tree.                                                         *)

(* A block is an ancestor of itself, and ancestors are blocks.             *)
LEMMA SelfAncestor ==
  ASSUME NEW b \in Block PROVE b \in Ancestors[b] /\ Ancestors[b] \subseteq Block
  BY Zenon DEF Ancestors

(* Ancestors are closed under pprev.                                       *)
LEMMA AncestorsClosed ==
  ASSUME NEW b \in Block PROVE PrevClosed(Ancestors[b])
  BY Zenon, ChainAssumption DEF Ancestors, PrevClosed

(* A set closed under pprev holds the ancestors of its members.            *)
LEMMA AncestorsLeast ==
  ASSUME NEW S \in SUBSET Block, PrevClosed(S), NEW b \in S
  PROVE  Ancestors[b] \subseteq S
  BY Zenon DEF Ancestors

(* The ancestors of a block are the block and the ancestors of its parent. *)
LEMMA AncestorsOfChild ==
  ASSUME NEW b \in Block \ {Genesis}
  PROVE  Ancestors[b] = {b} \cup Ancestors[HashPrev[b]]
<1> DEFINE p == HashPrev[b]
           S == {b} \cup Ancestors[p]
<1>1. p \in Block
  BY Zenon, ChainAssumption
<1>2. Ancestors[p] \subseteq Block /\ p \in Ancestors[p]
  BY Zenon, <1>1, SelfAncestor
<1>3. PrevClosed(S)
  BY Zenon, <1>1, <1>2, AncestorsClosed DEF PrevClosed
<1>4. Ancestors[b] \subseteq S
  BY <1>2, <1>3, AncestorsLeast
<1>5. b \in Ancestors[b] /\ Ancestors[b] \subseteq Block /\ PrevClosed(Ancestors[b])
  BY Zenon, SelfAncestor, AncestorsClosed
<1>6. p \in Ancestors[b]
  BY Zenon, <1>5 DEF PrevClosed
<1>7. Ancestors[p] \subseteq Ancestors[b]
  BY Zenon, <1>5, <1>6, AncestorsLeast
<1> QED
  BY Zenon, <1>4, <1>5, <1>7

(* The genesis block has no other ancestor.                                *)
LEMMA AncestorsOfGenesis == Ancestors[Genesis] = {Genesis}
<1>1. PrevClosed({Genesis}) /\ {Genesis} \in SUBSET Block /\ Genesis \in Block
  BY Zenon, ChainAssumption DEF PrevClosed
<1>2. Ancestors[Genesis] \subseteq {Genesis}
  BY Zenon, <1>1, AncestorsLeast
<1> QED
  BY Zenon, <1>1, <1>2, SelfAncestor

(* The ancestors of a known block are known.                               *)
LEMMA AncestorsKnown ==
  ASSUME TypeOK, KnownTree, NEW b \in mapBlockIndex
  PROVE  Ancestors[b] \subseteq mapBlockIndex
  BY Zenon, AncestorsLeast DEF TypeOK, KnownTree

(* What the invariant says, for proofs that need not expand it.            *)
LEMMA InvParts ==
  ASSUME Inv
  PROVE  /\ TypeOK /\ Locking /\ KnownTree /\ Received
         /\ ActiveChainLinked /\ UndoDataAvailable
         /\ CoinsAtTip /\ (node = "running" => coinsBest = Tip)
  BY Zenon DEF Inv

-----------------------------------------------------------------------------
(* What steps that leave a part of the state alone preserve.               *)

(* Steps that add no header keep the tree.                                 *)
LEMMA TreeFrame ==
  ASSUME KnownTree, UNCHANGED <<mapBlockIndex, nHeight>>
  PROVE  KnownTree'
  BY Zenon DEF KnownTree, PrevClosed

(* Steps that leave chainActive alone and lose no nTx keep it linked.      *)
LEMMA ChainFrame ==
  ASSUME TypeOK, ActiveChainLinked, UNCHANGED chainActive, nTx \subseteq nTx',
         \A b \in mapBlockIndex : nHeight'[b] = nHeight[b]
  PROVE  ActiveChainLinked'
  BY Zenon DEF ActiveChainLinked, TypeOK

(* Steps that leave chain and node alone keep the coins at the tip.        *)
LEMMA CoinsFrame ==
  ASSUME CoinsAtTip, node = "running" => coinsBest = Tip, UNCHANGED <<chainVars, node>>
  PROVE  CoinsAtTip' /\ (node' = "running" => coinsBest' = Tip')
  BY Zenon DEF CoinsAtTip, chainVars, Tip

(* The active chain is never empty, and its tip is known.                  *)
LEMMA ChainLength ==
  ASSUME TypeOK
  PROVE  Len(chainActive) \in Nat /\ Len(chainActive) > 0 /\ Tip \in mapBlockIndex
<1>1. chainActive \in Seq(mapBlockIndex) /\ chainActive # <<>>
  BY Zenon DEF TypeOK
<1>2. /\ Len(chainActive) \in Nat /\ Len(chainActive) > 0
      /\ \A i \in 1..Len(chainActive) : chainActive[i] \in mapBlockIndex
  BY Zenon, <1>1, SeqIsFunction
<1>3. Len(chainActive) \in 1..Len(chainActive)
  BY <1>2
<1> QED
  BY Zenon, <1>2, <1>3 DEF Tip

(* What is buried stays so.                                                *)
LEMMA StaysBuried ==
  ASSUME TypeOK, nTx \subseteq nTx', \A b \in mapBlockIndex : nHeight'[b] = nHeight[b],
         NEW b \in mapBlockIndex, Buried(b)
  PROVE  Buried(b)'
  BY Zenon DEF Buried, TypeOK

(* Steps that prune nothing keep the undo data.                            *)
LEMMA UndoFrame ==
  ASSUME TypeOK, UndoDataAvailable, UNCHANGED <<chainActive, fHavePruned>>,
         haveUndo \subseteq haveUndo', nTx \subseteq nTx',
         \A b \in mapBlockIndex : nHeight'[b] = nHeight[b]
  PROVE  UndoDataAvailable'
<1>1. \A i \in 2..Len(chainActive) : chainActive[i] \in mapBlockIndex
  <2>1. \A i \in 1..Len(chainActive) : chainActive[i] \in mapBlockIndex
    BY Zenon, SeqIsFunction DEF TypeOK
  <2>2. \A i \in 2..Len(chainActive) : i \in 1..Len(chainActive)
    BY Zenon, ChainLength, OneLonger
  <2> QED
    BY Zenon, <2>1, <2>2
<1> QED
  BY Zenon, <1>1, StaysBuried DEF UndoDataAvailable

(* Received is kept when nothing new is linked, in line or a target but    *)
(* what was linked or a candidate.                                         *)
LEMMA ReceivedFrame ==
  ASSUME Received, nTx \subseteq nTx', nChainTx' \subseteq nChainTx,
         setBlockIndexCandidates' \subseteq setBlockIndexCandidates \cup nChainTx,
         mapBlocksUnlinked' \subseteq mapBlocksUnlinked, UNCHANGED queue,
         \A t \in Threads : pindexMostWork'[t] \in
            {NoBlock, pindexMostWork[t]} \cup setBlockIndexCandidates
  PROVE  Received'
  BY Zenon DEF Received, AllProcessed

(* While a thread is in a critical section the node runs and no other      *)
(* thread is in one.                                                       *)
LEMMA Holder ==
  ASSUME Locking, NEW t \in Threads, pc[t] \in Locked
  PROVE  csMain = t /\ node # "stopping" /\ \A u \in Threads \ {t} : pc[u] \notin Locked
  BY Zenon, ChainAssumption DEF Locking

(* Leaving a critical section, or staying outside.                         *)
LEMMA ReleaseLocking ==
  ASSUME TypeOK, Locking, NEW t \in Threads, csMain \in {t, NoThread},
         NEW next \in {"idle", "accepted", "abc"}, Release(t, next)
  PROVE  Locking' /\ csMain' \in Threads \cup {NoThread}
         /\ pc' \in [Threads -> {"idle", "accept", "link", "accepted", "abc", "find", "step", "invalidate"}]
<1> USE ChainAssumption
<1>1. \A u \in Threads : pc'[u] \notin Locked /\ csMain' # u
  BY ZenonT(30) DEF TypeOK, Locking, Locked, Release
<1>2. pc' \in [Threads -> {"idle", "accept", "link", "accepted", "abc", "find", "step", "invalidate"}]
  BY Zenon DEF TypeOK, Release
<1>3. csMain' = NoThread
  BY Zenon DEF Release
<1> QED
  BY Zenon, <1>1, <1>2, <1>3 DEF Locking, Locked

-----------------------------------------------------------------------------
(* The state InitBlockIndex leaves satisfies the inductive invariant.      *)
LEMMA InitInv == Init => Inv
<1> SUFFICES ASSUME Init PROVE Inv
  BY Zenon
<1> USE ChainAssumption
<1>1. TypeOK
  BY DEF Init, TypeOK, BLOCK_VALID_TRANSACTIONS
<1>2. Locking
  BY Zenon DEF Init, Locking, Locked
<1>3. KnownTree
  BY Zenon, AncestorsOfGenesis DEF Init, KnownTree, PrevClosed
<1>4. Received
  BY AncestorsOfGenesis DEF Init, Received, AllProcessed
<1>5. ActiveChainLinked /\ UndoDataAvailable
  BY DEF Init, ActiveChainLinked, UndoDataAvailable
<1>6. CoinsAtTip /\ coinsBest = Tip
  BY Zenon DEF Init, CoinsAtTip, Tip
<1> QED
  BY Zenon, <1>1, <1>2, <1>3, <1>4, <1>5, <1>6 DEF Inv

(* Everything on the active chain is found by CChain::Contains.            *)
LEMMA OnChain ==
  ASSUME TypeOK, ActiveChainLinked, NEW i \in 1..Len(chainActive)
  PROVE  Contains(chainActive[i]) /\ chainActive[i] \in nTx
<1>1. Len(chainActive) \in Nat /\ i \in Nat /\ 1 <= i /\ i <= Len(chainActive)
  BY ChainLength
<1>2. nHeight[chainActive[i]] = i - 1 /\ chainActive[i] \in nTx
  BY Zenon DEF ActiveChainLinked
<1>3. i - 1 < Len(chainActive) /\ (i - 1) + 1 = i
  BY <1>1
<1> QED
  BY Zenon, <1>2, <1>3 DEF Contains

(* A queue of one block.                                                   *)
LEMMA SingleSeq == ASSUME NEW S, NEW e \in S PROVE <<e>> \in Seq(S)
  OBVIOUS

(* A call that returns forgets its block and its target.                   *)
LEMMA ReturnLocals ==
  ASSUME TypeOK, Locking, NEW t \in Threads, csMain \in {t, NoThread}, Return(t)
  PROVE  /\ Locking' /\ csMain' \in Threads \cup {NoThread}
         /\ pc' \in [Threads -> {"idle", "accept", "link", "accepted", "abc", "find", "step", "invalidate"}]
         /\ arg' \in [Threads -> mapBlockIndex \cup {NoBlock}]
         /\ pindexMostWork' \in [Threads -> mapBlockIndex \cup {NoBlock}]
         /\ \A u \in Threads : pindexMostWork'[u] \in {NoBlock, pindexMostWork[u]}
<1>1. Release(t, "idle")
  BY Zenon DEF Return
<1>2. /\ Locking' /\ csMain' \in Threads \cup {NoThread}
      /\ pc' \in [Threads -> {"idle", "accept", "link", "accepted", "abc", "find", "step", "invalidate"}]
  BY Zenon, <1>1, ReleaseLocking
<1> QED
  BY Zenon, <1>2 DEF Return, TypeOK

-----------------------------------------------------------------------------
(* The ends of the active chain, which DisconnectTip and ConnectTip move.  *)

(* An active chain that does not end in the genesis block has a parent of  *)
(* its tip below the tip.                                                  *)
LEMMA TipParent ==
  ASSUME TypeOK, ActiveChainLinked, Tip # Genesis
  PROVE  /\ Len(chainActive) \in Nat /\ Len(chainActive) >= 2
         /\ HashPrev[Tip] = chainActive[Len(chainActive) - 1]
<1>1. Len(chainActive) \in Nat /\ Len(chainActive) > 0
  BY Zenon, ChainLength
<1>2. Len(chainActive) # 1
  BY Zenon DEF Tip, ActiveChainLinked
<1>3. Len(chainActive) >= 2 /\ Len(chainActive) \in 2..Len(chainActive)
  BY Zenon, <1>1, <1>2, AtLeastTwo
<1> QED
  BY Zenon, <1>1, <1>3 DEF Tip, ActiveChainLinked

(* The active chain without its tip.                                       *)
LEMMA ShorterChain ==
  ASSUME TypeOK, ActiveChainLinked, UndoDataAvailable, Tip # Genesis,
         chainActive' = SubSeq(chainActive, 1, Len(chainActive) - 1),
         UNCHANGED <<nHeight, nTx, haveUndo, fHavePruned>>
  PROVE  /\ chainActive' \in Seq(mapBlockIndex) /\ chainActive' # <<>>
         /\ Tip' = HashPrev[Tip]
         /\ ActiveChainLinked' /\ UndoDataAvailable'
<1> DEFINE n == Len(chainActive)
<1>1. n \in Nat /\ n >= 2 /\ HashPrev[Tip] = chainActive[n - 1]
  BY Zenon, TipParent
<1>2. chainActive \in Seq(mapBlockIndex)
  BY Zenon DEF TypeOK
<1>3. /\ chainActive' \in Seq(mapBlockIndex) /\ Len(chainActive') = n - 1
      /\ \A i \in 1..(n - 1) : chainActive'[i] = chainActive[i]
  BY Zenon, <1>1, <1>2, Shortened
<1>4. chainActive' # <<>>
  BY Zenon, <1>1, <1>2, Shortened
<1>5. Tip' = HashPrev[Tip]
  BY <1>1, <1>3 DEF Tip
<1>6. 1..(n - 1) \subseteq 1..n /\ 2..(n - 1) \subseteq 2..n /\ 1 \in 1..(n - 1)
      /\ \A i \in 2..(n - 1) : i \in 1..(n - 1) /\ i - 1 \in 1..(n - 1)
  BY <1>1
<1>7. UndoDataAvailable'
  <2>1. \A c : Buried(c) => Buried(c)'
    BY Zenon DEF Buried
  <2> QED
    BY Zenon, <1>3, <1>6, <2>1 DEF UndoDataAvailable
<1>8. ActiveChainLinked'
  <2>1. chainActive'[1] = Genesis
    BY Zenon, <1>3, <1>6 DEF ActiveChainLinked
  <2>2. \A i \in 2..(n - 1) :
          chainActive'[i] # Genesis /\ HashPrev[chainActive'[i]] = chainActive'[i - 1]
    BY Zenon, <1>3, <1>6 DEF ActiveChainLinked
  <2>3. \A i \in 1..(n - 1) : nHeight'[chainActive'[i]] = i - 1 /\ chainActive'[i] \in nTx'
    BY Zenon, <1>3, <1>6 DEF ActiveChainLinked
  <2> QED
    BY Zenon, <1>3, <2>1, <2>2, <2>3 DEF ActiveChainLinked
<1> QED
  BY Zenon, <1>3, <1>4, <1>5, <1>7, <1>8

(* The active chain with the next block.                                   *)
LEMMA LongerChain ==
  ASSUME TypeOK, KnownTree, ActiveChainLinked, UndoDataAvailable,
         NEW b \in mapBlockIndex \ {Genesis}, HashPrev[b] = Tip, b \in nTx,
         chainActive' = Append(chainActive, b),
         haveUndo' = haveUndo \cup {b}, UNCHANGED <<nHeight, nTx, fHavePruned>>
  PROVE  /\ chainActive' \in Seq(mapBlockIndex) /\ chainActive' # <<>>
         /\ Tip' = b
         /\ ActiveChainLinked' /\ UndoDataAvailable'
<1> DEFINE n == Len(chainActive)
<1>1. n \in Nat /\ n > 0
  BY Zenon, ChainLength
<1>2. chainActive \in Seq(mapBlockIndex)
  BY Zenon DEF TypeOK
<1>3. /\ chainActive' \in Seq(mapBlockIndex) /\ Len(chainActive') = n + 1
      /\ \A i \in 1..n : chainActive'[i] = chainActive[i]
      /\ chainActive'[n + 1] = b
      /\ chainActive' # <<>>
  <2>1. b \in mapBlockIndex
    BY Zenon
  <2>2. /\ Append(chainActive, b) \in Seq(mapBlockIndex)
        /\ Append(chainActive, b) # <<>>
        /\ Len(Append(chainActive, b)) = Len(chainActive) + 1
        /\ \A i \in 1..Len(chainActive) : Append(chainActive, b)[i] = chainActive[i]
        /\ Append(chainActive, b)[Len(chainActive) + 1] = b
    BY SMTT(15), <1>2, <2>1, Appended
  <2> QED
    BY Zenon, <2>2
<1>5. Tip' = b
  BY Zenon, <1>3 DEF Tip
<1>6. /\ 1 \in 1..n /\ n \in 1..n /\ 1..(n + 1) = (1..n) \cup {n + 1}
      /\ 2..(n + 1) = (2..n) \cup {n + 1} /\ (n + 1) - 1 = n
      /\ \A i \in 2..n : i \in 1..n /\ i - 1 \in 1..n
  BY Zenon, <1>1, OneLonger
<1>7. UndoDataAvailable'
  <2>1. \A c : Buried(c) => Buried(c)'
    BY Zenon DEF Buried
  <2> QED
    BY Zenon, <1>3, <1>6, <2>1 DEF UndoDataAvailable
<1>8. nHeight[b] = n
  <2>1. nHeight[b] = nHeight[Tip] + 1 /\ nHeight[Tip] = n - 1
    BY <1>6 DEF KnownTree, ActiveChainLinked, Tip
  <2> QED
    BY Zenon, <1>1, <2>1, OneLonger
<1>9. ActiveChainLinked'
  <2>1. chainActive'[1] = Genesis
    BY Zenon, <1>3, <1>6 DEF ActiveChainLinked
  <2>2. \A i \in 2..(n + 1) :
          chainActive'[i] # Genesis /\ HashPrev[chainActive'[i]] = chainActive'[i - 1]
    <3> SUFFICES ASSUME NEW i \in 2..(n + 1)
                 PROVE  chainActive'[i] # Genesis /\ HashPrev[chainActive'[i]] = chainActive'[i - 1]
      BY Zenon
    <3>1. CASE i \in 2..n
      BY Zenon, <1>3, <1>6, <3>1 DEF ActiveChainLinked
    <3>2. CASE i = n + 1
      BY Zenon, <1>3, <1>6, <3>2 DEF Tip
    <3> QED
      BY Zenon, <1>6, <3>1, <3>2
  <2>3. \A i \in 1..(n + 1) : nHeight'[chainActive'[i]] = i - 1 /\ chainActive'[i] \in nTx'
    <3> SUFFICES ASSUME NEW i \in 1..(n + 1)
                 PROVE  nHeight'[chainActive'[i]] = i - 1 /\ chainActive'[i] \in nTx'
      BY Zenon
    <3>1. CASE i \in 1..n
      BY Zenon, <1>3, <3>1 DEF ActiveChainLinked
    <3>2. CASE i = n + 1
      BY Zenon, <1>3, <1>6, <1>8, <3>2
    <3> QED
      BY Zenon, <1>6, <3>1, <3>2
  <2> QED
    BY Zenon, <1>3, <2>1, <2>2, <2>3 DEF ActiveChainLinked
<1> QED
  BY Zenon, <1>3, <1>5, <1>7, <1>9

(* Genesis is on the way to every target, so never disconnected.           *)
LEMMA StepAboveGenesis ==
  ASSUME Inv, NEW t \in Threads, pc[t] = "step", Tip \notin Ancestors[pindexMostWork[t]]
  PROVE  Tip # Genesis
<1>1. pindexMostWork[t] \in mapBlockIndex
  BY Zenon, InvParts DEF Locking, TypeOK
<1> QED
  BY Zenon, <1>1, InvParts DEF KnownTree

(* InvalidateBlock stops above the genesis block.                          *)
LEMMA InvalidateAboveGenesis ==
  ASSUME Inv, NEW t \in Threads, pc[t] = "invalidate", Contains(arg[t])
  PROVE  Tip # Genesis
<1>1. arg[t] # Genesis /\ arg[t] \in mapBlockIndex /\ nHeight[arg[t]] \in Nat
  BY Zenon, InvParts DEF Locking, TypeOK
<1>2. Len(chainActive) \in Nat /\ nHeight[arg[t]] < Len(chainActive)
      /\ chainActive[nHeight[arg[t]] + 1] = arg[t]
  BY Zenon, ChainLength, InvParts DEF Contains
<1>3. nHeight[arg[t]] + 1 # 1
  BY Zenon, <1>1, <1>2, InvParts DEF ActiveChainLinked
<1>4. Len(chainActive) \in 2..Len(chainActive)
  BY Zenon, <1>1, <1>2, <1>3, AboveOne
<1> QED
  BY Zenon, <1>4, InvParts DEF ActiveChainLinked, Tip

(* The end of ActivateBestChainStep gives the lock up.                     *)
LEMMA EndStepLocals ==
  ASSUME TypeOK, Locking, NEW t \in Threads, csMain = t, NEW tip,
         NEW most \in {NoBlock, pindexMostWork[t]}, EndStep(t, tip, most)
  PROVE  /\ Locking' /\ csMain' \in Threads \cup {NoThread}
         /\ pc' \in [Threads -> {"idle", "accept", "link", "accepted", "abc", "find", "step", "invalidate"}]
         /\ arg' \in [Threads -> mapBlockIndex \cup {NoBlock}]
         /\ pindexMostWork' \in [Threads -> mapBlockIndex \cup {NoBlock}]
         /\ \A u \in Threads : pindexMostWork'[u] \in {NoBlock, pindexMostWork[u]}
         /\ pindexOldTip' = NoBlock
<1>1. CASE tip = most
  BY Zenon, <1>1, ReturnLocals DEF EndStep
<1>2. CASE tip # most
  <2>1. /\ Release(t, "abc") /\ pindexMostWork' = [pindexMostWork EXCEPT ![t] = most]
        /\ UNCHANGED arg /\ pindexOldTip' = NoBlock
    BY Zenon, <1>2 DEF EndStep
  <2>2. most \in mapBlockIndex \cup {NoBlock}
    BY Zenon DEF TypeOK
  <2> QED
    BY Zenon, <2>1, <2>2, ReleaseLocking DEF TypeOK
<1> QED
  BY Zenon, <1>1, <1>2

(* The block to connect next was received, and its parent is the tip.      *)
LEMMA NextReceived ==
  ASSUME Inv, NEW t \in Threads, pc[t] = "step", NEW b \in Block, NextToConnect(t, b)
  PROVE  /\ csMain = t /\ node = "running" /\ coinsBest = Tip
         /\ b \in mapBlockIndex \ {Genesis} /\ b \in nTx /\ HashPrev[b] = Tip
<1>1. csMain = t /\ node = "running"
  BY Zenon, Holder, InvParts DEF Locked, TypeOK
<1>2. pindexMostWork[t] \in mapBlockIndex /\ AllProcessed(pindexMostWork[t])
  BY Zenon, InvParts DEF Locking, TypeOK, Received
<1>3. Ancestors[pindexMostWork[t]] \subseteq mapBlockIndex
  BY Zenon, <1>2, AncestorsKnown, InvParts
<1> QED
  BY Zenon, <1>1, <1>2, <1>3, InvParts DEF NextToConnect, AllProcessed

(* The active chain is the tip and its ancestors.                          *)
LEMMA ChainIs ==
  ASSUME Inv, NEW a \in mapBlockIndex
  PROVE  Contains(a) <=> a \in Ancestors[Tip]
<1> DEFINE n == Len(chainActive)
           C == {chainActive[i] : i \in 1..n}
           h == nHeight[a]
<1>1. /\ n \in Nat /\ n > 0 /\ Tip \in mapBlockIndex /\ Tip \in Block
      /\ mapBlockIndex \subseteq Block /\ Ancestors[Tip] \subseteq mapBlockIndex
  BY Zenon, ChainLength, AncestorsKnown, InvParts DEF TypeOK
<1>2. \A i \in 1..n : chainActive[i] \in mapBlockIndex /\ nHeight[chainActive[i]] = i - 1
  BY Zenon, SeqIsFunction, InvParts DEF TypeOK, ActiveChainLinked
<1>3. /\ 1 \in 1..n /\ n \in 1..n
      /\ \A i \in 1..n : i # 1 => i \in 2..n /\ i - 1 \in 1..n
  BY <1>1
<1>4. PrevClosed(C)
  <2> SUFFICES ASSUME NEW i \in 1..n, chainActive[i] # Genesis
               PROVE  HashPrev[chainActive[i]] \in C
    BY Zenon DEF PrevClosed
  <2>1. i # 1
    BY Zenon, InvParts DEF ActiveChainLinked
  <2>2. HashPrev[chainActive[i]] = chainActive[i - 1]
    BY Zenon, <1>3, <2>1, InvParts DEF ActiveChainLinked
  <2> QED
    BY Zenon, <1>3, <2>1, <2>2
<1>5. Ancestors[Tip] \subseteq C
  <2>1. Tip \in C /\ C \in SUBSET Block
    BY Zenon, <1>1, <1>2, <1>3 DEF Tip
  <2> QED
    BY Zenon, <1>4, <2>1, AncestorsLeast
<1>6. a \in Ancestors[Tip] => Contains(a)
  BY Zenon, <1>5, OnChain, InvParts
<1>7. ASSUME Contains(a) PROVE a \in Ancestors[Tip]
  <2>1. h \in Nat /\ h < n /\ chainActive[h + 1] = a
    BY Zenon, <1>7, InvParts DEF Contains, TypeOK
  <2>2. \E y \in Ancestors[Tip] : nHeight[y] = h
    <3> SUFFICES ASSUME \A y \in Ancestors[Tip] : nHeight[y] # h PROVE FALSE
      BY Zenon
    <3> DEFINE S == {y \in Ancestors[Tip] : nHeight[y] > h}
    <3>1. \A y \in Ancestors[Tip] : nHeight[y] \in Nat
      BY Zenon, <1>1, InvParts DEF TypeOK
    <3> HIDE DEF n, h
    <3>2. PrevClosed(S)
      <4> SUFFICES ASSUME NEW y \in S, y # Genesis PROVE HashPrev[y] \in S
        BY Zenon DEF PrevClosed
      <4>1. HashPrev[y] \in Ancestors[Tip]
        BY Zenon, <1>1, AncestorsClosed DEF PrevClosed
      <4>2. nHeight[y] = nHeight[HashPrev[y]] + 1
        BY Zenon, <1>1, InvParts DEF KnownTree
      <4>3. nHeight[HashPrev[y]] # h /\ nHeight[HashPrev[y]] \in Nat /\ nHeight[y] > h
        BY Zenon, <3>1, <4>1
      <4>4. nHeight[HashPrev[y]] > h
        BY <2>1, <4>2, <4>3
      <4> QED
        BY Zenon, <4>1, <4>4
    <3>3. Tip \in S /\ S \in SUBSET Block
      <4>1. Tip \in Ancestors[Tip] /\ nHeight[Tip] # h
        BY Zenon, <1>1, SelfAncestor
      <4>2. nHeight[Tip] = n - 1
        BY Zenon, <1>2, <1>3 DEF Tip, n
      <4>3. nHeight[Tip] > h
        BY <1>1, <2>1, <4>1, <4>2
      <4> QED
        BY Zenon, <1>1, <4>1, <4>3
    <3>4. Genesis \in S
      BY Zenon, <1>1, <3>2, <3>3, AncestorsLeast, InvParts DEF KnownTree
    <3>5. nHeight[Genesis] = 0 /\ nHeight[Genesis] > h
      BY Zenon, <3>4, InvParts DEF KnownTree
    <3> QED
      BY <2>1, <3>5
  <2>3. PICK y \in Ancestors[Tip] : nHeight[y] = h
    BY Zenon, <2>2
  <2>4. PICK j \in 1..n : y = chainActive[j]
    BY Zenon, <1>5, <2>3
  <2>5. h = j - 1
    BY Zenon, <1>2, <2>3, <2>4
  <2> HIDE DEF n, h
  <2>6. j = h + 1
    BY <1>1, <2>1, <2>5
  <2> QED
    BY Zenon, <2>1, <2>3, <2>4, <2>6
<1> QED
  BY Zenon, <1>6, <1>7

-----------------------------------------------------------------------------
(* Every step keeps the inductive invariant.                               *)
LEMMA NextInv == Inv /\ [Next]_vars => Inv'
<1> SUFFICES ASSUME Inv PROVE [Next]_vars => Inv'
  BY Zenon
(* Entering a critical section, or moving on inside it.                    *)
<1>HoldLocking.
  ASSUME TypeOK, Locking, NEW t \in Threads, csMain \in {t, NoThread}, node = "running",
         UNCHANGED node, NEW next \in Locked, Hold(t, next),
         next \in {"accept", "invalidate"} => arg'[t] # NoBlock,
         next = "invalidate" => arg'[t] # Genesis,
         next = "step" => pindexMostWork'[t] # NoBlock /\ pindexOldTip' # NoBlock,
         next = "link" => queue' # <<>>
  PROVE  Locking' /\ csMain' \in Threads \cup {NoThread}
         /\ pc' \in [Threads -> {"idle", "accept", "link", "accepted", "abc", "find", "step", "invalidate"}]
  <2> USE <1>HoldLocking
  <2> USE ChainAssumption
  <2>1. \A u \in Threads \ {t} : pc'[u] \notin Locked /\ csMain' # u
    BY Zenon DEF TypeOK, Locking, Hold
  <2>2. pc' \in [Threads -> {"idle", "accept", "link", "accepted", "abc", "find", "step", "invalidate"}]
    BY Zenon DEF TypeOK, Hold, Locked
  <2>3. csMain' = t /\ pc'[t] = next
    BY Zenon DEF Hold, TypeOK
  <2> QED
    BY Zenon, <2>1, <2>2, <2>3 DEF Locking, Locked
(* A header that is accepted hangs the block below a known one.            *)
<1>AddHeader.
  ASSUME NEW b \in Block, HeaderAccepted(b), AddToBlockIndex(b)
  PROVE  /\ mapBlockIndex \subseteq mapBlockIndex' /\ mapBlockIndex' \subseteq Block
         /\ b \in mapBlockIndex'
         /\ nHeight' \in [Block -> Nat] /\ nChainWork' \in [Block -> Nat]
         /\ nSequenceId' \in [Block -> Int] /\ nValid' \in [Block -> {0, 2, 3, 5}]
         /\ pindexBestHeader' \in mapBlockIndex'
         /\ \A c \in mapBlockIndex : nHeight'[c] = nHeight[c]
         /\ KnownTree'
  <2> USE <1>AddHeader
  <2> USE ChainAssumption
  <2>1. TypeOK /\ KnownTree
    BY Zenon, InvParts
  <2>2. CASE b \in mapBlockIndex
    <3>1. UNCHANGED <<mapBlockIndex, nHeight, nChainWork, pindexBestHeader, nSequenceId, nValid>>
      BY Zenon, <2>2 DEF AddToBlockIndex, indexVars
    <3> QED
      BY Zenon, <2>1, <2>2, <3>1, TreeFrame DEF TypeOK
  <2>3. CASE b \notin mapBlockIndex
    <3>1. b # Genesis /\ HashPrev[b] \in mapBlockIndex /\ HashPrev[b] \in Block
      BY Zenon, <2>1, <2>3 DEF HeaderAccepted, KnownTree
    <3>2. /\ mapBlockIndex' = mapBlockIndex \cup {b}
          /\ nSequenceId' = [nSequenceId EXCEPT ![b] = 0]
          /\ nHeight' = [nHeight EXCEPT ![b] = nHeight[HashPrev[b]] + 1]
          /\ nChainWork' = [nChainWork EXCEPT ![b] = nChainWork[HashPrev[b]] + Proof[b]]
          /\ nValid' = [nValid EXCEPT ![b] = RaiseValidity(b, BLOCK_VALID_TREE)]
          /\ pindexBestHeader' \in {b, pindexBestHeader}
      BY Zenon, <2>3 DEF AddToBlockIndex
    <3>3. RaiseValidity(b, BLOCK_VALID_TREE) \in {0, 2, 3, 5}
      BY Zenon, <2>1 DEF RaiseValidity, BLOCK_VALID_TREE, TypeOK
    <3>4. Genesis \in Ancestors[b]
      BY Zenon, <2>1, <3>1, AncestorsOfChild DEF KnownTree
    <3>5. \A c \in mapBlockIndex : nHeight'[c] = nHeight[c]
      BY Zenon, <2>1, <2>3, <3>2 DEF TypeOK
    <3>6. nHeight'[b] = nHeight[HashPrev[b]] + 1
      BY Zenon, <2>1, <3>2 DEF TypeOK
    <3>7. PrevClosed(mapBlockIndex')
      BY Zenon, <2>1, <3>1, <3>2 DEF KnownTree, PrevClosed
    <3>8. \A c \in mapBlockIndex' \ {Genesis} : nHeight'[c] = nHeight'[HashPrev[c]] + 1
      <4> SUFFICES ASSUME NEW c \in mapBlockIndex' \ {Genesis}
                   PROVE  nHeight'[c] = nHeight'[HashPrev[c]] + 1
        BY Zenon
      <4>1. CASE c = b
        BY Zenon, <3>1, <3>5, <3>6, <4>1
      <4>2. CASE c \in mapBlockIndex
        BY Zenon, <2>1, <3>5, <4>2 DEF KnownTree, PrevClosed
      <4> QED
        BY Zenon, <3>2, <4>1, <4>2
    <3>9. KnownTree'
      BY Zenon, <2>1, <3>2, <3>4, <3>5, <3>7, <3>8 DEF KnownTree
    <3>10. /\ nHeight' \in [Block -> Nat] /\ nChainWork' \in [Block -> Nat]
           /\ nSequenceId' \in [Block -> Int]
      <4>0. nHeight[HashPrev[b]] \in Nat /\ nChainWork[HashPrev[b]] \in Nat /\ Proof[b] \in Nat
        BY Zenon, <2>1, <3>1 DEF TypeOK
      <4>2. /\ nHeight \in [Block -> Nat] /\ nChainWork \in [Block -> Nat]
            /\ nSequenceId \in [Block -> Int]
        BY Zenon, <2>1 DEF TypeOK
      <4> HIDE ChainAssumption
      <4>1. nHeight[HashPrev[b]] + 1 \in Nat
        BY <4>0
      <4>3. nChainWork[HashPrev[b]] + Proof[b] \in Nat
        BY <4>0
      <4> QED
        BY <3>2, <4>1, <4>2, <4>3
    <3>11. nValid' \in [Block -> {0, 2, 3, 5}]
      BY Zenon, <2>1, <3>2, <3>3 DEF TypeOK
    <3>12. pindexBestHeader' \in mapBlockIndex' /\ mapBlockIndex' \subseteq Block
      BY Zenon, <2>1, <3>2 DEF TypeOK
    <3> QED
      BY Zenon, <3>2, <3>5, <3>9, <3>10, <3>11, <3>12
  <2> QED
    BY Zenon, <2>2, <2>3
(* A header only grows the tree at its leaves.                             *)
<1>ProcessNewBlockHeaders.
  ASSUME NEW t \in Threads, NEW b \in Block, ProcessNewBlockHeaders(t, b)
  PROVE  Inv'
  <2> USE <1>ProcessNewBlockHeaders
  <2> USE DEF ProcessNewBlockHeaders, dataVars, failVars, linkVars, preciousVars,
              chainVars, pruneVars, threadVars
  <2>1. /\ mapBlockIndex \subseteq mapBlockIndex' /\ mapBlockIndex' \subseteq Block
        /\ nHeight' \in [Block -> Nat] /\ nChainWork' \in [Block -> Nat]
        /\ nSequenceId' \in [Block -> Int] /\ nValid' \in [Block -> {0, 2, 3, 5}]
        /\ pindexBestHeader' \in mapBlockIndex'
        /\ \A c \in mapBlockIndex : nHeight'[c] = nHeight[c]
        /\ KnownTree'
    BY Zenon, <1>AddHeader
  <2>2. TypeOK'
    <3>1. chainActive' \in Seq(mapBlockIndex') /\ queue' \in Seq(mapBlockIndex')
      BY Zenon, <2>1, SeqMonotonic, InvParts DEF TypeOK
    <3> QED
      BY Zenon, <2>1, <3>1, InvParts DEF TypeOK
  <2>3. Locking'
    BY Zenon, InvParts DEF Locking
  <2>4. Received'
    BY Zenon, ReceivedFrame, InvParts
  <2>5. ActiveChainLinked' /\ UndoDataAvailable'
    BY Zenon, <2>1, ChainFrame, UndoFrame, InvParts
  <2> QED
    BY Zenon, <2>1, <2>2, <2>3, <2>4, <2>5, CoinsFrame DEF Inv
(* So does the header of a block, and the thread takes cs_main.            *)
<1>ProcessNewBlock. ASSUME NEW t \in Threads, NEW b \in Block, ProcessNewBlock(t, b) PROVE Inv'
  <2> USE <1>ProcessNewBlock
  <2> USE DEF ProcessNewBlock, dataVars, failVars, linkVars, preciousVars,
              chainVars, pruneVars
  <2>1. /\ mapBlockIndex \subseteq mapBlockIndex' /\ mapBlockIndex' \subseteq Block
        /\ b \in mapBlockIndex'
        /\ nHeight' \in [Block -> Nat] /\ nChainWork' \in [Block -> Nat]
        /\ nSequenceId' \in [Block -> Int] /\ nValid' \in [Block -> {0, 2, 3, 5}]
        /\ pindexBestHeader' \in mapBlockIndex'
        /\ \A c \in mapBlockIndex : nHeight'[c] = nHeight[c]
        /\ KnownTree'
    BY Zenon, <1>AddHeader
  <2>2. TypeOK'
    <3>1. chainActive' \in Seq(mapBlockIndex') /\ queue' \in Seq(mapBlockIndex')
      BY Zenon, <2>1, SeqMonotonic, InvParts DEF TypeOK
    <3> QED
      BY Zenon, <2>1, <3>1, InvParts DEF TypeOK, Hold
  <2>3. Locking'
    BY Zenon, ChainAssumption, InvParts DEF Locking, Locked, Hold, Enter, TypeOK
  <2>4. Received'
    BY Zenon, ReceivedFrame, InvParts
  <2>5. ActiveChainLinked' /\ UndoDataAvailable'
    BY Zenon, <2>1, ChainFrame, UndoFrame, InvParts
  <2> QED
    BY Zenon, <2>1, <2>2, <2>3, <2>4, <2>5, CoinsFrame DEF Inv
(* AcceptBlock leaves an unwanted block alone.                             *)
<1>AcceptBlockIgnored. ASSUME NEW t \in Threads, AcceptBlockIgnored(t) PROVE Inv'
  <2> USE <1>AcceptBlockIgnored
  <2> USE DEF AcceptBlockIgnored, indexVars, dataVars, failVars, linkVars, preciousVars,
              chainVars, pruneVars
  <2>1. csMain = t
    BY Zenon, Holder, InvParts DEF Locked
  <2>2. Locking' /\ csMain' \in Threads \cup {NoThread}
        /\ pc' \in [Threads -> {"idle", "accept", "link", "accepted", "abc", "find", "step", "invalidate"}]
    BY Zenon, <2>1, ReleaseLocking, InvParts
  <2>3. TypeOK'
    BY Zenon, <2>2, InvParts DEF TypeOK
  <2>4. Received' /\ KnownTree'
    BY Zenon, ReceivedFrame, TreeFrame, InvParts
  <2>5. ActiveChainLinked' /\ UndoDataAvailable'
    BY Zenon, ChainFrame, UndoFrame, InvParts
  <2> QED
    BY Zenon, <2>2, <2>3, <2>4, <2>5, CoinsFrame DEF Inv
(* AcceptBlock marks a bad block and returns.                              *)
<1>AcceptBlockInvalid. ASSUME NEW t \in Threads, AcceptBlockInvalid(t) PROVE Inv'
  <2> USE <1>AcceptBlockInvalid
  <2> USE DEF AcceptBlockInvalid, indexVars, dataVars, failVars, linkVars, preciousVars,
              chainVars, pruneVars, Return
  <2>1. csMain = t
    BY Zenon, Holder, InvParts DEF Locked
  <2>2. Locking' /\ csMain' \in Threads \cup {NoThread}
        /\ pc' \in [Threads -> {"idle", "accept", "link", "accepted", "abc", "find", "step", "invalidate"}]
    BY Zenon, <2>1, ReleaseLocking, InvParts
  <2>3. arg[t] \in mapBlockIndex
    BY Zenon, InvParts DEF TypeOK, Locking
  <2>4. TypeOK'
    BY Zenon, <2>2, <2>3, InvParts DEF TypeOK
  <2>5. Received' /\ KnownTree'
    BY Zenon, ReceivedFrame, TreeFrame, InvParts DEF TypeOK
  <2>6. ActiveChainLinked' /\ UndoDataAvailable'
    BY Zenon, ChainFrame, UndoFrame, InvParts
  <2> QED
    BY Zenon, <2>2, <2>4, <2>5, <2>6, CoinsFrame DEF Inv
(* A block that is stored is queued or waits for its parent.               *)
<1>ReceivedBlockTransactions. ASSUME NEW t \in Threads, ReceivedBlockTransactions(t) PROVE Inv'
  <2> USE <1>ReceivedBlockTransactions
  <2> DEFINE b == arg[t]
  <2> USE DEF ReceivedBlockTransactions, indexVars, failVars, preciousVars, chainVars
  <2>1. csMain = t /\ node = "running"
    BY Zenon, Holder, InvParts DEF Locked, TypeOK
  <2>2. b \in mapBlockIndex /\ b \in Block
    BY Zenon, InvParts DEF TypeOK, Locking
  <2>3. b # Genesis => Ancestors[b] = {b} \cup Ancestors[HashPrev[b]]
    BY Zenon, <2>2, AncestorsOfChild, InvParts DEF KnownTree, PrevClosed
  <2>4. nTx' = nTx \cup {b} /\ nChainTx' \subseteq nChainTx
    BY Zenon
  <2>5. ParentLinked(b) => AllProcessed(b)'
    BY Zenon, <2>3, <2>4, AncestorsOfGenesis, InvParts DEF ParentLinked, Received, AllProcessed
  <2>6. KnownTree' /\ ActiveChainLinked'
    BY Zenon, <2>4, TreeFrame, ChainFrame, InvParts
  <2>7. UndoDataAvailable'
    BY Zenon, <2>4, UndoFrame, InvParts
  <2>8. CoinsAtTip' /\ (node' = "running" => coinsBest' = Tip')
    BY Zenon, CoinsFrame, InvParts
  <2>9. nValid' \in [Block -> {0, 2, 3, 5}]
    BY Zenon, <2>2, InvParts DEF TypeOK, RaiseValidity, BLOCK_VALID_TRANSACTIONS
  <2>10. CASE ParentLinked(b)
    <3>1. queue' = <<b>> /\ Hold(t, "link") /\ UNCHANGED mapBlocksUnlinked
      BY Zenon, <2>10
    <3>2. Locking' /\ csMain' \in Threads \cup {NoThread}
          /\ pc' \in [Threads -> {"idle", "accept", "link", "accepted", "abc", "find", "step", "invalidate"}]
      BY Zenon, <2>1, <3>1, <1>HoldLocking, InvParts DEF Locked
    <3>3. TypeOK'
      <4>1. queue' \in Seq(mapBlockIndex')
        BY Zenon, <2>2, <3>1, SingleSeq
      <4> QED
        BY Zenon, <2>2, <2>4, <2>9, <3>2, <4>1, InvParts DEF TypeOK
    <3>4. AllProcessed(b)'
      BY Zenon, <2>5, <2>10
    <3>5. Received'
      BY SMTT(15), <2>4, <3>1, <3>4, InvParts DEF Received, AllProcessed
    <3> QED
      BY Zenon, <2>6, <2>7, <2>8, <3>2, <3>3, <3>5 DEF Inv
  <2>11. CASE ~ParentLinked(b)
    <3>1. UNCHANGED queue /\ Release(t, "accepted")
          /\ mapBlocksUnlinked' \subseteq mapBlocksUnlinked \cup {b} /\ b # Genesis
      BY Zenon, <2>11 DEF ParentLinked
    <3>2. Locking' /\ csMain' \in Threads \cup {NoThread}
          /\ pc' \in [Threads -> {"idle", "accept", "link", "accepted", "abc", "find", "step", "invalidate"}]
      BY Zenon, <2>1, <3>1, ReleaseLocking, InvParts
    <3>3. TypeOK'
      BY ZenonT(30), <2>2, <2>4, <2>9, <3>1, <3>2, InvParts DEF TypeOK
    <3>4. Received'
      BY Zenon, <2>2, <2>4, <3>1, InvParts DEF Received, AllProcessed
    <3> QED
      BY Zenon, <2>6, <2>7, <2>8, <3>2, <3>3, <3>4 DEF Inv
  <2> QED
    BY Zenon, <2>10, <2>11
(* The waiting children of a block of the queue join it.                   *)
<1>QueueAfter.
  ASSUME queue # <<>>, NEW s \in Orders(Waiting(Head(queue)))
  PROVE  LET q == Tail(queue) \o s IN
         /\ q \in Seq(mapBlockIndex)
         /\ \A i \in 1..Len(q) : AllProcessed(q[i])
  <2> USE <1>QueueAfter
  <2> DEFINE b == Head(queue)
             W == Waiting(b)
             q == Tail(queue) \o s
  <2>1. queue \in Seq(mapBlockIndex)
    BY Zenon, InvParts DEF TypeOK
  <2>2. /\ b \in mapBlockIndex /\ Tail(queue) \in Seq(mapBlockIndex)
        /\ Len(Tail(queue)) = Len(queue) - 1 /\ Len(queue) \in Nat \ {0}
        /\ \A i \in 1..Len(Tail(queue)) : Tail(queue)[i] = queue[i + 1]
        /\ b = queue[1]
    <3>1. Len(queue) \in Nat /\ Len(queue) > 0
      BY Zenon, <2>1, SeqIsFunction
    <3>2. Len(queue) \in Nat \ {0}
      BY <3>1
    <3> QED
      BY Zenon, <2>1, <3>2, HeadAndTail
  <2>3. W \subseteq mapBlockIndex /\ W \subseteq nTx /\ Cardinality(W) \in Nat
    <3>1. W \subseteq mapBlocksUnlinked /\ mapBlocksUnlinked \subseteq Block
      BY Zenon, InvParts DEF Waiting, TypeOK
    <3> QED
      BY Zenon, <3>1, ChainAssumption, InvParts DEF TypeOK, Received
  <2>5. s \in [1..Cardinality(W) -> W]
    BY Zenon DEF Orders
  <2>6. s \in Seq(W) /\ s \in Seq(mapBlockIndex) /\ Len(s) \in Nat
        /\ \A i \in 1..Len(s) : s[i] \in W
    <3>1. s \in Seq(W)
      BY Zenon, <2>3, <2>5, FunctionIsSeq
    <3> QED
      BY Zenon, <2>3, <3>1, SeqMonotonic, SeqIsFunction
  <2>7. AllProcessed(b) /\ \A i \in 1..Len(Tail(queue)) : AllProcessed(Tail(queue)[i])
    <3>1. \A i \in 1..Len(queue) : AllProcessed(queue[i])
      BY Zenon, InvParts DEF Received
    <3>2. 1 \in 1..Len(queue) /\ \A i \in 1..Len(Tail(queue)) : i + 1 \in 1..Len(queue)
      BY <2>2
    <3> QED
      BY Zenon, <2>2, <3>1, <3>2
  <2>8. \A c \in W : AllProcessed(c)
    <3> SUFFICES ASSUME NEW c \in W PROVE AllProcessed(c)
      BY Zenon
    <3>1. c \in Block \ {Genesis} /\ c \in nTx /\ HashPrev[c] = b
      BY Zenon, InvParts DEF Waiting, TypeOK, Received
    <3> QED
      BY Zenon, <2>7, <3>1, AncestorsOfChild DEF AllProcessed
  <2>9. /\ q \in Seq(mapBlockIndex)
        /\ Len(q) = Len(Tail(queue)) + Len(s)
        /\ \A i \in 1..Len(Tail(queue)) + Len(s) :
             q[i] = IF i <= Len(Tail(queue)) THEN Tail(queue)[i] ELSE s[i - Len(Tail(queue))]
    BY Zenon, <2>2, <2>6, Concatenated
  <2>10. \A i \in 1..Len(q) : AllProcessed(q[i])
    <3> SUFFICES ASSUME NEW i \in 1..Len(q) PROVE AllProcessed(q[i])
      BY Zenon
    <3>1. Len(Tail(queue)) \in Nat
      BY <2>2
    <3>2. CASE i <= Len(Tail(queue))
      <4>1. i \in 1..Len(Tail(queue))
        BY <3>1, <3>2
      <4>2. q[i] = Tail(queue)[i]
        BY Zenon, <2>9, <3>2
      <4> QED
        BY Zenon, <2>7, <4>1, <4>2
    <3>3. CASE ~(i <= Len(Tail(queue)))
      <4>1. i - Len(Tail(queue)) \in 1..Len(s)
        BY <2>6, <2>9, <3>1, <3>3
      <4>2. q[i] = s[i - Len(Tail(queue))]
        BY Zenon, <2>9, <3>3
      <4> QED
        BY Zenon, <2>6, <2>8, <4>1, <4>2
    <3> QED
      BY Zenon, <3>2, <3>3
  <2> QED
    BY Zenon, <2>9, <2>10
(* A block of the queue gets nChainTx, its ancestors all received.         *)
<1>LinkBlock. ASSUME NEW t \in Threads, LinkBlock(t) PROVE Inv'
  <2> USE <1>LinkBlock
  <2> DEFINE b == Head(queue)
  <2> USE DEF LinkBlock, indexVars, dataVars, failVars, preciousVars, chainVars, pruneVars
  <2>1. csMain = t /\ node = "running"
    BY Zenon, Holder, InvParts DEF Locked, TypeOK
  <2>2. queue # <<>>
    BY Zenon, InvParts DEF Locking
  <2>3. queue' \in Seq(mapBlockIndex) /\ \A i \in 1..Len(queue') : AllProcessed(queue'[i])
    BY Zenon, <2>2, <1>QueueAfter
  <2>4. b \in mapBlockIndex /\ AllProcessed(b)
    <3>1. queue \in Seq(mapBlockIndex)
      BY Zenon, InvParts DEF TypeOK
    <3>2. b \in mapBlockIndex /\ b = queue[1] /\ 1 \in 1..Len(queue)
      <4>1. Len(queue) \in Nat /\ Len(queue) > 0
        BY Zenon, <2>2, <3>1, SeqIsFunction
      <4>2. 1 \in 1..Len(queue)
        BY <4>1
      <4> QED
        BY Zenon, <2>2, <3>1, <4>2, HeadAndTail
    <3> QED
      BY Zenon, <3>2, InvParts DEF Received
  <2>5. /\ Locking' /\ csMain' \in Threads \cup {NoThread}
        /\ pc' \in [Threads -> {"idle", "accept", "link", "accepted", "abc", "find", "step", "invalidate"}]
    <3>1. CASE queue' = <<>>
      BY Zenon, <2>1, <3>1, ReleaseLocking, InvParts
    <3>2. CASE queue' # <<>>
      BY Zenon, <2>1, <3>2, <1>HoldLocking, InvParts DEF Locked
    <3> QED
      BY Zenon, <3>1, <3>2
  <2>6. TypeOK'
    <3>0. nSequenceId \in [Block -> Int] /\ nBlockSequenceId \in Nat
      BY Zenon, InvParts DEF TypeOK
    <3>1. nSequenceId' \in [Block -> Int] /\ nBlockSequenceId' \in Nat
      <4>1. nBlockSequenceId \in Int /\ nBlockSequenceId + 1 \in Nat
        BY <3>0
      <4>2. nBlockSequenceId' = nBlockSequenceId + 1
            /\ nSequenceId' = [nSequenceId EXCEPT ![Head(queue)] = nBlockSequenceId]
        BY Zenon
      <4> QED
        BY Zenon, <3>0, <4>1, <4>2
    <3>2. /\ setBlockIndexCandidates' \subseteq setBlockIndexCandidates \cup {b}
          /\ mapBlocksUnlinked' \subseteq mapBlocksUnlinked
      BY Zenon
    <3> QED
      BY Zenon, <2>3, <2>4, <2>5, <3>1, <3>2, InvParts DEF TypeOK
  <2>7. Received'
    BY Zenon, <2>3, <2>4, InvParts DEF Received, AllProcessed
  <2>8. KnownTree' /\ ActiveChainLinked' /\ UndoDataAvailable'
    BY Zenon, TreeFrame, ChainFrame, UndoFrame, InvParts
  <2> QED
    BY Zenon, <2>5, <2>6, <2>7, <2>8, CoinsFrame DEF Inv
(* The top of the loop of ActivateBestChain.                               *)
<1>ActivateBestChain. ASSUME NEW t \in Threads, ActivateBestChain(t) PROVE Inv'
  <2> USE <1>ActivateBestChain
  <2> USE DEF ActivateBestChain, indexVars, dataVars, failVars, linkVars, preciousVars,
              chainVars, pruneVars
  <2>1. csMain = NoThread /\ Tip \in mapBlockIndex /\ Tip # NoBlock
    BY Zenon, ChainLength, ChainAssumption, InvParts DEF TypeOK
  <2>2. /\ Locking' /\ csMain' \in Threads \cup {NoThread}
        /\ pc' \in [Threads -> {"idle", "accept", "link", "accepted", "abc", "find", "step", "invalidate"}]
        /\ arg' \in [Threads -> mapBlockIndex \cup {NoBlock}]
        /\ pindexMostWork' \in [Threads -> mapBlockIndex \cup {NoBlock}]
        /\ pindexOldTip' \in mapBlockIndex \cup {NoBlock}
        /\ \A u \in Threads : pindexMostWork'[u] \in {NoBlock, pindexMostWork[u]}
    <3>1. CASE Return(t) /\ UNCHANGED pindexOldTip
      BY Zenon, <2>1, <3>1, ReleaseLocking, InvParts DEF Return, TypeOK
    <3>2. CASE /\ node = "running" /\ Hold(t, "find")
               /\ UNCHANGED <<arg, pindexMostWork, pindexOldTip>>
      BY Zenon, <2>1, <3>2, <1>HoldLocking, InvParts DEF Locked, TypeOK
    <3>3. CASE /\ node = "running" /\ pindexMostWork[t] \notin {NoBlock, Tip}
               /\ Hold(t, "step") /\ pindexOldTip' = Tip /\ UNCHANGED <<arg, pindexMostWork>>
      BY Zenon, <2>1, <3>3, <1>HoldLocking, InvParts DEF Locked, TypeOK
    <3> QED
      BY Zenon, <3>1, <3>2, <3>3
  <2>3. TypeOK'
    BY Zenon, <2>2, InvParts DEF TypeOK
  <2>4. Received' /\ KnownTree' /\ ActiveChainLinked' /\ UndoDataAvailable'
    BY Zenon, <2>2, ReceivedFrame, TreeFrame, ChainFrame, UndoFrame, InvParts
  <2> QED
    BY Zenon, <2>2, <2>3, <2>4, CoinsFrame DEF Inv
(* No candidate: the call returns.                                         *)
<1>FindMostWorkChainNone. ASSUME NEW t \in Threads, FindMostWorkChainNone(t) PROVE Inv'
  <2> USE <1>FindMostWorkChainNone
  <2> USE DEF FindMostWorkChainNone, indexVars, dataVars, failVars, linkVars, preciousVars,
              chainVars, pruneVars
  <2>1. csMain = t
    BY Zenon, Holder, InvParts DEF Locked
  <2>2. /\ Locking' /\ csMain' \in Threads \cup {NoThread}
        /\ pc' \in [Threads -> {"idle", "accept", "link", "accepted", "abc", "find", "step", "invalidate"}]
        /\ arg' \in [Threads -> mapBlockIndex \cup {NoBlock}]
        /\ pindexMostWork' \in [Threads -> mapBlockIndex \cup {NoBlock}]
        /\ \A u \in Threads : pindexMostWork'[u] \in {NoBlock, pindexMostWork[u]}
    BY Zenon, <2>1, ReturnLocals, InvParts
  <2>3. TypeOK'
    BY Zenon, <2>2, InvParts DEF TypeOK
  <2>4. Received' /\ KnownTree' /\ ActiveChainLinked' /\ UndoDataAvailable'
    BY Zenon, <2>2, ReceivedFrame, TreeFrame, ChainFrame, UndoFrame, InvParts
  <2> QED
    BY Zenon, <2>2, <2>3, <2>4, CoinsFrame DEF Inv
(* The target of a step is a candidate, so received in full.               *)
<1>FindMostWorkChainFound.
  ASSUME NEW t \in Threads, NEW c \in Block, FindMostWorkChainFound(t, c)
  PROVE  Inv'
  <2> USE <1>FindMostWorkChainFound
  <2> USE DEF FindMostWorkChainFound, indexVars, dataVars, failVars, linkVars, preciousVars,
              chainVars, pruneVars
  <2>1. csMain = t /\ node = "running"
    BY Zenon, Holder, InvParts DEF Locked, TypeOK
  <2>2. Tip \in mapBlockIndex /\ Tip # NoBlock /\ c # NoBlock /\ c \in mapBlockIndex
    BY Zenon, ChainLength, ChainAssumption DEF Inv, TypeOK
  <2>3. /\ Locking' /\ csMain' \in Threads \cup {NoThread}
        /\ pc' \in [Threads -> {"idle", "accept", "link", "accepted", "abc", "find", "step", "invalidate"}]
        /\ arg' \in [Threads -> mapBlockIndex \cup {NoBlock}]
        /\ pindexMostWork' \in [Threads -> mapBlockIndex \cup {NoBlock}]
        /\ pindexOldTip' \in mapBlockIndex \cup {NoBlock}
        /\ \A u \in Threads : pindexMostWork'[u] \in
              {NoBlock, pindexMostWork[u]} \cup setBlockIndexCandidates
    <3>1. CASE Return(t) /\ UNCHANGED pindexOldTip
      BY Zenon, <2>1, <3>1, ReturnLocals, InvParts DEF TypeOK
    <3>2. CASE /\ Hold(t, "step") /\ pindexMostWork' = [pindexMostWork EXCEPT ![t] = c]
               /\ pindexOldTip' = Tip /\ UNCHANGED arg
      <4>1. pindexMostWork'[t] = c /\ pindexMostWork' \in [Threads -> mapBlockIndex \cup {NoBlock}]
        BY Zenon, <2>2, <3>2, InvParts DEF TypeOK
      <4>2. /\ Locking' /\ csMain' \in Threads \cup {NoThread}
            /\ pc' \in [Threads -> {"idle", "accept", "link", "accepted", "abc", "find", "step", "invalidate"}]
        BY Zenon, <2>1, <2>2, <3>2, <4>1, <1>HoldLocking, InvParts DEF Locked
      <4> QED
        BY Zenon, <2>2, <3>2, <4>1, <4>2, InvParts DEF TypeOK
    <3> QED
      BY Zenon, <3>1, <3>2
  <2>4. TypeOK'
    BY Zenon, <2>3, InvParts DEF TypeOK
  <2>5. Received' /\ KnownTree' /\ ActiveChainLinked' /\ UndoDataAvailable'
    BY Zenon, <2>3, ReceivedFrame, TreeFrame, ChainFrame, UndoFrame, InvParts
  <2> QED
    BY Zenon, <2>3, <2>4, <2>5, CoinsFrame DEF Inv
(* What waits for a pruned block was received and is not genesis.          *)
<1>FindMostWorkChainRejected.
  ASSUME NEW t \in Threads, NEW c \in Block, NEW bad \in Block,
         FindMostWorkChainRejected(t, c, bad)
  PROVE  Inv'
  <2> USE <1>FindMostWorkChainRejected
  <2> USE DEF FindMostWorkChainRejected, indexVars, dataVars, failVars, linkVars, preciousVars,
              chainVars, pruneVars, threadVars
  <2>1. c \in mapBlockIndex /\ Above(c, bad) \subseteq Ancestors[c]
    BY Zenon, InvParts DEF TypeOK, Above
  <2>2. Above(c, bad) \subseteq mapBlockIndex
    BY Zenon, <2>1, AncestorsKnown, InvParts
  <2>3. Above(c, bad) \subseteq nTx \ {Genesis}
    <3>1. Ancestors[c] \subseteq nTx
      BY Zenon, InvParts DEF Received, AllProcessed
    <3>2. nHeight[Genesis] = 0 /\ nHeight[bad] \in Nat
      BY Zenon, InvParts DEF KnownTree, TypeOK
    <3>3. ~(nHeight[Genesis] > nHeight[bad])
      BY SMTT(15), <3>2
    <3> QED
      BY Zenon, <3>1, <3>3 DEF Above
  <2>4. TypeOK'
    <3>1. pindexBestInvalid' \in mapBlockIndex \cup {NoBlock}
      BY Zenon, <2>1, InvParts DEF InvalidChainFound, TypeOK
    <3> QED
      BY Zenon, <2>2, <3>1, InvParts DEF TypeOK
  <2>5. Locking'
    BY Zenon, InvParts DEF Locking
  <2>6. Received'
    BY Zenon, <2>3, InvParts DEF Received, AllProcessed
  <2>7. KnownTree' /\ ActiveChainLinked' /\ UndoDataAvailable'
    BY Zenon, TreeFrame, ChainFrame, UndoFrame, InvParts
  <2> QED
    BY Zenon, <2>4, <2>5, <2>6, <2>7, CoinsFrame DEF Inv
(* AbortNode leaves the critical section for good.                         *)
<1>AbortLocals.
  ASSUME TypeOK, Locking, NEW t \in Threads, csMain = t, AbortNode(t)
  PROVE  /\ Locking' /\ csMain' \in Threads \cup {NoThread}
         /\ pc' \in [Threads -> {"idle", "accept", "link", "accepted", "abc", "find", "step", "invalidate"}]
         /\ arg' \in [Threads -> mapBlockIndex \cup {NoBlock}]
         /\ pindexMostWork' \in [Threads -> mapBlockIndex \cup {NoBlock}]
         /\ \A u \in Threads : pindexMostWork'[u] \in {NoBlock, pindexMostWork[u]}
         /\ node' = "stopping" /\ pindexOldTip' = NoBlock
  BY Zenon, <1>AbortLocals, ReturnLocals DEF AbortNode
(* Counters of calls stay natural numbers.                                 *)
<1>CountType.
  ASSUME nCalls \in [Call -> Nat], NEW c \in Call, Count(c)
  PROVE  nCalls' \in [Call -> Nat]
  <2> USE <1>CountType
  <2>1. nCalls[c] \in Nat
    BY Zenon
  <2>2. nCalls[c] + 1 \in Nat
    BY <2>1
  <2> QED
    BY Zenon, <2>2 DEF Count
(* What DisconnectTip does, whichever way it ends, when the tip is not the *)
(* genesis block.                                                          *)
<1>DisconnectTipKeeps.
  ASSUME NEW t \in Threads, csMain = t, node = "running", Tip # Genesis, DisconnectTip(t),
         UNCHANGED <<mapBlockIndex, nHeight, nTx, haveUndo, fHavePruned, queue>>
  PROVE  /\ chainActive' \in Seq(mapBlockIndex) /\ chainActive' # <<>>
         /\ coinsBest' \in mapBlockIndex /\ nCalls' \in [Call -> Nat]
         /\ ActiveChainLinked' /\ UndoDataAvailable'
         /\ CoinsAtTip' /\ (node' = "running" => coinsBest' = Tip')
         /\ node' \in {"running", "stopping"}
         /\ Locking' /\ csMain' \in Threads \cup {NoThread}
         /\ pc' \in [Threads -> {"idle", "accept", "link", "accepted", "abc", "find", "step", "invalidate"}]
         /\ arg' \in [Threads -> mapBlockIndex \cup {NoBlock}]
         /\ pindexMostWork' \in [Threads -> mapBlockIndex \cup {NoBlock}]
         /\ \A u \in Threads : pindexMostWork'[u] \in {NoBlock, pindexMostWork[u]}
         /\ pindexOldTip' \in mapBlockIndex \cup {NoBlock}
  <2> USE <1>DisconnectTipKeeps
  <2>1. TypeOK /\ Locking /\ KnownTree /\ ActiveChainLinked /\ UndoDataAvailable /\ coinsBest = Tip
    BY Zenon, InvParts
  <2>2. Tip \in mapBlockIndex /\ HashPrev[Tip] \in mapBlockIndex
    BY Zenon, <2>1, ChainLength DEF KnownTree, PrevClosed
  <2>3. CASE Tip \notin haveData /\ AbortNode(t) /\ UNCHANGED <<chainVars, nCalls>>
    <3>1. UNCHANGED <<chainActive, coinsBest, nCalls>> /\ node' = "stopping"
      BY Zenon, <2>3 DEF chainVars, AbortNode
    <3>2. ActiveChainLinked' /\ UndoDataAvailable'
      BY Zenon, <2>1, <3>1, ChainFrame, UndoFrame
    <3>3. CoinsAtTip'
      BY Zenon, <2>1, <3>1 DEF CoinsAtTip, Tip
    <3> QED
      BY Zenon, <2>1, <2>3, <3>1, <3>2, <3>3, <1>AbortLocals DEF TypeOK
  <2>4. CASE /\ Count("flusherror") /\ coinsBest' = HashPrev[Tip]
             /\ AbortNode(t) /\ UNCHANGED chainActive
    <3>1. ActiveChainLinked' /\ UndoDataAvailable' /\ node' = "stopping"
      BY Zenon, <2>1, <2>4, ChainFrame, UndoFrame DEF AbortNode
    <3>2. CoinsAtTip'
      BY Zenon, <2>4, <3>1 DEF CoinsAtTip, Tip
    <3>3. nCalls' \in [Call -> Nat]
      BY Zenon, <2>1, <2>4, <1>CountType DEF TypeOK, Call
    <3> QED
      BY Zenon, <2>1, <2>2, <2>4, <3>1, <3>2, <3>3, <1>AbortLocals DEF TypeOK
  <2>5. CASE /\ coinsBest' = HashPrev[Tip]
             /\ chainActive' = SubSeq(chainActive, 1, Len(chainActive) - 1)
             /\ UNCHANGED <<node, csMain, pc, arg, pindexMostWork, pindexOldTip, nCalls>>
    <3>1. /\ chainActive' \in Seq(mapBlockIndex) /\ chainActive' # <<>>
          /\ Tip' = HashPrev[Tip] /\ ActiveChainLinked' /\ UndoDataAvailable'
      BY Zenon, <2>1, <2>5, ShorterChain
    <3>2. Locking'
      BY Zenon, <2>1, <2>5 DEF Locking
    <3>3. CoinsAtTip' /\ coinsBest' = Tip'
      BY Zenon, <2>5, <3>1 DEF CoinsAtTip
    <3> QED
      BY Zenon, <2>1, <2>2, <2>5, <3>1, <3>2, <3>3 DEF TypeOK
  <2> QED
    BY Zenon, <2>3, <2>4, <2>5 DEF DisconnectTip
(* A tip that is not on the way to the target is disconnected.             *)
<1>StepDisconnect. ASSUME NEW t \in Threads, StepDisconnect(t) PROVE Inv'
  <2> USE <1>StepDisconnect
  <2> USE DEF StepDisconnect, indexVars, dataVars, failVars, linkVars, preciousVars, pruneVars
  <2>1. csMain = t /\ node = "running"
    BY Zenon, Holder, InvParts DEF Locked, TypeOK
  <2>2. Tip # Genesis
    BY Zenon, StepAboveGenesis
  <2>3. /\ chainActive' \in Seq(mapBlockIndex) /\ chainActive' # <<>>
        /\ coinsBest' \in mapBlockIndex /\ nCalls' \in [Call -> Nat]
        /\ ActiveChainLinked' /\ UndoDataAvailable'
        /\ CoinsAtTip' /\ (node' = "running" => coinsBest' = Tip')
        /\ node' \in {"running", "stopping"}
        /\ Locking' /\ csMain' \in Threads \cup {NoThread}
        /\ pc' \in [Threads -> {"idle", "accept", "link", "accepted", "abc", "find", "step", "invalidate"}]
        /\ arg' \in [Threads -> mapBlockIndex \cup {NoBlock}]
        /\ pindexMostWork' \in [Threads -> mapBlockIndex \cup {NoBlock}]
        /\ \A u \in Threads : pindexMostWork'[u] \in {NoBlock, pindexMostWork[u]}
        /\ pindexOldTip' \in mapBlockIndex \cup {NoBlock}
    BY Zenon, <2>1, <2>2, <1>DisconnectTipKeeps
  <2>4. TypeOK'
    BY Zenon, <2>3, InvParts DEF TypeOK
  <2>5. Received' /\ KnownTree'
    BY Zenon, <2>3, ReceivedFrame, TreeFrame, InvParts
  <2> QED
    BY Zenon, <2>3, <2>4, <2>5 DEF Inv
(* InvalidateBlock marks the tip and disconnects it.                       *)
<1>InvalidateDisconnect. ASSUME NEW t \in Threads, InvalidateDisconnect(t) PROVE Inv'
  <2> USE <1>InvalidateDisconnect
  <2> USE DEF InvalidateDisconnect, indexVars, dataVars, failVars, linkVars, preciousVars, pruneVars
  <2>1. csMain = t /\ node = "running" /\ Tip \in mapBlockIndex
    BY Zenon, Holder, ChainLength, InvParts DEF Locked, TypeOK
  <2>2. Tip # Genesis
    BY Zenon, InvalidateAboveGenesis
  <2>3. /\ chainActive' \in Seq(mapBlockIndex) /\ chainActive' # <<>>
        /\ coinsBest' \in mapBlockIndex /\ nCalls' \in [Call -> Nat]
        /\ ActiveChainLinked' /\ UndoDataAvailable'
        /\ CoinsAtTip' /\ (node' = "running" => coinsBest' = Tip')
        /\ node' \in {"running", "stopping"}
        /\ Locking' /\ csMain' \in Threads \cup {NoThread}
        /\ pc' \in [Threads -> {"idle", "accept", "link", "accepted", "abc", "find", "step", "invalidate"}]
        /\ arg' \in [Threads -> mapBlockIndex \cup {NoBlock}]
        /\ pindexMostWork' \in [Threads -> mapBlockIndex \cup {NoBlock}]
        /\ \A u \in Threads : pindexMostWork'[u] \in {NoBlock, pindexMostWork[u]}
        /\ pindexOldTip' \in mapBlockIndex \cup {NoBlock}
    BY Zenon, <2>1, <2>2, <1>DisconnectTipKeeps
  <2>4. TypeOK'
    BY Zenon, <2>1, <2>3, InvParts DEF TypeOK
  <2>5. Received' /\ KnownTree'
    BY Zenon, <2>3, ReceivedFrame, TreeFrame, InvParts
  <2> QED
    BY Zenon, <2>3, <2>4, <2>5 DEF Inv
(* Without undo data for the tip ActivateBestChain returns.                *)
<1>StepDisconnectFails. ASSUME NEW t \in Threads, StepDisconnectFails(t) PROVE Inv'
  <2> USE <1>StepDisconnectFails
  <2> USE DEF StepDisconnectFails, indexVars, dataVars, failVars, linkVars, preciousVars,
              chainVars, pruneVars
  <2>1. csMain = t
    BY Zenon, Holder, InvParts DEF Locked
  <2>2. /\ Locking' /\ csMain' \in Threads \cup {NoThread}
        /\ pc' \in [Threads -> {"idle", "accept", "link", "accepted", "abc", "find", "step", "invalidate"}]
        /\ arg' \in [Threads -> mapBlockIndex \cup {NoBlock}]
        /\ pindexMostWork' \in [Threads -> mapBlockIndex \cup {NoBlock}]
        /\ \A u \in Threads : pindexMostWork'[u] \in {NoBlock, pindexMostWork[u]}
    BY Zenon, <2>1, ReturnLocals, InvParts
  <2>3. TypeOK'
    BY Zenon, <2>2, InvParts DEF TypeOK
  <2>4. Received' /\ KnownTree' /\ ActiveChainLinked' /\ UndoDataAvailable'
    BY Zenon, <2>2, ReceivedFrame, TreeFrame, ChainFrame, UndoFrame, InvParts
  <2> QED
    BY Zenon, <2>2, <2>3, <2>4, CoinsFrame DEF Inv
(* InvalidateBlock then leaves the tip where it is, marked.                *)
<1>InvalidateDisconnectFails.
  ASSUME NEW t \in Threads, InvalidateDisconnectFails(t) PROVE Inv'
  <2> USE <1>InvalidateDisconnectFails
  <2> USE DEF InvalidateDisconnectFails, indexVars, dataVars, failVars, linkVars, preciousVars,
              chainVars, pruneVars
  <2>1. csMain = t /\ Tip \in mapBlockIndex
    BY Zenon, Holder, ChainLength, InvParts DEF Locked
  <2>2. /\ Locking' /\ csMain' \in Threads \cup {NoThread}
        /\ pc' \in [Threads -> {"idle", "accept", "link", "accepted", "abc", "find", "step", "invalidate"}]
    BY Zenon, <2>1, ReleaseLocking, InvParts
  <2>3. TypeOK'
    BY Zenon, <2>1, <2>2, InvParts DEF TypeOK
  <2>4. Received' /\ KnownTree' /\ ActiveChainLinked' /\ UndoDataAvailable'
    BY Zenon, ReceivedFrame, TreeFrame, ChainFrame, UndoFrame, InvParts
  <2> QED
    BY Zenon, <2>2, <2>3, <2>4, CoinsFrame DEF Inv
(* A step with nothing to connect.                                         *)
<1>StepDone. ASSUME NEW t \in Threads, StepDone(t) PROVE Inv'
  <2> USE <1>StepDone
  <2> USE DEF StepDone, indexVars, dataVars, failVars, linkVars, preciousVars, chainVars, pruneVars
  <2>1. csMain = t
    BY Zenon, Holder, InvParts DEF Locked
  <2>2. /\ Locking' /\ csMain' \in Threads \cup {NoThread}
        /\ pc' \in [Threads -> {"idle", "accept", "link", "accepted", "abc", "find", "step", "invalidate"}]
        /\ arg' \in [Threads -> mapBlockIndex \cup {NoBlock}]
        /\ pindexMostWork' \in [Threads -> mapBlockIndex \cup {NoBlock}]
        /\ \A u \in Threads : pindexMostWork'[u] \in {NoBlock, pindexMostWork[u]}
        /\ pindexOldTip' = NoBlock
    BY Zenon, <2>1, EndStepLocals, InvParts
  <2>3. TypeOK'
    BY Zenon, <2>2, InvParts DEF TypeOK
  <2>4. Received' /\ KnownTree' /\ ActiveChainLinked' /\ UndoDataAvailable'
    BY Zenon, <2>2, ReceivedFrame, TreeFrame, ChainFrame, UndoFrame, InvParts
  <2> QED
    BY Zenon, <2>2, <2>3, <2>4, CoinsFrame DEF Inv
(* An unreadable block aborts the node, chain and coins unchanged.         *)
<1>ConnectTipUnreadable.
  ASSUME NEW t \in Threads, pc[t] = "step", NEW b \in Block, NextToConnect(t, b),
         ConnectTipUnreadable(t, b)
  PROVE  Inv'
  <2> USE <1>ConnectTipUnreadable
  <2> USE DEF ConnectTipUnreadable, indexVars, dataVars, failVars, linkVars, preciousVars,
              chainVars, pruneVars
  <2>1. csMain = t /\ coinsBest = Tip
    BY Zenon, NextReceived
  <2>2. /\ Locking' /\ csMain' \in Threads \cup {NoThread}
        /\ pc' \in [Threads -> {"idle", "accept", "link", "accepted", "abc", "find", "step", "invalidate"}]
        /\ arg' \in [Threads -> mapBlockIndex \cup {NoBlock}]
        /\ pindexMostWork' \in [Threads -> mapBlockIndex \cup {NoBlock}]
        /\ \A u \in Threads : pindexMostWork'[u] \in {NoBlock, pindexMostWork[u]}
        /\ node' = "stopping" /\ pindexOldTip' = NoBlock
    BY Zenon, <2>1, <1>AbortLocals, InvParts
  <2>3. TypeOK'
    BY Zenon, <2>2, InvParts DEF TypeOK
  <2>4. Received' /\ KnownTree' /\ ActiveChainLinked' /\ UndoDataAvailable'
    BY Zenon, <2>2, ReceivedFrame, TreeFrame, ChainFrame, UndoFrame, InvParts
  <2>5. CoinsAtTip'
    BY Zenon, <2>1 DEF CoinsAtTip, Tip
  <2> QED
    BY Zenon, <2>2, <2>3, <2>4, <2>5 DEF Inv
(* An invalid block leaves chain and coins unchanged.                      *)
<1>ConnectTipInvalid.
  ASSUME NEW t \in Threads, pc[t] = "step", NEW b \in Block, NextToConnect(t, b),
         ConnectTipInvalid(t, b)
  PROVE  Inv'
  <2> USE <1>ConnectTipInvalid
  <2> USE DEF ConnectTipInvalid, indexVars, dataVars, failVars, linkVars, preciousVars,
              chainVars, pruneVars
  <2>1. csMain = t /\ b \in mapBlockIndex
    BY Zenon, NextReceived
  <2>2. /\ Locking' /\ csMain' \in Threads \cup {NoThread}
        /\ pc' \in [Threads -> {"idle", "accept", "link", "accepted", "abc", "find", "step", "invalidate"}]
        /\ arg' \in [Threads -> mapBlockIndex \cup {NoBlock}]
        /\ pindexMostWork' \in [Threads -> mapBlockIndex \cup {NoBlock}]
        /\ \A u \in Threads : pindexMostWork'[u] \in {NoBlock, pindexMostWork[u]}
        /\ pindexOldTip' = NoBlock
    BY Zenon, <2>1, EndStepLocals, InvParts
  <2>3. TypeOK'
    <3>1. pindexBestInvalid' \in mapBlockIndex \cup {NoBlock}
      BY Zenon, <2>1, InvParts DEF InvalidChainFound, TypeOK
    <3> QED
      BY Zenon, <2>1, <2>2, <3>1, InvParts DEF TypeOK
  <2>4. Received' /\ KnownTree' /\ ActiveChainLinked' /\ UndoDataAvailable'
    BY Zenon, <2>2, ReceivedFrame, TreeFrame, ChainFrame, UndoFrame, InvParts
  <2> QED
    BY Zenon, <2>2, <2>3, <2>4, CoinsFrame DEF Inv
(* The types of what ConnectBlock writes.                                  *)
<1>ConnectBlockTypes.
  ASSUME TypeOK, NEW b \in mapBlockIndex, ConnectBlock(b)
  PROVE  /\ haveUndo' = haveUndo \cup {b} /\ haveUndo' \subseteq mapBlockIndex
         /\ nValid' \in [Block -> {0, 2, 3, 5}]
         /\ coinsBest' = b /\ UNCHANGED <<haveData, nTx>>
  <2> USE <1>ConnectBlockTypes
  <2>1. RaiseValidity(b, BLOCK_VALID_SCRIPTS) \in {0, 2, 3, 5}
    BY Zenon DEF RaiseValidity, BLOCK_VALID_SCRIPTS, TypeOK
  <2> QED
    BY Zenon, <2>1 DEF ConnectBlock, TypeOK
(* A failed flush leaves the coins one block ahead of the tip.             *)
<1>ConnectTipFlushFails.
  ASSUME NEW t \in Threads, pc[t] = "step", NEW b \in Block, NextToConnect(t, b),
         ConnectTipFlushFails(t, b)
  PROVE  Inv'
  <2> USE <1>ConnectTipFlushFails
  <2> USE DEF ConnectTipFlushFails, indexVars, failVars, linkVars, preciousVars, pruneVars
  <2>1. csMain = t /\ b \in mapBlockIndex \ {Genesis} /\ HashPrev[b] = Tip
    BY Zenon, NextReceived
  <2>2. /\ Locking' /\ csMain' \in Threads \cup {NoThread}
        /\ pc' \in [Threads -> {"idle", "accept", "link", "accepted", "abc", "find", "step", "invalidate"}]
        /\ arg' \in [Threads -> mapBlockIndex \cup {NoBlock}]
        /\ pindexMostWork' \in [Threads -> mapBlockIndex \cup {NoBlock}]
        /\ \A u \in Threads : pindexMostWork'[u] \in {NoBlock, pindexMostWork[u]}
        /\ node' = "stopping" /\ pindexOldTip' = NoBlock
    BY Zenon, <2>1, <1>AbortLocals, InvParts
  <2>3. /\ haveUndo' = haveUndo \cup {b} /\ haveUndo' \subseteq mapBlockIndex
        /\ nValid' \in [Block -> {0, 2, 3, 5}]
        /\ coinsBest' = b /\ UNCHANGED <<haveData, nTx>>
    BY Zenon, <2>1, <1>ConnectBlockTypes, InvParts
  <2>4. TypeOK'
    <3>1. nCalls' \in [Call -> Nat]
      BY Zenon, <1>CountType, InvParts DEF TypeOK, Call
    <3> QED
      BY Zenon, <2>1, <2>2, <2>3, <3>1, InvParts DEF TypeOK
  <2>5. Received' /\ KnownTree' /\ ActiveChainLinked'
    BY Zenon, <2>2, <2>3, ReceivedFrame, TreeFrame, ChainFrame, InvParts
  <2>6. UndoDataAvailable'
    BY Zenon, <2>3, UndoFrame, InvParts
  <2>7. CoinsAtTip'
    BY Zenon, <2>1, <2>2, <2>3 DEF CoinsAtTip, Tip
  <2> QED
    BY Zenon, <2>2, <2>4, <2>5, <2>6, <2>7 DEF Inv
(* A connected block extends the chain and takes the coins along.          *)
<1>ConnectTipConnected.
  ASSUME NEW t \in Threads, pc[t] = "step", NEW b \in Block, NextToConnect(t, b),
         ConnectTipConnected(t, b)
  PROVE  Inv'
  <2> USE <1>ConnectTipConnected
  <2> USE DEF ConnectTipConnected, indexVars, failVars, linkVars, preciousVars, pruneVars
  <2>1. csMain = t /\ b \in mapBlockIndex \ {Genesis} /\ b \in nTx /\ HashPrev[b] = Tip
    BY Zenon, NextReceived
  <2>2. /\ haveUndo' = haveUndo \cup {b} /\ haveUndo' \subseteq mapBlockIndex
        /\ nValid' \in [Block -> {0, 2, 3, 5}]
        /\ coinsBest' = b /\ UNCHANGED <<haveData, nTx>>
    BY Zenon, <2>1, <1>ConnectBlockTypes, InvParts
  <2>3. /\ Locking' /\ csMain' \in Threads \cup {NoThread}
        /\ pc' \in [Threads -> {"idle", "accept", "link", "accepted", "abc", "find", "step", "invalidate"}]
        /\ arg' \in [Threads -> mapBlockIndex \cup {NoBlock}]
        /\ pindexMostWork' \in [Threads -> mapBlockIndex \cup {NoBlock}]
        /\ \A u \in Threads : pindexMostWork'[u] \in {NoBlock, pindexMostWork[u]}
        /\ pindexOldTip' \in mapBlockIndex \cup {NoBlock}
    <3>1. CASE EndStep(t, b, pindexMostWork[t])
      BY Zenon, <2>1, <3>1, EndStepLocals, InvParts
    <3>2. CASE UNCHANGED <<csMain, pc, arg, pindexMostWork, pindexOldTip>>
      BY Zenon, <3>2, InvParts DEF Locking, TypeOK
    <3> QED
      BY Zenon, <3>1, <3>2
  <2>4. /\ chainActive' \in Seq(mapBlockIndex) /\ chainActive' # <<>>
        /\ Tip' = b /\ ActiveChainLinked' /\ UndoDataAvailable'
    BY Zenon, <2>1, <2>2, LongerChain, InvParts
  <2>5. setBlockIndexCandidates' \subseteq setBlockIndexCandidates
    BY Zenon DEF PruneBlockIndexCandidates
  <2>6. TypeOK'
    BY Zenon, <2>1, <2>2, <2>3, <2>4, <2>5, InvParts DEF TypeOK
  <2>7. Received' /\ KnownTree'
    BY Zenon, <2>2, <2>3, <2>5, ReceivedFrame, TreeFrame, InvParts
  <2>8. CoinsAtTip' /\ coinsBest' = Tip'
    BY Zenon, <2>2, <2>4 DEF CoinsAtTip
  <2> QED
    BY Zenon, <2>3, <2>4, <2>6, <2>7, <2>8 DEF Inv
(* PreciousBlock adds only linked blocks to the candidates.                *)
<1>PreciousBlock. ASSUME NEW t \in Threads, NEW b \in Block, PreciousBlock(t, b) PROVE Inv'
  <2> USE <1>PreciousBlock
  <2> USE DEF PreciousBlock, Enter, indexVars, dataVars, failVars, linkVars, preciousVars,
              chainVars, pruneVars
  <2>1. Locking' /\ csMain' \in Threads \cup {NoThread}
        /\ pc' \in [Threads -> {"idle", "accept", "link", "accepted", "abc", "find", "step", "invalidate"}]
    BY Zenon, ReleaseLocking, InvParts
  <2>2. setBlockIndexCandidates' \subseteq setBlockIndexCandidates \cup nChainTx
    BY Zenon DEF PruneBlockIndexCandidates
  <2>3. /\ nSequenceId' \in [Block -> Int] /\ nBlockReverseSequenceId' \in Int
        /\ nLastPreciousChainwork' \in Nat
    <3> DEFINE reverseId == IF nChainWork[Tip] > nLastPreciousChainwork
                            THEN -1 ELSE nBlockReverseSequenceId
    <3>1. /\ nSequenceId \in [Block -> Int] /\ nBlockReverseSequenceId \in Int
          /\ nChainWork[Tip] \in Nat
      BY Zenon, ChainLength, InvParts DEF TypeOK
    <3>2. reverseId \in Int
      BY <3>1
    <3>3. /\ nSequenceId' = [nSequenceId EXCEPT ![b] = reverseId]
          /\ nBlockReverseSequenceId' = reverseId - 1
          /\ nLastPreciousChainwork' = nChainWork[Tip]
      BY Zenon
    <3> HIDE DEF reverseId
    <3>4. reverseId - 1 \in Int
      BY <3>2
    <3> QED
      BY Zenon, <3>1, <3>2, <3>3, <3>4
  <2>4. TypeOK'
    <3>1. nCalls' \in [Call -> Nat]
      BY Zenon, <1>CountType, InvParts DEF TypeOK, Call
    <3> QED
      BY Zenon, <2>1, <2>2, <2>3, <3>1, InvParts DEF TypeOK
  <2>5. Received' /\ KnownTree' /\ ActiveChainLinked' /\ UndoDataAvailable'
    BY Zenon, <2>2, ReceivedFrame, TreeFrame, ChainFrame, UndoFrame, InvParts
  <2> QED
    BY Zenon, <2>1, <2>4, <2>5, CoinsFrame DEF Inv
(* InvalidateBlock marks a block other than the genesis block.             *)
<1>InvalidateBlock. ASSUME NEW t \in Threads, NEW b \in Block, InvalidateBlock(t, b) PROVE Inv'
  <2> USE <1>InvalidateBlock
  <2> USE DEF InvalidateBlock, Enter, indexVars, dataVars, failVars, linkVars, preciousVars,
              chainVars, pruneVars
  <2>1. arg'[t] = b /\ b # NoBlock /\ arg' \in [Threads -> mapBlockIndex \cup {NoBlock}]
    BY Zenon, ChainAssumption, InvParts DEF TypeOK
  <2>2. Locking' /\ csMain' \in Threads \cup {NoThread}
        /\ pc' \in [Threads -> {"idle", "accept", "link", "accepted", "abc", "find", "step", "invalidate"}]
    BY Zenon, <2>1, <1>HoldLocking, InvParts DEF Locked
  <2>3. TypeOK'
    <3>1. nCalls' \in [Call -> Nat]
      BY Zenon, <1>CountType, InvParts DEF TypeOK, Call
    <3> QED
      BY Zenon, <2>1, <2>2, <3>1, InvParts DEF TypeOK
  <2>4. Received' /\ KnownTree' /\ ActiveChainLinked' /\ UndoDataAvailable'
    BY Zenon, ReceivedFrame, TreeFrame, ChainFrame, UndoFrame, InvParts
  <2> QED
    BY Zenon, <2>2, <2>3, <2>4, CoinsFrame DEF Inv
(* The candidates InvalidateBlock restores are linked blocks.              *)
<1>InvalidateFinish. ASSUME NEW t \in Threads, InvalidateFinish(t) PROVE Inv'
  <2> USE <1>InvalidateFinish
  <2> USE DEF InvalidateFinish, indexVars, dataVars, failVars, linkVars, preciousVars,
              chainVars, pruneVars
  <2>1. csMain = t /\ arg[t] \in mapBlockIndex
    BY Zenon, Holder, InvParts DEF Locked, Locking, TypeOK
  <2>2. Locking' /\ csMain' \in Threads \cup {NoThread}
        /\ pc' \in [Threads -> {"idle", "accept", "link", "accepted", "abc", "find", "step", "invalidate"}]
    BY Zenon, <2>1, ReleaseLocking, InvParts
  <2>3. setBlockIndexCandidates' \subseteq setBlockIndexCandidates \cup nChainTx
    BY Zenon
  <2>4. TypeOK'
    <3>1. pindexBestInvalid' \in mapBlockIndex \cup {NoBlock}
      BY Zenon, <2>1, InvParts DEF InvalidChainFound, TypeOK
    <3> QED
      BY Zenon, <2>2, <2>3, <3>1, InvParts DEF TypeOK
  <2>5. Received' /\ KnownTree' /\ ActiveChainLinked' /\ UndoDataAvailable'
    BY Zenon, <2>3, ReceivedFrame, TreeFrame, ChainFrame, UndoFrame, InvParts
  <2> QED
    BY Zenon, <2>2, <2>4, <2>5, CoinsFrame DEF Inv
(* So are those ResetBlockFailureFlags restores.                           *)
<1>ResetBlockFailureFlags.
  ASSUME NEW t \in Threads, NEW b \in Block, ResetBlockFailureFlags(t, b)
  PROVE  Inv'
  <2> USE <1>ResetBlockFailureFlags
  <2> USE DEF ResetBlockFailureFlags, Enter, indexVars, dataVars, linkVars, preciousVars,
              chainVars, pruneVars
  <2>1. Locking' /\ csMain' \in Threads \cup {NoThread}
        /\ pc' \in [Threads -> {"idle", "accept", "link", "accepted", "abc", "find", "step", "invalidate"}]
    BY Zenon, ReleaseLocking, InvParts
  <2>2. /\ setBlockIndexCandidates' \subseteq setBlockIndexCandidates \cup nChainTx
        /\ failedValid' \subseteq failedValid /\ failedChild' \subseteq failedChild
        /\ pindexBestInvalid' \in {NoBlock, pindexBestInvalid}
    BY Zenon
  <2>3. TypeOK'
    <3>1. nCalls' \in [Call -> Nat]
      BY Zenon, <1>CountType, InvParts DEF TypeOK, Call
    <3> QED
      BY Zenon, <2>1, <2>2, <3>1, InvParts DEF TypeOK
  <2>4. Received' /\ KnownTree' /\ ActiveChainLinked' /\ UndoDataAvailable'
    BY Zenon, <2>2, ReceivedFrame, TreeFrame, ChainFrame, UndoFrame, InvParts
  <2> QED
    BY Zenon, <2>1, <2>3, <2>4, CoinsFrame DEF Inv
(* Pruning drops data and undo data of a block together.                   *)
<1>PruneOneBlockFile. ASSUME NEW b \in Block, PruneOneBlockFile(b) PROVE Inv'
  <2> USE <1>PruneOneBlockFile
  <2> USE DEF PruneOneBlockFile, indexVars, failVars, preciousVars, chainVars, threadVars
  <2>1. TypeOK'
    <3>1. nCalls' \in [Call -> Nat]
      BY Zenon, <1>CountType, InvParts DEF TypeOK, Call
    <3> QED
      BY Zenon, <3>1, InvParts DEF TypeOK
  <2>2. Locking'
    BY Zenon, InvParts DEF Locking
  <2>3. Received' /\ KnownTree' /\ ActiveChainLinked'
    BY Zenon, ReceivedFrame, TreeFrame, ChainFrame, InvParts
  <2>4. UndoDataAvailable'
    <3> SUFFICES ASSUME NEW i \in 2..Len(chainActive), chainActive[i] \notin haveUndo'
                 PROVE  fHavePruned' = "yes" /\ Buried(chainActive[i])'
      BY Zenon DEF UndoDataAvailable
    <3>1. i \in 1..Len(chainActive)
      BY Zenon, ChainLength, OneLonger, InvParts
    <3>2. Buried(chainActive[i])
      <4>1. CASE chainActive[i] = b
        <5>1. Contains(b) /\ b \in mapBlockIndex
          BY Zenon, <3>1, <4>1, OnChain, InvParts DEF TypeOK
        <5>2. b \in Ancestors[Tip] /\ Tip \in nTx
          <6>1. Len(chainActive) \in 1..Len(chainActive)
            BY Zenon, ChainLength, OneLonger, InvParts
          <6> QED
            BY Zenon, <5>1, <6>1, ChainIs, OnChain, InvParts DEF Tip
        <5> QED
          BY Zenon, <4>1, <5>2 DEF Buried, FindFilesToPrune
      <4>2. CASE chainActive[i] # b
        BY Zenon, <4>2, InvParts DEF UndoDataAvailable
      <4> QED
        BY Zenon, <4>1, <4>2
    <3>3. UNCHANGED <<nTx, nHeight>>
      BY Zenon
    <3> QED
      BY Zenon, <3>2, <3>3 DEF Buried
  <2> QED
    BY Zenon, <2>1, <2>2, <2>3, <2>4, CoinsFrame DEF Inv
(* A step that changes nothing.                                            *)
<1>Stutter. ASSUME UNCHANGED vars PROVE Inv'
  <2> USE <1>Stutter
  <2> USE DEF vars, indexVars, dataVars, failVars, linkVars, preciousVars, chainVars,
              pruneVars, threadVars
  <2>1. TypeOK'
    BY Zenon, InvParts DEF TypeOK
  <2>2. Locking'
    BY Zenon, InvParts DEF Locking
  <2>3. Received' /\ KnownTree' /\ ActiveChainLinked' /\ UndoDataAvailable'
    BY Zenon, ReceivedFrame, TreeFrame, ChainFrame, UndoFrame, InvParts
  <2> QED
    BY Zenon, <2>1, <2>2, <2>3, CoinsFrame DEF Inv
<1>1. ASSUME NEW t \in Threads, Step(t) PROVE Inv'
  <2>1. CASE \E c \in Block : FindMostWorkChainFound(t, c)
    BY Zenon, <2>1, <1>FindMostWorkChainFound
  <2>2. CASE \E c, bad \in Block : FindMostWorkChainRejected(t, c, bad)
    BY Zenon, <2>2, <1>FindMostWorkChainRejected
  <2>3. CASE \E b \in Block : StepConnect(t, b)
    <3>1. PICK b \in Block : StepConnect(t, b)
      BY Zenon, <2>3
    <3> QED
      BY Zenon, <3>1, <1>ConnectTipUnreadable, <1>ConnectTipInvalid, <1>ConnectTipFlushFails,
         <1>ConnectTipConnected DEF StepConnect
  <2> QED
    BY Zenon, <1>1, <2>1, <2>2, <2>3, <1>AcceptBlockIgnored, <1>AcceptBlockInvalid,
       <1>ReceivedBlockTransactions, <1>LinkBlock, <1>ActivateBestChain,
       <1>FindMostWorkChainNone, <1>StepDisconnect, <1>StepDisconnectFails, <1>StepDone,
       <1>InvalidateDisconnect, <1>InvalidateDisconnectFails, <1>InvalidateFinish DEF Step
<1>2. ASSUME NEW t \in Threads, Start(t) PROVE Inv'
  BY Zenon, <1>2, <1>ProcessNewBlockHeaders, <1>ProcessNewBlock, <1>PreciousBlock,
     <1>InvalidateBlock, <1>ResetBlockFailureFlags DEF Start
<1>3. ASSUME NEW b \in Block, PruneOneBlockFile(b) PROVE Inv'
  BY Zenon, <1>3, <1>PruneOneBlockFile
<1> QED
  BY Zenon, <1>1, <1>2, <1>3, <1>Stutter DEF Next

(* The inductive invariant holds in every reachable state.                 *)
THEOREM Invariance == Spec => []Inv
  BY InitInv, NextInv, PTL DEF Spec

(* Every variable keeps its type; in particular the active chain is never  *)
(* empty and all derived sets stay inside mapBlockIndex.                   *)
THEOREM TypeCorrect == Spec => []TypeOK
<1>1. Inv => TypeOK
  BY Zenon, InvParts
<1> QED
  BY <1>1, Invariance, PTL

(* chainActive is a chain: whatever the order of the headers and blocks,   *)
(* and whatever other threads do while ActivateBestChain has given         *)
(* cs_main up, it leads from the genesis block over parent links through   *)
(* received blocks, every block at its height.                             *)
THEOREM ChainLinked == Spec => []ActiveChainLinked
<1>1. Inv => ActiveChainLinked
  BY Zenon, InvParts
<1> QED
  BY <1>1, Invariance, PTL

(* DisconnectTip finds undo data for every block of the active chain, but  *)
(* for blocks that were pruned with MIN_BLOCKS_TO_KEEP more on top: with   *)
(* any blocks stored again, any reorganizations and any calls meanwhile.   *)
THEOREM UndoAvailable == Spec => []UndoDataAvailable
<1>1. Inv => UndoDataAvailable
  BY Zenon, InvParts
<1> QED
  BY <1>1, Invariance, PTL

(* pcoinsTip stands at the active tip, or one block off it after a failed  *)
(* flush in ConnectTip or DisconnectTip has stopped the node.              *)
THEOREM CoinsFollowTip == Spec => []CoinsAtTip
<1>1. Inv => CoinsAtTip
  BY Zenon, InvParts
<1> QED
  BY <1>1, Invariance, PTL

-----------------------------------------------------------------------------
(* How blocks get linked while nothing is pruned.                          *)

(* The blocks in the queue of ReceivedBlockTransactions.                   *)
QueueSet == {queue[i] : i \in 1..Len(queue)}

(* The work of a block is that of its parent and its own.                  *)
WorkAdds ==
  \A b \in mapBlockIndex \ {Genesis} :
    nChainWork[b] = nChainWork[HashPrev[b]] + Proof[b]

(* The status bits of a block say what was stored of it.                   *)
Stored ==
  /\ haveData = nTx /\ haveUndo \subseteq nTx
  /\ \A b \in mapBlockIndex : nValid[b] \in {2, 3, 5} /\ (b \in nTx <=> nValid[b] \in {3, 5})
  /\ \A b \in Block \ mapBlockIndex : nValid[b] = 0
  /\ \A t \in Threads : pc[t] = "accept" => arg[t] \in nTx \/ ~Failed(arg[t])

(* The linked blocks are closed under pprev; candidates, targets and the   *)
(* active chain are linked, blocks in mapBlocksUnlinked and their parents  *)
(* are not.                                                                *)
Linked ==
  /\ PrevClosed(nChainTx)
  /\ setBlockIndexCandidates \subseteq nChainTx /\ Tip \in nChainTx
  /\ \A t \in Threads : pindexMostWork[t] \in nChainTx \cup {NoBlock}
  /\ \A c \in mapBlocksUnlinked : c \notin nChainTx /\ HashPrev[c] \notin nChainTx

(* A block is in line once, and next to the linked ones.                   *)
InLine ==
  /\ \A i, j \in 1..Len(queue) : queue[i] = queue[j] => i = j
  /\ \A c \in QueueSet : /\ c \notin nChainTx \cup mapBlocksUnlinked \cup {Genesis}
                         /\ HashPrev[c] \in nChainTx
  /\ (\A t \in Threads : pc[t] # "link") => queue = <<>>

(* Blocks get positive sequence numbers when they are linked; preciousblock *)
(* gives out negative ones.                                                *)
Sequenced ==
  /\ \A b \in mapBlockIndex \ nChainTx : nSequenceId[b] <= 0
  /\ nBlockReverseSequenceId <= -1

LinkOK == WorkAdds /\ Stored /\ Linked /\ InLine /\ Sequenced

(* No candidate is worse than the tip.                                     *)
NoneWorse == \A c \in setBlockIndexCandidates : ~Worse(c, Tip)

(* preciousblock is not called for a tip that is known to be invalid.      *)
PreciousTipsValid ==
  [][\A t \in Threads : PreciousBlock(t, Tip) => ~Failed(Tip)]_vars

(* What they say, for proofs that need not expand them.                    *)
LEMMA LinkParts ==
  ASSUME LinkOK PROVE WorkAdds /\ Stored /\ Linked /\ InLine /\ Sequenced
  BY Zenon DEF LinkOK

(* The start: the genesis block is linked.                                 *)
LEMMA InitLinks == Init => LinkOK
<1> SUFFICES ASSUME Init PROVE LinkOK
  BY Zenon
<1>1. WorkAdds
  BY Zenon DEF Init, WorkAdds
<1>2. Stored
  <2>1. \A b \in Block : nValid[b] = IF b = Genesis THEN 3 ELSE 0
    BY Zenon DEF Init, BLOCK_VALID_TRANSACTIONS
  <2> QED
    BY Zenon, <2>1, ChainAssumption DEF Init, Stored
<1>3. Linked
  <2>1. Tip = Genesis
    BY DEF Init, Tip
  <2> QED
    BY Zenon, <2>1 DEF Init, Linked, PrevClosed
<1>4. InLine
  <2>1. Len(queue) = 0 /\ queue = <<>>
    BY DEF Init
  <2>2. 1..0 = {}
    OBVIOUS
  <2> QED
    BY Zenon, <2>1, <2>2 DEF InLine, QueueSet
<1>5. Sequenced
  BY ChainAssumption DEF Init, Sequenced
<1> QED
  BY Zenon, <1>1, <1>2, <1>3, <1>4, <1>5 DEF LinkOK

(* A candidate is only rejected for a failed block: no data is missing.    *)
(* Without pruning FindMostWorkChain rejects a candidate only for a failure. *)
LEMMA RejectedFailed ==
  ASSUME Inv, LinkOK, NEW t \in Threads, NEW c \in Block, NEW bad \in Block,
         FindMostWorkChainRejected(t, c, bad)
  PROVE  Failed(bad)
<1>1. Ancestors[c] \subseteq haveData
  BY Zenon, InvParts, LinkParts DEF FindMostWorkChainRejected, Received, AllProcessed, Stored
<1> QED
  BY Zenon, <1>1 DEF FindMostWorkChainRejected, Blocking

(* DisconnectTip moves the tip to its parent or leaves it; the node runs   *)
(* on only in the first case.                                              *)
LEMMA Disconnected ==
  ASSUME Inv, LinkOK, NEW t \in Threads, csMain = t, Tip # Genesis, DisconnectTip(t),
         UNCHANGED <<nHeight, nTx, haveUndo, fHavePruned>>
  PROVE  /\ Tip' \in nChainTx
         /\ \A u \in Threads : pindexMostWork'[u] \in {NoBlock, pindexMostWork[u]}
         /\ csMain' = NoThread \/ (csMain' = t /\ pc' = pc)
         /\ node' = "running" =>
              /\ Tip' = HashPrev[Tip]
              /\ chainActive' = SubSeq(chainActive, 1, Len(chainActive) - 1)
              /\ UNCHANGED <<node, csMain, pc, arg, pindexMostWork, pindexOldTip>>
<1>1. Tip \in nChainTx /\ HashPrev[Tip] \in nChainTx
  BY Zenon, LinkParts DEF Linked, PrevClosed
<1>2. CASE AbortNode(t) /\ UNCHANGED chainActive
  <2>1. Tip' = Tip /\ node' # "running" /\ csMain' = NoThread /\ Return(t)
    BY Zenon, <1>2 DEF Tip, AbortNode, Return, Release
  <2> QED
    BY Zenon, <1>1, <2>1, ReturnLocals, InvParts
<1>3. CASE /\ chainActive' = SubSeq(chainActive, 1, Len(chainActive) - 1)
           /\ UNCHANGED <<node, csMain, pc, arg, pindexMostWork, pindexOldTip>>
  <2>1. Tip' = HashPrev[Tip]
    BY Zenon, <1>3, ShorterChain, InvParts
  <2> QED
    BY Zenon, <1>1, <1>3, <2>1
<1> QED
  BY Zenon, <1>2, <1>3 DEF DisconnectTip, chainVars

(* DisconnectTip leaves the tip where it is or moves it to its parent.     *)
LEMMA TipMoves ==
  ASSUME Inv, LinkOK, NEW t \in Threads, csMain = t, Tip # Genesis, DisconnectTip(t),
         UNCHANGED <<nHeight, nTx, haveUndo, fHavePruned>>
  PROVE  Tip' \in {Tip, HashPrev[Tip]}
<1>1. CASE AbortNode(t) /\ UNCHANGED chainActive
  BY Zenon, <1>1 DEF Tip
<1>2. CASE chainActive' = SubSeq(chainActive, 1, Len(chainActive) - 1)
  BY Zenon, <1>2, ShorterChain, InvParts
<1> QED
  BY Zenon, <1>1, <1>2 DEF DisconnectTip, chainVars

(* The validity ConnectBlock gives a block that was received.              *)
LEMMA Raised ==
  ASSUME Inv, LinkOK, NEW b \in nTx, ConnectBlock(b)
  PROVE  /\ \A c \in Block : nValid'[c] = nValid[c] \/ (c \in nTx /\ nValid'[c] = 5)
         /\ ~Failed(b) => nValid'[b] = 5
         /\ \A c \in Block \ {b} : nValid'[c] = nValid[c]
<1>1. b \in Block /\ nValid[b] \in {3, 5} /\ nValid \in [Block -> {0, 2, 3, 5}]
  BY Zenon, LinkParts, InvParts DEF Stored, TypeOK
<1>2. nValid' = [nValid EXCEPT ![b] = RaiseValidity(b, 5)]
  BY Zenon DEF ConnectBlock, BLOCK_VALID_SCRIPTS
<1>3. RaiseValidity(b, 5) \in {nValid[b], 5}
  BY Zenon DEF RaiseValidity
<1>4. 3 < 5
  OBVIOUS
<1>5. ~Failed(b) => RaiseValidity(b, 5) = 5
  BY Zenon, <1>1, <1>4 DEF RaiseValidity
<1> QED
  BY Zenon, <1>1, <1>2, <1>3, <1>5

(* The tip after ConnectTip.                                               *)
LEMMA ConnectedTip ==
  ASSUME Inv, NEW t \in Threads, NEW b \in mapBlockIndex \ {Genesis}, HashPrev[b] = Tip,
         b \in nTx, ConnectTipConnected(t, b)
  PROVE  Tip' = b
<1>1. /\ chainActive' = Append(chainActive, b) /\ haveUndo' = haveUndo \cup {b}
      /\ UNCHANGED <<nHeight, nTx, fHavePruned>>
  BY Zenon DEF ConnectTipConnected, ConnectBlock, indexVars, pruneVars
<1> QED
  BY Zenon, <1>1, LongerChain, InvParts

(* Connecting a block links nothing: what is on the way to a target is     *)
(* linked already.                                                         *)
(* The block to connect next is linked, as its target is.                  *)
LEMMA NextIsLinked ==
  ASSUME Inv, LinkOK, NEW t \in Threads, NEW b \in Block, pc[t] = "step", NextToConnect(t, b)
  PROVE  b \in nChainTx
<1>1. pindexMostWork[t] \in nChainTx
  BY Zenon, LinkParts, InvParts DEF Linked, Locking
<1>2. Ancestors[pindexMostWork[t]] \subseteq nChainTx
  BY Zenon, <1>1, AncestorsLeast, LinkParts, InvParts DEF Linked, TypeOK
<1> QED
  BY Zenon, <1>2 DEF NextToConnect

(* preciousblock gives a negative sequence number.                         *)
LEMMA ReverseId ==
  ASSUME Inv, LinkOK
  PROVE  LET reverseId == IF nChainWork[Tip] > nLastPreciousChainwork
                          THEN -1 ELSE nBlockReverseSequenceId
         IN  reverseId \in Int /\ reverseId <= 0 /\ reverseId - 1 <= -1
<1>1. nBlockReverseSequenceId \in Int /\ nBlockReverseSequenceId <= -1
  BY Zenon, InvParts, LinkParts DEF TypeOK, Sequenced
<1> QED
  BY <1>1

(* A block AcceptBlock stores: its header is known and valid, and it was   *)
(* not stored before.                                                      *)
LEMMA StoredBlock ==
  ASSUME Inv, LinkOK, NEW t \in Threads, ReceivedBlockTransactions(t)
  PROVE  LET b == arg[t] IN
         /\ csMain = t /\ b \in mapBlockIndex \ {Genesis} /\ b \notin nTx /\ ~Failed(b)
         /\ b \notin nChainTx /\ b \notin mapBlocksUnlinked /\ UNCHANGED nChainTx
         /\ HashPrev[b] \in mapBlockIndex
         /\ nValid'[b] = 3 /\ \A c \in Block \ {b} : nValid'[c] = nValid[c]
         /\ queue = <<>> /\ \A u \in Threads : pc[u] # "link" /\ pc'[u] # "accept"
<1> DEFINE b == arg[t]
<1>1. csMain = t /\ pc[t] # "link"
  BY Zenon, Holder, InvParts DEF ReceivedBlockTransactions, Locked
<1>3. b \notin nTx
  BY Zenon, LinkParts DEF ReceivedBlockTransactions, NotProcessed, Stored
<1>2. b \in mapBlockIndex /\ b # Genesis /\ b \in Block
  <2>1. 1 \in 1..Len(chainActive)
    BY Zenon, ChainLength, OneLonger, InvParts
  <2>2. Genesis \in nTx
    BY Zenon, <2>1, InvParts DEF ActiveChainLinked
  <2> QED
    BY Zenon, <1>3, <2>2, InvParts DEF ReceivedBlockTransactions, TypeOK, Locking
<1>4. ~Failed(b) /\ nValid[b] = 2
  BY Zenon, <1>2, <1>3, LinkParts DEF ReceivedBlockTransactions, Stored
<1>5. b \notin nChainTx /\ b \notin mapBlocksUnlinked
  BY Zenon, <1>2, <1>3, SelfAncestor, InvParts DEF Received, AllProcessed
<1>6. UNCHANGED nChainTx
  <2>1. nChainTx' = nChainTx \ {b}
    BY Zenon DEF ReceivedBlockTransactions
  <2> QED
    BY Zenon, <1>5, <2>1
<1>7. nValid' = [nValid EXCEPT ![b] = RaiseValidity(b, 3)]
  BY Zenon DEF ReceivedBlockTransactions, BLOCK_VALID_TRANSACTIONS
<1>8. RaiseValidity(b, 3) = 3
  <2>1. 2 < 3
    OBVIOUS
  <2> QED
    BY Zenon, <1>4, <2>1 DEF RaiseValidity
<1>9. nValid'[b] = 3 /\ \A c \in Block \ {b} : nValid'[c] = nValid[c]
  BY Zenon, <1>2, <1>7, <1>8, InvParts DEF TypeOK
<1>10. \A u \in Threads : pc[u] # "link" /\ pc'[u] # "accept"
  <2>1. \A u \in Threads \ {t} : pc[u] \notin Locked
    BY Zenon, Holder, InvParts DEF ReceivedBlockTransactions, Locked
  <2>2. \A u \in Threads : u # t => pc'[u] = pc[u]
    BY Zenon, InvParts DEF ReceivedBlockTransactions, Hold, Release, TypeOK
  <2>3. pc'[t] # "accept"
    BY Zenon, InvParts DEF ReceivedBlockTransactions, Hold, Release, TypeOK
  <2> QED
    BY Zenon, <1>1, <2>1, <2>2, <2>3 DEF Locked
<1>11. queue = <<>>
  BY Zenon, <1>10, LinkParts DEF InLine
<1>12. HashPrev[b] \in mapBlockIndex
  BY Zenon, <1>2, InvParts DEF KnownTree, PrevClosed
<1> QED
  BY Zenon, <1>1, <1>2, <1>3, <1>4, <1>5, <1>6, <1>9, <1>10, <1>11, <1>12

(* One round of the queue: its head goes, what waited for it comes.        *)
LEMMA QueueTurn ==
  ASSUME Inv, LinkOK, queue # <<>>, NEW s \in Orders(Waiting(Head(queue)))
  PROVE  LET b == Head(queue)
             q == Tail(queue) \o s
         IN  /\ b \in QueueSet
             /\ {q[i] : i \in 1..Len(q)} = (QueueSet \ {b}) \cup Waiting(b)
             /\ \A i, j \in 1..Len(q) : q[i] = q[j] => i = j
<1> DEFINE b == Head(queue)
           W == Waiting(b)
           r == Tail(queue)
           q == r \o s
           n == Len(r)
           m == Len(s)
<1>1. queue \in Seq(mapBlockIndex) /\ queue \in Seq(Block)
  BY Zenon, SeqMonotonic, InvParts DEF TypeOK
<1>2. /\ r \in Seq(Block) /\ n = Len(queue) - 1 /\ b = queue[1]
      /\ \A i \in 1..n : r[i] = queue[i + 1]
  BY Zenon, <1>1, HeadAndTail
<1>3. Len(queue) \in Nat /\ Len(queue) > 0
  BY Zenon, <1>1, SeqIsFunction
<1>4. /\ n \in Nat /\ Len(queue) = n + 1 /\ 1 \in 1..Len(queue)
      /\ \A i \in 1..n : i + 1 \in 1..Len(queue) /\ i + 1 # 1
      /\ \A i \in 1..Len(queue) : i # 1 => i - 1 \in 1..n /\ (i - 1) + 1 = i
      /\ \A i, j \in 1..n : i + 1 = j + 1 => i = j
  BY <1>2, <1>3
<1>5. W \subseteq mapBlocksUnlinked /\ W \subseteq Block /\ Cardinality(W) \in Nat
  <2>1. W \subseteq mapBlocksUnlinked /\ mapBlocksUnlinked \subseteq Block
    BY Zenon, InvParts DEF Waiting, TypeOK
  <2> QED
    BY Zenon, <2>1, ChainAssumption
<1>6. /\ s \in [1..Cardinality(W) -> W]
      /\ \A c \in W : \E i \in 1..Cardinality(W) : s[i] = c
      /\ \A i, j \in 1..Cardinality(W) : s[i] = s[j] => i = j
  <2>1. s \in [1..Cardinality(W) -> W]
    BY Zenon DEF Orders
  <2>2. DOMAIN s = 1..Cardinality(W)
    BY Zenon, <2>1
  <2> QED
    BY Zenon, <2>1, <2>2 DEF Orders
<1>7. s \in Seq(W) /\ s \in Seq(Block) /\ m = Cardinality(W) /\ m \in Nat
  <2>1. s \in Seq(W) /\ m = Cardinality(W)
    BY Zenon, <1>5, <1>6, FunctionIsSeq
  <2> QED
    BY Zenon, <1>5, <2>1, SeqMonotonic
<1>8. /\ Len(q) = n + m
      /\ \A i \in 1..n + m : q[i] = IF i <= n THEN r[i] ELSE s[i - n]
  BY Zenon, <1>2, <1>7, Concatenated
<1> HIDE DEF q, r, n, m, W, b
<1>9. /\ \A i \in 1..n + m : IF i <= n THEN i \in 1..n ELSE i - n \in 1..m
      /\ \A i \in 1..n : i \in 1..n + m /\ i <= n
      /\ \A i \in 1..m : i + n \in 1..n + m /\ ~(i + n <= n) /\ (i + n) - n = i
      /\ \A i, j \in 1..n + m : i - n = j - n => i = j
  BY <1>4, <1>7
<1>10. b \in QueueSet
  BY Zenon, <1>2, <1>4 DEF QueueSet
<1>11. \A i \in 1..n : r[i] \in QueueSet \ {b}
  <2> SUFFICES ASSUME NEW i \in 1..n PROVE r[i] \in QueueSet \ {b}
    BY Zenon
  <2>1. i + 1 \in 1..Len(queue) /\ i + 1 # 1 /\ r[i] = queue[i + 1]
    BY Zenon, <1>2, <1>4
  <2>2. queue[i + 1] # queue[1]
    BY Zenon, <1>4, <2>1, LinkParts DEF InLine
  <2> QED
    BY Zenon, <1>2, <2>1, <2>2 DEF QueueSet
<1>12. \A c \in QueueSet \ {b} : \E i \in 1..n : r[i] = c
  <2> SUFFICES ASSUME NEW c \in QueueSet \ {b} PROVE \E i \in 1..n : r[i] = c
    BY Zenon
  <2>1. PICK i \in 1..Len(queue) : queue[i] = c
    BY Zenon DEF QueueSet
  <2>2. i # 1
    BY Zenon, <1>2, <2>1
  <2>3. i - 1 \in 1..n /\ (i - 1) + 1 = i
    BY <1>4, <2>1, <2>2
  <2>4. r[i - 1] = queue[(i - 1) + 1]
    BY Zenon, <1>2, <2>3
  <2> QED
    BY Zenon, <2>1, <2>3, <2>4
<1>13. \A i \in 1..n, j \in 1..m : r[i] # s[j]
  BY Zenon, <1>5, <1>6, <1>7, <1>11, LinkParts DEF InLine
<1>14. \A i \in 1..n + m : q[i] \in (QueueSet \ {b}) \cup W
  BY Zenon, <1>6, <1>7, <1>8, <1>9, <1>11
<1>15. \A c \in (QueueSet \ {b}) \cup W : \E i \in 1..n + m : q[i] = c
  <2> SUFFICES ASSUME NEW c \in (QueueSet \ {b}) \cup W PROVE \E i \in 1..n + m : q[i] = c
    BY Zenon
  <2>1. CASE c \in QueueSet \ {b}
    BY Zenon, <1>8, <1>9, <1>12, <2>1
  <2>2. CASE c \in W
    <3>1. PICK i \in 1..m : s[i] = c
      BY Zenon, <1>6, <1>7, <2>2
    <3>2. i + n \in 1..n + m /\ q[i + n] = s[i]
      BY Zenon, <1>8, <1>9
    <3> QED
      BY Zenon, <3>1, <3>2
  <2> QED
    BY Zenon, <2>1, <2>2
<1>16. \A i, j \in 1..n + m : q[i] = q[j] => i = j
  <2> SUFFICES ASSUME NEW i \in 1..n + m, NEW j \in 1..n + m, q[i] = q[j] PROVE i = j
    BY Zenon
  <2>1. CASE i <= n /\ j <= n
    <3>1. i \in 1..n /\ j \in 1..n /\ r[i] = r[j]
      BY Zenon, <1>8, <1>9, <2>1
    <3>2. i + 1 \in 1..Len(queue) /\ j + 1 \in 1..Len(queue) /\ queue[i + 1] = queue[j + 1]
      BY Zenon, <1>2, <1>4, <3>1
    <3>3. i + 1 = j + 1
      BY Zenon, <3>2, LinkParts DEF InLine
    <3> QED
      BY Zenon, <1>4, <3>1, <3>3
  <2>2. CASE ~(i <= n) /\ ~(j <= n)
    <3>1. i - n \in 1..m /\ j - n \in 1..m /\ s[i - n] = s[j - n]
      BY Zenon, <1>8, <1>9, <2>2
    <3>2. i - n = j - n
      BY Zenon, <1>6, <1>7, <3>1
    <3> QED
      BY Zenon, <1>9, <3>2
  <2>3. CASE i <= n /\ ~(j <= n)
    <3>1. i \in 1..n /\ j - n \in 1..m /\ q[i] = r[i] /\ q[j] = s[j - n]
      BY Zenon, <1>8, <1>9, <2>3
    <3> QED
      BY Zenon, <1>13, <3>1
  <2>4. CASE ~(i <= n) /\ j <= n
    <3>1. j \in 1..n /\ i - n \in 1..m /\ q[j] = r[j] /\ q[i] = s[i - n]
      BY Zenon, <1>8, <1>9, <2>4
    <3> QED
      BY Zenon, <1>13, <3>1
  <2> QED
    BY Zenon, <2>1, <2>2, <2>3, <2>4
<1>17. {q[i] : i \in 1..Len(q)} = (QueueSet \ {b}) \cup W
  BY Zenon, <1>8, <1>14, <1>15
<1> QED
  BY Zenon, <1>8, <1>10, <1>16, <1>17 DEF q, r, W, b

(* What LinkBlock does to the sets it works on.                            *)
LEMMA LinkTurn ==
  ASSUME Inv, LinkOK, NEW t \in Threads, LinkBlock(t)
  PROVE  LET b == Head(queue) IN
         /\ csMain = t /\ node = "running"
         /\ b \in mapBlockIndex \ {Genesis} /\ b \in nTx /\ b \notin nChainTx
         /\ b \notin setBlockIndexCandidates /\ HashPrev[b] \in nChainTx
         /\ b \in QueueSet /\ QueueSet' = (QueueSet \ {b}) \cup Waiting(b)
         /\ \A i, j \in 1..Len(queue') : queue'[i] = queue'[j] => i = j
         /\ \A u \in Threads \ {t} : pc[u] \notin Locked /\ pc'[u] = pc[u]
         /\ IF queue' = <<>> THEN pc'[t] = "accepted" ELSE pc'[t] = "link"
<1> DEFINE b == Head(queue)
<1>1. /\ csMain = t /\ node = "running" /\ queue # <<>>
      /\ \A u \in Threads \ {t} : pc[u] \notin Locked
  BY Zenon, Holder, InvParts DEF LinkBlock, Locked, TypeOK, Locking
<1>2. PICK s \in Orders(Waiting(b)) : queue' = Tail(queue) \o s
  BY Zenon DEF LinkBlock
<1>3. /\ b \in QueueSet
      /\ {queue'[i] : i \in 1..Len(queue')} = (QueueSet \ {b}) \cup Waiting(b)
      /\ \A i, j \in 1..Len(queue') : queue'[i] = queue'[j] => i = j
  BY Zenon, <1>1, <1>2, QueueTurn
<1>4. b \notin nChainTx /\ b # Genesis /\ HashPrev[b] \in nChainTx
  BY Zenon, <1>3, LinkParts DEF InLine
<1>5. b \notin setBlockIndexCandidates
  BY Zenon, <1>4, LinkParts DEF Linked
<1>6. b \in mapBlockIndex /\ b \in nTx
  <2>1. \A i \in 1..Len(queue) : queue[i] \in mapBlockIndex /\ AllProcessed(queue[i])
    BY Zenon, SeqIsFunction, InvParts DEF TypeOK, Received
  <2>2. b \in Block /\ b \in mapBlockIndex /\ AllProcessed(b)
    BY Zenon, <1>3, <2>1, InvParts DEF QueueSet, TypeOK
  <2> QED
    BY Zenon, <2>2, SelfAncestor DEF AllProcessed
<1>7. \A u \in Threads \ {t} : pc'[u] = pc[u]
  BY Zenon, InvParts DEF LinkBlock, Release, Hold, TypeOK
<1>8. IF queue' = <<>> THEN pc'[t] = "accepted" ELSE pc'[t] = "link"
  BY Zenon, InvParts DEF LinkBlock, Release, Hold, TypeOK
<1> QED
  BY Zenon, <1>1, <1>3, <1>4, <1>5, <1>6, <1>7, <1>8 DEF QueueSet

(* No call that may not be made is made.                                   *)
LEMMA NeverCalled ==
  ASSUME Inv, NEW c \in Call, MaxCalls[c] = 0 PROVE ~Count(c)
<1>1. nCalls[c] \in Nat
  BY Zenon, InvParts DEF TypeOK
<1>2. ~(nCalls[c] < 0)
  BY <1>1
<1> QED
  BY Zenon, <1>2 DEF Count

(* With no call of pruneblockchain allowed, no file is pruned.             *)
LEMMA NeverPruned ==
  ASSUME MaxCalls["prune"] = 0, Inv, NEW b \in Block PROVE ~PruneOneBlockFile(b)
  BY Zenon, NeverCalled DEF PruneOneBlockFile, Call

(* Without pruning every step keeps how blocks are linked.                 *)
LEMMA NextLinks ==
  ASSUME MaxCalls["prune"] = 0, Inv, Inv', LinkOK PROVE [Next]_vars => LinkOK'
(* No thread is in the queue of ReceivedBlockTransactions before, or in    *)
(* AcceptBlock after, a step of another section.                           *)
<1>Quiet.
  ASSUME NEW t \in Threads, csMain \in {t, NoThread}, pc[t] # "link",
         csMain' = NoThread \/ (csMain' = t /\ pc'[t] # "accept")
  PROVE  \A u \in Threads : pc[u] # "link" /\ pc'[u] # "accept"
  <2> USE <1>Quiet
  <2>1. \A u \in Threads : pc[u] # "link"
    BY Zenon, ChainAssumption, InvParts DEF Locking, Locked
  <2>2. \A u \in Threads : pc'[u] # "accept"
    BY Zenon, ChainAssumption DEF Inv, Locking, Locked
  <2> QED
    BY Zenon, <2>1, <2>2
(* LinkOK is kept when nothing is stored, linked or put in line.           *)
<1>LinkFrame.
  ASSUME UNCHANGED <<mapBlockIndex, nChainWork, haveData, nTx, nChainTx, queue>>,
         haveUndo' \subseteq haveUndo \cup nTx,
         \A b \in Block : nValid'[b] = nValid[b] \/ (b \in nTx /\ nValid'[b] = 5),
         Tip' \in nChainTx,
         setBlockIndexCandidates' \subseteq setBlockIndexCandidates \cup nChainTx,
         mapBlocksUnlinked' \subseteq mapBlocksUnlinked,
         \A u \in Threads : pindexMostWork'[u] \in
            {NoBlock, pindexMostWork[u]} \cup setBlockIndexCandidates,
         \A b \in mapBlockIndex \ nChainTx : nSequenceId'[b] <= 0, nBlockReverseSequenceId' <= -1,
         \A u \in Threads : pc[u] # "link" /\ pc'[u] # "accept"
  PROVE  LinkOK'
  <2> USE <1>LinkFrame
  <2>1. WorkAdds'
    BY Zenon, LinkParts DEF WorkAdds
  <2>2. Stored'
    BY Zenon, LinkParts, InvParts DEF Stored, TypeOK
  <2>3. Linked'
    BY Zenon, LinkParts DEF Linked, PrevClosed
  <2>4. queue = <<>> /\ queue' = <<>>
    BY Zenon, LinkParts DEF InLine
  <2>5. InLine'
    <3>1. Len(queue') = 0
      BY <2>4
    <3>2. 1..0 = {}
      OBVIOUS
    <3> QED
      BY Zenon, <2>4, <3>1, <3>2 DEF InLine, QueueSet
  <2>6. Sequenced'
    BY Zenon, LinkParts DEF Sequenced
  <2> QED
    BY Zenon, <2>1, <2>2, <2>3, <2>5, <2>6 DEF LinkOK
(* AcceptBlock links nothing when it ignores or rejects a block.           *)
<1>AcceptBlockIgnored. ASSUME NEW t \in Threads, AcceptBlockIgnored(t) PROVE LinkOK'
  <2> USE <1>AcceptBlockIgnored
  <2> USE DEF AcceptBlockIgnored, indexVars, dataVars, failVars, linkVars, preciousVars,
              chainVars, pruneVars
  <2>1. \A u \in Threads : pc[u] # "link" /\ pc'[u] # "accept"
    <3>1. csMain = t /\ csMain' = NoThread /\ pc[t] # "link"
      BY Zenon, Holder, InvParts DEF Locked, Release
    <3> QED
      BY Zenon, <3>1, <1>Quiet
  <2>2. Tip' \in nChainTx
    BY Zenon, LinkParts DEF Linked, Tip
  <2> QED
    BY Zenon, <2>1, <2>2, <1>LinkFrame, LinkParts DEF Sequenced
<1>AcceptBlockInvalid. ASSUME NEW t \in Threads, AcceptBlockInvalid(t) PROVE LinkOK'
  <2> USE <1>AcceptBlockInvalid
  <2> USE DEF AcceptBlockInvalid, indexVars, dataVars, failVars, linkVars, preciousVars,
              chainVars, pruneVars
  <2>1. csMain = t /\ csMain' = NoThread /\ pc[t] # "link"
    BY Zenon, Holder, InvParts DEF Locked, Return, Release
  <2>2. \A u \in Threads : pc[u] # "link" /\ pc'[u] # "accept"
    BY Zenon, <2>1, <1>Quiet
  <2>3. \A u \in Threads : pindexMostWork'[u] \in {NoBlock, pindexMostWork[u]}
    BY Zenon, <2>1, ReturnLocals, InvParts
  <2>4. Tip' \in nChainTx
    BY Zenon, LinkParts DEF Linked, Tip
  <2> QED
    BY Zenon, <2>2, <2>3, <2>4, <1>LinkFrame, LinkParts DEF Sequenced
(* Nor does ActivateBestChain, whatever it decides.                        *)
<1>ActivateBestChain. ASSUME NEW t \in Threads, ActivateBestChain(t) PROVE LinkOK'
  <2> USE <1>ActivateBestChain
  <2> USE DEF ActivateBestChain, indexVars, dataVars, failVars, linkVars, preciousVars,
              chainVars, pruneVars
  <2>1. csMain = NoThread /\ pc[t] # "link"
    BY Zenon
  <2>2. csMain' = NoThread \/ (csMain' = t /\ pc'[t] # "accept")
    BY Zenon, InvParts DEF Return, Release, Hold, TypeOK
  <2>3. \A u \in Threads : pc[u] # "link" /\ pc'[u] # "accept"
    BY Zenon, <2>1, <2>2, <1>Quiet
  <2>4. \A u \in Threads : pindexMostWork'[u] \in {NoBlock, pindexMostWork[u]}
    BY Zenon, <2>1, ReturnLocals, InvParts
  <2>5. Tip' \in nChainTx
    BY Zenon, LinkParts DEF Linked, Tip
  <2> QED
    BY Zenon, <2>3, <2>4, <2>5, <1>LinkFrame, LinkParts DEF Sequenced
<1>FindMostWorkChainNone. ASSUME NEW t \in Threads, FindMostWorkChainNone(t) PROVE LinkOK'
  <2> USE <1>FindMostWorkChainNone
  <2> USE DEF FindMostWorkChainNone, indexVars, dataVars, failVars, linkVars, preciousVars,
              chainVars, pruneVars
  <2>1. csMain = t /\ csMain' = NoThread /\ pc[t] # "link"
    BY Zenon, Holder, InvParts DEF Locked, Return, Release
  <2>2. \A u \in Threads : pc[u] # "link" /\ pc'[u] # "accept"
    BY Zenon, <2>1, <1>Quiet
  <2>3. \A u \in Threads : pindexMostWork'[u] \in {NoBlock, pindexMostWork[u]}
    BY Zenon, <2>1, ReturnLocals, InvParts
  <2>4. Tip' \in nChainTx
    BY Zenon, LinkParts DEF Linked, Tip
  <2> QED
    BY Zenon, <2>2, <2>3, <2>4, <1>LinkFrame, LinkParts DEF Sequenced
<1>FindMostWorkChainFound.
  ASSUME NEW t \in Threads, NEW c \in Block, FindMostWorkChainFound(t, c)
  PROVE  LinkOK'
  <2> USE <1>FindMostWorkChainFound
  <2> USE DEF FindMostWorkChainFound, indexVars, dataVars, failVars, linkVars, preciousVars,
              chainVars, pruneVars
  <2>1. csMain = t /\ pc[t] # "link"
    BY Zenon, Holder, InvParts DEF Locked
  <2>2. csMain' = NoThread \/ (csMain' = t /\ pc'[t] # "accept")
    BY Zenon, InvParts DEF Return, Release, Hold, TypeOK
  <2>3. \A u \in Threads : pc[u] # "link" /\ pc'[u] # "accept"
    BY Zenon, <2>1, <2>2, <1>Quiet
  <2>4. \A u \in Threads : pindexMostWork'[u] \in
           {NoBlock, pindexMostWork[u]} \cup setBlockIndexCandidates
    <3>1. CASE Return(t)
      BY Zenon, <2>1, <3>1, ReturnLocals, InvParts
    <3>2. CASE pindexMostWork' = [pindexMostWork EXCEPT ![t] = c]
      BY Zenon, <3>2, InvParts DEF TypeOK
    <3> QED
      BY Zenon, <3>1, <3>2
  <2>5. Tip' \in nChainTx
    BY Zenon, LinkParts DEF Linked, Tip
  <2> QED
    BY Zenon, <2>3, <2>4, <2>5, <1>LinkFrame, LinkParts DEF Sequenced
<1>FindMostWorkChainRejected.
  ASSUME NEW t \in Threads, NEW c \in Block, NEW bad \in Block,
         FindMostWorkChainRejected(t, c, bad)
  PROVE  LinkOK'
  <2> USE <1>FindMostWorkChainRejected
  <2> USE DEF FindMostWorkChainRejected, indexVars, dataVars, failVars, linkVars, preciousVars,
              chainVars, pruneVars, threadVars
  <2>1. csMain = t /\ csMain' = t /\ pc[t] # "link" /\ pc'[t] # "accept"
    BY Zenon, Holder, InvParts DEF Locked
  <2>2. \A u \in Threads : pc[u] # "link" /\ pc'[u] # "accept"
    BY Zenon, <2>1, <1>Quiet
  <2>3. Failed(bad)
    BY Zenon, RejectedFailed
  <2>4. UNCHANGED mapBlocksUnlinked /\ setBlockIndexCandidates' \subseteq setBlockIndexCandidates
    BY Zenon, <2>3
  <2>5. Tip' \in nChainTx
    BY Zenon, LinkParts DEF Linked, Tip
  <2> QED
    BY Zenon, <2>2, <2>3, <2>4, <2>5, <1>LinkFrame, LinkParts DEF Sequenced
<1>StepDisconnect. ASSUME NEW t \in Threads, StepDisconnect(t) PROVE LinkOK'
  <2> USE <1>StepDisconnect
  <2> USE DEF StepDisconnect, indexVars, dataVars, failVars, linkVars, preciousVars, pruneVars
  <2>1. csMain = t /\ pc[t] = "step" /\ Tip # Genesis
    BY Zenon, Holder, StepAboveGenesis, InvParts DEF Locked
  <2>2. /\ Tip' \in nChainTx
        /\ \A u \in Threads : pindexMostWork'[u] \in {NoBlock, pindexMostWork[u]}
        /\ csMain' = NoThread \/ (csMain' = t /\ pc' = pc)
    BY Zenon, <2>1, Disconnected
  <2>3. \A u \in Threads : pc[u] # "link" /\ pc'[u] # "accept"
    BY Zenon, <2>1, <2>2, <1>Quiet
  <2> QED
    BY Zenon, <2>2, <2>3, <1>LinkFrame, LinkParts DEF Sequenced
<1>InvalidateDisconnect. ASSUME NEW t \in Threads, InvalidateDisconnect(t) PROVE LinkOK'
  <2> USE <1>InvalidateDisconnect
  <2> USE DEF InvalidateDisconnect, indexVars, dataVars, failVars, linkVars, preciousVars, pruneVars
  <2>1. csMain = t /\ pc[t] = "invalidate" /\ Tip # Genesis
    BY Zenon, Holder, InvalidateAboveGenesis, InvParts DEF Locked
  <2>2. /\ Tip' \in nChainTx
        /\ \A u \in Threads : pindexMostWork'[u] \in {NoBlock, pindexMostWork[u]}
        /\ csMain' = NoThread \/ (csMain' = t /\ pc' = pc)
    BY Zenon, <2>1, Disconnected
  <2>3. \A u \in Threads : pc[u] # "link" /\ pc'[u] # "accept"
    BY Zenon, <2>1, <2>2, <1>Quiet
  <2> QED
    BY Zenon, <2>2, <2>3, <1>LinkFrame, LinkParts DEF Sequenced
<1>StepDisconnectFails. ASSUME NEW t \in Threads, StepDisconnectFails(t) PROVE LinkOK'
  <2> USE <1>StepDisconnectFails
  <2> USE DEF StepDisconnectFails, indexVars, dataVars, failVars, linkVars, preciousVars,
              chainVars, pruneVars
  <2>1. csMain = t /\ pc[t] # "link"
    BY Zenon, Holder, InvParts DEF Locked
  <2>2. csMain' = NoThread
    BY Zenon DEF Return, Release
  <2>3. \A u \in Threads : pc[u] # "link" /\ pc'[u] # "accept"
    BY Zenon, <2>1, <2>2, <1>Quiet
  <2>4. \A u \in Threads : pindexMostWork'[u] \in {NoBlock, pindexMostWork[u]}
    BY Zenon, <2>1, ReturnLocals, InvParts
  <2>5. Tip' \in nChainTx
    BY Zenon, LinkParts DEF Linked, Tip
  <2> QED
    BY Zenon, <2>3, <2>4, <2>5, <1>LinkFrame, LinkParts DEF Sequenced
<1>InvalidateDisconnectFails.
  ASSUME NEW t \in Threads, InvalidateDisconnectFails(t) PROVE LinkOK'
  <2> USE <1>InvalidateDisconnectFails
  <2> USE DEF InvalidateDisconnectFails, indexVars, dataVars, failVars, linkVars, preciousVars,
              chainVars, pruneVars
  <2>1. csMain = t /\ pc[t] # "link" /\ csMain' = NoThread
    BY Zenon, Holder, InvParts DEF Locked, Release
  <2>2. \A u \in Threads : pc[u] # "link" /\ pc'[u] # "accept"
    BY Zenon, <2>1, <1>Quiet
  <2>3. Tip' \in nChainTx
    BY Zenon, LinkParts DEF Linked, Tip
  <2> QED
    BY Zenon, <2>2, <2>3, <1>LinkFrame, LinkParts DEF Sequenced
<1>StepDone. ASSUME NEW t \in Threads, StepDone(t) PROVE LinkOK'
  <2> USE <1>StepDone
  <2> USE DEF StepDone, indexVars, dataVars, failVars, linkVars, preciousVars, chainVars, pruneVars
  <2>1. csMain = t /\ pc[t] # "link"
    BY Zenon, Holder, InvParts DEF Locked
  <2>2. csMain' = NoThread
    BY Zenon DEF EndStep, Return, Release
  <2>3. \A u \in Threads : pc[u] # "link" /\ pc'[u] # "accept"
    BY Zenon, <2>1, <2>2, <1>Quiet
  <2>4. \A u \in Threads : pindexMostWork'[u] \in {NoBlock, pindexMostWork[u]}
    BY Zenon, <2>1, EndStepLocals, InvParts
  <2>5. Tip' \in nChainTx
    BY Zenon, LinkParts DEF Linked, Tip
  <2> QED
    BY Zenon, <2>3, <2>4, <2>5, <1>LinkFrame, LinkParts DEF Sequenced
<1>StepConnect. ASSUME NEW t \in Threads, NEW b \in Block, StepConnect(t, b) PROVE LinkOK'
  <2> USE <1>StepConnect
  <2>1. pc[t] = "step" /\ NextToConnect(t, b)
    BY Zenon DEF StepConnect
  <2>2. csMain = t /\ pc[t] # "link" /\ b \in mapBlockIndex \ {Genesis} /\ b \in nTx
        /\ HashPrev[b] = Tip
    BY Zenon, <2>1, NextReceived
  <2>3. b \in nChainTx
    BY Zenon, <2>1, NextIsLinked
  <2> USE DEF indexVars, dataVars, failVars, linkVars, preciousVars, chainVars, pruneVars
  <2>4. CASE ConnectTipUnreadable(t, b)
    <3> USE DEF ConnectTipUnreadable
    <3>1. csMain' = NoThread /\ Return(t)
      BY Zenon, <2>4 DEF AbortNode, Return, Release
    <3>2. \A u \in Threads : pc[u] # "link" /\ pc'[u] # "accept"
      BY Zenon, <2>2, <3>1, <1>Quiet
    <3>3. \A u \in Threads : pindexMostWork'[u] \in {NoBlock, pindexMostWork[u]}
      BY Zenon, <2>2, <3>1, ReturnLocals, InvParts
    <3>4. Tip' \in nChainTx
      BY Zenon, <2>4, LinkParts DEF Linked, Tip
    <3> QED
      BY Zenon, <2>3, <2>4, <3>2, <3>3, <3>4, <1>LinkFrame, LinkParts DEF Sequenced
  <2>5. CASE ConnectTipInvalid(t, b)
    <3> USE DEF ConnectTipInvalid
    <3>1. csMain' = NoThread
      BY Zenon, <2>5 DEF EndStep, Return, Release
    <3>2. \A u \in Threads : pc[u] # "link" /\ pc'[u] # "accept"
      BY Zenon, <2>2, <3>1, <1>Quiet
    <3>3. \A u \in Threads : pindexMostWork'[u] \in {NoBlock, pindexMostWork[u]}
      BY Zenon, <2>2, <2>5, EndStepLocals, InvParts
    <3>4. Tip' \in nChainTx
      BY Zenon, <2>5, LinkParts DEF Linked, Tip
    <3> QED
      BY Zenon, <2>3, <2>5, <3>2, <3>3, <3>4, <1>LinkFrame, LinkParts DEF Sequenced
  <2>6. CASE ConnectTipFlushFails(t, b)
    <3> USE DEF ConnectTipFlushFails
    <3>1. csMain' = NoThread /\ Return(t)
      BY Zenon, <2>6 DEF AbortNode, Return, Release
    <3>2. \A u \in Threads : pc[u] # "link" /\ pc'[u] # "accept"
      BY Zenon, <2>2, <3>1, <1>Quiet
    <3>3. \A u \in Threads : pindexMostWork'[u] \in {NoBlock, pindexMostWork[u]}
      BY Zenon, <2>2, <3>1, ReturnLocals, InvParts
    <3>4. Tip' \in nChainTx
      BY Zenon, <2>6, LinkParts DEF Linked, Tip
    <3>5. \A c \in Block : nValid'[c] = nValid[c] \/ (c \in nTx /\ nValid'[c] = 5)
      BY Zenon, <2>2, <2>6, Raised
    <3>6. UNCHANGED <<haveData, nTx>> /\ haveUndo' = haveUndo \cup {b}
      BY Zenon, <2>6 DEF ConnectBlock
    <3> QED
      BY Zenon, <2>2, <2>3, <2>6, <3>2, <3>3, <3>4, <3>5, <3>6, <1>LinkFrame, LinkParts DEF Sequenced
  <2>7. CASE ConnectTipConnected(t, b)
    <3> USE DEF ConnectTipConnected
    <3>1. csMain' = NoThread \/ (csMain' = t /\ pc' = pc)
      BY Zenon, <2>2, <2>7 DEF EndStep, Return, Release
    <3>2. \A u \in Threads : pc[u] # "link" /\ pc'[u] # "accept"
      BY Zenon, <2>1, <2>2, <3>1, <1>Quiet
    <3>3. \A u \in Threads : pindexMostWork'[u] \in {NoBlock, pindexMostWork[u]}
      BY Zenon, <2>2, <2>7, EndStepLocals, InvParts
    <3>5. \A c \in Block : nValid'[c] = nValid[c] \/ (c \in nTx /\ nValid'[c] = 5)
      BY Zenon, <2>2, <2>7, Raised
    <3>6. UNCHANGED <<haveData, nTx>> /\ haveUndo' = haveUndo \cup {b}
      BY Zenon, <2>7 DEF ConnectBlock
    <3>4. Tip' = b
      BY Zenon, <2>2, <2>7, ConnectedTip
    <3>7. setBlockIndexCandidates' \subseteq setBlockIndexCandidates
      BY Zenon, <2>7 DEF PruneBlockIndexCandidates
    <3> QED
      BY Zenon, <2>2, <2>3, <2>7, <3>2, <3>3, <3>4, <3>5, <3>6, <3>7, <1>LinkFrame, LinkParts DEF
         Sequenced
  <2> QED
    BY Zenon, <2>3, <2>4, <2>5, <2>6, <2>7 DEF StepConnect
<1>PreciousBlock. ASSUME NEW t \in Threads, NEW b \in Block, PreciousBlock(t, b) PROVE LinkOK'
  <2> USE <1>PreciousBlock
  <2> DEFINE reverseId == IF nChainWork[Tip] > nLastPreciousChainwork
                          THEN -1 ELSE nBlockReverseSequenceId
  <2> USE DEF indexVars, dataVars, failVars, linkVars, preciousVars, chainVars, pruneVars
  <2>1. csMain = NoThread /\ csMain' = NoThread /\ pc[t] # "link"
    BY Zenon DEF PreciousBlock, Enter, Release
  <2>2. \A u \in Threads : pc[u] # "link" /\ pc'[u] # "accept"
    BY Zenon, <2>1, <1>Quiet
  <2>3. Tip' \in nChainTx
    BY Zenon, LinkParts DEF PreciousBlock, Linked, Tip
  <2>4. setBlockIndexCandidates' \subseteq setBlockIndexCandidates \cup nChainTx
    BY Zenon DEF PreciousBlock, PruneBlockIndexCandidates
  <2>5. /\ nSequenceId' = [nSequenceId EXCEPT ![b] = reverseId]
        /\ nBlockReverseSequenceId' = reverseId - 1
    BY Zenon DEF PreciousBlock
  <2>6. reverseId <= 0 /\ reverseId - 1 <= -1
    BY ReverseId
  <2> HIDE DEF reverseId
  <2>7. \A c \in mapBlockIndex \ nChainTx : nSequenceId'[c] <= 0
    BY Zenon, <2>5, <2>6, InvParts, LinkParts DEF TypeOK, Sequenced
  <2>8. UNCHANGED <<mapBlockIndex, nChainWork, haveData, haveUndo, nTx, nChainTx, queue, nValid,
                    mapBlocksUnlinked, pindexMostWork>>
    BY Zenon DEF PreciousBlock
  <2> QED
    BY Zenon, <2>2, <2>3, <2>4, <2>5, <2>6, <2>7, <2>8, <1>LinkFrame
<1>InvalidateBlock. ASSUME NEW t \in Threads, NEW b \in Block, InvalidateBlock(t, b) PROVE LinkOK'
  <2> USE <1>InvalidateBlock
  <2> USE DEF InvalidateBlock, indexVars, dataVars, failVars, linkVars, preciousVars,
              chainVars, pruneVars
  <2>1. csMain = NoThread /\ pc[t] # "link" /\ csMain' = t /\ pc'[t] # "accept"
    BY Zenon, InvParts DEF Enter, Hold, TypeOK
  <2>2. \A u \in Threads : pc[u] # "link" /\ pc'[u] # "accept"
    BY Zenon, <2>1, <1>Quiet
  <2>3. Tip' \in nChainTx
    BY Zenon, LinkParts DEF Linked, Tip
  <2> QED
    BY Zenon, <2>2, <2>3, <1>LinkFrame, LinkParts DEF Sequenced
<1>InvalidateFinish. ASSUME NEW t \in Threads, InvalidateFinish(t) PROVE LinkOK'
  <2> USE <1>InvalidateFinish
  <2> USE DEF InvalidateFinish, indexVars, dataVars, failVars, linkVars, preciousVars,
              chainVars, pruneVars
  <2>1. csMain = t /\ pc[t] # "link" /\ csMain' = NoThread
    BY Zenon, Holder, InvParts DEF Locked, Release
  <2>2. \A u \in Threads : pc[u] # "link" /\ pc'[u] # "accept"
    BY Zenon, <2>1, <1>Quiet
  <2>3. Tip' \in nChainTx
    BY Zenon, LinkParts DEF Linked, Tip
  <2>4. setBlockIndexCandidates' \subseteq setBlockIndexCandidates \cup nChainTx
    BY Zenon
  <2> QED
    BY Zenon, <2>2, <2>3, <2>4, <1>LinkFrame, LinkParts DEF Sequenced
<1>ResetBlockFailureFlags.
  ASSUME NEW t \in Threads, NEW b \in Block, ResetBlockFailureFlags(t, b)
  PROVE  LinkOK'
  <2> USE <1>ResetBlockFailureFlags
  <2> USE DEF ResetBlockFailureFlags, indexVars, dataVars, linkVars, preciousVars,
              chainVars, pruneVars
  <2>1. csMain = NoThread /\ pc[t] # "link" /\ csMain' = NoThread
    BY Zenon DEF Enter, Release
  <2>2. \A u \in Threads : pc[u] # "link" /\ pc'[u] # "accept"
    BY Zenon, <2>1, <1>Quiet
  <2>3. Tip' \in nChainTx
    BY Zenon, LinkParts DEF Linked, Tip
  <2>4. setBlockIndexCandidates' \subseteq setBlockIndexCandidates \cup nChainTx
    BY Zenon
  <2> QED
    BY Zenon, <2>2, <2>3, <2>4, <1>LinkFrame, LinkParts DEF Sequenced
<1>Stutter. ASSUME UNCHANGED vars PROVE LinkOK'
  <2> USE <1>Stutter
  <2> USE DEF vars, indexVars, dataVars, failVars, linkVars, preciousVars, chainVars,
              pruneVars, threadVars
  <2>1. WorkAdds' /\ Stored' /\ Sequenced'
    BY Zenon, LinkParts DEF WorkAdds, Stored, Sequenced, Failed
  <2>2. Linked'
    BY Zenon, LinkParts DEF Linked, PrevClosed, Tip
  <2>3. InLine'
    <3>1. QueueSet' = QueueSet /\ UNCHANGED <<queue, pc, nChainTx, mapBlocksUnlinked>>
      BY Zenon DEF QueueSet
    <3>2. \A i, j \in 1..Len(queue') : queue'[i] = queue'[j] => i = j
      BY Zenon, <3>1, LinkParts DEF InLine
    <3>3. \A c \in QueueSet' : /\ c \notin nChainTx' \cup mapBlocksUnlinked' \cup {Genesis}
                              /\ HashPrev[c] \in nChainTx'
      BY Zenon, <3>1, LinkParts DEF InLine
    <3>4. (\A t \in Threads : pc'[t] # "link") => queue' = <<>>
      BY Zenon, <3>1, LinkParts DEF InLine
    <3> QED
      BY Zenon, <3>2, <3>3, <3>4 DEF InLine
  <2> QED
    BY Zenon, <2>1, <2>2, <2>3 DEF LinkOK
(* A new header adds its work to that of its parent; its block is not      *)
(* stored.                                                                 *)
<1>Header.
  ASSUME NEW b \in Block, HeaderAccepted(b), AddToBlockIndex(b),
         UNCHANGED <<haveData, haveUndo, nTx, nChainTx, mapBlocksUnlinked, queue, chainActive,
                     setBlockIndexCandidates, pindexMostWork, nBlockReverseSequenceId,
                     failedValid, failedChild>>,
         \A u \in Threads : pc[u] # "link",
         \A u \in Threads : pc'[u] = "accept" =>
            arg'[u] \in nTx \/ arg'[u] \notin failedValid \cup failedChild
  PROVE  LinkOK'
  <2> USE <1>Header
  <2>1. TypeOK /\ KnownTree
    BY Zenon, InvParts
  <2>2. queue' = <<>>
    BY Zenon, LinkParts DEF InLine
  <2>3. InLine'
    <3>1. Len(queue') = 0
      BY <2>2
    <3>2. 1..0 = {}
      OBVIOUS
    <3> QED
      BY Zenon, <2>2, <3>1, <3>2 DEF InLine, QueueSet
  <2>4. Linked'
    BY Zenon, LinkParts DEF Linked, PrevClosed, Tip
  <2>5. CASE b \in mapBlockIndex
    <3>1. UNCHANGED <<mapBlockIndex, nChainWork, nSequenceId, nValid>>
      BY Zenon, <2>5 DEF AddToBlockIndex, indexVars
    <3>2. WorkAdds' /\ Sequenced'
      BY Zenon, <3>1, LinkParts DEF WorkAdds, Sequenced
    <3>3. Stored'
      BY Zenon, <3>1, LinkParts DEF Stored, Failed
    <3> QED
      BY Zenon, <2>3, <2>4, <3>2, <3>3 DEF LinkOK
  <2>6. CASE b \notin mapBlockIndex
    <3>1. b # Genesis /\ HashPrev[b] \in mapBlockIndex /\ HashPrev[b] # b
      BY Zenon, <2>1, <2>6 DEF HeaderAccepted, KnownTree
    <3>2. /\ mapBlockIndex' = mapBlockIndex \cup {b}
          /\ nSequenceId' = [nSequenceId EXCEPT ![b] = 0]
          /\ nChainWork' = [nChainWork EXCEPT ![b] = nChainWork[HashPrev[b]] + Proof[b]]
          /\ nValid' = [nValid EXCEPT ![b] = RaiseValidity(b, 2)]
      BY Zenon, <2>6 DEF AddToBlockIndex, BLOCK_VALID_TREE
    <3>3. RaiseValidity(b, 2) = 2
      <4>1. ~Failed(b) /\ nValid[b] = 0
        BY Zenon, <2>1, <2>6, LinkParts DEF Failed, TypeOK, Stored
      <4>2. 0 < 2
        OBVIOUS
      <4> QED
        BY Zenon, <4>1, <4>2 DEF RaiseValidity
    <3>4. nValid'[b] = 2 /\ \A c \in Block \ {b} : nValid'[c] = nValid[c]
      BY Zenon, <2>1, <3>2, <3>3 DEF TypeOK
    <3>5. b \notin nTx
      BY Zenon, <2>1, <2>6 DEF TypeOK
    <3>6. Stored'
      <4>0. 2 \notin {3, 5} /\ 2 \in {2, 3, 5}
        OBVIOUS
      <4>1. \A c \in mapBlockIndex' : nValid'[c] \in {2, 3, 5} /\ (c \in nTx' <=> nValid'[c] \in {3, 5})
        <5> SUFFICES ASSUME NEW c \in mapBlockIndex'
                     PROVE  nValid'[c] \in {2, 3, 5} /\ (c \in nTx' <=> nValid'[c] \in {3, 5})
          BY Zenon
        <5>1. CASE c = b
          BY Zenon, <3>4, <3>5, <4>0, <5>1
        <5>2. CASE c # b
          BY Zenon, <2>1, <3>2, <3>4, <5>2, LinkParts DEF Stored, TypeOK
        <5> QED
          BY Zenon, <5>1, <5>2
      <4>2. \A c \in Block \ mapBlockIndex' : nValid'[c] = 0
        BY Zenon, <3>2, <3>4, LinkParts DEF Stored
      <4> QED
        BY Zenon, <4>1, <4>2, LinkParts DEF Stored, Failed
    <3>7. WorkAdds'
      <4>1. nChainWork'[b] = nChainWork[HashPrev[b]] + Proof[b]
        BY Zenon, <2>1, <3>2 DEF TypeOK
      <4>2. \A c \in mapBlockIndex : nChainWork'[c] = nChainWork[c]
        BY Zenon, <2>1, <2>6, <3>2 DEF TypeOK
      <4> SUFFICES ASSUME NEW c \in mapBlockIndex' \ {Genesis}
                   PROVE  nChainWork'[c] = nChainWork'[HashPrev[c]] + Proof[c]
        BY Zenon DEF WorkAdds
      <4>3. CASE c = b
        BY Zenon, <3>1, <4>1, <4>2, <4>3
      <4>4. CASE c \in mapBlockIndex
        <5>1. HashPrev[c] \in mapBlockIndex
          BY Zenon, <2>1, <4>4 DEF KnownTree, PrevClosed
        <5>2. nChainWork[c] = nChainWork[HashPrev[c]] + Proof[c]
          BY Zenon, <4>4, LinkParts DEF WorkAdds
        <5> QED
          BY Zenon, <4>2, <4>4, <5>1, <5>2
      <4> QED
        BY Zenon, <3>2, <4>3, <4>4
    <3>8. Sequenced'
      <4>1. nSequenceId'[b] = 0 /\ \A c \in mapBlockIndex : nSequenceId'[c] = nSequenceId[c]
        BY Zenon, <2>1, <2>6, <3>2 DEF TypeOK
      <4>2. 0 <= 0
        OBVIOUS
      <4> QED
        BY Zenon, <3>2, <4>1, <4>2, LinkParts DEF Sequenced
    <3> QED
      BY Zenon, <2>3, <2>4, <3>6, <3>7, <3>8 DEF LinkOK
  <2> QED
    BY Zenon, <2>5, <2>6
<1>ProcessNewBlockHeaders.
  ASSUME NEW t \in Threads, NEW b \in Block, ProcessNewBlockHeaders(t, b)
  PROVE  LinkOK'
  <2> USE <1>ProcessNewBlockHeaders
  <2> USE DEF ProcessNewBlockHeaders, dataVars, failVars, linkVars, preciousVars,
              chainVars, pruneVars, threadVars
  <2>1. csMain = NoThread /\ csMain' = NoThread /\ pc[t] # "link"
    BY Zenon DEF Enter
  <2>2. \A u \in Threads : pc[u] # "link" /\ pc'[u] # "accept"
    BY Zenon, <2>1, <1>Quiet
  <2> QED
    BY Zenon, <2>2, <1>Header
<1>ProcessNewBlock. ASSUME NEW t \in Threads, NEW b \in Block, ProcessNewBlock(t, b) PROVE LinkOK'
  <2> USE <1>ProcessNewBlock
  <2> USE DEF ProcessNewBlock, dataVars, failVars, linkVars, preciousVars,
              chainVars, pruneVars
  <2>1. \A u \in Threads : pc[u] # "link" /\ pc[u] # "accept"
    BY Zenon, ChainAssumption, InvParts DEF Enter, Locking, Locked
  <2>2. b \in nTx \/ ~Failed(b)
    <3>1. Genesis \in nTx
      <4>1. 1 \in 1..Len(chainActive)
        BY Zenon, ChainLength, OneLonger, InvParts
      <4> QED
        BY Zenon, <4>1, InvParts DEF ActiveChainLinked
    <3>2. b \notin mapBlockIndex => ~Failed(b)
      BY Zenon, InvParts DEF TypeOK, Failed
    <3> QED
      BY Zenon, <3>1, <3>2 DEF HeaderAccepted
  <2>3. \A u \in Threads : pc'[u] = "accept" =>
           arg'[u] \in nTx \/ arg'[u] \notin failedValid \cup failedChild
    BY Zenon, <2>1, <2>2, InvParts DEF Failed, Hold, TypeOK
  <2> QED
    BY Zenon, <2>1, <2>3, <1>Header
(* A stored block is put in line below a linked parent, or waits for it.   *)
<1>ReceivedBlockTransactions. ASSUME NEW t \in Threads, ReceivedBlockTransactions(t) PROVE LinkOK'
  <2> USE <1>ReceivedBlockTransactions
  <2> DEFINE b == arg[t]
  <2>1. /\ b \in mapBlockIndex \ {Genesis} /\ b \notin nTx
        /\ b \notin nChainTx /\ b \notin mapBlocksUnlinked /\ UNCHANGED nChainTx
        /\ nValid'[b] = 3 /\ \A c \in Block \ {b} : nValid'[c] = nValid[c]
        /\ queue = <<>> /\ \A u \in Threads : pc[u] # "link" /\ pc'[u] # "accept"
    BY Zenon, StoredBlock
  <2>2. /\ nTx' = nTx \cup {b} /\ haveData' = haveData \cup {b}
        /\ UNCHANGED <<mapBlockIndex, nChainWork, haveUndo, nSequenceId, chainActive,
                       setBlockIndexCandidates, pindexMostWork, nBlockReverseSequenceId>>
    BY Zenon DEF ReceivedBlockTransactions, indexVars, chainVars, preciousVars
  <2>3. \/ /\ HashPrev[b] \in nChainTx /\ queue' = <<b>> /\ pc'[t] = "link"
           /\ UNCHANGED mapBlocksUnlinked
        \/ /\ HashPrev[b] \notin nChainTx /\ UNCHANGED queue
           /\ mapBlocksUnlinked' \subseteq mapBlocksUnlinked \cup {b}
    BY Zenon, <2>1, InvParts DEF ReceivedBlockTransactions, ParentLinked, Hold, TypeOK
  <2> HIDE DEF b
  <2>4. WorkAdds' /\ Sequenced'
    BY Zenon, <2>1, <2>2, LinkParts DEF WorkAdds, Sequenced
  <2>5. Stored'
    <3>0. mapBlockIndex \subseteq Block
      BY Zenon, InvParts DEF TypeOK
    <3>1. \A c \in mapBlockIndex' : nValid'[c] \in {2, 3, 5} /\ (c \in nTx' <=> nValid'[c] \in {3, 5})
      <4> SUFFICES ASSUME NEW c \in mapBlockIndex
                   PROVE  nValid'[c] \in {2, 3, 5} /\ (c \in nTx' <=> nValid'[c] \in {3, 5})
        BY Zenon, <2>2
      <4>1. CASE c = b
        BY Zenon, <2>1, <2>2, <4>1
      <4>2. CASE c # b
        BY Zenon, <2>1, <2>2, <3>0, <4>2, LinkParts DEF Stored
      <4> QED
        BY Zenon, <4>1, <4>2
    <3>2. \A c \in Block \ mapBlockIndex' : nValid'[c] = 0
      BY Zenon, <2>1, <2>2, LinkParts DEF Stored
    <3>3. haveData' = nTx' /\ haveUndo' \subseteq nTx'
      BY Zenon, <2>2, LinkParts DEF Stored
    <3> QED
      BY Zenon, <2>1, <3>1, <3>2, <3>3 DEF Stored
  <2>6. Linked'
    BY Zenon, <2>1, <2>2, <2>3, LinkParts DEF Linked, PrevClosed, Tip
  <2>7. InLine'
    <3>1. CASE /\ HashPrev[b] \in nChainTx /\ queue' = <<b>> /\ pc'[t] = "link"
               /\ UNCHANGED mapBlocksUnlinked
      <4>1. Len(queue') = 1 /\ queue'[1] = b
        BY <3>1
      <4>2. 1..1 = {1}
        OBVIOUS
      <4>3. QueueSet' = {b}
        BY Zenon, <4>1, <4>2 DEF QueueSet
      <4>4. \A i, j \in 1..Len(queue') : i = j
        BY <4>1
      <4>5. /\ b \notin nChainTx' \cup mapBlocksUnlinked' \cup {Genesis}
            /\ HashPrev[b] \in nChainTx' /\ ~(\A u \in Threads : pc'[u] # "link")
        BY Zenon, <2>1, <3>1
      <4> QED
        BY Zenon, <4>3, <4>4, <4>5 DEF InLine
    <3>2. CASE UNCHANGED queue
      <4>1. queue' = <<>>
        BY Zenon, <2>1, <3>2
      <4>2. Len(queue') = 0
        BY <4>1
      <4>3. 1..0 = {}
        OBVIOUS
      <4> QED
        BY Zenon, <4>1, <4>2, <4>3 DEF InLine, QueueSet
    <3> QED
      BY Zenon, <2>3, <3>1, <3>2
  <2> QED
    BY Zenon, <2>4, <2>5, <2>6, <2>7 DEF LinkOK
(* A linked block has a linked parent, and what waited for it is next.     *)
<1>LinkBlock. ASSUME NEW t \in Threads, LinkBlock(t) PROVE LinkOK'
  <2> USE <1>LinkBlock
  <2> DEFINE b == Head(queue)
  <2>1. /\ b \in mapBlockIndex \ {Genesis} /\ b \in nTx /\ b \notin nChainTx
        /\ HashPrev[b] \in nChainTx
        /\ b \in QueueSet /\ QueueSet' = (QueueSet \ {b}) \cup Waiting(b)
        /\ \A i, j \in 1..Len(queue') : queue'[i] = queue'[j] => i = j
        /\ \A u \in Threads \ {t} : pc[u] \notin Locked /\ pc'[u] = pc[u]
        /\ IF queue' = <<>> THEN pc'[t] = "accepted" ELSE pc'[t] = "link"
    BY Zenon, LinkTurn
  <2>2. /\ nChainTx' = nChainTx \cup {b}
        /\ nSequenceId' = [nSequenceId EXCEPT ![b] = nBlockSequenceId]
        /\ setBlockIndexCandidates' \subseteq setBlockIndexCandidates \cup {b}
        /\ mapBlocksUnlinked' = mapBlocksUnlinked \ Waiting(b)
        /\ UNCHANGED <<mapBlockIndex, nChainWork, haveData, haveUndo, nTx, nValid, chainActive,
                       failedValid, failedChild, pindexMostWork, nBlockReverseSequenceId>>
    BY Zenon DEF LinkBlock, indexVars, dataVars, failVars, chainVars, preciousVars
  <2> HIDE DEF b
  <2>3. WorkAdds'
    BY Zenon, <2>2, LinkParts DEF WorkAdds
  <2>4. Stored'
    <3>1. \A u \in Threads : pc'[u] # "accept"
      BY Zenon, <2>1 DEF Locked
    <3> QED
      BY Zenon, <2>2, <3>1, LinkParts DEF Stored
  <2>5. Linked'
    <3>1. PrevClosed(nChainTx')
      BY Zenon, <2>1, <2>2, LinkParts DEF Linked, PrevClosed
    <3>2. \A c \in mapBlocksUnlinked' : c \notin nChainTx' /\ HashPrev[c] \notin nChainTx'
      <4> SUFFICES ASSUME NEW c \in mapBlocksUnlinked'
                   PROVE  c \notin nChainTx' /\ HashPrev[c] \notin nChainTx'
        BY Zenon
      <4>1. c \in mapBlocksUnlinked /\ c \notin nChainTx /\ HashPrev[c] \notin nChainTx
        BY Zenon, <2>2, LinkParts DEF Linked
      <4>2. HashPrev[c] # b
        BY Zenon, <2>2, <4>1 DEF Waiting
      <4>3. c # b
        BY Zenon, <2>1, <4>1
      <4> QED
        BY Zenon, <2>2, <4>1, <4>2, <4>3
    <3>3. Tip' = Tip
      BY Zenon, <2>2 DEF Tip
    <3> QED
      BY Zenon, <2>2, <3>1, <3>2, <3>3, LinkParts DEF Linked
  <2>6. InLine'
    <3>1. \A c \in QueueSet' : /\ c \notin nChainTx' \cup mapBlocksUnlinked' \cup {Genesis}
                               /\ HashPrev[c] \in nChainTx'
      <4> SUFFICES ASSUME NEW c \in QueueSet'
                   PROVE  /\ c \notin nChainTx' \cup mapBlocksUnlinked' \cup {Genesis}
                          /\ HashPrev[c] \in nChainTx'
        BY Zenon
      <4>1. CASE c \in QueueSet \ {b}
        BY Zenon, <2>2, <4>1, LinkParts DEF InLine
      <4>2. CASE c \in Waiting(b)
        <5>1. c \in mapBlocksUnlinked /\ HashPrev[c] = b /\ c \notin nChainTx /\ c # Genesis
          BY Zenon, <4>2, LinkParts, InvParts DEF Waiting, Linked, Received
        <5>2. c # b
          BY Zenon, <2>1, <5>1
        <5> QED
          BY Zenon, <2>2, <4>2, <5>1, <5>2
      <4> QED
        BY Zenon, <2>1, <4>1, <4>2
    <3>2. (\A u \in Threads : pc'[u] # "link") => queue' = <<>>
      BY Zenon, <2>1
    <3> QED
      BY Zenon, <2>1, <3>1, <3>2 DEF InLine
  <2>7. Sequenced'
    <3>1. \A c \in mapBlockIndex \ nChainTx' : nSequenceId'[c] = nSequenceId[c] /\ c \notin nChainTx
      BY Zenon, <2>2, InvParts DEF TypeOK
    <3> QED
      BY Zenon, <2>2, <3>1, LinkParts DEF Sequenced
  <2> QED
    BY Zenon, <2>3, <2>4, <2>5, <2>6, <2>7 DEF LinkOK
<1> SUFFICES ASSUME [Next]_vars PROVE LinkOK'
  BY Zenon
<1>1. ASSUME NEW t \in Threads, Step(t) PROVE LinkOK'
  <2>1. CASE \E c \in Block : FindMostWorkChainFound(t, c)
    BY Zenon, <2>1, <1>FindMostWorkChainFound
  <2>2. CASE \E c, bad \in Block : FindMostWorkChainRejected(t, c, bad)
    BY Zenon, <2>2, <1>FindMostWorkChainRejected
  <2>3. CASE \E b \in Block : StepConnect(t, b)
    BY Zenon, <2>3, <1>StepConnect
  <2> QED
    BY Zenon, <1>1, <2>1, <2>2, <2>3, <1>AcceptBlockIgnored, <1>AcceptBlockInvalid,
       <1>ReceivedBlockTransactions, <1>LinkBlock, <1>ActivateBestChain,
       <1>FindMostWorkChainNone, <1>StepDisconnect, <1>StepDisconnectFails, <1>StepDone,
       <1>InvalidateDisconnect, <1>InvalidateDisconnectFails, <1>InvalidateFinish DEF Step
<1>2. ASSUME NEW t \in Threads, Start(t) PROVE LinkOK'
  BY Zenon, <1>2, <1>ProcessNewBlockHeaders, <1>ProcessNewBlock, <1>PreciousBlock,
     <1>InvalidateBlock, <1>ResetBlockFailureFlags DEF Start
<1> QED
  BY Zenon, <1>1, <1>2, NeverPruned, <1>Stutter DEF Next

(* Without pruning, LinkOK holds in every reachable state.                 *)
LEMMA LinkedAlways == ASSUME MaxCalls["prune"] = 0 PROVE Spec => [](Inv /\ LinkOK)
<1>1. Inv /\ LinkOK /\ [Next]_vars => (Inv /\ LinkOK)'
  BY Zenon, NextInv, NextLinks
<1> QED
  BY <1>1, InitInv, InitLinks, PTL DEF Spec

(* While nothing is pruned, ReceivedBlockTransactions gives a sequence     *)
(* number only to blocks that are no candidates, whatever the threads and  *)
(* the operator do: std::set never sees the order of its members change.   *)
THEOREM OrderAlwaysStable ==
  ASSUME MaxCalls["prune"] = 0 PROVE Spec => []CandidateOrderStable
<1>1. Inv /\ LinkOK => CandidateOrderStable
  <2> SUFFICES ASSUME Inv, LinkOK, queue # <<>>
               PROVE  Head(queue) \notin setBlockIndexCandidates
    BY Zenon DEF CandidateOrderStable
  <2>1. queue \in Seq(mapBlockIndex)
    BY Zenon, InvParts DEF TypeOK
  <2>2. Len(queue) \in Nat /\ Len(queue) > 0 /\ Head(queue) = queue[1]
    BY Zenon, <2>1, SeqIsFunction, HeadAndTail
  <2>3. 1 \in 1..Len(queue)
    BY <2>2
  <2>4. Head(queue) \in QueueSet
    BY Zenon, <2>2, <2>3 DEF QueueSet
  <2> QED
    BY Zenon, <2>4, LinkParts DEF InLine, Linked
<1> QED
  BY <1>1, LinkedAlways, PTL

-----------------------------------------------------------------------------
(* The order of the candidates, and the block tree.                        *)

(* CBlockIndexWorkComparator is a strict total order, whatever the         *)
(* sequence numbers, and follows the work.                                 *)
LEMMA WorkOrder ==
  ASSUME TypeOK, NEW a \in Block, NEW b \in Block, NEW c \in Block
  PROVE  /\ ~Worse(a, a)
         /\ Worse(a, b) => ~Worse(b, a)
         /\ a # b => Worse(a, b) \/ Worse(b, a)
         /\ ~Worse(a, b) /\ ~Worse(b, c) => ~Worse(a, c)
         /\ nChainWork[a] < nChainWork[b] => Worse(a, b)
         /\ ~Worse(a, b) => nChainWork[a] >= nChainWork[b]
<1>1. /\ a \in Nat /\ b \in Nat /\ c \in Nat
      /\ nChainWork[a] \in Nat /\ nChainWork[b] \in Nat /\ nChainWork[c] \in Nat
      /\ nSequenceId[a] \in Int /\ nSequenceId[b] \in Int /\ nSequenceId[c] \in Int
  BY Zenon, ChainAssumption DEF TypeOK
<1> QED
  BY <1>1 DEF Worse, WorseBy

(* Ancestors of ancestors are ancestors.                                   *)
LEMMA AncestorsOfAncestor ==
  ASSUME NEW b \in Block, NEW a \in Ancestors[b]
  PROVE  a \in Block /\ Ancestors[a] \subseteq Ancestors[b]
  BY Zenon, SelfAncestor, AncestorsClosed, AncestorsLeast

(* A block has more work than its proper ancestors.                        *)
LEMMA WorkGrows ==
  ASSUME Inv, LinkOK, NEW c \in mapBlockIndex, NEW a \in Ancestors[c], a # c
  PROVE  nChainWork[a] < nChainWork[c]
<1> DEFINE S == {y \in Ancestors[c] : y = c \/ nChainWork[y] < nChainWork[c]}
<1>1. c \in Block /\ Ancestors[c] \subseteq mapBlockIndex /\ mapBlockIndex \subseteq Block
  BY Zenon, AncestorsKnown, InvParts DEF TypeOK
<1>2. PrevClosed(S)
  <2> SUFFICES ASSUME NEW y \in S, y # Genesis PROVE HashPrev[y] \in S
    BY Zenon DEF PrevClosed
  <2>1. HashPrev[y] \in Ancestors[c]
    BY Zenon, <1>1, AncestorsClosed DEF PrevClosed
  <2>2. nChainWork[y] = nChainWork[HashPrev[y]] + Proof[y]
    BY Zenon, <1>1, LinkParts DEF WorkAdds
  <2>3. nChainWork[y] \in Nat /\ nChainWork[HashPrev[y]] \in Nat /\ Proof[y] \in Nat \ {0}
        /\ nChainWork[c] \in Nat
    BY Zenon, <1>1, <2>1, ChainAssumption, InvParts DEF TypeOK
  <2>4. nChainWork[HashPrev[y]] < nChainWork[y]
    BY <2>2, <2>3
  <2>5. y = c \/ nChainWork[y] < nChainWork[c]
    BY Zenon
  <2>6. nChainWork[HashPrev[y]] < nChainWork[c]
    BY <2>3, <2>4, <2>5
  <2> QED
    BY Zenon, <2>1, <2>6
<1>3. c \in S /\ S \in SUBSET Block
  BY Zenon, <1>1, SelfAncestor
<1>4. Ancestors[c] \subseteq S
  BY Zenon, <1>2, <1>3, AncestorsLeast
<1> QED
  BY Zenon, <1>4

(* The ancestors of a block are ordered by their heights.                  *)
LEMMA AncestorsLine ==
  ASSUME Inv, NEW c \in mapBlockIndex, NEW a \in Ancestors[c], NEW b \in Ancestors[c],
         nHeight[a] <= nHeight[b]
  PROVE  a \in Ancestors[b]
<1> DEFINE S == {y \in Ancestors[c] : a \in Ancestors[y] \/ nHeight[y] < nHeight[a]}
<1>1. c \in Block /\ Ancestors[c] \subseteq mapBlockIndex /\ mapBlockIndex \subseteq Block
  BY Zenon, AncestorsKnown, InvParts DEF TypeOK
<1>2. PrevClosed(S)
  <2> SUFFICES ASSUME NEW y \in S, y # Genesis PROVE HashPrev[y] \in S
    BY Zenon DEF PrevClosed
  <2>1. HashPrev[y] \in Ancestors[c]
    BY Zenon, <1>1, AncestorsClosed DEF PrevClosed
  <2>2. nHeight[y] = nHeight[HashPrev[y]] + 1
    BY Zenon, <1>1, InvParts DEF KnownTree
  <2>3. nHeight[y] \in Nat /\ nHeight[HashPrev[y]] \in Nat /\ nHeight[a] \in Nat
    BY Zenon, <1>1, <2>1, InvParts DEF TypeOK
  <2>4. nHeight[y] < nHeight[a] => nHeight[HashPrev[y]] < nHeight[a]
    BY <2>2, <2>3
  <2>5. y = a => nHeight[HashPrev[y]] < nHeight[a]
    BY <2>2, <2>3
  <2>6. Ancestors[y] = {y} \cup Ancestors[HashPrev[y]]
    BY Zenon, <1>1, AncestorsOfChild
  <2> QED
    BY Zenon, <2>1, <2>4, <2>5, <2>6
<1>3. c \in S /\ S \in SUBSET Block
  BY Zenon, <1>1, SelfAncestor
<1>4. Ancestors[c] \subseteq S
  BY Zenon, <1>2, <1>3, AncestorsLeast
<1>5. ~(nHeight[b] < nHeight[a])
  <2>1. nHeight[a] \in Nat /\ nHeight[b] \in Nat
    BY Zenon, <1>1, InvParts DEF TypeOK
  <2> QED
    BY <2>1
<1> QED
  BY Zenon, <1>4, <1>5

-----------------------------------------------------------------------------
(* No candidate is worse than the tip.                                     *)

(* Steps that add no candidate and leave the tip and the order alone.      *)
LEMMA NoneWorseFrame ==
  ASSUME NoneWorse, UNCHANGED <<chainActive, nChainWork, nSequenceId>>,
         setBlockIndexCandidates' \subseteq setBlockIndexCandidates
  PROVE  NoneWorse'
  BY Zenon DEF NoneWorse, Worse, WorseBy, Tip

(* A header changes nothing about the blocks that were known.              *)
LEMMA KnownKept ==
  ASSUME Inv, NEW b \in Block, AddToBlockIndex(b)
  PROVE  /\ \A c \in mapBlockIndex : /\ nChainWork'[c] = nChainWork[c]
                                     /\ nSequenceId'[c] = nSequenceId[c]
                                     /\ nValid'[c] = nValid[c]
         /\ \A c, d \in mapBlockIndex : Worse(c, d)' = Worse(c, d)
<1>1. \A c \in mapBlockIndex : /\ nChainWork'[c] = nChainWork[c]
                               /\ nSequenceId'[c] = nSequenceId[c]
                               /\ nValid'[c] = nValid[c]
  <2>1. CASE b \in mapBlockIndex
    BY Zenon, <2>1 DEF AddToBlockIndex, indexVars
  <2>2. CASE b \notin mapBlockIndex
    BY Zenon, <2>2, InvParts DEF AddToBlockIndex, TypeOK
  <2> QED
    BY Zenon, <2>1, <2>2
<1>2. \A c, d \in mapBlockIndex : Worse(c, d)' = Worse(c, d)
  BY Zenon, <1>1 DEF Worse, WorseBy
<1> QED
  BY Zenon, <1>1, <1>2

(* Without pruning every step keeps the candidates as good as the tip, if  *)
(* preciousblock is not called for a tip that has failed.                  *)
LEMMA NextNoneWorse ==
  ASSUME MaxCalls["prune"] = 0, Inv, Inv', LinkOK, NoneWorse
  PROVE  [Next]_vars /\ (\A t \in Threads : PreciousBlock(t, Tip) => ~Failed(Tip)) => NoneWorse'
<1>Header.
  ASSUME NEW b \in Block, AddToBlockIndex(b), UNCHANGED <<chainActive, setBlockIndexCandidates>>
  PROVE  NoneWorse'
  <2> USE <1>Header
  <2>1. \A c \in mapBlockIndex : nChainWork'[c] = nChainWork[c] /\ nSequenceId'[c] = nSequenceId[c]
    BY Zenon, KnownKept
  <2>2. Tip' = Tip /\ Tip \in mapBlockIndex /\ setBlockIndexCandidates \subseteq mapBlockIndex
    BY Zenon, ChainLength, InvParts DEF Tip, TypeOK
  <2> QED
    BY Zenon, <2>1, <2>2 DEF NoneWorse, Worse, WorseBy
(* ReceivedBlockTransactions adds a block only if it is as good as the tip.  *)
<1>LinkBlock. ASSUME NEW t \in Threads, LinkBlock(t) PROVE NoneWorse'
  <2> USE <1>LinkBlock
  <2> DEFINE b == Head(queue)
             seq == [nSequenceId EXCEPT ![b] = nBlockSequenceId]
  <2>1. b \in mapBlockIndex \ {Genesis} /\ b \notin nChainTx /\ b \notin setBlockIndexCandidates
    BY Zenon, LinkTurn
  <2>2. /\ nSequenceId' = seq /\ UNCHANGED <<nChainWork, chainActive>> /\ Tip' = Tip
        /\ setBlockIndexCandidates' = IF WorseBy(seq, b, Tip) THEN setBlockIndexCandidates
                                      ELSE setBlockIndexCandidates \cup {b}
    BY Zenon DEF LinkBlock, indexVars, chainVars, Tip
  <2>3. Tip # b /\ Tip \in Block /\ setBlockIndexCandidates \subseteq Block /\ b \in Block
    BY Zenon, <2>1, ChainLength, LinkParts, InvParts DEF Linked, TypeOK
  <2>4. \A c \in Block \ {b} : nSequenceId'[c] = nSequenceId[c]
    BY Zenon, <2>2, InvParts DEF TypeOK
  <2> HIDE DEF b
  <2> SUFFICES ASSUME NEW c \in setBlockIndexCandidates' PROVE ~Worse(c, Tip)'
    BY Zenon DEF NoneWorse
  <2>5. CASE c \in setBlockIndexCandidates
    <3>1. ~Worse(c, Tip) /\ c # b
      BY Zenon, <2>1, <2>5 DEF NoneWorse
    <3> QED
      BY Zenon, <2>2, <2>3, <2>4, <2>5, <3>1 DEF Worse, WorseBy
  <2>6. CASE c = b /\ ~WorseBy(seq, b, Tip)
    BY Zenon, <2>2, <2>6 DEF Worse, WorseBy
  <2> QED
    BY Zenon, <2>2, <2>5, <2>6
(* A block has more work than its parent.                                  *)
<1>ParentWork.
  ASSUME NEW b \in mapBlockIndex \ {Genesis}
  PROVE  nChainWork[HashPrev[b]] < nChainWork[b]
  <2> USE <1>ParentWork
  <2>1. b \in Block /\ HashPrev[b] \in Block
    BY Zenon, ChainAssumption, InvParts DEF TypeOK
  <2>2. nChainWork[b] = nChainWork[HashPrev[b]] + Proof[b]
    BY Zenon, LinkParts DEF WorkAdds
  <2>3. nChainWork[HashPrev[b]] \in Nat /\ Proof[b] \in Nat \ {0}
    BY Zenon, <2>1, ChainAssumption, InvParts DEF TypeOK
  <2> QED
    BY <2>2, <2>3
(* Disconnecting the tip lowers the bar.                                   *)
<1>Disconnect.
  ASSUME Tip # Genesis, Tip' \in {Tip, HashPrev[Tip]}, UNCHANGED <<nChainWork, nSequenceId>>,
         setBlockIndexCandidates' \subseteq setBlockIndexCandidates
  PROVE  NoneWorse'
  <2> USE <1>Disconnect
  <2>1. Tip \in mapBlockIndex \ {Genesis} /\ HashPrev[Tip] \in mapBlockIndex
        /\ mapBlockIndex \subseteq Block /\ setBlockIndexCandidates \subseteq Block
    BY Zenon, ChainLength, InvParts DEF TypeOK, KnownTree, PrevClosed
  <2>2. nChainWork[HashPrev[Tip]] < nChainWork[Tip]
    BY Zenon, <2>1, <1>ParentWork
  <2>3. Worse(HashPrev[Tip], Tip)
    BY Zenon, <2>1, <2>2, WorkOrder, InvParts
  <2>4. ~Worse(Tip, HashPrev[Tip])
    BY Zenon, <2>1, <2>3, WorkOrder, InvParts
  <2> SUFFICES ASSUME NEW c \in setBlockIndexCandidates PROVE ~Worse(c, Tip)'
    BY Zenon DEF NoneWorse
  <2>5. ~Worse(c, Tip) /\ ~Worse(c, HashPrev[Tip])
    BY Zenon, <2>1, <2>4, WorkOrder, InvParts DEF NoneWorse
  <2> QED
    BY Zenon, <2>5 DEF Worse, WorseBy
(* preciousblock drops what the new order makes worse than the tip, unless *)
(* it is called for a tip that has failed.                                 *)
<1>PreciousBlock.
  ASSUME NEW t \in Threads, NEW b \in Block, PreciousBlock(t, b), b = Tip => ~Failed(Tip)
  PROVE  NoneWorse'
  <2> USE <1>PreciousBlock
  <2> DEFINE cand == setBlockIndexCandidates \ {b}
             reverseId == IF nChainWork[Tip] > nLastPreciousChainwork
                          THEN -1 ELSE nBlockReverseSequenceId
             seq == [nSequenceId EXCEPT ![b] = reverseId]
  <2>1. /\ nSequenceId' = seq /\ UNCHANGED <<nChainWork, chainActive>> /\ Tip' = Tip
        /\ setBlockIndexCandidates' =
             IF IsValid(b, BLOCK_VALID_TRANSACTIONS) /\ b \in nChainTx
             THEN PruneBlockIndexCandidates(seq, cand \cup {b}, Tip) ELSE cand
    BY Zenon DEF PreciousBlock, indexVars, chainVars, Tip
  <2>2. \A c \in Block \ {b} : nSequenceId'[c] = nSequenceId[c]
    BY Zenon, <2>1, InvParts DEF TypeOK
  <2> HIDE DEF seq
  <2>3. CASE IsValid(b, BLOCK_VALID_TRANSACTIONS) /\ b \in nChainTx
    BY Zenon, <2>1, <2>3 DEF NoneWorse, Worse, WorseBy, PruneBlockIndexCandidates
  <2>4. CASE ~(IsValid(b, BLOCK_VALID_TRANSACTIONS) /\ b \in nChainTx)
    <3>1. Tip \in mapBlockIndex /\ Tip \in Block /\ setBlockIndexCandidates \subseteq Block
      BY Zenon, ChainLength, InvParts DEF TypeOK
    <3>2. b # Tip
      <4> SUFFICES ASSUME b = Tip PROVE FALSE
        BY Zenon
      <4>1. b \in nChainTx /\ b \in nTx /\ ~Failed(b)
        BY Zenon, <3>1, SelfAncestor, LinkParts, InvParts DEF Linked, Received, AllProcessed
      <4>2. nValid[b] \in {3, 5}
        BY Zenon, <3>1, <4>1, LinkParts DEF Stored
      <4>3. 3 >= 3 /\ 5 >= 3
        OBVIOUS
      <4> QED
        BY Zenon, <2>4, <4>1, <4>2, <4>3 DEF IsValid, BLOCK_VALID_TRANSACTIONS
    <3> SUFFICES ASSUME NEW c \in setBlockIndexCandidates \ {b} PROVE ~Worse(c, Tip)'
      BY Zenon, <2>1, <2>4 DEF NoneWorse
    <3>3. ~Worse(c, Tip)
      BY Zenon DEF NoneWorse
    <3> QED
      BY Zenon, <2>1, <2>2, <3>1, <3>2, <3>3 DEF Worse, WorseBy
  <2> QED
    BY Zenon, <2>3, <2>4
(* The other steps.                                                        *)
<1>Step. ASSUME NEW t \in Threads, Step(t) PROVE NoneWorse'
  <2> USE <1>Step
  <2> USE DEF indexVars, dataVars, failVars, linkVars, preciousVars, chainVars, pruneVars, threadVars
  <2>1. CASE AcceptBlockIgnored(t) \/ AcceptBlockInvalid(t) \/ ActivateBestChain(t)
             \/ FindMostWorkChainNone(t) \/ StepDone(t) \/ StepDisconnectFails(t)
    <3>1. UNCHANGED <<chainActive, nChainWork, nSequenceId, setBlockIndexCandidates>>
      BY Zenon, <2>1 DEF AcceptBlockIgnored, AcceptBlockInvalid, ActivateBestChain,
         FindMostWorkChainNone, StepDone, StepDisconnectFails
    <3> QED
      BY Zenon, <3>1, NoneWorseFrame
  <2>2. CASE ReceivedBlockTransactions(t)
    <3>1. UNCHANGED <<chainActive, nChainWork, nSequenceId, setBlockIndexCandidates>>
      BY Zenon, <2>2 DEF ReceivedBlockTransactions
    <3> QED
      BY Zenon, <3>1, NoneWorseFrame
  <2>3. ASSUME NEW c \in Block, FindMostWorkChainFound(t, c) PROVE NoneWorse'
    <3>1. UNCHANGED <<chainActive, nChainWork, nSequenceId, setBlockIndexCandidates>>
      BY Zenon, <2>3 DEF FindMostWorkChainFound
    <3> QED
      BY Zenon, <3>1, NoneWorseFrame
  <2>4. ASSUME NEW c \in Block, NEW bad \in Block, FindMostWorkChainRejected(t, c, bad)
        PROVE  NoneWorse'
    <3>1. UNCHANGED <<chainActive, nChainWork, nSequenceId>>
          /\ setBlockIndexCandidates' \subseteq setBlockIndexCandidates
      BY Zenon, <2>4 DEF FindMostWorkChainRejected
    <3> QED
      BY Zenon, <3>1, NoneWorseFrame
  <2>5. CASE StepDisconnect(t)
    <3>1. csMain = t /\ Tip # Genesis
      BY Zenon, <2>5, Holder, StepAboveGenesis, InvParts DEF StepDisconnect, Locked
    <3>2. /\ DisconnectTip(t) /\ UNCHANGED <<nHeight, nTx, haveUndo, fHavePruned>>
          /\ UNCHANGED <<nChainWork, nSequenceId, setBlockIndexCandidates>>
      BY Zenon, <2>5 DEF StepDisconnect
    <3>3. Tip' \in {Tip, HashPrev[Tip]}
      BY Zenon, <3>1, <3>2, TipMoves
    <3> QED
      BY Zenon, <3>1, <3>2, <3>3, <1>Disconnect
  <2>6. ASSUME NEW b \in Block, StepConnect(t, b) PROVE NoneWorse'
    <3>1. b \in mapBlockIndex \ {Genesis} /\ b \in nTx /\ HashPrev[b] = Tip
      BY Zenon, <2>6, NextReceived DEF StepConnect
    <3>2. CASE ConnectTipUnreadable(t, b) \/ ConnectTipInvalid(t, b) \/ ConnectTipFlushFails(t, b)
      <4>1. UNCHANGED <<chainActive, nChainWork, nSequenceId>>
            /\ setBlockIndexCandidates' \subseteq setBlockIndexCandidates
        BY Zenon, <3>2 DEF ConnectTipUnreadable, ConnectTipInvalid, ConnectTipFlushFails
      <4> QED
        BY Zenon, <4>1, NoneWorseFrame
    <3>3. CASE ConnectTipConnected(t, b)
      <4>1. /\ UNCHANGED <<nChainWork, nSequenceId>>
            /\ setBlockIndexCandidates' =
                 PruneBlockIndexCandidates(nSequenceId, setBlockIndexCandidates, b)
        BY Zenon, <3>3 DEF ConnectTipConnected
      <4>2. Tip' = b
        BY Zenon, <3>1, <3>3, ConnectedTip
      <4> QED
        BY Zenon, <4>1, <4>2 DEF NoneWorse, Worse, WorseBy, PruneBlockIndexCandidates
    <3> QED
      BY Zenon, <2>6, <3>2, <3>3 DEF StepConnect
  <2>7. CASE InvalidateDisconnect(t)
    <3>1. csMain = t /\ Tip # Genesis
      BY Zenon, <2>7, Holder, InvalidateAboveGenesis, InvParts DEF InvalidateDisconnect, Locked
    <3>2. /\ DisconnectTip(t) /\ UNCHANGED <<nHeight, nTx, haveUndo, fHavePruned>>
          /\ UNCHANGED <<nChainWork, nSequenceId>>
          /\ setBlockIndexCandidates' \subseteq setBlockIndexCandidates
      BY Zenon, <2>7 DEF InvalidateDisconnect
    <3>3. Tip' \in {Tip, HashPrev[Tip]}
      BY Zenon, <3>1, <3>2, TipMoves
    <3> QED
      BY Zenon, <3>1, <3>2, <3>3, <1>Disconnect
  <2>9. CASE InvalidateDisconnectFails(t)
    <3>1. UNCHANGED <<chainActive, nChainWork, nSequenceId>>
          /\ setBlockIndexCandidates' \subseteq setBlockIndexCandidates
      BY Zenon, <2>9 DEF InvalidateDisconnectFails
    <3> QED
      BY Zenon, <3>1, NoneWorseFrame
  <2>8. CASE InvalidateFinish(t)
    <3>1. /\ UNCHANGED <<chainActive, nChainWork, nSequenceId>> /\ Tip' = Tip
          /\ \A c \in setBlockIndexCandidates' : c \in setBlockIndexCandidates \/ ~Worse(c, Tip)
      BY Zenon, <2>8 DEF InvalidateFinish, Tip
    <3> QED
      BY Zenon, <3>1 DEF NoneWorse, Worse, WorseBy
  <2> QED
    BY Zenon, <2>1, <2>2, <2>3, <2>4, <2>5, <2>6, <2>7, <2>8, <2>9, <1>LinkBlock
       DEF Step
<1>Start.
  ASSUME NEW t \in Threads, NEW b \in Block, PreciousBlock(t, Tip) => ~Failed(Tip),
         \/ ProcessNewBlockHeaders(t, b) \/ ProcessNewBlock(t, b) \/ PreciousBlock(t, b)
         \/ InvalidateBlock(t, b) \/ ResetBlockFailureFlags(t, b)
  PROVE  NoneWorse'
  <2> USE <1>Start
  <2> USE DEF indexVars, dataVars, failVars, linkVars, preciousVars, chainVars, pruneVars, threadVars
  <2>1. CASE ProcessNewBlockHeaders(t, b) \/ ProcessNewBlock(t, b)
    <3>1. AddToBlockIndex(b) /\ UNCHANGED <<chainActive, setBlockIndexCandidates>>
      BY Zenon, <2>1 DEF ProcessNewBlockHeaders, ProcessNewBlock
    <3> QED
      BY Zenon, <3>1, <1>Header
  <2>2. CASE PreciousBlock(t, b)
    <3>1. b = Tip => ~Failed(Tip)
      BY Zenon, <2>2
    <3> QED
      BY Zenon, <2>2, <3>1, <1>PreciousBlock
  <2>3. CASE InvalidateBlock(t, b)
    <3>1. UNCHANGED <<chainActive, nChainWork, nSequenceId>>
          /\ setBlockIndexCandidates' \subseteq setBlockIndexCandidates
      BY Zenon, <2>3 DEF InvalidateBlock
    <3> QED
      BY Zenon, <3>1, NoneWorseFrame
  <2>4. CASE ResetBlockFailureFlags(t, b)
    <3>1. /\ UNCHANGED <<chainActive, nChainWork, nSequenceId>> /\ Tip' = Tip
          /\ \A c \in setBlockIndexCandidates' :
               c \in setBlockIndexCandidates \/ (c \in mapBlockIndex /\ Worse(Tip, c))
      BY Zenon, <2>4 DEF ResetBlockFailureFlags, Tip
    <3>2. \A c \in mapBlockIndex : Worse(Tip, c) => ~Worse(c, Tip)
      BY Zenon, WorkOrder, ChainLength, InvParts DEF TypeOK
    <3> QED
      BY Zenon, <3>1, <3>2 DEF NoneWorse, Worse, WorseBy
  <2> QED
    BY Zenon, <2>1, <2>2, <2>3, <2>4
<1> SUFFICES ASSUME [Next]_vars, \A t \in Threads : PreciousBlock(t, Tip) => ~Failed(Tip)
             PROVE  NoneWorse'
  BY Zenon
<1>1. ASSUME NEW t \in Threads, Start(t) PROVE NoneWorse'
  BY Zenon, <1>1, <1>Start DEF Start
<1>2. CASE UNCHANGED vars
  <2>1. UNCHANGED <<chainActive, nChainWork, nSequenceId, setBlockIndexCandidates>>
    BY Zenon, <1>2 DEF vars, chainVars, indexVars
  <2> QED
    BY Zenon, <2>1, NoneWorseFrame
<1> QED
  BY Zenon, <1>1, <1>2, <1>Step, NeverPruned DEF Next

(* While nothing is pruned and preciousblock is not called for a tip that  *)
(* has failed, no candidate is worse than the tip and every candidate was  *)
(* received with all its ancestors, however the threads and the operator's *)
(* calls interleave.                                                       *)
THEOREM CandidatesAlwaysSound ==
  ASSUME MaxCalls["prune"] = 0
  PROVE  Spec /\ PreciousTipsValid => []CandidatesSound
<1>1. Init => NoneWorse
  <2> SUFFICES ASSUME Init PROVE NoneWorse
    BY Zenon
  <2>1. Tip = Genesis /\ setBlockIndexCandidates = {Genesis}
    BY DEF Init, Tip
  <2>2. TypeOK /\ Genesis \in Block
    BY Zenon, InitInv, ChainAssumption, InvParts
  <2> QED
    BY Zenon, <2>1, <2>2, WorkOrder DEF NoneWorse
<1>2. /\ Inv /\ LinkOK /\ NoneWorse /\ [Next]_vars
      /\ [\A t \in Threads : PreciousBlock(t, Tip) => ~Failed(Tip)]_vars
      => (Inv /\ LinkOK /\ NoneWorse)'
  <2> SUFFICES ASSUME Inv, LinkOK, NoneWorse, [Next]_vars,
                      [\A t \in Threads : PreciousBlock(t, Tip) => ~Failed(Tip)]_vars
               PROVE  (Inv /\ LinkOK /\ NoneWorse)'
    BY Zenon
  <2>1. Inv' /\ LinkOK'
    BY Zenon, NextInv, NextLinks
  <2>2. CASE \A t \in Threads : PreciousBlock(t, Tip) => ~Failed(Tip)
    BY Zenon, <2>1, <2>2, NextNoneWorse
  <2>3. CASE UNCHANGED vars
    <3>1. UNCHANGED <<chainActive, nChainWork, nSequenceId, setBlockIndexCandidates>>
      BY Zenon, <2>3 DEF vars, chainVars, indexVars
    <3> QED
      BY Zenon, <2>1, <3>1, NoneWorseFrame
  <2> QED
    BY Zenon, <2>1, <2>2, <2>3
<1>3. Inv /\ LinkOK /\ NoneWorse => CandidatesSound
  BY Zenon, InvParts DEF Received, NoneWorse, CandidatesSound
<1> QED
  BY <1>1, <1>2, <1>3, InitInv, InitLinks, PTL DEF Spec, PreciousTipsValid

=============================================================================
