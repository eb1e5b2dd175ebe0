------------------------------ MODULE MemPool -------------------------------
(* The transaction pool (txmempool.cpp) and the calls of validation.cpp     *)
(* that change it: AcceptToMemoryPool, the resurrection of a disconnected   *)
(* block, the cleaning up after a connected one, removeForReorg and the     *)
(* limits; with them the coins it looks its inputs up in, which the blocks  *)
(* change.  All of these hold cs_main, so one call runs at a time, but they *)
(* go through the transactions of a block one by one, and the pool is not   *)
(* consistent in between; each transaction is a step.                       *)
(*                                                                          *)
(* Sizes and signature operations are added and subtracted together with    *)
(* the counts, in the same calls, so every transaction has size 1 here and  *)
(* a fee rate is a fee.  What policy decides about a transaction on its own *)
(* (standardness, priority, the rolling minimum fee) may go either way.     *)
EXTENDS BlockCoins, FiniteSets, FiniteSetsExt, Functions

CONSTANTS Fee,           \* Fee[t]: nFee
          LockTime,      \* LockTime[t]: the last height t may not be mined at
          Sequence,      \* Sequence[t]: blocks its inputs must be old, 0 if any
          Replaceable,   \* transactions that opt in to replacement
          NoTx,
          Block, Base, HashPrev, Height, Ancestors, Vtx,
          NoBlock, NoUndo,
          COINBASE_MATURITY, LimitAncestors, LimitDescendants,
          MaxDescendantsToVisit, IncrementalRelayFee,
          MaxMempool,    \* transactions that fit -maxmempool
          MaxDelta       \* MaxDelta[t]: bound on the fee delta of t

(* Base stands for the chain before all the blocks that may change.         *)
(* CheckTransaction refuses a transaction without inputs.  A coinbase names *)
(* the height of its block (ContextualCheckBlock, from BIP34Height on), so  *)
(* blocks of different heights have different ones.                         *)
ASSUME MemPoolAssumption ==
  /\ NoTx \notin Tx
  /\ Coinbase \subseteq Tx /\ Replaceable \subseteq Tx
  /\ \A t \in Tx \ Coinbase : Vin[t] # <<>>
  /\ Fee \in [Tx -> Nat]
  /\ Vtx \in [Block -> Seq(Tx)] /\ Height \in [Block -> Nat \ {0}]
  /\ \A b \in Block : IsBlock(Vtx[b])
  /\ Base \in Block
  /\ HashPrev \in [Block \ {Base} -> Block]
  /\ Ancestors \in [Block -> SUBSET Block]
  /\ Ancestors[Base] = {Base} /\ \A b \in Block : Base \in Ancestors[b]
  /\ \A b \in Block \ {Base} : /\ Ancestors[b] = Ancestors[HashPrev[b]] \cup {b}
                               /\ Height[b] = Height[HashPrev[b]] + 1
  /\ \A a, b \in Block : Vtx[a][1] = Vtx[b][1] => Height[a] = Height[b]
  /\ ConnectBlock([t \in Tx |-> Pruned], Vtx[Base], Height[Base]).valid

VARIABLES
  pool,           \* mapTx, mapLinks, mapNextTx and the entries
  mapDeltas,      \* fees added by PrioritiseTransaction
  coins,          \* what pcoinsTip holds
  coinsTip,       \* GetBestBlock() of pcoinsTip
  undo,           \* the undo data written for each block
  tip,            \* chainActive.Tip()
  op,             \* the call that holds cs_main
  pc,             \* and where it is
  todo,           \* transactions of the block it still has to go through
  vHashUpdate,    \* the resurrected ones
  target          \* pindexMostWork, or the block to invalidate

control == <<op, pc, todo, vHashUpdate, target>>
chain == <<coins, coinsTip, undo, tip>>
vars == <<pool, mapDeltas, chain, control>>

(* An entry that is not in the pool has no state.                           *)
Empty ==
  [mapTx |-> {}, mapNextTx |-> [o \in OutPoint |-> NoTx],
   parents |-> [t \in Tx |-> {}], children |-> [t \in Tx |-> {}],
   feeDelta |-> [t \in Tx |-> 0],
   lockHeight |-> [t \in Tx |-> 0], maxInputBlock |-> [t \in Tx |-> NoBlock],
   nCountWithDescendants |-> [t \in Tx |-> 0],
   nModFeesWithDescendants |-> [t \in Tx |-> 0],
   nCountWithAncestors |-> [t \in Tx |-> 0],
   nModFeesWithAncestors |-> [t \in Tx |-> 0]]

Init ==
  /\ pool = Empty
  /\ mapDeltas = [t \in Tx |-> 0]
  /\ coins = ConnectBlock([t \in Tx |-> Pruned], Vtx[Base], Height[Base]).coins
  /\ coinsTip = Base /\ tip = Base
  /\ undo = [b \in Block |-> NoUndo]
  /\ op = "none" /\ pc = "idle"
  /\ todo = <<>> /\ vHashUpdate = <<>> /\ target = NoBlock

-----------------------------------------------------------------------------
(* Inputs.                                                                  *)

Prevouts(t) == Range(Vin[t])
HaveCoins(t) == ~IsPruned(coins[t])
CoinHeight(t) == coins[t].nHeight
AncestorAt(b, h) == CHOOSE a \in Ancestors[b] : Height[a] = h

(* CCoinsViewMemPool: the outputs of a transaction of the pool, or else the *)
(* coins.                                                                   *)
MEMPOOL_HEIGHT == 2147483647
HaveInputs(p, t) ==
  \A o \in Prevouts(t) :
    IsAvailable(IF o[1] \in p.mapTx THEN FromTx(o[1], MEMPOOL_HEIGHT) ELSE coins[o[1]], o[2])

CheckFinalTx(t) == LockTime[t] < Height[tip] + 1

(* A coinbase of the coins may not be spent in a block of this height.      *)
Immature(t, height) ==
  coins[t].fCoinBase /\ height - CoinHeight(t) < COINBASE_MATURITY

(* CalculateSequenceLocks and the lock points CheckSequenceLocks keeps: an  *)
(* input of the pool counts as confirmed in the next block.                 *)
PrevHeights(p, t) ==
  {IF o[1] \in p.mapTx THEN Height[tip] + 1 ELSE CoinHeight(o[1]) :
     o \in Prevouts(t)}
CalculateSequenceLocks(p, t) ==
  IF Sequence[t] = 0 THEN -1
  ELSE Max({h + Sequence[t] - 1 : h \in PrevHeights(p, t)})
MaxInputBlock(p, t) ==
  LET heights == IF Sequence[t] = 0 THEN {} ELSE PrevHeights(p, t) \ {Height[tip] + 1}
  IN IF heights = {} THEN Base ELSE AncestorAt(tip, Max(heights))
EvaluateSequenceLocks(lock) == lock < Height[tip] + 1

-----------------------------------------------------------------------------
(* Walks along mapLinks.                                                    *)

(* What a walk from S along links reaches in D: the least set that contains *)
(* S and is closed under links.                                             *)
Reach(links, S, D) ==
  {t \in D : \A X \in SUBSET D :
     ((S \cap D) \subseteq X /\ \A u \in X : links[u] \cap D \subseteq X) => t \in X}

CalculateDescendants(p, S) == Reach(p.children, S, p.mapTx)
Descendants(p, t) == CalculateDescendants(p, {t}) \ {t}
(* fSearchForParents = false.                                               *)
LinkedAncestors(p, t) == Reach(p.parents, p.parents[t], p.mapTx)
(* fSearchForParents = true: the first step looks the inputs up.            *)
Parents(p, t) == {o[1] : o \in Prevouts(t)} \cap p.mapTx
SearchedAncestors(p, t) == Reach(p.parents, Parents(p, t), p.mapTx)

WithinLimits(p, t) ==
  LET ancestors == SearchedAncestors(p, t)
  IN /\ Cardinality(ancestors) + 1 <= LimitAncestors
     /\ \A a \in ancestors : p.nCountWithDescendants[a] + 1 <= LimitDescendants

GetModifiedFee(p, t) == Fee[t] + p.feeDelta[t]
ModifiedFees(p, S) == MapThenSumSet(LAMBDA t : GetModifiedFee(p, t), S)

(* update_descendant_state and update_ancestor_state: every entry e gains   *)
(* (sign 1) or loses (sign -1) the entries of[e].                           *)
UpdateDescendantState(p, sign, of) ==
  [p EXCEPT
     !.nCountWithDescendants =
        [t \in Tx |-> @[t] + sign * Cardinality(of[t])],
     !.nModFeesWithDescendants =
        [t \in Tx |-> @[t] + sign * ModifiedFees(p, of[t])]]
UpdateAncestorState(p, sign, of) ==
  [p EXCEPT
     !.nCountWithAncestors =
        [t \in Tx |-> @[t] + sign * Cardinality(of[t])],
     !.nModFeesWithAncestors =
        [t \in Tx |-> @[t] + sign * ModifiedFees(p, of[t])]]

-----------------------------------------------------------------------------
(* Additions and removals.                                                  *)

Cleared(f, S, none) == [t \in Tx |-> IF t \in S THEN none ELSE f[t]]

removeUnchecked(p, S) ==
  [p EXCEPT
     !.mapTx = @ \ S,
     !.mapNextTx =
        [o \in OutPoint |-> IF \E r \in S : o \in Prevouts(r) THEN NoTx ELSE @[o]],
     !.parents = Cleared(@, S, {}), !.children = Cleared(@, S, {}),
     !.feeDelta = Cleared(@, S, 0),
     !.lockHeight = Cleared(@, S, 0), !.maxInputBlock = Cleared(@, S, NoBlock),
     !.nCountWithDescendants = Cleared(@, S, 0),
     !.nModFeesWithDescendants = Cleared(@, S, 0),
     !.nCountWithAncestors = Cleared(@, S, 0),
     !.nModFeesWithAncestors = Cleared(@, S, 0)]

(* Mutant: the ancestors are looked up by the inputs.                       *)
SearchForRemoveFromMempool(p, S, updateDescendants) ==
  LET q == IF updateDescendants
           THEN UpdateAncestorState(p, -1, [d \in Tx |-> {r \in S : d \in Descendants(p, r)}])
           ELSE p
      s == UpdateDescendantState(q, -1, [a \in Tx |-> {r \in S : a \in SearchedAncestors(p, r)}])
  IN [s EXCEPT
        !.children = [t \in Tx |-> @[t] \ {r \in S : t \in p.parents[r]}],
        !.parents = [t \in Tx |-> @[t] \ {r \in S : t \in p.children[r]}]]

(* The statistics of the descendants (only when they stay), those of the    *)
(* ancestors reached along the links, then the links themselves.            *)
UpdateForRemoveFromMempool(p, S, updateDescendants) ==
  LET q == IF updateDescendants
           THEN UpdateAncestorState(p, -1, [d \in Tx |-> {r \in S : d \in Descendants(p, r)}])
           ELSE p
      s == UpdateDescendantState(q, -1, [a \in Tx |-> {r \in S : a \in LinkedAncestors(p, r)}])
  IN [s EXCEPT
        !.children = [t \in Tx |-> @[t] \ {r \in S : t \in p.parents[r]}],
        !.parents = [t \in Tx |-> @[t] \ {r \in S : t \in p.children[r]}]]

RemoveStaged(p, S, updateDescendants) ==
  removeUnchecked(UpdateForRemoveFromMempool(p, S, updateDescendants), S)

(* If t is not in the pool, what spends its outputs is removed.             *)
removeRecursive(p, t) ==
  LET spenders == {p.mapNextTx[<<t, n>>] : n \in Index} \ {NoTx}
      txToRemove == IF t \in p.mapTx THEN {t} ELSE spenders
  IN RemoveStaged(p, CalculateDescendants(p, txToRemove), FALSE)

Conflicts(p, t) == {p.mapNextTx[o] : o \in Prevouts(t)} \ {NoTx, t}
removeConflicts(p, t) ==
  RemoveStaged(p, CalculateDescendants(p, Conflicts(p, t)), FALSE)

(* The new entry is linked to its parents, never to children.               *)
addUnchecked(p, t, setAncestors) ==
  LET parents == Parents(p, t)
      q == [p EXCEPT
              !.mapTx = @ \cup {t},
              !.mapNextTx =
                 [o \in OutPoint |-> IF o \in Prevouts(t) /\ @[o] = NoTx THEN t ELSE @[o]],
              !.feeDelta[t] = mapDeltas[t],
              !.lockHeight[t] = CalculateSequenceLocks(p, t),
              !.maxInputBlock[t] = MaxInputBlock(p, t),
              !.parents[t] = parents,
              !.children = [u \in Tx |-> IF u \in parents THEN @[u] \cup {t} ELSE @[u]]]
      self == {t}
      s == UpdateDescendantState(q, 1,
             [a \in Tx |-> IF a \in setAncestors \cup self THEN self ELSE {}])
  IN UpdateAncestorState(s, 1, [d \in Tx |-> IF d = t THEN setAncestors \cup self ELSE {}])

-----------------------------------------------------------------------------
(* AcceptToMemoryPoolWorker: what it asks of t, and what it does.           *)

(* The rules for replacing conflicting transactions.                        *)
MayReplace(p, t, conflicts) ==
  LET evicted == CalculateDescendants(p, conflicts)
      fees == Fee[t] + mapDeltas[t]
      parents == UNION {{o[1] : o \in Prevouts(c)} : c \in conflicts}
  IN /\ \A c \in conflicts : fees > GetModifiedFee(p, c)
     /\ MapThenSumSet(LAMBDA c : p.nCountWithDescendants[c], conflicts)
          <= MaxDescendantsToVisit
     /\ Parents(p, t) \subseteq parents
     /\ fees - ModifiedFees(p, evicted) >= IncrementalRelayFee

Admissible(p, t) ==
  LET conflicts == Conflicts(p, t)
  IN /\ t \notin Coinbase /\ CheckFinalTx(t)
     /\ t \notin p.mapTx /\ conflicts \subseteq Replaceable
     /\ ~HaveCoins(t) /\ HaveInputs(p, t)
     /\ EvaluateSequenceLocks(CalculateSequenceLocks(p, t))
     /\ WithinLimits(p, t)
     /\ SearchedAncestors(p, t) \cap conflicts = {}
     /\ conflicts # {} => MayReplace(p, t, conflicts)
     /\ \A o \in Prevouts(t) :
          o[1] \notin p.mapTx => ~Immature(o[1], Height[coinsTip] + 1)

(* Mutant: the conflicts are not removed.                                   *)
AdmitBesides(p, t) == addUnchecked(p, t, SearchedAncestors(p, t))

Admit(p, t) ==
  addUnchecked(RemoveStaged(p, CalculateDescendants(p, Conflicts(p, t)), FALSE),
               t, SearchedAncestors(p, t))

(* A transaction arrives; if it is not refused, the limits are applied next.*)
AcceptToMemoryPool(t) ==
  /\ pc = "idle"
  /\ Admissible(pool, t)
  /\ pool' = Admit(pool, t)
  /\ op' = "accept" /\ pc' = "expire"
  /\ UNCHANGED <<mapDeltas, chain, todo, vHashUpdate, target>>

(* LoadMempool calls it without cs_main, so it may come between the parts   *)
(* of another call, wherever that one does not hold the lock of the pool.   *)
PrioritiseTransaction(t) ==
  /\ pc \notin {"update", "block", "trim"}
  /\ mapDeltas[t] < MaxDelta[t]
  /\ mapDeltas' = [mapDeltas EXCEPT ![t] = @ + 1]
  /\ pool' = IF t \notin pool.mapTx THEN pool
             ELSE LET own == mapDeltas'[t] - pool.feeDelta[t]
                      Gain(u, S) == IF u = t THEN own ELSE IF u \in S THEN 1 ELSE 0
                  IN [pool EXCEPT
                        !.feeDelta[t] = mapDeltas'[t],
                        !.nModFeesWithDescendants =
                           [u \in Tx |-> @[u] + Gain(u, LinkedAncestors(pool, t))],
                        !.nModFeesWithAncestors =
                           [u \in Tx |-> @[u] + Gain(u, Descendants(pool, t))]]
  /\ UNCHANGED <<chain, control>>

-----------------------------------------------------------------------------
(* LimitMempoolSize.                                                        *)

Return == /\ pc' = "idle" /\ op' = "none" /\ target' = NoBlock
          /\ UNCHANGED <<todo, vHashUpdate>>

(* Any entries may have become too old.                                     *)
Expire ==
  /\ pc = "expire" /\ pc' = "trim"
  /\ \E S \in SUBSET pool.mapTx :
       pool' = RemoveStaged(pool, CalculateDescendants(pool, S), FALSE)
  /\ UNCHANGED <<mapDeltas, chain, op, todo, vHashUpdate, target>>

(* CompareTxMemPoolEntryByDescendantScore: the fee rate of an entry, or of  *)
(* the entry with its descendants if that is higher.                        *)
DescendantScore(p, t) ==
  IF p.nModFeesWithDescendants[t] > GetModifiedFee(p, t) * p.nCountWithDescendants[t]
  THEN <<p.nModFeesWithDescendants[t], p.nCountWithDescendants[t]>>
  ELSE <<GetModifiedFee(p, t), 1>>
LowestScore(p, t) ==
  \A u \in p.mapTx :
    LET a == DescendantScore(p, t)
        b == DescendantScore(p, u)
    IN a[1] * b[2] <= b[1] * a[2]

TrimToSize ==
  /\ pc = "trim"
  /\ IF Cardinality(pool.mapTx) > MaxMempool
     THEN /\ \E t \in pool.mapTx :
               /\ LowestScore(pool, t)
               /\ pool' = RemoveStaged(pool, CalculateDescendants(pool, {t}), FALSE)
          /\ UNCHANGED control
     ELSE /\ IF op = "invalidate"
             THEN pc' = "removeForReorg" /\ UNCHANGED <<op, todo, vHashUpdate, target>>
             ELSE Return
          /\ UNCHANGED pool
  /\ UNCHANGED <<mapDeltas, chain>>

-----------------------------------------------------------------------------
(* ActivateBestChainStep and InvalidateBlock.                               *)

(* The step returns at the first tip with more work than the old one: b is  *)
(* the ancestor of pindexMostWork at that height. Work is height.           *)
ActivateBestChainStep(b) ==
  /\ pc = "idle"
  /\ Height[b] = Height[tip] + 1
  /\ op' = "step" /\ pc' = "move" /\ target' = b
  /\ UNCHANGED <<pool, mapDeltas, chain, todo, vHashUpdate>>

InvalidateBlock(b) ==
  /\ pc = "idle"
  /\ b \in Ancestors[tip] \ {Base}
  /\ op' = "invalidate" /\ pc' = "move" /\ target' = b
  /\ UNCHANGED <<pool, mapDeltas, chain, todo, vHashUpdate>>

(* The coins go back first, chainActive follows when the pool is done.      *)
DisconnectTip ==
  /\ pc = "move"
  /\ IF op = "invalidate" THEN target \in Ancestors[tip]
     ELSE tip \notin Ancestors[target]
  /\ LET undone == DisconnectBlock(coins, Vtx[tip], Height[tip], undo[tip])
     IN undone.fClean /\ coins' = undone.coins
  /\ coinsTip' = HashPrev[tip]
  /\ todo' = Vtx[tip] /\ vHashUpdate' = <<>>
  /\ op' = IF op = "step" THEN "reorg" ELSE op
  /\ pc' = "resurrect"
  /\ UNCHANGED <<pool, mapDeltas, undo, tip, target>>

(* Each transaction of the block is put back, or, if it is refused, what    *)
(* depends on it is removed.                                                *)
Resurrect ==
  /\ pc = "resurrect"
  /\ todo # <<>>
  /\ LET t == Head(todo)
     IN \/ /\ Admissible(pool, t)
           /\ pool' = Admit(pool, t)
           /\ vHashUpdate' = Append(vHashUpdate, t)
        \/ /\ pool' = removeRecursive(pool, t)
           /\ UNCHANGED vHashUpdate
  /\ todo' = Tail(todo)
  /\ UNCHANGED <<mapDeltas, chain, op, pc, target>>

(* UpdateTransactionsFromBlock goes through them backwards.                 *)
Resurrected ==
  /\ pc = "resurrect" /\ todo = <<>>
  /\ pc' = "update" /\ todo' = vHashUpdate
  /\ UNCHANGED <<pool, mapDeltas, chain, op, vHashUpdate, target>>

(* Mutant: the descendants within the block are counted again.              *)
UpdateForAllDescendants(p, t, setExclude) ==
  LET children == ({p.mapNextTx[<<t, n>>] : n \in Index} \ {NoTx}) \ setExclude
      q == [p EXCEPT
              !.children[t] = @ \cup children,
              !.parents = [u \in Tx |-> IF u \in children THEN @[u] \cup {t} ELSE @[u]]]
      found == Descendants(q, t)
      s == UpdateDescendantState(q, 1, [a \in Tx |-> IF a = t THEN found ELSE {}])
  IN UpdateAncestorState(s, 1, [d \in Tx |-> IF d \in found \ setExclude THEN {t} ELSE {}])

(* Children outside the block are linked, and the descendants outside it    *)
(* are accounted for.                                                       *)
UpdateForDescendants(p, t, setExclude) ==
  LET children == ({p.mapNextTx[<<t, n>>] : n \in Index} \ {NoTx}) \ setExclude
      q == [p EXCEPT
              !.children[t] = @ \cup children,
              !.parents = [u \in Tx |-> IF u \in children THEN @[u] \cup {t} ELSE @[u]]]
      found == Descendants(q, t) \ setExclude
      s == UpdateDescendantState(q, 1, [a \in Tx |-> IF a = t THEN found ELSE {}])
  IN UpdateAncestorState(s, 1, [d \in Tx |-> IF d \in found THEN {t} ELSE {}])

UpdateTransactionsFromBlock ==
  /\ pc = "update"
  /\ todo # <<>>
  /\ LET t == todo[Len(todo)]
     IN pool' = IF t \in pool.mapTx
                THEN UpdateForDescendants(pool, t, Range(vHashUpdate)) ELSE pool
  /\ todo' = SubSeq(todo, 1, Len(todo) - 1)
  /\ UNCHANGED <<mapDeltas, chain, op, pc, vHashUpdate, target>>

(* UpdateTip: chainActive gets to the block of the coins.                   *)
UpdateTip ==
  /\ pc \in {"update", "block"} /\ todo = <<>>
  /\ tip' = coinsTip /\ pc' = "move" /\ vHashUpdate' = <<>>
  /\ UNCHANGED <<pool, mapDeltas, coins, coinsTip, undo, op, todo, target>>

(* The undo data is written when the block is connected for the first time. *)
ConnectTip ==
  /\ pc = "move" /\ op # "invalidate"
  /\ \E b \in Ancestors[target] \ {Base} :
       /\ HashPrev[b] = tip
       /\ LET done == ConnectBlock(coins, Vtx[b], Height[b])
          IN /\ done.valid
             /\ coins' = done.coins
             /\ undo' = IF undo[b] = NoUndo THEN [undo EXCEPT ![b] = done.vtxundo] ELSE undo
       /\ coinsTip' = b /\ todo' = Vtx[b]
  /\ pc' = "block"
  /\ UNCHANGED <<pool, mapDeltas, tip, op, vHashUpdate, target>>

(* Mutant: the descendants of a confirmed transaction keep counting it.     *)
removeForBlockAlone ==
  /\ pc = "block"
  /\ todo # <<>>
  /\ LET t == Head(todo)
         p == IF t \in pool.mapTx THEN RemoveStaged(pool, {t}, FALSE) ELSE pool
         conflicts == Conflicts(p, t)
     IN /\ pool' = removeConflicts(p, t)
        /\ mapDeltas' = Cleared(mapDeltas, conflicts \cup {t}, 0)
  /\ todo' = Tail(todo)
  /\ UNCHANGED <<chain, op, pc, vHashUpdate, target>>

(* A conflict below another one may be gone before its turn to have its     *)
(* prioritisation cleared comes.                                            *)
removeForBlock ==
  /\ pc = "block"
  /\ todo # <<>>
  /\ LET t == Head(todo)
         p == IF t \in pool.mapTx THEN RemoveStaged(pool, {t}, TRUE) ELSE pool
         conflicts == Conflicts(p, t)
     IN /\ pool' = removeConflicts(p, t)
        /\ \E kept \in SUBSET {c \in conflicts : \E a \in conflicts : c \in Descendants(p, a)} :
             mapDeltas' = Cleared(mapDeltas, (conflicts \ kept) \cup {t}, 0)
  /\ todo' = Tail(todo)
  /\ UNCHANGED <<chain, op, pc, vHashUpdate, target>>

(* The call ends at its target, when the tip has more work than before, or  *)
(* at a block that cannot be connected.                                     *)
Moved ==
  /\ pc = "move"
  /\ IF op = "invalidate" THEN target \notin Ancestors[tip]
     ELSE tip \in Ancestors[target]
  /\ CASE op = "step" -> Return
       [] op = "reorg" -> pc' = "removeForReorg" /\ UNCHANGED <<op, todo, vHashUpdate, target>>
       [] op = "invalidate" -> pc' = "expire" /\ UNCHANGED <<op, todo, vHashUpdate, target>>
  /\ UNCHANGED <<pool, mapDeltas, chain>>

(* Mutant: lock points are taken to stand for ever.                         *)
TrustLockPoint(p, t) == TRUE

(* TestLockPointValidity: the lock points stand as long as the highest      *)
(* block they were computed from is in chainActive.                         *)
TestLockPointValidity(p, t) == p.maxInputBlock[t] \in Ancestors[tip]

(* (Where an input is gone, AccessCoins may still find a spent entry of the *)
(* cache; it never is, what depended on a refused transaction went with it.)*)
NoLongerMinable(p, t) ==
  LET gone == \E o \in Prevouts(t) : o[1] \notin p.mapTx /\ ~HaveCoins(o[1])
      spendsCoinbase == \E o \in Prevouts(t) : o[1] \in Coinbase
  IN \/ ~CheckFinalTx(t)
     \/ IF TestLockPointValidity(p, t) THEN ~EvaluateSequenceLocks(p.lockHeight[t])
        ELSE gone \/ ~EvaluateSequenceLocks(CalculateSequenceLocks(p, t))
     \/ spendsCoinbase /\ (gone \/ \E o \in Prevouts(t) :
           o[1] \notin p.mapTx /\ Immature(o[1], Height[tip] + 1))

removeForReorg ==
  /\ pc = "removeForReorg"
  /\ LET txToRemove == {t \in pool.mapTx : NoLongerMinable(pool, t)}
         renewed == {t \in pool.mapTx \ txToRemove : ~TestLockPointValidity(pool, t)}
         p == [pool EXCEPT
                 !.lockHeight =
                    [t \in Tx |-> IF t \in renewed THEN CalculateSequenceLocks(pool, t) ELSE @[t]],
                 !.maxInputBlock =
                    [t \in Tx |-> IF t \in renewed THEN MaxInputBlock(pool, t) ELSE @[t]]]
     IN pool' = RemoveStaged(p, CalculateDescendants(p, txToRemove), FALSE)
  /\ IF op = "invalidate" THEN Return
     ELSE pc' = "expire" /\ UNCHANGED <<op, todo, vHashUpdate, target>>
  /\ UNCHANGED <<mapDeltas, chain>>

Next ==
  \/ \E t \in Tx : AcceptToMemoryPool(t) \/ PrioritiseTransaction(t)
  \/ \E b \in Block : ActivateBestChainStep(b) \/ InvalidateBlock(b)
  \/ DisconnectTip \/ Resurrect \/ Resurrected \/ UpdateTransactionsFromBlock
  \/ ConnectTip \/ removeForBlock \/ UpdateTip \/ Moved
  \/ removeForReorg \/ Expire \/ TrimToSize

Spec == Init /\ [][Next]_vars

-----------------------------------------------------------------------------
(* Properties.                                                              *)

(* A tip other than Base can be disconnected: none of the checks that       *)
(* DisconnectBlock makes against the undo data, be it from an earlier       *)
(* connection of the block, fails.                                          *)
TipUndoable ==
  pc = "move" /\ tip # Base =>
    DisconnectBlock(coins, Vtx[tip], Height[tip], undo[tip]).fClean

(* However the blocks were connected and disconnected, the coins are those  *)
(* of the chain up to the best block: of each of its transactions the       *)
(* outputs that none of them spends, with its height and coinbase flag, and *)
(* no null output at the end (the serialisation relies on that).  And the   *)
(* tip can be disconnected.                                                 *)
CoinsExact ==
  LET confirmed == UNION {Range(Vtx[a]) : a \in Ancestors[coinsTip]}
      spent == UNION {Prevouts(t) : t \in confirmed}
      Unspent(t) == {n \in 0..(Len(Vout[t]) - 1) :
                       Vout[t][n + 1] \notin Unspendable /\ <<t, n>> \notin spent}
      Holds(t, S) ==
        /\ \A n \in S : coins[t].vout[n + 1] = Vout[t][n + 1]
        /\ \A n \in 0..(Len(coins[t].vout) - 1) : IsAvailable(coins[t], n) => n \in S
        /\ Len(coins[t].vout) = Max(S) + 1
        /\ coins[t].fCoinBase <=> t \in Coinbase
        /\ \E a \in Ancestors[coinsTip] :
             t \in Range(Vtx[a]) /\ coins[t].nHeight = Height[a]
  IN /\ \A t \in Tx :
          IF t \notin confirmed \/ Unspent(t) = {} THEN coins[t] = Pruned
          ELSE Holds(t, Unspent(t))
     /\ TipUndoable

(* The statistics of an entry never reach zero, whatever is removed in the  *)
(* middle of a reorganization: the assertions of UpdateDescendantState and  *)
(* UpdateAncestorState.                                                     *)
TypeOK ==
  /\ pool.mapTx \subseteq Tx
  /\ pool.mapNextTx \in [OutPoint -> Tx \cup {NoTx}]
  /\ pool.parents \in [Tx -> SUBSET pool.mapTx]
  /\ pool.children \in [Tx -> SUBSET pool.mapTx]
  /\ \A t \in pool.mapTx :
       pool.nCountWithDescendants[t] > 0 /\ pool.nCountWithAncestors[t] > 0

(* At every moment, reorganizations included, an output is marked as spent  *)
(* by a transaction exactly if that transaction is in the pool and spends   *)
(* it (mapNextTx); so no two transactions of the pool spend the same.       *)
SpendsExact ==
  \A o \in OutPoint, t \in Tx :
    pool.mapNextTx[o] = t <=> t \in pool.mapTx /\ o \in Prevouts(t)

(* What CTxMemPool::check asserts: the links are the spends between entries *)
(* and the ancestor statistics are those of the ancestors.                  *)
LinksExact ==
  pc = "idle" =>
    \A t \in pool.mapTx :
      LET ancestors == SearchedAncestors(pool, t) \cup {t}
      IN /\ pool.parents[t] = Parents(pool, t)
         /\ pool.children[t] = {c \in pool.mapTx : t \in Parents(pool, c)}
         /\ pool.nCountWithAncestors[t] = Cardinality(ancestors)
         /\ pool.nModFeesWithAncestors[t] = ModifiedFees(pool, ancestors)

(* The descendant statistics, which check() only bounds, are exact as well: *)
(* they decide what TrimToSize evicts and what a replacement must pay.      *)
DescendantStateExact ==
  pc = "idle" =>
    \A t \in pool.mapTx :
      LET descendants == {d \in pool.mapTx : t \in SearchedAncestors(pool, d)} \cup {t}
      IN /\ pool.nCountWithDescendants[t] = Cardinality(descendants)
         /\ pool.nModFeesWithDescendants[t] = ModifiedFees(pool, descendants)

(* Whatever blocks came and went, every transaction of the pool may be      *)
(* mined in the next block or after its parents in the pool: inputs are     *)
(* there, final, old enough and mature, by the chain as it is now and not   *)
(* as the lock points remember it.                                          *)
PoolMinable ==
  pc = "idle" =>
    \A t \in pool.mapTx :
      /\ HaveInputs(pool, t) /\ CheckFinalTx(t)
      /\ EvaluateSequenceLocks(CalculateSequenceLocks(pool, t))
      /\ \A o \in Prevouts(t) : o[1] \notin pool.mapTx => ~Immature(o[1], Height[tip] + 1)
=============================================================================
