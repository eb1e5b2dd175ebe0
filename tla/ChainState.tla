----------------------------- MODULE ChainState -----------------------------
(***************************************************************************)
(* The block index and the active chain of validation.cpp: headers and     *)
(* blocks arrive in any order (ProcessNewBlockHeaders, ProcessNewBlock),   *)
(* blocks are linked to their ancestors (ReceivedBlockTransactions), the   *)
(* chain with the most work is activated step by step (ActivateBestChain), *)
(* and the operator marks blocks invalid, valid again or precious and      *)
(* prunes block files.                                                     *)
(*                                                                         *)
(* Several threads (message handler, RPC, block import) run these          *)
(* functions.  cs_main is the lock they share; an action below is one      *)
(* iteration of a loop of the code, and csMain says which thread holds the *)
(* lock from one iteration to the next.  ActivateBestChain gives the lock  *)
(* up between its iterations and keeps pindexMostWork across the gap.      *)
(*                                                                         *)
(* A block is a number, which also stands for the address of its           *)
(* CBlockIndex; a hash fixes the block's parent and its proof of work, so  *)
(* HashPrev and Proof are constants.                                       *)
(***************************************************************************)
EXTENDS Integers, Sequences, FiniteSets

CONSTANTS
  Block,              \* the blocks that exist in the network
  Genesis,
  HashPrev,           \* hashPrevBlock of every block but the genesis block
  Proof,              \* GetBlockProof
  BadContext,         \* blocks that CheckBlock/ContextualCheckBlock reject
  BadConnect,         \* blocks that ConnectBlock rejects
  Threads,
  NoBlock,            \* the NULL CBlockIndex*
  NoThread,
  MIN_BLOCKS_TO_KEEP,
  MaxCalls,           \* bound on the calls and faults of each kind
  MaxKinds            \* bound on the kinds that occur in one behaviour

Call == {"invalidate", "reconsider", "precious", "prune", "flusherror"}

(* The blocks are finitely many: every set of them has a cardinality.      *)
ASSUME ChainAssumption ==
  /\ Block \subseteq Nat /\ \A S \in SUBSET Block : Cardinality(S) \in Nat
  /\ Genesis \in Block
  /\ HashPrev \in [Block \ {Genesis} -> Block]
  /\ Proof \in [Block -> Nat \ {0}]
  /\ BadContext \subseteq Block \ {Genesis}
  /\ BadConnect \subseteq Block \ {Genesis}
  /\ NoBlock \notin Block
  /\ NoThread \notin Threads
  /\ MIN_BLOCKS_TO_KEEP \in Nat
  /\ MaxCalls \in [Call -> Nat]

VARIABLES
  mapBlockIndex,            \* the blocks whose header is known
  nHeight, nChainWork,      \* fields of CBlockIndex
  nSequenceId,
  nValid,                   \* nStatus & BLOCK_VALID_MASK
  haveData, haveUndo,       \* blocks with BLOCK_HAVE_DATA, BLOCK_HAVE_UNDO
  failedValid, failedChild, \* blocks with BLOCK_FAILED_VALID, BLOCK_FAILED_CHILD
  nTx,                      \* blocks with nTx > 0
  nChainTx,                 \* blocks with nChainTx # 0
  setBlockIndexCandidates,
  mapBlocksUnlinked,        \* the blocks b with an entry (b->pprev, b)
  chainActive,              \* vChain
  coinsBest,                \* pcoinsTip->GetBestBlock()
  pindexBestHeader, pindexBestInvalid,
  nBlockSequenceId, nBlockReverseSequenceId, nLastPreciousChainwork,
  fHavePruned,              \* "yes" or "no"
  lastStored,               \* the block stored last: its file is never pruned
  node,                     \* "running", or "stopping" after AbortNode
  csMain,                   \* the thread that holds cs_main
  pc,                       \* where each thread is
  arg,                      \* the block each thread was called with
  pindexMostWork,           \* local variable of ActivateBestChain
  pindexOldTip,             \* local variable of ActivateBestChainStep
  queue,                    \* local variable of ReceivedBlockTransactions
  nCalls                    \* calls of each kind so far

indexVars == <<mapBlockIndex, nHeight, nChainWork, pindexBestHeader>>
dataVars == <<haveData, haveUndo, nTx>>
failVars == <<failedValid, failedChild, pindexBestInvalid>>
linkVars == <<nChainTx, mapBlocksUnlinked, nBlockSequenceId>>
preciousVars == <<nBlockReverseSequenceId, nLastPreciousChainwork>>
chainVars == <<chainActive, coinsBest>>
pruneVars == <<fHavePruned, lastStored>>
threadVars == <<csMain, pc, arg, pindexMostWork, pindexOldTip, queue>>
vars == <<indexVars, dataVars, failVars, linkVars, preciousVars, chainVars,
          pruneVars, threadVars, nSequenceId, nValid,
          setBlockIndexCandidates, node, nCalls>>

-----------------------------------------------------------------------------
(* The block tree.                                                         *)

BLOCK_VALID_TREE == 2
BLOCK_VALID_TRANSACTIONS == 3
BLOCK_VALID_SCRIPTS == 5

PrevClosed(S) == \A b \in S : b # Genesis => HashPrev[b] \in S

(* b and its ancestors: the least set with b that is closed under pprev.   *)
Ancestors ==
  [b \in Block |-> {a \in Block :
     \A S \in SUBSET Block : (b \in S /\ PrevClosed(S)) => a \in S}]

Tip == chainActive[Len(chainActive)]

(* CChain::Contains                                                        *)
Contains(b) == nHeight[b] < Len(chainActive) /\ chainActive[nHeight[b] + 1] = b

Failed(b) == b \in failedValid \cup failedChild

(* CBlockIndex::IsValid(nUpTo)                                             *)
IsValid(b, nUpTo) == ~Failed(b) /\ nValid[b] >= nUpTo

(* CBlockIndex::RaiseValidity(nUpTo): the validity of b afterwards         *)
RaiseValidity(b, nUpTo) ==
  IF ~Failed(b) /\ nValid[b] < nUpTo THEN nUpTo ELSE nValid[b]

(* CBlockIndexWorkComparator()(a, b): a sorts before b, with sequence      *)
(* numbers seq.  Less work is worse, then received later, then a higher    *)
(* address.                                                                *)
WorseBy(seq, a, b) ==
  \/ nChainWork[a] < nChainWork[b]
  \/ /\ nChainWork[a] = nChainWork[b]
     /\ \/ seq[a] > seq[b]
        \/ seq[a] = seq[b] /\ a > b

Worse(a, b) == WorseBy(nSequenceId, a, b)

(* Mutants: the tip goes too; nothing goes.                                *)
PruneCandidatesWithTip(seq, cand, tip) == {c \in cand : WorseBy(seq, tip, c)}
PruneNoCandidates(seq, cand, tip) == cand

(* PruneBlockIndexCandidates on candidates cand and active tip tip         *)
PruneBlockIndexCandidates(seq, cand, tip) == {c \in cand : ~WorseBy(seq, c, tip)}

(* InvalidChainFound: pindexBestInvalid after b was found invalid          *)
InvalidChainFound(b) ==
  IF pindexBestInvalid = NoBlock THEN b
  ELSE IF nChainWork[b] > nChainWork[pindexBestInvalid] THEN b
  ELSE pindexBestInvalid

-----------------------------------------------------------------------------
Init ==
  /\ mapBlockIndex = {Genesis}
  /\ nHeight = [b \in Block |-> 0]
  /\ nChainWork = [b \in Block |-> IF b = Genesis THEN Proof[b] ELSE 0]
  /\ nSequenceId = [b \in Block |-> IF b = Genesis THEN 1 ELSE 0]
  /\ nValid = [b \in Block |->
                 IF b = Genesis THEN BLOCK_VALID_TRANSACTIONS ELSE 0]
  /\ haveData = {Genesis} /\ haveUndo = {}
  /\ failedValid = {} /\ failedChild = {}
  /\ nTx = {Genesis} /\ nChainTx = {Genesis}
  /\ setBlockIndexCandidates = {Genesis} /\ mapBlocksUnlinked = {}
  /\ chainActive = <<Genesis>> /\ coinsBest = Genesis
  /\ pindexBestHeader = Genesis /\ pindexBestInvalid = NoBlock
  /\ nBlockSequenceId = 2 /\ nBlockReverseSequenceId = -1
  /\ nLastPreciousChainwork = 0
  /\ fHavePruned = "no" /\ lastStored = Genesis
  /\ node = "running" /\ csMain = NoThread
  /\ pc = [t \in Threads |-> "idle"]
  /\ arg = [t \in Threads |-> NoBlock]
  /\ pindexMostWork = [t \in Threads |-> NoBlock]
  /\ pindexOldTip = NoBlock /\ queue = <<>>
  /\ nCalls = [c \in Call |-> 0]

(* A call that takes cs_main: thread t is idle and the lock is free.       *)
Enter(t) == node = "running" /\ pc[t] = "idle" /\ csMain = NoThread

(* The thread keeps the lock and goes to next.                             *)
Hold(t, next) == csMain' = t /\ pc' = [pc EXCEPT ![t] = next]

(* The thread leaves its critical section and goes to next.                *)
Release(t, next) == csMain' = NoThread /\ pc' = [pc EXCEPT ![t] = next]

(* The call of t is over.                                                  *)
Return(t) ==
  /\ Release(t, "idle")
  /\ arg' = [arg EXCEPT ![t] = NoBlock]
  /\ pindexMostWork' = [pindexMostWork EXCEPT ![t] = NoBlock]

(* The bounds MaxCalls and MaxKinds on operator calls and faults.          *)
KindAllowed(call) == Cardinality({c \in Call \ {call} : nCalls[c] > 0}) < MaxKinds

Count(call) ==
  /\ nCalls[call] < MaxCalls[call] /\ KindAllowed(call)
  /\ nCalls' = [nCalls EXCEPT ![call] = @ + 1]

-----------------------------------------------------------------------------
(* Headers and blocks arrive.                                              *)

(* AcceptBlockHeader returns true for the header of b.                     *)
HeaderAccepted(b) ==
  \/ b = Genesis
  \/ b \in mapBlockIndex /\ ~Failed(b)
  \/ /\ b \notin mapBlockIndex
     /\ HashPrev[b] \in mapBlockIndex /\ ~Failed(HashPrev[b])

AddToBlockIndex(b) ==
  IF b \in mapBlockIndex THEN UNCHANGED <<indexVars, nSequenceId, nValid>>
  ELSE /\ mapBlockIndex' = mapBlockIndex \cup {b}
       /\ nSequenceId' = [nSequenceId EXCEPT ![b] = 0]
       /\ nHeight' = [nHeight EXCEPT ![b] = nHeight[HashPrev[b]] + 1]
       /\ nChainWork' = [nChainWork EXCEPT ![b] = nChainWork[HashPrev[b]] + Proof[b]]
       /\ nValid' = [nValid EXCEPT ![b] = RaiseValidity(b, BLOCK_VALID_TREE)]
       /\ pindexBestHeader' =
            IF nChainWork[pindexBestHeader] < nChainWork[HashPrev[b]] + Proof[b]
            THEN b ELSE pindexBestHeader

ProcessNewBlockHeaders(t, b) ==
  /\ Enter(t)
  /\ HeaderAccepted(b)
  /\ AddToBlockIndex(b)
  /\ UNCHANGED <<dataVars, failVars, linkVars, preciousVars, chainVars, pruneVars,
                 threadVars, setBlockIndexCandidates, node, nCalls>>

(* ProcessNewBlock, up to the point where AcceptBlock has the header.      *)
ProcessNewBlock(t, b) ==
  /\ Enter(t)
  /\ HeaderAccepted(b)
  /\ AddToBlockIndex(b)
  /\ Hold(t, "accept")
  /\ arg' = [arg EXCEPT ![t] = b]
  /\ UNCHANGED <<dataVars, failVars, linkVars, preciousVars, chainVars, pruneVars,
                 pindexMostWork, pindexOldTip, queue,
                 setBlockIndexCandidates, node, nCalls>>

(* Mutant: no test for a block that is already there.                      *)
NotProcessedTwice(b, fRequested) ==
  ~fRequested /\ (b \in nTx \/ nChainWork[b] <= nChainWork[Tip])

(* AcceptBlock does not store b: it has it, or did not ask for it and it   *)
(* was pruned, has too little work or is too far ahead.  A whitelisted     *)
(* peer and -loadblock count as asked, for blocks of the active chain too. *)
NotProcessed(b, fRequested) ==
  \/ b \in haveData
  \/ /\ ~fRequested
     /\ \/ b \in nTx
        \/ nChainWork[b] <= nChainWork[Tip]
        \/ nHeight[b] > (Len(chainActive) - 1) + MIN_BLOCKS_TO_KEEP

AcceptBlockIgnored(t) ==
  /\ pc[t] = "accept"
  /\ \E fRequested \in BOOLEAN : NotProcessed(arg[t], fRequested)
  /\ Release(t, "accepted")
  /\ UNCHANGED <<indexVars, dataVars, failVars, linkVars, preciousVars, chainVars,
                 pruneVars, arg, pindexMostWork, pindexOldTip, queue, nSequenceId,
                 nValid, setBlockIndexCandidates, node, nCalls>>

(* CheckBlock and ContextualCheckBlock accept b.                           *)
ContextualCheckBlock(b) == b \notin BadContext

AcceptBlockInvalid(t) ==
  /\ pc[t] = "accept"
  /\ \E fRequested \in BOOLEAN : ~NotProcessed(arg[t], fRequested)
  /\ ~ContextualCheckBlock(arg[t])
  /\ failedValid' = failedValid \cup {arg[t]}
  /\ Return(t)
  /\ UNCHANGED <<indexVars, dataVars, failedChild, pindexBestInvalid, linkVars,
                 preciousVars, chainVars, pruneVars, pindexOldTip, queue,
                 nSequenceId, nValid, setBlockIndexCandidates, node, nCalls>>

(* pprev == NULL || pprev->nChainTx                                        *)
ParentLinked(b) == b # Genesis => HashPrev[b] \in nChainTx

(* The block is written to a block file and ReceivedBlockTransactions      *)
(* starts to link it, or leaves it to wait for its parent.                 *)
ReceivedBlockTransactions(t) ==
  LET b == arg[t] IN
  /\ pc[t] = "accept"
  /\ \E fRequested \in BOOLEAN : ~NotProcessed(b, fRequested)
  /\ ContextualCheckBlock(b)
  /\ nTx' = nTx \cup {b}
  /\ nChainTx' = nChainTx \ {b}
  /\ haveData' = haveData \cup {b}
  /\ nValid' = [nValid EXCEPT ![b] = RaiseValidity(b, BLOCK_VALID_TRANSACTIONS)]
  /\ lastStored' = b
  /\ \/ /\ ParentLinked(b)
        /\ queue' = <<b>>
        /\ Hold(t, "link")
        /\ UNCHANGED mapBlocksUnlinked
     \/ /\ ~ParentLinked(b)
        /\ mapBlocksUnlinked' =
             IF IsValid(HashPrev[b], BLOCK_VALID_TREE)
             THEN mapBlocksUnlinked \cup {b} ELSE mapBlocksUnlinked
        /\ Release(t, "accepted")
        /\ UNCHANGED queue
  /\ UNCHANGED <<indexVars, haveUndo, failVars, nBlockSequenceId, preciousVars,
                 chainVars, fHavePruned, arg, pindexMostWork, pindexOldTip,
                 nSequenceId, setBlockIndexCandidates, node, nCalls>>

(* The sequences that list every element of the finite set S once.         *)
Orders(S) == {s \in [1..Cardinality(S) -> S] :
                /\ \A c \in S : \E i \in DOMAIN s : s[i] = c
                /\ \A i, j \in DOMAIN s : s[i] = s[j] => i = j}

(* The entries of mapBlocksUnlinked with parent b.                         *)
Waiting(b) == {c \in mapBlocksUnlinked : HashPrev[c] = b}

(* One round of the queue of ReceivedBlockTransactions.  The order of the  *)
(* entries of one parent in the multimap is left open.                     *)
LinkBlock(t) ==
  LET b == Head(queue)
      seq == [nSequenceId EXCEPT ![b] = nBlockSequenceId]
  IN
  /\ pc[t] = "link"
  /\ nChainTx' = nChainTx \cup {b}
  /\ nSequenceId' = seq
  /\ nBlockSequenceId' = nBlockSequenceId + 1
  /\ setBlockIndexCandidates' =
       IF WorseBy(seq, b, Tip) THEN setBlockIndexCandidates
       ELSE setBlockIndexCandidates \cup {b}
  /\ mapBlocksUnlinked' = mapBlocksUnlinked \ Waiting(b)
  /\ \E s \in Orders(Waiting(b)) : queue' = Tail(queue) \o s
  /\ IF queue' = <<>> THEN Release(t, "accepted") ELSE Hold(t, "link")
  /\ UNCHANGED <<indexVars, dataVars, failVars, preciousVars, chainVars, pruneVars,
                 arg, pindexMostWork, pindexOldTip, nValid, node, nCalls>>

-----------------------------------------------------------------------------
(* ActivateBestChain.                                                      *)

(* The top of an iteration: take cs_main and decide what to do.            *)
ActivateBestChain(t) ==
  /\ pc[t] \in {"accepted", "abc"}
  /\ csMain = NoThread
  /\ \/ /\ node = "stopping" \/ pindexMostWork[t] = Tip
        /\ Return(t)
        /\ UNCHANGED pindexOldTip
     \/ /\ node = "running" /\ pindexMostWork[t] = NoBlock
        /\ Hold(t, "find")
        /\ UNCHANGED <<arg, pindexMostWork, pindexOldTip>>
     \/ /\ node = "running" /\ pindexMostWork[t] \notin {NoBlock, Tip}
        /\ Hold(t, "step")
        /\ pindexOldTip' = Tip
        /\ UNCHANGED <<arg, pindexMostWork>>
  /\ UNCHANGED <<indexVars, dataVars, failVars, linkVars, preciousVars, chainVars,
                 pruneVars, queue, nSequenceId, nValid, setBlockIndexCandidates,
                 node, nCalls>>

(* Mutant: failed blocks do not count.                                     *)
BlockingData(c) == {b \in Ancestors[c] : ~Contains(b) /\ b \notin haveData}

(* FindMostWorkChain looks at the best candidate c.  Blocking(c) are the   *)
(* blocks between c and the active chain that failed or have no data.      *)
Blocking(c) == {b \in Ancestors[c] : ~Contains(b) /\ (Failed(b) \/ b \notin haveData)}

FindMostWorkChainNone(t) ==
  /\ pc[t] = "find"
  /\ setBlockIndexCandidates = {}
  /\ Return(t)
  /\ UNCHANGED <<indexVars, dataVars, failVars, linkVars, preciousVars, chainVars,
                 pruneVars, pindexOldTip, queue, nSequenceId, nValid,
                 setBlockIndexCandidates, node, nCalls>>

FindMostWorkChainFound(t, c) ==
  /\ pc[t] = "find"
  /\ c \in setBlockIndexCandidates
  /\ \A d \in setBlockIndexCandidates : ~Worse(c, d)
  /\ Blocking(c) = {}
  /\ \/ /\ c = Tip
        /\ Return(t)
        /\ UNCHANGED pindexOldTip
     \/ /\ c # Tip
        /\ Hold(t, "step")
        /\ pindexMostWork' = [pindexMostWork EXCEPT ![t] = c]
        /\ pindexOldTip' = Tip
        /\ UNCHANGED arg
  /\ UNCHANGED <<indexVars, dataVars, failVars, linkVars, preciousVars, chainVars,
                 pruneVars, queue, nSequenceId, nValid, setBlockIndexCandidates,
                 node, nCalls>>

(* Mutants: all ancestors are taken, not only those above bad; the walk    *)
(* back to bad is missing.                                                 *)
AboveAll(c, bad) == Ancestors[c] \ {Genesis}
AboveNone(c, bad) == {}

(* The blocks from c down to bad, without bad.                             *)
Above(c, bad) == {b \in Ancestors[c] : nHeight[b] > nHeight[bad]}

(* The candidate cannot be used: bad is the blocking block nearest to it.  *)
(* Everything from the candidate down to bad leaves the candidates; what   *)
(* is above bad is marked failed, or waits in mapBlocksUnlinked for bad.   *)
FindMostWorkChainRejected(t, c, bad) ==
  /\ pc[t] = "find"
  /\ c \in setBlockIndexCandidates
  /\ \A d \in setBlockIndexCandidates : ~Worse(c, d)
  /\ bad \in Blocking(c)
  /\ \A b \in Blocking(c) : nHeight[b] <= nHeight[bad]
  /\ IF Failed(bad)
     THEN /\ failedChild' = failedChild \cup Above(c, bad)
          /\ pindexBestInvalid' = InvalidChainFound(c)
          /\ UNCHANGED mapBlocksUnlinked
     ELSE /\ mapBlocksUnlinked' = mapBlocksUnlinked \cup Above(c, bad)
          /\ UNCHANGED <<failedChild, pindexBestInvalid>>
  /\ setBlockIndexCandidates' = setBlockIndexCandidates \ (Above(c, bad) \cup {bad})
  /\ UNCHANGED <<indexVars, dataVars, failedValid, nChainTx, nBlockSequenceId,
                 preciousVars, chainVars, pruneVars, threadVars, nSequenceId,
                 nValid, node, nCalls>>

(* AbortNode: the call returns an error and the node shuts down.           *)
AbortNode(t) ==
  /\ node' = "stopping"
  /\ Return(t)
  /\ pindexOldTip' = NoBlock

(* DisconnectTip: without the data of the tip the node aborts; when the    *)
(* write of the chain state fails it aborts with pcoinsTip already at the  *)
(* parent; otherwise the tip is its parent and the thread goes on.         *)
DisconnectTip(t) ==
  LET prev == HashPrev[Tip] IN
  \/ /\ Tip \notin haveData
     /\ AbortNode(t)
     /\ UNCHANGED <<chainVars, nCalls>>
  \/ /\ Tip \in haveData \cap haveUndo
     /\ Count("flusherror")
     /\ coinsBest' = prev
     /\ AbortNode(t)
     /\ UNCHANGED chainActive
  \/ /\ Tip \in haveData \cap haveUndo
     /\ coinsBest' = prev
     /\ chainActive' = SubSeq(chainActive, 1, Len(chainActive) - 1)
     /\ UNCHANGED <<node, csMain, pc, arg, pindexMostWork, pindexOldTip, nCalls>>

(* ActivateBestChainStep disconnects the tip: it is not on the way to      *)
(* pindexMostWork.                                                         *)
StepDisconnect(t) ==
  /\ pc[t] = "step"
  /\ Tip \notin Ancestors[pindexMostWork[t]]
  /\ DisconnectTip(t)
  /\ UNCHANGED <<indexVars, dataVars, failVars, linkVars, preciousVars, pruneVars,
                 queue, nSequenceId, nValid, setBlockIndexCandidates>>

(* DisconnectBlock finds no undo data for the tip: "no undo data           *)
(* available".  DisconnectTip returns an error, but does not abort.        *)
NoUndoAvailable == Tip \in haveData \ haveUndo

(* ActivateBestChain gives up, with the tip where it is.                   *)
StepDisconnectFails(t) ==
  /\ pc[t] = "step"
  /\ Tip \notin Ancestors[pindexMostWork[t]]
  /\ NoUndoAvailable
  /\ Return(t)
  /\ pindexOldTip' = NoBlock
  /\ UNCHANGED <<indexVars, dataVars, failVars, linkVars, preciousVars, chainVars,
                 pruneVars, queue, nSequenceId, nValid, setBlockIndexCandidates,
                 node, nCalls>>

(* Mutant: ActivateBestChain does not loop.                                *)
EndStepOnce(t, tip, most) == pindexOldTip' = NoBlock /\ Return(t)

(* The end of ActivateBestChainStep with pindexMostWork = most: the lock   *)
(* is released and ActivateBestChain goes on unless the tip is most.       *)
EndStep(t, tip, most) ==
  /\ pindexOldTip' = NoBlock
  /\ IF tip = most THEN Return(t)
     ELSE /\ Release(t, "abc")
          /\ pindexMostWork' = [pindexMostWork EXCEPT ![t] = most]
          /\ UNCHANGED arg

(* Nothing is left to connect: pindexMostWork is the tip.                  *)
StepDone(t) ==
  /\ pc[t] = "step"
  /\ Tip = pindexMostWork[t]
  /\ EndStep(t, Tip, pindexMostWork[t])
  /\ UNCHANGED <<indexVars, dataVars, failVars, linkVars, preciousVars, chainVars,
                 pruneVars, queue, nSequenceId, nValid, setBlockIndexCandidates,
                 node, nCalls>>

(* ConnectTip for b, the next block on the way to pindexMostWork.          *)

(* The block is read from disk unless ActivateBestChain was handed it.     *)
Readable(t, b) == b \in haveData \/ (b = arg[t] /\ b = pindexMostWork[t])

ConnectTipUnreadable(t, b) ==
  /\ ~Readable(t, b)
  /\ AbortNode(t)
  /\ UNCHANGED <<indexVars, dataVars, failVars, linkVars, preciousVars, chainVars,
                 pruneVars, queue, nSequenceId, nValid, setBlockIndexCandidates,
                 nCalls>>

(* The transactions of b pass the checks of ConnectBlock.                  *)
ConnectBlockAccepts(b) == b \notin BadConnect

(* ConnectBlock finds b invalid: InvalidBlockFound, and pindexMostWork is  *)
(* wiped.                                                                  *)
ConnectTipInvalid(t, b) ==
  /\ Readable(t, b)
  /\ ~ConnectBlockAccepts(b)
  /\ failedValid' = failedValid \cup {b}
  /\ setBlockIndexCandidates' = setBlockIndexCandidates \ {b}
  /\ pindexBestInvalid' = InvalidChainFound(b)
  /\ EndStep(t, Tip, NoBlock)
  /\ UNCHANGED <<indexVars, dataVars, failedChild, linkVars, preciousVars,
                 chainVars, pruneVars, queue, nSequenceId, nValid, node, nCalls>>

(* Mutants: undo data is not written, or pcoinsTip keeps its best block.   *)
ConnectBlockNoUndo(b) ==
  /\ nValid' = [nValid EXCEPT ![b] = RaiseValidity(b, BLOCK_VALID_SCRIPTS)]
  /\ coinsBest' = b
  /\ UNCHANGED dataVars
ConnectBlockBestKept(b) ==
  /\ haveUndo' = haveUndo \cup {b}
  /\ nValid' = [nValid EXCEPT ![b] = RaiseValidity(b, BLOCK_VALID_SCRIPTS)]
  /\ UNCHANGED <<haveData, nTx, coinsBest>>

(* ConnectBlock succeeds: undo data is written, the validity is raised and *)
(* pcoinsTip moves to b.                                                   *)
ConnectBlock(b) ==
  /\ haveUndo' = haveUndo \cup {b}
  /\ nValid' = [nValid EXCEPT ![b] = RaiseValidity(b, BLOCK_VALID_SCRIPTS)]
  /\ coinsBest' = b
  /\ UNCHANGED <<haveData, nTx>>

ConnectTipFlushFails(t, b) ==
  /\ Readable(t, b)
  /\ ConnectBlockAccepts(b)
  /\ Count("flusherror")
  /\ ConnectBlock(b)
  /\ AbortNode(t)
  /\ UNCHANGED <<indexVars, failVars, linkVars, preciousVars, chainActive,
                 pruneVars, queue, nSequenceId, setBlockIndexCandidates>>

(* Mutant: any connected block counts as progress.                         *)
BetterAtOnce(b) == TRUE

(* "We're in a better position than we were."                              *)
BetterThanOldTip(b) == nChainWork[b] > nChainWork[pindexOldTip]

(* b is the new tip; candidates worse than it go.  The step ends when the  *)
(* tip has more work than the old one or is pindexMostWork.                *)
ConnectTipConnected(t, b) ==
  /\ Readable(t, b)
  /\ ConnectBlockAccepts(b)
  /\ ConnectBlock(b)
  /\ chainActive' = Append(chainActive, b)
  /\ setBlockIndexCandidates' =
       PruneBlockIndexCandidates(nSequenceId, setBlockIndexCandidates, b)
  /\ IF BetterThanOldTip(b) \/ b = pindexMostWork[t]
     THEN EndStep(t, b, pindexMostWork[t])
     ELSE UNCHANGED <<csMain, pc, arg, pindexMostWork, pindexOldTip>>
  /\ UNCHANGED <<indexVars, failVars, linkVars, preciousVars, pruneVars, queue,
                 nSequenceId, node, nCalls>>

(* Mutant: vpindexToConnect is walked from its front.                      *)
NextIsLast(t, b) == b = pindexMostWork[t] /\ Tip \in Ancestors[b] /\ Tip # b

(* b follows the tip on the way to pindexMostWork.                         *)
NextToConnect(t, b) ==
  b \in Ancestors[pindexMostWork[t]] \ {Genesis} /\ HashPrev[b] = Tip

StepConnect(t, b) ==
  /\ pc[t] = "step"
  /\ NextToConnect(t, b)
  /\ \/ ConnectTipUnreadable(t, b)
     \/ ConnectTipInvalid(t, b)
     \/ ConnectTipFlushFails(t, b)
     \/ ConnectTipConnected(t, b)

-----------------------------------------------------------------------------
(* RPC calls: preciousblock, invalidateblock, reconsiderblock.             *)

PreciousBlock(t, b) ==
  LET reverseId == IF nChainWork[Tip] > nLastPreciousChainwork
                   THEN -1 ELSE nBlockReverseSequenceId
      seq == [nSequenceId EXCEPT ![b] = reverseId]
      cand == setBlockIndexCandidates \ {b}
  IN
  /\ Enter(t)
  /\ b \in mapBlockIndex
  /\ nChainWork[b] >= nChainWork[Tip]
  /\ Count("precious")
  /\ nLastPreciousChainwork' = nChainWork[Tip]
  /\ nSequenceId' = seq
  /\ nBlockReverseSequenceId' = reverseId - 1
  /\ setBlockIndexCandidates' =
       IF IsValid(b, BLOCK_VALID_TRANSACTIONS) /\ b \in nChainTx
       THEN PruneBlockIndexCandidates(seq, cand \cup {b}, Tip) ELSE cand
  /\ Release(t, "abc")
  /\ UNCHANGED <<indexVars, dataVars, failVars, linkVars, chainVars, pruneVars,
                 arg, pindexMostWork, pindexOldTip, queue, nValid, node>>

(* InvalidateBlock marks b, then disconnects the active chain down to its  *)
(* parent, then restores the candidates.                                   *)
InvalidateBlock(t, b) ==
  /\ Enter(t)
  /\ b \in mapBlockIndex \ {Genesis}
  /\ Count("invalidate")
  /\ failedValid' = failedValid \cup {b}
  /\ setBlockIndexCandidates' = setBlockIndexCandidates \ {b}
  /\ arg' = [arg EXCEPT ![t] = b]
  /\ Hold(t, "invalidate")
  /\ UNCHANGED <<indexVars, dataVars, failedChild, pindexBestInvalid, linkVars,
                 preciousVars, chainVars, pruneVars, pindexMostWork, pindexOldTip,
                 queue, nSequenceId, nValid, node>>

InvalidateDisconnect(t) ==
  /\ pc[t] = "invalidate"
  /\ Contains(arg[t])
  /\ failedChild' = failedChild \cup {Tip}
  /\ setBlockIndexCandidates' = setBlockIndexCandidates \ {Tip}
  /\ DisconnectTip(t)
  /\ UNCHANGED <<indexVars, dataVars, failedValid, pindexBestInvalid, linkVars,
                 preciousVars, pruneVars, queue, nSequenceId, nValid>>

(* InvalidateBlock gives up without restoring the candidates, and the call *)
(* goes on to ActivateBestChain, since the state says nothing of an error. *)
InvalidateDisconnectFails(t) ==
  /\ pc[t] = "invalidate"
  /\ Contains(arg[t])
  /\ NoUndoAvailable
  /\ failedChild' = failedChild \cup {Tip}
  /\ setBlockIndexCandidates' = setBlockIndexCandidates \ {Tip}
  /\ arg' = [arg EXCEPT ![t] = NoBlock]
  /\ Release(t, "abc")
  /\ UNCHANGED <<indexVars, dataVars, failedValid, pindexBestInvalid, linkVars,
                 preciousVars, chainVars, pruneVars, pindexMostWork, pindexOldTip,
                 queue, nSequenceId, nValid, node, nCalls>>

(* The call then runs ActivateBestChain, without a block at hand.          *)
InvalidateFinish(t) ==
  /\ pc[t] = "invalidate"
  /\ ~Contains(arg[t])
  /\ setBlockIndexCandidates' = setBlockIndexCandidates \cup
       {b \in mapBlockIndex : /\ IsValid(b, BLOCK_VALID_TRANSACTIONS)
                              /\ b \in nChainTx
                              /\ ~Worse(b, Tip)}
  /\ pindexBestInvalid' = InvalidChainFound(arg[t])
  /\ arg' = [arg EXCEPT ![t] = NoBlock]
  /\ Release(t, "abc")
  /\ UNCHANGED <<indexVars, dataVars, failedValid, failedChild, linkVars,
                 preciousVars, chainVars, pruneVars, pindexMostWork, pindexOldTip,
                 queue, nSequenceId, nValid, node, nCalls>>

(* ResetBlockFailureFlags clears the flags of b, its descendants and its   *)
(* ancestors; only the descendants become candidates again.                *)
ResetBlockFailureFlags(t, b) ==
  LET below == {d \in mapBlockIndex : Failed(d) /\ b \in Ancestors[d]}
      reset == below \cup Ancestors[b]
  IN
  /\ Enter(t)
  /\ b \in mapBlockIndex
  /\ Count("reconsider")
  /\ failedValid' = failedValid \ reset
  /\ failedChild' = failedChild \ reset
  /\ setBlockIndexCandidates' = setBlockIndexCandidates \cup
       {d \in below : /\ nValid[d] >= BLOCK_VALID_TRANSACTIONS
                      /\ d \in nChainTx
                      /\ Worse(Tip, d)}
  /\ pindexBestInvalid' = IF pindexBestInvalid \in below THEN NoBlock
                          ELSE pindexBestInvalid
  /\ Release(t, "abc")
  /\ UNCHANGED <<indexVars, dataVars, linkVars, preciousVars, chainVars, pruneVars,
                 arg, pindexMostWork, pindexOldTip, queue, nSequenceId, nValid, node>>

-----------------------------------------------------------------------------
(* FindFilesToPrune, FindFilesToPruneManual: a block file whose blocks are *)
(* all at least MIN_BLOCKS_TO_KEEP below the tip, but not the one written  *)
(* last.  Every block is in a file of its own.                             *)
FindFilesToPrune ==
  {b \in haveData \ {lastStored} : nHeight[b] + MIN_BLOCKS_TO_KEEP <= nHeight[Tip]}

(* PruneOneBlockFile, from the FlushStateToDisk that ends AcceptBlock,     *)
(* ConnectTip or DisconnectTip, or from the pruneblockchain call.          *)
PruneOneBlockFile(b) ==
  /\ node = "running"
  /\ \A t \in Threads : csMain = t => pc[t] \in {"step", "invalidate"}
  /\ Count("prune")
  /\ b \in FindFilesToPrune
  /\ haveData' = haveData \ {b}
  /\ haveUndo' = haveUndo \ {b}
  /\ mapBlocksUnlinked' = mapBlocksUnlinked \ {b}
  /\ fHavePruned' = "yes"
  /\ UNCHANGED <<indexVars, nTx, failVars, nChainTx, nBlockSequenceId, preciousVars,
                 chainVars, lastStored, threadVars, nSequenceId, nValid,
                 setBlockIndexCandidates, node>>

-----------------------------------------------------------------------------
(* The next iteration of the call thread t is in.                          *)
Step(t) ==
  \/ AcceptBlockIgnored(t)
  \/ AcceptBlockInvalid(t)
  \/ ReceivedBlockTransactions(t)
  \/ LinkBlock(t)
  \/ ActivateBestChain(t)
  \/ FindMostWorkChainNone(t)
  \/ \E c \in Block : FindMostWorkChainFound(t, c)
  \/ \E c, bad \in Block : FindMostWorkChainRejected(t, c, bad)
  \/ StepDisconnect(t)
  \/ StepDisconnectFails(t)
  \/ StepDone(t)
  \/ \E b \in Block : StepConnect(t, b)
  \/ InvalidateDisconnect(t)
  \/ InvalidateDisconnectFails(t)
  \/ InvalidateFinish(t)

(* A message or an RPC request starts a call on thread t.                  *)
Start(t) ==
  \E b \in Block :
     \/ ProcessNewBlockHeaders(t, b)
     \/ ProcessNewBlock(t, b)
     \/ PreciousBlock(t, b)
     \/ InvalidateBlock(t, b)
     \/ ResetBlockFailureFlags(t, b)

Next ==
  \/ \E t \in Threads : Step(t) \/ Start(t)
  \/ \E b \in Block : PruneOneBlockFile(b)

Spec == Init /\ [][Next]_vars

(* A thread that can go on with its call does.                             *)
FairSpec == Spec /\ \A t \in Threads : WF_vars(Step(t))

-----------------------------------------------------------------------------
TypeOK ==
  /\ mapBlockIndex \subseteq Block
  /\ nHeight \in [Block -> Nat] /\ nChainWork \in [Block -> Nat]
  /\ nSequenceId \in [Block -> Int]
  /\ nValid \in [Block -> {0, 2, 3, 5}]
  /\ haveData \subseteq mapBlockIndex /\ haveUndo \subseteq mapBlockIndex
  /\ failedValid \subseteq mapBlockIndex /\ failedChild \subseteq mapBlockIndex
  /\ nTx \subseteq mapBlockIndex /\ nChainTx \subseteq mapBlockIndex
  /\ setBlockIndexCandidates \subseteq mapBlockIndex
  /\ mapBlocksUnlinked \subseteq mapBlockIndex
  /\ chainActive \in Seq(mapBlockIndex) /\ chainActive # <<>>
  /\ coinsBest \in mapBlockIndex
  /\ pindexBestHeader \in mapBlockIndex
  /\ pindexBestInvalid \in mapBlockIndex \cup {NoBlock}
  /\ nBlockSequenceId \in Nat /\ nBlockReverseSequenceId \in Int
  /\ nLastPreciousChainwork \in Nat
  /\ fHavePruned \in {"yes", "no"} /\ lastStored \in mapBlockIndex
  /\ node \in {"running", "stopping"}
  /\ csMain \in Threads \cup {NoThread}
  /\ pc \in [Threads -> {"idle", "accept", "link", "accepted", "abc", "find", "step",
                         "invalidate"}]
  /\ arg \in [Threads -> mapBlockIndex \cup {NoBlock}]
  /\ pindexMostWork \in [Threads -> mapBlockIndex \cup {NoBlock}]
  /\ pindexOldTip \in mapBlockIndex \cup {NoBlock}
  /\ queue \in Seq(mapBlockIndex)
  /\ nCalls \in [Call -> Nat]

(***************************************************************************)
(* CheckBlockIndex runs at the end of AcceptBlockHeader, after AcceptBlock *)
(* and at the end of ActivateBestChain: whenever the lock is free and some *)
(* thread is between two calls, or between AcceptBlock and                 *)
(* ActivateBestChain.  (The header part of ProcessNewBlock leaves the      *)
(* index as ProcessNewBlockHeaders does.)  From here to CheckBlockIndex    *)
(* are its assertions.                                                     *)
(***************************************************************************)
CheckPoint ==
  /\ node = "running" /\ csMain = NoThread
  /\ \E t \in Threads : pc[t] \in {"idle", "accepted"}

HasInvalid(b) == Ancestors[b] \cap failedValid # {}
AllProcessed(b) == Ancestors[b] \subseteq nTx
NoneMissing(b) == Ancestors[b] \subseteq haveData

(* The node has all it needs to make b its tip, and nothing against it.    *)
Usable(b) ==
  AllProcessed(b) /\ \A a \in Ancestors[b] : Contains(a) \/ (a \in haveData /\ ~Failed(a))

(* nChainTx is set only for blocks all of whose ancestors were received,   *)
(* and for all of them that the node could switch to, in whatever order    *)
(* they came; only blocks with nChainTx get a positive sequence number.    *)
UsableBlocksLinked ==
  CheckPoint => \A b \in mapBlockIndex :
    /\ b \in nChainTx => AllProcessed(b)
    /\ Usable(b) => b \in nChainTx
    /\ b \notin nChainTx => nSequenceId[b] <= 0

(* What the status bits say of a block agrees: TRANSACTIONS validity means *)
(* that the block was received, SCRIPTS validity is inherited by the       *)
(* ancestors, undo data comes with data, and data is lost only by pruning. *)
StatusConsistent ==
  CheckPoint =>
    /\ nTx = {b \in mapBlockIndex : nValid[b] >= BLOCK_VALID_TRANSACTIONS}
    /\ \A b \in mapBlockIndex : nValid[b] >= BLOCK_VALID_SCRIPTS =>
         \A a \in Ancestors[b] \ {Genesis} : nValid[a] >= BLOCK_VALID_SCRIPTS
    /\ haveUndo \subseteq haveData
    /\ haveData \subseteq nTx /\ (fHavePruned = "no" => haveData = nTx)

(* A failure flag always has a cause: a block with one has BLOCK_FAILED_-  *)
(* VALID itself or an ancestor with it.                                    *)
FailedHasCause ==
  CheckPoint => \A b \in mapBlockIndex : Failed(b) => HasInvalid(b)

(* Every block as good as the tip whose whole chain is there and not known *)
(* to be invalid is a candidate, and so is the tip.                        *)
CandidatesComplete ==
  CheckPoint => \A b \in mapBlockIndex :
    /\ ~Worse(b, Tip) /\ AllProcessed(b) /\ ~HasInvalid(b)
    /\ NoneMissing(b) \/ b = Tip
    => b \in setBlockIndexCandidates

(* No block worse than the tip and no block with an ancestor never         *)
(* received is a candidate.                                                *)
CandidatesSound ==
  CheckPoint => \A b \in setBlockIndexCandidates : ~Worse(b, Tip) /\ AllProcessed(b)

(* mapBlocksUnlinked holds the blocks with data that wait for a parent:    *)
(* all those with a parent never received and no invalid one, none without *)
(* data, and those better than the tip that lost an ancestor to pruning    *)
(* and are no candidates.  A block in it lacks an ancestor, or has an      *)
(* invalid one.                                                            *)
UnlinkedExact ==
  CheckPoint =>
    /\ mapBlocksUnlinked \subseteq haveData
    /\ \A b \in mapBlocksUnlinked : HasInvalid(b) \/ ~NoneMissing(b)
    /\ \A b \in haveData \ {Genesis} : ~HasInvalid(b) /\ ~NoneMissing(b) =>
         \/ b \in mapBlocksUnlinked
         \/ AllProcessed(b) /\ (Worse(b, Tip) \/ b \in setBlockIndexCandidates)

(* nChainTx is set for every block all of whose ancestors were received,   *)
(* and a block in mapBlocksUnlinked lacks an ancestor.                     *)
AllLinked ==
  CheckPoint =>
    /\ \A b \in mapBlockIndex : AllProcessed(b) => b \in nChainTx
    /\ \A b \in mapBlocksUnlinked : ~NoneMissing(b)

(* CheckBlockIndex: all it asserts of the block index and of the sets      *)
(* derived from it, whenever it runs.                                      *)
CheckBlockIndex ==
  /\ UsableBlocksLinked /\ StatusConsistent /\ FailedHasCause
  /\ CandidatesComplete /\ CandidatesSound /\ UnlinkedExact /\ AllLinked

(* Every stored block of the active chain can be disconnected.  A block    *)
(* that was pruned and stored again cannot: only its data came back.       *)
Undoable ==
  \A i \in 2..Len(chainActive) :
    chainActive[i] \in haveData => chainActive[i] \in haveUndo

(* All that CheckBlockIndex asserts holds as long as no block was          *)
(* invalidated or pruned.  After that AllLinked may fail: a block stored   *)
(* under an invalid parent, or pruned while it waits for its parent, is in *)
(* no queue and never linked, and a child of it waits although all the     *)
(* data is there.  The rest goes on to hold, and says that blocks the node *)
(* could switch to are not affected, unless a block of the active chain    *)
(* cannot be disconnected.                                                 *)
BlockIndexConsistent ==
  /\ nCalls["invalidate"] = 0 /\ fHavePruned = "no" => CheckBlockIndex
  /\ Undoable =>
       /\ UsableBlocksLinked /\ StatusConsistent /\ FailedHasCause
       /\ CandidatesComplete /\ CandidatesSound /\ UnlinkedExact

(* PruneBlockIndexCandidates asserts that a candidate is left: the tip or  *)
(* a successor it works towards.                                           *)
CandidatesNotEmpty ==
  node = "running" /\ csMain = NoThread /\ Undoable => setBlockIndexCandidates # {}

(* A block never changes its sequence number, by which the candidates are  *)
(* ordered, while it is one of them (std::set would lose track of it).     *)
CandidateOrderStable ==
  queue # <<>> => Head(queue) \notin setBlockIndexCandidates

(* The active chain leads from the genesis block over parent links, every  *)
(* block at its height, through blocks received with all their ancestors.  *)
ActiveChainLinked ==
  /\ chainActive[1] = Genesis
  /\ \A i \in 2..Len(chainActive) :
       chainActive[i] # Genesis /\ HashPrev[chainActive[i]] = chainActive[i - 1]
  /\ \A i \in 1..Len(chainActive) :
       nHeight[chainActive[i]] = i - 1 /\ chainActive[i] \in nTx

(* No block known to be invalid is on the active chain when the lock is    *)
(* free, whichever of ConnectBlock and invalidateblock said so, unless it  *)
(* could not be disconnected.                                              *)
ActiveChainNotFailed ==
  node = "running" /\ csMain = NoThread /\ Undoable =>
    \A i \in 1..Len(chainActive) : ~Failed(chainActive[i])

(* A block was received on top of b that has MIN_BLOCKS_TO_KEEP more.      *)
Buried(b) ==
  \E c \in nTx : b \in Ancestors[c] /\ nHeight[b] + MIN_BLOCKS_TO_KEEP <= nHeight[c]

(* A block of the active chain has its undo data, unless it was pruned     *)
(* when it was buried deep enough.  So DisconnectTip cannot fail for want  *)
(* of undo data in a reorganization that is less deep, whatever was stored *)
(* again meanwhile.                                                        *)
UndoDataAvailable ==
  \A i \in 2..Len(chainActive) : chainActive[i] \notin haveUndo =>
    fHavePruned = "yes" /\ Buried(chainActive[i])

(* The coins are those of the active tip, but for the one block that was   *)
(* being connected or disconnected when a failed flush stopped the node.   *)
CoinsAtTip ==
  \/ coinsBest = Tip
  \/ /\ node = "stopping"
     /\ \/ coinsBest # Genesis /\ HashPrev[coinsBest] = Tip
        \/ Tip # Genesis /\ HashPrev[Tip] = coinsBest

(* The states in which a thread holds cs_main.                             *)
Locked == {"accept", "link", "find", "step", "invalidate"}

(* The inductive invariant.  One thread at a time is inside a critical     *)
(* section, with the local variables that section uses.                    *)
Locking ==
  /\ \A t \in Threads : pc[t] \in Locked <=> csMain = t
  /\ node = "stopping" => csMain = NoThread
  /\ \A t \in Threads :
       /\ pc[t] \in {"accept", "invalidate"} => arg[t] # NoBlock
       /\ pc[t] = "invalidate" => arg[t] # Genesis
       /\ pc[t] = "step" => pindexMostWork[t] # NoBlock /\ pindexOldTip # NoBlock
       /\ pc[t] = "link" => queue # <<>>

(* The known headers form a tree with the genesis block as its root.       *)
KnownTree ==
  /\ Genesis \in mapBlockIndex /\ nHeight[Genesis] = 0
  /\ PrevClosed(mapBlockIndex)
  /\ \A b \in mapBlockIndex \ {Genesis} : nHeight[b] = nHeight[HashPrev[b]] + 1
  /\ \A b \in mapBlockIndex : Genesis \in Ancestors[b]

(* Whatever is linked, in line to be linked, a candidate or a target was   *)
(* received with all its ancestors.                                        *)
Received ==
  /\ \A b \in nChainTx \cup setBlockIndexCandidates : AllProcessed(b)
  /\ \A i \in 1..Len(queue) : AllProcessed(queue[i])
  /\ \A t \in Threads :
       pindexMostWork[t] # NoBlock => AllProcessed(pindexMostWork[t])
  /\ mapBlocksUnlinked \subseteq nTx \ {Genesis}

Inv ==
  /\ TypeOK /\ Locking /\ KnownTree /\ Received
  /\ ActiveChainLinked /\ UndoDataAvailable
  /\ CoinsAtTip /\ (node = "running" => coinsBest = Tip)

(* When every call has returned, no block the node has in full, with all   *)
(* it needs to switch to it and nothing known against it, beats the tip:   *)
(* "The result is either failure or an activated best chain".  Failure is  *)
(* a node that stops, or a block that cannot be disconnected.              *)
BestChainActivated ==
  node = "running" /\ Undoable /\ (\A t \in Threads : pc[t] = "idle") =>
    \A b \in mapBlockIndex : Usable(b) => ~Worse(Tip, b)

(* A step of ActivateBestChain that ends without having found an invalid   *)
(* block, or one that cannot be disconnected, leaves the tip with at least *)
(* the work it had before.                                                 *)
StepKeepsWork ==
  [][\A t \in Threads :
       pc[t] = "step" /\ pc'[t] # "step" /\ node' = "running" /\ Undoable
         /\ failedValid' = failedValid
       => nChainWork[Tip'] >= nChainWork[pindexOldTip]]_vars

(* Every call returns: the loops of FindMostWorkChain, ActivateBestChain   *)
(* and InvalidateBlock all end.                                            *)
CallsReturn == \A t \in Threads : pc[t] # "idle" ~> pc[t] = "idle"

=============================================================================
