------------------------ MODULE ChainSelectionProofs ------------------------
(***************************************************************************)
(* What the calls of one thread promise when they have returned, for every *)
(* tree of blocks and every sequence of calls without pruning and without  *)
(* reconsiderblock: the assertions of CheckBlockIndex, and that the best   *)
(* chain is active.                                                        *)
(***************************************************************************)
EXTENDS ChainStateProofs

-----------------------------------------------------------------------------
(* What a single thread h keeps when nothing is pruned or reconsidered.    *)

(* Every failure has a cause, and invalidateblock is one.                  *)
Caused ==
  /\ \A b \in mapBlockIndex : Failed(b) => HasInvalid(b)
  /\ \A t \in Threads : pc[t] = "invalidate" => arg[t] \in failedValid

(* A received block that is not linked waits, is in line or has a failed   *)
(* parent.                                                                 *)
Awaited ==
  \A b \in nTx \ nChainTx :
    b \in mapBlocksUnlinked \cup QueueSet \/ Failed(HashPrev[b])

(* The active chain is valid but for what invalidateblock is taking off.   *)
Validated(h) ==
  /\ Ancestors[Tip] \cap BadConnect = {}
  /\ \A b \in Ancestors[Tip] :
       /\ Failed(b) => pc[h] = "invalidate" /\ arg[h] \in Ancestors[b]
       /\ b # Genesis => nValid[b] = 5
  /\ \A b \in mapBlockIndex : nValid[b] = 5 =>
       \A a \in Ancestors[b] \ {Genesis} : nValid[a] = 5

(* R is a valid candidate, and everything linked and valid that is not     *)
(* worse than R is a candidate.                                            *)
Reference(R) ==
  /\ R \in setBlockIndexCandidates
  /\ ~HasInvalid(R) /\ Ancestors[R] \cap BadConnect = {}
  /\ \A b \in nChainTx : ~HasInvalid(b) /\ ~Worse(b, R) => b \in setBlockIndexCandidates

(* There is such a block; until ActivateBestChain starts it is the tip.    *)
Referenced(h) ==
  pc[h] # "invalidate" =>
    \E R \in Block :
      Reference(R) /\ (pc[h] \in {"idle", "accept", "link", "accepted"} => R = Tip)

(* A target is the best candidate and valid; without a target the tip is   *)
(* the best candidate when calls have returned.                            *)
Targeted(h) ==
  /\ pc[h] \in {"idle", "accept"} => \A c \in setBlockIndexCandidates : ~Worse(Tip, c)
  /\ pc[h] \notin {"abc", "step"} => pindexMostWork[h] = NoBlock
  /\ pindexMostWork[h] # NoBlock =>
       /\ pindexMostWork[h] \in setBlockIndexCandidates
       /\ \A c \in setBlockIndexCandidates : ~Worse(pindexMostWork[h], c)
       /\ ~HasInvalid(pindexMostWork[h])
       /\ pc[h] = "step" => nChainWork[pindexMostWork[h]] >= nChainWork[pindexOldTip]

(* The sequence numbers preciousblock has given out are above the next one *)
(* where it matters: among valid blocks with the work of the last call.    *)
Numbered ==
  \A b \in nChainTx : ~HasInvalid(b) =>
    /\ nChainWork[b] > nLastPreciousChainwork => nSequenceId[b] >= 0
    /\ nChainWork[b] >= nLastPreciousChainwork => nSequenceId[b] > nBlockReverseSequenceId

Selection(h) ==
  Caused /\ Awaited /\ Validated(h) /\ Referenced(h) /\ Targeted(h) /\ Numbered

SingleInv(h) == fHavePruned = "no" /\ (node = "running" => Selection(h) /\ NoneWorse)

(* preciousblock is not called after the active chain has lost work since  *)
(* the last call.                                                          *)
PreciousExtends ==
  [][\A t \in Threads, b \in Block :
       PreciousBlock(t, b) => nChainWork[Tip] >= nLastPreciousChainwork]_vars

(* What it says, for proofs that need not expand it.                       *)
LEMMA SelectionParts ==
  ASSUME NEW h, Selection(h)
  PROVE  Caused /\ Awaited /\ Validated(h) /\ Referenced(h) /\ Targeted(h) /\ Numbered
  BY Zenon DEF Selection

-----------------------------------------------------------------------------
(* One thread: the parts of Selection that a step leaves alone.            *)

(* What has an invalid ancestor passes it on to its descendants.           *)
LEMMA InvalidPassesOn ==
  ASSUME NEW b \in Block, NEW a \in Ancestors[b], HasInvalid(a) PROVE HasInvalid(b)
  BY Zenon, AncestorsOfAncestor DEF HasInvalid

(* Failures keep their causes while invalid blocks stay marked.            *)
LEMMA CausedFrame ==
  ASSUME Caused, mapBlockIndex \subseteq Block,
         failedValid \subseteq failedValid', mapBlockIndex \subseteq mapBlockIndex',
         \A b \in mapBlockIndex' : Failed(b)' =>
            \/ b \in mapBlockIndex /\ Failed(b)
            \/ Ancestors[b] \cap failedValid' # {},
         \A u \in Threads : pc'[u] = "invalidate" => arg'[u] \in failedValid'
  PROVE  Caused'
<1>1. \A b \in mapBlockIndex' : Failed(b)' => Ancestors[b] \cap failedValid' # {}
  BY Zenon DEF Caused, HasInvalid
<1> QED
  BY Zenon, <1>1 DEF Caused, HasInvalid

(* Received blocks stay where they wait while nothing is linked.           *)
LEMMA AwaitedFrame ==
  ASSUME Awaited, UNCHANGED <<nTx, nChainTx, mapBlocksUnlinked, queue>>,
         failedValid \cup failedChild \subseteq failedValid' \cup failedChild'
  PROVE  Awaited'
<1>1. QueueSet' = QueueSet
  BY Zenon DEF QueueSet
<1> QED
  BY Zenon, <1>1 DEF Awaited, Failed

(* The active chain stays valid while no block of it fails.                *)
LEMMA ValidatedFrame ==
  ASSUME NEW h, Inv, Validated(h), pc[h] # "invalidate",
         UNCHANGED <<mapBlockIndex, chainActive, nValid>>,
         \A b \in Ancestors[Tip] : Failed(b)' => Failed(b)
  PROVE  Validated(h)'
<1>1. Tip' = Tip
  BY Zenon DEF Tip
<1>2. \A b \in Ancestors[Tip] : ~Failed(b)'
  BY Zenon DEF Validated
<1> QED
  BY Zenon, <1>1, <1>2 DEF Validated

(* The sequence numbers stay in order while none is given out.             *)
LEMMA NumberedFrame ==
  ASSUME Numbered, UNCHANGED <<nChainTx, nChainWork, nSequenceId, preciousVars>>,
         failedValid \subseteq failedValid'
  PROVE  Numbered'
<1>1. \A b : HasInvalid(b) => HasInvalid(b)'
  BY Zenon DEF HasInvalid
<1> QED
  BY Zenon, <1>1 DEF Numbered, preciousVars

(* A reference block stays one while it and everything that is not worse   *)
(* and valid stay candidates.                                              *)
LEMMA ReferenceFrame ==
  ASSUME NEW R, Reference(R), UNCHANGED <<nChainTx, nChainWork, nSequenceId>>,
         failedValid \subseteq failedValid', Ancestors[R] \cap failedValid' = {},
         \A b \in setBlockIndexCandidates :
            ~Worse(b, R) /\ Ancestors[b] \cap failedValid' = {} => b \in setBlockIndexCandidates',
         ~Worse(R, R)
  PROVE  Reference(R)'
<1>1. R \in setBlockIndexCandidates'
  BY Zenon DEF Reference
<1>2. ASSUME NEW b \in nChainTx', ~HasInvalid(b)', ~Worse(b, R)'
      PROVE  b \in setBlockIndexCandidates'
  <2>1. b \in nChainTx /\ ~HasInvalid(b) /\ Ancestors[b] \cap failedValid' = {}
    BY Zenon, <1>2 DEF HasInvalid
  <2>2. ~Worse(b, R)
    BY Zenon, <1>2 DEF Worse, WorseBy
  <2> QED
    BY Zenon, <2>1, <2>2 DEF Reference
<1> QED
  BY Zenon, <1>1, <1>2 DEF Reference, HasInvalid

(* The best candidate is a reference block if it is valid.                 *)
LEMMA BestIsReference ==
  ASSUME Inv, NEW R \in Block, Reference(R),
         NEW m \in setBlockIndexCandidates, \A c \in setBlockIndexCandidates : ~Worse(m, c),
         ~HasInvalid(m), Ancestors[m] \cap BadConnect = {}
  PROVE  Reference(m)
<1>1. ~Worse(m, R)
  BY Zenon DEF Reference
<1> SUFFICES ASSUME NEW b \in nChainTx, ~HasInvalid(b), ~Worse(b, m)
             PROVE  b \in setBlockIndexCandidates
  BY Zenon DEF Reference
<1>2. b \in Block /\ m \in Block
  BY Zenon, InvParts DEF TypeOK
<1>3. ~Worse(b, R)
  BY Zenon, <1>1, <1>2, WorkOrder, InvParts
<1> QED
  BY Zenon, <1>3 DEF Reference

(* A tip that has not failed has no invalid ancestor.                      *)
LEMMA ValidTip ==
  ASSUME Inv, NEW h, Validated(h), pc[h] # "invalidate"
  PROVE  ~HasInvalid(Tip) /\ Ancestors[Tip] \cap BadConnect = {}
  BY Zenon DEF Validated, HasInvalid, Failed

(* A linked block with no invalid ancestor passes the test for candidates. *)
LEMMA ValidCandidate ==
  ASSUME Inv, LinkOK, Caused, NEW c \in nChainTx, ~HasInvalid(c)
  PROVE  c \in mapBlockIndex /\ IsValid(c, BLOCK_VALID_TRANSACTIONS)
<1>1. c \in mapBlockIndex /\ c \in Block
  BY Zenon, InvParts DEF TypeOK
<1>2. c \in nTx /\ ~Failed(c)
  BY Zenon, <1>1, SelfAncestor, InvParts DEF Caused, Received, AllProcessed
<1>3. nValid[c] \in {3, 5}
  BY Zenon, <1>1, <1>2, LinkParts DEF Stored
<1>4. 3 >= 3 /\ 5 >= 3
  OBVIOUS
<1> QED
  BY Zenon, <1>1, <1>2, <1>3, <1>4 DEF IsValid, BLOCK_VALID_TRANSACTIONS

-----------------------------------------------------------------------------
(* One thread: its steps keep Selection.                                   *)

(* It holds of the index with only the genesis block.                      *)
LEMMA InitSelection == ASSUME NEW h, Threads = {h} PROVE Init => SingleInv(h)
<1> SUFFICES ASSUME Init PROVE Selection(h) /\ NoneWorse
  BY Zenon DEF SingleInv, Init
<1> USE DEF Init
<1>1. Tip = Genesis /\ Genesis \in Block /\ TypeOK
  <2>1. Tip = Genesis
    BY DEF Tip
  <2> QED
    BY Zenon, <2>1, InitInv, ChainAssumption, InvParts
<1>2. /\ mapBlockIndex = {Genesis} /\ nTx = {Genesis} /\ nChainTx = {Genesis}
      /\ setBlockIndexCandidates = {Genesis} /\ failedValid = {} /\ failedChild = {}
      /\ pc[h] = "idle" /\ pindexMostWork[h] = NoBlock
  BY Zenon
<1>3. ~Worse(Genesis, Genesis) /\ Ancestors[Genesis] = {Genesis}
  BY Zenon, <1>1, WorkOrder, AncestorsOfGenesis
<1>4. NoneWorse /\ Targeted(h)
  BY Zenon, <1>1, <1>2, <1>3 DEF NoneWorse, Targeted
<1>5. Caused /\ Awaited
  BY Zenon, <1>2 DEF Caused, Awaited, Failed
<1>6. Genesis \notin BadConnect
  BY Zenon, ChainAssumption
<1>7. Validated(h)
  BY Zenon, <1>1, <1>2, <1>3, <1>6 DEF Validated, Failed
<1>8. Reference(Genesis)
  BY Zenon, <1>2, <1>3, <1>6 DEF Reference, HasInvalid
<1>9. Referenced(h)
  BY Zenon, <1>1, <1>8 DEF Referenced
<1>10. Numbered
  <2>1. nSequenceId[Genesis] = 1 /\ nBlockReverseSequenceId = -1
    BY Zenon, <1>1
  <2>2. 1 >= 0 /\ 1 > -1
    OBVIOUS
  <2> QED
    BY Zenon, <1>2, <2>1, <2>2 DEF Numbered
<1> QED
  BY Zenon, <1>4, <1>5, <1>7, <1>9, <1>10 DEF Selection

(* Without pruning a tip above the genesis block has its undo data.        *)
LEMMA TipHasUndo ==
  ASSUME Inv, fHavePruned = "no", Tip # Genesis PROVE ~NoUndoAvailable
<1>1. Len(chainActive) \in Nat /\ Len(chainActive) > 0
  BY Zenon, ChainLength, InvParts
<1>2. Len(chainActive) # 1
  BY Zenon, InvParts DEF ActiveChainLinked, Tip
<1>3. Len(chainActive) \in 2..Len(chainActive)
  <2> DEFINE n == Len(chainActive)
  <2>1. n \in Nat /\ n > 0 /\ n # 1
    BY Zenon, <1>1, <1>2
  <2> HIDE DEF n
  <2>2. n \in 2..n
    BY <2>1
  <2> QED
    BY Zenon, <2>2 DEF n
<1>4. "no" # "yes"
  OBVIOUS
<1> QED
  BY Zenon, <1>3, <1>4, InvParts DEF UndoDataAvailable, NoUndoAvailable, Tip

(* Every step of the one thread keeps Selection while the node runs.       *)
LEMMA NextSelection ==
  ASSUME NEW h, Threads = {h}, MaxCalls["prune"] = 0, MaxCalls["reconsider"] = 0,
         Inv, Inv', LinkOK, LinkOK', Selection(h), NoneWorse, fHavePruned = "no",
         node = "running", node' = "running"
  PROVE  Next /\ (\A b \in Block :
                     PreciousBlock(h, b) => nChainWork[Tip] >= nLastPreciousChainwork)
         => Selection(h)'
(* A header adds a block that is neither stored, linked nor failed.        *)
<1>Header.
  ASSUME NEW b \in Block, HeaderAccepted(b), AddToBlockIndex(b), pc[h] = "idle",
         pc'[h] \in {"idle", "accept"},
         UNCHANGED <<dataVars, failVars, linkVars, preciousVars, chainVars, queue,
                     setBlockIndexCandidates, pindexMostWork>>
  PROVE  Selection(h)'
  <2> USE <1>Header
  <2> USE DEF dataVars, failVars, linkVars, preciousVars, chainVars
  <2>1. TypeOK /\ mapBlockIndex \subseteq Block /\ Tip \in mapBlockIndex /\ Tip' = Tip
    BY Zenon, ChainLength, InvParts DEF TypeOK, Tip
  <2>2. /\ mapBlockIndex \subseteq mapBlockIndex' /\ mapBlockIndex' \subseteq mapBlockIndex \cup {b}
        /\ \A c \in mapBlockIndex : nChainWork'[c] = nChainWork[c]
                                    /\ nSequenceId'[c] = nSequenceId[c] /\ nValid'[c] = nValid[c]
        /\ \A c, d \in mapBlockIndex : Worse(c, d)' = Worse(c, d)
    <3>1. mapBlockIndex \subseteq mapBlockIndex' /\ mapBlockIndex' \subseteq mapBlockIndex \cup {b}
      BY Zenon DEF AddToBlockIndex, indexVars
    <3> QED
      BY Zenon, <3>1, KnownKept
  <2>3. nChainTx \subseteq mapBlockIndex /\ setBlockIndexCandidates \subseteq mapBlockIndex
        /\ nTx \subseteq mapBlockIndex
    BY Zenon, <2>1 DEF TypeOK
  <2>4. Caused'
    <3>1. \A c \in mapBlockIndex' : Failed(c)' => c \in mapBlockIndex /\ Failed(c)
      BY Zenon, <2>1 DEF Failed, TypeOK
    <3>2. \A u \in Threads : pc'[u] # "invalidate"
      BY Zenon
    <3> QED
      BY Zenon, <2>1, <2>2, <3>1, <3>2, CausedFrame, SelectionParts
  <2>5. Awaited'
    BY Zenon, AwaitedFrame, SelectionParts
  <2>6. Validated(h)'
    <3>1. Ancestors[Tip] \subseteq mapBlockIndex
      BY Zenon, <2>1, AncestorsKnown, InvParts
    <3>2. \A c \in Ancestors[Tip] : ~Failed(c)' /\ (c # Genesis => nValid'[c] = 5)
      BY Zenon, <2>2, <3>1, SelectionParts DEF Validated, Failed
    <3>3. ASSUME NEW c \in mapBlockIndex', nValid'[c] = 5, NEW a \in Ancestors[c] \ {Genesis}
          PROVE  nValid'[a] = 5
      <4>1. CASE c \in mapBlockIndex
        <5>1. nValid[c] = 5 /\ a \in mapBlockIndex
          BY Zenon, <2>1, <2>2, <3>3, <4>1, AncestorsKnown, InvParts
        <5> QED
          BY Zenon, <2>2, <3>3, <4>1, <5>1, SelectionParts DEF Validated
      <4>2. CASE c \notin mapBlockIndex
        <5>1. c \notin nTx'
          BY Zenon, <2>3, <4>2
        <5>2. nValid'[c] \notin {3, 5}
          BY Zenon, <3>3, <5>1 DEF LinkOK, Stored
        <5> QED
          BY Zenon, <3>3, <5>2
      <4> QED
        BY Zenon, <4>1, <4>2
    <3> QED
      BY Zenon, <2>1, <3>2, <3>3, SelectionParts DEF Validated
  <2>7. Reference(Tip)
    BY Zenon, SelectionParts DEF Referenced
  <2>8. PICK R \in Block : R = Tip
    BY Zenon, <2>1
  <2>9. Reference(R)'
    BY Zenon, <2>1, <2>2, <2>3, <2>7, <2>8 DEF Reference, HasInvalid
  <2>10. Referenced(h)'
    BY Zenon, <2>1, <2>8, <2>9 DEF Referenced
  <2>11. Targeted(h)'
    BY Zenon, <2>1, <2>2, <2>3, SelectionParts DEF Targeted
  <2>12. Numbered'
    BY Zenon, <2>2, <2>3, SelectionParts DEF Numbered, HasInvalid
  <2> QED
    BY Zenon, <2>4, <2>5, <2>6, <2>10, <2>11, <2>12 DEF Selection
<1>ProcessNewBlockHeaders. ASSUME NEW b \in Block, ProcessNewBlockHeaders(h, b) PROVE Selection(h)'
  BY Zenon, <1>ProcessNewBlockHeaders, <1>Header DEF ProcessNewBlockHeaders, Enter, threadVars
<1>ProcessNewBlock. ASSUME NEW b \in Block, ProcessNewBlock(h, b) PROVE Selection(h)'
  <2> USE <1>ProcessNewBlock
  <2>1. pc'[h] = "accept"
    BY Zenon, InvParts DEF ProcessNewBlock, Hold, TypeOK
  <2> QED
    BY Zenon, <2>1, <1>Header DEF ProcessNewBlock, Enter
(* Steps that change nothing but where the thread is.                      *)
<1>Move.
  ASSUME UNCHANGED <<mapBlockIndex, nChainWork, nTx, failedValid, failedChild, nChainTx,
                     mapBlocksUnlinked, preciousVars, chainActive, queue, nSequenceId, nValid,
                     setBlockIndexCandidates>>,
         pc[h] # "invalidate", pc'[h] # "invalidate",
         pc'[h] \in {"idle", "accept", "link", "accepted"} => Reference(Tip),
         pc'[h] \in {"idle", "accept"} => \A c \in setBlockIndexCandidates : ~Worse(Tip, c),
         pc'[h] \notin {"abc", "step"} => pindexMostWork'[h] = NoBlock,
         pindexMostWork'[h] # NoBlock =>
            /\ pindexMostWork'[h] \in setBlockIndexCandidates
            /\ \A c \in setBlockIndexCandidates : ~Worse(pindexMostWork'[h], c)
            /\ ~HasInvalid(pindexMostWork'[h])
            /\ pc'[h] = "step" => nChainWork[pindexMostWork'[h]] >= nChainWork[pindexOldTip']
  PROVE  Selection(h)'
  <2> USE <1>Move
  <2>1. Tip' = Tip /\ Tip \in Block
    BY Zenon, ChainLength, InvParts DEF Tip, TypeOK
  <2>2. Caused'
    <3>1. \A b \in mapBlockIndex' : Failed(b)' => b \in mapBlockIndex /\ Failed(b)
      BY Zenon DEF Failed
    <3>2. \A u \in Threads : pc'[u] # "invalidate"
      BY Zenon
    <3> QED
      BY Zenon, <3>1, <3>2, CausedFrame, SelectionParts, InvParts DEF TypeOK
  <2>3. Awaited'
    BY Zenon, AwaitedFrame, SelectionParts
  <2>4. Validated(h)'
    BY Zenon, ValidatedFrame, SelectionParts DEF Failed
  <2>5. \A R \in Block : Reference(R) => Reference(R)'
    BY Zenon DEF Reference, HasInvalid, Worse, WorseBy
  <2>6. Referenced(h)'
    <3>1. PICK R \in Block :
            Reference(R) /\ (pc'[h] \in {"idle", "accept", "link", "accepted"} => R = Tip)
      <4>1. CASE pc'[h] \in {"idle", "accept", "link", "accepted"}
        BY Zenon, <2>1, <4>1
      <4>2. CASE pc'[h] \notin {"idle", "accept", "link", "accepted"}
        BY Zenon, <4>2, SelectionParts DEF Referenced
      <4> QED
        BY Zenon, <4>1, <4>2
    <3> QED
      BY Zenon, <2>1, <2>5, <3>1 DEF Referenced
  <2>7. Targeted(h)'
    BY Zenon, <2>1 DEF Targeted, Worse, WorseBy, HasInvalid
  <2>8. Numbered'
    BY Zenon, NumberedFrame, SelectionParts
  <2> QED
    BY Zenon, <2>2, <2>3, <2>4, <2>6, <2>7, <2>8 DEF Selection
<1>AcceptBlockIgnored. ASSUME AcceptBlockIgnored(h) PROVE Selection(h)'
  <2> USE <1>AcceptBlockIgnored
  <2> USE DEF AcceptBlockIgnored, indexVars, dataVars, failVars, linkVars, preciousVars, chainVars
  <2>1. pc'[h] = "accepted" /\ pc[h] = "accept"
    BY Zenon, InvParts DEF Release, TypeOK
  <2>2. pindexMostWork'[h] = NoBlock /\ Reference(Tip)
    BY Zenon, <2>1, SelectionParts DEF Targeted, Referenced
  <2> QED
    BY Zenon, <2>1, <2>2, <1>Move
(* ActivateBestChain: a target is better than the tip; without one the tip *)
(* is the best candidate.                                                  *)
<1>ActivateBestChain. ASSUME ActivateBestChain(h) PROVE Selection(h)'
  <2> USE <1>ActivateBestChain
  <2> DEFINE most == pindexMostWork[h]
  <2>0. /\ pc[h] \in {"accepted", "abc"} /\ Tip # NoBlock /\ Tip \in Block
        /\ UNCHANGED <<mapBlockIndex, nChainWork, nTx, failedValid, failedChild, nChainTx,
                       mapBlocksUnlinked, preciousVars, chainActive, queue, nSequenceId, nValid,
                       setBlockIndexCandidates>>
    <3>1. Tip # NoBlock /\ Tip \in Block
      BY Zenon, ChainLength, ChainAssumption, InvParts DEF TypeOK
    <3>2. /\ pc[h] \in {"accepted", "abc"}
          /\ UNCHANGED <<mapBlockIndex, nChainWork, nTx, failedValid, failedChild, nChainTx,
                         mapBlocksUnlinked, preciousVars, chainActive, queue, nSequenceId,
                         nValid, setBlockIndexCandidates>>
      BY Zenon DEF ActivateBestChain, indexVars, dataVars, failVars, linkVars, preciousVars,
         chainVars
    <3> QED
      BY Zenon, <3>1, <3>2
  <2>1. CASE most = Tip /\ Return(h)
    <3>1. pc'[h] = "idle" /\ pindexMostWork'[h] = NoBlock
      BY Zenon, <2>1, InvParts DEF Return, Release, TypeOK
    <3>2. /\ Tip \in setBlockIndexCandidates /\ ~HasInvalid(Tip)
          /\ \A c \in setBlockIndexCandidates : ~Worse(Tip, c)
      BY Zenon, <2>0, <2>1, SelectionParts DEF Targeted
    <3>3. PICK R \in Block : Reference(R)
      BY Zenon, <2>0, SelectionParts DEF Referenced
    <3>4. Reference(Tip)
      BY Zenon, <2>0, <3>2, <3>3, ValidTip, BestIsReference, SelectionParts
    <3> QED
      BY Zenon, <2>0, <3>1, <3>2, <3>4, <1>Move
  <2>2. CASE most = NoBlock /\ Hold(h, "find") /\ UNCHANGED pindexMostWork
    <3>1. pc'[h] = "find" /\ pindexMostWork'[h] = NoBlock
      BY Zenon, <2>2, InvParts DEF Hold, TypeOK
    <3> QED
      BY Zenon, <2>0, <3>1, <1>Move
  <2>3. CASE most \notin {NoBlock, Tip} /\ Hold(h, "step") /\ pindexOldTip' = Tip
             /\ UNCHANGED pindexMostWork
    <3>1. pc'[h] = "step" /\ pindexMostWork'[h] = most
      BY Zenon, <2>3, InvParts DEF Hold, TypeOK
    <3>2. most \in setBlockIndexCandidates /\ ~HasInvalid(most)
          /\ \A c \in setBlockIndexCandidates : ~Worse(most, c)
      BY Zenon, <2>3, SelectionParts DEF Targeted
    <3>3. nChainWork[most] >= nChainWork[Tip]
      BY Zenon, <2>0, <3>2, WorkOrder DEF NoneWorse, Inv, TypeOK
    <3> HIDE DEF most
    <3> QED
      BY Zenon, <2>0, <2>3, <3>1, <3>2, <3>3, <1>Move
  <2>4. node # "stopping"
    BY Zenon
  <2> QED
    BY Zenon, <2>1, <2>2, <2>3, <2>4 DEF ActivateBestChain
(* FindMostWorkChain always has a candidate.                               *)
<1>FindMostWorkChainNone. ASSUME FindMostWorkChainNone(h) PROVE FALSE
  <2> USE <1>FindMostWorkChainNone
  <2>1. PICK R \in Block : Reference(R)
    BY Zenon, SelectionParts DEF FindMostWorkChainNone, Referenced
  <2> QED
    BY Zenon, <2>1 DEF FindMostWorkChainNone, Reference
(* It takes a candidate only if it is valid.                               *)
<1>FindMostWorkChainFound. ASSUME NEW c \in Block, FindMostWorkChainFound(h, c) PROVE Selection(h)'
  <2> USE <1>FindMostWorkChainFound
  <2>0. /\ pc[h] = "find" /\ Tip # NoBlock /\ Tip \in Block /\ c \in mapBlockIndex
        /\ UNCHANGED <<mapBlockIndex, nChainWork, nTx, failedValid, failedChild, nChainTx,
                       mapBlocksUnlinked, preciousVars, chainActive, queue, nSequenceId, nValid,
                       setBlockIndexCandidates>>
        /\ c \in setBlockIndexCandidates /\ \A d \in setBlockIndexCandidates : ~Worse(c, d)
    <3>1. TypeOK /\ Tip \in mapBlockIndex
      BY Zenon, InvParts, ChainLength
    <3>2. /\ Tip # NoBlock /\ Tip \in Block
          /\ c \in setBlockIndexCandidates => c \in mapBlockIndex
      BY Zenon, <3>1, ChainAssumption DEF TypeOK
    <3> QED
      BY Zenon, <3>2 DEF FindMostWorkChainFound, indexVars, dataVars, failVars, linkVars,
         preciousVars, chainVars
  <2>1. ~HasInvalid(c)
    <3>1. \A a \in Ancestors[c] : Contains(a) \/ ~Failed(a)
      BY Zenon DEF FindMostWorkChainFound, Blocking
    <3>2. \A a \in Ancestors[c] : Contains(a) => a \in Ancestors[Tip]
      BY Zenon, <2>0, AncestorsKnown, ChainIs, InvParts
    <3>3. \A a \in Ancestors[Tip] : ~Failed(a)
      BY Zenon, <2>0, SelectionParts DEF Validated
    <3> QED
      BY Zenon, <3>1, <3>2, <3>3 DEF HasInvalid, Failed
  <2>2. CASE c = Tip /\ Return(h)
    <3>1. pc'[h] = "idle" /\ pindexMostWork'[h] = NoBlock
      BY Zenon, <2>2, InvParts DEF Return, Release, TypeOK
    <3>2. PICK R \in Block : Reference(R)
      BY Zenon, <2>0, SelectionParts DEF Referenced
    <3>3. Reference(Tip)
      BY Zenon, <2>0, <2>2, <3>2, ValidTip, BestIsReference, SelectionParts
    <3> QED
      BY Zenon, <2>0, <2>2, <3>1, <3>3, <1>Move
  <2>3. CASE Hold(h, "step") /\ pindexMostWork' = [pindexMostWork EXCEPT ![h] = c]
             /\ pindexOldTip' = Tip
    <3>1. pc'[h] = "step" /\ pindexMostWork'[h] = c
      BY Zenon, <2>3, InvParts DEF Hold, TypeOK
    <3>2. nChainWork[c] >= nChainWork[Tip]
      BY Zenon, <2>0, WorkOrder, InvParts DEF NoneWorse
    <3> QED
      BY Zenon, <2>0, <2>1, <2>3, <3>1, <3>2, <1>Move
  <2> QED
    BY Zenon, <2>2, <2>3 DEF FindMostWorkChainFound
(* What it rejects is invalid, and so no part of the active chain and no   *)
(* reference block.                                                        *)
<1>FindMostWorkChainRejected.
  ASSUME NEW c \in Block, NEW bad \in Block, FindMostWorkChainRejected(h, c, bad)
  PROVE  Selection(h)'
  <2> USE <1>FindMostWorkChainRejected
  <2> USE DEF indexVars, dataVars, failVars, linkVars, preciousVars, chainVars, threadVars
  <2>0. /\ Failed(bad) /\ pc[h] = "find" /\ c \in mapBlockIndex /\ bad \in Ancestors[c]
        /\ ~Contains(bad) /\ Tip \in mapBlockIndex /\ Tip' = Tip
    BY Zenon, RejectedFailed, ChainLength, InvParts DEF FindMostWorkChainRejected,
       Blocking, TypeOK, Tip
  <2>1. /\ failedChild' = failedChild \cup Above(c, bad)
        /\ setBlockIndexCandidates' = setBlockIndexCandidates \ (Above(c, bad) \cup {bad})
        /\ UNCHANGED <<mapBlockIndex, nChainWork, nTx, failedValid, nChainTx, mapBlocksUnlinked,
                       preciousVars, chainActive, queue, nSequenceId, nValid, pc, arg,
                       pindexMostWork>>
    BY Zenon, <2>0 DEF FindMostWorkChainRejected
  <2>2. bad \in mapBlockIndex /\ Ancestors[c] \subseteq mapBlockIndex /\ mapBlockIndex \subseteq Block
    BY Zenon, <2>0, AncestorsKnown, InvParts DEF TypeOK
  <2>3. \A x \in Above(c, bad) : x \in Ancestors[c] /\ bad \in Ancestors[x]
    <3> SUFFICES ASSUME NEW x \in Above(c, bad) PROVE x \in Ancestors[c] /\ bad \in Ancestors[x]
      BY Zenon
    <3>1. x \in Ancestors[c] /\ nHeight[x] > nHeight[bad]
      BY Zenon DEF Above
    <3>2. nHeight[x] \in Nat /\ nHeight[bad] \in Nat
      BY Zenon, <2>2, <3>1, InvParts DEF TypeOK
    <3>3. nHeight[bad] <= nHeight[x]
      BY <3>1, <3>2
    <3> QED
      BY Zenon, <2>0, <3>1, <3>3, AncestorsLine
  <2>4. HasInvalid(bad)
    BY Zenon, <2>0, <2>2, SelectionParts DEF Caused
  <2>5. \A x \in Above(c, bad) \cup {bad} : HasInvalid(x) /\ x \in Block
    BY Zenon, <2>2, <2>3, <2>4, InvalidPassesOn
  <2>6. Caused'
    <3>1. \A b \in mapBlockIndex' : Failed(b)' =>
            (b \in mapBlockIndex /\ Failed(b)) \/ Ancestors[b] \cap failedValid' # {}
      BY Zenon, <2>1, <2>5 DEF Failed, HasInvalid
    <3>2. \A u \in Threads : pc'[u] # "invalidate"
      BY Zenon, <2>0, <2>1
    <3> QED
      BY Zenon, <2>1, <2>2, <3>1, <3>2, CausedFrame, SelectionParts
  <2>7. Awaited'
    BY Zenon, <2>1, AwaitedFrame, SelectionParts
  <2>8. Validated(h)'
    <3>1. ASSUME NEW x \in Ancestors[Tip], x \in Above(c, bad) PROVE FALSE
      <4>1. bad \in Ancestors[Tip]
        BY Zenon, <2>0, <2>2, <2>3, <3>1, AncestorsOfAncestor
      <4> QED
        BY Zenon, <2>0, <2>2, <4>1, ChainIs
    <3>2. \A b \in Ancestors[Tip] : Failed(b)' => Failed(b)
      BY Zenon, <2>1, <3>1 DEF Failed
    <3> QED
      BY Zenon, <2>0, <2>1, <3>2, ValidatedFrame, SelectionParts
  <2>9. Referenced(h)'
    <3>1. PICK R \in Block : Reference(R)
      BY Zenon, <2>0, SelectionParts DEF Referenced
    <3>2. Ancestors[R] \cap failedValid' = {}
      BY Zenon, <2>1, <3>1 DEF Reference, HasInvalid
    <3>3. \A b \in setBlockIndexCandidates :
             Ancestors[b] \cap failedValid' = {} => b \in setBlockIndexCandidates'
      BY Zenon, <2>1, <2>5 DEF HasInvalid
    <3>4. ~Worse(R, R)
      BY Zenon, WorkOrder, InvParts
    <3>5. Reference(R)'
      BY Zenon, <2>1, <3>1, <3>2, <3>3, <3>4, ReferenceFrame
    <3> QED
      BY Zenon, <2>0, <2>1, <3>5 DEF Referenced
  <2>10. Targeted(h)'
    BY Zenon, <2>0, <2>1, SelectionParts DEF Targeted
  <2>11. Numbered'
    BY Zenon, <2>1, NumberedFrame, SelectionParts
  <2> QED
    BY Zenon, <2>6, <2>7, <2>8, <2>9, <2>10, <2>11 DEF Selection
(* The target is the tip.                                                  *)
<1>StepDone. ASSUME StepDone(h) PROVE Selection(h)'
  <2> USE <1>StepDone
  <2>0. /\ pc[h] = "step" /\ Tip = pindexMostWork[h] /\ Tip \in Block /\ Tip # NoBlock /\ Return(h)
        /\ UNCHANGED <<mapBlockIndex, nChainWork, nTx, failedValid, failedChild, nChainTx,
                       mapBlocksUnlinked, preciousVars, chainActive, queue, nSequenceId, nValid,
                       setBlockIndexCandidates>>
    BY Zenon, ChainLength, ChainAssumption, InvParts DEF StepDone, EndStep, indexVars, dataVars,
       failVars, linkVars, preciousVars, chainVars, TypeOK
  <2>1. pc'[h] = "idle" /\ pindexMostWork'[h] = NoBlock
    BY Zenon, <2>0, InvParts DEF Return, Release, TypeOK
  <2>2. /\ Tip \in setBlockIndexCandidates /\ ~HasInvalid(Tip)
        /\ \A c \in setBlockIndexCandidates : ~Worse(Tip, c)
    BY Zenon, <2>0, SelectionParts DEF Targeted
  <2>3. PICK R \in Block : Reference(R)
    BY Zenon, <2>0, SelectionParts DEF Referenced
  <2>4. Reference(Tip)
    BY Zenon, <2>0, <2>2, <2>3, ValidTip, BestIsReference, SelectionParts
  <2> QED
    BY Zenon, <2>0, <2>1, <2>2, <2>4, <1>Move
(* A disconnected tip leaves a valid chain.                                *)
<1>StepDisconnect. ASSUME StepDisconnect(h) PROVE Selection(h)'
  <2> USE <1>StepDisconnect
  <2> USE DEF indexVars, dataVars, failVars, linkVars, preciousVars, pruneVars
  <2>0. csMain = h /\ h \in Threads /\ pc[h] = "step" /\ Tip # Genesis /\ Tip \in Block
    BY Zenon, Holder, StepAboveGenesis, ChainLength, InvParts DEF StepDisconnect, Locked, TypeOK
  <2>1. /\ DisconnectTip(h)
        /\ UNCHANGED <<mapBlockIndex, nHeight, nChainWork, nTx, haveData, haveUndo, fHavePruned,
                       failedValid,
                       failedChild, nChainTx, mapBlocksUnlinked, preciousVars, queue, nSequenceId,
                       nValid, setBlockIndexCandidates>>
    BY Zenon DEF StepDisconnect
  <2>2. Tip' = HashPrev[Tip] /\ UNCHANGED <<pc, arg, pindexMostWork, pindexOldTip>>
    BY Zenon, <2>0, <2>1, Disconnected
  <2>3. Ancestors[HashPrev[Tip]] \subseteq Ancestors[Tip]
    BY Zenon, <2>0, AncestorsOfChild
  <2>4. Caused' /\ Awaited'
    <3>1. \A b \in mapBlockIndex' : Failed(b)' => b \in mapBlockIndex /\ Failed(b)
      BY Zenon, <2>1 DEF Failed
    <3>2. \A u \in Threads : pc'[u] # "invalidate"
      BY Zenon, <2>0, <2>2
    <3> QED
      BY Zenon, <2>1, <3>1, <3>2, CausedFrame, AwaitedFrame, SelectionParts, InvParts DEF TypeOK
  <2>5. Validated(h)'
    BY Zenon, <2>1, <2>2, <2>3, SelectionParts DEF Validated, Failed
  <2>6. Referenced(h)'
    <3>1. PICK R \in Block : Reference(R)
      BY Zenon, <2>0, SelectionParts DEF Referenced
    <3>2. Reference(R)'
      BY Zenon, <2>1, <3>1 DEF Reference, HasInvalid, Worse, WorseBy
    <3> QED
      BY Zenon, <2>0, <2>2, <3>2 DEF Referenced
  <2>7. Targeted(h)'
    BY Zenon, <2>0, <2>1, <2>2, SelectionParts DEF Targeted, Worse, WorseBy, HasInvalid
  <2>8. Numbered'
    BY Zenon, <2>1, NumberedFrame, SelectionParts
  <2> QED
    BY Zenon, <2>4, <2>5, <2>6, <2>7, <2>8 DEF Selection
(* The tip has its undo data.                                              *)
<1>StepDisconnectFails. ASSUME StepDisconnectFails(h) PROVE FALSE
  BY Zenon, <1>StepDisconnectFails, StepAboveGenesis, TipHasUndo DEF StepDisconnectFails
<1>InvalidateDisconnectFails. ASSUME InvalidateDisconnectFails(h) PROVE FALSE
  BY Zenon, <1>InvalidateDisconnectFails, InvalidateAboveGenesis, TipHasUndo
     DEF InvalidateDisconnectFails
(* A block that AcceptBlock finds invalid was not stored.                  *)
<1>AcceptBlockInvalid. ASSUME AcceptBlockInvalid(h) PROVE Selection(h)'
  <2> USE <1>AcceptBlockInvalid
  <2> DEFINE b == arg[h]
  <2> USE DEF indexVars, dataVars, failVars, linkVars, preciousVars, chainVars
  <2>1. /\ failedValid' = failedValid \cup {b} /\ pc[h] = "accept" /\ Return(h)
        /\ UNCHANGED <<mapBlockIndex, nChainWork, nTx, failedChild, nChainTx, mapBlocksUnlinked,
                       preciousVars, chainActive, queue, nSequenceId, nValid,
                       setBlockIndexCandidates>>
    BY Zenon DEF AcceptBlockInvalid
  <2>2. pc'[h] = "idle" /\ pindexMostWork'[h] = NoBlock
    BY Zenon, <2>1, InvParts DEF Return, Release, TypeOK
  <2>3. b \notin nTx
    BY Zenon, LinkParts DEF AcceptBlockInvalid, NotProcessed, Stored
  <2>4. b \in Block /\ b \in mapBlockIndex
    BY Zenon, <2>1, InvParts DEF Locking, TypeOK
  <2> HIDE DEF b
  <2>5. Tip \in nChainTx /\ Tip \in Block /\ Tip' = Tip /\ \A c \in nChainTx : b \notin Ancestors[c]
    BY Zenon, <2>1, <2>3, ChainLength, LinkParts, InvParts DEF Linked, TypeOK, Received, AllProcessed,
       Tip
  <2>6. \A c \in nChainTx : HasInvalid(c)' = HasInvalid(c)
    BY Zenon, <2>1, <2>5 DEF HasInvalid
  <2>7. Caused'
    <3>1. \A c \in mapBlockIndex' : Failed(c)' =>
            (c \in mapBlockIndex /\ Failed(c)) \/ Ancestors[c] \cap failedValid' # {}
      BY Zenon, <2>1, <2>4, SelfAncestor DEF Failed
    <3>2. \A u \in Threads : pc'[u] # "invalidate"
      BY Zenon, <2>2
    <3> QED
      BY Zenon, <2>1, <3>1, <3>2, CausedFrame, SelectionParts, InvParts DEF TypeOK
  <2>8. Awaited'
    BY Zenon, <2>1, AwaitedFrame, SelectionParts
  <2>9. Validated(h)'
    <3>1. \A c \in Ancestors[Tip] : Failed(c)' => Failed(c)
      BY Zenon, <2>1, <2>5 DEF Failed
    <3> QED
      BY Zenon, <2>1, <3>1, ValidatedFrame, SelectionParts
  <2>10. Referenced(h)'
    <3>1. PICK R \in Block : R = Tip /\ Reference(R)
      BY Zenon, <2>1, SelectionParts DEF Referenced
    <3>2. R \in nChainTx
      BY Zenon, <2>5, <3>1
    <3>3. Reference(R)'
      BY Zenon, <2>1, <2>6, <3>1, <3>2 DEF Reference, Worse, WorseBy
    <3> QED
      BY Zenon, <2>5, <3>1, <3>3 DEF Referenced
  <2>11. Targeted(h)'
    BY Zenon, <2>1, <2>2, <2>5, SelectionParts DEF Targeted, Worse, WorseBy
  <2>12. Numbered'
    BY Zenon, <2>1, NumberedFrame, SelectionParts
  <2> QED
    BY Zenon, <2>7, <2>8, <2>9, <2>10, <2>11, <2>12 DEF Selection
(* A stored block is put in line, waits, or has a failed parent.           *)
<1>ReceivedBlockTransactions. ASSUME ReceivedBlockTransactions(h) PROVE Selection(h)'
  <2> USE <1>ReceivedBlockTransactions
  <2> DEFINE b == arg[h]
  <2> USE DEF indexVars, failVars, preciousVars, chainVars
  <2>0. h \in Threads
    BY Zenon
  <2>1. /\ b \in mapBlockIndex \ {Genesis} /\ b \notin nTx /\ b \notin nChainTx
        /\ UNCHANGED nChainTx /\ HashPrev[b] \in mapBlockIndex
        /\ nValid'[b] = 3 /\ \A c \in Block \ {b} : nValid'[c] = nValid[c]
        /\ queue = <<>>
    BY Zenon, <2>0, StoredBlock
  <2>2. /\ pc[h] = "accept" /\ nTx' = nTx \cup {b}
        /\ UNCHANGED <<mapBlockIndex, nChainWork, failedValid, failedChild, preciousVars,
                       chainActive, nSequenceId, setBlockIndexCandidates, arg, pindexMostWork>>
    BY Zenon DEF ReceivedBlockTransactions
  <2>3. pc'[h] \in {"link", "accepted"}
    BY Zenon, InvParts DEF ReceivedBlockTransactions, Hold, Release, TypeOK
  <2>4. /\ mapBlocksUnlinked \subseteq mapBlocksUnlinked'
        /\ \/ queue' = <<b>>
           \/ b \in mapBlocksUnlinked'
           \/ ~IsValid(HashPrev[b], BLOCK_VALID_TREE)
    BY Zenon DEF ReceivedBlockTransactions
  <2>5. Tip' = Tip /\ Tip \in mapBlockIndex /\ mapBlockIndex \subseteq Block
    BY Zenon, <2>2, ChainLength, InvParts DEF Tip, TypeOK
  <2> HIDE DEF b
  <2>6. Caused'
    <3>1. \A c \in mapBlockIndex' : Failed(c)' => c \in mapBlockIndex /\ Failed(c)
      BY Zenon, <2>2 DEF Failed
    <3>2. \A u \in Threads : pc'[u] # "invalidate"
      BY Zenon, <2>3
    <3> QED
      BY Zenon, <2>2, <2>5, <3>1, <3>2, CausedFrame, SelectionParts
  <2>7. Awaited'
    <3>1. QueueSet = {}
      <4>1. Len(queue) = 0
        BY <2>1
      <4>2. 1..0 = {}
        OBVIOUS
      <4> QED
        BY Zenon, <4>1, <4>2 DEF QueueSet
    <3>2. queue' = <<b>> => b \in QueueSet'
      <4> SUFFICES ASSUME queue' = <<b>> PROVE b \in QueueSet'
        BY Zenon
      <4>1. 1 \in 1..Len(queue') /\ queue'[1] = b
        OBVIOUS
      <4> QED
        BY Zenon, <4>1 DEF QueueSet
    <3>3. ~IsValid(HashPrev[b], BLOCK_VALID_TREE) => Failed(HashPrev[b])
      <4>1. nValid[HashPrev[b]] \in {2, 3, 5}
        BY Zenon, <2>1, LinkParts DEF Stored
      <4>2. 2 >= 2 /\ 3 >= 2 /\ 5 >= 2
        OBVIOUS
      <4> QED
        BY Zenon, <4>1, <4>2 DEF IsValid, BLOCK_VALID_TREE
    <3> SUFFICES ASSUME NEW c \in nTx' \ nChainTx'
                 PROVE  (c \in mapBlocksUnlinked \cup QueueSet \/ Failed(HashPrev[c]))'
      BY Zenon DEF Awaited
    <3>4. CASE c = b
      BY Zenon, <2>2, <2>4, <3>2, <3>3, <3>4 DEF Failed
    <3>5. CASE c # b
      <4>1. c \in mapBlocksUnlinked \/ Failed(HashPrev[c])
        BY Zenon, <2>1, <2>2, <3>1, <3>5, SelectionParts DEF Awaited
      <4> QED
        BY Zenon, <2>2, <2>4, <4>1 DEF Failed
    <3> QED
      BY Zenon, <3>4, <3>5
  <2>8. Validated(h)'
    <3>1. b \notin Ancestors[Tip]
      BY Zenon, <2>1, LinkParts, InvParts DEF Linked, Received, AllProcessed
    <3>2. \A c \in Ancestors[Tip] : ~Failed(c)' /\ (c # Genesis => nValid'[c] = 5)
      <4>1. Ancestors[Tip] \subseteq Block
        BY Zenon, <2>5, SelfAncestor
      <4>2. \A c \in Ancestors[Tip] : nValid'[c] = nValid[c]
        BY Zenon, <2>1, <3>1, <4>1
      <4>3. \A c \in Ancestors[Tip] : ~Failed(c) /\ (c # Genesis => nValid[c] = 5)
        BY Zenon, <2>2, SelectionParts DEF Validated
      <4> QED
        BY Zenon, <2>2, <4>2, <4>3 DEF Failed
    <3>3. nValid[b] # 5
      <4>1. nValid[b] \notin {3, 5}
        BY Zenon, <2>1, LinkParts DEF Stored
      <4> QED
        BY Zenon, <4>1
    <3>4. ASSUME NEW c \in mapBlockIndex, nValid'[c] = 5, NEW a \in Ancestors[c] \ {Genesis}
          PROVE  nValid'[a] = 5
      <4>0. 3 # 5
        OBVIOUS
      <4>1. c # b
        BY Zenon, <2>1, <3>4, <4>0
      <4>2. nValid[c] = 5 /\ a \in Block
        BY Zenon, <2>1, <2>5, <3>4, <4>1, SelfAncestor
      <4>3. nValid[a] = 5
        BY Zenon, <3>4, <4>2, SelectionParts DEF Validated
      <4> QED
        BY Zenon, <2>1, <3>3, <4>2, <4>3
    <3> QED
      BY Zenon, <2>2, <2>5, <3>2, <3>4, SelectionParts DEF Validated
  <2>9. Referenced(h)'
    <3>1. PICK R \in Block : R = Tip /\ Reference(R)
      BY Zenon, <2>2, SelectionParts DEF Referenced
    <3>2. Reference(R)'
      BY Zenon, <2>1, <2>2, <3>1 DEF Reference, HasInvalid, Worse, WorseBy
    <3> QED
      BY Zenon, <2>5, <3>1, <3>2 DEF Referenced
  <2>10. Targeted(h)'
    BY Zenon, <2>2, <2>3, SelectionParts DEF Targeted
  <2>11. Numbered'
    BY Zenon, <2>1, <2>2, NumberedFrame, SelectionParts
  <2> QED
    BY Zenon, <2>6, <2>7, <2>8, <2>9, <2>10, <2>11 DEF Selection
(* What is linked becomes a candidate if it is as good as the tip.         *)
<1>LinkBlock. ASSUME LinkBlock(h) PROVE Selection(h)'
  <2> USE <1>LinkBlock
  <2> DEFINE b == Head(queue)
             seq == [nSequenceId EXCEPT ![b] = nBlockSequenceId]
  <2> USE DEF indexVars, dataVars, failVars, preciousVars, chainVars
  <2>0. h \in Threads
    BY Zenon
  <2>1. /\ b \in mapBlockIndex \ {Genesis} /\ b \in nTx /\ b \notin nChainTx
        /\ b \notin setBlockIndexCandidates
        /\ QueueSet' = (QueueSet \ {b}) \cup Waiting(b)
        /\ IF queue' = <<>> THEN pc'[h] = "accepted" ELSE pc'[h] = "link"
    BY Zenon, <2>0, LinkTurn
  <2>2. /\ pc[h] = "link" /\ nChainTx' = nChainTx \cup {b} /\ nSequenceId' = seq
        /\ setBlockIndexCandidates' = IF WorseBy(seq, b, Tip) THEN setBlockIndexCandidates
                                      ELSE setBlockIndexCandidates \cup {b}
        /\ mapBlocksUnlinked' = mapBlocksUnlinked \ Waiting(b)
        /\ UNCHANGED <<mapBlockIndex, nChainWork, nTx, failedValid, failedChild, preciousVars,
                       chainActive, nValid, arg, pindexMostWork>>
    BY Zenon DEF LinkBlock
  <2>3. Tip' = Tip /\ Tip \in nChainTx /\ Tip \in Block /\ Tip # b
        /\ nChainTx \subseteq Block /\ b \in Block
    BY Zenon, <2>1, <2>2, ChainLength, LinkParts, InvParts DEF Tip, Linked, TypeOK
  <2>4. nSequenceId'[b] = nBlockSequenceId /\ \A c \in Block \ {b} : nSequenceId'[c] = nSequenceId[c]
    BY Zenon, <2>2, <2>3, InvParts DEF TypeOK
  <2>5. pc'[h] \in {"link", "accepted"}
    BY Zenon, <2>1
  <2> HIDE DEF b
  <2>6. Caused'
    <3>1. \A c \in mapBlockIndex' : Failed(c)' => c \in mapBlockIndex /\ Failed(c)
      BY Zenon, <2>2 DEF Failed
    <3>2. \A u \in Threads : pc'[u] # "invalidate"
      BY Zenon, <2>5
    <3> QED
      BY Zenon, <2>2, <3>1, <3>2, CausedFrame, SelectionParts, InvParts DEF TypeOK
  <2>7. Awaited'
    <3> SUFFICES ASSUME NEW c \in nTx' \ nChainTx'
                 PROVE  (c \in mapBlocksUnlinked \cup QueueSet \/ Failed(HashPrev[c]))'
      BY Zenon DEF Awaited
    <3>1. c \in nTx \ nChainTx /\ c # b
      BY Zenon, <2>2
    <3>2. c \in mapBlocksUnlinked \cup QueueSet \/ Failed(HashPrev[c])
      BY Zenon, <3>1, SelectionParts DEF Awaited
    <3> QED
      BY Zenon, <2>1, <2>2, <3>1, <3>2 DEF Failed
  <2>8. Validated(h)'
    BY Zenon, <2>2, ValidatedFrame, SelectionParts DEF Failed
  <2>9. Referenced(h)'
    <3>1. PICK R \in Block : R = Tip /\ Reference(R)
      BY Zenon, <2>2, SelectionParts DEF Referenced
    <3>2. R \in setBlockIndexCandidates' /\ ~HasInvalid(R)' /\ Ancestors[R] \cap BadConnect = {}
      BY Zenon, <2>2, <3>1 DEF Reference, HasInvalid
    <3>3. ASSUME NEW c \in nChainTx', ~HasInvalid(c)', ~Worse(c, R)'
          PROVE  c \in setBlockIndexCandidates'
      <4>1. CASE c = b
        <5>1. ~WorseBy(seq, b, Tip)
          BY Zenon, <2>2, <3>1, <3>3, <4>1 DEF Worse, WorseBy
        <5> QED
          BY Zenon, <2>2, <4>1, <5>1
      <4>2. CASE c # b
        <5>1. c \in nChainTx /\ c \in Block /\ ~HasInvalid(c)
          BY Zenon, <2>2, <2>3, <3>3, <4>2 DEF HasInvalid
        <5>2. ~Worse(c, R)
          BY Zenon, <2>2, <2>3, <2>4, <3>1, <3>3, <4>2, <5>1 DEF Worse, WorseBy
        <5> QED
          BY Zenon, <2>2, <3>1, <5>1, <5>2 DEF Reference
      <4> QED
        BY Zenon, <4>1, <4>2
    <3>4. Reference(R)'
      BY Zenon, <3>2, <3>3 DEF Reference
    <3> QED
      BY Zenon, <2>3, <3>1, <3>4 DEF Referenced
  <2>10. Targeted(h)'
    BY Zenon, <2>2, <2>5, SelectionParts DEF Targeted
  <2>11. Numbered'
    <3> SUFFICES ASSUME NEW c \in nChainTx', ~HasInvalid(c)'
                 PROVE  /\ nChainWork[c] > nLastPreciousChainwork => nSequenceId'[c] >= 0
                        /\ nChainWork[c] >= nLastPreciousChainwork =>
                             nSequenceId'[c] > nBlockReverseSequenceId
      BY Zenon, <2>2 DEF Numbered
    <3>1. CASE c = b
      <4>1. nBlockSequenceId \in Nat /\ nBlockReverseSequenceId \in Int
            /\ nBlockReverseSequenceId <= -1
        BY Zenon, InvParts, LinkParts DEF TypeOK, Sequenced
      <4>2. nBlockSequenceId >= 0 /\ nBlockSequenceId > nBlockReverseSequenceId
        BY <4>1
      <4> QED
        BY Zenon, <2>4, <3>1, <4>2
    <3>2. CASE c # b
      <4>1. c \in nChainTx /\ c \in Block /\ ~HasInvalid(c) /\ nSequenceId'[c] = nSequenceId[c]
        BY Zenon, <2>2, <2>3, <2>4, <3>2 DEF HasInvalid
      <4> QED
        BY Zenon, <4>1, SelectionParts DEF Numbered
    <3> QED
      BY Zenon, <3>1, <3>2
  <2> QED
    BY Zenon, <2>6, <2>7, <2>8, <2>9, <2>10, <2>11 DEF Selection
(* A block that ConnectBlock rejects is not below the reference block.     *)
<1>ConnectTipInvalid.
  ASSUME NEW b \in mapBlockIndex, pc[h] = "step", ConnectTipInvalid(h, b)
  PROVE  Selection(h)'
  <2> USE <1>ConnectTipInvalid
  <2> USE DEF indexVars, dataVars, failVars, linkVars, preciousVars, chainVars
  <2>0. b \in Block /\ b \in BadConnect /\ Tip # NoBlock /\ Tip \in Block
    BY Zenon, ChainLength, ChainAssumption, InvParts DEF ConnectTipInvalid, ConnectBlockAccepts,
       TypeOK
  <2>1. /\ failedValid' = failedValid \cup {b}
        /\ setBlockIndexCandidates' = setBlockIndexCandidates \ {b}
        /\ UNCHANGED <<mapBlockIndex, nChainWork, nTx, failedChild, nChainTx, mapBlocksUnlinked,
                       preciousVars, chainActive, queue, nSequenceId, nValid>>
    BY Zenon DEF ConnectTipInvalid
  <2>2. pc'[h] = "abc" /\ pindexMostWork'[h] = NoBlock
    BY Zenon, <2>0, InvParts DEF ConnectTipInvalid, EndStep, Release, TypeOK
  <2>3. Caused'
    <3>1. \A c \in mapBlockIndex' : Failed(c)' =>
            (c \in mapBlockIndex /\ Failed(c)) \/ Ancestors[c] \cap failedValid' # {}
      BY Zenon, <2>0, <2>1, SelfAncestor DEF Failed
    <3>2. \A u \in Threads : pc'[u] # "invalidate"
      BY Zenon, <2>2
    <3> QED
      BY Zenon, <2>1, <3>1, <3>2, CausedFrame, SelectionParts, InvParts DEF TypeOK
  <2>4. Awaited'
    BY Zenon, <2>1, AwaitedFrame, SelectionParts
  <2>5. Validated(h)'
    <3>1. b \notin Ancestors[Tip]
      BY Zenon, <2>0, SelectionParts DEF Validated
    <3>2. \A c \in Ancestors[Tip] : Failed(c)' => Failed(c)
      BY Zenon, <2>1, <3>1 DEF Failed
    <3> QED
      BY Zenon, <2>1, <3>2, ValidatedFrame, SelectionParts
  <2>6. Referenced(h)'
    <3>1. PICK R \in Block : Reference(R)
      BY Zenon, SelectionParts DEF Referenced
    <3>2. b \notin Ancestors[R]
      BY Zenon, <2>0, <3>1 DEF Reference
    <3>3. Ancestors[R] \cap failedValid' = {}
      BY Zenon, <2>1, <3>1, <3>2 DEF Reference, HasInvalid
    <3>4. \A c \in setBlockIndexCandidates :
             Ancestors[c] \cap failedValid' = {} => c \in setBlockIndexCandidates'
      BY Zenon, <2>0, <2>1, SelfAncestor
    <3>5. ~Worse(R, R)
      BY Zenon, WorkOrder, InvParts
    <3>6. Reference(R)'
      BY Zenon, <2>1, <3>1, <3>3, <3>4, <3>5, ReferenceFrame
    <3> QED
      BY Zenon, <2>2, <3>6 DEF Referenced
  <2>7. Targeted(h)'
    BY Zenon, <2>2 DEF Targeted
  <2>8. Numbered'
    BY Zenon, <2>1, NumberedFrame, SelectionParts
  <2> QED
    BY Zenon, <2>3, <2>4, <2>5, <2>6, <2>7, <2>8 DEF Selection
(* A connected block was valid, and takes the place of a reference block   *)
(* that is worse.                                                          *)
<1>ConnectTipConnected.
  ASSUME NEW b \in Block, pc[h] = "step", NextToConnect(h, b), b \in nChainTx,
         ConnectTipConnected(h, b)
  PROVE  Selection(h)'
  <2> USE <1>ConnectTipConnected
  <2> DEFINE most == pindexMostWork[h]
  <2> USE DEF indexVars, failVars, linkVars, preciousVars
  <2>0. /\ b \in mapBlockIndex \ {Genesis} /\ b \in nTx /\ HashPrev[b] = Tip /\ h \in Threads
        /\ b \in Ancestors[most] /\ most # NoBlock /\ most \in mapBlockIndex /\ most \in Block
    BY Zenon, NextReceived, InvParts DEF NextToConnect, Locking, TypeOK
  <2>1. /\ setBlockIndexCandidates' =
             PruneBlockIndexCandidates(nSequenceId, setBlockIndexCandidates, b)
        /\ ConnectBlock(b) /\ b \notin BadConnect
        /\ UNCHANGED <<mapBlockIndex, nChainWork, failedValid, failedChild, nChainTx,
                       mapBlocksUnlinked, preciousVars, queue, nSequenceId, nTx>>
    BY Zenon DEF ConnectTipConnected, ConnectBlock, ConnectBlockAccepts
  <2>2. Tip' = b
    BY Zenon, <2>0, ConnectedTip
  <2>3. /\ \A c \in setBlockIndexCandidates : ~Worse(most, c)
        /\ most \in setBlockIndexCandidates /\ ~HasInvalid(most)
        /\ nChainWork[most] >= nChainWork[pindexOldTip]
    BY Zenon, <2>0, SelectionParts DEF Targeted
  <2>4. ~HasInvalid(b) /\ ~Failed(b)
    BY Zenon, <2>0, <2>3, InvalidPassesOn, SelectionParts DEF Caused
  <2>5. \A c : c \in setBlockIndexCandidates' <=> c \in setBlockIndexCandidates /\ ~Worse(c, b)
    BY Zenon, <2>1 DEF PruneBlockIndexCandidates, Worse
  <2>6. Ancestors[b] = {b} \cup Ancestors[Tip] /\ Ancestors[b] \cap BadConnect = {}
    <3>1. Ancestors[b] = {b} \cup Ancestors[Tip]
      BY Zenon, <2>0, AncestorsOfChild
    <3> QED
      BY Zenon, <2>1, <3>1, SelectionParts DEF Validated
  <2>7. \/ pc'[h] = "idle" /\ b = most /\ pindexMostWork'[h] = NoBlock
        \/ pc'[h] = "abc" /\ b # most /\ pindexMostWork'[h] = most
        \/ pc'[h] = "step" /\ b # most /\ pindexMostWork'[h] = most /\ UNCHANGED pindexOldTip
    BY Zenon, <2>0, InvParts DEF ConnectTipConnected, EndStep, Return, Release, TypeOK
  <2> HIDE DEF most
  <2>8. Caused'
    <3>1. \A c \in mapBlockIndex' : Failed(c)' => c \in mapBlockIndex /\ Failed(c)
      BY Zenon, <2>1 DEF Failed
    <3>2. \A u \in Threads : pc'[u] # "invalidate"
      BY Zenon, <2>7
    <3> QED
      BY Zenon, <2>1, <3>1, <3>2, CausedFrame, SelectionParts, InvParts DEF TypeOK
  <2>9. Awaited'
    BY Zenon, <2>1, AwaitedFrame, SelectionParts
  <2>10. Validated(h)'
    <3>1. nValid'[b] = 5 /\ \A c \in Block \ {b} : nValid'[c] = nValid[c]
      BY Zenon, <2>0, <2>1, <2>4, Raised
    <3>2. \A c \in Ancestors[Tip] : ~Failed(c) /\ (c # Genesis => nValid[c] = 5)
      BY Zenon, SelectionParts DEF Validated
    <3>3. Ancestors[b] \subseteq Block
      BY Zenon, SelfAncestor
    <3>4. \A c \in Ancestors[b] : ~Failed(c)' /\ (c # Genesis => nValid'[c] = 5)
      BY Zenon, <2>1, <2>4, <2>6, <3>1, <3>2, <3>3 DEF Failed
    <3>5. ASSUME NEW c \in mapBlockIndex, nValid'[c] = 5, NEW a \in Ancestors[c] \ {Genesis}
          PROVE  nValid'[a] = 5
      <4>1. CASE c = b
        BY Zenon, <3>4, <3>5, <4>1
      <4>2. CASE c # b
        <5>1. nValid[c] = 5 /\ a \in Block
          BY Zenon, <3>1, <3>5, <4>2, SelfAncestor, InvParts DEF TypeOK
        <5>2. nValid[a] = 5
          BY Zenon, <3>5, <5>1, SelectionParts DEF Validated
        <5> QED
          BY Zenon, <3>1, <5>1, <5>2
      <4> QED
        BY Zenon, <4>1, <4>2
    <3> QED
      BY Zenon, <2>1, <2>2, <2>6, <3>4, <3>5 DEF Validated
  <2>11. ASSUME NEW R \in Block, Reference(R), ~Worse(R, b) PROVE Reference(R)'
    <3>1. \A c \in setBlockIndexCandidates :
             ~Worse(c, R) => c \in setBlockIndexCandidates'
      BY Zenon, <2>5, <2>11, WorkOrder, InvParts DEF TypeOK
    <3>2. Ancestors[R] \cap failedValid' = {} /\ ~Worse(R, R)
      BY Zenon, <2>1, <2>11, WorkOrder, InvParts DEF Reference, HasInvalid
    <3> QED
      BY Zenon, <2>1, <2>11, <3>1, <3>2, ReferenceFrame
  <2>12. ~Worse(b, b)
    BY Zenon, WorkOrder, InvParts
  <2>13. Referenced(h)'
    <3>1. PICK R \in Block : Reference(R)
      BY Zenon, SelectionParts DEF Referenced
    <3>2. CASE b = most
      <4>1. Reference(b)
        BY Zenon, <2>3, <2>6, <3>1, <3>2, BestIsReference
      <4>2. Reference(b)'
        BY Zenon, <2>11, <2>12, <4>1
      <4> QED
        BY Zenon, <2>2, <4>2 DEF Referenced
    <3>3. CASE b # most /\ ~Worse(R, b)
      <4>1. pc'[h] \notin {"idle", "accept", "link", "accepted"} /\ Reference(R)'
        BY Zenon, <2>7, <2>11, <3>1, <3>3
      <4> QED
        BY Zenon, <4>1 DEF Referenced
    <3>4. CASE b # most /\ Worse(R, b)
      <4>1. ~Worse(b, R)
        BY Zenon, <3>4, WorkOrder, InvParts
      <4>2. b \in setBlockIndexCandidates
        BY Zenon, <2>4, <3>1, <4>1 DEF Reference
      <4>3. \A c \in nChainTx : ~Worse(c, b) => ~Worse(c, R)
        BY Zenon, <4>1, WorkOrder, InvParts DEF TypeOK
      <4>4. Reference(b)
        BY Zenon, <2>4, <2>6, <3>1, <4>2, <4>3 DEF Reference
      <4>5. Reference(b)'
        BY Zenon, <2>11, <2>12, <4>4
      <4> QED
        BY Zenon, <2>2, <4>5 DEF Referenced
    <3> QED
      BY Zenon, <3>2, <3>3, <3>4
  <2>14. Targeted(h)'
    <3>1. CASE b = most
      <4>1. pc'[h] = "idle" /\ pindexMostWork'[h] = NoBlock
        BY Zenon, <2>7, <3>1
      <4>2. \A c \in setBlockIndexCandidates' : ~Worse(b, c)'
        BY Zenon, <2>1, <2>3, <2>5, <3>1 DEF Worse, WorseBy
      <4> QED
        BY Zenon, <2>2, <4>1, <4>2 DEF Targeted, Worse, WorseBy
    <3>2. CASE b # most
      <4>0. PICK m \in mapBlockIndex : m = most
        BY Zenon, <2>0
      <4>1. nChainWork[b] < nChainWork[m]
        BY Zenon, <2>0, <3>2, <4>0, WorkGrows
      <4>2. ~Worse(m, b)
        BY Zenon, <4>1, WorkOrder, InvParts DEF TypeOK
      <4>3. m \in setBlockIndexCandidates' /\ \A c \in setBlockIndexCandidates' : ~Worse(m, c)
        BY Zenon, <2>3, <2>5, <4>0, <4>2
      <4>4. ~HasInvalid(m)' /\ \A c \in setBlockIndexCandidates' : ~Worse(m, c)'
        BY Zenon, <2>1, <2>3, <4>0, <4>3 DEF HasInvalid, Worse, WorseBy
      <4>5. pc'[h] \in {"abc", "step"} /\ pindexMostWork'[h] = m
            /\ (pc'[h] = "step" => nChainWork'[m] >= nChainWork'[pindexOldTip'])
        BY Zenon, <2>1, <2>3, <2>7, <3>2, <4>0
      <4> QED
        BY Zenon, <4>3, <4>4, <4>5 DEF Targeted, Worse, WorseBy, HasInvalid
    <3> QED
      BY Zenon, <3>1, <3>2
  <2>15. Numbered'
    BY Zenon, <2>1, NumberedFrame, SelectionParts
  <2> QED
    BY Zenon, <2>8, <2>9, <2>10, <2>13, <2>14, <2>15 DEF Selection
<1>StepConnect. ASSUME NEW b \in Block, StepConnect(h, b) PROVE Selection(h)'
  <2> USE <1>StepConnect
  <2>1. pc[h] = "step" /\ NextToConnect(h, b) /\ b \in nChainTx /\ b \in mapBlockIndex
    BY Zenon, NextIsLinked, InvParts DEF StepConnect, TypeOK
  <2>2. ~ConnectTipUnreadable(h, b) /\ ~ConnectTipFlushFails(h, b)
    BY Zenon DEF ConnectTipUnreadable, ConnectTipFlushFails, AbortNode
  <2> QED
    BY Zenon, <2>1, <2>2, <1>ConnectTipInvalid, <1>ConnectTipConnected DEF StepConnect
(* The sequence number preciousblock gives is below those of the valid     *)
(* blocks with the work of the tip.                                        *)
<1>FreshNumber.
  ASSUME Numbered, nChainWork[Tip] >= nLastPreciousChainwork
  PROVE  LET reverseId == IF nChainWork[Tip] > nLastPreciousChainwork
                          THEN -1 ELSE nBlockReverseSequenceId
         IN  \A b \in nChainTx : ~HasInvalid(b) =>
               /\ nChainWork[b] >= nChainWork[Tip] => nSequenceId[b] > reverseId
               /\ nChainWork[b] > nChainWork[Tip] => nSequenceId[b] >= 0
  <2> USE <1>FreshNumber
  <2> SUFFICES ASSUME NEW b \in nChainTx, ~HasInvalid(b)
               PROVE  /\ nChainWork[b] >= nChainWork[Tip] =>
                           nSequenceId[b] > IF nChainWork[Tip] > nLastPreciousChainwork
                                            THEN -1 ELSE nBlockReverseSequenceId
                      /\ nChainWork[b] > nChainWork[Tip] => nSequenceId[b] >= 0
    BY Zenon
  <2>1. /\ nChainWork[b] \in Nat /\ nChainWork[Tip] \in Nat /\ nLastPreciousChainwork \in Nat
        /\ nSequenceId[b] \in Int /\ nBlockReverseSequenceId \in Int
    BY Zenon, ChainLength, InvParts DEF TypeOK
  <2>2. /\ nChainWork[b] > nLastPreciousChainwork => nSequenceId[b] >= 0
        /\ nChainWork[b] >= nLastPreciousChainwork => nSequenceId[b] > nBlockReverseSequenceId
    BY Zenon DEF Numbered
  <2> QED
    BY <2>1, <2>2
(* preciousblock: the tip stays a reference block.                         *)
<1>PreciousBlock.
  ASSUME NEW b \in Block, PreciousBlock(h, b), nChainWork[Tip] >= nLastPreciousChainwork
  PROVE  Selection(h)'
  <2> USE <1>PreciousBlock
  <2> DEFINE cand == setBlockIndexCandidates \ {b}
             id == IF nChainWork[Tip] > nLastPreciousChainwork
                   THEN -1 ELSE nBlockReverseSequenceId
             seq == [nSequenceId EXCEPT ![b] = id]
  <2> USE DEF indexVars, dataVars, failVars, linkVars, chainVars
  <2>0. PICK R \in Block : R = Tip
    BY Zenon, ChainLength, InvParts DEF TypeOK
  <2>1. /\ pc[h] = "idle" /\ Tip' = Tip /\ nSequenceId' = seq
        /\ nLastPreciousChainwork' = nChainWork[Tip] /\ nBlockReverseSequenceId' = id - 1
        /\ setBlockIndexCandidates' =
             IF IsValid(b, BLOCK_VALID_TRANSACTIONS) /\ b \in nChainTx
             THEN PruneBlockIndexCandidates(seq, cand \cup {b}, Tip) ELSE cand
        /\ UNCHANGED <<mapBlockIndex, nChainWork, nTx, failedValid, failedChild, nChainTx,
                       mapBlocksUnlinked, chainActive, queue, nValid, pindexMostWork, arg>>
    BY Zenon DEF PreciousBlock, Enter, Tip
  <2>2. pc'[h] = "abc" /\ pindexMostWork'[h] = NoBlock
    BY Zenon, <2>1, InvParts, SelectionParts DEF PreciousBlock, Release, TypeOK, Targeted
  <2>3. nSequenceId'[b] = id /\ \A c \in Block \ {b} : nSequenceId'[c] = nSequenceId[c]
    BY Zenon, <2>1, InvParts DEF TypeOK
  <2>4. \A c \in nChainTx : ~HasInvalid(c) =>
           /\ nChainWork[c] >= nChainWork[Tip] => nSequenceId[c] > id
           /\ nChainWork[c] > nChainWork[Tip] => nSequenceId[c] >= 0
    BY <1>FreshNumber, SelectionParts
  <2>5. id \in Int
    BY Zenon, ReverseId
  <2> HIDE DEF id, seq
  <2>6. Reference(R) /\ R \in nChainTx /\ ~HasInvalid(R) /\ nChainTx \subseteq Block
        /\ \A c \in setBlockIndexCandidates : ~Worse(R, c)
    <3>1. Reference(R) /\ \A c \in setBlockIndexCandidates : ~Worse(R, c)
      BY Zenon, <2>0, <2>1, SelectionParts DEF Referenced, Targeted
    <3>2. R \in nChainTx /\ nChainTx \subseteq Block
      BY Zenon, <2>0, InvParts, LinkParts DEF Linked, TypeOK
    <3> QED
      BY Zenon, <3>1, <3>2 DEF Reference
  <2>7. \A c \in nChainTx : ~HasInvalid(c) => IsValid(c, BLOCK_VALID_TRANSACTIONS)
    BY Zenon, ValidCandidate, SelectionParts
  <2>8. Caused' /\ Awaited'
    <3>1. \A c \in mapBlockIndex' : Failed(c)' => c \in mapBlockIndex /\ Failed(c)
      BY Zenon, <2>1 DEF Failed
    <3>2. \A u \in Threads : pc'[u] # "invalidate"
      BY Zenon, <2>2
    <3> QED
      BY Zenon, <2>1, <3>1, <3>2, CausedFrame, AwaitedFrame, SelectionParts, InvParts DEF TypeOK
  <2>9. Validated(h)'
    BY Zenon, <2>1, ValidatedFrame, SelectionParts DEF Failed
  (* A valid block that is not worse than the tip in the new order was not   *)
  (* worse in the old one.                                                   *)
  <2>10. ASSUME NEW c \in nChainTx, c # b, ~HasInvalid(c), ~Worse(c, R)' PROVE ~Worse(c, R)
    <3>1. CASE b # R
      BY Zenon, <2>1, <2>3, <2>6, <2>10, <3>1 DEF Worse, WorseBy
    <3>2. CASE b = R
      <4>1. ~WorseBy(seq, c, R) /\ seq[c] = nSequenceId[c] /\ seq[R] = id /\ c # R
        BY Zenon, <2>1, <2>3, <2>6, <2>10, <3>2 DEF Worse, WorseBy
      <4>2. /\ nChainWork[c] \in Nat /\ nChainWork[R] \in Nat
            /\ nSequenceId[c] \in Int /\ nSequenceId[R] \in Int
        BY Zenon, <2>6, InvParts DEF TypeOK
      <4>3. nChainWork[c] >= nChainWork[R] => nSequenceId[c] > id
        BY Zenon, <2>0, <2>4, <2>10
      <4>4. nChainWork[c] > nChainWork[R]
        BY <2>5, <4>1, <4>2, <4>3 DEF WorseBy
      <4> QED
        BY <4>2, <4>4 DEF Worse, WorseBy
    <3> QED
      BY Zenon, <3>1, <3>2
  <2>11. \A c \in nChainTx : ~HasInvalid(c) /\ ~Worse(c, R)' => c \in setBlockIndexCandidates'
    <3> SUFFICES ASSUME NEW c \in nChainTx, ~HasInvalid(c), ~Worse(c, R)'
                 PROVE  c \in setBlockIndexCandidates'
      BY Zenon
    <3>1. ~WorseBy(seq, c, Tip)
      BY Zenon, <2>0, <2>1 DEF Worse, WorseBy
    <3>2. CASE c = b
      BY Zenon, <2>1, <2>7, <3>1, <3>2 DEF PruneBlockIndexCandidates
    <3>3. CASE c # b
      <4>1. c \in setBlockIndexCandidates
        BY Zenon, <2>6, <2>10, <3>3 DEF Reference
      <4> QED
        BY Zenon, <2>1, <3>1, <3>3, <4>1 DEF PruneBlockIndexCandidates
    <3> QED
      BY Zenon, <3>2, <3>3
  <2>12. Referenced(h)'
    <3>1. ~Worse(R, R)'
      <4>1. nChainWork[R] \in Nat /\ seq[R] \in Int /\ R \in Nat
        BY Zenon, <2>1, <2>3, <2>5, ChainAssumption, InvParts DEF TypeOK
      <4>2. ~WorseBy(seq, R, R)
        BY <4>1 DEF WorseBy
      <4> QED
        BY Zenon, <2>1, <4>2 DEF Worse, WorseBy
    <3>2. R \in setBlockIndexCandidates'
      BY Zenon, <2>6, <2>11, <3>1
    <3>3. Reference(R)'
      BY Zenon, <2>1, <2>6, <2>11, <3>2 DEF Reference, HasInvalid
    <3> QED
      BY Zenon, <2>2, <3>3 DEF Referenced
  <2>13. Targeted(h)'
    BY Zenon, <2>2 DEF Targeted
  <2>14. Numbered'
    <3> SUFFICES ASSUME NEW c \in nChainTx, ~HasInvalid(c)
                 PROVE  /\ nChainWork[c] > nChainWork[Tip] => nSequenceId'[c] >= 0
                        /\ nChainWork[c] >= nChainWork[Tip] => nSequenceId'[c] > id - 1
      BY Zenon, <2>1 DEF Numbered, HasInvalid
    <3>1. nChainWork[c] \in Nat /\ nChainWork[Tip] \in Nat /\ nSequenceId[c] \in Int
      BY Zenon, <2>0, <2>6, InvParts DEF TypeOK
    <3>2. CASE c # b
      <4>1. nSequenceId'[c] = nSequenceId[c]
        BY Zenon, <2>3, <2>6, <3>2
      <4>2. /\ nChainWork[c] >= nChainWork[Tip] => nSequenceId[c] > id
            /\ nChainWork[c] > nChainWork[Tip] => nSequenceId[c] >= 0
        BY Zenon, <2>4
      <4> QED
        BY <2>5, <3>1, <4>1, <4>2
    <3>3. CASE c = b
      <4>1. ~(nChainWork[c] > nChainWork[Tip])
        <5> SUFFICES ASSUME nChainWork[Tip] < nChainWork[c] PROVE FALSE
          BY <3>1
        <5>1. Worse(R, c) /\ ~Worse(c, R)
          BY Zenon, <2>0, <2>6, WorkOrder, InvParts
        <5> QED
          BY Zenon, <2>6, <5>1 DEF Reference
      <4>2. id > id - 1
        BY <2>5
      <4> QED
        BY Zenon, <2>3, <3>3, <4>1, <4>2
    <3> QED
      BY Zenon, <3>2, <3>3
  <2> QED
    BY Zenon, <2>8, <2>9, <2>12, <2>13, <2>14 DEF Selection
(* invalidateblock marks the block it was called with.                     *)
<1>InvalidateBlock. ASSUME NEW b \in Block, InvalidateBlock(h, b) PROVE Selection(h)'
  <2> USE <1>InvalidateBlock
  <2> USE DEF indexVars, dataVars, failVars, linkVars, preciousVars, chainVars
  <2>1. /\ pc[h] = "idle" /\ failedValid' = failedValid \cup {b}
        /\ UNCHANGED <<mapBlockIndex, nChainWork, nTx, failedChild, nChainTx, mapBlocksUnlinked,
                       preciousVars, chainActive, queue, nSequenceId, nValid, pindexMostWork>>
    BY Zenon DEF InvalidateBlock, Enter
  <2>2. pc'[h] = "invalidate" /\ arg'[h] = b
    BY Zenon, InvParts DEF InvalidateBlock, Hold, TypeOK
  <2>3. Tip' = Tip
    BY Zenon, <2>1 DEF Tip
  <2>4. Caused'
    <3>1. \A c \in mapBlockIndex' : Failed(c)' =>
            (c \in mapBlockIndex /\ Failed(c)) \/ Ancestors[c] \cap failedValid' # {}
      BY Zenon, <2>1, SelfAncestor DEF Failed
    <3>2. \A u \in Threads : arg'[u] \in failedValid'
      BY Zenon, <2>1, <2>2
    <3> QED
      BY Zenon, <2>1, <3>1, <3>2, CausedFrame, SelectionParts, InvParts DEF TypeOK
  <2>5. Awaited'
    BY Zenon, <2>1, AwaitedFrame, SelectionParts
  <2>6. Validated(h)'
    <3>1. \A c \in Ancestors[Tip] : ~Failed(c) /\ (c # Genesis => nValid[c] = 5)
      BY Zenon, <2>1, SelectionParts DEF Validated
    <3>2. \A c \in Ancestors[Tip] : Failed(c)' => b \in Ancestors[c]
      BY Zenon, <2>1, <3>1, SelfAncestor DEF Failed
    <3> QED
      BY Zenon, <2>1, <2>2, <2>3, <3>1, <3>2, SelectionParts DEF Validated
  <2>7. Referenced(h)' /\ Targeted(h)'
    BY Zenon, <2>1, <2>2, SelectionParts DEF Referenced, Targeted
  <2>8. Numbered'
    BY Zenon, <2>1, NumberedFrame, SelectionParts
  <2> QED
    BY Zenon, <2>4, <2>5, <2>6, <2>7, <2>8 DEF Selection
(* What it disconnects descends from that block.                           *)
<1>InvalidateDisconnect. ASSUME InvalidateDisconnect(h) PROVE Selection(h)'
  <2> USE <1>InvalidateDisconnect
  <2> USE DEF indexVars, dataVars, failVars, linkVars, preciousVars, pruneVars
  <2>0. csMain = h /\ h \in Threads /\ pc[h] = "invalidate" /\ Tip # Genesis /\ Tip \in Block
    BY Zenon, Holder, InvalidateAboveGenesis, ChainLength, InvParts DEF InvalidateDisconnect, Locked,
       TypeOK
  <2>1. /\ DisconnectTip(h) /\ failedChild' = failedChild \cup {Tip}
        /\ UNCHANGED <<mapBlockIndex, nHeight, nChainWork, nTx, haveData, haveUndo, fHavePruned,
                       failedValid,
                       nChainTx, mapBlocksUnlinked, preciousVars, queue, nSequenceId, nValid>>
    BY Zenon DEF InvalidateDisconnect
  <2>2. Tip' = HashPrev[Tip] /\ UNCHANGED <<pc, arg, pindexMostWork, pindexOldTip>>
    BY Zenon, <2>0, <2>1, Disconnected
  <2>3. Ancestors[HashPrev[Tip]] \subseteq Ancestors[Tip]
    BY Zenon, <2>0, AncestorsOfChild
  <2>4. arg[h] \in Ancestors[Tip] /\ arg[h] \in failedValid
    <3>1. arg[h] \in mapBlockIndex
      BY Zenon, <2>0, InvParts DEF TypeOK, Locking
    <3> QED
      BY Zenon, <2>0, <3>1, ChainIs, SelectionParts DEF InvalidateDisconnect, Caused
  <2>5. PICK r \in Block : r = Tip
    BY Zenon, <2>0
  <2>6. Caused'
    <3>1. \A c \in mapBlockIndex' : Failed(c)' =>
            (c \in mapBlockIndex /\ Failed(c)) \/ Ancestors[c] \cap failedValid' # {}
      BY Zenon, <2>1, <2>4, <2>5 DEF Failed
    <3>2. \A u \in Threads : arg'[u] \in failedValid'
      BY Zenon, <2>1, <2>2, <2>4
    <3> QED
      BY Zenon, <2>1, <3>1, <3>2, CausedFrame, SelectionParts, InvParts DEF TypeOK
  <2>7. Awaited'
    BY Zenon, <2>1, AwaitedFrame, SelectionParts
  <2>8. Validated(h)'
    <3>1. \A c \in Ancestors[Tip] : Failed(c)' => arg[h] \in Ancestors[c]
      BY Zenon, <2>1, <2>4, <2>5, SelectionParts DEF Validated, Failed
    <3> QED
      BY Zenon, <2>0, <2>1, <2>2, <2>3, <3>1, SelectionParts DEF Validated
  <2>9. Referenced(h)' /\ Targeted(h)'
    BY Zenon, <2>0, <2>2, SelectionParts DEF Referenced, Targeted
  <2>10. Numbered'
    BY Zenon, <2>1, NumberedFrame, SelectionParts
  <2> QED
    BY Zenon, <2>6, <2>7, <2>8, <2>9, <2>10 DEF Selection
(* At its end the candidates are complete again.                           *)
<1>InvalidateFinish. ASSUME InvalidateFinish(h) PROVE Selection(h)'
  <2> USE <1>InvalidateFinish
  <2> USE DEF indexVars, dataVars, linkVars, preciousVars, chainVars
  <2>0. PICK R \in Block : R = Tip
    BY Zenon, ChainLength, InvParts DEF TypeOK
  <2>1. /\ pc[h] = "invalidate" /\ ~Contains(arg[h]) /\ Tip' = Tip
        /\ setBlockIndexCandidates' = setBlockIndexCandidates \cup
             {b \in mapBlockIndex : /\ IsValid(b, BLOCK_VALID_TRANSACTIONS)
                                    /\ b \in nChainTx
                                    /\ ~Worse(b, Tip)}
        /\ UNCHANGED <<mapBlockIndex, nChainWork, nTx, failedValid, failedChild, nChainTx,
                       mapBlocksUnlinked, preciousVars, chainActive, queue, nSequenceId, nValid,
                       pindexMostWork>>
    BY Zenon DEF InvalidateFinish, Tip
  <2>2. pc'[h] = "abc" /\ pindexMostWork'[h] = NoBlock
    BY Zenon, <2>1, InvParts, SelectionParts DEF InvalidateFinish, Release, TypeOK, Targeted
  <2>3. \A c \in Ancestors[Tip] : ~Failed(c)
    <3>1. arg[h] \in mapBlockIndex
      BY Zenon, <2>1, InvParts DEF TypeOK, Locking
    <3>2. arg[h] \notin Ancestors[Tip]
      BY Zenon, <2>1, <3>1, ChainIs
    <3>3. \A c \in Ancestors[Tip] : arg[h] \notin Ancestors[c]
      BY Zenon, <2>0, <3>2, AncestorsOfAncestor
    <3> QED
      BY Zenon, <3>3, SelectionParts DEF Validated
  <2>4. \A c \in nChainTx : ~HasInvalid(c) =>
           c \in mapBlockIndex /\ IsValid(c, BLOCK_VALID_TRANSACTIONS)
    BY Zenon, ValidCandidate, SelectionParts
  <2>5. Caused' /\ Awaited'
    <3>1. \A c \in mapBlockIndex' : Failed(c)' => c \in mapBlockIndex /\ Failed(c)
      BY Zenon, <2>1 DEF Failed
    <3>2. \A u \in Threads : pc'[u] # "invalidate"
      BY Zenon, <2>2
    <3> QED
      BY Zenon, <2>1, <3>1, <3>2, CausedFrame, AwaitedFrame, SelectionParts, InvParts DEF TypeOK
  <2>6. Validated(h)'
    BY Zenon, <2>1, <2>3, SelectionParts DEF Validated, Failed
  <2>7. Referenced(h)'
    <3>1. ~HasInvalid(R) /\ Ancestors[R] \cap BadConnect = {} /\ R \in nChainTx /\ ~Worse(R, R)
      BY Zenon, <2>0, <2>3, WorkOrder, SelectionParts, LinkParts, InvParts DEF HasInvalid, Failed,
         Validated, Linked
    <3>2. \A c \in nChainTx : ~HasInvalid(c) /\ ~Worse(c, R) => c \in setBlockIndexCandidates'
      BY Zenon, <2>0, <2>1, <2>4
    <3>3. R \in setBlockIndexCandidates'
      BY Zenon, <3>1, <3>2
    <3>4. Reference(R)'
      BY Zenon, <2>1, <3>1, <3>2, <3>3 DEF Reference, HasInvalid, Worse, WorseBy
    <3> QED
      BY Zenon, <2>2, <3>4 DEF Referenced
  <2>8. Targeted(h)'
    BY Zenon, <2>2 DEF Targeted
  <2>9. Numbered'
    BY Zenon, <2>1, NumberedFrame, SelectionParts
  <2> QED
    BY Zenon, <2>5, <2>6, <2>7, <2>8, <2>9 DEF Selection
<1> SUFFICES ASSUME Next,
                    \A b \in Block :
                      PreciousBlock(h, b) => nChainWork[Tip] >= nLastPreciousChainwork
             PROVE  Selection(h)'
  BY Zenon
<1>1. CASE Step(h)
  <2>1. CASE \E c \in Block : FindMostWorkChainFound(h, c)
    BY Zenon, <2>1, <1>FindMostWorkChainFound
  <2>2. CASE \E c, bad \in Block : FindMostWorkChainRejected(h, c, bad)
    BY Zenon, <2>2, <1>FindMostWorkChainRejected
  <2>3. CASE \E b \in Block : StepConnect(h, b)
    BY Zenon, <2>3, <1>StepConnect
  <2> QED
    BY Zenon, <1>1, <2>1, <2>2, <2>3, <1>AcceptBlockIgnored, <1>AcceptBlockInvalid,
       <1>ReceivedBlockTransactions, <1>LinkBlock, <1>ActivateBestChain,
       <1>FindMostWorkChainNone, <1>StepDisconnect, <1>StepDisconnectFails, <1>StepDone,
       <1>InvalidateDisconnect, <1>InvalidateDisconnectFails, <1>InvalidateFinish DEF Step
<1>2. CASE Start(h)
  <2>1. \A b \in Block : ~ResetBlockFailureFlags(h, b)
    BY Zenon, NeverCalled DEF ResetBlockFailureFlags, Call
  <2> QED
    BY Zenon, <1>2, <2>1, <1>ProcessNewBlockHeaders, <1>ProcessNewBlock,
       <1>PreciousBlock, <1>InvalidateBlock DEF Start
<1> QED
  BY Zenon, <1>1, <1>2, NeverPruned DEF Next

(* A step that changes nothing keeps it.                                   *)
LEMMA StutterSelection ==
  ASSUME NEW h, SingleInv(h), UNCHANGED vars PROVE SingleInv(h)'
<1> USE DEF vars, indexVars, dataVars, failVars, linkVars, preciousVars, chainVars,
            pruneVars, threadVars
<1> SUFFICES ASSUME node = "running" PROVE Selection(h)' /\ NoneWorse'
  BY Zenon DEF SingleInv
<1>0. Selection(h) /\ NoneWorse
  BY Zenon DEF SingleInv
<1>1. /\ Tip' = Tip /\ QueueSet' = QueueSet
      /\ \A b : HasInvalid(b)' = HasInvalid(b) /\ Failed(b)' = Failed(b)
      /\ \A b, c : Worse(b, c)' = Worse(b, c)
  BY Zenon DEF Tip, QueueSet, HasInvalid, Failed, Worse, WorseBy
<1>2. NoneWorse'
  BY Zenon, <1>0, NoneWorseFrame
<1>3. Caused' /\ Awaited'
  BY Zenon, <1>0, <1>1, SelectionParts DEF Caused, Awaited
<1>4. Validated(h)'
  BY Zenon, <1>0, <1>1, SelectionParts DEF Validated
<1>5. \A R : Reference(R) => Reference(R)'
  BY Zenon, <1>1 DEF Reference
<1>6. Referenced(h)'
  BY Zenon, <1>0, <1>1, <1>5, SelectionParts DEF Referenced
<1>7. Targeted(h)'
  BY Zenon, <1>0, <1>1, SelectionParts DEF Targeted, Worse, WorseBy, HasInvalid
<1>8. Numbered'
  BY Zenon, <1>0, NumberedFrame, SelectionParts
<1> QED
  BY Zenon, <1>2, <1>3, <1>4, <1>6, <1>7, <1>8 DEF Selection

(* A node that is stopping does not start again.                           *)
LEMMA StaysStopped ==
  ASSUME [Next]_vars, node' = "running" PROVE node = "running"
<1>1. ASSUME NEW t \in Threads, DisconnectTip(t) PROVE node' = node
  BY Zenon, <1>1 DEF DisconnectTip, AbortNode
<1>2. ASSUME NEW t \in Threads, NEW b \in Block, StepConnect(t, b) PROVE node' = node
  BY Zenon, <1>2 DEF StepConnect, ConnectTipUnreadable, ConnectTipInvalid, ConnectTipFlushFails,
     ConnectTipConnected, AbortNode
<1>3. ASSUME NEW t \in Threads, Step(t) PROVE node' = node
  <2>1. CASE StepDisconnect(t) \/ InvalidateDisconnect(t)
    BY Zenon, <1>1, <2>1 DEF StepDisconnect, InvalidateDisconnect
  <2>2. CASE AcceptBlockIgnored(t) \/ AcceptBlockInvalid(t) \/ ActivateBestChain(t)
             \/ FindMostWorkChainNone(t) \/ StepDone(t) \/ InvalidateFinish(t)
             \/ StepDisconnectFails(t) \/ InvalidateDisconnectFails(t)
    BY Zenon, <2>2 DEF AcceptBlockIgnored, AcceptBlockInvalid, ActivateBestChain,
       FindMostWorkChainNone, StepDone, InvalidateFinish, StepDisconnectFails,
       InvalidateDisconnectFails
  <2>3. CASE ReceivedBlockTransactions(t)
    BY Zenon, <2>3 DEF ReceivedBlockTransactions
  <2>4. CASE LinkBlock(t)
    BY Zenon, <2>4 DEF LinkBlock
  <2>5. CASE \/ \E c \in Block : FindMostWorkChainFound(t, c)
             \/ \E c, bad \in Block : FindMostWorkChainRejected(t, c, bad)
    BY Zenon, <2>5 DEF FindMostWorkChainFound, FindMostWorkChainRejected
  <2> QED
    BY Zenon, <1>2, <1>3, <2>1, <2>2, <2>3, <2>4, <2>5 DEF Step
<1>4. ASSUME NEW t \in Threads, Start(t) PROVE node' = node
  BY Zenon, <1>4 DEF Start, ProcessNewBlockHeaders, ProcessNewBlock, PreciousBlock,
     InvalidateBlock, ResetBlockFailureFlags
<1>5. ASSUME NEW b \in Block, PruneOneBlockFile(b) PROVE node' = node
  BY Zenon, <1>5 DEF PruneOneBlockFile
<1>6. UNCHANGED vars => node' = node
  BY Zenon DEF vars
<1> QED
  BY Zenon, <1>3, <1>4, <1>5, <1>6 DEF Next

(* Without pruning fHavePruned stays as it is, and calls are only added.   *)
LEMMA CallsAdded ==
  ASSUME MaxCalls["prune"] = 0, Inv, [Next]_vars
  PROVE  UNCHANGED fHavePruned /\ (nCalls'["invalidate"] = 0 => nCalls["invalidate"] = 0)
<1> DEFINE Kept == nCalls'["invalidate"] = 0 => nCalls["invalidate"] = 0
<1>Count. ASSUME NEW c \in Call, Count(c) PROVE Kept
  <2>1. "invalidate" \in Call /\ nCalls \in [Call -> Nat]
    BY Zenon, InvParts DEF TypeOK, Call
  <2>2. nCalls' = [nCalls EXCEPT ![c] = @ + 1]
    BY Zenon, <1>Count DEF Count
  <2>3. nCalls["invalidate"] \in Nat
    BY Zenon, <2>1
  <2>4. nCalls'["invalidate"] \in {nCalls["invalidate"], nCalls["invalidate"] + 1}
    BY Zenon, <2>1, <2>2
  <2> QED
    BY <2>3, <2>4
<1>Same. nCalls' = nCalls => Kept
  BY Zenon
<1> HIDE DEF Kept
<1> USE DEF pruneVars
<1>1. ASSUME NEW t \in Threads, DisconnectTip(t) PROVE Kept
  BY Zenon, <1>1, <1>Count, <1>Same DEF DisconnectTip, Call
<1>2. ASSUME NEW t \in Threads, NEW b \in Block, StepConnect(t, b)
      PROVE  UNCHANGED fHavePruned /\ Kept
  BY Zenon, <1>2, <1>Count, <1>Same DEF StepConnect, ConnectTipUnreadable, ConnectTipInvalid,
     ConnectTipFlushFails, ConnectTipConnected, Call
<1>3. ASSUME NEW t \in Threads, Step(t) PROVE UNCHANGED fHavePruned /\ Kept
  <2>1. CASE StepDisconnect(t) \/ InvalidateDisconnect(t)
    BY Zenon, <1>1, <2>1 DEF StepDisconnect, InvalidateDisconnect
  <2>2. CASE AcceptBlockIgnored(t) \/ AcceptBlockInvalid(t) \/ ActivateBestChain(t)
             \/ FindMostWorkChainNone(t) \/ StepDone(t) \/ InvalidateFinish(t)
             \/ StepDisconnectFails(t) \/ InvalidateDisconnectFails(t)
    BY Zenon, <1>Same, <2>2 DEF AcceptBlockIgnored, AcceptBlockInvalid, ActivateBestChain,
       FindMostWorkChainNone, StepDone, InvalidateFinish, StepDisconnectFails,
       InvalidateDisconnectFails
  <2>3. CASE ReceivedBlockTransactions(t)
    BY Zenon, <1>Same, <2>3 DEF ReceivedBlockTransactions
  <2>4. CASE LinkBlock(t)
    BY Zenon, <1>Same, <2>4 DEF LinkBlock
  <2>5. CASE \/ \E c \in Block : FindMostWorkChainFound(t, c)
             \/ \E c, bad \in Block : FindMostWorkChainRejected(t, c, bad)
    BY Zenon, <1>Same, <2>5 DEF FindMostWorkChainFound, FindMostWorkChainRejected
  <2> QED
    BY Zenon, <1>2, <1>3, <2>1, <2>2, <2>3, <2>4, <2>5 DEF Step
<1>4. ASSUME NEW t \in Threads, Start(t) PROVE UNCHANGED fHavePruned /\ Kept
  BY Zenon, <1>4, <1>Count, <1>Same DEF Start, ProcessNewBlockHeaders, ProcessNewBlock,
     PreciousBlock, InvalidateBlock, ResetBlockFailureFlags, Call
<1>5. UNCHANGED vars => UNCHANGED fHavePruned /\ Kept
  BY Zenon, <1>Same DEF vars
<1> QED
  BY Zenon, <1>3, <1>4, <1>5, NeverPruned DEF Next, Kept

(* The inductive step for one thread.                                      *)
LEMMA NextSingle ==
  ASSUME NEW h, Threads = {h}, MaxCalls["prune"] = 0, MaxCalls["reconsider"] = 0,
         Inv, LinkOK, SingleInv(h), [Next]_vars,
         [\A t \in Threads, b \in Block :
            PreciousBlock(t, b) => nChainWork[Tip] >= nLastPreciousChainwork]_vars
  PROVE  (Inv /\ LinkOK /\ SingleInv(h))'
<1>1. Inv' /\ LinkOK' /\ fHavePruned = "no" /\ fHavePruned' = "no"
  BY Zenon, NextInv, NextLinks, CallsAdded DEF SingleInv
<1>2. CASE UNCHANGED vars
  BY Zenon, <1>1, <1>2, StutterSelection
<1>3. CASE /\ Next
           /\ \A t \in Threads, b \in Block :
                PreciousBlock(t, b) => nChainWork[Tip] >= nLastPreciousChainwork
  <2> SUFFICES ASSUME node' = "running" PROVE Selection(h)' /\ NoneWorse'
    BY Zenon, <1>1 DEF SingleInv
  <2>1. node = "running"
    BY Zenon, StaysStopped
  <2>2. Selection(h) /\ NoneWorse
    BY Zenon, <2>1 DEF SingleInv
  <2>3. Selection(h)'
    BY Zenon, <1>1, <1>3, <2>1, <2>2, NextSelection
  <2>4. \A t \in Threads : PreciousBlock(t, Tip) => ~Failed(Tip)
    <3>1. Tip \in Ancestors[Tip]
      BY Zenon, ChainLength, SelfAncestor, InvParts DEF TypeOK
    <3>2. pc[h] = "idle" => ~Failed(Tip)
      BY Zenon, <2>2, <3>1, SelectionParts DEF Validated
    <3> QED
      BY Zenon, <3>2 DEF PreciousBlock, Enter
  <2>5. NoneWorse'
    BY Zenon, <1>1, <2>2, <2>4, NextNoneWorse
  <2> QED
    BY Zenon, <2>3, <2>5
<1> QED
  BY Zenon, <1>2, <1>3

(* So it holds in every state of a run.                                    *)
LEMMA SingleAlways ==
  ASSUME NEW CONSTANT h, Threads = {h}, MaxCalls["prune"] = 0, MaxCalls["reconsider"] = 0
  PROVE  Spec /\ PreciousExtends => [](Inv /\ LinkOK /\ SingleInv(h))
<1>1. Init => Inv /\ LinkOK /\ SingleInv(h)
  BY Zenon, InitInv, InitLinks, InitSelection
<1>2. /\ Inv /\ LinkOK /\ SingleInv(h) /\ [Next]_vars
      /\ [\A t \in Threads, b \in Block :
            PreciousBlock(t, b) => nChainWork[Tip] >= nLastPreciousChainwork]_vars
      => (Inv /\ LinkOK /\ SingleInv(h))'
  BY Zenon, NextSingle
<1> QED
  BY <1>1, <1>2, PTL DEF Spec, PreciousExtends

-----------------------------------------------------------------------------
(* Without invalidateblock, whatever was received with all its ancestors   *)
(* is linked.                                                              *)

(* AcceptBlock stores no block it finds invalid; a block that failed and   *)
(* is not linked is one of those, and so is the parent of a received block *)
(* that neither waits nor is in line.                                      *)
Innocent ==
  /\ nTx \cap BadContext = {}
  /\ nCalls["invalidate"] = 0 =>
       /\ \A b \in mapBlockIndex : Failed(b) => b \in nChainTx \cup BadContext
       /\ \A b \in nTx \ nChainTx :
            b \in mapBlocksUnlinked \cup QueueSet \/ HashPrev[b] \in BadContext

(* It holds of the index with only the genesis block.                      *)
LEMMA InitInnocent == Init => Innocent
<1> SUFFICES ASSUME Init PROVE Innocent
  BY Zenon
<1>1. nTx = {Genesis} /\ nChainTx = {Genesis} /\ failedValid = {} /\ failedChild = {}
  BY Zenon DEF Init
<1> QED
  BY Zenon, <1>1, ChainAssumption DEF Innocent, Failed

(* It stays while nothing is linked and only linked blocks fail.           *)
LEMMA InnocentFrame ==
  ASSUME Inv, Innocent, nCalls'["invalidate"] = 0 => nCalls["invalidate"] = 0,
         UNCHANGED <<nTx, nChainTx, mapBlocksUnlinked, queue>>,
         \A b \in mapBlockIndex' : Failed(b)' =>
            (b \in mapBlockIndex /\ Failed(b)) \/ b \in nChainTx \cup BadContext
  PROVE  Innocent'
<1>1. QueueSet' = QueueSet
  BY Zenon DEF QueueSet
<1> QED
  BY Zenon, <1>1 DEF Innocent

(* The blocks FindMostWorkChain walks over are linked.                     *)
LEMMA AncestorsLinked ==
  ASSUME Inv, LinkOK, NEW c \in nChainTx PROVE Ancestors[c] \subseteq nChainTx
<1>1. nChainTx \in SUBSET Block /\ PrevClosed(nChainTx)
  BY Zenon, LinkParts, InvParts DEF Linked, TypeOK
<1> QED
  BY Zenon, <1>1, AncestorsLeast

(* Without pruning every step keeps it, however the threads interleave.    *)
LEMMA NextInnocent ==
  ASSUME MaxCalls["prune"] = 0, Inv, LinkOK, Innocent
  PROVE  [Next]_vars => Innocent'
<1> USE DEF indexVars, dataVars, failVars, linkVars, preciousVars, chainVars, pruneVars, threadVars
<1> DEFINE Kept == nCalls'["invalidate"] = 0 => nCalls["invalidate"] = 0
(* Steps that mark no block as failed.                                     *)
<1>Clean.
  ASSUME Kept, UNCHANGED <<nTx, nChainTx, mapBlocksUnlinked, queue>>,
         failedValid' \subseteq failedValid, failedChild' \subseteq failedChild
  PROVE  Innocent'
  <2>1. \A b \in mapBlockIndex' : Failed(b)' => b \in mapBlockIndex /\ Failed(b)
    BY Zenon, <1>Clean, InvParts DEF Failed, TypeOK
  <2> QED
    BY Zenon, <1>Clean, <2>1, InnocentFrame
(* Steps that mark linked blocks, or a block AcceptBlock rejects.          *)
<1>Marked.
  ASSUME Kept, UNCHANGED <<nTx, nChainTx, mapBlocksUnlinked, queue, mapBlockIndex>>,
         failedValid' \cup failedChild'
           \subseteq failedValid \cup failedChild \cup nChainTx \cup BadContext
  PROVE  Innocent'
  <2>1. \A b \in mapBlockIndex' : Failed(b)' =>
           (b \in mapBlockIndex /\ Failed(b)) \/ b \in nChainTx \cup BadContext
    BY Zenon, <1>Marked DEF Failed
  <2> QED
    BY Zenon, <1>Marked, <2>1, InnocentFrame
<1>ReceivedBlockTransactions.
  ASSUME NEW t \in Threads, ReceivedBlockTransactions(t), Kept PROVE Innocent'
  <2> USE <1>ReceivedBlockTransactions
  <2> DEFINE b == arg[t]
  <2>1. /\ b \in mapBlockIndex \ {Genesis} /\ b \notin nTx /\ UNCHANGED nChainTx
        /\ HashPrev[b] \in mapBlockIndex /\ queue = <<>>
    BY Zenon, StoredBlock
  <2>2. /\ nTx' = nTx \cup {b} /\ b \notin BadContext
        /\ UNCHANGED <<mapBlockIndex, failedValid, failedChild>>
    BY Zenon DEF ReceivedBlockTransactions, ContextualCheckBlock
  <2>3. /\ mapBlocksUnlinked \subseteq mapBlocksUnlinked'
        /\ \/ queue' = <<b>>
           \/ b \in mapBlocksUnlinked'
           \/ ~IsValid(HashPrev[b], BLOCK_VALID_TREE) /\ HashPrev[b] \notin nChainTx
    BY Zenon, <2>1 DEF ReceivedBlockTransactions, ParentLinked
  <2> HIDE DEF b
  <2>4. QueueSet = {}
    <3>1. Len(queue) = 0
      BY <2>1
    <3>2. 1..0 = {}
      OBVIOUS
    <3> QED
      BY Zenon, <3>1, <3>2 DEF QueueSet
  <2>5. queue' = <<b>> => b \in QueueSet'
    <3> SUFFICES ASSUME queue' = <<b>> PROVE b \in QueueSet'
      BY Zenon
    <3>1. 1 \in 1..Len(queue') /\ queue'[1] = b
      OBVIOUS
    <3> QED
      BY Zenon, <3>1 DEF QueueSet
  <2>6. ~IsValid(HashPrev[b], BLOCK_VALID_TREE) => Failed(HashPrev[b])
    <3>1. nValid[HashPrev[b]] \in {2, 3, 5}
      BY Zenon, <2>1, LinkParts DEF Stored
    <3>2. 2 >= 2 /\ 3 >= 2 /\ 5 >= 2
      OBVIOUS
    <3> QED
      BY Zenon, <3>1, <3>2 DEF IsValid, BLOCK_VALID_TREE
  <2>7. nTx' \cap BadContext = {}
    BY Zenon, <2>2 DEF Innocent
  <2> SUFFICES ASSUME nCalls["invalidate"] = 0
               PROVE  /\ \A c \in mapBlockIndex : Failed(c)' => c \in nChainTx \cup BadContext
                      /\ \A c \in nTx' \ nChainTx :
                           \/ c \in mapBlocksUnlinked' \cup QueueSet'
                           \/ HashPrev[c] \in BadContext
    BY Zenon, <2>1, <2>2, <2>7 DEF Innocent
  <2>8. \A c \in mapBlockIndex : Failed(c)' => c \in nChainTx \cup BadContext
    BY Zenon, <2>2 DEF Innocent, Failed
  <2>9. b \in mapBlocksUnlinked' \cup QueueSet' \/ HashPrev[b] \in BadContext
    BY Zenon, <2>1, <2>3, <2>5, <2>6 DEF Innocent
  <2>10. \A c \in nTx \ nChainTx : c \in mapBlocksUnlinked' \/ HashPrev[c] \in BadContext
    BY Zenon, <2>3, <2>4 DEF Innocent
  <2> QED
    BY Zenon, <2>2, <2>8, <2>9, <2>10
<1>LinkBlock. ASSUME NEW t \in Threads, LinkBlock(t), Kept PROVE Innocent'
  <2> USE <1>LinkBlock
  <2> DEFINE b == Head(queue)
  <2>1. QueueSet' = (QueueSet \ {b}) \cup Waiting(b)
    BY Zenon, LinkTurn
  <2>2. /\ nChainTx' = nChainTx \cup {b} /\ mapBlocksUnlinked' = mapBlocksUnlinked \ Waiting(b)
        /\ UNCHANGED <<mapBlockIndex, nTx, failedValid, failedChild>>
    BY Zenon DEF LinkBlock
  <2> HIDE DEF b
  <2> QED
    BY Zenon, <2>1, <2>2 DEF Innocent, Failed
<1>StepConnect.
  ASSUME NEW t \in Threads, NEW b \in Block, StepConnect(t, b), Kept PROVE Innocent'
  <2> USE <1>StepConnect
  <2>1. b \in nChainTx
    BY Zenon, NextIsLinked DEF StepConnect
  <2>2. CASE ConnectTipInvalid(t, b)
    <3>1. /\ failedValid' = failedValid \cup {b}
          /\ UNCHANGED <<nTx, nChainTx, mapBlocksUnlinked, queue, mapBlockIndex, failedChild>>
      BY Zenon, <2>2 DEF ConnectTipInvalid
    <3> QED
      BY Zenon, <2>1, <3>1, <1>Marked
  <2>3. CASE ~ConnectTipInvalid(t, b)
    <3>1. UNCHANGED <<nTx, nChainTx, mapBlocksUnlinked, queue, failedValid, failedChild>>
      BY Zenon, <2>3 DEF StepConnect, ConnectTipUnreadable, ConnectTipFlushFails,
         ConnectTipConnected, ConnectBlock
    <3> QED
      BY Zenon, <3>1, <1>Clean
  <2> QED
    BY Zenon, <2>2, <2>3
<1>Rejected.
  ASSUME NEW t \in Threads, NEW c \in Block, NEW bad \in Block,
         FindMostWorkChainRejected(t, c, bad), Kept
  PROVE  Innocent'
  <2> USE <1>Rejected
  <2>1. Failed(bad) /\ c \in nChainTx
    BY Zenon, RejectedFailed, LinkParts DEF FindMostWorkChainRejected, Linked
  <2>2. /\ failedChild' = failedChild \cup Above(c, bad)
        /\ UNCHANGED <<nTx, nChainTx, mapBlocksUnlinked, queue, mapBlockIndex, failedValid>>
    BY Zenon, <2>1 DEF FindMostWorkChainRejected
  <2>3. Above(c, bad) \subseteq nChainTx
    BY Zenon, <2>1, AncestorsLinked DEF Above
  <2> QED
    BY Zenon, <2>2, <2>3, <1>Marked
<1>Step. ASSUME NEW t \in Threads, Step(t), Kept PROVE Innocent'
  <2> USE <1>Step
  <2>1. CASE AcceptBlockIgnored(t) \/ ActivateBestChain(t) \/ FindMostWorkChainNone(t)
             \/ StepDone(t) \/ StepDisconnect(t) \/ StepDisconnectFails(t) \/ InvalidateFinish(t)
    <3>1. UNCHANGED <<nTx, nChainTx, mapBlocksUnlinked, queue, failedValid, failedChild>>
      BY Zenon, <2>1 DEF AcceptBlockIgnored, ActivateBestChain, FindMostWorkChainNone, StepDone,
         StepDisconnect, StepDisconnectFails, InvalidateFinish
    <3> QED
      BY Zenon, <3>1, <1>Clean
  <2>2. ASSUME NEW c \in Block, FindMostWorkChainFound(t, c) PROVE Innocent'
    <3>1. UNCHANGED <<nTx, nChainTx, mapBlocksUnlinked, queue, failedValid, failedChild>>
      BY Zenon, <2>2 DEF FindMostWorkChainFound
    <3> QED
      BY Zenon, <3>1, <1>Clean
  <2>3. CASE AcceptBlockInvalid(t)
    <3>1. /\ failedValid' = failedValid \cup {arg[t]} /\ arg[t] \in BadContext
          /\ UNCHANGED <<nTx, nChainTx, mapBlocksUnlinked, queue, mapBlockIndex, failedChild>>
      BY Zenon, <2>3 DEF AcceptBlockInvalid, ContextualCheckBlock
    <3> QED
      BY Zenon, <3>1, <1>Marked
  <2>4. CASE InvalidateDisconnect(t) \/ InvalidateDisconnectFails(t)
    <3>1. /\ failedChild' = failedChild \cup {Tip}
          /\ UNCHANGED <<nTx, nChainTx, mapBlocksUnlinked, queue, mapBlockIndex, failedValid>>
      BY Zenon, <2>4 DEF InvalidateDisconnect, InvalidateDisconnectFails
    <3>2. Tip \in nChainTx
      BY Zenon, LinkParts DEF Linked
    <3> QED
      BY Zenon, <3>1, <3>2, <1>Marked
  <2> QED
    BY Zenon, <2>1, <2>2, <2>3, <2>4, <1>ReceivedBlockTransactions, <1>LinkBlock,
       <1>StepConnect, <1>Rejected DEF Step
<1>Start.
  ASSUME NEW t \in Threads, NEW b \in Block, Kept,
         \/ ProcessNewBlockHeaders(t, b) \/ ProcessNewBlock(t, b) \/ PreciousBlock(t, b)
         \/ ResetBlockFailureFlags(t, b)
  PROVE  Innocent'
  <2>1. /\ UNCHANGED <<nTx, nChainTx, mapBlocksUnlinked, queue>>
        /\ failedValid' \subseteq failedValid /\ failedChild' \subseteq failedChild
    BY Zenon, <1>Start DEF ProcessNewBlockHeaders, ProcessNewBlock, PreciousBlock,
       ResetBlockFailureFlags
  <2> QED
    BY Zenon, <1>Start, <2>1, <1>Clean
(* invalidateblock ends the claim.                                         *)
<1>InvalidateBlock. ASSUME NEW t \in Threads, NEW b \in Block, InvalidateBlock(t, b) PROVE Innocent'
  <2>1. "invalidate" \in Call /\ nCalls \in [Call -> Nat] /\ UNCHANGED nTx
    BY Zenon, <1>InvalidateBlock, InvParts DEF TypeOK, Call, InvalidateBlock
  <2>2. nCalls["invalidate"] \in Nat /\ nCalls'["invalidate"] = nCalls["invalidate"] + 1
    BY Zenon, <1>InvalidateBlock, <2>1 DEF InvalidateBlock, Count
  <2>3. nCalls'["invalidate"] # 0
    BY <2>2
  <2> QED
    BY Zenon, <2>1, <2>3 DEF Innocent
<1> SUFFICES ASSUME [Next]_vars PROVE Innocent'
  BY Zenon
<1>1. Kept
  BY Zenon, CallsAdded
<1>2. CASE UNCHANGED vars
  <2>1. UNCHANGED <<nTx, nChainTx, mapBlocksUnlinked, queue, failedValid, failedChild>>
    BY Zenon, <1>2 DEF vars
  <2> QED
    BY Zenon, <1>1, <2>1, <1>Clean
<1>3. ASSUME NEW t \in Threads, Start(t) PROVE Innocent'
  BY Zenon, <1>1, <1>3, <1>Start, <1>InvalidateBlock DEF Start
<1> QED
  BY Zenon, <1>1, <1>2, <1>3, <1>Step, NeverPruned DEF Next

-----------------------------------------------------------------------------
(* What one thread guarantees when its calls have returned.                *)

(* A block received with all its ancestors is linked if every one of these *)
(* that is not linked waits for its parent.                                *)
LEMMA LinkedDown ==
  ASSUME Inv, LinkOK, NEW b \in mapBlockIndex, AllProcessed(b),
         \A x \in (Ancestors[b] \cap nTx) \ (nChainTx \cup {Genesis}) : x \in mapBlocksUnlinked
  PROVE  b \in nChainTx
<1> DEFINE S == Ancestors[b] \ nChainTx
<1>1. b \in Block /\ Ancestors[b] \subseteq Block /\ b \in Ancestors[b] /\ PrevClosed(Ancestors[b])
  BY Zenon, SelfAncestor, AncestorsClosed, InvParts DEF TypeOK
<1>2. Genesis \in nChainTx
  <2>1. Tip \in mapBlockIndex /\ Tip \in nChainTx /\ nChainTx \in SUBSET Block
    BY Zenon, ChainLength, LinkParts, InvParts DEF Linked, TypeOK
  <2> QED
    BY Zenon, <2>1, AncestorsLeast, LinkParts, InvParts DEF Linked, KnownTree
<1>4. PrevClosed(S)
  <2> SUFFICES ASSUME NEW x \in S, x # Genesis PROVE HashPrev[x] \in S
    BY Zenon DEF PrevClosed
  <2>1. HashPrev[x] \in Ancestors[b] /\ x \in nTx \ nChainTx
    BY Zenon, <1>1 DEF PrevClosed, AllProcessed
  <2>2. x \in mapBlocksUnlinked
    BY Zenon, <2>1
  <2> QED
    BY Zenon, <2>1, <2>2, LinkParts DEF Linked
<1>5. ASSUME b \notin nChainTx PROVE FALSE
  <2>1. b \in S /\ S \in SUBSET Block
    BY Zenon, <1>1, <1>5
  <2>2. Ancestors[b] \subseteq S
    BY Zenon, <1>4, <2>1, AncestorsLeast
  <2> QED
    BY Zenon, <1>2, <2>2, InvParts DEF KnownTree
<1> QED
  BY Zenon, <1>5

(* No block is in an empty line.                                           *)
LEMMA NobodyInLine == ASSUME queue = <<>> PROVE QueueSet = {}
<1>1. Len(queue) = 0
  OBVIOUS
<1>2. 1..0 = {}
  OBVIOUS
<1> QED
  BY Zenon, <1>1, <1>2 DEF QueueSet

(* A block that was received with all its ancestors, none of which has     *)
(* failed, is linked once the queue is empty.                              *)
LEMMA ReceivedIsLinked ==
  ASSUME Inv, LinkOK, Awaited, queue = <<>>, NEW b \in mapBlockIndex, AllProcessed(b),
         \A a \in Ancestors[b] : ~Failed(a)
  PROVE  b \in nChainTx
<1>1. b \in Block /\ PrevClosed(Ancestors[b])
  BY Zenon, AncestorsClosed, InvParts DEF TypeOK
<1>2. \A x \in (Ancestors[b] \cap nTx) \ (nChainTx \cup {Genesis}) : x \in mapBlocksUnlinked
  BY Zenon, <1>1, NobodyInLine DEF PrevClosed, Awaited
<1> QED
  BY Zenon, <1>2, LinkedDown

(* Without invalidateblock it is linked whatever has failed.               *)
LEMMA InnocentIsLinked ==
  ASSUME Inv, LinkOK, Innocent, nCalls["invalidate"] = 0, queue = <<>>,
         NEW b \in mapBlockIndex, AllProcessed(b)
  PROVE  b \in nChainTx
<1>1. b \in Block /\ PrevClosed(Ancestors[b])
  BY Zenon, AncestorsClosed, InvParts DEF TypeOK
<1>2. \A x \in (Ancestors[b] \cap nTx) \ (nChainTx \cup {Genesis}) : x \in mapBlocksUnlinked
  BY Zenon, <1>1, NobodyInLine DEF PrevClosed, Innocent, AllProcessed
<1> QED
  BY Zenon, <1>2, LinkedDown

(* The state between two calls of the one thread, or before its            *)
(* ActivateBestChain.                                                      *)
LEMMA Settled ==
  ASSUME NEW h, Threads = {h}, Inv, LinkOK, SingleInv(h), node = "running",
         pc[h] \in {"idle", "accepted"}
  PROVE  /\ Caused /\ Awaited /\ NoneWorse /\ queue = <<>> /\ Reference(Tip)
         /\ pc[h] = "idle" => \A c \in setBlockIndexCandidates : ~Worse(Tip, c)
         /\ \A a \in mapBlockIndex : Contains(a) => ~Failed(a)
         /\ \A b \in mapBlockIndex : nValid[b] = 5 =>
              \A a \in Ancestors[b] \ {Genesis} : nValid[a] = 5
<1>1. Selection(h) /\ NoneWorse
  BY Zenon DEF SingleInv
<1>2. queue = <<>>
  BY Zenon, LinkParts DEF InLine
<1>3. Reference(Tip)
  BY Zenon, <1>1, SelectionParts DEF Referenced
<1>4. \A a \in mapBlockIndex : Contains(a) => ~Failed(a)
  BY Zenon, <1>1, ChainIs, SelectionParts DEF Validated
<1> QED
  BY Zenon, <1>1, <1>2, <1>3, <1>4, SelectionParts DEF Targeted, Validated

(* There, a block the node could switch to is linked and valid.            *)
LEMMA UsableIsLinked ==
  ASSUME NEW h, Threads = {h}, Inv, LinkOK, SingleInv(h), node = "running",
         pc[h] \in {"idle", "accepted"}, NEW b \in mapBlockIndex, Usable(b)
  PROVE  b \in nChainTx /\ ~HasInvalid(b)
<1>1. \A a \in Ancestors[b] : ~Failed(a)
  BY Zenon, Settled, AncestorsKnown, InvParts DEF Usable
<1>2. b \in nChainTx
  BY Zenon, <1>1, Settled, ReceivedIsLinked DEF Usable
<1> QED
  BY Zenon, <1>1, <1>2 DEF HasInvalid, Failed

(* The assertions of CheckBlockIndex, but for AllLinked.                   *)
LEMMA SingleCheckBlockIndex ==
  ASSUME NEW h, Threads = {h}, Inv, LinkOK, SingleInv(h)
  PROVE  /\ UsableBlocksLinked /\ StatusConsistent /\ FailedHasCause
         /\ CandidatesComplete /\ CandidatesSound /\ UnlinkedExact
<1> SUFFICES ASSUME CheckPoint
             PROVE  /\ UsableBlocksLinked /\ StatusConsistent /\ FailedHasCause
                    /\ CandidatesComplete /\ CandidatesSound /\ UnlinkedExact
  BY Zenon DEF UsableBlocksLinked, StatusConsistent, FailedHasCause, CandidatesComplete,
     CandidatesSound, UnlinkedExact
<1>0. node = "running" /\ pc[h] \in {"idle", "accepted"}
  BY Zenon DEF CheckPoint
<1>1. /\ Caused /\ Awaited /\ NoneWorse /\ queue = <<>> /\ Reference(Tip)
      /\ \A b \in mapBlockIndex : nValid[b] = 5 =>
           \A a \in Ancestors[b] \ {Genesis} : nValid[a] = 5
  BY Zenon, <1>0, Settled
<1>2. mapBlockIndex \subseteq Block /\ nTx \subseteq mapBlockIndex /\ nChainTx \subseteq mapBlockIndex
      /\ \A b \in mapBlockIndex : Ancestors[b] \subseteq mapBlockIndex
  BY Zenon, AncestorsKnown, InvParts DEF TypeOK
<1>3. UsableBlocksLinked
  BY Zenon, <1>0, UsableIsLinked, InvParts, LinkParts DEF UsableBlocksLinked, Received, Sequenced
<1>4. StatusConsistent
  <2>1. \A b \in mapBlockIndex : nValid[b] \in {2, 3, 5} /\ (b \in nTx <=> nValid[b] \in {3, 5})
    BY Zenon, LinkParts DEF Stored
  <2>2. ~(2 >= 3) /\ 3 >= 3 /\ 5 >= 3 /\ ~(2 >= 5) /\ ~(3 >= 5) /\ 5 >= 5
    OBVIOUS
  <2>3. nTx = {b \in mapBlockIndex : nValid[b] >= BLOCK_VALID_TRANSACTIONS}
    <3>1. \A b \in mapBlockIndex : b \in nTx <=> nValid[b] >= 3
      BY Zenon, <2>1, <2>2
    <3> QED
      BY Zenon, <1>2, <3>1 DEF BLOCK_VALID_TRANSACTIONS
  <2>4. \A b \in mapBlockIndex : nValid[b] >= BLOCK_VALID_SCRIPTS =>
          \A a \in Ancestors[b] \ {Genesis} : nValid[a] >= BLOCK_VALID_SCRIPTS
    <3>1. \A b \in mapBlockIndex : nValid[b] >= 5 => nValid[b] = 5
      BY Zenon, <2>1, <2>2
    <3> QED
      BY Zenon, <1>1, <2>2, <3>1 DEF BLOCK_VALID_SCRIPTS
  <2> QED
    BY Zenon, <2>3, <2>4, LinkParts DEF StatusConsistent, Stored
<1>5. FailedHasCause
  BY Zenon, <1>1 DEF FailedHasCause, Caused
<1>6. \A b \in mapBlockIndex : AllProcessed(b) /\ ~HasInvalid(b) => b \in nChainTx
  <2> SUFFICES ASSUME NEW b \in mapBlockIndex, AllProcessed(b), ~HasInvalid(b)
               PROVE  b \in nChainTx
    BY Zenon
  <2>1. \A a \in Ancestors[b] : ~Failed(a)
    BY Zenon, <1>1, <1>2, InvalidPassesOn DEF Caused
  <2> QED
    BY Zenon, <1>1, <2>1, ReceivedIsLinked
<1>7. CandidatesComplete
  BY Zenon, <1>1, <1>6 DEF CandidatesComplete, Reference
<1>8. CandidatesSound
  BY Zenon, <1>1, InvParts DEF CandidatesSound, NoneWorse, Received
<1>9. UnlinkedExact
  <2>1. haveData = nTx /\ mapBlocksUnlinked \subseteq nTx
    BY Zenon, LinkParts, InvParts DEF Stored, Received
  <2>2. \A b \in mapBlocksUnlinked : HasInvalid(b) \/ ~NoneMissing(b)
    BY Zenon, <1>2, <1>6, <2>1, LinkParts DEF NoneMissing, AllProcessed, Linked
  <2>3. ASSUME NEW b \in haveData \ {Genesis}, ~HasInvalid(b), ~NoneMissing(b)
        PROVE  b \in mapBlocksUnlinked
    <3>1. b \in nTx \ nChainTx /\ b \in mapBlockIndex /\ b \in Block
      BY Zenon, <1>2, <2>1, <2>3, InvParts DEF NoneMissing, Received, AllProcessed
    <3>2. ~Failed(HashPrev[b])
      <4>1. HashPrev[b] \in mapBlockIndex /\ HashPrev[b] \in Ancestors[b]
        BY Zenon, <2>3, <3>1, SelfAncestor, AncestorsClosed, InvParts DEF PrevClosed, KnownTree
      <4> QED
        BY Zenon, <1>1, <2>3, <3>1, <4>1, InvalidPassesOn DEF Caused
    <3>3. b \notin QueueSet
      BY Zenon, <1>1, NobodyInLine
    <3> QED
      BY Zenon, <1>1, <3>1, <3>2, <3>3 DEF Awaited
  <2> QED
    BY Zenon, <2>1, <2>2, <2>3 DEF UnlinkedExact
<1> QED
  BY Zenon, <1>3, <1>4, <1>5, <1>7, <1>8, <1>9

(* AllLinked, while no block was invalidated.                              *)
LEMMA SingleAllLinked ==
  ASSUME NEW h, Threads = {h}, Inv, LinkOK, SingleInv(h), Innocent, nCalls["invalidate"] = 0
  PROVE  AllLinked
<1> SUFFICES ASSUME CheckPoint
             PROVE  /\ \A b \in mapBlockIndex : AllProcessed(b) => b \in nChainTx
                    /\ \A b \in mapBlocksUnlinked : ~NoneMissing(b)
  BY Zenon DEF AllLinked
<1>1. queue = <<>>
  BY Zenon, Settled DEF CheckPoint
<1>2. \A b \in mapBlockIndex : AllProcessed(b) => b \in nChainTx
  BY Zenon, <1>1, InnocentIsLinked
<1>3. haveData = nTx /\ mapBlocksUnlinked \subseteq mapBlockIndex
      /\ \A b \in mapBlocksUnlinked : b \notin nChainTx
  BY Zenon, LinkParts, InvParts DEF Stored, TypeOK, Linked
<1> QED
  BY Zenon, <1>2, <1>3 DEF NoneMissing, AllProcessed

(* With one thread, no pruning and no reconsiderblock, and preciousblock   *)
(* called only while the active chain has not lost work since its last     *)
(* call, CheckBlockIndex finds what it asserts whenever it runs: for any   *)
(* tree of blocks, any order of arrival and any invalid blocks.  After an  *)
(* invalidateblock call AllLinked is left out.                             *)
THEOREM BlockIndexAlwaysConsistent ==
  ASSUME NEW CONSTANT h, Threads = {h}, MaxCalls["prune"] = 0, MaxCalls["reconsider"] = 0
  PROVE  Spec /\ PreciousExtends => []BlockIndexConsistent
<1>1. Inv /\ LinkOK /\ SingleInv(h) /\ Innocent => BlockIndexConsistent
  BY Zenon, SingleCheckBlockIndex, SingleAllLinked DEF BlockIndexConsistent, CheckBlockIndex
<1>2. Inv /\ LinkOK /\ Innocent /\ [Next]_vars => Innocent'
  BY Zenon, NextInnocent
<1> QED
  BY <1>1, <1>2, InitInnocent, SingleAlways, PTL DEF Spec

(* Under the same conditions a candidate is left whenever the lock is      *)
(* free, as PruneBlockIndexCandidates asserts.                             *)
THEOREM CandidatesNeverEmpty ==
  ASSUME NEW CONSTANT h, Threads = {h}, MaxCalls["prune"] = 0, MaxCalls["reconsider"] = 0
  PROVE  Spec /\ PreciousExtends => []CandidatesNotEmpty
<1>1. Inv /\ LinkOK /\ SingleInv(h) => CandidatesNotEmpty
  <2> SUFFICES ASSUME Inv, SingleInv(h), node = "running", csMain = NoThread
               PROVE  setBlockIndexCandidates # {}
    BY Zenon DEF CandidatesNotEmpty
  <2>1. pc[h] # "invalidate"
    BY Zenon, ChainAssumption, InvParts DEF Locking, Locked
  <2>2. PICK R \in Block : Reference(R)
    BY Zenon, <2>1, SelectionParts DEF SingleInv, Referenced
  <2> QED
    BY Zenon, <2>2 DEF Reference
<1> QED
  BY <1>1, SingleAlways, PTL

(* Under the same conditions no block that ConnectBlock rejected or        *)
(* invalidateblock marked is on the active chain when the lock is free.    *)
THEOREM ActiveChainNeverFailed ==
  ASSUME NEW CONSTANT h, Threads = {h}, MaxCalls["prune"] = 0, MaxCalls["reconsider"] = 0
  PROVE  Spec /\ PreciousExtends => []ActiveChainNotFailed
<1>1. Inv /\ LinkOK /\ SingleInv(h) => ActiveChainNotFailed
  <2> SUFFICES ASSUME Inv, SingleInv(h), node = "running", csMain = NoThread,
                      NEW i \in 1..Len(chainActive)
               PROVE  ~Failed(chainActive[i])
    BY Zenon DEF ActiveChainNotFailed
  <2>1. pc[h] # "invalidate"
    BY Zenon, ChainAssumption, InvParts DEF Locking, Locked
  <2>2. chainActive[i] \in mapBlockIndex /\ Contains(chainActive[i])
    BY Zenon, OnChain, SeqIsFunction, InvParts DEF TypeOK
  <2>3. chainActive[i] \in Ancestors[Tip]
    BY Zenon, <2>2, ChainIs
  <2> QED
    BY Zenon, <2>1, <2>3, SelectionParts DEF SingleInv, Validated
<1> QED
  BY <1>1, SingleAlways, PTL

(* Under the same conditions ActivateBestChain does what it promises: when *)
(* a call has returned, no block the node could switch to is better than   *)
(* its tip.                                                                *)
THEOREM BestChainAlwaysActivated ==
  ASSUME NEW CONSTANT h, Threads = {h}, MaxCalls["prune"] = 0, MaxCalls["reconsider"] = 0
  PROVE  Spec /\ PreciousExtends => []BestChainActivated
<1>1. Inv /\ LinkOK /\ SingleInv(h) => BestChainActivated
  <2> SUFFICES ASSUME Inv, LinkOK, SingleInv(h), node = "running", pc[h] = "idle",
                      NEW b \in mapBlockIndex, Usable(b)
               PROVE  ~Worse(Tip, b)
    BY Zenon DEF BestChainActivated
  <2>1. b \in nChainTx /\ ~HasInvalid(b)
    BY Zenon, UsableIsLinked
  <2>2. Reference(Tip) /\ \A c \in setBlockIndexCandidates : ~Worse(Tip, c)
    BY Zenon, Settled
  <2>3. Worse(b, Tip) => ~Worse(Tip, b)
    BY Zenon, ChainLength, WorkOrder, InvParts DEF TypeOK
  <2> QED
    BY Zenon, <2>1, <2>2, <2>3 DEF Reference
<1> QED
  BY <1>1, SingleAlways, PTL

(* A block that connects, and ends the step, is better than the old tip    *)
(* or is the target, which is as good as the old tip.                      *)
LEMMA ConnectedKeepsWork ==
  ASSUME NEW h, Threads = {h}, Inv, Selection(h), NEW b \in Block, pc[h] = "step",
         NextToConnect(h, b), ConnectTipConnected(h, b), pc'[h] # "step"
  PROVE  nChainWork[Tip'] >= nChainWork[pindexOldTip]
<1> DEFINE most == pindexMostWork[h]
<1>1. /\ b \in mapBlockIndex \ {Genesis} /\ b \in nTx /\ HashPrev[b] = Tip /\ h \in Threads
      /\ most # NoBlock /\ pindexOldTip \in Block
  BY Zenon, NextReceived, InvParts DEF NextToConnect, Locking, TypeOK
<1>2. Tip' = b
  BY Zenon, <1>1, ConnectedTip
<1>3. BetterThanOldTip(b) \/ b = most
  BY Zenon DEF ConnectTipConnected
<1>4. nChainWork[most] >= nChainWork[pindexOldTip]
  BY Zenon, <1>1, SelectionParts DEF Targeted
<1>5. CASE b = most
  BY Zenon, <1>2, <1>4, <1>5
<1>6. CASE BetterThanOldTip(b)
  <2>1. nChainWork[b] \in Nat /\ nChainWork[pindexOldTip] \in Nat
    BY Zenon, <1>1, InvParts DEF TypeOK
  <2>2. nChainWork[b] > nChainWork[pindexOldTip]
    BY Zenon, <1>6 DEF BetterThanOldTip
  <2>3. nChainWork[b] >= nChainWork[pindexOldTip]
    BY <2>1, <2>2
  <2> QED
    BY Zenon, <1>2, <2>3
<1> QED
  BY Zenon, <1>3, <1>5, <1>6

(* When the one thread's ActivateBestChainStep ends, the tip has at least  *)
(* the work of the tip it began with, unless a block turned out invalid.   *)
LEMMA NextKeepsWork ==
  ASSUME NEW h, Threads = {h}, MaxCalls["prune"] = 0, Inv, LinkOK, SingleInv(h), Next,
         pc[h] = "step", pc'[h] # "step", node' = "running", failedValid' = failedValid
  PROVE  nChainWork[Tip'] >= nChainWork[pindexOldTip]
<1>1. node = "running" /\ Selection(h)
  BY Zenon, StaysStopped DEF SingleInv
<1>2. Step(h)
  <2>1. ~Start(h)
    BY Zenon DEF Start, ProcessNewBlockHeaders, ProcessNewBlock, PreciousBlock,
       InvalidateBlock, ResetBlockFailureFlags, Enter
  <2> QED
    BY Zenon, <2>1, NeverPruned DEF Next
<1>3. CASE StepDone(h)
  <2>1. Tip = pindexMostWork[h] /\ Tip # NoBlock /\ Tip' = Tip
    BY Zenon, <1>3, InvParts DEF StepDone, chainVars, Tip, Locking
  <2> QED
    BY Zenon, <1>1, <2>1, SelectionParts DEF Targeted
<1>4. ~StepDisconnect(h) /\ ~StepDisconnectFails(h)
  <2>1. ~StepDisconnectFails(h)
    BY Zenon, StepAboveGenesis, TipHasUndo DEF StepDisconnectFails, SingleInv
  <2> QED
    BY Zenon, <2>1 DEF StepDisconnect, DisconnectTip, AbortNode
<1>5. ASSUME NEW b \in Block, StepConnect(h, b)
      PROVE  nChainWork[Tip'] >= nChainWork[pindexOldTip]
  <2>1. NextToConnect(h, b) /\ ~ConnectTipUnreadable(h, b) /\ ~ConnectTipFlushFails(h, b)
    BY Zenon, <1>5 DEF StepConnect, ConnectTipUnreadable, ConnectTipFlushFails, AbortNode
  <2>2. ~ConnectTipInvalid(h, b)
    <3>1. b \notin failedValid
      BY Zenon, <1>1, <2>1, SelectionParts, InvParts DEF NextToConnect, Targeted, HasInvalid,
         Locking
    <3> QED
      BY Zenon, <3>1 DEF ConnectTipInvalid
  <2> QED
    BY Zenon, <1>1, <1>5, <2>1, <2>2, ConnectedKeepsWork DEF StepConnect
<1>6. StepDone(h) \/ StepDisconnect(h) \/ StepDisconnectFails(h) \/ \E b \in Block : StepConnect(h, b)
  BY Zenon, <1>2 DEF Step, AcceptBlockIgnored, AcceptBlockInvalid, ReceivedBlockTransactions,
     LinkBlock, ActivateBestChain, FindMostWorkChainNone, FindMostWorkChainFound,
     FindMostWorkChainRejected, InvalidateDisconnect, InvalidateDisconnectFails,
     InvalidateFinish
<1> QED
  BY Zenon, <1>3, <1>4, <1>5, <1>6

(* Under the same conditions a step of ActivateBestChain that met no       *)
(* invalid block never ends on a tip with less work than the one it        *)
(* started from, however many blocks it disconnected on the way.           *)
THEOREM StepsAlwaysKeepWork ==
  ASSUME NEW CONSTANT h, Threads = {h}, MaxCalls["prune"] = 0, MaxCalls["reconsider"] = 0
  PROVE  Spec /\ PreciousExtends => StepKeepsWork
<1>1. Inv /\ LinkOK /\ SingleInv(h) /\ [Next]_vars =>
      [\A t \in Threads :
         pc[t] = "step" /\ pc'[t] # "step" /\ node' = "running" /\ Undoable
           /\ failedValid' = failedValid
         => nChainWork[Tip'] >= nChainWork[pindexOldTip]]_vars
  BY Zenon, NextKeepsWork
<1> QED
  BY <1>1, SingleAlways, PTL DEF Spec, StepKeepsWork

=============================================================================
