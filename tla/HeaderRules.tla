---------------------------- MODULE HeaderRules ----------------------------
(* The rules a block header is judged by in its context: the difficulty it *)
(* must claim, with parameters that change at hard-coded heights           *)
(* (chainparams.cpp, pow.cpp, ContextualCheckBlockHeader), and the states  *)
(* of the BIP9 deployments with their caches (versionbits.cpp and the      *)
(* warnings of UpdateTip).                                                 *)
(*                                                                         *)
(* The block tree is a constant: HashPrev, Height, and Ancestors (the      *)
(* block itself included).  What its blocks signal and their median times  *)
(* are chosen at the start and never change.  A compact target is named by *)
(* what it was computed from: the block it follows and the interval used.  *)
EXTENDS Integers, FiniteSets, FiniteSetsExt

CONSTANTS
  Block, Genesis, HashPrev, Height, Ancestors,
  NoBlock,           \* the null pointer
  Bit,               \* the version bits in use
  Versions,          \* the possible nVersion of the tree, functions Block -> SUBSET Bit
  Times,             \* the possible median times of the tree, functions Block -> Nat
  Deployment, DeploymentBit, nStartTime, nTimeout,
  nMinerConfirmationWindow,
  nRuleChangeActivationThreshold,
  UpgradeWindow,     \* the 100 blocks whose versions UpdateTip looks at
  StartInterval,     \* the DifficultyAdjustmentInterval of the start-up parameters
  Changes,           \* the heights of SetDifficultyAdjustmentParams
  IntervalFrom,      \* the interval set from such a height on
  Unchecked,         \* the heights ContextualCheckBlockHeader lets through
  nPowDGWHeight,
  Never              \* a time no block reaches

ASSUME TreeAssumption ==
  /\ Genesis \in Block /\ NoBlock \notin Block
  /\ HashPrev \in [Block -> Block \cup {NoBlock}] /\ HashPrev[Genesis] = NoBlock
  /\ Height \in [Block -> Nat] /\ Height[Genesis] = 0
  /\ Ancestors \in [Block -> SUBSET Block] /\ Ancestors[Genesis] = {Genesis}
  /\ \A b \in Block \ {Genesis} :
       /\ HashPrev[b] \in Block /\ Height[b] = Height[HashPrev[b]] + 1
       /\ Ancestors[b] = {b} \cup Ancestors[HashPrev[b]]

\* Any times: ContextualCheckBlockHeader refuses a block time at or before the
\* median of the ancestors, but not at the Unchecked heights, so that the
\* median time past may go back.
ASSUME TimesAssumption == Times \subseteq [Block -> Nat]

ASSUME ParamsAssumption ==
  /\ nMinerConfirmationWindow \in Nat \ {0}
  /\ \A d \in Deployment : nStartTime[d] \in Nat /\ nTimeout[d] \in Nat
  /\ Never \in Nat
  /\ Changes \subseteq Nat

VARIABLES
  known,             \* mapBlockIndex
  tip,               \* chainActive.Tip()
  nVersion, mtp,     \* the versions and median times of the tree
  nBits,             \* the target each known header claims
  interval,          \* nPowTargetTimespan / nPowTargetSpacing of mainParams
  fWarned,           \* whether UpdateTip has alerted the user
  cache,             \* versionbitscache: for each deployment, states by block
  warningcache       \* the same for each bit

vars == <<known, tip, nVersion, mtp, nBits, interval, fWarned, cache, warningcache>>

Empty == [k \in {} |-> "defined"]

(***************************************************************************)
(* The difficulty of the next header.                                      *)
(***************************************************************************)
Target == [last : Block, span : Nat]

\* The parameters in force once a header of height h has been looked at:
\* below the first change they stay what they are.
SetDifficultyAdjustmentParams(h, i) ==
  LET past == {c \in Changes : c <= h}
  IN  IF past = {} THEN i ELSE IntervalFrom[Max(past)]

\* The interval a header of height h is judged with.
IntervalUsed(h) == SetDifficultyAdjustmentParams(h, interval)

\* What GetNextWorkRequired asks of the header after pindexLast.  From
\* nPowDGWHeight on it depends on the ancestors alone; before, it changes
\* when the height is a multiple of the interval.
GetNextWorkRequired(last, i) ==
  LET h == Height[last] + 1
  IN  IF h >= nPowDGWHeight THEN [last |-> last, span |-> 0]
      ELSE IF h % i # 0 THEN nBits[last]
      ELSE [last |-> last, span |-> i]

Intervals == {StartInterval} \cup {IntervalFrom[c] : c \in Changes}

(***************************************************************************)
(* The threshold state machine of versionbits.cpp.  A rule is a start      *)
(* time, a timeout and the blocks that meet its condition.                 *)
(***************************************************************************)
State == {"defined", "started", "lockedin", "active", "failed"}

GetAncestor(b, h) ==
  IF b = NoBlock \/ h < 0 THEN NoBlock ELSE CHOOSE c \in Ancestors[b] : Height[c] = h

\* The block before the period that the block after b is in.
PeriodParent(b) ==
  IF b = NoBlock THEN NoBlock
  ELSE GetAncestor(b, Height[b] - ((Height[b] + 1) % nMinerConfirmationWindow))

PreviousPeriod(k) == GetAncestor(k, Height[k] - nMinerConfirmationWindow)

Window(k) ==
  {c \in Ancestors[k] : Height[c] > Height[k] - nMinerConfirmationWindow}

\* A rule that has started and can no longer fail.
NextStateNoTimeout(rule, state, k) ==
  CASE state = "defined" /\ mtp[k] >= rule.timeout -> "failed"
    [] state = "defined" /\ mtp[k] < rule.timeout /\ mtp[k] >= rule.start -> "started"
    [] state = "started"
       /\ Cardinality(Window(k) \cap rule.meets) >= nRuleChangeActivationThreshold -> "lockedin"
    [] state = "lockedin" -> "active"
    [] OTHER -> state

\* The state of the period after k, from the state of the one before.
NextState(rule, state, k) ==
  CASE state = "defined" /\ mtp[k] >= rule.timeout -> "failed"
    [] state = "defined" /\ mtp[k] < rule.timeout /\ mtp[k] >= rule.start -> "started"
    [] state = "started" /\ mtp[k] >= rule.timeout -> "failed"
    [] state = "started" /\ mtp[k] < rule.timeout
       /\ Cardinality(Window(k) \cap rule.meets) >= nRuleChangeActivationThreshold -> "lockedin"
    [] state = "lockedin" -> "active"
    [] OTHER -> state

\* The keys of the caches: the last block of every period, and NoBlock for
\* the period of the genesis block.
PeriodKeys ==
  {NoBlock} \cup {k \in Block : (Height[k] + 1) % nMinerConfirmationWindow = 0}

Keys(k) == {NoBlock} \cup IF k = NoBlock THEN {} ELSE PeriodKeys \cap Ancestors[k]

Below(j, k) == k # NoBlock /\ (j = NoBlock \/ Height[j] < Height[k])

\* Whether the walk back of GetStateFor ends at k.
WalkEnds(rule, c, k) == k \in DOMAIN c \/ k = NoBlock \/ mtp[k] < rule.start

\* The states GetStateFor computes on its way forward.
Computed(rule, c) ==
  LET S[k \in PeriodKeys] ==
        IF k \in DOMAIN c THEN c[k]
        ELSE IF WalkEnds(rule, c, k) THEN "defined"
        ELSE NextState(rule, S[PreviousPeriod(k)], k)
  IN  S

\* The entries it writes, or finds, for the block after b.
Visited(rule, c, b) ==
  LET keys == Keys(PeriodParent(b))
  IN  {j \in keys : \A k \in keys : Below(j, k) => ~WalkEnds(rule, c, k)}

GetStateFor(rule, c, b) == Computed(rule, c)[PeriodParent(b)]

\* The cache once the states after all the blocks of B were asked for.
Filled(rule, c, B) ==
  LET S == Computed(rule, c)
  IN  [k \in DOMAIN c \cup UNION {Visited(rule, c, b) : b \in B} |-> S[k]]

\* The height of the parent, not of the first block in the state.
SinceParent(first) == Height[first]

SinceHeight(first) == Height[first] + 1

GetStateSinceHeightFor(rule, c, b) ==
  LET S == Computed(rule, c)
      initialState == S[PeriodParent(b)]
      First[k \in PeriodKeys \ {NoBlock}] ==
        IF PreviousPeriod(k) # NoBlock /\ S[PeriodParent(PreviousPeriod(k))] = initialState
        THEN First[PreviousPeriod(k)] ELSE k
  IN  IF initialState = "defined" THEN 0 ELSE SinceHeight(First[PeriodParent(b)])

(***************************************************************************)
(* The deployments, and the warnings about bits that stand for none.       *)
(***************************************************************************)
VersionBitsRule(d) ==
  [start |-> nStartTime[d], timeout |-> nTimeout[d],
   meets |-> {b \in Block : DeploymentBit[d] \in nVersion[b]}]

VersionBitsState(d, b) == GetStateFor(VersionBitsRule(d), cache[d], b)

VersionBitsMask(D) == {DeploymentBit[d] : d \in D}

ComputeBlockVersion(b) ==
  VersionBitsMask({d \in Deployment : VersionBitsState(d, b) \in {"started", "lockedin"}})

WarningBitsRule(bit) ==
  [start |-> 0, timeout |-> Never,
   meets |-> {b \in Block : /\ bit \in nVersion[b]
                            /\ bit \notin ComputeBlockVersion(HashPrev[b])}]

\* The blocks whose expected version a warning for bit at b looks up: those
\* with the bit in the periods it counts.
Counted(bit, b) ==
  LET rule == WarningBitsRule(bit)
      c == warningcache[bit]
  IN  {x \in UNION {Window(k) : k \in {j \in Visited(rule, c, b) :
                       ~WalkEnds(rule, c, j) /\ Computed(rule, c)[PreviousPeriod(j)] = "started"}} :
         bit \in nVersion[x]}

LastBlocks(b) == {c \in Ancestors[b] : Height[c] > Height[b] - UpgradeWindow}

Asked(B) == [d \in Deployment |-> Filled(VersionBitsRule(d), cache[d], B)]

(***************************************************************************)
(* The calls, each under cs_main.                                          *)
(***************************************************************************)
Init ==
  /\ known = {Genesis} /\ tip = Genesis
  /\ nVersion \in Versions /\ mtp \in Times
  /\ nBits = [b \in Block |-> [last |-> Genesis, span |-> 0]]
  /\ interval = StartInterval
  /\ fWarned = FALSE
  /\ cache = [d \in Deployment |-> Empty]
  /\ warningcache = [bit \in Bit |-> Empty]

New(b) == b \notin known /\ HashPrev[b] \in known

\* At the heights of the hard forks any target passes.
AcceptUnchecked(b) ==
  /\ New(b) /\ Height[b] \in Unchecked
  /\ known' = known \cup {b}
  /\ nBits' = [nBits EXCEPT ![b] = [last |-> b, span |-> 0]]
  /\ UNCHANGED <<tip, nVersion, mtp, interval, fWarned, cache, warningcache>>

\* A header with the target that some interval asks for.  One with the right
\* target may still be refused, for its time or its version; the parameters
\* have been set by then.
ContextualCheckBlockHeader(b) ==
  /\ New(b) /\ Height[b] \notin Unchecked
  /\ \E i \in Intervals :
       LET claim == GetNextWorkRequired(HashPrev[b], i)
       IN  \/ /\ claim = GetNextWorkRequired(HashPrev[b], IntervalUsed(Height[b]))
              /\ known' = known \cup {b}
              /\ nBits' = [nBits EXCEPT ![b] = claim]
           \/ UNCHANGED <<known, nBits>>
  /\ interval' = SetDifficultyAdjustmentParams(Height[b], interval)
  /\ UNCHANGED <<tip, nVersion, mtp, fWarned, cache, warningcache>>

\* ContextualCheckBlock, IsWitnessEnabled, GetBlockScriptFlags and the calls
\* of getblockchaininfo look up one deployment.
AskVersionBits(d, b) ==
  /\ b \in known
  /\ cache' = [cache EXCEPT ![d] = Filled(VersionBitsRule(d), cache[d], {b})]
  /\ UNCHANGED <<known, tip, nVersion, mtp, nBits, interval, fWarned, warningcache>>

CreateNewBlock ==
  /\ interval' = SetDifficultyAdjustmentParams(Height[tip] + 1, interval)
  /\ cache' = Asked({tip})
  /\ UNCHANGED <<known, tip, nVersion, mtp, nBits, fWarned, warningcache>>

\* ConnectTip and DisconnectTip move the tip by one block.
MovesTip(b) == b \in known /\ (HashPrev[b] = tip \/ HashPrev[tip] = b)

UpdateTipInDownload(b) ==
  /\ MovesTip(b) /\ tip' = b
  /\ UNCHANGED <<known, nVersion, mtp, nBits, interval, fWarned, cache, warningcache>>

Upgraded(b) == {c \in LastBlocks(b) : nVersion[c] \ ComputeBlockVersion(HashPrev[c]) # {}}

UpdateTip(b) ==
  /\ MovesTip(b) /\ tip' = b
  /\ LET looked == LastBlocks(b) \cup UNION {Counted(bit, b) : bit \in Bit}
     IN  cache' = Asked({HashPrev[c] : c \in looked})
  /\ warningcache' = [bit \in Bit |-> Filled(WarningBitsRule(bit), warningcache[bit], {b})]
  /\ fWarned' = \/ fWarned
                \/ \E bit \in Bit : warningcache'[bit][PeriodParent(b)] = "active"
                \/ 2 * Cardinality(Upgraded(b)) > UpgradeWindow
  /\ UNCHANGED <<known, nVersion, mtp, nBits, interval>>

\* The headers are on disk; the parameters and the caches are not.
Restart ==
  /\ interval' = StartInterval
  /\ fWarned' = FALSE
  /\ cache' = [d \in Deployment |-> Empty]
  /\ warningcache' = [bit \in Bit |-> Empty]
  /\ UNCHANGED <<known, tip, nVersion, mtp, nBits>>

Next ==
  \/ \E b \in Block : AcceptUnchecked(b)
  \/ \E b \in Block : ContextualCheckBlockHeader(b)
  \/ \E d \in Deployment, b \in Block : AskVersionBits(d, b)
  \/ CreateNewBlock
  \/ \E b \in Block : UpdateTipInDownload(b)
  \/ \E b \in Block : UpdateTip(b)
  \/ Restart

Spec == Init /\ [][Next]_vars

(***************************************************************************)
(* Properties.                                                             *)
(***************************************************************************)
TypeOK ==
  /\ known \subseteq Block /\ tip \in known
  /\ nBits \in [Block -> Target]
  /\ interval \in Intervals
  /\ fWarned \in BOOLEAN
  /\ \A d \in Deployment : \A k \in DOMAIN cache[d] : cache[d][k] \in State
  /\ \A bit \in Bit : \A k \in DOMAIN warningcache[bit] : warningcache[bit][k] \in State

\* The state told from the history of a chain, without caches: the ends of
\* the periods before the next block,
PeriodEnds(b) ==
  IF b = NoBlock THEN {}
  ELSE {c \in Ancestors[b] : \E n \in 1..(Height[b] + 1) : Height[c] + 1 = n * nMinerConfirmationWindow}

\* those after the last one before the start time (with median times that
\* never go back, all from the start time on),
Begun(rule, ends) ==
  {k \in ends : \A j \in ends : Height[j] >= Height[k] => mtp[j] >= rule.start}

LastOf(B) == CHOOSE b \in B : \A c \in B : Height[c] <= Height[b]

\* and among those the ones with enough signals, after the first and with no
\* timeout up to them.
LockIns(rule, ends) ==
  {k \in ends :
     /\ \A j \in ends : Height[j] <= Height[k] => mtp[j] < rule.timeout
     /\ \E j \in ends : Height[j] < Height[k]
     /\ Cardinality(Window(k) \cap rule.meets) >= nRuleChangeActivationThreshold}

HistoryState(rule, b) ==
  LET ends == Begun(rule, PeriodEnds(b))
      k == LastOf(ends)
      locks == LockIns(rule, ends)
  IN  CASE ends = {} -> "defined"
        [] ends # {} /\ locks = {k} -> "lockedin"
        [] locks \notin {{}, {k}} -> "active"
        [] locks = {} /\ \E j \in ends : mtp[j] >= rule.timeout -> "failed"
        [] OTHER -> "started"

HistoryWarningRule(bit) ==
  [start |-> 0, timeout |-> Never,
   meets |-> {b \in Block :
                /\ bit \in nVersion[b]
                /\ \A d \in Deployment :
                     DeploymentBit[d] = bit =>
                       HistoryState(VersionBitsRule(d), HashPrev[b]) \notin {"started", "lockedin"}}]

\* Whatever was looked up before, in whatever order and across forks and
\* restarts, GetStateFor answers for every known block what the history of that
\* block alone says, even where median times go back: for the deployments, and
\* for the warnings, whose condition itself goes through the caches of the
\* deployments.
StatesExact ==
  /\ \A d \in Deployment : \A b \in known \cup {NoBlock} :
       VersionBitsState(d, b) = HistoryState(VersionBitsRule(d), b)
  /\ \A bit \in Bit :
       LET rule == WarningBitsRule(bit)
           history == HistoryWarningRule(bit)
       IN  \A b \in known \cup {NoBlock} :
             GetStateFor(rule, warningcache[bit], b) = HistoryState(history, b)

\* The ancestors of b from which on the chain up to b never left the state.
InState(rule, b) ==
  {c \in Ancestors[b] :
     \A x \in Ancestors[b] : Height[x] >= Height[c] => HistoryState(rule, x) = HistoryState(rule, b)}

\* What getblockchaininfo reports as the height since which a deployment is in
\* its state at the tip (VersionBitsTipStateSinceHeight) is the height of the
\* first block since which the active chain has been in that state, through
\* reorganizations and whatever the cache holds.
SinceHeightExact ==
  \A d \in Deployment :
    LET rule == VersionBitsRule(d)
    IN  GetStateSinceHeightFor(rule, cache[d], tip) =
          IF HistoryState(rule, tip) = "defined" THEN 0
          ELSE Min({Height[c] : c \in InState(rule, tip)}) + 1

\* "95% of nMinerConfirmationWindow": a rule locks in only after a period in
\* which that share of the blocks signalled it (chainparams.cpp:94).
LockInSupported ==
  \A bit \in Bit : \A k \in DOMAIN warningcache[bit] :
    warningcache[bit][k] = "lockedin" =>
      100 * Cardinality({c \in Window(k) : bit \in nVersion[c]}) >= 95 * nMinerConfirmationWindow

=============================================================================
