----------------------------- MODULE CoinsCache -----------------------------
(***************************************************************************)
(* The stack of coins views (coins.cpp, txdb.cpp): the chainstate          *)
(* database, the global cache pcoinsTip on top of it, and the short-lived  *)
(* CCoinsViewCache on which ConnectBlock and DisconnectBlock work.  A      *)
(* cache entry carries DIRTY and FRESH; a lookup that misses fills every   *)
(* cache it passes through.  All of it runs under cs_main, so a call is    *)
(* one step; the database may fail a write, and the process may stop       *)
(* between any two calls.                                                  *)
(*                                                                         *)
(* A CCoins is a member of Coins; Pruned is the one with no unspent output *)
(* left (CCoinsModifier cleans trailing spent outputs away, so there is    *)
(* one such value).  The database never stores it, and db[t] = Pruned says *)
(* that it has no entry for t.  Blocks are numbered in the order in which  *)
(* SetBestBlock names them; 0 is the null hash of an empty database.       *)
(***************************************************************************)
EXTENDS Integers, FiniteSets

CONSTANTS
  Txid,            \* transaction ids
  Coins,           \* values a CCoins can have
  Pruned,          \* the one without unspent outputs
  Absent,          \* no entry in a CCoinsMap
  Usage,           \* DynamicMemoryUsage of a value
  MaxBest,         \* bound: calls of SetBestBlock
  MaxWriteErrors   \* bound: database writes that fail

Entry == [coins : Coins, flags : SUBSET {"DIRTY", "FRESH"}]

ASSUME CoinsAssumption ==
  /\ IsFiniteSet(Txid)
  /\ Pruned \in Coins
  /\ Absent \notin Entry
  /\ Usage \in [Coins -> Nat]
  /\ Usage[Pruned] = 0
  /\ MaxBest \in Nat
  /\ MaxWriteErrors \in Nat

VARIABLES
  db, dbBest,                      \* CCoinsViewDB
  tip, tipBest, tipUsage,          \* pcoinsTip: cacheCoins, hashBlock, cachedCoinsUsage
  view, viewBest, viewUsage,       \* the cache a block is tried on
  viewPhase,                       \* "closed", "open", "sealed" (SetBestBlock done)
  node,                            \* "running"; "stopping" once AbortNode was called
  nWriteErrors,                    \* failed writes so far
  nBest, stateOf                   \* history: the coins each block stands for

dbVars   == <<db, dbBest>>
tipVars  == <<tip, tipBest, tipUsage>>
viewVars == <<view, viewBest, viewUsage, viewPhase>>
histVars == <<nBest, stateOf>>
vars     == <<dbVars, tipVars, viewVars, node, nWriteErrors, histVars>>

NoEntries == [t \in Txid |-> Absent]

-----------------------------------------------------------------------------
(* What each view answers for t. *)
TipCoins(t)  == IF tip[t] = Absent THEN db[t] ELSE tip[t].coins
ViewCoins(t) == IF view[t] = Absent THEN TipCoins(t) ELSE view[t].coins

(* GetCoins of pcoinsTip returns true: an entry in the cache or in the database. *)
TipFound(t) == tip[t] # Absent \/ db[t] # Pruned

(* The entry FetchCoins makes out of what the parent returned. *)
FetchedEntry(c) == [coins |-> c, flags |-> IF c = Pruned THEN {"FRESH"} ELSE {}]

(* pcoinsTip after FetchCoins(t). *)
TipFetch(t) ==
  IF tip[t] = Absent /\ db[t] # Pruned
  THEN [tip EXCEPT ![t] = FetchedEntry(db[t])] ELSE tip

TipFetchUsage(t) ==
  IF tip[t] = Absent /\ db[t] # Pruned THEN tipUsage + Usage[db[t]] ELSE tipUsage

(* Leaving a CCoinsModifier drops an entry that is FRESH and pruned. *)
Modified(e) == IF "FRESH" \in e.flags /\ e.coins = Pruned THEN Absent ELSE e

EntryUsage(e) == IF e = Absent THEN 0 ELSE Usage[e.coins]

(* Mutants: the child's FRESH is copied to an entry of the parent; a modified entry
   of the parent is not marked; an entry spent in the child stays in the parent. *)
BatchWriteEntryCopiesFresh(child, parent) ==
  IF child = Absent THEN parent
  ELSE IF "DIRTY" \notin child.flags THEN parent
  ELSE IF child.coins = Pruned /\ (parent = Absent => "FRESH" \in child.flags)
          /\ (parent # Absent => "FRESH" \in parent.flags) THEN Absent
  ELSE IF parent = Absent THEN child
  ELSE [coins |-> child.coins, flags |-> parent.flags \cup child.flags]
BatchWriteEntryUnmarked(child, parent) ==
  IF child = Absent THEN parent
  ELSE IF "DIRTY" \notin child.flags THEN parent
  ELSE IF parent = Absent THEN child ELSE [parent EXCEPT !.coins = child.coins]
BatchWriteEntryKeepsSpent(child, parent) ==
  IF child = Absent THEN parent
  ELSE IF "DIRTY" \notin child.flags \/ child.coins = Pruned THEN parent
  ELSE [coins |-> child.coins, flags |-> {"DIRTY"}]

(* CCoinsViewCache::BatchWrite for one entry of the child and one of the parent. *)
BatchWriteEntry(child, parent) ==
  IF child = Absent THEN parent
  ELSE IF "DIRTY" \notin child.flags THEN parent
  ELSE IF parent = Absent
       THEN IF "FRESH" \in child.flags /\ child.coins = Pruned THEN Absent
            ELSE [coins |-> child.coins, flags |-> {"DIRTY"} \cup (child.flags \cap {"FRESH"})]
       ELSE IF "FRESH" \in parent.flags /\ child.coins = Pruned THEN Absent
            ELSE [coins |-> child.coins, flags |-> parent.flags \cup {"DIRTY"}]

(* Mutant: the memory of the entry that is replaced is not subtracted. *)
BatchWriteFreesNothing(child, parent) == 0

(* What the same step subtracts from cachedCoinsUsage of the parent, and what it adds. *)
BatchWriteFrees(child, parent) ==
  IF child = Absent \/ parent = Absent THEN 0
  ELSE IF "DIRTY" \in child.flags THEN Usage[parent.coins] ELSE 0
BatchWriteTakes(child, parent) ==
  IF child = Absent THEN 0
  ELSE IF "DIRTY" \notin child.flags THEN 0
  ELSE IF child.coins = Pruned /\ "FRESH" \in (IF parent = Absent THEN child ELSE parent).flags
       THEN 0 ELSE Usage[child.coins]

(* Mutant: a pruned entry is not erased.                                   *)
DbWriteEntryKeepsSpent(e, old) ==
  IF e = Absent THEN old
  ELSE IF "DIRTY" \in e.flags /\ e.coins # Pruned THEN e.coins ELSE old

(* CCoinsViewDB::BatchWrite for one entry: erase what is pruned, write the rest. *)
DbWriteEntry(e, old) == IF e = Absent THEN old ELSE IF "DIRTY" \in e.flags THEN e.coins ELSE old

(* The sum of numbers given for every transaction, counted unit by unit. *)
Units(n) == UNION {{t} \X (1 .. n[t]) : t \in Txid}
Total(n) == Cardinality(Units(n))

SumUsage(cache) == Total([t \in Txid |-> EntryUsage(cache[t])])

-----------------------------------------------------------------------------
Init ==
  /\ db = [t \in Txid |-> Pruned] /\ dbBest = 0
  /\ tip = NoEntries /\ tipBest = 0 /\ tipUsage = 0
  /\ view = NoEntries /\ viewBest = 0 /\ viewUsage = 0 /\ viewPhase = "closed"
  /\ node = "running" /\ nWriteErrors = 0
  /\ nBest = 0 /\ stateOf = [b \in 0 .. MaxBest |-> [t \in Txid |-> Pruned]]

(* A lookup on pcoinsTip itself (mempool admission, RPC). *)
FetchTip(t) ==
  /\ viewPhase = "closed"
  /\ tip[t] = Absent
  /\ tip' = TipFetch(t) /\ tipUsage' = TipFetchUsage(t)
  /\ UNCHANGED <<dbVars, tipBest, viewVars, node, nWriteErrors, histVars>>

(* Mutant: a modified entry is dropped as well. *)
MayUncacheAny(t) == tip[t] # Absent

(* Uncache drops only an entry without flags. *)
MayUncache(t) == tip[t] # Absent /\ tip[t].flags = {}

Uncache(t) ==
  /\ viewPhase = "closed"
  /\ MayUncache(t)
  /\ tip' = [tip EXCEPT ![t] = Absent]
  /\ tipUsage' = tipUsage - EntryUsage(tip[t])
  /\ UNCHANGED <<dbVars, tipBest, viewVars, node, nWriteErrors, histVars>>

(* CCoinsViewCache view(pcoinsTip), and the GetBestBlock of the assertion that
   opens ConnectBlock and DisconnectBlock. *)
OpenView ==
  /\ viewPhase = "closed" /\ node = "running"
  /\ viewPhase' = "open"
  /\ view' = NoEntries /\ viewUsage' = 0
  /\ viewBest' = tipBest
  /\ UNCHANGED <<dbVars, tipVars, node, nWriteErrors, histVars>>

(* FetchCoins on the view: AccessCoins, HaveCoins, GetCoins. *)
FetchView(t) ==
  /\ viewPhase = "open"
  /\ view[t] = Absent /\ TipFound(t)
  /\ tip' = TipFetch(t) /\ tipUsage' = TipFetchUsage(t)
  /\ view' = [view EXCEPT ![t] = FetchedEntry(TipCoins(t))]
  /\ viewUsage' = viewUsage + Usage[TipCoins(t)]
  /\ UNCHANGED <<dbVars, tipBest, viewBest, viewPhase, node, nWriteErrors, histVars>>

(* ModifyCoins, the caller's change to c, and the end of the CCoinsModifier. *)
ModifyCoins(t, c) ==
  LET miss == view[t] = Absent
      old  == IF ~miss THEN view[t]
              ELSE IF ~TipFound(t) THEN [coins |-> Pruned, flags |-> {"FRESH"}]
              ELSE FetchedEntry(TipCoins(t))
      new  == Modified([coins |-> c, flags |-> old.flags \cup {"DIRTY"}])
  IN  /\ viewPhase = "open"
      /\ tip' = IF miss THEN TipFetch(t) ELSE tip
      /\ tipUsage' = IF miss THEN TipFetchUsage(t) ELSE tipUsage
      /\ view' = [view EXCEPT ![t] = new]
      /\ viewUsage' = viewUsage - EntryUsage(view[t]) + EntryUsage(new)
      /\ UNCHANGED <<dbVars, tipBest, viewBest, viewPhase, node, nWriteErrors, histVars>>

(* The flags ModifyNewCoins gives an entry that had the given flags. *)
NewCoinsFlags(flags, coinbase) ==
  flags \cup {"DIRTY"} \cup
    IF ~coinbase /\ "DIRTY" \notin flags THEN {"FRESH"} ELSE {}

(* ModifyNewCoins and FromTx: the new transaction's outputs, without a lookup in
   the parent.  ConnectBlock has made sure (BIP 30) that no unspent output of a
   transaction with this id is left. *)
ModifyNewCoins(t, c, coinbase) ==
  LET old == IF view[t] = Absent THEN [coins |-> Pruned, flags |-> {}]
             ELSE view[t]
      new == Modified([coins |-> c, flags |-> NewCoinsFlags(old.flags, coinbase)])
  IN  /\ viewPhase = "open"
      /\ ViewCoins(t) = Pruned
      /\ view' = [view EXCEPT ![t] = new]
      /\ viewUsage' = viewUsage + EntryUsage(new)
      /\ UNCHANGED <<dbVars, tipVars, viewBest, viewPhase, node, nWriteErrors, histVars>>

(* The block is connected or disconnected: the view stands for the next block. *)
SetBestBlock ==
  /\ viewPhase = "open" /\ nBest < MaxBest
  /\ viewPhase' = "sealed"
  /\ nBest' = nBest + 1
  /\ viewBest' = nBest + 1
  /\ stateOf' = [stateOf EXCEPT ![nBest + 1] = [t \in Txid |-> ViewCoins(t)]]
  /\ UNCHANGED <<dbVars, tipVars, view, viewUsage, node, nWriteErrors>>

(* view.Flush(): BatchWrite into pcoinsTip.  The view is then destroyed. *)
FlushView ==
  /\ viewPhase = "sealed"
  /\ tip' = [t \in Txid |-> BatchWriteEntry(view[t], tip[t])]
  /\ tipUsage' = tipUsage - Total([t \in Txid |-> BatchWriteFrees(view[t], tip[t])])
                          + Total([t \in Txid |-> BatchWriteTakes(view[t], tip[t])])
  /\ tipBest' = viewBest
  /\ view' = NoEntries /\ viewUsage' = 0 /\ viewPhase' = "closed"
  /\ UNCHANGED <<dbVars, viewBest, node, nWriteErrors, histVars>>

(* The block was refused, or only tested: the view is destroyed unflushed. *)
DiscardView ==
  /\ viewPhase # "closed"
  /\ view' = NoEntries /\ viewUsage' = 0 /\ viewPhase' = "closed"
  /\ UNCHANGED <<dbVars, tipVars, viewBest, node, nWriteErrors, histVars>>

(* pcoinsTip->Flush() inside FlushStateToDisk; one atomic database batch. *)
FlushTip ==
  /\ viewPhase = "closed" /\ node = "running"
  /\ db' = [t \in Txid |-> DbWriteEntry(tip[t], db[t])]
  /\ dbBest' = tipBest
  /\ tip' = NoEntries /\ tipUsage' = 0
  /\ UNCHANGED <<tipBest, viewVars, node, nWriteErrors, histVars>>

(* The same, but WriteBatch throws.  BatchWrite has already erased the entries it
   put into the batch; the exception skips the rest of Flush and FlushStateToDisk
   calls AbortNode. *)
FlushTipFails ==
  /\ viewPhase = "closed" /\ node = "running"
  /\ nWriteErrors < MaxWriteErrors
  /\ nWriteErrors' = nWriteErrors + 1
  /\ tip' = NoEntries
  /\ node' = "stopping"
  /\ UNCHANGED <<dbVars, tipBest, tipUsage, viewVars, histVars>>

(* Shutdown() flushes once more, then the node is started again. *)
Shutdown ==
  /\ viewPhase = "closed"
  /\ db' = [t \in Txid |-> DbWriteEntry(tip[t], db[t])]
  /\ dbBest' = tipBest
  /\ tip' = NoEntries /\ tipUsage' = 0 /\ tipBest' = tipBest
  /\ node' = "running"
  /\ UNCHANGED <<viewVars, nWriteErrors, histVars>>

(* The process dies and is started again: only the database is left. *)
Crash ==
  /\ tip' = NoEntries /\ tipBest' = dbBest /\ tipUsage' = 0
  /\ view' = NoEntries /\ viewUsage' = 0 /\ viewPhase' = "closed"
  /\ node' = "running"
  /\ UNCHANGED <<dbVars, viewBest, nWriteErrors, histVars>>

Next ==
  \/ \E t \in Txid : FetchTip(t) \/ Uncache(t) \/ FetchView(t)
  \/ OpenView
  \/ \E t \in Txid, c \in Coins : ModifyCoins(t, c)
  \/ \E t \in Txid, c \in Coins, coinbase \in BOOLEAN : ModifyNewCoins(t, c, coinbase)
  \/ SetBestBlock \/ FlushView \/ DiscardView
  \/ FlushTip \/ FlushTipFails \/ Shutdown \/ Crash

Spec == Init /\ [][Next]_vars

-----------------------------------------------------------------------------
CacheMap == [Txid -> Entry \cup {Absent}]
CoinsMap == [Txid -> Coins]

TypeOK ==
  /\ db \in CoinsMap /\ dbBest \in 0 .. MaxBest
  /\ tip \in CacheMap /\ tipBest \in 0 .. MaxBest
  /\ view \in CacheMap /\ viewBest \in 0 .. MaxBest
  /\ viewPhase \in {"closed", "open", "sealed"}
  /\ node \in {"running", "stopping"} /\ nWriteErrors \in 0 .. MaxWriteErrors
  /\ nBest \in 0 .. MaxBest /\ stateOf \in [0 .. MaxBest -> CoinsMap]

(* "The parent view does not have this entry (or it is pruned)", coins.h on FRESH,
   at both levels: what lets CCoinsModifier and BatchWrite forget an entry without
   telling the parent. *)
FreshMeansParentPruned ==
  \A t \in Txid :
    /\ tip[t] # Absent => ("FRESH" \in tip[t].flags => db[t] = Pruned)
    /\ view[t] # Absent => ("FRESH" \in view[t].flags => TipCoins(t) = Pruned)

(* An entry without DIRTY repeats its parent: what lets BatchWrite ignore it and
   Uncache drop it. *)
CleanMatchesParent ==
  \A t \in Txid :
    /\ tip[t] # Absent => ("DIRTY" \notin tip[t].flags => tip[t].coins = db[t])
    /\ view[t] # Absent => ("DIRTY" \notin view[t].flags => view[t].coins = TipCoins(t))

(* BatchWrite never meets the state for which it throws "FRESH flag misapplied to
   cache entry for base transaction with spendable outputs". *)
FreshNeverMisapplied ==
  viewPhase = "sealed" =>
    \A t \in Txid : (view[t] # Absent /\ tip[t] # Absent) =>
      ~({"DIRTY", "FRESH"} \subseteq view[t].flags /\ tip[t].coins # Pruned)

(* The view every lookup goes through holds exactly the coins of the block it names,
   as long as no write of the database failed. *)
TipStandsForBestBlock ==
  nWriteErrors = 0 => [t \in Txid |-> TipCoins(t)] = stateOf[tipBest]

(* "Retrieve the block hash whose state this CCoinsView currently represents" (coins.h,
   GetBestBlock) for the database, as long as every write succeeded: whatever is
   fetched, uncached, flushed or lost in a crash, the database holds exactly the coins
   of the block it names. *)
DurableStateConsistent == nWriteErrors = 0 => db = stateOf[dbBest]

(* cachedCoinsUsage, from which FlushStateToDisk decides whether the cache is over its
   limit, is the memory of the entries that are there: no update is lost or doubled. *)
UsageIsExact ==
  /\ viewUsage = SumUsage(view)
  /\ node = "running" => tipUsage = SumUsage(tip)

(* The inductive invariant.  Beyond the properties above: a closed view is empty, no
   view names a block that was not set, and a sealed view holds the coins of the
   block it names. *)
Inv ==
  /\ TypeOK
  /\ FreshMeansParentPruned
  /\ CleanMatchesParent
  /\ viewPhase = "closed" => view = NoEntries
  /\ dbBest <= nBest /\ tipBest <= nBest /\ viewBest <= nBest
  /\ node = "stopping" => nWriteErrors > 0
  /\ DurableStateConsistent
  /\ TipStandsForBestBlock
  /\ viewPhase = "sealed" => [t \in Txid |-> ViewCoins(t)] = stateOf[viewBest]

(* The stack of caches implements three plain maps. *)
Store == INSTANCE UtxoStore WITH
  durable <- db, durableBest <- dbBest,
  current <- [t \in Txid |-> TipCoins(t)], currentBest <- tipBest,
  scratch <- [t \in Txid |-> ViewCoins(t)], scratchBest <- viewBest,
  scratchPhase <- viewPhase

(* Whatever the caches fetch, drop and pass on, a caller sees plain maps: a block is
   applied to the current state entirely or not at all, what is current becomes durable
   at once, a restart falls back to what was durable, and only a failed write of the
   database loses what was not. *)
ImplementsStore == Store!StoreSpec
=============================================================================
