-------------------------- MODULE CoinsCacheProofs --------------------------
(* Proofs about CoinsCache, for any finite set of transactions
   and any set of coins values. *)
EXTENDS CoinsCache, FiniteSetTheorems, TLAPS

(* A lookup that fills pcoinsTip changes no answer of pcoinsTip, adds no FRESH entry
   and no entry that differs from the database. *)
LEMMA TipFetchKeeps ==
  ASSUME TypeOK, FreshMeansParentPruned, CleanMatchesParent, NEW t \in Txid
  PROVE  /\ TipFetch(t) \in CacheMap
         /\ \A u \in Txid :
              /\ (IF TipFetch(t)[u] = Absent THEN db[u] ELSE TipFetch(t)[u].coins) = TipCoins(u)
              /\ TipFetch(t)[u] # Absent => ("FRESH" \in TipFetch(t)[u].flags => db[u] = Pruned)
              /\ TipFetch(t)[u] # Absent => ("DIRTY" \notin TipFetch(t)[u].flags => TipFetch(t)[u].coins = db[u])
BY Zenon, CoinsAssumption DEF TypeOK, FreshMeansParentPruned, CleanMatchesParent, TipFetch,
     FetchedEntry, TipCoins, CacheMap, CoinsMap, Entry

(* The initial state satisfies the inductive invariant. *)
LEMMA InitInv == Init => Inv
<1> SUFFICES ASSUME Init PROVE Inv
  BY Zenon
<1>1. TypeOK
  BY CoinsAssumption DEF Init, TypeOK, NoEntries, CacheMap, CoinsMap
<1>2. FreshMeansParentPruned /\ CleanMatchesParent
  BY Zenon DEF Init, FreshMeansParentPruned, CleanMatchesParent, NoEntries
<1>3. [t \in Txid |-> TipCoins(t)] = [t \in Txid |-> Pruned]
  BY Zenon DEF Init, TipCoins, NoEntries
<1>4. DurableStateConsistent /\ TipStandsForBestBlock
  BY <1>3, CoinsAssumption DEF Init, DurableStateConsistent, TipStandsForBestBlock
<1> QED
  BY <1>1, <1>2, <1>4 DEF Init, Inv

(* A lookup on pcoinsTip (FetchCoins) preserves the invariant. *)
LEMMA FetchTipInv == ASSUME Inv, NEW t \in Txid, FetchTip(t) PROVE Inv'
<1>1. TypeOK'
  BY Zenon, TipFetchKeeps DEF Inv, FetchTip, TypeOK, dbVars, viewVars, histVars
<1>2. \A u \in Txid : TipCoins(u)' = TipCoins(u)
  BY Zenon, TipFetchKeeps DEF Inv, FetchTip, TipCoins, dbVars
<1>3. FreshMeansParentPruned' /\ CleanMatchesParent'
  BY <1>2, TipFetchKeeps DEF Inv, FetchTip, FreshMeansParentPruned, CleanMatchesParent,
     dbVars, viewVars
<1>4. [u \in Txid |-> TipCoins(u)]' = [u \in Txid |-> TipCoins(u)]
  BY Zenon, <1>2
<1>5. DurableStateConsistent' /\ TipStandsForBestBlock'
  BY Zenon, <1>4 DEF Inv, FetchTip, DurableStateConsistent, TipStandsForBestBlock, dbVars, histVars
<1> QED
  BY Zenon, <1>1, <1>3, <1>5 DEF Inv, FetchTip, dbVars, viewVars, histVars

(* Uncache preserves the invariant: it drops only what the database repeats. *)
LEMMA UncacheInv == ASSUME Inv, NEW t \in Txid, Uncache(t) PROVE Inv'
<1>1. TypeOK'
  BY Zenon, CoinsAssumption DEF Inv, Uncache, MayUncache, TypeOK, CacheMap, dbVars, viewVars, histVars
<1>2. \A u \in Txid : TipCoins(u)' = TipCoins(u)
  BY Zenon DEF Inv, Uncache, MayUncache, TipCoins, dbVars, TypeOK, CacheMap, CleanMatchesParent
<1>3. FreshMeansParentPruned' /\ CleanMatchesParent'
  BY Zenon, <1>2 DEF Inv, Uncache, MayUncache, FreshMeansParentPruned, CleanMatchesParent,
     dbVars, viewVars, TypeOK, CacheMap
<1>4. [u \in Txid |-> TipCoins(u)]' = [u \in Txid |-> TipCoins(u)]
  BY Zenon, <1>2
<1>5. DurableStateConsistent' /\ TipStandsForBestBlock'
  BY Zenon, <1>4 DEF Inv, Uncache, MayUncache, DurableStateConsistent, TipStandsForBestBlock, dbVars, histVars
<1> QED
  BY Zenon, <1>1, <1>3, <1>5 DEF Inv, Uncache, MayUncache, dbVars, viewVars, histVars

(* Opening a view over pcoinsTip preserves the invariant. *)
LEMMA OpenViewInv == Inv /\ OpenView => Inv'
<1> SUFFICES ASSUME Inv, OpenView PROVE Inv'
  BY Zenon
<1>1. TypeOK'
  BY Zenon, CoinsAssumption DEF Inv, OpenView, TypeOK, CacheMap, NoEntries, dbVars, tipVars, histVars
<1>2. \A u \in Txid : TipCoins(u)' = TipCoins(u)
  BY Zenon DEF OpenView, TipCoins, dbVars, tipVars
<1>3. FreshMeansParentPruned' /\ CleanMatchesParent'
  BY Zenon, <1>2 DEF Inv, OpenView, FreshMeansParentPruned, CleanMatchesParent, NoEntries,
     dbVars, tipVars
<1>4. [u \in Txid |-> TipCoins(u)]' = [u \in Txid |-> TipCoins(u)]
  BY Zenon, <1>2
<1>5. DurableStateConsistent' /\ TipStandsForBestBlock'
  BY Zenon, <1>4 DEF Inv, OpenView, DurableStateConsistent, TipStandsForBestBlock, dbVars, tipVars, histVars
<1> QED
  BY Zenon, <1>1, <1>3, <1>5 DEF Inv, OpenView, dbVars, tipVars, histVars

(* A lookup on the view, which fills both caches, preserves the invariant. *)
LEMMA FetchViewInv == ASSUME Inv, NEW t \in Txid, FetchView(t) PROVE Inv'
<1>0. TipCoins(t) \in Coins
  BY Zenon DEF Inv, TypeOK, TipCoins, CacheMap, CoinsMap, Entry
<1>1. TypeOK'
  BY Zenon, <1>0, TipFetchKeeps DEF Inv, FetchView, TypeOK, FetchedEntry, CacheMap, Entry, dbVars, histVars
<1>2. \A u \in Txid : TipCoins(u)' = TipCoins(u)
  BY Zenon, TipFetchKeeps DEF Inv, FetchView, TipCoins, dbVars
<1>3. FreshMeansParentPruned' /\ CleanMatchesParent'
  <2>1. \A u \in Txid : /\ tip'[u] # Absent => ("FRESH" \in tip'[u].flags => db'[u] = Pruned)
                        /\ tip'[u] # Absent => ("DIRTY" \notin tip'[u].flags => tip'[u].coins = db'[u])
    BY Zenon, TipFetchKeeps DEF Inv, FetchView, dbVars
  <2>2. \A u \in Txid : view'[u] = IF u = t THEN FetchedEntry(TipCoins(t)) ELSE view[u]
    BY Zenon DEF Inv, FetchView, TypeOK, CacheMap
  <2>3. \A u \in Txid : /\ view'[u] # Absent => ("FRESH" \in view'[u].flags => TipCoins(u) = Pruned)
                        /\ view'[u] # Absent => ("DIRTY" \notin view'[u].flags => view'[u].coins = TipCoins(u))
    BY <2>2 DEF Inv, FetchedEntry, FreshMeansParentPruned, CleanMatchesParent
  <2>4. FreshMeansParentPruned'
    BY Zenon, <1>2, <2>1, <2>3 DEF FreshMeansParentPruned
  <2>5. CleanMatchesParent'
    BY Zenon, <1>2, <2>1, <2>3 DEF CleanMatchesParent
  <2> QED
    BY Zenon, <2>4, <2>5
<1>4. [u \in Txid |-> TipCoins(u)]' = [u \in Txid |-> TipCoins(u)]
  BY Zenon, <1>2
<1>5. DurableStateConsistent' /\ TipStandsForBestBlock'
  BY Zenon, <1>4 DEF Inv, FetchView, DurableStateConsistent, TipStandsForBestBlock, dbVars, histVars
<1> QED
  BY Zenon, <1>1, <1>3, <1>5 DEF Inv, FetchView, dbVars, histVars

(* ModifyCoins with the end of its CCoinsModifier preserves the invariant. *)
LEMMA ModifyCoinsInv == ASSUME Inv, NEW t \in Txid, NEW c \in Coins, ModifyCoins(t, c) PROVE Inv'
<1> DEFINE miss == view[t] = Absent
           old  == IF ~miss THEN view[t]
                   ELSE IF ~TipFound(t) THEN [coins |-> Pruned, flags |-> {"FRESH"}]
                   ELSE FetchedEntry(TipCoins(t))
           new  == Modified([coins |-> c, flags |-> old.flags \cup {"DIRTY"}])
<1>0. TipCoins(t) \in Coins
  BY Zenon DEF Inv, TypeOK, TipCoins, CacheMap, CoinsMap, Entry
<1>a. /\ tip' = TipFetch(t) \/ tip' = tip
      /\ view' = [view EXCEPT ![t] = new]
      /\ viewPhase = "open"
      /\ UNCHANGED <<dbVars, tipBest, viewBest, viewPhase, node, nWriteErrors, histVars>>
  BY Zenon DEF ModifyCoins
<1>b. old \in Entry /\ ("FRESH" \in old.flags => TipCoins(t) = Pruned)
  BY Zenon, <1>0, CoinsAssumption DEF Inv, TypeOK, CacheMap, CoinsMap, Entry, FetchedEntry, TipFound, TipCoins,
     FreshMeansParentPruned
<1>c. /\ new \in Entry \cup {Absent}
      /\ new # Absent => new.coins = c /\ "DIRTY" \in new.flags /\ ("FRESH" \in new.flags => TipCoins(t) = Pruned)
  BY Zenon, <1>b DEF Modified, Entry
<1> HIDE DEF old, new
<1>2. \A u \in Txid : TipCoins(u)' = TipCoins(u)
  BY <1>a, TipFetchKeeps DEF Inv, TipCoins, dbVars
<1>1. TypeOK'
  BY Zenon, <1>a, <1>c, TipFetchKeeps DEF Inv, TypeOK, CacheMap, dbVars, histVars
<1>3. FreshMeansParentPruned' /\ CleanMatchesParent'
  <2>1. \A u \in Txid : /\ tip'[u] # Absent => ("FRESH" \in tip'[u].flags => db'[u] = Pruned)
                        /\ tip'[u] # Absent => ("DIRTY" \notin tip'[u].flags => tip'[u].coins = db'[u])
    BY <1>a, TipFetchKeeps DEF Inv, dbVars, FreshMeansParentPruned, CleanMatchesParent
  <2>2. \A u \in Txid : view'[u] = IF u = t THEN new ELSE view[u]
    BY Zenon, <1>a DEF Inv, TypeOK, CacheMap
  <2>3. \A u \in Txid : /\ view'[u] # Absent => ("FRESH" \in view'[u].flags => TipCoins(u) = Pruned)
                        /\ view'[u] # Absent => ("DIRTY" \notin view'[u].flags => view'[u].coins = TipCoins(u))
    BY Zenon, <1>c, <2>2 DEF Inv, FreshMeansParentPruned, CleanMatchesParent
  <2>4. FreshMeansParentPruned'
    BY Zenon, <1>2, <2>1, <2>3 DEF FreshMeansParentPruned
  <2>5. CleanMatchesParent'
    BY Zenon, <1>2, <2>1, <2>3 DEF CleanMatchesParent
  <2> QED
    BY Zenon, <2>4, <2>5
<1>4. [u \in Txid |-> TipCoins(u)]' = [u \in Txid |-> TipCoins(u)]
  BY Zenon, <1>2
<1>5. DurableStateConsistent' /\ TipStandsForBestBlock'
  BY Zenon, <1>a, <1>4 DEF Inv, DurableStateConsistent, TipStandsForBestBlock, dbVars, histVars
<1> QED
  BY Zenon, <1>a, <1>1, <1>3, <1>5 DEF Inv, dbVars, histVars

(* ModifyNewCoins preserves the invariant: FRESH is set only where it is true. *)
LEMMA ModifyNewCoinsInv ==
  ASSUME Inv, NEW t \in Txid, NEW c \in Coins, NEW coinbase \in BOOLEAN,
         ModifyNewCoins(t, c, coinbase)
  PROVE  Inv'
<1> DEFINE old == IF view[t] = Absent
                  THEN [coins |-> Pruned, flags |-> {}] ELSE view[t]
           new == Modified([coins |-> c, flags |-> NewCoinsFlags(old.flags, coinbase)])
<1>a. /\ ViewCoins(t) = Pruned
      /\ view' = [view EXCEPT ![t] = new]
      /\ viewPhase = "open"
      /\ UNCHANGED <<dbVars, tipVars, viewBest, viewPhase, node, nWriteErrors, histVars>>
  BY Zenon DEF ModifyNewCoins
<1>b. old \in Entry /\ (("FRESH" \in old.flags \/ "DIRTY" \notin old.flags) => TipCoins(t) = Pruned)
  BY Zenon, <1>a, CoinsAssumption DEF Inv, TypeOK, CacheMap, Entry, ViewCoins,
     FreshMeansParentPruned, CleanMatchesParent
<1>c. /\ new \in Entry \cup {Absent}
      /\ new # Absent => new.coins = c /\ "DIRTY" \in new.flags /\ ("FRESH" \in new.flags => TipCoins(t) = Pruned)
  BY Zenon, <1>b DEF Modified, Entry, NewCoinsFlags
<1> HIDE DEF old, new
<1>2. \A u \in Txid : TipCoins(u)' = TipCoins(u)
  BY Zenon, <1>a DEF TipCoins, dbVars, tipVars
<1>1. TypeOK'
  BY Zenon, <1>a, <1>c DEF Inv, TypeOK, CacheMap, dbVars, tipVars, histVars
<1>3. FreshMeansParentPruned' /\ CleanMatchesParent'
  <2>2. \A u \in Txid : view'[u] = IF u = t THEN new ELSE view[u]
    BY Zenon, <1>a DEF Inv, TypeOK, CacheMap
  <2>3. \A u \in Txid : /\ view'[u] # Absent => ("FRESH" \in view'[u].flags => TipCoins(u) = Pruned)
                        /\ view'[u] # Absent => ("DIRTY" \notin view'[u].flags => view'[u].coins = TipCoins(u))
    BY Zenon, <1>c, <2>2 DEF Inv, FreshMeansParentPruned, CleanMatchesParent
  <2>4. FreshMeansParentPruned'
    BY Zenon, <1>a, <1>2, <2>3 DEF Inv, FreshMeansParentPruned, dbVars, tipVars
  <2>5. CleanMatchesParent'
    BY Zenon, <1>a, <1>2, <2>3 DEF Inv, CleanMatchesParent, dbVars, tipVars
  <2> QED
    BY Zenon, <2>4, <2>5
<1>4. [u \in Txid |-> TipCoins(u)]' = [u \in Txid |-> TipCoins(u)]
  BY Zenon, <1>2
<1>5. DurableStateConsistent' /\ TipStandsForBestBlock'
  BY Zenon, <1>a, <1>4 DEF Inv, DurableStateConsistent, TipStandsForBestBlock, dbVars, tipVars, histVars
<1> QED
  BY Zenon, <1>a, <1>1, <1>3, <1>5 DEF Inv, dbVars, tipVars, histVars

(* SetBestBlock on the view preserves the invariant. *)
LEMMA SetBestBlockInv == Inv /\ SetBestBlock => Inv'
<1> SUFFICES ASSUME Inv, SetBestBlock PROVE Inv'
  BY Zenon
<1>0. \A u \in Txid : ViewCoins(u) \in Coins
  BY Zenon DEF Inv, TypeOK, ViewCoins, TipCoins, CacheMap, CoinsMap, Entry
<1>1. TypeOK'
  BY <1>0, CoinsAssumption DEF Inv, SetBestBlock, TypeOK, CoinsMap, dbVars, tipVars
<1>2. \A u \in Txid : TipCoins(u)' = TipCoins(u) /\ ViewCoins(u)' = ViewCoins(u)
  BY Zenon DEF SetBestBlock, TipCoins, ViewCoins, dbVars, tipVars
<1>3. FreshMeansParentPruned' /\ CleanMatchesParent'
  BY Zenon, <1>2 DEF Inv, SetBestBlock, FreshMeansParentPruned, CleanMatchesParent, dbVars, tipVars
<1>4. /\ [u \in Txid |-> TipCoins(u)]' = [u \in Txid |-> TipCoins(u)]
      /\ [u \in Txid |-> ViewCoins(u)]' = [u \in Txid |-> ViewCoins(u)]
  BY Zenon, <1>2
<1>5. DurableStateConsistent' /\ TipStandsForBestBlock'
  BY <1>4, CoinsAssumption DEF Inv, TypeOK, SetBestBlock, DurableStateConsistent,
     TipStandsForBestBlock, dbVars, tipVars
<1>6. [u \in Txid |-> ViewCoins(u)]' = stateOf'[viewBest']
  BY <1>4, CoinsAssumption DEF Inv, TypeOK, SetBestBlock
<1>7. dbBest' <= nBest' /\ tipBest' <= nBest' /\ viewBest' <= nBest'
  BY CoinsAssumption DEF Inv, TypeOK, SetBestBlock, dbVars, tipVars
<1> QED
  BY Zenon, <1>1, <1>3, <1>5, <1>6, <1>7 DEF Inv, SetBestBlock

(* What BatchWrite leaves in pcoinsTip for t: the view's answer, an honest FRESH flag,
   and nothing clean that differs from the database. *)
LEMMA BatchWriteKeeps ==
  ASSUME TypeOK, FreshMeansParentPruned, CleanMatchesParent, NEW t \in Txid
  PROVE  LET e == BatchWriteEntry(view[t], tip[t])
         IN  /\ e \in Entry \cup {Absent}
             /\ (IF e = Absent THEN db[t] ELSE e.coins) = ViewCoins(t)
             /\ e # Absent => ("FRESH" \in e.flags => db[t] = Pruned)
             /\ e # Absent => ("DIRTY" \notin e.flags => e.coins = db[t])
<1> DEFINE e == BatchWriteEntry(view[t], tip[t])
<1>0. /\ view[t] \in Entry \cup {Absent} /\ tip[t] \in Entry \cup {Absent}
      /\ Absent \notin Entry
  BY Zenon, CoinsAssumption DEF TypeOK, CacheMap
<1>1. CASE view[t] = Absent
  BY Zenon, <1>0, <1>1 DEF BatchWriteEntry, ViewCoins, TipCoins, FreshMeansParentPruned, CleanMatchesParent
<1>2. CASE view[t] # Absent /\ "DIRTY" \notin view[t].flags
  <2>1. e = tip[t]
    BY Zenon, <1>2 DEF BatchWriteEntry
  <2>2. ViewCoins(t) = TipCoins(t)
    BY Zenon, <1>2 DEF ViewCoins, CleanMatchesParent
  <2> QED
    BY Zenon, <1>0, <2>1, <2>2 DEF TipCoins, FreshMeansParentPruned, CleanMatchesParent
<1>3. CASE view[t] # Absent /\ "DIRTY" \in view[t].flags /\ tip[t] = Absent
  <2>1. e = IF "FRESH" \in view[t].flags /\ view[t].coins = Pruned THEN Absent
            ELSE [coins |-> view[t].coins, flags |-> {"DIRTY"} \cup (view[t].flags \cap {"FRESH"})]
    BY Zenon, <1>3 DEF BatchWriteEntry
  <2>2. ViewCoins(t) = view[t].coins /\ TipCoins(t) = db[t]
    BY Zenon, <1>3 DEF ViewCoins, TipCoins
  <2>3. "FRESH" \in view[t].flags => db[t] = Pruned
    BY Zenon, <1>3, <2>2 DEF FreshMeansParentPruned
  <2>4. CASE "FRESH" \in view[t].flags /\ view[t].coins = Pruned
    BY Zenon, <2>1, <2>2, <2>3, <2>4
  <2>5. CASE ~("FRESH" \in view[t].flags /\ view[t].coins = Pruned)
    BY Zenon, <1>0, <1>3, <2>1, <2>2, <2>3, <2>5 DEF Entry
  <2> QED
    BY Zenon, <2>4, <2>5
<1>4. CASE view[t] # Absent /\ "DIRTY" \in view[t].flags /\ tip[t] # Absent
  <2>1. e = IF "FRESH" \in tip[t].flags /\ view[t].coins = Pruned THEN Absent
            ELSE [coins |-> view[t].coins, flags |-> tip[t].flags \cup {"DIRTY"}]
    BY Zenon, <1>4 DEF BatchWriteEntry
  <2>2. ViewCoins(t) = view[t].coins
    BY Zenon, <1>4 DEF ViewCoins
  <2>3. "FRESH" \in tip[t].flags => db[t] = Pruned
    BY Zenon, <1>4 DEF FreshMeansParentPruned
  <2>4. CASE "FRESH" \in tip[t].flags /\ view[t].coins = Pruned
    BY Zenon, <2>1, <2>2, <2>3, <2>4
  <2>5. CASE ~("FRESH" \in tip[t].flags /\ view[t].coins = Pruned)
    BY <1>0, <1>4, <2>1, <2>2, <2>3, <2>5 DEF Entry
  <2> QED
    BY Zenon, <2>4, <2>5
<1> QED
  BY Zenon, <1>1, <1>2, <1>3, <1>4

(* Flushing the view into pcoinsTip (BatchWrite) preserves the invariant. *)
LEMMA FlushViewInv == Inv /\ FlushView => Inv'
<1> SUFFICES ASSUME Inv, FlushView PROVE Inv'
  BY Zenon
<1>0. /\ \A t \in Txid : tip'[t] = BatchWriteEntry(view[t], tip[t])
      /\ tip' = [t \in Txid |-> BatchWriteEntry(view[t], tip[t])]
      /\ db' = db /\ dbBest' = dbBest /\ stateOf' = stateOf /\ nBest' = nBest
  BY Zenon DEF FlushView, dbVars, histVars
<1>1. \A t \in Txid : /\ tip'[t] \in Entry \cup {Absent}
                      /\ TipCoins(t)' = ViewCoins(t)
                      /\ tip'[t] # Absent => ("FRESH" \in tip'[t].flags => db'[t] = Pruned)
                      /\ tip'[t] # Absent => ("DIRTY" \notin tip'[t].flags => tip'[t].coins = db'[t])
  BY Zenon, <1>0, BatchWriteKeeps DEF Inv, TipCoins
<1>2. TypeOK'
  BY Zenon, <1>0, <1>1 DEF Inv, FlushView, TypeOK, CacheMap, NoEntries, dbVars, histVars
<1>3. FreshMeansParentPruned' /\ CleanMatchesParent'
  BY Zenon, <1>1 DEF FlushView, FreshMeansParentPruned, CleanMatchesParent, NoEntries
<1>4. [t \in Txid |-> TipCoins(t)]' = [t \in Txid |-> ViewCoins(t)]
  BY Zenon, <1>1
<1>5. DurableStateConsistent' /\ TipStandsForBestBlock'
  BY Zenon, <1>0, <1>4 DEF Inv, FlushView, DurableStateConsistent, TipStandsForBestBlock
<1> QED
  BY Zenon, <1>0, <1>2, <1>3, <1>5 DEF Inv, FlushView

(* Destroying an unflushed view preserves the invariant. *)
LEMMA DiscardViewInv == Inv /\ DiscardView => Inv'
<1> SUFFICES ASSUME Inv, DiscardView PROVE Inv'
  BY Zenon
<1>1. TypeOK'
  BY Zenon, CoinsAssumption DEF Inv, DiscardView, TypeOK, CacheMap, NoEntries, dbVars, tipVars, histVars
<1>2. \A t \in Txid : TipCoins(t)' = TipCoins(t)
  BY Zenon DEF DiscardView, TipCoins, dbVars, tipVars
<1>3. FreshMeansParentPruned' /\ CleanMatchesParent'
  BY Zenon, <1>2 DEF Inv, DiscardView, FreshMeansParentPruned, CleanMatchesParent, NoEntries, dbVars, tipVars
<1>4. [t \in Txid |-> TipCoins(t)]' = [t \in Txid |-> TipCoins(t)]
  BY Zenon, <1>2
<1>5. DurableStateConsistent' /\ TipStandsForBestBlock'
  BY Zenon, <1>4 DEF Inv, DiscardView, DurableStateConsistent, TipStandsForBestBlock, dbVars, tipVars, histVars
<1> QED
  BY Zenon, <1>1, <1>3, <1>5 DEF Inv, DiscardView, dbVars, tipVars, histVars

(* The database after a flush of pcoinsTip holds what pcoinsTip answered. *)
LEMMA DbWriteKeeps ==
  ASSUME TypeOK, CleanMatchesParent, NEW t \in Txid
  PROVE  DbWriteEntry(tip[t], db[t]) = TipCoins(t) /\ TipCoins(t) \in Coins
BY Zenon DEF TypeOK, CleanMatchesParent, DbWriteEntry, TipCoins, CacheMap, CoinsMap, Entry

(* Flushing pcoinsTip, while running or from Shutdown, preserves the invariant. *)
LEMMA FlushTipInv ==
  ASSUME Inv, viewPhase = "closed",
         db' = [t \in Txid |-> DbWriteEntry(tip[t], db[t])], dbBest' = tipBest,
         tip' = NoEntries, tipBest' = tipBest, UNCHANGED <<viewVars, nWriteErrors, histVars>>,
         node' = node \/ node' = "running"
  PROVE  Inv'
<1>0. view = NoEntries /\ view' = view
  BY Zenon DEF Inv, viewVars
<1>1. \A t \in Txid : db'[t] = TipCoins(t) /\ TipCoins(t)' = TipCoins(t) /\ db'[t] \in Coins
  BY Zenon, DbWriteKeeps DEF Inv, NoEntries, TipCoins
<1>2. TypeOK'
  BY Zenon, <1>0, <1>1, CoinsAssumption DEF Inv, TypeOK, CacheMap, CoinsMap, NoEntries, viewVars, histVars
<1>3. FreshMeansParentPruned' /\ CleanMatchesParent'
  BY Zenon, <1>0 DEF FreshMeansParentPruned, CleanMatchesParent, NoEntries
<1>4. /\ [t \in Txid |-> TipCoins(t)]' = [t \in Txid |-> TipCoins(t)]
      /\ db' = [t \in Txid |-> TipCoins(t)]
  BY Zenon, <1>1
<1>5. DurableStateConsistent' /\ TipStandsForBestBlock'
  BY Zenon, <1>4 DEF Inv, DurableStateConsistent, TipStandsForBestBlock, histVars
<1> QED
  BY Zenon, <1>2, <1>3, <1>5 DEF Inv, viewVars, histVars

(* A flush whose WriteBatch throws preserves the invariant. *)
LEMMA FlushTipFailsInv == Inv /\ FlushTipFails => Inv'
<1> SUFFICES ASSUME Inv, FlushTipFails PROVE Inv'
  BY Zenon
<1>1. TypeOK'
  BY CoinsAssumption DEF Inv, FlushTipFails, TypeOK, CacheMap, NoEntries, dbVars, viewVars, histVars
<1>2. nWriteErrors' # 0 /\ nWriteErrors' > 0
  BY CoinsAssumption DEF Inv, TypeOK, FlushTipFails
<1>3. FreshMeansParentPruned' /\ CleanMatchesParent'
  BY Zenon DEF Inv, FlushTipFails, FreshMeansParentPruned, CleanMatchesParent, NoEntries, viewVars
<1>4. DurableStateConsistent' /\ TipStandsForBestBlock'
  BY Zenon, <1>2 DEF DurableStateConsistent, TipStandsForBestBlock
<1> QED
  BY Zenon, <1>1, <1>2, <1>3, <1>4 DEF Inv, FlushTipFails, dbVars, viewVars, histVars

(* A crash and restart preserves the invariant. *)
LEMMA CrashInv == Inv /\ Crash => Inv'
<1> SUFFICES ASSUME Inv, Crash PROVE Inv'
  BY Zenon
<1>1. TypeOK'
  BY Zenon, CoinsAssumption DEF Inv, Crash, TypeOK, CacheMap, NoEntries, dbVars, histVars
<1>2. FreshMeansParentPruned' /\ CleanMatchesParent'
  BY Zenon DEF Crash, FreshMeansParentPruned, CleanMatchesParent, NoEntries
<1>3. [t \in Txid |-> TipCoins(t)]' = db
  BY Zenon DEF Inv, TypeOK, CoinsMap, Crash, TipCoins, NoEntries, dbVars
<1>4. DurableStateConsistent' /\ TipStandsForBestBlock'
  BY Zenon, <1>3 DEF Inv, Crash, DurableStateConsistent, TipStandsForBestBlock, dbVars, histVars
<1> QED
  BY Zenon, <1>1, <1>2, <1>4 DEF Inv, Crash, dbVars, histVars

(* Every step of the coins views preserves the inductive invariant. *)
LEMMA NextInv == Inv /\ [Next]_vars => Inv'
<1> SUFFICES ASSUME Inv, [Next]_vars PROVE Inv'
  BY Zenon
<1>1. ASSUME NEW t \in Txid, FetchTip(t) PROVE Inv'
  BY Zenon, <1>1, FetchTipInv
<1>2. ASSUME NEW t \in Txid, Uncache(t) PROVE Inv'
  BY Zenon, <1>2, UncacheInv
<1>3. ASSUME NEW t \in Txid, FetchView(t) PROVE Inv'
  BY Zenon, <1>3, FetchViewInv
<1>4. CASE OpenView
  BY Zenon, <1>4, OpenViewInv
<1>5. ASSUME NEW t \in Txid, NEW c \in Coins, ModifyCoins(t, c) PROVE Inv'
  BY Zenon, <1>5, ModifyCoinsInv
<1>6. ASSUME NEW t \in Txid, NEW c \in Coins, NEW coinbase \in BOOLEAN,
             ModifyNewCoins(t, c, coinbase)
      PROVE  Inv'
  BY Zenon, <1>6, ModifyNewCoinsInv
<1>7. CASE SetBestBlock
  BY Zenon, <1>7, SetBestBlockInv
<1>8. CASE FlushView
  BY Zenon, <1>8, FlushViewInv
<1>9. CASE DiscardView
  BY Zenon, <1>9, DiscardViewInv
<1>10. CASE FlushTip
  BY Zenon, <1>10, FlushTipInv DEF FlushTip
<1>11. CASE FlushTipFails
  BY Zenon, <1>11, FlushTipFailsInv
<1>12. CASE Shutdown
  BY Zenon, <1>12, FlushTipInv DEF Shutdown
<1>13. CASE Crash
  BY Zenon, <1>13, CrashInv
<1>14. CASE UNCHANGED vars
  BY Zenon, <1>14 DEF vars, dbVars, tipVars, viewVars, histVars, Inv, TypeOK, FreshMeansParentPruned,
     CleanMatchesParent, DurableStateConsistent, TipStandsForBestBlock, TipCoins, ViewCoins
<1> QED
  BY Zenon, <1>1, <1>2, <1>3, <1>4, <1>5, <1>6, <1>7, <1>8, <1>9, <1>10, <1>11, <1>12, <1>13, <1>14
  DEF Next

(* The inductive invariant holds in every reachable state, for any transactions, any
   coins values and any number of blocks and failed writes. *)
THEOREM Invariance == Spec => []Inv
BY InitInv, NextInv, PTL DEF Spec

(* Type correctness of the coins views (coins.cpp, txdb.cpp). *)
THEOREM TypeCorrect == Spec => []TypeOK
<1>1. Inv => TypeOK
  BY Zenon DEF Inv
<1> QED
  BY <1>1, Invariance, PTL

(* coins.h on FRESH: an entry so marked is pruned in the parent view, at both levels,
   so CCoinsModifier and BatchWrite may forget it. *)
THEOREM FreshCorrect == Spec => []FreshMeansParentPruned
<1>1. Inv => FreshMeansParentPruned
  BY Zenon DEF Inv
<1> QED
  BY <1>1, Invariance, PTL

(* An entry without DIRTY is the parent's, at both levels, so BatchWrite may skip it
   and Uncache may drop it. *)
THEOREM CleanCorrect == Spec => []CleanMatchesParent
<1>1. Inv => CleanMatchesParent
  BY Zenon DEF Inv
<1> QED
  BY <1>1, Invariance, PTL

(* BatchWrite never throws "FRESH flag misapplied". *)
THEOREM NoMisappliedFresh == Spec => []FreshNeverMisapplied
<1>1. Inv => FreshNeverMisapplied
  BY Zenon DEF Inv, FreshMeansParentPruned, FreshNeverMisapplied, TipCoins
<1> QED
  BY <1>1, Invariance, PTL

(* As long as every database write succeeds, the chainstate database holds exactly the
   coins of the block it names, through any sequence of lookups, flushes and crashes. *)
THEOREM DurableConsistency == Spec => []DurableStateConsistent
<1>1. Inv => DurableStateConsistent
  BY Zenon DEF Inv
<1> QED
  BY <1>1, Invariance, PTL

(* The same for pcoinsTip. *)
THEOREM TipConsistency == Spec => []TipStandsForBestBlock
<1>1. Inv => TipStandsForBestBlock
  BY Zenon DEF Inv
<1> QED
  BY <1>1, Invariance, PTL

-----------------------------------------------------------------------------
(* The refinement: what each step does to the answers of the two caches. *)
Cur == [t \in Txid |-> TipCoins(t)]
Scr == [t \in Txid |-> ViewCoins(t)]

(* Lookups and Uncache change no answer of pcoinsTip or of the view. *)
LEMMA FetchTipAnswers ==
  ASSUME Inv, NEW t \in Txid, FetchTip(t) \/ Uncache(t) \/ FetchView(t)
  PROVE  Cur' = Cur /\ Scr' = Scr
<1>1. \A u \in Txid : TipCoins(u)' = TipCoins(u)
  <2>1. CASE FetchTip(t)
    BY Zenon, <2>1, TipFetchKeeps DEF Inv, FetchTip, TipCoins, dbVars
  <2>2. CASE Uncache(t)
    BY Zenon, <2>2 DEF Inv, Uncache, MayUncache, TipCoins, dbVars, TypeOK, CacheMap, CleanMatchesParent
  <2>3. CASE FetchView(t)
    BY Zenon, <2>3, TipFetchKeeps DEF Inv, FetchView, TipCoins, dbVars
  <2> QED
    BY Zenon, <2>1, <2>2, <2>3
<1>2. \A u \in Txid : ViewCoins(u)' = ViewCoins(u)
  <2>1. CASE view' = view
    BY Zenon, <1>1, <2>1 DEF ViewCoins
  <2>2. CASE FetchView(t)
    <3>1. /\ view[t] = Absent
          /\ view' = [view EXCEPT ![t] = FetchedEntry(TipCoins(t))]
          /\ view \in CacheMap
          /\ FetchedEntry(TipCoins(t)).coins = TipCoins(t)
          /\ FetchedEntry(TipCoins(t)) # Absent
      <4>1. TipCoins(t) \in Coins
        BY Zenon DEF Inv, TypeOK, TipCoins, CacheMap, CoinsMap, Entry
      <4> QED
        BY <2>2, <4>1, CoinsAssumption DEF Inv, TypeOK, FetchView, FetchedEntry, Entry
    <3> QED
      BY Zenon, <1>1, <3>1 DEF ViewCoins, CacheMap
  <2> QED
    BY Zenon, <2>1, <2>2 DEF FetchTip, Uncache, MayUncache, viewVars
<1> QED
  BY Zenon, <1>1, <1>2 DEF Cur, Scr

(* ModifyCoins and ModifyNewCoins change the answer of the view for one id only. *)
LEMMA ModifyAnswers ==
  ASSUME Inv, NEW t \in Txid, NEW c \in Coins, NEW coinbase \in BOOLEAN,
         ModifyCoins(t, c) \/ ModifyNewCoins(t, c, coinbase)
  PROVE  Cur' = Cur /\ Scr' = [Scr EXCEPT ![t] = c]
<1>1. \A u \in Txid : TipCoins(u)' = TipCoins(u)
  <2>1. (tip' = TipFetch(t) \/ tip' = tip) /\ db' = db
    BY Zenon DEF ModifyCoins, ModifyNewCoins, dbVars, tipVars
  <2> QED
    BY SMTT(15), <2>1, TipFetchKeeps DEF Inv, TipCoins
<1>2. PICK fl \in SUBSET {"DIRTY", "FRESH"} :
        /\ view' = [view EXCEPT ![t] = Modified([coins |-> c, flags |-> fl])]
        /\ "FRESH" \in fl => TipCoins(t) = Pruned
  <2>1. CASE ModifyCoins(t, c)
    <3> DEFINE old == IF view[t] # Absent THEN view[t]
                      ELSE IF ~TipFound(t) THEN [coins |-> Pruned, flags |-> {"FRESH"}]
                      ELSE FetchedEntry(TipCoins(t))
    <3>1. view' = [view EXCEPT ![t] = Modified([coins |-> c, flags |-> old.flags \cup {"DIRTY"}])]
      BY Zenon, <2>1 DEF ModifyCoins
    <3>2. old \in Entry /\ ("FRESH" \in old.flags => TipCoins(t) = Pruned)
      <4>1. TipCoins(t) \in Coins
        BY Zenon DEF Inv, TypeOK, TipCoins, CacheMap, CoinsMap, Entry
      <4> QED
        BY Zenon, <4>1, CoinsAssumption DEF Inv, TypeOK, CacheMap, CoinsMap, Entry, FetchedEntry,
           TipFound, TipCoins, FreshMeansParentPruned
    <3> HIDE DEF old
    <3>3. old.flags \cup {"DIRTY"} \in SUBSET {"DIRTY", "FRESH"}
      BY Zenon, <3>2 DEF Entry
    <3> QED
      BY Zenon, <3>1, <3>2, <3>3
  <2>2. CASE ModifyNewCoins(t, c, coinbase)
    <3> DEFINE old == IF view[t] = Absent
                      THEN [coins |-> Pruned, flags |-> {}] ELSE view[t]
               fl  == NewCoinsFlags(old.flags, coinbase)
    <3>1. view' = [view EXCEPT ![t] = Modified([coins |-> c, flags |-> fl])] /\ ViewCoins(t) = Pruned
      BY Zenon, <2>2 DEF ModifyNewCoins
    <3>2. old \in Entry /\ (("FRESH" \in old.flags \/ "DIRTY" \notin old.flags) => TipCoins(t) = Pruned)
      BY Zenon, <3>1, CoinsAssumption DEF Inv, TypeOK, CacheMap, Entry, ViewCoins,
         FreshMeansParentPruned, CleanMatchesParent
    <3>3. fl \in SUBSET {"DIRTY", "FRESH"} /\ ("FRESH" \in fl => TipCoins(t) = Pruned)
      BY Zenon, <3>2 DEF Entry, NewCoinsFlags
    <3> QED
      BY Zenon, <3>1, <3>3
  <2> QED
    BY Zenon, <2>1, <2>2
<1>3. \A u \in Txid : ViewCoins(u)' = IF u = t THEN c ELSE ViewCoins(u)
  <2>1. [coins |-> c, flags |-> fl] # Absent
    <3>1. [coins |-> c, flags |-> fl] \in Entry
      BY Zenon DEF Entry
    <3> QED
      BY Zenon, <3>1, CoinsAssumption
  <2>2. view \in CacheMap
    BY Zenon DEF Inv, TypeOK
  <2> QED
    BY Zenon, <1>1, <1>2, <2>1, <2>2 DEF ViewCoins, Modified, CacheMap
<1> QED
  BY Zenon, <1>1, <1>3 DEF Cur, Scr

(* An empty view answers what pcoinsTip answers. *)
LEMMA ClosedAnswers == view = NoEntries => Scr = Cur
BY Zenon DEF NoEntries, Scr, Cur, ViewCoins

(* The initial state maps to an initial state of the store. *)
LEMMA StoreInitHolds == Init => Store!StoreInit
BY Zenon DEF Init, Store!StoreInit, Store!Empty, TipCoins, ViewCoins, NoEntries

(* Every step maps to a step of the store or changes nothing there. *)
LEMMA StoreStep ==
  ASSUME Inv, Inv', [Next]_vars
  PROVE  [Store!StoreNext]_(Store!storeVars)
<1> DEFINE Same == UNCHANGED <<db, dbBest, Cur, tipBest, Scr, viewBest, viewPhase>>
<1>a. Same => [Store!StoreNext]_(Store!storeVars)
  BY Zenon DEF Store!storeVars, Cur, Scr
<1>1. ASSUME NEW t \in Txid, FetchTip(t) \/ Uncache(t) \/ FetchView(t) PROVE Same
  BY Zenon, <1>1, FetchTipAnswers DEF FetchTip, Uncache, FetchView, dbVars, viewVars
<1>2. CASE OpenView
  <2>1. Cur' = Cur /\ Scr' = Cur'
    BY Zenon, <1>2, ClosedAnswers DEF OpenView, dbVars, tipVars, Cur, Scr, TipCoins, ViewCoins, NoEntries
  <2>2. Store!Open
    BY Zenon, <1>2, <2>1 DEF OpenView, Store!Open, dbVars, tipVars, Cur, Scr
  <2> QED
    BY Zenon, <2>2 DEF Store!StoreNext
<1>3. ASSUME NEW t \in Txid, NEW c \in Coins, NEW coinbase \in BOOLEAN,
             ModifyCoins(t, c) \/ ModifyNewCoins(t, c, coinbase)
      PROVE  Store!Write
  <2>1. Cur' = Cur /\ Scr' = [Scr EXCEPT ![t] = c]
    BY Zenon, <1>3, ModifyAnswers
  <2>2. viewPhase = "open" /\ UNCHANGED <<db, dbBest, tipBest, viewBest, viewPhase>>
    BY Zenon, <1>3 DEF ModifyCoins, ModifyNewCoins, dbVars, tipVars
  <2> QED
    BY Zenon, <2>1, <2>2 DEF Store!Write, Cur, Scr
<1>4. CASE SetBestBlock
  <2>1. Cur' = Cur /\ Scr' = Scr
    BY Zenon, <1>4 DEF SetBestBlock, dbVars, tipVars, Cur, Scr, TipCoins, ViewCoins
  <2>2. viewBest' \in 1 .. MaxBest
    BY <1>4, CoinsAssumption DEF SetBestBlock, Inv, TypeOK
  <2>3. Store!Seal
    BY Zenon, <1>4, <2>1, <2>2 DEF SetBestBlock, Store!Seal, dbVars, tipVars, Cur, Scr
  <2> QED
    BY Zenon, <2>3 DEF Store!StoreNext
<1>5. CASE FlushView
  <2>1. \A t \in Txid : TipCoins(t)' = ViewCoins(t)
    <3>1. /\ \A t \in Txid : tip'[t] = BatchWriteEntry(view[t], tip[t])
          /\ db' = db
      BY Zenon, <1>5 DEF FlushView, dbVars
    <3> QED
      BY Zenon, <3>1, BatchWriteKeeps DEF Inv, TipCoins
  <2>2. Cur' = Scr
    BY Zenon, <2>1 DEF Cur, Scr
  <2>3. Scr' = Cur'
    BY Zenon, <1>5, ClosedAnswers DEF FlushView, Cur, Scr, ViewCoins, NoEntries
  <2>4. Store!Commit
    BY Zenon, <1>5, <2>2, <2>3 DEF FlushView, Store!Commit, dbVars, Cur, Scr
  <2> QED
    BY Zenon, <2>4 DEF Store!StoreNext
<1>6. CASE DiscardView
  <2>1. Cur' = Cur /\ Scr' = Cur'
    BY Zenon, <1>6 DEF DiscardView, dbVars, tipVars, Cur, Scr, TipCoins, ViewCoins, NoEntries
  <2>2. Store!Abandon
    BY Zenon, <1>6, <2>1 DEF DiscardView, Store!Abandon, dbVars, tipVars, Cur, Scr
  <2> QED
    BY Zenon, <2>2 DEF Store!StoreNext
<1>7. CASE FlushTip \/ Shutdown
  <2>1. /\ \A t \in Txid : db'[t] = DbWriteEntry(tip[t], db[t])
        /\ db' = [t \in Txid |-> DbWriteEntry(tip[t], db[t])]
        /\ tip' = NoEntries /\ view' = view /\ view = NoEntries
    BY Zenon, <1>7 DEF FlushTip, Shutdown, viewVars, Inv
  <2>2. \A t \in Txid : db'[t] = TipCoins(t) /\ TipCoins(t)' = TipCoins(t)
    BY Zenon, <2>1, DbWriteKeeps DEF Inv, TipCoins, NoEntries
  <2>3. db' = Cur /\ Cur' = Cur
    BY Zenon, <2>1, <2>2 DEF Cur
  <2>4. Scr' = Scr
    BY Zenon, <2>1, <2>2 DEF Scr, ViewCoins, NoEntries
  <2>5. Store!Persist
    BY Zenon, <1>7, <2>3, <2>4 DEF FlushTip, Shutdown, Store!Persist, viewVars, Cur, Scr
  <2> QED
    BY Zenon, <2>5 DEF Store!StoreNext
<1>8. CASE Crash
  <2>1. Cur' = db /\ Scr' = db
    BY Zenon, <1>8 DEF Crash, dbVars, Cur, Scr, TipCoins, ViewCoins, NoEntries, Inv, TypeOK, CoinsMap
  <2>2. Store!Restart
    BY Zenon, <1>8, <2>1 DEF Crash, Store!Restart, dbVars, Cur, Scr
  <2> QED
    BY Zenon, <2>2 DEF Store!StoreNext
<1>9. CASE FlushTipFails
  <2>1. Cur' = db /\ Scr' = db
    BY Zenon, <1>9 DEF FlushTipFails, dbVars, viewVars, Cur, Scr, TipCoins, ViewCoins, NoEntries,
                Inv, TypeOK, CoinsMap
  <2>2. Store!Lose
    BY Zenon, <1>9, <2>1 DEF FlushTipFails, Store!Lose, dbVars, viewVars, Cur, Scr
  <2> QED
    BY Zenon, <2>2 DEF Store!StoreNext
<1>10. CASE UNCHANGED vars
  <2>1. Same
    BY Zenon, <1>10 DEF vars, dbVars, tipVars, viewVars, Cur, Scr, TipCoins, ViewCoins
  <2> QED
    BY Zenon, <1>a, <2>1
<1>11. ASSUME Store!Write PROVE [Store!StoreNext]_(Store!storeVars)
  BY Zenon, <1>11 DEF Store!StoreNext
<1> QED
  BY Zenon, <1>a, <1>1, <1>2, <1>3, <1>4, <1>5, <1>6, <1>7, <1>8, <1>9, <1>10, <1>11 DEF Next

(* The stack of caches implements three plain maps: a block is applied entirely or not at
   all, what is current becomes durable at once, a restart falls back to what was durable
   and only a failed write loses what was not. *)
THEOREM Refinement == Spec => ImplementsStore
<1>1. Inv /\ Inv' /\ [Next]_vars => [Store!StoreNext]_(Store!storeVars)
  BY Zenon, StoreStep
<1> QED
  BY <1>1, Invariance, StoreInitHolds, PTL DEF Spec, Store!StoreSpec, ImplementsStore

-----------------------------------------------------------------------------
(* The units of a sum are finitely many, one set for each transaction. *)
LEMMA UnitsFinite ==
  ASSUME NEW n \in [Txid -> Nat]
  PROVE  IsFiniteSet(Units(n)) /\ Total(n) \in Nat
<1>1. \A t \in Txid : IsFiniteSet({t} \X (1 .. n[t]))
  <2> TAKE t \in Txid
  <2>1. n[t] \in Nat
    BY Zenon
  <2>2. IsFiniteSet(1 .. n[t])
    BY <2>1, FS_Interval
  <2> QED  BY Zenon, <2>2, FS_Singleton, FS_Product
<1>2. IsFiniteSet({{t} \X (1 .. n[t]) : t \in Txid})
  <2> DEFINE T == {{t} \X (1 .. n[t]) : t \in Txid}
             f == [t \in Txid |-> {t} \X (1 .. n[t])]
  <2>1. f \in Surjection(Txid, T)
    BY Zenon DEF Surjection
  <2>2. IsFiniteSet(Txid)
    BY Zenon, CoinsAssumption
  <2> HIDE DEF f, T
  <2>3. IsFiniteSet(T)
    BY Zenon, <2>1, <2>2, FS_Surjection
  <2> QED  BY Zenon, <2>3 DEF T
<1>3. IsFiniteSet(Units(n))
  BY Zenon, <1>1, <1>2, FS_UNION DEF Units
<1> QED  BY Zenon, <1>3, FS_CardinalityType DEF Total

(* A pair is a unit exactly if it is counted for its transaction. *)
LEMMA UnitsMember ==
  ASSUME NEW n \in [Txid -> Nat]
  PROVE  \A x : x \in Units(n) <=> \E t \in Txid : \E i \in 1 .. n[t] : x = <<t, i>>
<1>1. ASSUME NEW x, x \in Units(n) PROVE \E t \in Txid : \E i \in 1 .. n[t] : x = <<t, i>>
  <2>1. PICK t \in Txid : x \in {t} \X (1 .. n[t])
    BY Zenon, <1>1 DEF Units
  <2>2. x = <<t, x[2]>> /\ x[2] \in 1 .. n[t]
    BY <2>1
  <2> QED  BY Zenon, <2>2
<1>2. ASSUME NEW x, NEW t \in Txid, NEW i \in 1 .. n[t], x = <<t, i>> PROVE x \in Units(n)
  <2>1. x \in {t} \X (1 .. n[t])
    BY <1>2
  <2> QED  BY Zenon, <2>1 DEF Units
<1> QED  BY Zenon, <1>1, <1>2

(* Where numbers change, what is subtracted is the old number and what is added the
   new one: then so do the sums. *)
LEMMA TotalExchange ==
  ASSUME NEW u \in [Txid -> Nat], NEW v \in [Txid -> Nat],
         NEW r \in [Txid -> Nat], NEW a \in [Txid -> Nat],
         \A t \in Txid : \/ r[t] = 0 /\ a[t] = 0 /\ u[t] = v[t]
                         \/ r[t] = u[t] /\ a[t] = v[t]
  PROVE  Total(v) = Total(u) - Total(r) + Total(a)
<1> DEFINE kept == {t \in Txid : r[t] = 0 /\ a[t] = 0 /\ u[t] = v[t]}
           k == [t \in Txid |-> IF t \in kept THEN u[t] ELSE 0]
<1>0. k \in [Txid -> Nat]
  BY Zenon
<1>1. \A t \in Txid : \/ k[t] = u[t] /\ k[t] = v[t] /\ r[t] = 0 /\ a[t] = 0
                      \/ k[t] = 0 /\ r[t] = u[t] /\ a[t] = v[t]
  BY Zenon
<1> HIDE DEF k
<1>2. ASSUME NEW f \in [Txid -> Nat], NEW g \in [Txid -> Nat],
             \A t \in Txid : (k[t] = f[t] /\ g[t] = 0) \/ (k[t] = 0 /\ g[t] = f[t])
      PROVE  Total(f) = Total(k) + Total(g)
  <2>1. 1 .. 0 = {}
    OBVIOUS
  <2>a. \A x : x \in Units(k) <=> \E t \in Txid : \E i \in 1 .. k[t] : x = <<t, i>>
    BY <1>0, UnitsMember
  <2>b. \A x : x \in Units(f) <=> \E t \in Txid : \E i \in 1 .. f[t] : x = <<t, i>>
    BY <1>2, UnitsMember
  <2>c. \A x : x \in Units(g) <=> \E t \in Txid : \E i \in 1 .. g[t] : x = <<t, i>>
    BY <1>2, UnitsMember
  <2>2. Units(f) = Units(k) \cup Units(g)
    <3>1. ASSUME NEW x \in Units(f) PROVE x \in Units(k) \cup Units(g)
      <4>1. PICK t \in Txid : \E i \in 1 .. f[t] : x = <<t, i>>
        BY Zenon, <2>b, <3>1
      <4>2. k[t] = f[t] \/ g[t] = f[t]
        BY Zenon, <1>2
      <4> QED  BY Zenon, <2>a, <2>c, <4>1, <4>2
    <3>2. ASSUME NEW x, x \in Units(k) PROVE x \in Units(f)
      <4>1. PICK t \in Txid : \E i \in 1 .. k[t] : x = <<t, i>>
        BY Zenon, <2>a, <3>2
      <4>2. k[t] = f[t]
        BY Zenon, <1>2, <2>1, <4>1
      <4> QED  BY Zenon, <2>b, <4>1, <4>2
    <3>3. ASSUME NEW x, x \in Units(g) PROVE x \in Units(f)
      <4>1. PICK t \in Txid : \E i \in 1 .. g[t] : x = <<t, i>>
        BY Zenon, <2>c, <3>3
      <4>2. g[t] = f[t]
        BY Zenon, <1>2, <2>1, <4>1
      <4> QED  BY Zenon, <2>b, <4>1, <4>2
    <3> QED  BY Zenon, <3>1, <3>2, <3>3
  <2>3. Units(k) \cap Units(g) = {}
    <3> SUFFICES ASSUME NEW x \in Units(k), x \in Units(g) PROVE FALSE
      BY Zenon
    <3>1. PICK t \in Txid : \E i \in 1 .. k[t] : x = <<t, i>>
      BY Zenon, <2>a
    <3>2. PICK s \in Txid : \E i \in 1 .. g[s] : x = <<s, i>>
      BY Zenon, <2>c
    <3>3. s = t
      BY <3>1, <3>2
    <3>4. k[t] = 0 \/ g[t] = 0
      BY Zenon, <1>2
    <3> QED  BY Zenon, <2>1, <3>1, <3>2, <3>3, <3>4
  <2>4. /\ IsFiniteSet(Units(k)) /\ Total(k) \in Nat
        /\ IsFiniteSet(Units(g)) /\ Total(g) \in Nat
    BY Zenon, <1>0, <1>2, UnitsFinite
  <2>5. Total(f) = Total(k) + Total(g) - Cardinality({})
    BY Zenon, <2>2, <2>3, <2>4, FS_Union DEF Total
  <2> QED  BY <2>4, <2>5, FS_EmptySet
<1>3. Total(u) = Total(k) + Total(r)
  BY Zenon, <1>1, <1>2
<1>4. Total(v) = Total(k) + Total(a)
  BY Zenon, <1>1, <1>2
<1>5. Total(k) \in Nat /\ Total(r) \in Nat /\ Total(a) \in Nat
  BY Zenon, <1>0, UnitsFinite
<1> QED  BY <1>3, <1>4, <1>5

(* The sum of a number for one transaction and zeros. *)
LEMMA TotalOne ==
  ASSUME NEW t \in Txid, NEW m \in Nat
  PROVE  Total([s \in Txid |-> IF s = t THEN m ELSE 0]) = m
<1> DEFINE n == [s \in Txid |-> IF s = t THEN m ELSE 0]
<1>0. n \in [Txid -> Nat] /\ 1 .. 0 = {}
  <2>1. 1 .. 0 = {}
    OBVIOUS
  <2> QED  BY Zenon, <2>1
<1>1. n[t] = m /\ \A s \in Txid \ {t} : n[s] = 0
  BY Zenon
<1> HIDE DEF n
<1>2. Units(n) = {t} \X (1 .. m)
  <2>0. \A x : x \in Units(n) <=> \E s \in Txid : \E i \in 1 .. n[s] : x = <<s, i>>
    BY <1>0, UnitsMember
  <2>1. ASSUME NEW x \in Units(n) PROVE x \in {t} \X (1 .. m)
    <3>1. PICK s \in Txid : \E i \in 1 .. n[s] : x = <<s, i>>
      BY Zenon, <2>0
    <3>2. s = t
      BY Zenon, <1>0, <1>1, <3>1
    <3>3. \E i \in 1 .. m : x = <<t, i>>
      BY Zenon, <1>1, <3>1, <3>2
    <3> QED  BY <3>3
  <2>2. ASSUME NEW x \in {t} \X (1 .. m) PROVE x \in Units(n)
    <3>1. \E i \in 1 .. m : x = <<t, i>>
      BY <2>2
    <3> QED  BY Zenon, <1>1, <2>0, <3>1
  <2> QED  BY Zenon, <2>1, <2>2
<1>3. IsFiniteSet(1 .. m) /\ Cardinality(1 .. m) = m
  BY FS_Interval
<1>4. IsFiniteSet({t}) /\ Cardinality({t}) = 1
  BY Zenon, FS_Singleton
<1>5. Cardinality({t} \X (1 .. m)) = Cardinality({t}) * Cardinality(1 .. m)
  BY Zenon, <1>3, <1>4, FS_Product
<1>6. 1 * m = m
  OBVIOUS
<1>7. Total(n) = m
  BY Zenon, <1>2, <1>3, <1>4, <1>5, <1>6 DEF Total
<1> QED  BY Zenon, <1>7 DEF n

(* Nothing sums up to nothing. *)
LEMMA TotalNone == SumUsage(NoEntries) = 0
<1>1. 1 .. 0 = {}
  OBVIOUS
<1>2. Units([t \in Txid |-> EntryUsage(NoEntries[t])]) = {}
  BY Zenon, <1>1 DEF Units, NoEntries, EntryUsage
<1> QED  BY Zenon, <1>2, FS_EmptySet DEF SumUsage, Total

(* The memory of every entry is a number. *)
LEMMA EntryUsageType ==
  ASSUME NEW e \in Entry \cup {Absent} PROVE EntryUsage(e) \in Nat
<1>1. CASE e = Absent
  BY <1>1 DEF EntryUsage
<1>2. CASE e # Absent
  BY Zenon, <1>2, CoinsAssumption DEF EntryUsage, Entry
<1> QED  BY Zenon, <1>1, <1>2

(* An entry is replaced: the sum changes by the difference. *)
LEMMA SumReplace ==
  ASSUME NEW cache \in CacheMap, NEW t \in Txid, NEW e \in Entry \cup {Absent}
  PROVE  SumUsage([cache EXCEPT ![t] = e])
           = SumUsage(cache) - EntryUsage(cache[t]) + EntryUsage(e)
<1> DEFINE u == [s \in Txid |-> EntryUsage(cache[s])]
           w == [cache EXCEPT ![t] = e]
           v == [s \in Txid |-> EntryUsage(w[s])]
           r == [s \in Txid |-> IF s = t THEN EntryUsage(cache[t]) ELSE 0]
           a == [s \in Txid |-> IF s = t THEN EntryUsage(e) ELSE 0]
<1>1. w \in CacheMap /\ w[t] = e /\ \A s \in Txid \ {t} : w[s] = cache[s]
  BY Zenon DEF CacheMap
<1> HIDE DEF w
<1>2. /\ u \in [Txid -> Nat] /\ v \in [Txid -> Nat]
      /\ EntryUsage(cache[t]) \in Nat /\ EntryUsage(e) \in Nat
  BY Zenon, <1>1, EntryUsageType DEF CacheMap
<1>3. r \in [Txid -> Nat] /\ a \in [Txid -> Nat]
  BY Zenon, <1>2
<1>4. \A s \in Txid : \/ r[s] = 0 /\ a[s] = 0 /\ u[s] = v[s]
                      \/ r[s] = u[s] /\ a[s] = v[s]
  BY Zenon, <1>1
<1>5. Total(r) = EntryUsage(cache[t]) /\ Total(a) = EntryUsage(e)
  BY Zenon, <1>2, TotalOne
<1> HIDE DEF u, v, r, a
<1>6. Total(v) = Total(u) - Total(r) + Total(a)
  BY <1>2, <1>3, <1>4, TotalExchange
<1> QED  BY Zenon, <1>5, <1>6 DEF SumUsage, u, v, w

(* The memory of a cache is a number. *)
LEMMA SumType ==
  ASSUME NEW cache \in CacheMap PROVE SumUsage(cache) \in Nat
<1>1. [t \in Txid |-> EntryUsage(cache[t])] \in [Txid -> Nat]
  BY Zenon, EntryUsageType DEF CacheMap
<1> QED  BY Zenon, <1>1, UnitsFinite DEF SumUsage

(* The memory of the caches after a step. *)
LEMMA SumPrimes == SumUsage(view)' = SumUsage(view') /\ SumUsage(tip)' = SumUsage(tip')
  BY Zenon DEF SumUsage, Total, Units, EntryUsage

(* The entry that a lookup makes is an entry, and its memory that of the coins. *)
LEMMA FetchedUsage ==
  ASSUME NEW c \in Coins
  PROVE  FetchedEntry(c) \in Entry /\ EntryUsage(FetchedEntry(c)) = Usage[c]
<1>1. FetchedEntry(c) \in Entry /\ FetchedEntry(c).coins = c
  BY Zenon DEF FetchedEntry, Entry
<1>2. FetchedEntry(c) # Absent
  BY Zenon, <1>1, CoinsAssumption
<1> QED  BY Zenon, <1>1, <1>2 DEF EntryUsage

(* A lookup on pcoinsTip (FetchCoins) adds the memory of the entry it makes. *)
LEMMA TipFetchExact ==
  ASSUME TypeOK, NEW t \in Txid, tipUsage = SumUsage(tip)
  PROVE  TipFetchUsage(t) = SumUsage(TipFetch(t))
<1>0. tip \in CacheMap /\ db[t] \in Coins
  BY Zenon DEF TypeOK, CoinsMap
<1>1. CASE tip[t] = Absent /\ db[t] # Pruned
  <2>1. FetchedEntry(db[t]) \in Entry /\ EntryUsage(FetchedEntry(db[t])) = Usage[db[t]]
    BY Zenon, <1>0, FetchedUsage
  <2> DEFINE e == FetchedEntry(db[t])
  <2>e. e \in Entry \cup {Absent}
    BY Zenon, <2>1
  <2> HIDE DEF e
  <2>f. SumUsage([tip EXCEPT ![t] = e]) = SumUsage(tip) - EntryUsage(tip[t]) + EntryUsage(e)
    BY Zenon, <1>0, <2>e, SumReplace
  <2>2. SumUsage([tip EXCEPT ![t] = FetchedEntry(db[t])])
          = SumUsage(tip) - EntryUsage(tip[t]) + Usage[db[t]]
    BY Zenon, <2>1, <2>f DEF e
  <2>3. EntryUsage(tip[t]) = 0 /\ SumUsage(tip) \in Nat
    BY Zenon, <1>0, <1>1, SumType DEF EntryUsage
  <2>4. SumUsage([tip EXCEPT ![t] = FetchedEntry(db[t])]) = tipUsage + Usage[db[t]]
    BY <2>2, <2>3
  <2> QED  BY Zenon, <1>1, <2>4 DEF TipFetch, TipFetchUsage
<1>2. CASE ~(tip[t] = Absent /\ db[t] # Pruned)
  BY Zenon, <1>2 DEF TipFetch, TipFetchUsage
<1> QED  BY Zenon, <1>1, <1>2

(* A lookup on pcoinsTip keeps the account exact. *)
LEMMA FetchTipUsage ==
  ASSUME TypeOK, UsageIsExact, NEW t \in Txid, FetchTip(t) PROVE UsageIsExact'
<1>1. /\ viewUsage' = viewUsage /\ view' = view /\ node' = node
      /\ tip' = TipFetch(t) /\ tipUsage' = TipFetchUsage(t)
  BY Zenon DEF FetchTip, viewVars
<1>2. viewUsage' = SumUsage(view')
  BY Zenon, <1>1 DEF UsageIsExact
<1>3. ASSUME node' = "running" PROVE tipUsage' = SumUsage(tip')
  <2>1. tipUsage = SumUsage(tip)
    BY Zenon, <1>1, <1>3 DEF UsageIsExact
  <2>2. TipFetchUsage(t) = SumUsage(TipFetch(t))
    BY Zenon, <2>1, TipFetchExact
  <2> QED  BY Zenon, <1>1, <2>2
<1> QED  BY Zenon, <1>2, <1>3, SumPrimes DEF UsageIsExact

(* Uncache subtracts what the dropped entry took. *)
LEMMA UncacheUsage ==
  ASSUME TypeOK, UsageIsExact, NEW t \in Txid, Uncache(t) PROVE UsageIsExact'
<1>1. /\ viewUsage' = viewUsage /\ view' = view /\ node' = node
      /\ tip' = [tip EXCEPT ![t] = Absent]
      /\ tipUsage' = tipUsage - EntryUsage(tip[t])
  BY Zenon DEF Uncache, viewVars
<1>2. viewUsage' = SumUsage(view')
  BY Zenon, <1>1 DEF UsageIsExact
<1>3. ASSUME node' = "running" PROVE tipUsage' = SumUsage(tip')
  <2>0. tip \in CacheMap /\ Absent \in Entry \cup {Absent} /\ EntryUsage(Absent) = 0
    BY Zenon DEF TypeOK, EntryUsage
  <2>1. tipUsage = SumUsage(tip)
    BY Zenon, <1>1, <1>3 DEF UsageIsExact
  <2>2. SumUsage([tip EXCEPT ![t] = Absent]) = SumUsage(tip) - EntryUsage(tip[t]) + EntryUsage(Absent)
    BY Zenon, <2>0, SumReplace
  <2>3. SumUsage(tip) \in Nat /\ EntryUsage(tip[t]) \in Nat
    BY Zenon, <2>0, SumType, EntryUsageType DEF CacheMap
  <2>4. SumUsage([tip EXCEPT ![t] = Absent]) = tipUsage - EntryUsage(tip[t])
    BY <2>0, <2>1, <2>2, <2>3
  <2> QED  BY Zenon, <1>1, <2>4
<1> QED  BY Zenon, <1>2, <1>3, SumPrimes DEF UsageIsExact

(* What a lookup on the view does to pcoinsTip keeps its account exact. *)
LEMMA TipFetchUsageKept ==
  ASSUME TypeOK, UsageIsExact, NEW t \in Txid, node' = node,
         \/ tip' = TipFetch(t) /\ tipUsage' = TipFetchUsage(t)
         \/ tip' = tip /\ tipUsage' = tipUsage,
         node' = "running"
  PROVE  tipUsage' = SumUsage(tip')
<1>1. tipUsage = SumUsage(tip)
  BY Zenon DEF UsageIsExact
<1>2. TipFetchUsage(t) = SumUsage(TipFetch(t))
  BY Zenon, <1>1, TipFetchExact
<1> QED  BY Zenon, <1>1, <1>2

(* A lookup on the view (FetchCoins) adds what its own entry takes. *)
LEMMA FetchViewUsage ==
  ASSUME TypeOK, UsageIsExact, NEW t \in Txid, FetchView(t) PROVE UsageIsExact'
<1>1. /\ view[t] = Absent /\ node' = node
      /\ tip' = TipFetch(t) /\ tipUsage' = TipFetchUsage(t)
      /\ view' = [view EXCEPT ![t] = FetchedEntry(TipCoins(t))]
      /\ viewUsage' = viewUsage + Usage[TipCoins(t)]
  BY Zenon DEF FetchView
<1>2. viewUsage' = SumUsage(view')
  <2>0. view \in CacheMap /\ viewUsage = SumUsage(view) /\ EntryUsage(view[t]) = 0
    BY Zenon, <1>1 DEF TypeOK, UsageIsExact, EntryUsage
  <2>1. TipCoins(t) \in Coins
    BY Zenon DEF TypeOK, TipCoins, CacheMap, CoinsMap, Entry
  <2> DEFINE e == FetchedEntry(TipCoins(t))
  <2>2. e \in Entry /\ EntryUsage(e) = Usage[TipCoins(t)]
    BY Zenon, <2>1, FetchedUsage
  <2>3. view' = [view EXCEPT ![t] = e]
    BY Zenon, <1>1
  <2> HIDE DEF e
  <2>4. e \in Entry \cup {Absent}
    BY Zenon, <2>2
  <2>5. SumUsage([view EXCEPT ![t] = e]) = SumUsage(view) - EntryUsage(view[t]) + EntryUsage(e)
    BY Zenon, <2>0, <2>4, SumReplace
  <2>6. SumUsage(view) \in Nat
    BY Zenon, <2>0, SumType
  <2>7. SumUsage([view EXCEPT ![t] = e]) = viewUsage + Usage[TipCoins(t)]
    BY <2>0, <2>2, <2>5, <2>6
  <2> QED  BY Zenon, <1>1, <2>3, <2>7
<1>3. ASSUME node' = "running" PROVE tipUsage' = SumUsage(tip')
  BY Zenon, <1>1, <1>3, TipFetchUsageKept
<1> QED  BY Zenon, <1>2, <1>3, SumPrimes DEF UsageIsExact

(* The end of a CCoinsModifier: the old entry's memory is subtracted, the new one's
   added, also if the entry is dropped. *)
LEMMA ModifyCoinsUsage ==
  ASSUME TypeOK, UsageIsExact, NEW t \in Txid, NEW c \in Coins, ModifyCoins(t, c)
  PROVE  UsageIsExact'
<1>1. PICK flags \in SUBSET {"DIRTY", "FRESH"} :
        /\ view' = [view EXCEPT ![t] = Modified([coins |-> c, flags |-> flags])]
        /\ viewUsage' = viewUsage - EntryUsage(view[t])
                          + EntryUsage(Modified([coins |-> c, flags |-> flags]))
  <2> DEFINE old == IF view[t] # Absent THEN view[t]
                    ELSE IF ~TipFound(t) THEN [coins |-> Pruned, flags |-> {"FRESH"}]
                    ELSE FetchedEntry(TipCoins(t))
  <2>1. old.flags \subseteq {"DIRTY", "FRESH"}
    <3>1. CASE view[t] # Absent
      BY Zenon, <3>1 DEF TypeOK, CacheMap, Entry
    <3>2. CASE view[t] = Absent
      BY <3>2 DEF FetchedEntry
    <3> QED  BY Zenon, <3>1, <3>2
  <2>2. /\ view' = [view EXCEPT ![t] = Modified([coins |-> c, flags |-> old.flags \cup {"DIRTY"}])]
        /\ viewUsage' = viewUsage - EntryUsage(view[t])
                 + EntryUsage(Modified([coins |-> c, flags |-> old.flags \cup {"DIRTY"}]))
    BY Zenon DEF ModifyCoins
  <2> HIDE DEF old
  <2>3. old.flags \cup {"DIRTY"} \in SUBSET {"DIRTY", "FRESH"}
    BY <2>1
  <2> QED  BY Zenon, <2>2, <2>3
<1>2. viewUsage' = SumUsage(view')
  <2>0. view \in CacheMap /\ viewUsage = SumUsage(view)
    BY Zenon DEF TypeOK, UsageIsExact
  <2> DEFINE e == Modified([coins |-> c, flags |-> flags])
  <2>1. e \in Entry \cup {Absent}
    BY DEF Modified, Entry
  <2>2. view' = [view EXCEPT ![t] = e] /\ viewUsage' = viewUsage - EntryUsage(view[t]) + EntryUsage(e)
    BY Zenon, <1>1
  <2> HIDE DEF e
  <2>3. SumUsage([view EXCEPT ![t] = e]) = SumUsage(view) - EntryUsage(view[t]) + EntryUsage(e)
    BY Zenon, <2>0, <2>1, SumReplace
  <2> QED  BY Zenon, <2>0, <2>2, <2>3
<1>3. ASSUME node' = "running" PROVE tipUsage' = SumUsage(tip')
  <2>1. /\ node' = node
        /\ \/ tip' = TipFetch(t) /\ tipUsage' = TipFetchUsage(t)
           \/ tip' = tip /\ tipUsage' = tipUsage
    BY Zenon DEF ModifyCoins
  <2> QED  BY Zenon, <1>3, <2>1, TipFetchUsageKept
<1> QED  BY Zenon, <1>2, <1>3, SumPrimes DEF UsageIsExact

(* ModifyNewCoins subtracts nothing: what it replaces is a spent entry, which takes
   no memory. *)
LEMMA ModifyNewCoinsUsage ==
  ASSUME TypeOK, UsageIsExact, NEW t \in Txid, NEW c \in Coins, NEW coinbase \in BOOLEAN,
         ModifyNewCoins(t, c, coinbase)
  PROVE  UsageIsExact'
<1>0. view \in CacheMap /\ viewUsage = SumUsage(view) /\ view[t] \in Entry \cup {Absent}
  BY Zenon DEF TypeOK, UsageIsExact, CacheMap
<1>1. EntryUsage(view[t]) = 0
  BY Zenon, CoinsAssumption DEF ModifyNewCoins, ViewCoins, EntryUsage
<1>2. PICK flags \in SUBSET {"DIRTY", "FRESH"} :
        /\ view' = [view EXCEPT ![t] = Modified([coins |-> c, flags |-> flags])]
        /\ viewUsage' = viewUsage + EntryUsage(Modified([coins |-> c, flags |-> flags]))
  <2> DEFINE old == IF view[t] = Absent THEN [coins |-> Pruned, flags |-> {}] ELSE view[t]
  <2>1. old.flags \subseteq {"DIRTY", "FRESH"}
    <3>1. CASE view[t] # Absent
      BY Zenon, <1>0, <3>1 DEF Entry
    <3>2. CASE view[t] = Absent
      BY <3>2
    <3> QED  BY Zenon, <3>1, <3>2
  <2>2. /\ view' = [view EXCEPT ![t] =
                      Modified([coins |-> c, flags |-> NewCoinsFlags(old.flags, coinbase)])]
        /\ viewUsage' = viewUsage
             + EntryUsage(Modified([coins |-> c, flags |-> NewCoinsFlags(old.flags, coinbase)]))
    BY Zenon DEF ModifyNewCoins
  <2> HIDE DEF old
  <2>3. NewCoinsFlags(old.flags, coinbase) \in SUBSET {"DIRTY", "FRESH"}
    BY <2>1 DEF NewCoinsFlags
  <2> QED  BY Zenon, <2>2, <2>3
<1>3. viewUsage' = SumUsage(view')
  <2> DEFINE e == Modified([coins |-> c, flags |-> flags])
  <2>1. e \in Entry \cup {Absent}
    BY DEF Modified, Entry
  <2>2. view' = [view EXCEPT ![t] = e] /\ viewUsage' = viewUsage + EntryUsage(e)
    BY Zenon, <1>2
  <2> HIDE DEF e
  <2>3. SumUsage([view EXCEPT ![t] = e]) = SumUsage(view) - EntryUsage(view[t]) + EntryUsage(e)
    BY Zenon, <1>0, <2>1, SumReplace
  <2>4. SumUsage(view) \in Nat /\ EntryUsage(e) \in Nat
    BY Zenon, <1>0, <2>1, SumType, EntryUsageType
  <2>5. SumUsage([view EXCEPT ![t] = e]) = viewUsage + EntryUsage(e)
    BY <1>0, <1>1, <2>3, <2>4
  <2> QED  BY Zenon, <2>2, <2>5
<1>4. ASSUME node' = "running" PROVE tipUsage' = SumUsage(tip')
  BY Zenon, <1>4 DEF ModifyNewCoins, tipVars, UsageIsExact
<1> QED  BY Zenon, <1>3, <1>4, SumPrimes DEF UsageIsExact

(* BatchWrite for one entry: either nothing changes, or the memory of the parent's entry
   is subtracted and that of what takes its place is added. *)
LEMMA BatchWriteExact ==
  ASSUME NEW child \in Entry \cup {Absent}, NEW parent \in Entry \cup {Absent}
  PROVE  /\ BatchWriteEntry(child, parent) \in Entry \cup {Absent}
         /\ \/ /\ BatchWriteFrees(child, parent) = 0 /\ BatchWriteTakes(child, parent) = 0
               /\ BatchWriteEntry(child, parent) = parent
            \/ /\ BatchWriteFrees(child, parent) = EntryUsage(parent)
               /\ BatchWriteTakes(child, parent) = EntryUsage(BatchWriteEntry(child, parent))
<1>1. CASE child = Absent
  BY Zenon, <1>1 DEF BatchWriteEntry, BatchWriteFrees, BatchWriteTakes
<1>2. CASE child # Absent /\ "DIRTY" \notin child.flags
  BY Zenon, <1>2 DEF BatchWriteEntry, BatchWriteFrees, BatchWriteTakes
<1>3. CASE child # Absent /\ "DIRTY" \in child.flags
  <2>0. child \in Entry /\ child.coins \in Coins /\ child.flags \subseteq {"DIRTY", "FRESH"}
    BY Zenon, <1>3 DEF Entry
  <2>1. BatchWriteFrees(child, parent) = EntryUsage(parent)
    BY Zenon, <1>3 DEF BatchWriteFrees, EntryUsage
  <2>2. ASSUME NEW flags \in SUBSET {"DIRTY", "FRESH"}
        PROVE  /\ [coins |-> child.coins, flags |-> flags] \in Entry
               /\ EntryUsage([coins |-> child.coins, flags |-> flags]) = Usage[child.coins]
    <3>1. [coins |-> child.coins, flags |-> flags] \in Entry
      BY <2>0 DEF Entry
    <3>2. [coins |-> child.coins, flags |-> flags] # Absent
      BY Zenon, <3>1, CoinsAssumption
    <3> QED  BY Zenon, <3>1, <3>2 DEF EntryUsage
  <2>3. CASE parent = Absent
    <3>1. {"DIRTY"} \cup (child.flags \cap {"FRESH"}) \in SUBSET {"DIRTY", "FRESH"}
      OBVIOUS
    <3> QED  BY Zenon, <1>3, <2>1, <2>2, <2>3, <3>1 DEF BatchWriteEntry, BatchWriteTakes, EntryUsage
  <2>4. CASE parent # Absent
    <3>1. parent.flags \cup {"DIRTY"} \in SUBSET {"DIRTY", "FRESH"}
      BY <2>4 DEF Entry
    <3> QED  BY Zenon, <1>3, <2>1, <2>2, <2>4, <3>1 DEF BatchWriteEntry, BatchWriteTakes, EntryUsage
  <2> QED  BY Zenon, <2>3, <2>4
<1> QED  BY Zenon, <1>1, <1>2, <1>3

(* The whole of BatchWrite keeps the account of pcoinsTip exact. *)
LEMMA FlushViewUsage ==
  ASSUME TypeOK, UsageIsExact, FlushView PROVE UsageIsExact'
<1> DEFINE u == [t \in Txid |-> EntryUsage(tip[t])]
           w == [t \in Txid |-> BatchWriteEntry(view[t], tip[t])]
           v == [t \in Txid |-> EntryUsage(w[t])]
           r == [t \in Txid |-> BatchWriteFrees(view[t], tip[t])]
           a == [t \in Txid |-> BatchWriteTakes(view[t], tip[t])]
<1>1. /\ view' = NoEntries /\ viewUsage' = 0 /\ node' = node
      /\ tip' = w /\ tipUsage' = tipUsage - Total(r) + Total(a)
  BY Zenon DEF FlushView
<1>2. viewUsage' = SumUsage(view')
  BY Zenon, <1>1, TotalNone
<1>3. Total(v) = Total(u) - Total(r) + Total(a)
  <2>0. \A t \in Txid : view[t] \in Entry \cup {Absent} /\ tip[t] \in Entry \cup {Absent}
    BY Zenon DEF TypeOK, CacheMap
  <2>1. \A t \in Txid :
          /\ w[t] \in Entry \cup {Absent}
          /\ \/ r[t] = 0 /\ a[t] = 0 /\ w[t] = tip[t]
             \/ r[t] = EntryUsage(tip[t]) /\ a[t] = EntryUsage(w[t])
    BY Zenon, <2>0, BatchWriteExact
  <2>2. w = [t \in Txid |-> w[t]] /\ r = [t \in Txid |-> r[t]] /\ a = [t \in Txid |-> a[t]]
    BY Zenon
  <2> HIDE DEF w, r, a
  <2>3. \A t \in Txid : EntryUsage(tip[t]) \in Nat /\ EntryUsage(w[t]) \in Nat
    BY Zenon, <2>0, <2>1, EntryUsageType
  <2>4. u \in [Txid -> Nat] /\ v \in [Txid -> Nat]
    BY Zenon, <2>3
  <2>5. \A t \in Txid : r[t] \in Nat /\ a[t] \in Nat
    BY <2>1, <2>3
  <2>6. r \in [Txid -> Nat] /\ a \in [Txid -> Nat]
    BY Zenon, <2>2, <2>5
  <2>7. \A t \in Txid : \/ r[t] = 0 /\ a[t] = 0 /\ u[t] = v[t]
                        \/ r[t] = u[t] /\ a[t] = v[t]
    BY Zenon, <2>1
  <2> HIDE DEF u, v
  <2> QED  BY <2>4, <2>6, <2>7, TotalExchange
<1>4. ASSUME node' = "running" PROVE tipUsage' = SumUsage(tip')
  <2>1. tipUsage = Total(u)
    BY Zenon, <1>1, <1>4 DEF UsageIsExact, SumUsage
  <2>2. SumUsage(w) = Total(v)
    BY Zenon DEF SumUsage
  <2> HIDE DEF u, v, r, a, w
  <2> QED  BY Zenon, <1>1, <1>3, <2>1, <2>2
<1> QED  BY Zenon, <1>2, <1>4, SumPrimes DEF UsageIsExact

(* Every step keeps both accounts exact; a failed write of the database leaves that of
   pcoinsTip wrong, but then the node stops. *)
LEMMA UsageNext == ASSUME TypeOK, UsageIsExact, [Next]_vars PROVE UsageIsExact'
<1>0. CASE UNCHANGED vars
  BY Zenon, <1>0, SumPrimes DEF vars, tipVars, viewVars, UsageIsExact
<1>1. ASSUME NEW t \in Txid, FetchTip(t) \/ Uncache(t) \/ FetchView(t) PROVE UsageIsExact'
  BY Zenon, <1>1, FetchTipUsage, UncacheUsage, FetchViewUsage
<1>2. CASE OpenView \/ DiscardView
  BY Zenon, <1>2, SumPrimes, TotalNone DEF OpenView, DiscardView, tipVars, UsageIsExact
<1>3. CASE SetBestBlock
  BY Zenon, <1>3, SumPrimes DEF SetBestBlock, tipVars, UsageIsExact
<1>4. CASE FlushTip \/ Shutdown \/ Crash
  <2>1. tip' = NoEntries /\ tipUsage' = 0
    BY Zenon, <1>4 DEF FlushTip, Shutdown, Crash
  <2>2. \/ view' = view /\ viewUsage' = viewUsage
        \/ view' = NoEntries /\ viewUsage' = 0
    BY Zenon, <1>4 DEF FlushTip, Shutdown, Crash, viewVars
  <2> QED  BY Zenon, <2>1, <2>2, SumPrimes, TotalNone DEF UsageIsExact
<1>5. CASE FlushTipFails
  BY <1>5, SumPrimes DEF FlushTipFails, viewVars, UsageIsExact
<1> QED
  BY Zenon, <1>0, <1>1, <1>2, <1>3, <1>4, <1>5, ModifyCoinsUsage, ModifyNewCoinsUsage,
     FlushViewUsage DEF Next

(* cachedCoinsUsage is the memory of the entries that are there, of pcoinsTip and of
   the view a block is tried on, at any time: whatever is fetched, modified, uncached,
   flushed or dropped, no update is lost or doubled. *)
THEOREM UsageAlwaysExact == Spec => []UsageIsExact
<1>1. Init => UsageIsExact
  BY Zenon, TotalNone DEF Init, UsageIsExact
<1>2. TypeOK /\ UsageIsExact /\ [Next]_vars => UsageIsExact'
  BY Zenon, UsageNext
<1>3. Spec => []TypeOK
  BY Zenon, TypeCorrect
<1> QED  BY <1>1, <1>2, <1>3, PTL DEF Spec
=============================================================================
