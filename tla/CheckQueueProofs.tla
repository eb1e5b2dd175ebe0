-------------------------- MODULE CheckQueueProofs --------------------------
(***************************************************************************)
(* The safety properties of CheckQueue hold for any number of workers,     *)
(* any set of checks and any batch size.  Every critical section of Loop   *)
(* ends in LoopTop: LoopTopInv proves the invariant after it from what the *)
(* clean-up before it has established (Mid), and each of the three ways    *)
(* into LoopTop is shown to establish Mid.                                 *)
(***************************************************************************)
EXTENDS CheckQueue, TLAPS, FiniteSetTheorems

Place == {"out", "begin", "work", "wait", "woken", "gone"}

(* Checks not done when thread t has finished its batch.                   *)
Others(t) == {c \in Check : c \in queue \/ \E u \in Threads \ {t} : c \in vChecks[u]}

(* What the clean-up of thread t leaves for the rest of its critical       *)
(* section.                                                                *)
Mid(t, pcN, total, idle, todo, ok) ==
  /\ pcN \in [Threads -> Place]
  /\ \A u \in Threads : pcN[u] = pc[u] \/ (pc[u] = "wait" /\ pcN[u] = "woken")
  /\ pc[t] \in {"begin", "woken", "work"}
  /\ total \in Nat /\ idle \in Nat /\ todo \in Nat /\ ok \in {0, 1}
  /\ total - idle = Cardinality(Working \ {t}) + 1
  /\ idle >= Cardinality(Idle \ {t})
  /\ todo = Cardinality(Others(t))
  /\ t = Master => control = "open"
  /\ Others(t) \subseteq added /\ passed' \subseteq added /\ passed' \subseteq Check
  /\ control = "open" /\ ok = 1 =>
       added \ Others(t) \subseteq passed' /\ (added \ Others(t)) \cap Bad = {}
  /\ ok = 0 => added \cap Bad # {}
  /\ control = "none" => Others(t) = {} /\ ok = 1 /\ passed' = passed

-----------------------------------------------------------------------------
(* Subsets of the threads and of the checks are finite.                    *)
LEMMA Finite ==
  /\ IsFiniteSet(Threads)
  /\ \A S \in SUBSET Threads : IsFiniteSet(S) /\ Cardinality(S) \in Nat
  /\ \A S \in SUBSET Check : IsFiniteSet(S) /\ Cardinality(S) \in Nat
<1>1. IsFiniteSet(Threads)
  BY Zenon, QueueAssumption, FS_AddElement DEF Threads
<1>2. \A S \in SUBSET Threads : IsFiniteSet(S) /\ Cardinality(S) \in Nat
  BY Zenon, <1>1, FS_Subset, FS_CardinalityType
<1>3. \A S \in SUBSET Check : IsFiniteSet(S) /\ Cardinality(S) \in Nat
  BY Zenon, QueueAssumption, FS_Subset, FS_CardinalityType
<1> QED
  BY Zenon, <1>1, <1>2, <1>3

(* A batch is never empty: "Don't do batches smaller than 1 (duh)".        *)
LEMMA BatchNotEmpty ==
  ASSUME NEW total \in Nat, NEW idle \in Nat, queue \subseteq Check
  PROVE  BatchSize(total, idle) # 0
<1> DEFINE q == Cardinality(queue) \div (total + idle + 1)
           low == Min({nBatchSize, q})
<1>1. q \in Int
  BY Finite
<1>2. low \in Int
  <2>1. \E x \in {nBatchSize, q} : \A y \in {nBatchSize, q} : x <= y
    BY <1>1, QueueAssumption
  <2> HIDE DEF q
  <2>2. low \in {nBatchSize, q}
    BY Zenon, <2>1 DEF Min
  <2> QED
    BY <1>1, <2>2, QueueAssumption
<1>3. Max({1, low}) >= 1
  <2> HIDE DEF low
  <2>1. \E x \in {1, low} : \A y \in {1, low} : x >= y
    BY <1>2
  <2>2. \A y \in {1, low} : Max({1, low}) >= y
    BY Zenon, <2>1 DEF Max
  <2> QED
    BY Zenon, <2>2
<1> QED
  BY <1>3 DEF BatchSize

(* Adding one thread to a set of threads.                                  *)
LEMMA OneMore ==
  ASSUME NEW S \in SUBSET Threads, NEW t \in Threads, t \notin S
  PROVE  Cardinality(S \cup {t}) = Cardinality(S) + 1
BY Zenon, Finite, FS_AddElement

(* Taking one thread away from a set of threads.                           *)
LEMMA OneLess ==
  ASSUME NEW S \in SUBSET Threads, NEW t \in S
  PROVE  Cardinality(S \ {t}) = Cardinality(S) - 1
BY Zenon, Finite, FS_RemoveElement

(* The checks of a batch leave the pending ones.                           *)
LEMMA Subtract ==
  ASSUME NEW S \in SUBSET Check, NEW B \in SUBSET S
  PROVE  Cardinality(S \ B) = Cardinality(S) - Cardinality(B)
<1>1. IsFiniteSet(S) /\ IsFiniteSet(B) /\ IsFiniteSet(S \ B)
  BY Zenon, Finite
<1>2. S = (S \ B) \cup B /\ (S \ B) \cap B = {}
  BY Zenon
<1>3. Cardinality((S \ B) \cup B) =
        Cardinality(S \ B) + Cardinality(B) - Cardinality((S \ B) \cap B)
  BY Zenon, <1>1, FS_Union
<1>4. Cardinality((S \ B) \cap B) = 0
  BY Zenon, <1>2, FS_EmptySet
<1>5. Cardinality(S) = Cardinality(S \ B) + Cardinality(B) - 0
  BY Zenon, <1>2, <1>3, <1>4
<1>6. Cardinality(S) \in Nat /\ Cardinality(B) \in Nat /\ Cardinality(S \ B) \in Nat
  BY Zenon, <1>1, FS_CardinalityType
<1> QED
  BY <1>5, <1>6

-----------------------------------------------------------------------------
(* The counts of working and idle threads after t has gone to one of the   *)
(* three places LoopTop sends it to.                                       *)
LEMMA CountsAfter ==
  ASSUME NEW t \in Threads, NEW pcN, pcN \in [Threads -> Place],
         \A u \in Threads : pcN[u] = pc[u] \/ (pc[u] = "wait" /\ pcN[u] = "woken"),
         NEW p \in {"out", "wait", "work"}, pc' = [pcN EXCEPT ![t] = p]
  PROVE  /\ p = "out"  => Working' = Working \ {t} /\ Idle' = Idle \ {t}
         /\ p = "wait" => Working' = Working \ {t} /\ Cardinality(Idle') = Cardinality(Idle \ {t}) + 1
         /\ p = "work" => Cardinality(Working') = Cardinality(Working \ {t}) + 1 /\ Idle' = Idle \ {t}
<1>1. \A u \in Threads : pc'[u] = IF u = t THEN p ELSE pcN[u]
  BY Zenon
<1>2. p # "work" => Working' = Working \ {t}
  BY Zenon, <1>1 DEF Working
<1>3. p # "wait" => Idle' = Idle \ {t}
  BY Zenon, <1>1 DEF Idle
<1>4. p = "wait" => Idle' = (Idle \ {t}) \cup {t}
  BY Zenon, <1>1 DEF Idle
<1>5. p = "work" => Working' = (Working \ {t}) \cup {t}
  BY Zenon, <1>1 DEF Working
<1>6. Idle \ {t} \in SUBSET Threads /\ Working \ {t} \in SUBSET Threads
  BY Zenon DEF Idle, Working
<1>7. /\ Cardinality((Idle \ {t}) \cup {t}) = Cardinality(Idle \ {t}) + 1
      /\ Cardinality((Working \ {t}) \cup {t}) = Cardinality(Working \ {t}) + 1
  BY Zenon, <1>6, OneMore
<1> QED
  BY Zenon, <1>2, <1>3, <1>4, <1>5, <1>7

(* The rest of a critical section restores the invariant from Mid.         *)
LEMMA LoopTopInv ==
  ASSUME Inv, NEW t \in Threads, NEW pcN, NEW total, NEW idle, NEW todo, NEW ok,
         Mid(t, pcN, total, idle, todo, ok),
         LoopTop(t, pcN, total, idle, todo, ok),
         UNCHANGED <<intrVars, added>>
  PROVE  Inv'
<1> USE DEF Place
<1>w. Working \ {t} \in SUBSET Threads /\ Idle \ {t} \in SUBSET Threads
      /\ Cardinality(Working \ {t}) \in Nat /\ Cardinality(Idle \ {t}) \in Nat
  BY Zenon, Finite DEF Working, Idle
<1>p. \A u \in Threads : u # t =>
        /\ vChecks[u] # {} <=> pcN[u] = "work"
        /\ pcN[u] = "out" <=> pc[u] = "out"
        /\ pcN[u] = "gone" <=> pc[u] = "gone"
        /\ pc[u] \in {"begin", "work", "woken"} => pcN[u] \in {"begin", "work", "woken"}
  BY Zenon DEF Mid, Inv, Ownership
<1>o. \A u \in Threads : u # t => vChecks[u] \subseteq Others(t)
  BY Zenon DEF Others, Inv, TypeOK
<1>1. CASE queue = {} /\ MayReturn(t, todo)
  <2>1. /\ t = Master /\ todo = 0 /\ queue' = {} /\ nTodo' = 0
        /\ nTotal' = total - 1 /\ nIdle' = idle /\ fAllOk' = 1
        /\ pc' = [pcN EXCEPT ![t] = "out"]
        /\ result' = IF ok = 1 THEN "true" ELSE "false"
        /\ control' = "none" /\ control = "open"
        /\ vChecks' = [vChecks EXCEPT ![t] = {}] /\ fOk' = fOk
    BY Zenon, <1>1 DEF LoopTop, MayReturn, ResetAllOk, Mid
  <2>2. Others(t) = {}
    <3>1. Others(t) \in SUBSET Check /\ Cardinality(Others(t)) = 0
      BY Zenon, <2>1 DEF Others, Mid
    <3> QED
      BY Zenon, <3>1, Finite, FS_EmptySet
  <2>3. \A u \in Threads : vChecks'[u] = {}
    BY Zenon, <2>1, <2>2, <1>o DEF Inv, TypeOK
  <2>4. Pending' = {}
    BY Zenon, <2>1, <2>3 DEF Pending
  <2>5. Working' = Working \ {t} /\ Idle' = Idle \ {t}
    BY Zenon, <2>1, CountsAfter DEF Mid
  <2>6. TypeOK'
    BY <2>1, <1>w DEF Mid, Inv, TypeOK, intrVars
  <2>7. Ownership'
    BY <2>1, <2>3, <1>p DEF Mid, Ownership
  <2>8. Counters'
    BY <2>1, <2>4, <2>5, <1>w, FS_EmptySet DEF Mid, Counters, TodoCounts
  <2>9. Phases'
    BY Zenon, <2>1, <2>4, <1>p, QueueAssumption DEF Mid, Inv, Phases, Threads
  <2>10. Verdict'
    <3>1. ok = 1 => added \subseteq passed' /\ added \cap Bad = {}
      BY Zenon, <2>1, <2>2 DEF Mid
    <3>2. ResultExact'
      BY Zenon, <2>1, <3>1 DEF Mid, ResultExact
    <3> QED
      BY Zenon, <2>1, <2>3, <2>4, <2>7, <3>2 DEF Mid, Verdict, Ownership
  <2>11. Wakeups'
    BY Zenon, <2>1, <1>p, QueueAssumption DEF Mid, Inv, Wakeups, WorkersAwake, intrVars, Threads
  <2> QED
    BY Zenon, <2>6, <2>7, <2>8, <2>9, <2>10, <2>11 DEF Inv
<1>2. CASE queue = {} /\ ~MayReturn(t, todo)
  <2>1. /\ queue' = {} /\ nTodo' = todo /\ queue' = queue
        /\ nTotal' = total /\ nIdle' = idle + 1 /\ fAllOk' = ok
        /\ pc' = [pcN EXCEPT ![t] = "wait"]
        /\ result' = result /\ control' = control
        /\ vChecks' = [vChecks EXCEPT ![t] = {}] /\ fOk' = fOk
    BY Zenon, <1>2 DEF LoopTop
  <2>3. /\ \A u \in Threads : vChecks'[u] = IF u = t THEN {} ELSE vChecks[u]
        /\ \A u \in Threads : pc'[u] = IF u = t THEN "wait" ELSE pcN[u]
    BY Zenon, <2>1 DEF Mid, Inv, TypeOK
  <2>4. Pending' = Others(t)
    BY Zenon, <2>1, <2>3 DEF Pending, Others
  <2>5. Working' = Working \ {t} /\ Cardinality(Idle') = Cardinality(Idle \ {t}) + 1
    BY Zenon, <2>1, CountsAfter DEF Mid
  <2>6. TypeOK'
    BY <2>1, <1>w DEF Mid, Inv, TypeOK, intrVars
  <2>7. Ownership'
    BY <2>1, <2>3, <1>p DEF Inv, Ownership
  <2>8. Counters'
    BY <2>1, <2>4, <2>5, <1>w DEF Mid, Counters, TodoCounts
  <2>9. Phases'
    BY Zenon, <2>1, <2>3, <2>4, <1>p, QueueAssumption DEF Mid, Inv, Phases, Threads
  <2>10. Verdict'
    <3>1. ResultExact'
      BY Zenon, <2>1 DEF Mid, ResultExact, Inv, Verdict, Phases, TypeOK
    <3> QED
      BY Zenon, <2>1, <2>3, <2>4, <1>p, <3>1 DEF Mid, Inv, Verdict, Ownership
  <2>11. Wakeups'
    BY <2>1, <2>3, <1>p DEF Inv, Wakeups, WorkersAwake, intrVars, Threads
  <2> QED
    BY Zenon, <2>6, <2>7, <2>8, <2>9, <2>10, <2>11 DEF Inv
<1>3. CASE queue # {}
  <2>1. /\ nTodo' = todo /\ nTotal' = total /\ nIdle' = idle /\ fAllOk' = ok
        /\ pc' = [pcN EXCEPT ![t] = "work"]
        /\ result' = result /\ control' = control
        /\ fOk' = [fOk EXCEPT ![t] = ok]
    BY Zenon, <1>3 DEF LoopTop
  <2>2. PICK S \in SUBSET queue : /\ Cardinality(S) = BatchSize(total, idle)
                                  /\ vChecks' = [vChecks EXCEPT ![t] = S]
                                  /\ queue' = queue \ S
    BY Zenon, <1>3 DEF LoopTop
  <2>s. S # {}
    <3>1. BatchSize(total, idle) # 0
      BY SMTT(15), BatchNotEmpty DEF Mid, Inv, TypeOK
    <3> QED BY Zenon, <2>2, <3>1, FS_EmptySet
  <2>3. /\ \A u \in Threads : vChecks'[u] = IF u = t THEN S ELSE vChecks[u]
        /\ \A u \in Threads : pc'[u] = IF u = t THEN "work" ELSE pcN[u]
        /\ \A u \in Threads : fOk'[u] = IF u = t THEN ok ELSE fOk[u]
    BY Zenon, <2>1, <2>2 DEF Mid, Inv, TypeOK
  <2>4. Pending' = Others(t)
    BY ZenonT(30), <2>2, <2>3 DEF Pending, Others
  <2>5. Cardinality(Working') = Cardinality(Working \ {t}) + 1 /\ Idle' = Idle \ {t}
    BY Zenon, <2>1, CountsAfter DEF Mid
  <2>6. TypeOK'
    BY Zenon, <2>1, <2>2, <1>w DEF Mid, Inv, TypeOK, intrVars
  <2>7. Ownership'
    BY <2>2, <2>s, <2>3, <1>p DEF Inv, Ownership
  <2>8. Counters'
    BY Zenon, <2>1, <2>4, <2>5, <1>w DEF Mid, Counters, TodoCounts
  <2>9. Phases'
    <3>1. control # "none"
      BY Zenon, <1>3 DEF Inv, Phases, Pending, TypeOK
    <3> QED
      BY Zenon, <2>1, <2>3, <1>p, <3>1, QueueAssumption DEF Mid, Inv, Phases, Threads
  <2>10. Verdict'
    <3>1. ResultExact'
      BY Zenon, <2>1, <1>3 DEF ResultExact, Inv, Phases, TypeOK, Pending
    <3>2. \A u \in Threads : pc'[u] = "work" /\ fOk'[u] = 0 => added \cap Bad # {}
      BY SMTT(15), <2>3, <1>p DEF Mid, Inv, Verdict, Ownership
    <3> QED
      BY Zenon, <2>1, <2>4, <3>1, <3>2 DEF Mid, Verdict
  <2>11. Wakeups'
    <3>1. t \in Workers => WorkersAwake'
      BY Zenon, <2>3 DEF WorkersAwake
    <3>2. t = Master => WorkersAwake'
      BY Zenon, <2>3, <1>3, <1>p, QueueAssumption DEF WorkersAwake, Inv, Wakeups, intrVars, Threads
    <3> QED
      BY Zenon, <2>3, <1>p, <3>1, <3>2 DEF Inv, Wakeups, intrVars, Threads
  <2> QED
    BY Zenon, <2>6, <2>7, <2>8, <2>9, <2>10, <2>11 DEF Inv
<1> QED
  BY Zenon, <1>1, <1>2, <1>3

-----------------------------------------------------------------------------
(* A thread that has no batch: nothing is pending because of it.           *)
LEMMA NoBatch ==
  ASSUME Inv, NEW t \in Threads, pc[t] # "work"
  PROVE  Others(t) = Pending /\ Working \ {t} = Working
BY Zenon DEF Inv, Ownership, Others, Pending, Working

(* The counters of the invariant, by themselves.                           *)
LEMMA CounterFacts ==
  ASSUME Inv
  PROVE  /\ nTotal \in Nat /\ nIdle \in Nat /\ nTodo \in Nat
         /\ nTotal - nIdle = Cardinality(Working) /\ nIdle >= Cardinality(Idle)
         /\ nTodo = Cardinality(Pending)
BY Zenon DEF Inv, TypeOK, Counters, TodoCounts

(* A thread enters Loop: it counts in nTotal.                              *)
LEMMA LoopFirstInv == ASSUME Inv, NEW t \in Threads, LoopFirst(t) PROVE Inv'
<1>1. t = Master => control = "open"
  BY Zenon DEF Inv, Phases, LoopFirst, TypeOK
<1>2. Idle \ {t} = Idle /\ Cardinality(Working) \in Nat
  BY Zenon, Finite DEF Idle, Working, LoopFirst
<1>3. Others(t) = Pending /\ Working \ {t} = Working
  BY Zenon, NoBatch DEF LoopFirst
<1>4. pc[t] = "begin" /\ passed' = passed
  BY Zenon DEF LoopFirst
<1>5. /\ nTotal + 1 \in Nat /\ nIdle \in Nat /\ nTodo \in Nat
      /\ nTotal + 1 - nIdle = Cardinality(Working \ {t}) + 1
      /\ nIdle >= Cardinality(Idle \ {t}) /\ nTodo = Cardinality(Others(t))
  <2>1. /\ nTotal \in Nat /\ nIdle \in Nat /\ nTodo \in Nat /\ Cardinality(Working) \in Nat
        /\ nTotal - nIdle = Cardinality(Working) /\ nIdle >= Cardinality(Idle)
        /\ nTodo = Cardinality(Pending)
    BY Zenon, <1>2, CounterFacts
  <2>2. nTotal + 1 \in Nat /\ nTotal + 1 - nIdle = Cardinality(Working) + 1
    BY <2>1
  <2> QED
    BY Zenon, <1>2, <1>3, <2>1, <2>2
<1>6. Mid(t, pc, nTotal + 1, nIdle, nTodo, fAllOk)
  BY <1>1, <1>3, <1>4, <1>5 DEF Mid, Place, Inv, TypeOK, Verdict, Phases
<1> QED
  BY Zenon, <1>6, LoopTopInv DEF LoopFirst

(* A thread returns from cond.wait(): it no longer counts in nIdle.        *)
LEMMA LoopWokenInv == ASSUME Inv, NEW t \in Threads, LoopWoken(t) PROVE Inv'
<1>1. t = Master => control = "open"
  BY Zenon DEF Inv, Phases, LoopWoken, TypeOK
<1>2. Cardinality(Idle \ {t}) = Cardinality(Idle) - 1
  BY Zenon, OneLess DEF Idle, LoopWoken
<1>3. Cardinality(Working) \in Nat /\ Cardinality(Idle \ {t}) \in Nat /\ Cardinality(Idle) \in Nat
  BY Zenon, Finite DEF Idle, Working
<1>4. Others(t) = Pending /\ Working \ {t} = Working
  BY Zenon, NoBatch DEF LoopWoken
<1>5. pc[t] = "woken" /\ passed' = passed
  BY Zenon DEF LoopWoken
<1>6. /\ nTotal \in Nat /\ nIdle - 1 \in Nat /\ nTodo \in Nat
      /\ nTotal - (nIdle - 1) = Cardinality(Working \ {t}) + 1
      /\ nIdle - 1 >= Cardinality(Idle \ {t}) /\ nTodo = Cardinality(Others(t))
  BY <1>2, <1>3, <1>4, CounterFacts
<1>7. Mid(t, pc, nTotal, nIdle - 1, nTodo, fAllOk)
  BY Zenon, <1>1, <1>4, <1>5, <1>6 DEF Mid, Place, Inv, TypeOK, Verdict, Phases
<1> QED
  BY Zenon, <1>7, LoopTopInv DEF LoopWoken

(* A thread has executed its batch and adds its result to fAllOk and nTodo. *)
LEMMA LoopAgainInv == ASSUME Inv, NEW t \in Threads, LoopAgain(t) PROVE Inv'
<1> DEFINE todo == TodoAfter(t)
           pcN == Woken(NotifyMaster(t, todo))
<1>1. control = "open"
  BY Zenon DEF Inv, Phases, Ownership, Pending, LoopAgain, TypeOK
<1>2. vChecks[t] \in SUBSET Pending /\ Pending \in SUBSET Check /\ Others(t) = Pending \ vChecks[t]
  BY Zenon DEF Inv, TypeOK, Ownership, Pending, Others
<1>3. todo = Cardinality(Others(t)) /\ todo \in Nat
  BY Zenon, <1>2, Subtract, Finite DEF TodoAfter, Inv, Counters, TodoCounts
<1>4. Working \ {t} \in SUBSET Threads /\ Cardinality(Working \ {t}) = Cardinality(Working) - 1
  BY Zenon, OneLess DEF Working, LoopAgain
<1>5. Idle \ {t} = Idle /\ Cardinality(Working) \in Nat /\ Cardinality(Working \ {t}) \in Nat
  BY Zenon, <1>4, Finite DEF Idle, Working, LoopAgain
<1>6. /\ pcN \in [Threads -> Place]
      /\ \A u \in Threads : pcN[u] = pc[u] \/ (pc[u] = "wait" /\ pcN[u] = "woken")
  BY Zenon DEF Woken, Inv, TypeOK, Place
<1>7. Executed(t) \in {0, 1} /\ AllOk(t) \in {0, 1}
  BY Zenon DEF Executed, AllOk
<1>8. Executed(t) = 1 => passed' = passed \cup vChecks[t] /\ vChecks[t] \cap Bad = {}
  BY DEF LoopAgain, Executed
<1>9. /\ passed' \subseteq added /\ passed' \subseteq Check /\ passed \subseteq passed'
      /\ Others(t) \subseteq added
  BY Zenon, <1>2 DEF LoopAgain, Inv, Verdict, TypeOK
<1>10. AllOk(t) = 1 => added \ Others(t) \subseteq passed' /\ (added \ Others(t)) \cap Bad = {}
  BY <1>1, <1>2, <1>7, <1>8, <1>9 DEF AllOk, Inv, Verdict
<1>11. AllOk(t) = 0 => added \cap Bad # {}
  <2>1. Executed(t) = 0 => fOk[t] = 0 \/ vChecks[t] \cap Bad # {}
    BY Zenon DEF Executed, Inv, TypeOK
  <2>2. AllOk(t) = 0 => fAllOk = 0 \/ Executed(t) = 0
    BY Zenon, <1>7 DEF AllOk, Inv, TypeOK
  <2> QED
    BY Zenon, <2>1, <2>2, <1>2 DEF Inv, Verdict, LoopAgain
<1>12. Mid(t, pcN, nTotal, nIdle, todo, AllOk(t))
  <2>1. /\ nTotal \in Nat /\ nIdle \in Nat
        /\ nTotal - nIdle = Cardinality(Working \ {t}) + 1
        /\ nIdle >= Cardinality(Idle \ {t})
    BY <1>4, <1>5, CounterFacts
  <2>2. pc[t] = "work"
    BY Zenon DEF LoopAgain
  <2> HIDE DEF todo, pcN
  <2> QED
    BY Zenon, <1>1, <1>3, <1>6, <1>7, <1>9, <1>10, <1>11, <2>1, <2>2 DEF Mid
<1> QED
  BY Zenon, <1>12, LoopTopInv DEF LoopAgain

-----------------------------------------------------------------------------
(* A new control is made for the next block.                               *)
LEMMA NewControlInv == Inv /\ NewControl => Inv'
<1> SUFFICES ASSUME Inv, NewControl PROVE Inv'
  BY Zenon
<1>1. Pending' = Pending /\ Working' = Working /\ Idle' = Idle /\ Pending = {}
  BY Zenon DEF NewControl, Pending, Working, Idle, memberVars, localVars, Inv, Phases
<1>2. \A t \in Threads : pc[t] # "work"
  BY Zenon, <1>1 DEF Inv, Ownership, Pending, TypeOK
<1> QED
  BY <1>1, <1>2
     DEF NewControl, Inv, TypeOK, Ownership, Counters, TodoCounts, Phases, Verdict, ResultExact,
         Wakeups, WorkersAwake, memberVars, localVars, intrVars

(* The master adds checks and notifies the workers.                        *)
LEMMA AddInv == ASSUME Inv, NEW S \in SUBSET (Check \ added), S # {}, Add(S) PROVE Inv'
<1>1. PICK N \in Notified(S) : pc' = Woken(N)
  BY Zenon DEF Add
<1>2. N \subseteq Workers /\ ((\E w \in Workers : pc[w] = "wait") => \E w \in N : pc[w] = "wait")
  BY Zenon, <1>1 DEF Notified
<1>3. /\ \A u \in Threads : pc'[u] = pc[u] \/ (pc[u] = "wait" /\ pc'[u] = "woken")
      /\ \A w \in N : pc[w] = "wait" => pc'[w] = "woken"
      /\ pc' \in [Threads -> Place]
  BY Zenon, <1>1, <1>2 DEF Woken, Inv, TypeOK, Place, Threads
<1>4. Working' = Working /\ Idle' = Idle
  BY Zenon, <1>3 DEF Working, Idle
<1>5. Pending' = Pending \cup S /\ Pending \cap S = {}
  BY Zenon DEF Add, Pending, localVars, Inv, Verdict
<1>6. nTodo' = Cardinality(Pending') /\ nTodo' \in Nat
  <2>1. Pending \in SUBSET Check /\ Pending \cup S \in SUBSET Check /\ S \in SUBSET Check
    BY Zenon DEF Pending
  <2>2. (Pending \cup S) \ S = Pending
    BY Zenon, <1>5
  <2>3. Cardinality(Pending) = Cardinality(Pending \cup S) - Cardinality(S)
    BY Zenon, <2>1, <2>2, Subtract
  <2> QED
    BY <1>5, <2>1, <2>3, Finite DEF Add, Inv, Counters, TodoCounts
<1>7. Ownership'
  <2>1. \A t \in Threads : vChecks[t] \subseteq added
    BY Zenon DEF Inv, Verdict, Pending, TypeOK
  <2> QED
    BY Zenon, <1>3, <2>1 DEF Inv, Ownership, Add, localVars
<1>8. WorkersAwake'
  <2>1. CASE \E w \in Workers : pc[w] = "wait"
    BY Zenon, <2>1, <1>2, <1>3 DEF WorkersAwake
  <2>2. CASE \A w \in Workers : pc[w] # "wait"
    BY <2>2, <1>3 DEF WorkersAwake, Inv, Phases, Wakeups, TypeOK, Add, intrVars, Threads
  <2> QED
    BY Zenon, <2>1, <2>2
<1>9. TypeOK'
  BY Zenon, <1>3, <1>6 DEF Inv, TypeOK, Add, localVars, intrVars, Place
<1>10. Counters'
  BY Zenon, <1>4, <1>6 DEF Inv, Counters, TodoCounts, Add
<1>11. Phases'
  BY Zenon, <1>3 DEF Inv, Phases, Add, Threads
<1>12. Verdict'
  <2>1. ResultExact'
    BY Zenon DEF Add, Inv, Phases, ResultExact, TypeOK
  <2>2. \A t \in Threads : pc'[t] = "work" /\ fOk'[t] = 0 => added' \cap Bad # {}
    BY Zenon, <1>3 DEF Inv, Verdict, Add, localVars
  <2> QED
    BY Zenon, <1>5, <2>1, <2>2 DEF Inv, Verdict, Add
<1>13. Wakeups'
  BY Zenon, <1>3, <1>8 DEF Inv, Wakeups, Add, intrVars, Threads
<1> QED
  BY Zenon, <1>7, <1>9, <1>10, <1>11, <1>12, <1>13 DEF Inv

(* The master enters Wait().                                               *)
LEMMA WaitInv == Inv /\ Wait => Inv'
<1> SUFFICES ASSUME Inv, Wait PROVE Inv'
  BY Zenon
<1>1. \A u \in Threads : pc'[u] = IF u = Master THEN "begin" ELSE pc[u]
  BY Zenon DEF Wait, Inv, TypeOK
<1>2. pc[Master] = "out" /\ Master \in Threads
  BY Zenon DEF Wait, Threads
<1>3. Pending' = Pending /\ Working' = Working /\ Idle' = Idle
  BY <1>1, <1>2 DEF Wait, memberVars, localVars, Pending, Working, Idle
<1>4. TypeOK' /\ Ownership' /\ Counters'
  BY Zenon, <1>1, <1>2, <1>3
     DEF Wait, Inv, TypeOK, Ownership, Counters, TodoCounts, memberVars, localVars, intrVars, histVars
<1>5. Phases' /\ Verdict'
  BY Zenon, <1>1, <1>2, <1>3, QueueAssumption
     DEF Wait, Inv, TypeOK, Phases, Verdict, ResultExact, memberVars, localVars, histVars, Threads
<1>6. Wakeups'
  BY Zenon, <1>1, QueueAssumption DEF Wait, Inv, Wakeups, WorkersAwake, memberVars, intrVars, Threads
<1> QED
  BY Zenon, <1>4, <1>5, <1>6 DEF Inv

(* A thread leaves cond.wait() or is thrown out of it.                     *)
LEMMA SpuriousWakeupInv == ASSUME Inv, NEW t \in Threads, SpuriousWakeup(t) PROVE Inv'
<1>1. pc[t] = "wait" /\ \A u \in Threads : pc'[u] = IF u = t THEN "woken" ELSE pc[u]
  BY Zenon DEF SpuriousWakeup, Inv, TypeOK
<1>2. Pending' = Pending /\ Working' = Working /\ Idle' = Idle
  BY <1>1 DEF SpuriousWakeup, memberVars, localVars, Pending, Working, Idle
<1>3. TypeOK' /\ Ownership' /\ Counters'
  BY Zenon, <1>1, <1>2
     DEF SpuriousWakeup, Inv, TypeOK, Ownership, Counters, TodoCounts, memberVars, localVars,
         intrVars, histVars
<1>4. Phases' /\ Verdict'
  BY Zenon, <1>1, <1>2, QueueAssumption
     DEF SpuriousWakeup, Inv, TypeOK, Phases, Verdict, ResultExact, memberVars, localVars,
         histVars, Threads
<1>5. Wakeups'
  BY <1>1, QueueAssumption
     DEF SpuriousWakeup, Inv, Wakeups, WorkersAwake, memberVars, intrVars, Threads
<1> QED
  BY Zenon, <1>3, <1>4, <1>5 DEF Inv

(* The threads of the thread group are interrupted.                        *)
LEMMA InterruptAllInv == Inv /\ InterruptAll => Inv'
<1> SUFFICES ASSUME Inv, InterruptAll PROVE Inv'
  BY Zenon
<1>1. Pending' = Pending /\ Working' = Working /\ Idle' = Idle
  BY Zenon DEF InterruptAll, memberVars, localVars, Pending, Working, Idle
<1> QED
  BY Zenon, <1>1, QueueAssumption
     DEF InterruptAll, Inv, TypeOK, Ownership, Counters, TodoCounts, Phases, Verdict, ResultExact,
         Wakeups, WorkersAwake, memberVars, localVars, histVars

(* An interrupted thread leaves cond.wait() by an exception.               *)
LEMMA WaitInterruptedInv == ASSUME Inv, NEW t \in Threads, WaitInterrupted(t) PROVE Inv'
<1> DEFINE p == IF t = Master THEN "begin" ELSE "gone"
<1>1. /\ pc[t] \in {"wait", "woken"}
      /\ \A u \in Threads : pc'[u] = IF u = t THEN p ELSE pc[u]
      /\ asked # {} /\ asked' = asked
  BY Zenon DEF WaitInterrupted, Inv, TypeOK, Wakeups
<1>2. Pending' = Pending /\ Working' = Working /\ Idle' = Idle \ {t}
  BY <1>1 DEF WaitInterrupted, memberVars, localVars, Pending, Working, Idle
<1>3. Counters'
  <2>1. Cardinality(Idle \ {t}) = Cardinality(Idle) - 1
    BY Zenon, <1>1, OneLess DEF Idle
  <2>2. Cardinality(Idle \ {t}) \in Nat /\ Cardinality(Idle) \in Nat
    BY Zenon, Finite DEF Idle
  <2>3. nIdle >= Cardinality(Idle \ {t})
    BY <2>1, <2>2, CounterFacts
  <2> QED
    BY Zenon, <1>2, <2>3 DEF Inv, Counters, TodoCounts, WaitInterrupted, memberVars
<1>4. TypeOK' /\ Ownership'
  BY Zenon, <1>1 DEF WaitInterrupted, Inv, TypeOK, Ownership, memberVars, localVars, histVars
<1>5. Phases' /\ Verdict'
  BY Zenon, <1>1, <1>2, QueueAssumption
     DEF WaitInterrupted, Inv, TypeOK, Phases, Verdict, ResultExact, memberVars, localVars,
         histVars, Threads
<1>6. Wakeups'
  BY Zenon, <1>1, QueueAssumption
     DEF WaitInterrupted, Inv, Wakeups, WorkersAwake, memberVars, Threads
<1> QED
  BY Zenon, <1>3, <1>4, <1>5, <1>6 DEF Inv

-----------------------------------------------------------------------------
(* A new queue satisfies the invariant.                                    *)
LEMMA InitInv == Init => Inv
<1> SUFFICES ASSUME Init PROVE Inv
  BY Zenon
<1>1. Pending = {} /\ Working = {} /\ Idle = {}
  BY Zenon DEF Init, Pending, Working, Idle
<1>2. Cardinality({}) = 0
  BY Zenon, FS_EmptySet
<1>3. Counters
  BY <1>1, <1>2 DEF Init, Counters, TodoCounts
<1>4. Master \in Threads /\ Workers \subseteq Threads
  BY Zenon DEF Threads
<1> QED
  BY <1>1, <1>3, <1>4, QueueAssumption
     DEF Init, Inv, TypeOK, Ownership, Phases, Verdict, ResultExact, Wakeups, WorkersAwake

(* A step that changes nothing keeps the invariant.                        *)
LEMMA StutterInv == Inv /\ UNCHANGED vars => Inv'
<1> SUFFICES ASSUME Inv, UNCHANGED vars PROVE Inv'
  BY Zenon
<1>1. Pending' = Pending /\ Working' = Working /\ Idle' = Idle
  BY Zenon DEF vars, memberVars, localVars, Pending, Working, Idle
<1> QED
  BY Zenon, <1>1
     DEF vars, Inv, TypeOK, Ownership, Counters, TodoCounts, Phases, Verdict, ResultExact,
         Wakeups, WorkersAwake, memberVars, localVars, intrVars, histVars

(* Every step keeps the invariant.                                         *)
LEMMA NextInv == Inv /\ [Next]_vars => Inv'
<1> SUFFICES ASSUME Inv, [Next]_vars PROVE Inv'
  BY Zenon
<1>1. ASSUME NEW t \in Threads, Loop(t) PROVE Inv'
  BY Zenon, <1>1, LoopFirstInv, LoopWokenInv, LoopAgainInv, WaitInterruptedInv DEF Loop
<1>2. ASSUME NEW S \in SUBSET (Check \ added), S # {}, Add(S) PROVE Inv'
  BY Zenon, <1>2, AddInv
<1> QED
  BY Zenon, <1>1, <1>2, NewControlInv, WaitInv, InterruptAllInv, SpuriousWakeupInv, StutterInv DEF Next

(* The invariant of the queue holds for every number of workers and checks *)
(* and every batch size.                                                   *)
THEOREM Invariance == Spec => []Inv
BY InitInv, NextInv, PTL DEF Spec

(* Type correctness.                                                       *)
THEOREM TypeCorrect == Spec => []TypeOK
<1>1. Inv => TypeOK
  BY Zenon DEF Inv
<1> QED
  BY <1>1, Invariance, PTL

(* The assertion in the constructor of CCheckQueueControl never fails: the *)
(* queue is idle whenever no control exists.                               *)
THEOREM AssertedIdle == Spec => []IdleBetweenBlocks
<1>1. ASSUME Inv, control = "none" PROVE IsIdle
  <2>1. Pending = {} /\ fAllOk = 1
    BY Zenon, <1>1 DEF Inv, Phases
  <2>2. Working = {}
    BY <1>1, <2>1 DEF Inv, Ownership, Working, Pending, TypeOK
  <2>3. nTodo = 0 /\ nTotal - nIdle = 0
    BY Zenon, <1>1, <2>1, <2>2, FS_EmptySet, CounterFacts
  <2> QED
    BY <1>1, <2>1, <2>3, CounterFacts DEF IsIdle
<1> QED
  BY <1>1, Invariance, PTL DEF IdleBetweenBlocks

(* When Wait() has returned no check is queued or running.                 *)
THEOREM QueueFinished == Spec => []FinishedBetweenBlocks
<1>1. Inv => FinishedBetweenBlocks
  BY Zenon DEF Inv, Phases, FinishedBetweenBlocks
<1> QED
  BY <1>1, Invariance, PTL

(* What Wait() returns is the conjunction of the checks of this block.     *)
THEOREM ResultCorrect == Spec => []ResultExact
<1>1. Inv => ResultExact
  BY Zenon DEF Inv, Verdict
<1> QED
  BY <1>1, Invariance, PTL

(* nTodo is the number of checks that are not done.                        *)
THEOREM TodoCorrect == Spec => []TodoCounts
<1>1. Inv => TodoCounts
  BY Zenon DEF Inv, Counters
<1> QED
  BY <1>1, Invariance, PTL

(* No wakeup of the workers is lost.                                       *)
THEOREM NoLostWakeup == Spec => []WorkersAwake
<1>1. Inv => WorkersAwake
  BY Zenon DEF Inv, Wakeups
<1> QED
  BY <1>1, Invariance, PTL
=============================================================================
