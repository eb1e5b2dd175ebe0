----------------------------- MODULE CheckQueue -----------------------------
(***************************************************************************)
(* CCheckQueue and CCheckQueueControl (checkqueue.h): ConnectBlock, the    *)
(* master, hands script checks to a pool of worker threads and joins them  *)
(* in Wait() until every check is done.                                    *)
(*                                                                         *)
(* Every critical section of the mutex is one action; cond.wait() ends one *)
(* and a notification, a spurious wakeup or an interruption starts the     *)
(* next.  At shutdown the threads of the thread group (workers, and the    *)
(* import thread when it is the master) are interrupted: boost throws out  *)
(* of cond.wait(), and the destructor of the control calls Wait() again.   *)
(*                                                                         *)
(* A check is an identifier; Bad are the checks that return false.  The    *)
(* order in which the queue hands checks out is left open.  fQuit is never *)
(* set by the code.                                                        *)
(***************************************************************************)
EXTENDS Integers, FiniteSets, FiniteSetsExt

CONSTANTS
  Workers, Master,
  Interruptible,      \* the threads that belong to the thread group
  Check, Bad,
  nBatchSize

Threads == Workers \cup {Master}

ASSUME QueueAssumption ==
  /\ IsFiniteSet(Workers) /\ Master \notin Workers
  /\ Interruptible \subseteq Threads
  /\ IsFiniteSet(Check) /\ Bad \subseteq Check
  /\ nBatchSize \in Nat \ {0}

VARIABLES
  queue, nIdle, nTotal, fAllOk, nTodo,   \* members of CCheckQueue; fAllOk is 0 or 1
  pc,             \* where each thread is
  vChecks, fOk,   \* local variables of Loop
  control,        \* "none", or "open" while a CCheckQueueControl exists
  interrupted,    \* threads with an interruption that is not yet delivered
  asked,          \* history: threads that were ever interrupted
  added, passed,  \* history: checks given to Add, and those that ran and returned true
  result          \* what the last Wait() returned, or "none"

memberVars == <<queue, nIdle, nTotal, fAllOk, nTodo>>
localVars  == <<vChecks, fOk>>
histVars   == <<added, passed, result>>
intrVars   == <<interrupted, asked>>
vars == <<memberVars, pc, localVars, control, intrVars, histVars>>

Init ==
  /\ queue = {} /\ nIdle = 0 /\ nTotal = 0 /\ fAllOk = 1 /\ nTodo = 0
  /\ pc = [t \in Threads |-> IF t = Master THEN "out" ELSE "begin"]
  /\ vChecks = [t \in Threads |-> {}] /\ fOk = [t \in Threads |-> 1]
  /\ control = "none"
  /\ interrupted = {} /\ asked = {}
  /\ added = {} /\ passed = {} /\ result = "none"

-----------------------------------------------------------------------------
(* The threads among S that wait on their condition variable are woken.    *)
Woken(S) == [t \in Threads |-> IF t \in S /\ pc[t] = "wait" THEN "woken" ELSE pc[t]]

(* CCheckQueue::IsIdle, which CCheckQueueControl asserts.                  *)
IsIdle == nTotal = nIdle /\ nTodo = 0 /\ fAllOk = 1

(* CCheckQueueControl::CCheckQueueControl.                                 *)
NewControl ==
  /\ control = "none"
  /\ control' = "open"
  /\ added' = {} /\ passed' = {} /\ result' = "none"
  /\ UNCHANGED <<memberVars, pc, localVars, intrVars>>

(* Mutant: nobody is told.                                                 *)
NotifiedNone(S) == {{}}

(* The threads Add may notify: one of those waiting for one check, all of  *)
(* them for more.                                                          *)
Notified(S) ==
  LET waiting == {w \in Workers : pc[w] = "wait"} IN
  IF Cardinality(S) = 1 /\ waiting # {} THEN {{w} : w \in waiting} ELSE {waiting}

(* CCheckQueue::Add.                                                       *)
Add(S) ==
  /\ control = "open" /\ pc[Master] = "out"
  /\ queue' = queue \cup S
  /\ nTodo' = nTodo + Cardinality(S)
  /\ added' = added \cup S
  /\ \E N \in Notified(S) : pc' = Woken(N)
  /\ UNCHANGED <<nIdle, nTotal, fAllOk, localVars, control, intrVars, passed, result>>

(* Wait(), called by ConnectBlock or by the destructor of the control when *)
(* ConnectBlock returns early.                                             *)
Wait ==
  /\ control = "open" /\ pc[Master] = "out"
  /\ pc' = [pc EXCEPT ![Master] = "begin"]
  /\ UNCHANGED <<memberVars, localVars, control, intrVars, histVars>>

-----------------------------------------------------------------------------
(* The loop ends: only for the master, since fQuit is never set.           *)
MayReturn(t, todo) == t = Master /\ todo = 0

(* "Decide how many work units to process now."                            *)
BatchSize(total, idle) ==
  Max({1, Min({nBatchSize, Cardinality(queue) \div (total + idle + 1)})})

(* Mutant: the failure of this block is left for the next.                 *)
ResetAllOkNever(ok) == ok

(* "reset the status for new work later"                                   *)
ResetAllOk(ok) == 1

(* The critical section from "logically, the do loop starts here": thread  *)
(* t returns, waits or takes a batch.  total, idle, todo and ok are the    *)
(* values the clean-up before it left; pcN is pc after its notification.   *)
LoopTop(t, pcN, total, idle, todo, ok) ==
  /\ nTodo' = todo
  /\ \/ /\ queue = {} /\ MayReturn(t, todo)
        /\ nTotal' = total - 1 /\ nIdle' = idle
        /\ fAllOk' = ResetAllOk(ok)
        /\ pc' = [pcN EXCEPT ![t] = "out"]
        /\ result' = IF ok = 1 THEN "true" ELSE "false"
        /\ control' = "none"
        /\ vChecks' = [vChecks EXCEPT ![t] = {}]
        /\ UNCHANGED <<queue, fOk>>
     \/ /\ queue = {} /\ ~MayReturn(t, todo)
        /\ nTotal' = total /\ nIdle' = idle + 1
        /\ fAllOk' = ok
        /\ pc' = [pcN EXCEPT ![t] = "wait"]
        /\ vChecks' = [vChecks EXCEPT ![t] = {}]
        /\ UNCHANGED <<queue, fOk, result, control>>
     \/ /\ queue # {}
        /\ nTotal' = total /\ nIdle' = idle
        /\ fAllOk' = ok
        /\ \E S \in SUBSET queue :
             /\ Cardinality(S) = BatchSize(total, idle)
             /\ vChecks' = [vChecks EXCEPT ![t] = S]
             /\ queue' = queue \ S
        /\ fOk' = [fOk EXCEPT ![t] = ok]
        /\ pc' = [pcN EXCEPT ![t] = "work"]
        /\ UNCHANGED <<result, control>>

(* The first iteration.                                                    *)
LoopFirst(t) ==
  /\ pc[t] = "begin"
  /\ LoopTop(t, pc, nTotal + 1, nIdle, nTodo, fAllOk)
  /\ UNCHANGED <<intrVars, added, passed>>

(* cond.wait() returns.                                                    *)
LoopWoken(t) ==
  /\ pc[t] = "woken"
  /\ LoopTop(t, pc, nTotal, nIdle - 1, nTodo, fAllOk)
  /\ UNCHANGED <<intrVars, added, passed>>

(* What is left of fOk after the batch was executed: nothing runs after a  *)
(* failure.                                                                *)
Executed(t) == IF fOk[t] = 1 /\ vChecks[t] \cap Bad = {} THEN 1 ELSE 0

(* Mutant: the last batch decides.                                         *)
AllOkOfBatch(t) == Executed(t)

(* fAllOk &= fOk                                                           *)
AllOk(t) == IF fAllOk = 1 /\ Executed(t) = 1 THEN 1 ELSE 0

(* Mutant: one check is counted.                                           *)
TodoLessOne(t) == nTodo - 1

(* nTodo -= nNow                                                           *)
TodoAfter(t) == nTodo - Cardinality(vChecks[t])

(* Mutant: the master is not told.                                         *)
NotifyNobody(t, todo) == {}

(* "We processed the last element; inform the master"                      *)
NotifyMaster(t, todo) == IF todo = 0 /\ t # Master THEN {Master} ELSE {}

(* The batch was executed: clean up, then the next iteration.              *)
LoopAgain(t) ==
  /\ pc[t] = "work"
  /\ passed' = IF Executed(t) = 1 THEN passed \cup vChecks[t] ELSE passed
  /\ LoopTop(t, Woken(NotifyMaster(t, TodoAfter(t))), nTotal, nIdle, TodoAfter(t), AllOk(t))
  /\ UNCHANGED <<intrVars, added>>

(* A condition variable may return without a notification.                 *)
SpuriousWakeup(t) ==
  /\ pc[t] = "wait"
  /\ pc' = [pc EXCEPT ![t] = "woken"]
  /\ UNCHANGED <<memberVars, localVars, control, intrVars, histVars>>

(* Interrupt(): threadGroup.interrupt_all().                               *)
InterruptAll ==
  /\ asked = {} /\ Interruptible # {}
  /\ asked' = Interruptible /\ interrupted' = Interruptible
  /\ UNCHANGED <<memberVars, pc, localVars, control, histVars>>

(* cond.wait() throws thread_interrupted: nIdle and nTotal keep counting   *)
(* the thread.  A worker ends; the master unwinds to the destructor of its *)
(* control, which waits again.                                             *)
WaitInterrupted(t) ==
  /\ pc[t] \in {"wait", "woken"} /\ t \in interrupted
  /\ interrupted' = interrupted \ {t}
  /\ pc' = [pc EXCEPT ![t] = IF t = Master THEN "begin" ELSE "gone"]
  /\ UNCHANGED <<memberVars, localVars, control, asked, histVars>>

Loop(t) == LoopFirst(t) \/ LoopWoken(t) \/ LoopAgain(t) \/ WaitInterrupted(t)

Next ==
  \/ NewControl \/ Wait \/ InterruptAll
  \/ \E S \in SUBSET (Check \ added) : S # {} /\ Add(S)
  \/ \E t \in Threads : Loop(t) \/ SpuriousWakeup(t)

Spec == Init /\ [][Next]_vars

(* Every thread that can run does, and a check returns.                    *)
FairSpec == Spec /\ \A t \in Threads : WF_vars(Loop(t))

-----------------------------------------------------------------------------
TypeOK ==
  /\ queue \subseteq Check
  /\ nIdle \in Nat /\ nTotal \in Nat /\ nTodo \in Nat
  /\ fAllOk \in {0, 1}
  /\ pc \in [Threads -> {"out", "begin", "work", "wait", "woken", "gone"}]
  /\ vChecks \in [Threads -> SUBSET Check] /\ fOk \in [Threads -> {0, 1}]
  /\ control \in {"none", "open"}
  /\ interrupted \subseteq Threads /\ asked \subseteq Threads
  /\ added \subseteq Check /\ passed \subseteq Check
  /\ result \in {"none", "true", "false"}

(* The checks that were added and whose batch is not done.                 *)
Pending == {c \in Check : c \in queue \/ \E t \in Threads : c \in vChecks[t]}

(* "Number of verifications that haven't completed yet.  This includes     *)
(* elements that are no longer queued, but still in the worker's own       *)
(* batches."                                                               *)
TodoCounts == nTodo = Cardinality(Pending)

(* The assertion of CCheckQueueControl: whoever makes the next control     *)
(* finds the queue idle, after failed blocks and interruptions too.        *)
IdleBetweenBlocks == control = "none" => IsIdle

(* "guarantees the passed queue is finished before continuing": once       *)
(* Wait() has returned no check is queued or running any more.             *)
FinishedBetweenBlocks == control = "none" => Pending = {}

(* Wait() returns true only if every check added was run and returned      *)
(* true, and false only if one of them returned false: no result is lost,  *)
(* and none leaks from one block into the next.                            *)
ResultExact ==
  /\ result = "true" => passed = added /\ added \cap Bad = {}
  /\ result = "false" => added \cap Bad # {}

(* No wakeup is lost: while checks are queued the workers are not all      *)
(* asleep, before any of them is interrupted.                              *)
WorkersAwake ==
  queue # {} /\ asked = {} /\ Workers # {} =>
    \E w \in Workers : pc[w] \in {"begin", "work", "woken"}

(* The threads that execute a batch, and those in cond.wait().             *)
Working == {t \in Threads : pc[t] = "work"}
Idle == {t \in Threads : pc[t] \in {"wait", "woken"}}

(* The inductive invariant.  A thread has a batch exactly while it works,  *)
(* and batches and queue share no check.                                   *)
Ownership ==
  /\ \A t \in Threads : pc[t] = "work" <=> vChecks[t] # {}
  /\ \A t \in Threads : vChecks[t] \cap queue = {}
  /\ \A t, u \in Threads : t # u => vChecks[t] \cap vChecks[u] = {}

(* The counters count what they should; the threads that were interrupted  *)
(* stay in both nTotal and nIdle.                                          *)
Counters ==
  /\ TodoCounts
  /\ nTotal - nIdle = Cardinality(Working)
  /\ nIdle >= Cardinality(Idle)

Phases ==
  /\ \A w \in Workers : pc[w] # "out"
  /\ pc[Master] # "gone"
  /\ control = "none" => pc[Master] = "out" /\ Pending = {} /\ fAllOk = 1
  /\ result # "none" => control = "none"

(* What is not pending has passed, unless fAllOk or the fOk of a thread    *)
(* says that some check failed.                                            *)
Verdict ==
  /\ Pending \subseteq added /\ passed \subseteq added
  /\ control = "open" /\ fAllOk = 1 =>
       added \ Pending \subseteq passed /\ (added \ Pending) \cap Bad = {}
  /\ fAllOk = 0 => added \cap Bad # {}
  /\ \A t \in Threads : pc[t] = "work" /\ fOk[t] = 0 => added \cap Bad # {}
  /\ ResultExact

Wakeups ==
  /\ interrupted \subseteq asked
  /\ \A w \in Workers : pc[w] = "gone" => asked # {}
  /\ WorkersAwake

Inv == TypeOK /\ Ownership /\ Counters /\ Phases /\ Verdict /\ Wakeups

(* Wait() returns, also when the workers are gone.                         *)
WaitReturns == pc[Master] # "out" ~> pc[Master] = "out"

=============================================================================
