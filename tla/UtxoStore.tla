----------------------------- MODULE UtxoStore -----------------------------
(***************************************************************************)
(* What the stack of coins views promises to its callers: three plain maps *)
(* from txid to coins, each with the block it stands for.  `durable' is    *)
(* the chainstate database, `current' the view every lookup of the node    *)
(* goes through (pcoinsTip), `scratch' the view a block is tried on.  No   *)
(* cache, no flag: CoinsCache is shown to implement this module.           *)
(***************************************************************************)
EXTENDS Naturals

CONSTANTS Txid, Coins, Pruned, MaxBest

VARIABLES durable, durableBest, current, currentBest,
          scratch, scratchBest, scratchPhase

storeVars == <<durable, durableBest, current, currentBest,
               scratch, scratchBest, scratchPhase>>

Empty == [t \in Txid |-> Pruned]

StoreInit ==
  /\ durable = Empty /\ durableBest = 0
  /\ current = Empty /\ currentBest = 0
  /\ scratch = Empty /\ scratchBest = 0
  /\ scratchPhase = "closed"

(* A block is tried on a copy of the current state. *)
Open ==
  /\ scratchPhase = "closed"
  /\ scratchPhase' = "open"
  /\ scratch' = current /\ scratchBest' = currentBest
  /\ UNCHANGED <<durable, durableBest, current, currentBest>>

(* The coins of one transaction change, in the copy only. *)
Write ==
  /\ scratchPhase = "open"
  /\ \E t \in Txid, c \in Coins : scratch' = [scratch EXCEPT ![t] = c]
  /\ UNCHANGED <<durable, durableBest, current, currentBest, scratchBest, scratchPhase>>

(* The copy now stands for another block. *)
Seal ==
  /\ scratchPhase = "open"
  /\ scratchPhase' = "sealed"
  /\ scratchBest' \in 1 .. MaxBest
  /\ UNCHANGED <<durable, durableBest, current, currentBest, scratch>>

(* All of the copy becomes current, or none of it. *)
Commit ==
  /\ scratchPhase = "sealed"
  /\ scratchPhase' = "closed"
  /\ current' = scratch /\ currentBest' = scratchBest
  /\ UNCHANGED <<durable, durableBest, scratch, scratchBest>>

Abandon ==
  /\ scratchPhase # "closed"
  /\ scratchPhase' = "closed"
  /\ scratch' = current /\ scratchBest' = scratchBest
  /\ UNCHANGED <<durable, durableBest, current, currentBest>>

(* All of the current state becomes durable at once. *)
Persist ==
  /\ scratchPhase = "closed"
  /\ durable' = current /\ durableBest' = currentBest
  /\ UNCHANGED <<current, currentBest, scratch, scratchBest, scratchPhase>>

(* A restart falls back to the durable state. *)
Restart ==
  /\ current' = durable /\ currentBest' = durableBest
  /\ scratch' = durable /\ scratchPhase' = "closed"
  /\ UNCHANGED <<durable, durableBest, scratchBest>>

(* A write of the database failed: what was not durable is lost, while the current view
   goes on naming its block. *)
Lose ==
  /\ scratchPhase = "closed"
  /\ current' = durable /\ scratch' = durable
  /\ UNCHANGED <<durable, durableBest, currentBest, scratchBest, scratchPhase>>

StoreNext ==
  Open \/ Write \/ Seal \/ Commit \/ Abandon \/ Persist \/ Restart \/ Lose

StoreSpec == StoreInit /\ [][StoreNext]_storeVars
=============================================================================
