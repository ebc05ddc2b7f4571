----------------------------- MODULE ChunkBatch -----------------------------
(***************************************************************************)
(* What the fan-out of a stage promises, whatever the queue does with its  *)
(* jobs: batches are opened one after the other, only the newest collects, *)
(* each of its chunks lands once, it is whole from the step in which its   *)
(* last chunk lands, and the stage is passed only if some batch is whole.  *)
(***************************************************************************)
EXTENDS Naturals

CONSTANTS
  Chunk,      \* the chunks of a batch
  MaxBatches  \* bound: batches

VARIABLES
  newest,  \* the batch that collects; 0 before the first
  landed,  \* the chunks each batch has collected
  whole,   \* the batches that are complete
  passed   \* the stage stands at its gate

batchVars == <<newest, landed, whole, passed>>

Batch == 1..MaxBatches

BatchInit ==
  /\ newest = 0
  /\ landed = [b \in Batch |-> {}]
  /\ whole = {}
  /\ passed = FALSE

Open ==
  /\ newest + 1 \in Batch
  /\ newest' = newest + 1
  /\ UNCHANGED <<landed, whole, passed>>

Land(c) ==
  /\ newest \in Batch
  /\ c \notin landed[newest]
  /\ landed' = [landed EXCEPT ![newest] = @ \cup {c}]
  /\ whole' = IF landed'[newest] = Chunk THEN whole \cup {newest} ELSE whole
  /\ UNCHANGED <<newest, passed>>

Pass ==
  /\ whole # {}
  /\ passed' = TRUE
  /\ UNCHANGED <<newest, landed, whole>>

\* The stage is cancelled, fails, goes on, or is confirmed once more.
Withdraw ==
  /\ passed' = FALSE
  /\ UNCHANGED <<newest, landed, whole>>

BatchNext == Open \/ (\E c \in Chunk : Land(c)) \/ Pass \/ Withdraw

BatchSpec == BatchInit /\ [][BatchNext]_batchVars

=============================================================================
