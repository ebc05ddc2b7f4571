-------------------------- MODULE MCSentimentStage --------------------------
(* SentimentStage for TLC: interchangeable workers, chunks and requests.    *)
EXTENDS SentimentStage, TLC

Symmetry ==
  Permutations(Worker) \cup Permutations(Chunk) \cup Permutations(Confirmer \ Canceller)

=============================================================================
