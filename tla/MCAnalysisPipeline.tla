------------------------- MODULE MCAnalysisPipeline -------------------------
(* AnalysisPipeline for TLC: interchangeable workers and chunks.            *)
EXTENDS AnalysisPipeline, TLC

Symmetry == Permutations(Worker) \cup Permutations(Chunk)

=============================================================================
