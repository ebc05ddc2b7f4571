----------------------------- MODULE MCSurveys -----------------------------
(* Surveys for TLC: interchangeable requests and ingestion slots.          *)
EXTENDS Surveys, TLC

CONSTANTS h1, h2, t1, t2, c1, s1, s2, x1, x2

Symmetry == Permutations(Caller) \cup Permutations(Task)

=============================================================================
