---------------------------- MODULE MCReportJobs ----------------------------
(* ReportJobs for TLC: interchangeable rows, workers, keys and requests.   *)
EXTENDS ReportJobs, TLC

Symmetry ==
  Permutations(JobId) \cup Permutations(Worker) \cup Permutations(Key)
    \cup Permutations(Single) \cup Permutations(Batcher)

=============================================================================
