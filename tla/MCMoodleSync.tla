----------------------------- MODULE MCMoodleSync -----------------------------
(* MoodleSync for TLC.                                                     *)
EXTENDS MoodleSync

CONSTANTS p1, p2, c1, c2, m1

=============================================================================
