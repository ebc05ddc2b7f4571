--------------------------- MODULE MCFacultyReport ---------------------------
\* Two students and a peer.  The second version moves a question to the section
\* that weighs less.
EXTENDS FacultyReport, TLC
CONSTANTS s1, s2, s3, q1, q2, A, B

MCSheet ==
  LET answers(x, y) == q1 :> x @@ q2 :> y IN
  s1 :> [type |-> "FEEDBACK", answers |-> answers(5, 4), score |-> 90, comment |-> "long"] @@
  s2 :> [type |-> "OUT", answers |-> answers(3, 5), score |-> 80, comment |-> "short"] @@
  s3 :> [type |-> "FEEDBACK", answers |-> answers(2, 3), score |-> 50, comment |-> "noise"]

MCSectionOf == <<q1 :> A @@ q2 :> A, q1 :> A @@ q2 :> B>>

MCSectionWeight == A :> 60 @@ B :> 40

=============================================================================
