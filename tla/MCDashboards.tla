----------------------------- MODULE MCDashboards ----------------------------
\* Two submissions about the teacher: a student's with a long comment and a peer's
\* with a short one; their scores differ.
EXTENDS Dashboards, TLC
CONSTANTS s1, s2, q1

MCSheet ==
  s1 :> [type |-> "FEEDBACK", answers |-> q1 :> 5, score |-> 90, comment |-> "long"] @@
  s2 :> [type |-> "OUT", answers |-> q1 :> 3, score |-> 80, comment |-> "short"]

=============================================================================
