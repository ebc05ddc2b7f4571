---------------------------- MODULE MCScopeAccess ----------------------------
(* ScopeAccess for TLC: two departments with a program each.               *)
EXTENDS ScopeAccess

CONSTANTS d1, d2, p1, p2, h1, f1

TwoDepartments == [p \in {p1, p2} |-> IF p = p1 THEN d1 ELSE d2]
NobodyFixed    == [u \in User |-> {}]

=============================================================================
