--------------------------- MODULE MCProvisioning ---------------------------
(* Provisioning for TLC: what the administrators ask for.                  *)
EXTENDS Provisioning, TLC

CONSTANTS a, b, c

(* The tree for departments, each with its semester; all have one program. *)
Tree(places) ==
  {<<"UC">>} \cup {<<"UC", x[1]>> : x \in places}
    \cup {<<"UC">> \o x : x \in places}
    \cup {<<"UC">> \o x \o <<"BSCS">> : x \in places}

First == <<"S1", "CCS">>
Second == <<"S2", "CCS">>
Other == <<"S1", "CBA">>

Row(place, name) == <<"UC">> \o place \o <<"BSCS", name>>

Categories(places) ==
  [guard |-> "categories", via |-> "tree", items |-> Tree(places)]

Courses(how, rows) == [guard |-> "courses", via |-> how, items |-> rows]

Users(names) ==
  [guard |-> "users", via |-> "seed",
   items |-> {<<u>> : u \in names} \cup {<<u, "x">> : u \in names}]

(* Two overlapping trees with courses after them; two ways to create       *)
(* courses at once; two seedings of users.                                 *)
MCPlans ==
  {(a :> Categories({First})) @@ (b :> Categories({First, Second})) @@
     (c :> Courses("csv", {Row(First, "x"), Row(Second, "x")})),
   (a :> Categories({First, Second, Other})) @@
     (b :> Courses("bulk", {Row(First, "x"), Row(First, "y")})) @@
     (c :> Courses("quick", {Row(Second, "x")})),
   (a :> Users({"u", "v"})) @@ (b :> Users({"w"})) @@
     (c :> Courses("quick", {Row(First, "x")}))}

=============================================================================
