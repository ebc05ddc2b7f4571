---------------------------- MODULE Provisioning ----------------------------
(***************************************************************************)
(* Provisioning of a Moodle site: administrators create the category tree  *)
(* (campus, semester, department, program), courses in it (from a CSV      *)
(* file, in bulk, or one at a time) and users enrolled in courses.  All    *)
(* of these are the same walk: an item is a path, the item without its     *)
(* last name is where it belongs, and what Moodle lacks is created level   *)
(* by level, in calls of several items of which an answer may be lost.     *)
(*                                                                         *)
(* A category is its path <<campus, tag, department, program>> or a prefix *)
(* of it, a course the path shown for it with its own name, a user <<u>>   *)
(* and an enrolment <<u, course>>.                                         *)
(***************************************************************************)
EXTENDS Integers, FiniteSets, Sequences, SequencesExt, FiniteSetsExt

CONSTANTS
  Name,       \* names and codes
  Request,    \* requests of administrators, each sent once
  Plans,      \* what they may ask for: functions to [guard, via, items]
  BatchSize,  \* items of one call: MOODLE_PROVISION_BATCH_SIZE (50)
  MaxFaults   \* bound on refused and lost calls, failed syncs and restarts

\* A category is up to four levels deep, a course belongs to a program, and an
\* enrolment to a user.
Depth(guard) ==
  CASE guard = "categories" -> 1..4 [] guard = "courses" -> {5} [] OTHER -> 1..2

ASSUME PlanAssumption ==
  /\ BatchSize \in Nat \ {0} /\ MaxFaults \in Nat
  /\ Plans \subseteq [Request ->
       [guard : {"categories", "courses", "users"},
        via : {"tree", "csv", "bulk", "quick", "seed"}, items : SUBSET Seq(Name)]]
  /\ \A p \in Plans, o \in Request :
       /\ p[o].guard = "categories" <=> p[o].via = "tree"
       /\ p[o].guard = "users" <=> p[o].via = "seed"
       /\ IsFiniteSet(p[o].items)
       /\ \A i \in p[o].items : Len(i) \in Depth(p[o].guard)

VARIABLES
  plan,    \* what each request asks for
  things,  \* Moodle: categories, courses, users and enrolments; ids are places
  known,   \* how many of them the local mirror has
  active,  \* activeOps: the operations under way
  pc,      \* where a request is
  seen,    \* how many things the categories it read at its start are
  at,      \* the ids it knows of what is there, by path
  report,  \* what it says of an item: "created", "skipped" or "error"
  sent,    \* the items of its call that Moodle has not answered
  late,    \* calls given up while Moodle may still do them
  faults

vars == <<plan, things, known, active, pc, seen, at, report, sent, late, faults>>

Running == {"read", "level", "call", "sync"}

Thing(o, p, how) ==
  [name |-> Last(p), parent |-> at[o][Front(p)], by |-> o, item |-> p,
   how |-> how]

PathOf[i \in 0..Len(things)] ==
  IF i = 0 THEN <<>> ELSE Append(PathOf[things[i].parent], things[i].name)

IsProgram(i) ==
  plan[things[i].by].guard = "categories" /\ Len(things[i].item) = 4

-----------------------------------------------------------------------------
(* The programs that the mirror offers for a path.  The CSV preview and    *)
(* the quick course look for the codes of campus, department and program,  *)
(* whatever the semester; a bulk request names the program itself, and     *)
(* its department and semester are compared.  The preview of one course    *)
(* shows a path and looks nothing up; that of categories only reads.       *)

Offers(o, p) ==
  {i \in 1..known :
     /\ IsProgram(i)
     /\ LET q == PathOf[i]
        IN IF plan[o].via = "bulk" THEN q = p
           ELSE q[1] = p[1] /\ q[3] = p[3] /\ q[4] = p[4]}

Places(o) == {Front(p) : p \in plan[o].items}

Placed(o) == {p \in Places(o) : Offers(o, p) # {}}

Resolve(o) ==
  \E m \in [Placed(o) -> 1..known] :
    /\ \A p \in Placed(o) : m[p] \in Offers(o, p)
    /\ at' = [at EXCEPT ![o] = m]

PreviewCourses(o) ==
  /\ plan[o].via = "csv"
  /\ pc[o] = "new"
  /\ pc' = [pc EXCEPT ![o] = "shown"]
  /\ Resolve(o)
  /\ UNCHANGED <<plan, things, known, active, seen, report, sent, late, faults>>

-----------------------------------------------------------------------------
(* An operation takes the guard of its kind, and gives it back at its end. *)

Ready(o) == pc[o] = IF plan[o].via = "csv" THEN "shown" ELSE "new"

\* Mutant of Free: the guard is taken without a look.
FreeAlways(o) == TRUE

Free(o) == plan[o].guard \notin active

End(o, how) ==
  /\ pc' = [pc EXCEPT ![o] = how]
  /\ active' = active \ {plan[o].guard}

Begin(o) ==
  /\ Ready(o)
  /\ Free(o)
  /\ UNCHANGED <<plan, things, known, seen, report, sent, late, faults>>
  /\ \/ /\ plan[o].via \in {"tree", "csv", "seed"}
        /\ pc' = [pc EXCEPT ![o] = IF plan[o].via = "tree" THEN "read"
                                   ELSE "level"]
        /\ active' = active \cup {plan[o].guard}
        /\ UNCHANGED at
     \/ /\ plan[o].via \in {"bulk", "quick"}
        /\ IF Placed(o) = Places(o)
             THEN /\ pc' = [pc EXCEPT ![o] = "level"]
                  /\ active' = active \cup {plan[o].guard}
                  /\ Resolve(o)
             ELSE End(o, "failed") /\ UNCHANGED at

Conflict(o) ==
  /\ Ready(o)
  /\ ~Free(o)
  /\ pc' = [pc EXCEPT ![o] = "failed"]
  /\ UNCHANGED <<plan, things, known, active, seen, at, report, sent, late, faults>>

ReadCategories(o) ==
  /\ pc[o] = "read"
  /\ pc' = [pc EXCEPT ![o] = "level"]
  /\ seen' = [seen EXCEPT ![o] = Len(things)]
  /\ late' = {[c EXCEPT !.how = "overtaken"] : c \in late}
  /\ UNCHANGED <<plan, things, known, active, at, report, sent, faults>>

ReadFails(o) ==
  /\ pc[o] = "read"
  /\ faults < MaxFaults
  /\ faults' = faults + 1
  /\ End(o, "failed")
  /\ UNCHANGED <<plan, things, known, seen, at, report, sent, late>>

-----------------------------------------------------------------------------
(* One level: what was read counts as skipped, what is missing is created. *)

Due(o) ==
  {p \in plan[o].items \ DOMAIN report[o] : Front(p) \in DOMAIN at[o]}

Level(o) == {p \in Due(o) : \A q \in Due(o) : Len(p) <= Len(q)}

\* Mutant of Found: categories are known by their names.
FoundByName(o, p) ==
  {i \in 1..seen[o] :
     plan[things[i].by].guard = "categories" /\ things[i].name = Last(p)}

Found(o, p) ==
  {i \in 1..seen[o] :
     /\ plan[things[i].by].guard = "categories"
     /\ things[i].name = Last(p)
     /\ things[i].parent = at[o][Front(p)]}

Hits(o) == {p \in Level(o) : Found(o, p) # {}}

Calls(o) ==
  LET missing == Level(o) \ Hits(o)
  IN IF plan[o].guard = "categories" THEN {missing}
     ELSE kSubset(Min({BatchSize, Cardinality(missing)}), missing)

\* What f says, and what g says where f says nothing.
Over(f, g) ==
  [x \in DOMAIN f \cup DOMAIN g |-> IF x \in DOMAIN f THEN f[x] ELSE g[x]]

Told(o, items, what) == Over([p \in items |-> what], report[o])

TakeLevel(o) ==
  /\ pc[o] = "level"
  /\ Level(o) # {}
  /\ report' = [report EXCEPT ![o] = Told(o, Hits(o), "skipped")]
  /\ at' = [at EXCEPT ![o] = Over([p \in Hits(o) |-> Max(Found(o, p))], @)]
  /\ \E call \in Calls(o) :
       /\ sent' = [sent EXCEPT ![o] = call]
       /\ pc' = [pc EXCEPT ![o] = IF call = {} THEN "level" ELSE "call"]
  /\ UNCHANGED <<plan, things, known, active, seen, late, faults>>

Made(o, items, how) ==
  [k \in 1..Cardinality(items) |-> Thing(o, SetToSeq(items)[k], how)]

Answered(o) ==
  /\ pc[o] = "call"
  /\ things' = things \o Made(o, sent[o], "answered")
  /\ at' = [at EXCEPT ![o] =
              Over([p \in sent[o] |-> CHOOSE i \in DOMAIN things' :
                                        i > Len(things) /\ things'[i].item = p], @)]
  /\ report' = [report EXCEPT ![o] = Told(o, sent[o], "created")]
  /\ sent' = [sent EXCEPT ![o] = {}]
  /\ pc' = [pc EXCEPT ![o] = "level"]
  /\ UNCHANGED <<plan, known, active, seen, late, faults>>

(* No answer: the items of the call are errors and the walk goes on, but   *)
(* a quick course fails.  Moodle did not do the call, or may still do it.  *)
NoAnswer(o) ==
  /\ pc[o] = "call"
  /\ faults < MaxFaults
  /\ faults' = faults + 1
  /\ late' \in {late, late \cup {[made |-> Made(o, sent[o], "late"),
                                  how |-> "late"]}}
  /\ report' = [report EXCEPT ![o] = Told(o, sent[o], "error")]
  /\ sent' = [sent EXCEPT ![o] = {}]
  /\ IF plan[o].via = "quick" THEN End(o, "failed")
     ELSE pc' = [pc EXCEPT ![o] = "level"] /\ UNCHANGED active
  /\ UNCHANGED <<plan, things, known, seen, at>>

LateCall ==
  \E c \in late :
    /\ things' = things \o [k \in DOMAIN c.made |->
                              [c.made[k] EXCEPT !.how = c.how]]
    /\ late' = late \ {c}
    /\ UNCHANGED <<plan, known, active, pc, seen, at, report, sent, faults>>

(* At the end the categories are mirrored.  A sync that fails says so in   *)
(* its result, which nobody reads: the response has syncCompleted anyway.  *)
Finish(o) ==
  /\ pc[o] = "level"
  /\ Level(o) = {}
  /\ IF plan[o].guard = "categories"
       THEN pc' = [pc EXCEPT ![o] = "sync"] /\ UNCHANGED active
       ELSE End(o, "done")
  /\ UNCHANGED <<plan, things, known, seen, at, report, sent, late, faults>>

SyncAndRebuildHierarchy(o) ==
  /\ pc[o] = "sync"
  /\ \/ /\ known' = Len(things)
        /\ End(o, "done")
        /\ UNCHANGED faults
     \/ /\ faults < MaxFaults
        /\ faults' = faults + 1
        /\ End(o, "unsynced")
        /\ UNCHANGED known
  /\ UNCHANGED <<plan, things, seen, at, report, sent, late>>

Restart ==
  /\ faults < MaxFaults
  /\ faults' = faults + 1
  /\ active' = {}
  /\ pc' = [o \in Request |-> IF pc[o] \in Running THEN "dead" ELSE pc[o]]
  /\ late' = late \cup
       {[made |-> Made(o, sent[o], "late"), how |-> "late"] :
          o \in {x \in Request : pc[x] = "call"}}
  /\ sent' = [o \in Request |-> {}]
  /\ UNCHANGED <<plan, things, known, seen, at, report>>

-----------------------------------------------------------------------------
Init ==
  /\ plan \in Plans
  /\ things = <<>>
  /\ known = 0
  /\ active = {}
  /\ pc = [o \in Request |-> "new"]
  /\ seen = [o \in Request |-> 0]
  /\ at = [o \in Request |-> IF plan[o].guard = "courses" THEN <<>>
                             ELSE [p \in {<<>>} |-> 0]]
  /\ report = [o \in Request |-> <<>>]
  /\ sent = [o \in Request |-> {}]
  /\ late = {}
  /\ faults = 0

Next ==
  \/ \E o \in Request :
       \/ PreviewCourses(o) \/ Begin(o) \/ Conflict(o)
       \/ ReadCategories(o) \/ ReadFails(o) \/ TakeLevel(o)
       \/ Answered(o) \/ NoAnswer(o) \/ Finish(o)
       \/ SyncAndRebuildHierarchy(o)
  \/ LateCall \/ Restart

Spec == Init /\ [][Next]_vars

-----------------------------------------------------------------------------
\* No two categories have one name in one place, however requests, retries,
\* restarts and lost answers interleave, unless one of them is the work of a
\* call that Moodle did after it was given up and after a later request had
\* read the categories without it.
NoTwins ==
  \A i, j \in DOMAIN things :
    /\ i # j
    /\ {plan[things[k].by].guard : k \in {i, j}} = {"categories"}
    /\ things[i].name = things[j].name
    /\ things[i].parent = things[j].parent
    => "overtaken" \in {things[i].how, things[j].how}

\* An item is accounted for at the end if what it belongs to was there.
Accounted(o) ==
  pc[o] \in {"done", "unsynced"} =>
    \A p \in plan[o].items :
      p \in DOMAIN report[o] <=> Front(p) \in DOMAIN at[o]

\* What is called created or skipped is in Moodle, in its place.
Exists(o) ==
  \A p \in DOMAIN report[o] :
    report[o][p] # "error" =>
      /\ things[at[o][p]].name = Last(p)
      /\ things[at[o][p]].parent = at[o][Front(p)]

\* What was made and not given up is called created, and by its maker.
Owned(i) ==
  things[i].how = "answered" =>
    /\ at[things[i].by][things[i].item] = i
    /\ report[things[i].by][things[i].item] = "created"

\* A course is in the program shown for it, and in its semester if it was
\* created in bulk: the CSV preview and the quick course take the program of
\* any semester, though they show the path of one.
Shown(i) ==
  LET o == things[i].by
      p == Front(things[i].item)
      q == PathOf[things[i].parent]
  IN plan[o].guard = "courses" =>
       /\ <<q[1], q[3], q[4]>> = <<p[1], p[3], p[4]>>
       /\ plan[o].via = "bulk" => q = p

\* What an operation reports is so: every item is accounted for, what is
\* called created or skipped is there, what Moodle answered is called created,
\* courses are in the program that the preview shows, and after a sync that
\* did not fail the mirror has all categories of the report.
ReportsAreTrue ==
  /\ \A o \in Request :
       /\ Accounted(o)
       /\ Exists(o)
       /\ plan[o].guard = "categories" /\ pc[o] = "done" =>
            \A p \in DOMAIN at[o] : at[o][p] <= known
  /\ \A i \in DOMAIN things : Owned(i) /\ Shown(i)

=============================================================================
