------------------------ MODULE Provisioning_proofs -------------------------
(***************************************************************************)
(* Proofs about the provisioning of a Moodle site, for any requests, plans,*)
(* batch size and number of faults: no two categories with one name in one *)
(* place, and reports that are true.                                       *)
(***************************************************************************)
EXTENDS Provisioning, FiniteSetTheorems, SequenceTheorems,
        WellFoundedInduction, TLAPS

Guards == {"categories", "courses", "users"}

PcNames ==
  {"new", "shown", "read", "level", "call", "sync", "done", "unsynced", "failed",
   "dead"}

ThingRecord ==
  [name : Name, parent : Nat, by : Request, item : Seq(Name),
   how : {"answered", "late", "overtaken"}]

Guard(o) == plan[o].guard

Category(t) == Guard(t.by) = "categories"

SamePlace(t, u) == t.name = u.name /\ t.parent = u.parent

\* The walk of a request that has read the categories.
Walks(o) == Guard(o) = "categories" /\ pc[o] \in {"level", "call"}

-----------------------------------------------------------------------------
(* The tree.  T stands for things, now or after a step.                    *)

\* Thing i is what request o takes for the path p: a program that was offered
\* for a course, else what was made for the very path.
IsPlace(T, o, i, p) ==
  IF Guard(o) = "courses"
  THEN /\ i # 0 /\ Category(T[i]) /\ Len(T[i].item) = 4
       /\ T[i].item[1] = p[1] /\ T[i].item[3] = p[3] /\ T[i].item[4] = p[4]
       /\ plan[o].via = "bulk" => T[i].item = p
  ELSE IF i = 0 THEN p = <<>> ELSE Guard(T[i].by) = Guard(o) /\ T[i].item = p

\* A thing that is to be below the first n is in its place.
Grounded(T, t, n) ==
  /\ t.item \in plan[t.by].items /\ t.name = Last(t.item)
  /\ t.parent \in 0..n
  /\ IsPlace(T, t.by, t.parent, Front(t.item))

ThingsInv ==
  /\ things \in Seq(ThingRecord)
  /\ \A i \in 1..Len(things) : Grounded(things, things[i], i - 1)

LateInv ==
  \A c \in late :
    /\ c \in [made : Seq(ThingRecord), how : {"late", "overtaken"}]
    /\ \A k \in 1..Len(c.made) : Grounded(things, c.made[k], Len(things))

-----------------------------------------------------------------------------
(* What a request knows.                                                   *)

AtInv(o) ==
  /\ DOMAIN at[o] \subseteq Seq(Name)
  /\ at[o] \in [DOMAIN at[o] -> 0..Len(things)]
  /\ \A p \in DOMAIN at[o] :
       /\ p \in plan[o].items => p \in DOMAIN report[o]
       /\ Guard(o) # "courses" \/ p \notin plan[o].items =>
            IsPlace(things, o, at[o][p], p)

ReportInv(o) ==
  /\ DOMAIN report[o] \subseteq plan[o].items
  /\ \A p \in DOMAIN report[o] :
       /\ Front(p) \in DOMAIN at[o]
       /\ report[o][p] # "error" =>
            /\ p \in DOMAIN at[o]
            /\ things[at[o][p]].name = Last(p)
            /\ things[at[o][p]].parent = at[o][Front(p)]
            /\ at[o][p] # 0

SentInv(o) ==
  /\ sent[o] \subseteq plan[o].items \ DOMAIN report[o]
  /\ \A p \in sent[o] : Front(p) \in DOMAIN at[o]
  /\ sent[o] # {} => pc[o] = "call"

PcInv(o) ==
  /\ pc[o] \in PcNames /\ seen[o] \in 0..Len(things)
  /\ Guard(o) # "categories" => seen[o] = 0
  /\ Guard(o) = "categories" /\ pc[o] = "done" =>
       \A p \in DOMAIN at[o] : at[o][p] <= known
  /\ pc[o] \in {"done", "unsynced", "sync"} => Due(o) = {}
  /\ pc[o] \in {"sync", "read"} => Guard(o) = "categories"
  /\ pc[o] \in {"new", "shown", "read"} => DOMAIN report[o] = {}

RequestInv(o) == PcInv(o) /\ AtInv(o) /\ ReportInv(o) /\ SentInv(o)

ShapeInv ==
  /\ plan \in Plans
  /\ pc = [o \in Request |-> pc[o]] /\ seen = [o \in Request |-> seen[o]]
  /\ at = [o \in Request |-> at[o]] /\ report = [o \in Request |-> report[o]]
  /\ sent = [o \in Request |-> sent[o]]
  /\ known \in 0..Len(things)

\* What Moodle answered is known and told.
OwnInv ==
  \A i \in 1..Len(things) : things[i].how = "answered" =>
    /\ things[i].item \in DOMAIN at[things[i].by]
    /\ things[i].item \in DOMAIN report[things[i].by]
    /\ at[things[i].by][things[i].item] = i
    /\ report[things[i].by][things[i].item] = "created"

-----------------------------------------------------------------------------
(* The guards.                                                             *)

GuardInv ==
  \A o \in Request : pc[o] \in Running =>
    /\ Guard(o) \in active
    /\ \A k \in Request : pc[k] \in Running /\ Guard(k) = Guard(o) => k = o

-----------------------------------------------------------------------------
(* Twins.                                                                  *)

\* What was made since a walk read the categories, or may still be made, is
\* its own work, and told.
SinceInv ==
  \A o \in Request : Walks(o) =>
    /\ \A i \in 1..Len(things) :
         i > seen[o] /\ Category(things[i]) /\ things[i].how # "overtaken" =>
           things[i].by = o /\ things[i].item \in DOMAIN report[o]
    /\ \A c \in late : \A k \in 1..Len(c.made) :
         c.how = "late" /\ Category(c.made[k]) =>
           c.made[k].by = o /\ c.made[k].item \in DOMAIN report[o]

\* What a walk sends is nowhere, neither made nor under way.
NewInv ==
  \A o \in Request : Walks(o) => \A p \in sent[o] :
    /\ \A i \in 1..Len(things) :
         Category(things[i]) /\ things[i].how # "overtaken" =>
           ~SamePlace(things[i], Thing(o, p, "answered"))
    /\ \A c \in late : \A k \in 1..Len(c.made) :
         c.how = "late" /\ Category(c.made[k]) =>
           ~SamePlace(c.made[k], Thing(o, p, "answered"))

\* What is under way is not there yet, and is under way once.
ApartInv ==
  \A c \in late : c.how = "late" => \A k \in 1..Len(c.made) :
    Category(c.made[k]) =>
      /\ \A i \in 1..Len(things) :
           Category(things[i]) /\ things[i].how # "overtaken" =>
             ~SamePlace(things[i], c.made[k])
      /\ \A d \in late : \A l \in 1..Len(d.made) :
           d.how = "late" /\ Category(d.made[l]) /\ SamePlace(c.made[k], d.made[l])
             => c = d /\ k = l

\* And what is there is there once.
OnceInv ==
  \A i, j \in 1..Len(things) :
    /\ i # j /\ Category(things[i]) /\ Category(things[j])
    /\ SamePlace(things[i], things[j])
    => "overtaken" \in {things[i].how, things[j].how}

IInv ==
  /\ ShapeInv /\ ThingsInv /\ LateInv /\ (\A o \in Request : RequestInv(o))
  /\ OwnInv /\ GuardInv /\ SinceInv /\ NewInv /\ ApartInv /\ OnceInv

-----------------------------------------------------------------------------
(* Paths, and what a plan asks for.                                        *)

\* A path without its last name is a path that is one shorter.
LEMMA FrontType ==
  ASSUME NEW p \in Seq(Name), Len(p) # 0
  PROVE  /\ Front(p) \in Seq(Name) /\ Len(Front(p)) = Len(p) - 1
         /\ Last(p) \in Name
         /\ \A i \in 1..(Len(p) - 1) : Front(p)[i] = p[i]
<1>1. Len(p) \in Nat OBVIOUS
<1>2. Front(p) = [i \in 1..(Len(p) - 1) |-> p[i]]
  BY <1>1, SubSeqProperties DEF Front
<1> QED BY <1>1, <1>2 DEF Last

\* A path is its last name after the rest of it.
LEMMA FrontLast ==
  ASSUME NEW p \in Seq(Name), NEW q \in Seq(Name), Len(p) # 0, Len(q) # 0,
         Front(p) = Front(q), Last(p) = Last(q)
  PROVE  p = q
<1>1. Len(p) = Len(q)
  BY FrontType
<1>2. \A i \in 1..Len(p) : p[i] = q[i]
  <2> TAKE i \in 1..Len(p)
  <2>1. CASE i = Len(p)
    BY <1>1, <2>1 DEF Last
  <2>2. CASE i # Len(p)
    <3>1. i \in 1..(Len(p) - 1)
      BY <2>2
    <3> QED BY <1>1, <3>1, FrontType
  <2> QED BY <2>1, <2>2
<1> QED BY <1>1, <1>2, SeqEqual

LEMMA AppendFront ==
  ASSUME NEW p \in Seq(Name), Len(p) # 0
  PROVE  Append(Front(p), Last(p)) = p
<1>1. Len(p) \in Nat /\ Front(p) \in Seq(Name) /\ Last(p) \in Name
  BY FrontType
<1>2. Append(Front(p), Last(p)) \in Seq(Name)
  BY <1>1
<1>3. Len(Append(Front(p), Last(p))) = Len(p)
  BY <1>1, FrontType
<1>4. \A i \in 1..Len(p) : Append(Front(p), Last(p))[i] = p[i]
  <2> TAKE i \in 1..Len(p)
  <2>1. CASE i = Len(p)
    BY <1>1, <2>1, FrontType DEF Last
  <2>2. CASE i # Len(p)
    <3>1. i \in 1..(Len(p) - 1)
      BY <1>1, <2>2
    <3> QED BY <1>1, <3>1, FrontType
  <2> QED BY <2>1, <2>2
<1> QED BY <1>2, <1>3, <1>4, SeqEqual

\* The items of a request are finitely many paths, as long as its kind says.
LEMMA PlanFacts ==
  ASSUME plan \in Plans, NEW o \in Request
  PROVE  /\ Guard(o) \in Guards
         /\ (Guard(o) = "categories") <=> (plan[o].via = "tree")
         /\ (Guard(o) = "users") <=> (plan[o].via = "seed")
         /\ plan[o].via \in {"tree", "csv", "bulk", "quick", "seed"}
         /\ IsFiniteSet(plan[o].items)
<1>1. plan[o] \in [guard : {"categories", "courses", "users"},
        via : {"tree", "csv", "bulk", "quick", "seed"}, items : SUBSET Seq(Name)]
  BY PlanAssumption DEF PlanAssumption
<1> QED BY <1>1, PlanAssumption DEF PlanAssumption, Guard, Guards

LEMMA ItemFacts ==
  ASSUME plan \in Plans, NEW o \in Request, NEW p \in plan[o].items
  PROVE  /\ p \in Seq(Name) /\ Len(p) \in Nat /\ Len(p) # 0
         /\ Guard(o) = "courses" => Len(p) = 5
         /\ Guard(o) = "categories" => Len(p) \in 1..4
         /\ Front(p) \in Seq(Name) /\ Len(Front(p)) = Len(p) - 1
         /\ Last(p) \in Name
         /\ \A i \in 1..(Len(p) - 1) : Front(p)[i] = p[i]
<1>1. plan[o] \in [guard : {"categories", "courses", "users"},
        via : {"tree", "csv", "bulk", "quick", "seed"}, items : SUBSET Seq(Name)]
  BY PlanAssumption DEF PlanAssumption
<1>2. p \in Seq(Name) /\ Len(p) \in Depth(plan[o].guard)
  BY <1>1, PlanAssumption DEF PlanAssumption
<1>3. Depth("courses") = {5} /\ Depth("categories") = 1..4 /\ Depth("users") = 1..2
  BY DEF Depth
<1> DEFINE n == Len(p)
<1>4. n \in Nat /\ n \in Depth(plan[o].guard)
  BY <1>2
<1> HIDE DEF n
<1>5. /\ n # 0
      /\ Guard(o) = "courses" => n = 5
      /\ Guard(o) = "categories" => n \in 1..4
  <2>1. CASE plan[o].guard = "courses"
    BY <1>3, <1>4, <2>1 DEF Guard
  <2>2. CASE plan[o].guard = "categories"
    BY <1>3, <1>4, <2>2 DEF Guard
  <2>3. CASE plan[o].guard = "users"
    BY <1>3, <1>4, <2>3 DEF Guard
  <2> QED BY <1>1, <2>1, <2>2, <2>3
<1> QED BY <1>2, <1>4, <1>5, FrontType DEF n

\* A sequence of a finite set has every member of it once.
LEMMA SequenceOfSet ==
  ASSUME NEW S, IsFiniteSet(S)
  PROVE  /\ Cardinality(S) \in Nat
         /\ SetToSeq(S) \in [1..Cardinality(S) -> S]
         /\ \A k, l \in 1..Cardinality(S) : SetToSeq(S)[k] = SetToSeq(S)[l] => k = l
         /\ \A p \in S : \E k \in 1..Cardinality(S) : SetToSeq(S)[k] = p
<1> DEFINE n == Cardinality(S)
<1>1. n \in Nat /\ ExistsBijection(1..n, S)
  BY FS_CardinalityType
<1>2. PICK f \in Bijection(1..n, S) : TRUE
  BY <1>1 DEF ExistsBijection
<1>3. f \in [1..n -> S] /\ IsInjective(f)
  BY <1>2 DEF Bijection, Injection
<1>4. SetToSeq(S) \in [1..n -> S] /\ IsInjective(SetToSeq(S))
  BY <1>3 DEF SetToSeq
<1>5. SetToSeq(S) \in Injection(1..n, S)
  BY <1>4 DEF Injection
<1>6. SetToSeq(S) \in Surjection(1..n, S)
  <2>1. IsFiniteSet(1..n) /\ Cardinality(1..n) = n
    BY <1>1, FS_Interval
  <2> QED BY <1>5, <2>1, FS_Injection
<1> HIDE DEF n
<1>7. \A k, l \in 1..n : SetToSeq(S)[k] = SetToSeq(S)[l] => k = l
  BY <1>4 DEF IsInjective
<1>8. \A p \in S : \E k \in 1..n : SetToSeq(S)[k] = p
  BY <1>6 DEF Surjection
<1> QED BY <1>1, <1>4, <1>7, <1>8 DEF n

\* A set of numbers has a least one, and a bounded set has a greatest one.
LEMMA LeastOf ==
  ASSUME NEW S \in SUBSET Nat, S # {}
  PROVE  \E m \in S : \A y \in S : m <= y
<1>1. PICK m \in S : \A y \in S : ~(<<y, m>> \in OpToRel(<, Nat))
  BY NatLessThanWellFounded, WFMin
<1>2. \A y \in S : m <= y
  <2>1. ASSUME NEW y \in S PROVE m <= y
    <3>1. y \in Nat /\ m \in Nat
      OBVIOUS
    <3>2. ~(y < m)
      BY <1>1, <3>1 DEF OpToRel
    <3> QED BY <3>1, <3>2
  <2> QED BY <2>1
<1> QED BY <1>2

LEMMA MaxIsGreatest ==
  ASSUME NEW n \in Nat, NEW S \in SUBSET (0..n), S # {}
  PROVE  Max(S) \in S /\ \A x \in S : x <= Max(S)
<1> DEFINE T == {n - x : x \in S}
<1>1. T \in SUBSET Nat /\ T # {}
  <2>1. PICK x \in S : TRUE
    OBVIOUS
  <2>2. n - x \in T
    OBVIOUS
  <2> QED BY <2>2
<1>2. PICK m \in T : \A y \in T : m <= y
  <2> HIDE DEF T
  <2> QED BY <1>1, LeastOf
<1>3. PICK x \in S : m = n - x
  OBVIOUS
<1>4. \A y \in S : n - x <= n - y
  BY <1>2, <1>3
<1>5. \A y \in S : x >= y
  <2>1. ASSUME NEW y \in S PROVE x >= y
    <3>1. n - x <= n - y /\ x \in Int /\ y \in Int
      BY <1>4
    <3> QED BY <3>1
  <2> QED BY <2>1
<1> QED BY <1>5 DEF Max

LEMMA OverFacts ==
  ASSUME NEW f, NEW g
  PROVE  /\ DOMAIN Over(f, g) = DOMAIN f \cup DOMAIN g
         /\ \A x \in DOMAIN f : Over(f, g)[x] = f[x]
         /\ \A x \in DOMAIN g \ DOMAIN f : Over(f, g)[x] = g[x]
BY DEF Over


-----------------------------------------------------------------------------
(* The tree: paths of things, and what stays as things are added.          *)

\* What is in the tree has a path, and is not a course if courses go below it.
LEMMA ThingFacts ==
  ASSUME plan \in Plans, ThingsInv, NEW i \in 1..Len(things)
  PROVE  /\ things[i] \in ThingRecord
         /\ things[i].by \in Request /\ things[i].item \in plan[things[i].by].items
         /\ things[i].item \in Seq(Name) /\ Len(things[i].item) # 0
         /\ things[i].name = Last(things[i].item)
         /\ things[i].parent \in Nat /\ things[i].parent < i
         /\ IsPlace(things, things[i].by, things[i].parent, Front(things[i].item))
         /\ things[i].how \in {"answered", "late", "overtaken"}
<1>1. things[i] \in ThingRecord /\ Grounded(things, things[i], i - 1)
  BY DEF ThingsInv
<1>2. things[i].by \in Request /\ things[i].item \in plan[things[i].by].items
  BY <1>1 DEF Grounded, ThingRecord
<1>3. things[i].item \in Seq(Name) /\ Len(things[i].item) # 0
  BY <1>2, ItemFacts
<1>4. things[i].parent \in 0..(i - 1) /\ Len(things) \in Nat
  BY <1>1 DEF Grounded, ThingsInv
<1> QED BY <1>1, <1>2, <1>3, <1>4 DEF Grounded, ThingRecord

\* The paths of the code, which follow the parents, are those of the items.
LEMMA PathIsItem ==
  ASSUME plan \in Plans, ThingsInv
  PROVE  \A i \in 1..Len(things) :
           Guard(things[i].by) # "courses" => PathOf[i] = things[i].item
<1> DEFINE n == Len(things)
           Item(i) == IF i = 0 THEN <<>> ELSE things[i].item
           W == [i \in 0..n |->
                   IF i = 0 THEN <<>>
                   ELSE IF Guard(things[i].by) = "courses"
                   THEN Append(Item(things[i].parent), things[i].name)
                   ELSE things[i].item]
           Step(f, i) == IF i = 0 THEN <<>>
                         ELSE Append(f[things[i].parent], things[i].name)
<1>1. n \in Nat
  BY DEF ThingsInv
<1>2. \A i \in 1..n : /\ things[i].parent \in 0..n
                      /\ things[i].parent # 0 =>
                           Guard(things[things[i].parent].by) # "courses"
  <2> TAKE i \in 1..n
  <2>1. things[i].parent \in Nat /\ things[i].parent < i
        /\ IsPlace(things, things[i].by, things[i].parent, Front(things[i].item))
    BY ThingFacts
  <2>2. things[i].parent \in 0..n
    BY <1>1, <2>1
  <2> QED BY <2>1, <2>2 DEF IsPlace, Category
<1>3. \A i \in 1..n : W[things[i].parent] = Item(things[i].parent)
  BY <1>1, <1>2
<1>4. \A i \in 1..n : Guard(things[i].by) # "courses" =>
        Append(Item(things[i].parent), things[i].name) = things[i].item
  <2> SUFFICES ASSUME NEW i \in 1..n, Guard(things[i].by) # "courses"
               PROVE  Append(Item(things[i].parent), things[i].name) = things[i].item
    OBVIOUS
  <2>1. /\ IsPlace(things, things[i].by, things[i].parent, Front(things[i].item))
        /\ things[i].item \in Seq(Name) /\ Len(things[i].item) # 0
        /\ things[i].name = Last(things[i].item)
    BY ThingFacts
  <2>2. Item(things[i].parent) = Front(things[i].item)
    BY <2>1 DEF IsPlace
  <2> HIDE DEF Item
  <2> QED BY <2>1, <2>2, AppendFront
<1>5. W = [i \in 0..n |-> Step(W, i)]
  <2>1. \A i \in 0..n : W[i] = Step(W, i)
    <3> TAKE i \in 0..n
    <3>1. CASE i = 0
      BY <1>1, <3>1
    <3>2. CASE i # 0
      <4>1. i \in 1..n
        BY <1>1, <3>2
      <4>2. W[things[i].parent] = Item(things[i].parent)
        BY <1>3, <4>1
      <4>3. W[i] = IF Guard(things[i].by) = "courses"
                   THEN Append(Item(things[i].parent), things[i].name)
                   ELSE things[i].item
        BY <3>2
      <4>4. Step(W, i) = Append(W[things[i].parent], things[i].name)
        BY <3>2
      <4> HIDE DEF W, Item, Step
      <4> QED BY <1>4, <4>1, <4>2, <4>3, <4>4
    <3> QED BY <3>1, <3>2
  <2>2. W = [i \in 0..n |-> W[i]]
    OBVIOUS
  <2> HIDE DEF W, Step
  <2> QED BY <2>1, <2>2
<1>6. PathOf = CHOOSE f : f = [i \in 0..n |-> Step(f, i)]
  BY DEF PathOf
<1>7. PathOf = [i \in 0..n |-> Step(PathOf, i)]
  <2> HIDE DEF W, Step
  <2> QED BY <1>5, <1>6
<1> DEFINE Bad == {i \in 0..n : PathOf[i] # W[i]}
<1>8. Bad = {}
  <2> SUFFICES ASSUME Bad # {} PROVE FALSE
    OBVIOUS
  <2>1. Bad \in SUBSET Nat
    OBVIOUS
  <2>2. PICK m \in Bad : \A y \in Bad : m <= y
    <3> HIDE DEF Bad
    <3> QED BY <2>1, LeastOf
  <2>3. m \in 0..n /\ PathOf[m] # W[m]
    BY DEF Bad
  <2>4. PathOf[m] = Step(PathOf, m) /\ W[m] = Step(W, m)
    <3> HIDE DEF W, Step, Bad
    <3> QED BY <1>5, <1>7, <2>3
  <2>5. m # 0
    <3>1. m = 0 => Step(PathOf, m) = Step(W, m)
      BY DEF Step
    <3> HIDE DEF Step, W
    <3> QED BY <2>3, <2>4, <3>1
  <2>6. m \in 1..n
    BY <1>1, <2>3, <2>5
  <2>7. things[m].parent \in Nat /\ things[m].parent < m
    BY <2>6, ThingFacts
  <2>8. things[m].parent \in 0..n /\ things[m].parent \notin Bad
    <3> HIDE DEF Bad
    <3> QED BY <1>1, <2>2, <2>3, <2>6, <2>7
  <2>9. PathOf[things[m].parent] = W[things[m].parent]
    <3> HIDE DEF W
    <3> QED BY <2>8 DEF Bad
  <2>10. Step(PathOf, m) = Step(W, m)
    <3> HIDE DEF W
    <3> QED BY <2>9 DEF Step
  <2> HIDE DEF Step, W
  <2> QED BY <2>3, <2>4, <2>10
<1>9. \A i \in 1..n : Guard(things[i].by) # "courses" => W[i] = things[i].item
  BY <1>1
<1>10. \A i \in 0..n : PathOf[i] = W[i]
  <2> HIDE DEF W
  <2> QED BY <1>8 DEF Bad
<1> HIDE DEF W
<1> QED BY <1>1, <1>9, <1>10

\* Things are only added.
Grows ==
  /\ Len(things') \in Nat /\ Len(things) \in Nat /\ Len(things) <= Len(things')
  /\ \A i \in 1..Len(things) : things'[i] = things[i]

LEMMA PlaceStays ==
  ASSUME Grows, NEW o, NEW i \in 0..Len(things), NEW p, IsPlace(things, o, i, p)
  PROVE  IsPlace(things', o, i, p)
BY DEF Grows, IsPlace, Category, Guard

LEMMA GroundedStays ==
  ASSUME Grows, NEW t, NEW n \in 0..Len(things), NEW m \in Nat, n <= m,
         Grounded(things, t, n)
  PROVE  Grounded(things', t, m)
<1>1. t.parent \in 0..Len(things) /\ t.parent \in 0..m
  BY DEF Grounded, Grows
<1>2. IsPlace(things', t.by, t.parent, Front(t.item))
  BY <1>1, PlaceStays DEF Grounded
<1> QED BY <1>1, <1>2 DEF Grounded

\* A category in the place of a path is the category of that path.
LEMMA PlaceIsItem ==
  ASSUME plan \in Plans, NEW o \in Request, Guard(o) = "categories",
         NEW n \in Nat, AtInv(o),
         NEW t \in ThingRecord, Grounded(things, t, n), Category(t),
         NEW p \in plan[o].items, Front(p) \in DOMAIN at[o],
         t.name = Last(p), t.parent = at[o][Front(p)]
  PROVE  t.item = p
<1>1. IsPlace(things, o, at[o][Front(p)], Front(p))
  BY DEF AtInv
<1>2. IsPlace(things, t.by, t.parent, Front(t.item))
      /\ t.item \in plan[t.by].items /\ t.by \in Request /\ t.name = Last(t.item)
  BY DEF Grounded, ThingRecord
<1>3. Front(t.item) = Front(p)
  BY <1>1, <1>2 DEF IsPlace, Category
<1>4. /\ t.item \in Seq(Name) /\ Len(t.item) # 0
      /\ p \in Seq(Name) /\ Len(p) # 0
  BY <1>2, ItemFacts
<1> QED BY <1>2, <1>3, <1>4, FrontLast


-----------------------------------------------------------------------------
(* What a call makes.                                                      *)

\* A thing that a request asks for is in its place once it is there.
LEMMA ThingGrounded ==
  ASSUME plan \in Plans, Len(things) \in Nat, NEW o \in Request, AtInv(o),
         NEW p \in plan[o].items, Front(p) \in DOMAIN at[o],
         NEW how \in {"answered", "late", "overtaken"}
  PROVE  /\ Thing(o, p, how) \in ThingRecord
         /\ Grounded(things, Thing(o, p, how), Len(things))
         /\ Thing(o, p, how).by = o /\ Thing(o, p, how).item = p
         /\ Thing(o, p, how).how = how
         /\ Thing(o, p, how).name = Last(p)
         /\ Thing(o, p, how).parent = at[o][Front(p)]
<1> DEFINE t == Thing(o, p, how)
<1>1. /\ t.by = o /\ t.item = p /\ t.how = how /\ t.name = Last(p)
      /\ t.parent = at[o][Front(p)]
  BY DEF Thing
<1>2. p \in Seq(Name) /\ Last(p) \in Name /\ at[o][Front(p)] \in 0..Len(things)
  BY ItemFacts DEF AtInv
<1>3. t \in ThingRecord
  BY <1>2 DEF Thing, ThingRecord
<1>4. Guard(o) = "courses" => Front(p) \notin plan[o].items
  BY ItemFacts
<1>5. IsPlace(things, o, at[o][Front(p)], Front(p))
  BY <1>4 DEF AtInv
<1> HIDE DEF t
<1> QED BY <1>1, <1>2, <1>3, <1>5 DEF Grounded, t

\* M is what request o sends, each item of it once and in its place.
IsCall(M, o, how) ==
  /\ M \in Seq(ThingRecord) /\ Len(M) \in Nat
  /\ \A k \in 1..Len(M) :
       /\ M[k] \in ThingRecord
       /\ M[k].by = o /\ M[k].item \in sent[o] /\ M[k].how = how
       /\ M[k].name = Last(M[k].item)
       /\ M[k].parent = at[o][Front(M[k].item)]
       /\ Grounded(things, M[k], Len(things))
  /\ \A k, l \in 1..Len(M) : M[k].item = M[l].item => k = l
  /\ \A p \in sent[o] : \E k \in 1..Len(M) : M[k].item = p

\* A call makes every item of it once, each in its place.
LEMMA MadeFacts ==
  ASSUME plan \in Plans, ThingsInv, NEW o \in Request, AtInv(o), SentInv(o),
         NEW how \in {"answered", "late"}
  PROVE  IsCall(Made(o, sent[o], how), o, how)
<1> DEFINE M == Made(o, sent[o], how)
           s == SetToSeq(sent[o])
           n == Cardinality(sent[o])
<1>1. IsFiniteSet(sent[o])
  BY PlanFacts, FS_Subset DEF SentInv
<1>2. /\ n \in Nat /\ s \in [1..n -> sent[o]]
      /\ \A k, l \in 1..n : s[k] = s[l] => k = l
      /\ \A p \in sent[o] : \E k \in 1..n : s[k] = p
  <2> HIDE DEF n, s
  <2> QED BY <1>1, SequenceOfSet DEF n, s
<1>3. M = [k \in 1..n |-> Thing(o, s[k], how)]
  BY DEF Made
<1> HIDE DEF M, n, s
<1>4. \A p \in sent[o] :
        /\ Thing(o, p, how) \in ThingRecord
        /\ Grounded(things, Thing(o, p, how), Len(things))
        /\ Thing(o, p, how).by = o /\ Thing(o, p, how).item = p
        /\ Thing(o, p, how).how = how
        /\ Thing(o, p, how).name = Last(p)
        /\ Thing(o, p, how).parent = at[o][Front(p)]
  BY ThingGrounded DEF SentInv, ThingsInv
<1>5. /\ M \in [1..n -> ThingRecord]
      /\ \A k \in 1..n : M[k] = Thing(o, s[k], how) /\ s[k] \in sent[o]
  BY <1>2, <1>3, <1>4
<1>6. M \in Seq(ThingRecord) /\ Len(M) = n
  BY <1>2, <1>5
<1>7. \A k \in 1..n :
        /\ M[k].by = o /\ M[k].item = s[k] /\ M[k].how = how
        /\ M[k].name = Last(s[k]) /\ M[k].parent = at[o][Front(s[k])]
        /\ Grounded(things, M[k], Len(things))
  BY <1>4, <1>5
<1>8. \A k \in 1..n :
        /\ M[k].item \in sent[o] /\ M[k].name = Last(M[k].item)
        /\ M[k].parent = at[o][Front(M[k].item)]
  BY <1>5, <1>7
<1>9. \A k, l \in 1..n : M[k].item = M[l].item => k = l
  BY <1>2, <1>7
<1>10. \A p \in sent[o] : \E k \in 1..n : M[k].item = p
  BY <1>2, <1>7
<1> QED BY <1>2, <1>5, <1>6, <1>7, <1>8, <1>9, <1>10 DEF M, IsCall

\* No two categories of a call have one place.
LEMMA MadeApart ==
  ASSUME plan \in Plans, ThingsInv, NEW o \in Request, AtInv(o), SentInv(o),
         Guard(o) = "categories", NEW how \in {"answered", "late"},
         NEW M, IsCall(M, o, how),
         NEW k \in 1..Len(M), NEW l \in 1..Len(M), SamePlace(M[k], M[l])
  PROVE  k = l
<1>1. \A x \in 1..Len(M) :
        /\ M[x] \in ThingRecord
        /\ M[x].by = o /\ M[x].item \in sent[o] /\ M[x].name = Last(M[x].item)
        /\ M[x].parent = at[o][Front(M[x].item)]
        /\ Grounded(things, M[x], Len(things))
  BY DEF IsCall
<1>2. \A x, y \in 1..Len(M) : M[x].item = M[y].item => x = y
  BY DEF IsCall
<1>3. /\ M[l].item \in plan[o].items /\ Front(M[l].item) \in DOMAIN at[o]
      /\ M[k] \in ThingRecord /\ Category(M[k])
  BY <1>1 DEF SentInv, Category
<1>4. M[k].name = Last(M[l].item) /\ M[k].parent = at[o][Front(M[l].item)]
  BY <1>1 DEF SamePlace
<1>5. Len(things) \in Nat /\ Grounded(things, M[k], Len(things))
  BY <1>1 DEF ThingsInv
<1>6. M[k].item = M[l].item
  BY <1>3, <1>4, <1>5, PlaceIsItem
<1> QED BY <1>2, <1>6

\* What a request has yet to tell of is not among the ids it knows.
LEMMA NewPlace ==
  ASSUME NEW o, AtInv(o), NEW p \in plan[o].items, p \notin DOMAIN report[o]
  PROVE  p \notin DOMAIN at[o]
BY DEF AtInv

-----------------------------------------------------------------------------
(* What stays of what a request knows.                                     *)

LEMMA AtStays ==
  ASSUME plan' = plan, Grows, NEW o, AtInv(o), at'[o] = at[o],
         DOMAIN report[o] \subseteq DOMAIN report'[o]
  PROVE  AtInv(o)'
<1>1. /\ DOMAIN at'[o] \subseteq Seq(Name)
      /\ at'[o] \in [DOMAIN at'[o] -> 0..Len(things')]
  BY DEF AtInv, Grows
<1>2. \A p \in DOMAIN at'[o] :
        /\ p \in plan[o].items => p \in DOMAIN report'[o]
        /\ Guard(o) # "courses" \/ p \notin plan[o].items =>
             IsPlace(things', o, at'[o][p], p)
  BY PlaceStays DEF AtInv
<1> QED BY <1>1, <1>2 DEF AtInv, IsPlace, Category, Guard

LEMMA ReportStays ==
  ASSUME plan' = plan, Grows, NEW o, AtInv(o), ReportInv(o), at'[o] = at[o],
         report'[o] = report[o]
  PROVE  ReportInv(o)'
<1>1. \A p \in DOMAIN at[o] : at[o][p] # 0 => things'[at[o][p]] = things[at[o][p]]
  BY DEF AtInv, Grows
<1> QED BY <1>1 DEF ReportInv

SameFor(o) ==
  /\ pc'[o] = pc[o] /\ seen'[o] = seen[o] /\ at'[o] = at[o]
  /\ report'[o] = report[o] /\ sent'[o] = sent[o]

LEMMA RequestStays ==
  ASSUME plan' = plan, Grows, known \in Nat, known' \in Nat, known <= known', NEW o,
         RequestInv(o), SameFor(o)
  PROVE  RequestInv(o)'
<1>1. AtInv(o)'
  BY AtStays DEF RequestInv, SameFor
<1>2. ReportInv(o)'
  BY ReportStays DEF RequestInv, SameFor
<1>3. SentInv(o)'
  BY DEF RequestInv, SameFor, SentInv
<1>4. \A p \in DOMAIN at[o] : at[o][p] \in Nat
  BY DEF RequestInv, AtInv, Grows
<1>5. Due(o)' = Due(o)
  BY DEF Due, SameFor
<1>6. seen'[o] \in 0..Len(things')
  BY DEF RequestInv, PcInv, SameFor, Grows
<1>7. Guard(o)' = Guard(o)
  BY DEF Guard
<1>8. Guard(o) = "categories" /\ pc[o] = "done" =>
        \A p \in DOMAIN at'[o] : at'[o][p] <= known'
  BY <1>4 DEF RequestInv, PcInv, SameFor
<1>9. PcInv(o)'
  BY <1>5, <1>6, <1>7, <1>8 DEF RequestInv, PcInv, SameFor
<1> QED BY <1>1, <1>2, <1>3, <1>9 DEF RequestInv

LEMMA SameThings ==
  ASSUME things' = things, ThingsInv
  PROVE  Grows
BY DEF Grows, ThingsInv

LEMMA ThingsStay ==
  ASSUME plan' = plan, things' = things, ThingsInv
  PROVE  ThingsInv'
BY DEF ThingsInv, Grounded, IsPlace, Category, Guard

LEMMA LateStays ==
  ASSUME plan' = plan, Grows, NEW c, c.made \in Seq(ThingRecord),
         \A k \in 1..Len(c.made) : Grounded(things, c.made[k], Len(things))
  PROVE  \A k \in 1..Len(c.made) : Grounded(things', c.made[k], Len(things'))
BY GroundedStays DEF Grows


-----------------------------------------------------------------------------
(* Steps that add nothing: a request looks, begins, waits or ends.         *)

LEMMA GuardEnters ==
  ASSUME plan' = plan, ShapeInv, GuardInv, NEW o \in Request, NEW how,
         pc' = [pc EXCEPT ![o] = how], Free(o),
         active' = active \cup {Guard(o)}
  PROVE  GuardInv'
<1>1. \A k \in Request : pc[k] \in Running => Guard(k) # Guard(o) /\ Guard(k) \in active
  BY DEF GuardInv, Free, Guard
<1>2. \A k \in Request : pc'[k] = IF k = o THEN how ELSE pc[k]
  BY DEF ShapeInv
<1>3. \A k \in Request : Guard(k)' = Guard(k)
  BY DEF Guard
<1>4. SUFFICES ASSUME NEW x \in Request, pc'[x] \in Running
               PROVE  /\ Guard(x) \in active'
                      /\ \A k \in Request :
                           pc'[k] \in Running /\ Guard(k) = Guard(x) => k = x
  BY <1>3 DEF GuardInv, Running
<1>5. CASE x = o
  BY <1>1, <1>2, <1>5
<1>6. CASE x # o
  BY <1>1, <1>2, <1>4, <1>6 DEF GuardInv
<1> QED BY <1>5, <1>6

LEMMA GuardLeaves ==
  ASSUME plan' = plan, ShapeInv, GuardInv, NEW o \in Request, NEW how,
         pc' = [pc EXCEPT ![o] = how], how \notin Running,
         \/ active' = active
         \/ (pc[o] \in Running \/ Guard(o) \notin active) /\ active' = active \ {Guard(o)}
  PROVE  GuardInv'
<1>1. \A k \in Request : pc'[k] = IF k = o THEN how ELSE pc[k]
  BY DEF ShapeInv
<1>2. \A k \in Request : Guard(k)' = Guard(k)
  BY DEF Guard
<1>3. SUFFICES ASSUME NEW x \in Request, pc'[x] \in Running
               PROVE  /\ Guard(x) \in active'
                      /\ \A k \in Request :
                           pc'[k] \in Running /\ Guard(k) = Guard(x) => k = x
  BY <1>2 DEF GuardInv, Running
<1>4. x # o /\ pc[x] \in Running
  BY <1>1, <1>3
<1>5. Guard(x) \in active /\ (pc[o] \in Running \/ Guard(o) \notin active => Guard(x) # Guard(o))
  BY <1>4 DEF GuardInv
<1>6. \A k \in Request : pc'[k] \in Running => pc[k] \in Running
  BY <1>1
<1> QED BY <1>3, <1>4, <1>5, <1>6 DEF GuardInv

LEMMA GuardStays ==
  ASSUME plan' = plan, ShapeInv, GuardInv, NEW o \in Request, NEW how,
         pc' = [pc EXCEPT ![o] = how], active' = active,
         how \in Running => pc[o] \in Running
  PROVE  GuardInv'
<1>1. \A k \in Request : pc'[k] \in Running => pc[k] \in Running
  BY DEF ShapeInv
<1>2. \A k \in Request : Guard(k)' = Guard(k)
  BY DEF Guard
<1> QED BY <1>1, <1>2 DEF GuardInv, Running

\* A step of one request that makes nothing and sends nothing keeps the
\* invariant if it keeps what that request knows, and its guard.
LEMMA QuietStep ==
  ASSUME IInv, plan' = plan, things' = things, late' = late, report' = report,
         sent' = sent, seen' = seen, known' \in known..Len(things),
         NEW o \in Request, NEW how, NEW m,
         pc' = [pc EXCEPT ![o] = how], at' = [at EXCEPT ![o] = m],
         m = at[o] \/ DOMAIN report[o] = {},
         Guard(o) = "categories" => how \notin {"level", "call"},
         RequestInv(o)', GuardInv'
  PROVE  IInv'
<1>1. /\ plan \in Plans
      /\ pc = [k \in Request |-> pc[k]] /\ seen = [k \in Request |-> seen[k]]
      /\ at = [k \in Request |-> at[k]] /\ report = [k \in Request |-> report[k]]
      /\ sent = [k \in Request |-> sent[k]]
      /\ known \in 0..Len(things) /\ Len(things) \in Nat
  BY DEF IInv, ShapeInv, ThingsInv
<1>2. /\ \A k \in Request : pc'[k] = IF k = o THEN how ELSE pc[k]
      /\ \A k \in Request : at'[k] = IF k = o THEN m ELSE at[k]
  BY <1>1
<1>3. ShapeInv'
  <2>1. pc' = [k \in Request |-> pc'[k]] /\ at' = [k \in Request |-> at'[k]]
    BY <1>1
  <2> QED BY <1>1, <2>1 DEF ShapeInv
<1>4. ThingsInv'
  BY ThingsStay DEF IInv
<1>5. LateInv'
  <2>1. Grows
    BY SameThings DEF IInv
  <2>2. \A c \in late : \A k \in 1..Len(c.made) :
          Grounded(things', c.made[k], Len(things'))
    BY <2>1, LateStays DEF IInv, LateInv
  <2>3. \A t : Grounded(things, t, Len(things))' <=> Grounded(things', t, Len(things'))
    BY DEF Grounded, IsPlace, Category, Guard
  <2> QED BY <2>2, <2>3 DEF IInv, LateInv
<1>6. \A k \in Request : RequestInv(k)'
  <2> SUFFICES ASSUME NEW k \in Request, k # o PROVE RequestInv(k)'
    OBVIOUS
  <2>1. SameFor(k)
    BY <1>2 DEF SameFor
  <2>2. Grows
    BY SameThings DEF IInv
  <2>3. known \in Nat /\ known' \in Nat /\ known <= known'
    BY <1>1
  <2> QED BY <2>1, <2>2, <2>3, RequestStays DEF IInv
<1>8. \A k \in Request : Walks(k)' => k # o /\ Walks(k)
  BY <1>2 DEF Walks, Guard
<1>9. OwnInv'
  <2> SUFFICES ASSUME NEW i \in 1..Len(things), things[i].how = "answered"
               PROVE  /\ things[i].item \in DOMAIN at'[things[i].by]
                      /\ things[i].item \in DOMAIN report[things[i].by]
                      /\ at'[things[i].by][things[i].item] = i
                      /\ report[things[i].by][things[i].item] = "created"
    BY DEF OwnInv
  <2>1. things[i].by \in Request
    BY <1>1, ThingFacts DEF IInv
  <2>2. /\ things[i].item \in DOMAIN at[things[i].by]
        /\ things[i].item \in DOMAIN report[things[i].by]
        /\ at[things[i].by][things[i].item] = i
        /\ report[things[i].by][things[i].item] = "created"
    BY DEF IInv, OwnInv
  <2>3. at'[things[i].by] = at[things[i].by]
    BY <1>2, <2>1, <2>2
  <2> QED BY <2>2, <2>3
<1>10. SinceInv'
  BY <1>8 DEF IInv, SinceInv, Category, Guard
<1>11. NewInv'
  <2>1. \A k \in Request : \A p : k # o => Thing(k, p, "answered")' = Thing(k, p, "answered")
    BY <1>2 DEF Thing
  <2> QED BY <1>8, <2>1 DEF IInv, NewInv, Category, Guard, SamePlace
<1>12. ApartInv'
  <2> SUFFICES ASSUME NEW c \in late, c.how = "late", NEW k \in 1..Len(c.made),
                      Category(c.made[k])
               PROVE  /\ \A i \in 1..Len(things) :
                           Category(things[i]) /\ things[i].how # "overtaken" =>
                             ~SamePlace(things[i], c.made[k])
                      /\ \A d \in late : \A l \in 1..Len(d.made) :
                           /\ d.how = "late" /\ Category(d.made[l])
                           /\ SamePlace(c.made[k], d.made[l])
                           => c = d /\ k = l
    <3>1. \A t : Category(t)' <=> Category(t)
      BY DEF Category, Guard
    <3>2. late' = late /\ things' = things
      OBVIOUS
    <3> QED BY <3>1, <3>2 DEF ApartInv, SamePlace
  <2> QED BY DEF IInv, ApartInv
<1>13. OnceInv'
  BY DEF IInv, OnceInv, Category, Guard, SamePlace
<1> QED BY <1>3, <1>4, <1>5, <1>6, <1>9, <1>10, <1>11, <1>12, <1>13 DEF IInv

\* What the mirror offers for the path of a course is a place for it.
LEMMA OfferedPlace ==
  ASSUME plan \in Plans, ThingsInv, known \in 0..Len(things),
         NEW o \in Request, Guard(o) = "courses",
         NEW p \in Places(o), NEW i \in Offers(o, p)
  PROVE  /\ i \in 0..Len(things) /\ IsPlace(things, o, i, p)
         /\ p \in Seq(Name) /\ p \notin plan[o].items
<1>1. PICK x \in plan[o].items : p = Front(x)
  BY DEF Places
<1>2. p \in Seq(Name) /\ Len(p) = 4
  <2>1. Len(x) = 5 /\ Front(x) \in Seq(Name) /\ Len(Front(x)) = Len(x) - 1
    BY ItemFacts
  <2> QED BY <1>1, <2>1
<1>3. p \notin plan[o].items
  <2>1. p \in plan[o].items => Len(p) = 5
    BY ItemFacts
  <2> QED BY <1>2, <2>1
<1>4. i \in 1..Len(things)
  BY DEF Offers, ThingsInv
<1>5. Category(things[i]) /\ Len(things[i].item) = 4
  BY DEF Offers, IsProgram, Category, Guard
<1>6. PathOf[i] = things[i].item
  BY <1>4, <1>5, PathIsItem DEF Category
<1>7. IF plan[o].via = "bulk" THEN things[i].item = p
      ELSE /\ things[i].item[1] = p[1] /\ things[i].item[3] = p[3]
           /\ things[i].item[4] = p[4]
  BY <1>6 DEF Offers
<1> QED BY <1>2, <1>3, <1>4, <1>5, <1>7 DEF IsPlace

LEMMA ResolvedAt ==
  ASSUME IInv, plan' = plan, things' = things, report' = report,
         NEW o \in Request, Guard(o) = "courses", Resolve(o)
  PROVE  AtInv(o)' /\ \E m : at' = [at EXCEPT ![o] = m]
<1>1. PICK m \in [Placed(o) -> 1..known] :
        /\ \A p \in Placed(o) : m[p] \in Offers(o, p)
        /\ at' = [at EXCEPT ![o] = m]
  BY DEF Resolve
<1>2. at'[o] = m
  BY <1>1 DEF IInv, ShapeInv
<1>3. \A p \in Placed(o) :
        /\ m[p] \in 0..Len(things) /\ IsPlace(things, o, m[p], p)
        /\ p \in Seq(Name) /\ p \notin plan[o].items
  BY <1>1, OfferedPlace DEF Placed, IInv, ShapeInv
<1>4. DOMAIN m = Placed(o) /\ m = [p \in DOMAIN m |-> m[p]]
  BY <1>1
<1>5. \A p \in Placed(o) : IsPlace(things, o, m[p], p)' <=> IsPlace(things, o, m[p], p)
  BY DEF IsPlace, Category, Guard
<1>6. /\ DOMAIN m \subseteq Seq(Name)
      /\ m \in [DOMAIN m -> 0..Len(things)]
      /\ \A p \in DOMAIN m : p \notin plan[o].items /\ IsPlace(things, o, m[p], p)
  BY <1>3, <1>4
<1>7. AtInv(o)'
  BY <1>2, <1>6 DEF AtInv, IsPlace, Category, Guard
<1> QED BY <1>1, <1>7

\* What a request knows, told and sent stays while it waits or ends.
LEMMA QuietRequest ==
  ASSUME IInv, plan' = plan, things' = things, report' = report, sent' = sent,
         NEW o \in Request, NEW how, pc' = [pc EXCEPT ![o] = how],
         pc[o] # "call", at'[o] = at[o]
  PROVE  AtInv(o)' /\ ReportInv(o)' /\ SentInv(o)'
<1>1. Grows
  BY SameThings DEF IInv
<1>2. AtInv(o)' /\ ReportInv(o)'
  BY <1>1, AtStays, ReportStays DEF IInv, RequestInv
<1>3. sent[o] = {}
  BY DEF IInv, RequestInv, SentInv
<1> QED BY <1>2, <1>3 DEF SentInv

LEMMA PreviewCoursesKeeps ==
  ASSUME IInv, NEW o \in Request, PreviewCourses(o)
  PROVE  IInv'
<1> USE DEF PreviewCourses
<1>1. plan \in Plans /\ Guard(o) = "courses"
  BY PlanFacts DEF IInv, ShapeInv, Guards
<1>2. AtInv(o)' /\ \E m : at' = [at EXCEPT ![o] = m]
  BY <1>1, ResolvedAt
<1>3. DOMAIN report[o] = {} /\ sent[o] = {} /\ seen[o] \in 0..Len(things)
      /\ (Guard(o) # "categories" => seen[o] = 0)
  BY DEF IInv, RequestInv, PcInv, SentInv
<1>4. ReportInv(o)' /\ SentInv(o)'
  BY <1>3 DEF ReportInv, SentInv
<1>5. pc'[o] = "shown"
  BY DEF IInv, ShapeInv
<1>6. PcInv(o)'
  BY <1>1, <1>3, <1>5 DEF PcInv, PcNames, Guard
<1>7. GuardInv'
  BY GuardStays DEF IInv, Running
<1>8. RequestInv(o)'
  BY <1>2, <1>4, <1>6 DEF RequestInv
<1>9. known' \in known..Len(things)
  BY DEF IInv, ShapeInv, ThingsInv
<1> QED BY <1>1, <1>2, <1>3, <1>7, <1>8, <1>9, QuietStep

LEMMA ConflictKeeps ==
  ASSUME IInv, NEW o \in Request, Conflict(o)
  PROVE  IInv'
<1> USE DEF Conflict
<1>1. pc[o] \in {"new", "shown"}
  BY DEF Ready
<1>2. AtInv(o)' /\ ReportInv(o)' /\ SentInv(o)'
  BY <1>1, QuietRequest
<1>3. pc'[o] = "failed"
  BY DEF IInv, ShapeInv
<1>4. PcInv(o)'
  BY <1>3 DEF IInv, RequestInv, PcInv, PcNames, Guard
<1>5. GuardInv'
  BY GuardLeaves DEF IInv, Running
<1>6. RequestInv(o)'
  BY <1>2, <1>4 DEF RequestInv
<1>7. known' \in known..Len(things) /\ at' = [at EXCEPT ![o] = at[o]]
  BY DEF IInv, ShapeInv, ThingsInv
<1> QED BY <1>5, <1>6, <1>7, QuietStep

LEMMA BeginKeeps ==
  ASSUME IInv, NEW o \in Request, Begin(o)
  PROVE  IInv'
<1>1. /\ pc[o] \in {"new", "shown"} /\ Free(o)
      /\ plan' = plan /\ things' = things /\ known' = known /\ seen' = seen
      /\ report' = report /\ sent' = sent /\ late' = late
  BY DEF Begin, Ready
<1>2. /\ known' \in known..Len(things) /\ plan \in Plans
      /\ at = [at EXCEPT ![o] = at[o]]
  BY <1>1 DEF IInv, ShapeInv, ThingsInv
<1>3. /\ DOMAIN report[o] = {} /\ sent[o] = {} /\ seen[o] \in 0..Len(things)
      /\ Guard(o) # "categories" => seen[o] = 0
  BY <1>1 DEF IInv, RequestInv, PcInv, SentInv
<1>4. ReportInv(o)' /\ SentInv(o)'
  BY <1>1, <1>3 DEF ReportInv, SentInv
<1>5. CASE /\ plan[o].via \in {"tree", "csv", "seed"}
           /\ pc' = [pc EXCEPT ![o] = IF plan[o].via = "tree" THEN "read" ELSE "level"]
           /\ active' = active \cup {plan[o].guard}
           /\ UNCHANGED at
  <2> DEFINE how == IF plan[o].via = "tree" THEN "read" ELSE "level"
  <2>1. pc' = [pc EXCEPT ![o] = how] /\ pc'[o] = how
    BY <1>5 DEF IInv, ShapeInv
  <2>2. /\ how \in {"read", "level"}
        /\ how = "read" <=> Guard(o) = "categories"
    BY <1>2, PlanFacts
  <2> HIDE DEF how
  <2>3. AtInv(o)'
    BY <1>1, <1>5, <2>1, QuietRequest
  <2>4. PcInv(o)'
    BY <1>1, <1>3, <2>1, <2>2 DEF PcInv, PcNames, Guard
  <2>5. GuardInv'
    BY <1>1, <1>5, <2>1, GuardEnters DEF IInv, Guard
  <2>6. RequestInv(o)'
    BY <1>4, <2>3, <2>4 DEF RequestInv
  <2> QED BY <1>1, <1>2, <1>3, <1>5, <2>1, <2>2, <2>5, <2>6, QuietStep
<1>6. CASE /\ plan[o].via \in {"bulk", "quick"}
           /\ Placed(o) = Places(o)
           /\ pc' = [pc EXCEPT ![o] = "level"]
           /\ active' = active \cup {plan[o].guard}
           /\ Resolve(o)
  <2>1. Guard(o) = "courses"
    BY <1>2, <1>6, PlanFacts DEF Guards
  <2>2. AtInv(o)' /\ \E m : at' = [at EXCEPT ![o] = m]
    BY <1>1, <1>6, <2>1, ResolvedAt
  <2>3. pc'[o] = "level"
    BY <1>6 DEF IInv, ShapeInv
  <2>4. PcInv(o)'
    BY <1>1, <1>3, <2>1, <2>3 DEF PcInv, PcNames, Guard
  <2>5. GuardInv'
    BY <1>1, <1>6, GuardEnters DEF IInv, Guard
  <2>6. RequestInv(o)'
    BY <1>4, <2>2, <2>4 DEF RequestInv
  <2> QED BY <1>1, <1>2, <1>3, <1>6, <2>1, <2>2, <2>5, <2>6, QuietStep
<1>7. CASE End(o, "failed") /\ UNCHANGED at
  <2>1. /\ pc' = [pc EXCEPT ![o] = "failed"] /\ pc'[o] = "failed"
        /\ active' = active \ {Guard(o)}
    BY <1>7 DEF End, IInv, ShapeInv, Guard
  <2>2. AtInv(o)'
    BY <1>1, <1>7, <2>1, QuietRequest
  <2>3. PcInv(o)'
    BY <1>1, <1>3, <2>1 DEF PcInv, PcNames, Guard
  <2>4. GuardInv'
    BY <1>1, <2>1, GuardLeaves DEF IInv, Running, Free, Guard
  <2>5. RequestInv(o)'
    BY <1>4, <2>2, <2>3 DEF RequestInv
  <2> QED BY <1>1, <1>2, <1>7, <2>1, <2>4, <2>5, QuietStep
<1> QED BY <1>5, <1>6, <1>7 DEF Begin

LEMMA ReadFailsKeeps ==
  ASSUME IInv, NEW o \in Request, ReadFails(o)
  PROVE  IInv'
<1>1. /\ pc[o] = "read" /\ pc' = [pc EXCEPT ![o] = "failed"]
      /\ active' = active \ {Guard(o)}
      /\ UNCHANGED <<plan, things, known, seen, at, report, sent, late>>
  BY DEF ReadFails, End, Guard
<1>2. AtInv(o)' /\ ReportInv(o)' /\ SentInv(o)'
  BY <1>1, QuietRequest
<1>3. pc'[o] = "failed"
  BY <1>1 DEF IInv, ShapeInv
<1>4. PcInv(o)'
  BY <1>1, <1>3 DEF IInv, RequestInv, PcInv, PcNames, Guard
<1>5. GuardInv'
  BY <1>1, GuardLeaves DEF IInv, Running
<1>6. RequestInv(o)'
  BY <1>2, <1>4 DEF RequestInv
<1>7. known' \in known..Len(things) /\ at' = [at EXCEPT ![o] = at[o]]
  BY <1>1 DEF IInv, ShapeInv, ThingsInv
<1> QED BY <1>1, <1>5, <1>6, <1>7, QuietStep

\* An item that is due has a shortest one of its length beside it.
LEMMA NothingDue ==
  ASSUME plan \in Plans, NEW o \in Request, Level(o) = {}
  PROVE  Due(o) = {}
<1> DEFINE Lengths == {Len(p) : p \in Due(o)}
<1>1. \A p \in Due(o) : Len(p) \in Nat
  BY ItemFacts DEF Due
<1>2. SUFFICES ASSUME Due(o) # {} PROVE FALSE
  OBVIOUS
<1>3. Lengths \in SUBSET Nat /\ Lengths # {}
  BY <1>1, <1>2
<1>4. PICK n \in Lengths : \A y \in Lengths : n <= y
  <2> HIDE DEF Lengths
  <2> QED BY <1>3, LeastOf
<1>5. PICK p \in Due(o) : Len(p) = n
  OBVIOUS
<1>6. \A q \in Due(o) : Len(p) <= Len(q)
  BY <1>4, <1>5
<1> QED BY <1>5, <1>6 DEF Level

LEMMA FinishKeeps ==
  ASSUME IInv, NEW o \in Request, Finish(o)
  PROVE  IInv'
<1>1. /\ pc[o] = "level" /\ Level(o) = {}
      /\ UNCHANGED <<plan, things, known, seen, at, report, sent, late>>
  BY DEF Finish
<1>2. Due(o) = {} /\ Due(o)' = {}
  BY <1>1, NothingDue DEF IInv, ShapeInv, Due
<1>3. known' \in known..Len(things) /\ at' = [at EXCEPT ![o] = at[o]]
  BY <1>1 DEF IInv, ShapeInv, ThingsInv
<1>4. CASE Guard(o) = "categories" /\ pc' = [pc EXCEPT ![o] = "sync"] /\ UNCHANGED active
  <2>1. AtInv(o)' /\ ReportInv(o)' /\ SentInv(o)'
    BY <1>1, <1>4, QuietRequest
  <2>2. pc'[o] = "sync"
    BY <1>4 DEF IInv, ShapeInv
  <2>3. PcInv(o)'
    BY <1>1, <1>2, <1>4, <2>2 DEF IInv, RequestInv, PcInv, PcNames, Guard
  <2>4. GuardInv'
    BY <1>1, <1>4, GuardStays DEF IInv, Running
  <2>5. RequestInv(o)'
    BY <2>1, <2>3 DEF RequestInv
  <2> QED BY <1>1, <1>3, <1>4, <2>4, <2>5, QuietStep
<1>5. CASE Guard(o) # "categories" /\ End(o, "done")
  <2>1. pc' = [pc EXCEPT ![o] = "done"] /\ active' = active \ {Guard(o)}
    BY <1>5 DEF End, Guard
  <2>2. AtInv(o)' /\ ReportInv(o)' /\ SentInv(o)'
    BY <1>1, <2>1, QuietRequest
  <2>3. pc'[o] = "done"
    BY <2>1 DEF IInv, ShapeInv
  <2>4. PcInv(o)'
    BY <1>1, <1>2, <1>5, <2>3 DEF IInv, RequestInv, PcInv, PcNames, Guard
  <2>5. GuardInv'
    BY <1>1, <2>1, GuardLeaves DEF IInv, Running
  <2>6. RequestInv(o)'
    BY <2>2, <2>4 DEF RequestInv
  <2> QED BY <1>1, <1>3, <1>5, <2>1, <2>5, <2>6, QuietStep
<1> QED BY <1>4, <1>5 DEF Finish, Guard

LEMMA SyncKeeps ==
  ASSUME IInv, NEW o \in Request, SyncAndRebuildHierarchy(o)
  PROVE  IInv'
<1>1. /\ pc[o] = "sync"
      /\ UNCHANGED <<plan, things, seen, at, report, sent, late>>
  BY DEF SyncAndRebuildHierarchy
<1>2. /\ Guard(o) = "categories" /\ Due(o) = {} /\ Due(o)' = {}
      /\ seen'[o] \in 0..Len(things')
  BY <1>1 DEF IInv, RequestInv, PcInv, Due
<1>3. at' = [at EXCEPT ![o] = at[o]] /\ known \in 0..Len(things) /\ Len(things) \in Nat
  BY <1>1 DEF IInv, ShapeInv, ThingsInv
<1>4. PICK how \in {"done", "unsynced"} :
        /\ pc' = [pc EXCEPT ![o] = how] /\ active' = active \ {Guard(o)}
        /\ IF how = "done" THEN known' = Len(things) ELSE known' = known
  BY DEF SyncAndRebuildHierarchy, End, Guard
<1>5. AtInv(o)' /\ ReportInv(o)' /\ SentInv(o)'
  BY <1>1, <1>4, QuietRequest
<1>6. pc'[o] = how
  BY <1>4 DEF IInv, ShapeInv
<1>7. \A p \in DOMAIN at[o] : at[o][p] <= Len(things)
  BY <1>3 DEF IInv, RequestInv, AtInv
<1>8. PcInv(o)'
  BY <1>1, <1>2, <1>4, <1>6, <1>7 DEF PcInv, PcNames, Guard
<1>9. GuardInv'
  BY <1>1, <1>4, GuardLeaves DEF IInv, Running
<1>10. RequestInv(o)'
  BY <1>5, <1>8 DEF RequestInv
<1>11. known' \in known..Len(things)
  BY <1>3, <1>4
<1> QED BY <1>1, <1>3, <1>4, <1>9, <1>10, <1>11, QuietStep


-----------------------------------------------------------------------------
(* Steps of a walk.                                                        *)

LEMMA CategoryStays ==
  ASSUME plan' = plan
  PROVE  \A t : Category(t)' <=> Category(t)
BY DEF Category, Guard

\* While one request walks the categories no other does.
LEMMA OneWalk ==
  ASSUME IInv, NEW o \in Request, Guard(o) = "categories", pc[o] \in Running
  PROVE  \A k \in Request : Walks(k) => k = o
BY DEF IInv, GuardInv, Walks, Running

\* A walk that starts has all things before it, and overtakes what is late.
LEMMA ReadCategoriesKeeps ==
  ASSUME IInv, NEW o \in Request, ReadCategories(o)
  PROVE  IInv'
<1>1. /\ pc[o] = "read" /\ pc' = [pc EXCEPT ![o] = "level"]
      /\ seen' = [seen EXCEPT ![o] = Len(things)]
      /\ late' = {[c EXCEPT !.how = "overtaken"] : c \in late}
      /\ UNCHANGED <<plan, things, known, active, at, report, sent>>
  BY DEF ReadCategories
<1>2. /\ plan \in Plans
      /\ pc = [k \in Request |-> pc[k]] /\ seen = [k \in Request |-> seen[k]]
      /\ at = [k \in Request |-> at[k]] /\ report = [k \in Request |-> report[k]]
      /\ sent = [k \in Request |-> sent[k]]
      /\ known \in 0..Len(things) /\ Len(things) \in Nat
  BY DEF IInv, ShapeInv, ThingsInv
<1>3. /\ \A k \in Request : pc'[k] = IF k = o THEN "level" ELSE pc[k]
      /\ \A k \in Request : seen'[k] = IF k = o THEN Len(things) ELSE seen[k]
  BY <1>1, <1>2
<1>4. Guard(o) = "categories" /\ sent[o] = {}
  BY <1>1 DEF IInv, RequestInv, PcInv, SentInv
<1>5. \A d \in late' : /\ d \in [made : Seq(ThingRecord), how : {"overtaken"}]
                       /\ \E c \in late : d.made = c.made
  <2> SUFFICES ASSUME NEW c \in late, NEW d, d = [c EXCEPT !.how = "overtaken"]
               PROVE  /\ d \in [made : Seq(ThingRecord), how : {"overtaken"}]
                      /\ d.made = c.made
    BY <1>1
  <2>1. c \in [made : Seq(ThingRecord), how : {"late", "overtaken"}]
    BY DEF IInv, LateInv
  <2> QED BY <2>1
<1>6. ShapeInv'
  <2>1. pc' = [k \in Request |-> pc'[k]] /\ seen' = [k \in Request |-> seen'[k]]
    BY <1>1, <1>2
  <2> QED BY <1>1, <1>2, <2>1 DEF ShapeInv
<1>7. ThingsInv'
  BY <1>1, ThingsStay DEF IInv
<1>8. LateInv'
  <2>1. Grows
    BY <1>1, SameThings DEF IInv
  <2>2. \A d \in late' : \A k \in 1..Len(d.made) :
          Grounded(things', d.made[k], Len(things'))
    BY <1>1, <1>5, <2>1 DEF IInv, LateInv
  <2>3. \A t : Grounded(things, t, Len(things))' <=> Grounded(things', t, Len(things'))
    BY <1>1 DEF Grounded, IsPlace, Category, Guard
  <2>4. \A d \in late' : d \in [made : Seq(ThingRecord), how : {"late", "overtaken"}]
    BY <1>5
  <2> QED BY <2>2, <2>3, <2>4 DEF LateInv
<1>9. \A k \in Request : RequestInv(k)'
  <2>1. Grows
    BY <1>1, SameThings DEF IInv
  <2>2. ASSUME NEW k \in Request, k # o PROVE RequestInv(k)'
    <3>1. SameFor(k)
      BY <1>1, <1>3, <2>2 DEF SameFor
    <3> QED BY <1>1, <1>2, <2>1, <3>1, RequestStays DEF IInv
  <2>3. RequestInv(o)'
    <3>1. AtInv(o)' /\ ReportInv(o)' /\ SentInv(o)'
      BY <1>1, QuietRequest
    <3>2. PcInv(o)'
      BY <1>1, <1>2, <1>3, <1>4 DEF PcInv, PcNames, Guard
    <3> QED BY <3>1, <3>2 DEF RequestInv
  <2> QED BY <2>2, <2>3
<1>10. OwnInv'
  BY <1>1 DEF IInv, OwnInv
<1>11. GuardInv'
  BY <1>1, GuardStays DEF IInv, Running
<1>12. \A k \in Request : Walks(k)' => k = o
  BY <1>1, <1>3, <1>4 DEF IInv, GuardInv, Walks, Running, Guard
<1>13. SinceInv'
  <2>1. \A c \in late' : c.how # "late"
    BY <1>5
  <2>2. \A i \in 1..Len(things) : ~(i > seen'[o])
    BY <1>2, <1>3
  <2> QED BY <1>1, <1>12, <2>1, <2>2 DEF SinceInv
<1>14. NewInv'
  BY <1>1, <1>4, <1>12 DEF NewInv
<1>15. ApartInv'
  BY <1>5 DEF ApartInv
<1>16. OnceInv'
  BY <1>1, CategoryStays DEF IInv, OnceInv
<1> QED BY <1>6, <1>7, <1>8, <1>9, <1>10, <1>11, <1>13, <1>14, <1>15, <1>16
        DEF IInv

\* Categories that a level finds are those of its items.
LEMMA FoundPlace ==
  ASSUME IInv, NEW o \in Request, pc[o] = "level", NEW p \in Hits(o)
  PROVE  LET i == Max(Found(o, p))
         IN  /\ Guard(o) = "categories" /\ i \in 1..seen[o] /\ i \in 1..Len(things)
             /\ Category(things[i]) /\ things[i].item = p
             /\ things[i].name = Last(p) /\ things[i].parent = at[o][Front(p)]
<1> DEFINE i == Max(Found(o, p))
<1>1. /\ plan \in Plans /\ Len(things) \in Nat /\ AtInv(o)
      /\ seen[o] \in 0..Len(things) /\ (Guard(o) # "categories" => seen[o] = 0)
  BY DEF IInv, ShapeInv, ThingsInv, RequestInv, PcInv
<1>2. p \in plan[o].items /\ Front(p) \in DOMAIN at[o] /\ Found(o, p) # {}
  BY DEF Hits, Level, Due
<1>3. Found(o, p) \in SUBSET (0..seen[o]) /\ seen[o] \in Nat
  BY <1>1 DEF Found
<1>4. i \in Found(o, p)
  BY <1>2, <1>3, MaxIsGreatest
<1> HIDE DEF i
<1>5. /\ i \in 1..seen[o] /\ Category(things[i])
      /\ things[i].name = Last(p) /\ things[i].parent = at[o][Front(p)]
  BY <1>4 DEF Found, Category, Guard
<1>6. Guard(o) = "categories" /\ i \in 1..Len(things)
  BY <1>1, <1>5
<1>7. things[i] \in ThingRecord /\ Grounded(things, things[i], i - 1) /\ i - 1 \in Nat
  BY <1>6 DEF IInv, ThingsInv
<1>8. things[i].item = p
  BY <1>1, <1>2, <1>5, <1>6, <1>7, PlaceIsItem
<1> QED BY <1>5, <1>6, <1>8 DEF i

\* A category that is not overtaken and stands where an item is missing was
\* read by the walk that misses it, or made by it: neither can be.
LEMMA MissingIsNowhere ==
  ASSUME IInv, NEW o \in Request, Walks(o), pc[o] = "level",
         NEW p \in Level(o), p \notin Hits(o)
  PROVE  /\ \A i \in 1..Len(things) :
              Category(things[i]) /\ things[i].how # "overtaken" =>
                ~(things[i].name = Last(p) /\ things[i].parent = at[o][Front(p)])
         /\ \A c \in late : \A k \in 1..Len(c.made) :
              c.how = "late" /\ Category(c.made[k]) =>
                ~(c.made[k].name = Last(p) /\ c.made[k].parent = at[o][Front(p)])
<1>1. /\ plan \in Plans /\ Len(things) \in Nat /\ AtInv(o) /\ Guard(o) = "categories"
      /\ seen[o] \in 0..Len(things)
  BY DEF IInv, ShapeInv, ThingsInv, RequestInv, PcInv, Walks
<1>2. /\ p \in plan[o].items /\ p \notin DOMAIN report[o]
      /\ Front(p) \in DOMAIN at[o] /\ Found(o, p) = {}
  BY DEF Hits, Level, Due
<1>3. ASSUME NEW i \in 1..Len(things), Category(things[i]),
             things[i].how # "overtaken", things[i].name = Last(p),
             things[i].parent = at[o][Front(p)]
      PROVE  FALSE
  <2>1. ~(i \in 1..seen[o])
    BY <1>2, <1>3 DEF Found, Category, Guard
  <2>2. i > seen[o]
    BY <1>1, <2>1
  <2>3. things[i].by = o /\ things[i].item \in DOMAIN report[o]
    BY <1>3, <2>2 DEF IInv, SinceInv
  <2>4. things[i] \in ThingRecord /\ Grounded(things, things[i], i - 1) /\ i - 1 \in Nat
    BY DEF IInv, ThingsInv
  <2>5. things[i].item = p
    BY <1>1, <1>2, <1>3, <2>4, PlaceIsItem
  <2> QED BY <1>2, <2>3, <2>5
<1>4. ASSUME NEW c \in late, NEW k \in 1..Len(c.made), c.how = "late",
             Category(c.made[k]), c.made[k].name = Last(p),
             c.made[k].parent = at[o][Front(p)]
      PROVE  FALSE
  <2>1. c.made[k].by = o /\ c.made[k].item \in DOMAIN report[o]
    BY <1>4 DEF IInv, SinceInv
  <2>2. c.made[k] \in ThingRecord /\ Grounded(things, c.made[k], Len(things))
    BY DEF IInv, LateInv
  <2>3. c.made[k].item = p
    BY <1>1, <1>2, <1>4, <2>2, PlaceIsItem
  <2> QED BY <1>2, <2>1, <2>3
<1> QED BY <1>3, <1>4

\* A level: what is found is told and known, what is missing is to be sent.
LEMMA TakeLevelKeeps ==
  ASSUME IInv, NEW o \in Request, TakeLevel(o)
  PROVE  IInv'
<1> DEFINE H == Hits(o)
           f == [p \in H |-> Max(Found(o, p))]
<1>1. PICK call \in Calls(o) :
        /\ pc[o] = "level"
        /\ report' = [report EXCEPT ![o] = Told(o, H, "skipped")]
        /\ at' = [at EXCEPT ![o] = Over(f, at[o])]
        /\ sent' = [sent EXCEPT ![o] = call]
        /\ pc' = [pc EXCEPT ![o] = IF call = {} THEN "level" ELSE "call"]
        /\ UNCHANGED <<plan, things, known, active, seen, late>>
  BY DEF TakeLevel
<1>2. /\ plan \in Plans
      /\ pc = [k \in Request |-> pc[k]] /\ seen = [k \in Request |-> seen[k]]
      /\ at = [k \in Request |-> at[k]] /\ report = [k \in Request |-> report[k]]
      /\ sent = [k \in Request |-> sent[k]]
      /\ known \in 0..Len(things) /\ Len(things) \in Nat
  BY DEF IInv, ShapeInv, ThingsInv
<1>3. call \subseteq Level(o) \ H
  BY DEF Calls, kSubset
<1>4. /\ DOMAIN f = H
      /\ \A p \in H :
           /\ Guard(o) = "categories" /\ f[p] \in 1..Len(things)
           /\ Category(things[f[p]]) /\ things[f[p]].item = p
           /\ things[f[p]].name = Last(p) /\ things[f[p]].parent = at[o][Front(p)]
  BY <1>1, FoundPlace
<1>5. /\ H \subseteq plan[o].items \ DOMAIN report[o]
      /\ \A p \in Level(o) : Front(p) \in DOMAIN at[o]
      /\ Level(o) \subseteq plan[o].items \ DOMAIN report[o]
  BY DEF Hits, Level, Due
<1> HIDE DEF f, H
<1>6. RequestInv(o)
  BY DEF IInv
<1>7. \A p \in H : p \notin DOMAIN at[o]
  BY <1>5, <1>6, NewPlace DEF RequestInv
<1>8. /\ DOMAIN at'[o] = H \cup DOMAIN at[o]
      /\ \A p \in H : at'[o][p] = f[p]
      /\ \A p \in DOMAIN at[o] : at'[o][p] = at[o][p]
  <2>1. at'[o] = Over(f, at[o])
    BY <1>1, <1>2
  <2>2. /\ DOMAIN Over(f, at[o]) = DOMAIN f \cup DOMAIN at[o]
        /\ \A x \in DOMAIN f : Over(f, at[o])[x] = f[x]
        /\ \A x \in DOMAIN at[o] \ DOMAIN f : Over(f, at[o])[x] = at[o][x]
    BY OverFacts
  <2> QED BY <1>4, <1>7, <2>1, <2>2
<1>9. /\ DOMAIN report'[o] = H \cup DOMAIN report[o]
      /\ \A p \in DOMAIN report[o] : report'[o][p] = report[o][p]
  <2> DEFINE g == [p \in H |-> "skipped"]
  <2>1. report'[o] = Over(g, report[o])
    BY <1>1, <1>2 DEF Told
  <2>2. DOMAIN g = H
    OBVIOUS
  <2> HIDE DEF g
  <2>3. /\ DOMAIN Over(g, report[o]) = DOMAIN g \cup DOMAIN report[o]
        /\ \A p \in DOMAIN report[o] \ DOMAIN g : Over(g, report[o])[p] = report[o][p]
    BY OverFacts
  <2> QED BY <1>5, <2>1, <2>2, <2>3
<1>10. /\ \A k \in Request : k # o => SameFor(k)
       /\ pc'[o] \in {"level", "call"} /\ sent'[o] = call /\ seen'[o] = seen[o]
       /\ call # {} => pc'[o] = "call"
  BY <1>1, <1>2 DEF SameFor
<1>11. Grows
  BY <1>1, SameThings DEF IInv
<1>12. ShapeInv'
  <2>1. /\ pc' = [k \in Request |-> pc'[k]] /\ at' = [k \in Request |-> at'[k]]
        /\ report' = [k \in Request |-> report'[k]]
        /\ sent' = [k \in Request |-> sent'[k]]
    BY <1>1, <1>2
  <2> QED BY <1>1, <1>2, <2>1 DEF ShapeInv
<1>13. ThingsInv'
  BY <1>1, ThingsStay DEF IInv
<1>14. LateInv'
  <2>1. \A t : Grounded(things, t, Len(things))' <=> Grounded(things, t, Len(things))
    BY <1>1 DEF Grounded, IsPlace, Category, Guard
  <2> QED BY <1>1, <2>1 DEF IInv, LateInv
<1>15. RequestInv(o)'
  <2>1. DOMAIN at'[o] \subseteq Seq(Name)
    BY <1>2, <1>5, <1>6, <1>8, ItemFacts DEF RequestInv, AtInv
  <2>2. at'[o] \in [DOMAIN at'[o] -> 0..Len(things)]
    <3>1. \A p \in DOMAIN at'[o] : at'[o][p] \in 0..Len(things)
      BY <1>2, <1>4, <1>6, <1>8 DEF RequestInv, AtInv
    <3>2. at'[o] = [p \in DOMAIN at'[o] |-> at'[o][p]]
      <4>1. at'[o] = Over(f, at[o])
        BY <1>1, <1>2
      <4> QED BY <4>1 DEF Over
    <3> QED BY <3>1, <3>2
  <2>3. \A p \in DOMAIN at'[o] :
          /\ p \in plan[o].items => p \in DOMAIN report'[o]
          /\ Guard(o) # "courses" \/ p \notin plan[o].items =>
               IsPlace(things, o, at'[o][p], p)
    <3>1. \A p \in H : IsPlace(things, o, at'[o][p], p)
      BY <1>4, <1>8 DEF IsPlace, Category
    <3>2. \A p \in DOMAIN at[o] :
            /\ p \in plan[o].items => p \in DOMAIN report'[o]
            /\ Guard(o) # "courses" \/ p \notin plan[o].items =>
                 IsPlace(things, o, at'[o][p], p)
      BY <1>6, <1>8, <1>9 DEF RequestInv, AtInv
    <3> QED BY <1>8, <1>9, <3>1, <3>2
  <2>4. AtInv(o)'
    BY <1>1, <2>1, <2>2, <2>3 DEF AtInv, IsPlace, Category, Guard
  <2>5. \A p \in DOMAIN report'[o] :
          /\ Front(p) \in DOMAIN at'[o]
          /\ report'[o][p] # "error" =>
               /\ p \in DOMAIN at'[o]
               /\ things[at'[o][p]].name = Last(p)
               /\ things[at'[o][p]].parent = at'[o][Front(p)]
               /\ at'[o][p] # 0
    <3>1. \A p \in H : Front(p) \in DOMAIN at[o] /\ f[p] # 0
      BY <1>2, <1>4, <1>5 DEF H, Hits
    <3>2. \A p \in DOMAIN report[o] : Front(p) \in DOMAIN at[o]
      BY <1>6 DEF RequestInv, ReportInv
    <3>3. ASSUME NEW p \in DOMAIN report[o], report[o][p] # "error"
          PROVE  /\ p \in DOMAIN at'[o]
                 /\ things[at'[o][p]].name = Last(p)
                 /\ things[at'[o][p]].parent = at'[o][Front(p)]
                 /\ at'[o][p] # 0
      BY <1>6, <1>8, <3>2, <3>3 DEF RequestInv, ReportInv
    <3> QED BY <1>4, <1>8, <1>9, <3>1, <3>2, <3>3
  <2>6. ReportInv(o)'
    BY <1>1, <1>5, <1>6, <1>9, <2>5 DEF RequestInv, ReportInv
  <2>7. SentInv(o)'
    BY <1>1, <1>3, <1>5, <1>8, <1>9, <1>10 DEF SentInv
  <2>8. PcInv(o)'
    BY <1>1, <1>6, <1>10 DEF RequestInv, PcInv, PcNames, Guard
  <2> QED BY <2>4, <2>6, <2>7, <2>8 DEF RequestInv
<1>16. \A k \in Request : RequestInv(k)'
  <2>1. ASSUME NEW k \in Request, k # o PROVE RequestInv(k)'
    BY <1>1, <1>2, <1>10, <1>11, <2>1, RequestStays DEF IInv
  <2> QED BY <1>15, <2>1
<1>17. OwnInv'
  <2> SUFFICES ASSUME NEW i \in 1..Len(things), things[i].how = "answered"
               PROVE  /\ things[i].item \in DOMAIN at'[things[i].by]
                      /\ things[i].item \in DOMAIN report'[things[i].by]
                      /\ at'[things[i].by][things[i].item] = i
                      /\ report'[things[i].by][things[i].item] = "created"
    BY <1>1 DEF OwnInv
  <2>1. things[i].by \in Request
    BY <1>2, ThingFacts DEF IInv
  <2>2. /\ things[i].item \in DOMAIN at[things[i].by]
        /\ things[i].item \in DOMAIN report[things[i].by]
        /\ at[things[i].by][things[i].item] = i
        /\ report[things[i].by][things[i].item] = "created"
    BY DEF IInv, OwnInv
  <2> QED BY <1>8, <1>9, <1>10, <2>1, <2>2 DEF SameFor
<1>18. GuardInv'
  BY <1>1, GuardStays DEF IInv, Running
<1>19. \A k \in Request : Walks(k)' <=> Walks(k)
  BY <1>1, <1>10 DEF Walks, SameFor, Guard
<1>20. SinceInv'
  <2>1. \A k \in Request : DOMAIN report[k] \subseteq DOMAIN report'[k]
    BY <1>9, <1>10 DEF SameFor
  <2>2. \A t : Category(t)' <=> Category(t)
    BY <1>1, CategoryStays
  <2> QED BY <1>1, <1>19, <2>1, <2>2 DEF IInv, SinceInv
<1>21. NewInv'
  <2> SUFFICES ASSUME NEW k \in Request, Walks(k), NEW p \in sent'[k]
               PROVE  /\ \A i \in 1..Len(things) :
                           Category(things[i]) /\ things[i].how # "overtaken" =>
                             ~SamePlace(things[i], Thing(k, p, "answered")')
                      /\ \A c \in late : \A l \in 1..Len(c.made) :
                           c.how = "late" /\ Category(c.made[l]) =>
                             ~SamePlace(c.made[l], Thing(k, p, "answered")')
    <3>1. \A t : Category(t)' <=> Category(t)
      BY <1>1, CategoryStays
    <3> QED BY <1>1, <1>19, <3>1 DEF NewInv
  <2>1. CASE k # o
    <3>1. Thing(k, p, "answered")' = Thing(k, p, "answered") /\ p \in sent[k]
      BY <1>10, <2>1 DEF Thing, SameFor
    <3> QED BY <3>1 DEF IInv, NewInv
  <2>2. CASE k = o
    <3>1. p \in Level(o) /\ p \notin Hits(o) /\ Front(p) \in DOMAIN at[o]
      BY <1>3, <1>5, <1>10, <2>2 DEF H
    <3>2. /\ Thing(k, p, "answered")'.name = Last(p)
          /\ Thing(k, p, "answered")'.parent = at[o][Front(p)]
      BY <1>8, <2>2, <3>1 DEF Thing
    <3>3. Walks(o)
      BY <2>2
    <3> QED BY <1>1, <3>1, <3>2, <3>3, MissingIsNowhere DEF SamePlace
  <2> QED BY <2>1, <2>2
<1>22. ApartInv'
  BY <1>1, CategoryStays DEF IInv, ApartInv
<1>23. OnceInv'
  BY <1>1, CategoryStays DEF IInv, OnceInv
<1> QED BY <1>12, <1>13, <1>14, <1>16, <1>17, <1>18, <1>20, <1>21, <1>22, <1>23
        DEF IInv

\* What a walk sends stands nowhere: neither there nor under way.
LEMMA CallIsNew ==
  ASSUME IInv, NEW o \in Request, pc[o] = "call", Guard(o) = "categories",
         NEW how, NEW M, IsCall(M, o, how), NEW l \in 1..Len(M)
  PROVE  /\ \A i \in 1..Len(things) :
              Category(things[i]) /\ things[i].how # "overtaken" =>
                ~SamePlace(things[i], M[l])
         /\ \A c \in late : \A k \in 1..Len(c.made) :
              c.how = "late" /\ Category(c.made[k]) => ~SamePlace(c.made[k], M[l])
<1>1. /\ M[l].item \in sent[o] /\ M[l].name = Last(M[l].item)
      /\ M[l].parent = at[o][Front(M[l].item)]
  BY DEF IsCall
<1>2. Walks(o)
  BY DEF Walks
<1>3. /\ Thing(o, M[l].item, "answered").name = M[l].name
      /\ Thing(o, M[l].item, "answered").parent = M[l].parent
  BY <1>1 DEF Thing
<1>4. \A t : SamePlace(t, Thing(o, M[l].item, "answered")) <=> SamePlace(t, M[l])
  BY <1>3 DEF SamePlace
<1> QED BY <1>1, <1>2, <1>4 DEF IInv, NewInv

LEMMA CallFacts ==
  ASSUME IInv, NEW o \in Request, NEW how \in {"answered", "late"}
  PROVE  IsCall(Made(o, sent[o], how), o, how)
BY MadeFacts DEF IInv, ShapeInv, RequestInv

\* The items of a call after it, each created, or each an error.
LEMMA ToldAfter ==
  ASSUME IInv, NEW o \in Request, NEW what,
         report' = [report EXCEPT ![o] = Told(o, sent[o], what)]
  PROVE  /\ report' = [k \in Request |-> report'[k]]
         /\ \A k \in Request : k # o => report'[k] = report[k]
         /\ DOMAIN report'[o] = sent[o] \cup DOMAIN report[o]
         /\ \A p \in sent[o] : report'[o][p] = what
         /\ \A p \in DOMAIN report[o] : report'[o][p] = report[o][p]
<1>1. report = [k \in Request |-> report[k]]
  BY DEF IInv, ShapeInv
<1> DEFINE g == [p \in sent[o] |-> what]
<1>2. report'[o] = Over(g, report[o]) /\ \A k \in Request : k # o => report'[k] = report[k]
  BY <1>1 DEF Told
<1>3. /\ DOMAIN report'[o] = sent[o] \cup DOMAIN report[o]
      /\ \A p \in sent[o] : report'[o][p] = what
      /\ \A p \in DOMAIN report[o] \ sent[o] : report'[o][p] = report[o][p]
  <2>1. DOMAIN g = sent[o] /\ \A p \in sent[o] : g[p] = what
    OBVIOUS
  <2> HIDE DEF g
  <2>2. /\ DOMAIN Over(g, report[o]) = DOMAIN g \cup DOMAIN report[o]
        /\ \A p \in DOMAIN g : Over(g, report[o])[p] = g[p]
        /\ \A p \in DOMAIN report[o] \ DOMAIN g : Over(g, report[o])[p] = report[o][p]
    BY OverFacts
  <2> QED BY <1>2, <2>1, <2>2
<1>4. \A p \in DOMAIN report[o] : p \notin sent[o]
  BY DEF IInv, RequestInv, SentInv
<1>5. report' = [k \in Request |-> report'[k]]
  BY <1>1
<1> QED BY <1>2, <1>3, <1>4, <1>5

\* An answer: what was sent is there, known and told.
LEMMA AnsweredKeeps ==
  ASSUME IInv, NEW o \in Request, Answered(o)
  PROVE  IInv'
<1> DEFINE M == Made(o, sent[o], "answered")
           n == Len(things)
           f == [p \in sent[o] |-> CHOOSE i \in DOMAIN things' :
                                     i > n /\ things'[i].item = p]
<1>1. /\ pc[o] = "call" /\ things' = things \o M
      /\ at' = [at EXCEPT ![o] = Over(f, at[o])]
      /\ report' = [report EXCEPT ![o] = Told(o, sent[o], "created")]
      /\ sent' = [sent EXCEPT ![o] = {}]
      /\ pc' = [pc EXCEPT ![o] = "level"]
      /\ UNCHANGED <<plan, known, active, seen, late>>
  BY DEF Answered
<1>2. /\ plan \in Plans
      /\ pc = [k \in Request |-> pc[k]] /\ seen = [k \in Request |-> seen[k]]
      /\ at = [k \in Request |-> at[k]] /\ report = [k \in Request |-> report[k]]
      /\ sent = [k \in Request |-> sent[k]]
      /\ known \in 0..n /\ n \in Nat /\ things \in Seq(ThingRecord)
  BY DEF IInv, ShapeInv, ThingsInv
<1>3. IsCall(M, o, "answered")
  BY CallFacts
<1> HIDE DEF M
<1>4. /\ M \in Seq(ThingRecord) /\ Len(M) \in Nat
      /\ \A k \in 1..Len(M) :
           /\ M[k] \in ThingRecord /\ M[k].by = o /\ M[k].item \in sent[o]
           /\ M[k].how = "answered" /\ M[k].name = Last(M[k].item)
           /\ M[k].parent = at[o][Front(M[k].item)]
           /\ Grounded(things, M[k], n)
      /\ \A k, l \in 1..Len(M) : M[k].item = M[l].item => k = l
      /\ \A p \in sent[o] : \E k \in 1..Len(M) : M[k].item = p
  BY <1>3 DEF IsCall
<1>5. /\ things' \in Seq(ThingRecord) /\ Len(things') = n + Len(M)
      /\ DOMAIN things' = 1..(n + Len(M))
      /\ \A i \in 1..n : things'[i] = things[i]
      /\ \A k \in 1..Len(M) : things'[n + k] = M[k]
  BY <1>1, <1>2, <1>4
<1> HIDE DEF n
<1>6. \A i \in 1..Len(things') : i > n => i - n \in 1..Len(M) /\ things'[i] = M[i - n]
  <2> TAKE i \in 1..Len(things')
  <2> HAVE i > n
  <2>1. i - n \in 1..Len(M) /\ n + (i - n) = i
    BY <1>2, <1>4, <1>5
  <2> QED BY <1>5, <2>1
<1>7. Grows
  BY <1>2, <1>4, <1>5 DEF Grows, n
<1>8. /\ DOMAIN f = sent[o]
      /\ \A p \in sent[o] : f[p] \in 1..Len(things') /\ f[p] > n /\ things'[f[p]].item = p
  <2>1. ASSUME NEW p \in sent[o]
        PROVE  \E i \in DOMAIN things' : i > n /\ things'[i].item = p
    <3>1. PICK k \in 1..Len(M) : M[k].item = p
      BY <1>4
    <3>2. n + k \in DOMAIN things' /\ n + k > n /\ things'[n + k].item = p
      BY <1>2, <1>4, <1>5, <3>1
    <3> QED BY <3>2
  <2> QED BY <1>5, <2>1
<1>9. \A i \in 1..Len(things') : i > n =>
        things'[i].by = o /\ things'[i].item \in sent[o] /\ f[things'[i].item] = i
  <2> TAKE i \in 1..Len(things')
  <2> HAVE i > n
  <2>0. i - n \in 1..Len(M) /\ things'[i] = M[i - n]
    BY <1>6
  <2>1. /\ i - n \in 1..Len(M) /\ things'[i] = M[i - n]
        /\ M[i - n].item \in sent[o] /\ M[i - n].by = o
    BY <1>4, <2>0
  <2> DEFINE j == f[things'[i].item]
  <2>2. j \in 1..Len(things') /\ j > n /\ things'[j].item = things'[i].item
    BY <1>8, <2>1
  <2> HIDE DEF j
  <2>3. j - n \in 1..Len(M) /\ things'[j] = M[j - n]
    BY <1>6, <2>2
  <2>4. j - n = i - n
    BY <1>4, <2>1, <2>2, <2>3
  <2>5. j = i
    BY <1>2, <1>5, <2>2, <2>4
  <2> QED BY <2>1, <2>5 DEF j
<1> HIDE DEF f
<1>10. RequestInv(o)
  BY DEF IInv
<1>11. /\ sent[o] \subseteq plan[o].items \ DOMAIN report[o]
       /\ \A p \in sent[o] : Front(p) \in DOMAIN at[o] /\ p \notin DOMAIN at[o]
  BY <1>10, NewPlace DEF RequestInv, SentInv
<1>12. /\ DOMAIN at'[o] = sent[o] \cup DOMAIN at[o]
       /\ \A p \in sent[o] : at'[o][p] = f[p]
       /\ \A p \in DOMAIN at[o] : at'[o][p] = at[o][p]
       /\ at'[o] = [p \in DOMAIN at'[o] |-> at'[o][p]]
  <2>1. at'[o] = Over(f, at[o])
    BY <1>1, <1>2
  <2>2. /\ DOMAIN Over(f, at[o]) = DOMAIN f \cup DOMAIN at[o]
        /\ \A x \in DOMAIN f : Over(f, at[o])[x] = f[x]
        /\ \A x \in DOMAIN at[o] \ DOMAIN f : Over(f, at[o])[x] = at[o][x]
    BY OverFacts
  <2>3. Over(f, at[o]) = [p \in DOMAIN Over(f, at[o]) |-> Over(f, at[o])[p]]
    BY DEF Over
  <2> QED BY <1>8, <1>11, <2>1, <2>2, <2>3
<1>13. /\ report' = [k \in Request |-> report'[k]]
       /\ \A k \in Request : k # o => report'[k] = report[k]
       /\ DOMAIN report'[o] = sent[o] \cup DOMAIN report[o]
       /\ \A p \in sent[o] : report'[o][p] = "created"
       /\ \A p \in DOMAIN report[o] : report'[o][p] = report[o][p]
  BY <1>1, ToldAfter
<1>14. /\ \A k \in Request : k # o => SameFor(k)
       /\ pc'[o] = "level" /\ sent'[o] = {} /\ seen'[o] = seen[o]
  BY <1>1, <1>2, <1>13 DEF SameFor
<1>15. ShapeInv'
  <2>1. /\ pc' = [k \in Request |-> pc'[k]] /\ at' = [k \in Request |-> at'[k]]
        /\ sent' = [k \in Request |-> sent'[k]]
    BY <1>1, <1>2
  <2>2. known' \in 0..Len(things')
    BY <1>1, <1>2, <1>4, <1>5
  <2> QED BY <1>1, <1>2, <1>13, <2>1, <2>2 DEF ShapeInv
<1>16. \A t : /\ Category(t)' <=> Category(t)
              /\ \A m : Grounded(things, t, m)' <=> Grounded(things', t, m)
  BY <1>1 DEF Grounded, IsPlace, Category, Guard
<1>17. ThingsInv'
  <2>1. ASSUME NEW i \in 1..Len(things') PROVE Grounded(things', things'[i], i - 1)
    <3>1. CASE i > n
      <4>1. things'[i] = M[i - n] /\ Grounded(things, M[i - n], n)
        BY <1>4, <1>6, <3>1
      <4>2. n \in 0..Len(things) /\ i - 1 \in Nat /\ n <= i - 1
        BY <1>2, <3>1 DEF n
      <4> QED BY <1>7, <4>1, <4>2, GroundedStays
    <3>2. CASE ~(i > n)
      <4>1. i \in 1..n /\ i - 1 \in 0..n /\ i - 1 \in Nat
        BY <1>2, <1>5, <3>2
      <4>2. things'[i] = things[i] /\ Grounded(things, things[i], i - 1)
        BY <1>5, <4>1 DEF IInv, ThingsInv, n
      <4> QED BY <1>7, <4>1, <4>2, GroundedStays DEF n
    <3> QED BY <3>1, <3>2
  <2> QED BY <1>5, <1>16, <2>1 DEF ThingsInv
<1>18. LateInv'
  <2>1. \A c \in late : \A k \in 1..Len(c.made) :
          Grounded(things', c.made[k], Len(things'))
    BY <1>1, <1>7, LateStays DEF IInv, LateInv
  <2> QED BY <1>1, <1>16, <2>1 DEF IInv, LateInv
<1>19. RequestInv(o)'
  <2>1. /\ DOMAIN at'[o] \subseteq Seq(Name)
        /\ at'[o] \in [DOMAIN at'[o] -> 0..Len(things')]
    <3>1. \A p \in DOMAIN at'[o] : p \in Seq(Name) /\ at'[o][p] \in 0..Len(things')
      BY <1>2, <1>5, <1>4, <1>8, <1>10, <1>11, <1>12, ItemFacts
         DEF RequestInv, AtInv, n
    <3> QED BY <1>12, <3>1
  <2>2. \A p \in DOMAIN at'[o] :
          /\ p \in plan[o].items => p \in DOMAIN report'[o]
          /\ Guard(o) # "courses" \/ p \notin plan[o].items =>
               IsPlace(things', o, at'[o][p], p)
    <3>1. ASSUME NEW p \in sent[o], Guard(o) # "courses"
          PROVE  IsPlace(things', o, at'[o][p], p)
      <4>1. /\ at'[o][p] \in 1..Len(things') /\ at'[o][p] > n
            /\ things'[at'[o][p]].item = p
        BY <1>8, <1>12
      <4>2. things'[at'[o][p]].by = o
        BY <1>9, <4>1
      <4>3. Guard(o)' = Guard(o)
        BY <1>1 DEF Guard
      <4> HIDE DEF n
      <4> QED BY <3>1, <4>1, <4>2, <4>3 DEF IsPlace
    <3>2. ASSUME NEW p \in DOMAIN at[o]
          PROVE  /\ p \in plan[o].items => p \in DOMAIN report'[o]
                 /\ Guard(o) # "courses" \/ p \notin plan[o].items =>
                      IsPlace(things', o, at'[o][p], p)
      <4>1. /\ p \in plan[o].items => p \in DOMAIN report[o]
            /\ Guard(o) # "courses" \/ p \notin plan[o].items =>
                 IsPlace(things, o, at[o][p], p)
            /\ at[o][p] \in 0..Len(things)
        BY <1>10 DEF RequestInv, AtInv
      <4> QED BY <1>7, <1>12, <1>13, <4>1, PlaceStays
    <3> QED BY <1>11, <1>12, <1>13, <3>1, <3>2
  <2>3. AtInv(o)'
    BY <1>1, <2>1, <2>2 DEF AtInv, IsPlace, Category, Guard
  <2>4. ASSUME NEW p \in DOMAIN report'[o]
        PROVE  /\ Front(p) \in DOMAIN at'[o]
               /\ report'[o][p] # "error" =>
                    /\ p \in DOMAIN at'[o]
                    /\ things'[at'[o][p]].name = Last(p)
                    /\ things'[at'[o][p]].parent = at'[o][Front(p)]
                    /\ at'[o][p] # 0
    <3>1. CASE p \in sent[o]
      <4>1. /\ at'[o][p] \in 1..Len(things') /\ at'[o][p] > n
            /\ things'[at'[o][p]].item = p
        BY <1>8, <1>12, <3>1
      <4>2. \A i \in 1..Len(things') : i > n =>
              /\ things'[i].name = Last(things'[i].item)
              /\ things'[i].parent = at[o][Front(things'[i].item)]
        BY <1>4, <1>6
      <4> QED BY <1>2, <1>11, <1>12, <3>1, <4>1, <4>2
    <3>2. CASE p \in DOMAIN report[o]
      <4>1. /\ Front(p) \in DOMAIN at[o]
            /\ report[o][p] # "error" =>
                 /\ p \in DOMAIN at[o] /\ things[at[o][p]].name = Last(p)
                 /\ things[at[o][p]].parent = at[o][Front(p)] /\ at[o][p] # 0
        BY <1>10, <3>2 DEF RequestInv, ReportInv
      <4>2. p \in DOMAIN at[o] /\ at[o][p] # 0 => things'[at[o][p]] = things[at[o][p]]
        BY <1>7, <1>10 DEF RequestInv, AtInv, Grows
      <4> QED BY <1>12, <1>13, <3>2, <4>1, <4>2
    <3> QED BY <1>13, <3>1, <3>2
  <2>5. ReportInv(o)'
    BY <1>1, <1>10, <1>11, <1>13, <2>4 DEF RequestInv, ReportInv
  <2>6. SentInv(o)'
    BY <1>14 DEF SentInv
  <2>7. seen'[o] \in 0..Len(things')
    BY <1>2, <1>4, <1>5, <1>10, <1>14 DEF RequestInv, PcInv, n
  <2>8. PcInv(o)'
    BY <1>1, <1>10, <1>14, <2>7 DEF RequestInv, PcInv, PcNames, Guard
  <2> QED BY <2>3, <2>5, <2>6, <2>8 DEF RequestInv
<1>20. \A k \in Request : RequestInv(k)'
  <2>1. ASSUME NEW k \in Request, k # o PROVE RequestInv(k)'
    <3>1. SameFor(k) /\ RequestInv(k)
      BY <1>14, <2>1 DEF IInv
    <3>2. known \in Nat /\ known' \in Nat /\ known <= known'
      BY <1>1, <1>2
    <3> QED BY <1>1, <1>7, <3>1, <3>2, RequestStays
  <2> QED BY <1>19, <2>1
<1>21. OwnInv'
  <2> SUFFICES ASSUME NEW i \in 1..Len(things'), things'[i].how = "answered"
               PROVE  /\ things'[i].item \in DOMAIN at'[things'[i].by]
                      /\ things'[i].item \in DOMAIN report'[things'[i].by]
                      /\ at'[things'[i].by][things'[i].item] = i
                      /\ report'[things'[i].by][things'[i].item] = "created"
    BY DEF OwnInv
  <2>1. CASE i > n
    <3>1. things'[i].by = o /\ things'[i].item \in sent[o] /\ f[things'[i].item] = i
      BY <1>9, <2>1
    <3> QED BY <1>12, <1>13, <3>1
  <2>2. CASE ~(i > n)
    <3>1. i \in 1..Len(things) /\ things'[i] = things[i]
      BY <1>2, <1>5, <2>2 DEF n
    <3>2. things[i].by \in Request
      BY <1>2, <3>1, ThingFacts DEF IInv
    <3>3. /\ things[i].item \in DOMAIN at[things[i].by]
          /\ things[i].item \in DOMAIN report[things[i].by]
          /\ at[things[i].by][things[i].item] = i
          /\ report[things[i].by][things[i].item] = "created"
      BY <3>1 DEF IInv, OwnInv
    <3> QED BY <1>12, <1>13, <1>14, <3>1, <3>2, <3>3 DEF SameFor
  <2> QED BY <2>1, <2>2
<1>22. GuardInv'
  BY <1>1, GuardStays DEF IInv, Running
<1>23. \A k \in Request : Walks(k)' => Walks(k)
  BY <1>1, <1>14 DEF Walks, SameFor, Guard
<1>24. \A k \in Request : k # o /\ Walks(k) => Guard(o) # "categories"
  BY <1>1, OneWalk DEF Running
<1>25. \A i \in 1..Len(things') :
         \/ i \in 1..n /\ things'[i] = things[i]
         \/ /\ i > n /\ i - n \in 1..Len(M) /\ things'[i] = M[i - n]
            /\ things'[i].by = o /\ things'[i].item \in sent[o]
            /\ Category(things'[i]) <=> Guard(o) = "categories"
  <2> TAKE i \in 1..Len(things')
  <2>1. CASE i > n
    BY <1>4, <1>6, <2>1 DEF Category
  <2>2. CASE ~(i > n)
    BY <1>2, <1>5, <2>2
  <2> QED BY <2>1, <2>2
<1>26. SinceInv'
  <2> SUFFICES ASSUME NEW k \in Request, Walks(k)
               PROVE  /\ \A i \in 1..Len(things') :
                           /\ i > seen'[k] /\ Category(things'[i])
                           /\ things'[i].how # "overtaken"
                           => things'[i].by = k /\ things'[i].item \in DOMAIN report'[k]
                      /\ \A c \in late : \A l \in 1..Len(c.made) :
                           c.how = "late" /\ Category(c.made[l]) =>
                             c.made[l].by = k /\ c.made[l].item \in DOMAIN report'[k]
    BY <1>1, <1>16, <1>23 DEF SinceInv
  <2>1. /\ \A i \in 1..n :
             i > seen[k] /\ Category(things[i]) /\ things[i].how # "overtaken" =>
               things[i].by = k /\ things[i].item \in DOMAIN report[k]
        /\ \A c \in late : \A l \in 1..Len(c.made) :
             c.how = "late" /\ Category(c.made[l]) =>
               c.made[l].by = k /\ c.made[l].item \in DOMAIN report[k]
    BY DEF IInv, SinceInv, n
  <2>2. seen'[k] = seen[k] /\ DOMAIN report[k] \subseteq DOMAIN report'[k]
    BY <1>1, <1>13, <1>14
  <2>3. \A i \in 1..Len(things') : i \in 1..n \/ ~Category(things'[i]) \/
          (things'[i].by = k /\ things'[i].item \in DOMAIN report'[k])
    BY <1>13, <1>24, <1>25
  <2> QED BY <1>5, <2>1, <2>2, <2>3
<1>27. NewInv'
  <2> SUFFICES ASSUME NEW k \in Request, Walks(k), NEW p \in sent'[k]
               PROVE  /\ \A i \in 1..Len(things') :
                           Category(things'[i]) /\ things'[i].how # "overtaken" =>
                             ~SamePlace(things'[i], Thing(k, p, "answered")')
                      /\ \A c \in late : \A l \in 1..Len(c.made) :
                           c.how = "late" /\ Category(c.made[l]) =>
                             ~SamePlace(c.made[l], Thing(k, p, "answered")')
    BY <1>1, <1>16, <1>23 DEF NewInv
  <2>1. k # o /\ p \in sent[k]
    BY <1>14 DEF SameFor
  <2>2. Thing(k, p, "answered")' = Thing(k, p, "answered")
    BY <1>14, <2>1 DEF Thing, SameFor
  <2>3. \A i \in 1..Len(things') : Category(things'[i]) =>
          i \in 1..n /\ things'[i] = things[i]
    BY <1>24, <1>25, <2>1
  <2> QED BY <2>1, <2>2, <2>3 DEF IInv, NewInv, n
<1>28. \A l \in 1..Len(M) : Guard(o) = "categories" =>
         /\ \A i \in 1..Len(things) :
              Category(things[i]) /\ things[i].how # "overtaken" =>
                ~SamePlace(things[i], M[l])
         /\ \A c \in late : \A k \in 1..Len(c.made) :
              c.how = "late" /\ Category(c.made[k]) => ~SamePlace(c.made[k], M[l])
  BY <1>1, <1>3, CallIsNew
<1>29. \A t, u : SamePlace(t, u) => SamePlace(u, t)
  BY DEF SamePlace
<1>30. ApartInv'
  <2>1. \A c \in late : c.how = "late" => \A k \in 1..Len(c.made) :
          Category(c.made[k]) => \A i \in 1..Len(things') :
            Category(things'[i]) /\ things'[i].how # "overtaken" =>
              ~SamePlace(things'[i], c.made[k])
    <3> SUFFICES ASSUME NEW c \in late, c.how = "late", NEW k \in 1..Len(c.made),
                        Category(c.made[k]), NEW i \in 1..Len(things'),
                        Category(things'[i]), things'[i].how # "overtaken"
                 PROVE  ~SamePlace(things'[i], c.made[k])
      OBVIOUS
    <3>1. CASE i \in 1..n /\ things'[i] = things[i]
      BY <3>1 DEF IInv, ApartInv, n
    <3>2. CASE i - n \in 1..Len(M) /\ things'[i] = M[i - n] /\ Guard(o) = "categories"
      BY <1>28, <1>29, <3>2
    <3> QED BY <1>25, <3>1, <3>2
  <2>2. \A c \in late : c.how = "late" => \A k \in 1..Len(c.made) :
          Category(c.made[k]) => \A d \in late : \A l \in 1..Len(d.made) :
            /\ d.how = "late" /\ Category(d.made[l])
            /\ SamePlace(c.made[k], d.made[l])
            => c = d /\ k = l
    BY DEF IInv, ApartInv
  <2>3. late' = late /\ \A t : Category(t)' <=> Category(t)
    BY <1>1, <1>16
  <2> QED BY <2>1, <2>2, <2>3 DEF ApartInv
<1>31. OnceInv'
  <2> SUFFICES ASSUME NEW i \in 1..Len(things'), NEW j \in 1..Len(things'), i # j,
                      Category(things'[i]), Category(things'[j]),
                      SamePlace(things'[i], things'[j]),
                      things'[i].how # "overtaken", things'[j].how # "overtaken"
               PROVE  FALSE
    BY <1>16 DEF OnceInv
  <2>1. CASE i \in 1..n /\ j \in 1..n
    BY <1>5, <2>1 DEF IInv, OnceInv, n
  <2>2. CASE i \in 1..n /\ j \notin 1..n
    <3>1. j - n \in 1..Len(M) /\ things'[j] = M[j - n] /\ Guard(o) = "categories"
      BY <1>25, <2>2
    <3>2. i \in 1..Len(things) /\ things'[i] = things[i]
      BY <1>5, <2>2 DEF n
    <3> QED BY <1>28, <3>1, <3>2
  <2>3. CASE i \notin 1..n /\ j \in 1..n
    <3>1. i - n \in 1..Len(M) /\ things'[i] = M[i - n] /\ Guard(o) = "categories"
      BY <1>25, <2>3
    <3>2. j \in 1..Len(things) /\ things'[j] = things[j]
      BY <1>5, <2>3 DEF n
    <3> QED BY <1>28, <1>29, <3>1, <3>2
  <2>4. CASE i \notin 1..n /\ j \notin 1..n
    <3>1. /\ i - n \in 1..Len(M) /\ things'[i] = M[i - n] /\ Guard(o) = "categories"
          /\ j - n \in 1..Len(M) /\ things'[j] = M[j - n]
      BY <1>25, <2>4
    <3>2. i - n = j - n
      BY <1>2, <1>3, <1>10, <3>1, MadeApart DEF IInv, RequestInv
    <3> QED BY <1>2, <1>5, <3>2
  <2> QED BY <2>1, <2>2, <2>3, <2>4
<1> QED BY <1>15, <1>17, <1>18, <1>20, <1>21, <1>22, <1>26, <1>27, <1>30, <1>31
        DEF IInv

\* No answer: what was sent is an error, and may still be made.
LEMMA NoAnswerKeeps ==
  ASSUME IInv, NEW o \in Request, NoAnswer(o)
  PROVE  IInv'
<1> DEFINE M == Made(o, sent[o], "late")
           r == [made |-> M, how |-> "late"]
<1>1. /\ pc[o] = "call" /\ late' \in {late, late \cup {r}}
      /\ report' = [report EXCEPT ![o] = Told(o, sent[o], "error")]
      /\ sent' = [sent EXCEPT ![o] = {}]
      /\ UNCHANGED <<plan, things, known, seen, at>>
  BY DEF NoAnswer
<1>2. /\ plan \in Plans
      /\ pc = [k \in Request |-> pc[k]] /\ seen = [k \in Request |-> seen[k]]
      /\ at = [k \in Request |-> at[k]] /\ report = [k \in Request |-> report[k]]
      /\ sent = [k \in Request |-> sent[k]]
      /\ known \in 0..Len(things) /\ Len(things) \in Nat
  BY DEF IInv, ShapeInv, ThingsInv
<1>3. PICK how \in {"level", "failed"} :
        /\ pc' = [pc EXCEPT ![o] = how]
        /\ IF how = "failed"
           THEN Guard(o) # "categories" /\ active' = active \ {Guard(o)}
           ELSE active' = active
  <2>1. plan[o].via = "quick" => Guard(o) # "categories"
    BY <1>2, PlanFacts
  <2> QED BY <2>1 DEF NoAnswer, End, Guard
<1>4. IsCall(M, o, "late")
  BY CallFacts
<1>5. r.made = M /\ r.how = "late"
  OBVIOUS
<1> HIDE DEF M
<1>6. /\ M \in Seq(ThingRecord) /\ r \in [made : Seq(ThingRecord), how : {"late", "overtaken"}]
      /\ \A k \in 1..Len(M) :
           /\ M[k].by = o /\ M[k].item \in sent[o]
           /\ Grounded(things, M[k], Len(things))
  BY <1>4 DEF IsCall
<1> HIDE DEF r
<1>7. \A c \in late' : c \in late \/ c = r
  BY <1>1
<1>8. /\ report' = [k \in Request |-> report'[k]]
      /\ \A k \in Request : k # o => report'[k] = report[k]
      /\ DOMAIN report'[o] = sent[o] \cup DOMAIN report[o]
      /\ \A p \in sent[o] : report'[o][p] = "error"
      /\ \A p \in DOMAIN report[o] : report'[o][p] = report[o][p]
  BY <1>1, ToldAfter
<1>9. /\ \A k \in Request : k # o => SameFor(k)
      /\ pc'[o] = how /\ sent'[o] = {} /\ seen'[o] = seen[o] /\ at'[o] = at[o]
  BY <1>1, <1>2, <1>3, <1>8 DEF SameFor
<1>10. ShapeInv'
  <2>1. pc' = [k \in Request |-> pc'[k]] /\ sent' = [k \in Request |-> sent'[k]]
    BY <1>1, <1>2, <1>3
  <2> QED BY <1>1, <1>2, <1>8, <2>1 DEF ShapeInv
<1>11. Grows /\ ThingsInv'
  BY <1>1, SameThings, ThingsStay DEF IInv
<1>12. LateInv'
  <2>1. \A t : Grounded(things, t, Len(things))' <=> Grounded(things, t, Len(things))
    BY <1>1 DEF Grounded, IsPlace, Category, Guard
  <2> QED BY <1>5, <1>6, <1>7, <2>1 DEF IInv, LateInv
<1>13. RequestInv(o)
  BY DEF IInv
<1>14. RequestInv(o)'
  <2>1. AtInv(o)'
    BY <1>1, <1>8, <1>11, <1>13, AtStays DEF RequestInv
  <2>2. ASSUME NEW p \in DOMAIN report'[o]
        PROVE  /\ p \in plan[o].items /\ Front(p) \in DOMAIN at[o]
               /\ report'[o][p] # "error" =>
                    /\ p \in DOMAIN at[o]
                    /\ things[at[o][p]].name = Last(p)
                    /\ things[at[o][p]].parent = at[o][Front(p)]
                    /\ at[o][p] # 0
    <3>1. CASE p \in sent[o]
      BY <1>8, <1>13, <3>1 DEF RequestInv, SentInv
    <3>2. CASE p \in DOMAIN report[o]
      BY <1>8, <1>13, <3>2 DEF RequestInv, ReportInv
    <3> QED BY <1>8, <3>1, <3>2
  <2>3. ReportInv(o)'
    BY <1>1, <2>2 DEF ReportInv
  <2>4. SentInv(o)'
    BY <1>9 DEF SentInv
  <2>5. PcInv(o)'
    BY <1>1, <1>9, <1>13 DEF RequestInv, PcInv, PcNames, Guard
  <2> QED BY <2>1, <2>3, <2>4, <2>5 DEF RequestInv
<1>15. \A k \in Request : RequestInv(k)'
  <2>1. ASSUME NEW k \in Request, k # o PROVE RequestInv(k)'
    BY <1>1, <1>2, <1>9, <1>11, <2>1, RequestStays DEF IInv
  <2> QED BY <1>14, <2>1
<1>16. OwnInv'
  <2> SUFFICES ASSUME NEW i \in 1..Len(things), things[i].how = "answered"
               PROVE  /\ things[i].item \in DOMAIN at[things[i].by]
                      /\ things[i].item \in DOMAIN report'[things[i].by]
                      /\ at[things[i].by][things[i].item] = i
                      /\ report'[things[i].by][things[i].item] = "created"
    BY <1>1 DEF OwnInv
  <2>1. things[i].by \in Request
    BY <1>2, ThingFacts DEF IInv
  <2>2. /\ things[i].item \in DOMAIN at[things[i].by]
        /\ things[i].item \in DOMAIN report[things[i].by]
        /\ at[things[i].by][things[i].item] = i
        /\ report[things[i].by][things[i].item] = "created"
    BY DEF IInv, OwnInv
  <2> QED BY <1>8, <2>1, <2>2
<1>17. GuardInv'
  <2>1. CASE how = "level"
    BY <1>1, <1>3, <2>1, GuardStays DEF IInv, Running
  <2>2. CASE how = "failed"
    BY <1>1, <1>3, <2>2, GuardLeaves DEF IInv, Running
  <2> QED BY <2>1, <2>2
<1>18. \A k \in Request : Walks(k)' => Walks(k)
  BY <1>1, <1>9 DEF Walks, SameFor, Guard
<1>19. \A k \in Request : k # o /\ Walks(k) => Guard(o) # "categories"
  BY <1>1, OneWalk DEF Running
<1>20. \A k \in 1..Len(M) : Category(M[k]) <=> Guard(o) = "categories"
  BY <1>6 DEF Category
<1>21. \A t : Category(t)' <=> Category(t)
  BY <1>1, CategoryStays
<1>22. SinceInv'
  <2> SUFFICES ASSUME NEW k \in Request, Walks(k)
               PROVE  /\ \A i \in 1..Len(things) :
                           /\ i > seen[k] /\ Category(things[i])
                           /\ things[i].how # "overtaken"
                           => things[i].by = k /\ things[i].item \in DOMAIN report'[k]
                      /\ \A c \in late' : \A l \in 1..Len(c.made) :
                           c.how = "late" /\ Category(c.made[l]) =>
                             c.made[l].by = k /\ c.made[l].item \in DOMAIN report'[k]
    BY <1>1, <1>18, <1>21 DEF SinceInv
  <2>1. /\ \A i \in 1..Len(things) :
             i > seen[k] /\ Category(things[i]) /\ things[i].how # "overtaken" =>
               things[i].by = k /\ things[i].item \in DOMAIN report[k]
        /\ \A c \in late : \A l \in 1..Len(c.made) :
             c.how = "late" /\ Category(c.made[l]) =>
               c.made[l].by = k /\ c.made[l].item \in DOMAIN report[k]
    BY DEF IInv, SinceInv
  <2>2. DOMAIN report[k] \subseteq DOMAIN report'[k]
    BY <1>8
  <2>3. \A l \in 1..Len(M) : Category(M[l]) =>
          M[l].by = k /\ M[l].item \in DOMAIN report'[k]
    BY <1>6, <1>8, <1>19, <1>20
  <2> QED BY <1>5, <1>7, <2>1, <2>2, <2>3
<1>23. NewInv'
  <2> SUFFICES ASSUME NEW k \in Request, Walks(k), NEW p \in sent'[k]
               PROVE  /\ \A i \in 1..Len(things) :
                           Category(things[i]) /\ things[i].how # "overtaken" =>
                             ~SamePlace(things[i], Thing(k, p, "answered")')
                      /\ \A c \in late' : \A l \in 1..Len(c.made) :
                           c.how = "late" /\ Category(c.made[l]) =>
                             ~SamePlace(c.made[l], Thing(k, p, "answered")')
    BY <1>1, <1>18, <1>21 DEF NewInv
  <2>1. k # o /\ p \in sent[k]
    BY <1>9 DEF SameFor
  <2>2. Thing(k, p, "answered")' = Thing(k, p, "answered")
    BY <1>1 DEF Thing
  <2>3. \A l \in 1..Len(M) : ~Category(M[l])
    BY <1>19, <1>20, <2>1
  <2> QED BY <1>5, <1>7, <2>1, <2>2, <2>3 DEF IInv, NewInv
<1>24. \A l \in 1..Len(M) : Guard(o) = "categories" =>
         /\ \A i \in 1..Len(things) :
              Category(things[i]) /\ things[i].how # "overtaken" =>
                ~SamePlace(things[i], M[l])
         /\ \A c \in late : \A k \in 1..Len(c.made) :
              c.how = "late" /\ Category(c.made[k]) => ~SamePlace(c.made[k], M[l])
  BY <1>1, <1>4, CallIsNew
<1>25. \A t, u : SamePlace(t, u) => SamePlace(u, t)
  BY DEF SamePlace
<1>26. ApartInv'
  <2> SUFFICES ASSUME NEW c \in late', c.how = "late", NEW k \in 1..Len(c.made),
                      Category(c.made[k])
               PROVE  /\ \A i \in 1..Len(things) :
                           Category(things[i]) /\ things[i].how # "overtaken" =>
                             ~SamePlace(things[i], c.made[k])
                      /\ \A d \in late' : \A l \in 1..Len(d.made) :
                           /\ d.how = "late" /\ Category(d.made[l])
                           /\ SamePlace(c.made[k], d.made[l])
                           => c = d /\ k = l
    BY <1>1, <1>21 DEF ApartInv
  <2>1. CASE c \in late
    <3>1. \A l \in 1..Len(M) : Category(M[l]) => ~SamePlace(c.made[k], M[l])
      BY <1>20, <1>24, <2>1
    <3> QED BY <1>5, <1>7, <2>1, <3>1 DEF IInv, ApartInv
  <2>2. CASE c = r
    <3>1. k \in 1..Len(M) /\ c.made = M /\ Guard(o) = "categories"
      BY <1>5, <1>20, <2>2
    <3>2. \A d \in late : \A l \in 1..Len(d.made) :
            d.how = "late" /\ Category(d.made[l]) => ~SamePlace(c.made[k], d.made[l])
      BY <1>24, <1>25, <3>1
    <3>3. \A l \in 1..Len(M) : SamePlace(M[k], M[l]) => k = l
      BY <1>2, <1>4, <1>13, <3>1, MadeApart DEF IInv, RequestInv
    <3> QED BY <1>5, <1>7, <1>24, <2>2, <3>1, <3>2, <3>3
  <2> QED BY <1>7, <2>1, <2>2
<1>27. OnceInv'
  BY <1>1, <1>21 DEF IInv, OnceInv
<1> QED BY <1>10, <1>11, <1>12, <1>15, <1>16, <1>17, <1>22, <1>23, <1>26, <1>27
        DEF IInv

\* Moodle does a call that was given up.
LEMMA LateCallKeeps ==
  ASSUME IInv, LateCall
  PROVE  IInv'
<1>1. PICK c \in late :
        /\ things' = things \o [k \in DOMAIN c.made |-> [c.made[k] EXCEPT !.how = c.how]]
        /\ late' = late \ {c}
        /\ UNCHANGED <<plan, known, active, pc, seen, at, report, sent>>
  BY DEF LateCall
<1> DEFINE n == Len(things)
           M == c.made
           L == [k \in DOMAIN M |-> [M[k] EXCEPT !.how = c.how]]
<1>2. /\ plan \in Plans /\ known \in 0..n /\ n \in Nat /\ things \in Seq(ThingRecord)
  BY DEF IInv, ShapeInv, ThingsInv
<1>3. /\ c \in [made : Seq(ThingRecord), how : {"late", "overtaken"}]
      /\ \A k \in 1..Len(M) : Grounded(things, M[k], n)
  BY DEF IInv, LateInv
<1> HIDE DEF n
<1>4. /\ M \in Seq(ThingRecord) /\ Len(M) \in Nat /\ DOMAIN M = 1..Len(M)
      /\ c.how \in {"late", "overtaken"}
  BY <1>3
<1> HIDE DEF M
<1>5. \A k \in 1..Len(M) :
        /\ M[k] \in ThingRecord /\ L[k] \in ThingRecord
        /\ L[k].name = M[k].name /\ L[k].parent = M[k].parent /\ L[k].by = M[k].by
        /\ L[k].item = M[k].item /\ L[k].how = c.how
  <2> TAKE k \in 1..Len(M)
  <2>1. M[k] \in ThingRecord
    BY <1>4
  <2>2. L[k] = [M[k] EXCEPT !.how = c.how]
    BY <1>4
  <2> HIDE DEF L
  <2> QED BY <1>4, <2>1, <2>2 DEF ThingRecord
<1>6. L \in Seq(ThingRecord) /\ Len(L) = Len(M)
  <2>1. L \in [1..Len(M) -> ThingRecord]
    BY <1>4, <1>5
  <2> HIDE DEF L
  <2> QED BY <1>4, <2>1
<1>7. things' = things \o L
  BY <1>1 DEF M
<1> HIDE DEF L
<1>8. /\ things' \in Seq(ThingRecord) /\ Len(things') = n + Len(M)
      /\ \A i \in 1..n : things'[i] = things[i]
      /\ \A k \in 1..Len(M) : things'[n + k] = L[k]
  <2>1. things \in Seq(ThingRecord) /\ n = Len(things)
    BY <1>2 DEF n
  <2> QED BY <1>4, <1>6, <1>7, <2>1
<1>9. \A i \in 1..Len(things') :
        \/ i \in 1..n /\ things'[i] = things[i]
        \/ i > n /\ i - n \in 1..Len(M) /\ things'[i] = L[i - n]
  <2> TAKE i \in 1..Len(things')
  <2>1. CASE i > n
    <3>1. i - n \in 1..Len(M) /\ n + (i - n) = i
      BY <1>2, <1>4, <1>8, <2>1
    <3> QED BY <1>8, <2>1, <3>1
  <2>2. CASE ~(i > n)
    <3>1. i \in 1..n
      BY <1>2, <1>4, <1>8, <2>2
    <3> QED BY <1>8, <3>1
  <2> QED BY <2>1, <2>2
<1>10. Grows
  BY <1>2, <1>4, <1>8 DEF Grows, n
<1>11. \A t : /\ Category(t)' <=> Category(t)
              /\ \A m : Grounded(things, t, m)' <=> Grounded(things', t, m)
  BY <1>1 DEF Grounded, IsPlace, Category, Guard
<1>12. \A k \in 1..Len(M) :
         /\ Category(L[k]) <=> Category(M[k])
         /\ Grounded(things, L[k], n)
         /\ \A t : /\ SamePlace(t, L[k]) <=> SamePlace(t, M[k])
                   /\ SamePlace(L[k], t) <=> SamePlace(M[k], t)
  <2> TAKE k \in 1..Len(M)
  <2>1. /\ L[k].name = M[k].name /\ L[k].parent = M[k].parent /\ L[k].by = M[k].by
        /\ L[k].item = M[k].item
    BY <1>5
  <2>2. Grounded(things, M[k], n)
    BY <1>3
  <2>3. Grounded(things, L[k], n)
    BY <2>1, <2>2 DEF Grounded
  <2> QED BY <2>1, <2>3 DEF Category, SamePlace
<1>13. ShapeInv'
  <2>1. known \in 0..Len(things')
    BY <1>2, <1>4, <1>8
  <2> QED BY <1>1, <2>1 DEF IInv, ShapeInv
<1>14. ThingsInv'
  <2>1. ASSUME NEW i \in 1..Len(things') PROVE Grounded(things', things'[i], i - 1)
    <3>1. CASE i > n
      <4>1. things'[i] = L[i - n] /\ Grounded(things, L[i - n], n)
        <5>1. i - n \in 1..Len(M) /\ things'[i] = L[i - n]
          BY <1>2, <1>9, <3>1
        <5> QED BY <1>12, <5>1
      <4>2. n \in 0..Len(things) /\ i - 1 \in Nat /\ n <= i - 1
        BY <1>2, <3>1 DEF n
      <4> QED BY <1>10, <4>1, <4>2, GroundedStays
    <3>2. CASE ~(i > n)
      <4>1. i \in 1..n /\ i - 1 \in 0..n /\ i - 1 \in Nat
        BY <1>2, <1>9, <3>2
      <4>2. things'[i] = things[i] /\ Grounded(things, things[i], i - 1)
        BY <1>8, <4>1 DEF IInv, ThingsInv, n
      <4> QED BY <1>10, <4>1, <4>2, GroundedStays DEF n
    <3> QED BY <3>1, <3>2
  <2> QED BY <1>8, <1>11, <2>1 DEF ThingsInv
<1>15. LateInv'
  <2>1. \A d \in late : \A k \in 1..Len(d.made) :
          Grounded(things', d.made[k], Len(things'))
    BY <1>1, <1>10, LateStays DEF IInv, LateInv
  <2> QED BY <1>1, <1>11, <2>1 DEF IInv, LateInv
<1>16. \A k \in Request : RequestInv(k)'
  <2>1. ASSUME NEW k \in Request PROVE RequestInv(k)'
    <3>1. SameFor(k) /\ RequestInv(k)
      BY <1>1 DEF IInv, SameFor
    <3>2. known \in Nat /\ known' \in Nat /\ known <= known'
      BY <1>1, <1>2
    <3> QED BY <1>1, <1>10, <3>1, <3>2, RequestStays
  <2> QED BY <2>1
<1>17. OwnInv'
  <2> SUFFICES ASSUME NEW i \in 1..Len(things'), things'[i].how = "answered"
               PROVE  /\ things'[i].item \in DOMAIN at[things'[i].by]
                      /\ things'[i].item \in DOMAIN report[things'[i].by]
                      /\ at[things'[i].by][things'[i].item] = i
                      /\ report[things'[i].by][things'[i].item] = "created"
    BY <1>1 DEF OwnInv
  <2>1. i \in 1..n /\ things'[i] = things[i]
    <3>1. CASE i \in 1..n /\ things'[i] = things[i]
      BY <3>1
    <3>2. CASE i - n \in 1..Len(M) /\ things'[i] = L[i - n]
      <4>1. L[i - n].how = c.how
        BY <1>5, <3>2
      <4>2. c.how # "answered"
        BY <1>4
      <4> QED BY <3>2, <4>1, <4>2
    <3> QED BY <1>9, <3>1, <3>2
  <2> QED BY <2>1 DEF IInv, OwnInv, n
<1>18. GuardInv'
  BY <1>1 DEF IInv, GuardInv, Guard
<1>19. \A k \in Request : Walks(k)' <=> Walks(k)
  BY <1>1 DEF Walks, Guard
<1>20. \A d \in late' : d \in late /\ d # c
  BY <1>1
<1>21. SinceInv'
  <2> SUFFICES ASSUME NEW k \in Request, Walks(k)'
               PROVE  /\ \A i \in 1..Len(things') :
                           /\ i > seen'[k] /\ Category(things[i])'
                           /\ things'[i].how # "overtaken"
                           => things'[i].by = k /\ things'[i].item \in DOMAIN report'[k]
                      /\ \A d \in late' : \A l \in 1..Len(d.made) :
                           d.how = "late" /\ Category(d.made[l])' =>
                             d.made[l].by = k /\ d.made[l].item \in DOMAIN report'[k]
    BY DEF SinceInv
  <2>0. Walks(k) /\ seen'[k] = seen[k] /\ report'[k] = report[k]
    BY <1>1, <1>19
  <2>1. /\ \A i \in 1..n :
             i > seen[k] /\ Category(things[i]) /\ things[i].how # "overtaken" =>
               things[i].by = k /\ things[i].item \in DOMAIN report[k]
        /\ \A d \in late : \A l \in 1..Len(d.made) :
             d.how = "late" /\ Category(d.made[l]) =>
               d.made[l].by = k /\ d.made[l].item \in DOMAIN report[k]
    BY <2>0 DEF IInv, SinceInv, n
  <2>2. \A l \in 1..Len(M) : c.how = "late" /\ Category(M[l]) =>
          M[l].by = k /\ M[l].item \in DOMAIN report[k]
    BY <2>1 DEF M
  <2>3. ASSUME NEW i \in 1..Len(things'), i > seen'[k], Category(things[i])',
               things'[i].how # "overtaken"
        PROVE  things'[i].by = k /\ things'[i].item \in DOMAIN report'[k]
    <3>0. Category(things'[i]) /\ i > seen[k]
      BY <1>11, <2>0, <2>3
    <3>1. CASE i \in 1..n /\ things'[i] = things[i]
      BY <2>0, <2>1, <2>3, <3>0, <3>1
    <3>2. CASE i - n \in 1..Len(M) /\ things'[i] = L[i - n]
      <4>1. Category(M[i - n]) /\ c.how = "late"
        BY <1>4, <1>5, <1>12, <2>3, <3>0, <3>2
      <4> QED BY <1>5, <2>0, <2>2, <3>2, <4>1
    <3> QED BY <1>9, <3>1, <3>2
  <2>4. ASSUME NEW d \in late', NEW l \in 1..Len(d.made), d.how = "late",
               Category(d.made[l])'
        PROVE  d.made[l].by = k /\ d.made[l].item \in DOMAIN report'[k]
    <3>1. Category(d.made[l]) /\ d \in late
      BY <1>11, <1>20, <2>4
    <3> QED BY <2>0, <2>1, <2>4, <3>1
  <2> QED BY <2>3, <2>4
<1>22. NewInv'
  <2> SUFFICES ASSUME NEW k \in Request, Walks(k), NEW p \in sent[k]
               PROVE  /\ \A i \in 1..Len(things') :
                           Category(things'[i]) /\ things'[i].how # "overtaken" =>
                             ~SamePlace(things'[i], Thing(k, p, "answered")')
                      /\ \A d \in late' : \A l \in 1..Len(d.made) :
                           d.how = "late" /\ Category(d.made[l]) =>
                             ~SamePlace(d.made[l], Thing(k, p, "answered")')
    BY <1>1, <1>11, <1>19 DEF NewInv
  <2>1. Thing(k, p, "answered")' = Thing(k, p, "answered")
    BY <1>1 DEF Thing
  <2>2. /\ \A i \in 1..n :
             Category(things[i]) /\ things[i].how # "overtaken" =>
               ~SamePlace(things[i], Thing(k, p, "answered"))
        /\ \A d \in late : \A l \in 1..Len(d.made) :
             d.how = "late" /\ Category(d.made[l]) =>
               ~SamePlace(d.made[l], Thing(k, p, "answered"))
    BY DEF IInv, NewInv, n
  <2>3. \A l \in 1..Len(M) : c.how = "late" /\ Category(M[l]) =>
          ~SamePlace(M[l], Thing(k, p, "answered"))
    BY <2>2 DEF M
  <2>4. ASSUME NEW i \in 1..Len(things'), Category(things'[i]),
               things'[i].how # "overtaken"
        PROVE  ~SamePlace(things'[i], Thing(k, p, "answered"))
    <3>1. CASE i \in 1..n /\ things'[i] = things[i]
      BY <2>2, <2>4, <3>1
    <3>2. CASE i - n \in 1..Len(M) /\ things'[i] = L[i - n]
      <4>1. Category(M[i - n]) /\ c.how = "late"
        BY <1>4, <1>5, <1>12, <2>4, <3>2
      <4> QED BY <1>12, <2>3, <3>2, <4>1
    <3> QED BY <1>9, <3>1, <3>2
  <2> QED BY <1>20, <2>1, <2>2, <2>4
<1>23. \A d \in late : d.how = "late" => \A k \in 1..Len(d.made) : Category(d.made[k]) =>
         /\ \A i \in 1..n :
              Category(things[i]) /\ things[i].how # "overtaken" =>
                ~SamePlace(things[i], d.made[k])
         /\ c.how = "late" => \A l \in 1..Len(M) :
              Category(M[l]) /\ SamePlace(d.made[k], M[l]) => d = c /\ k = l
  BY DEF IInv, ApartInv, n, M
<1>24. \A t, u : SamePlace(t, u) => SamePlace(u, t)
  BY DEF SamePlace
<1>25. ApartInv'
  <2>1. \A d \in late' : d.how = "late" => \A k \in 1..Len(d.made) :
          Category(d.made[k]) => \A i \in 1..Len(things') :
            Category(things'[i]) /\ things'[i].how # "overtaken" =>
              ~SamePlace(things'[i], d.made[k])
    <3> SUFFICES ASSUME NEW d \in late', d.how = "late", NEW k \in 1..Len(d.made),
                        Category(d.made[k]), NEW i \in 1..Len(things'),
                        Category(things'[i]), things'[i].how # "overtaken"
                 PROVE  ~SamePlace(things'[i], d.made[k])
      OBVIOUS
    <3>1. CASE i \in 1..n /\ things'[i] = things[i]
      BY <1>20, <1>23, <3>1
    <3>2. CASE i - n \in 1..Len(M) /\ things'[i] = L[i - n]
      <4>1. Category(M[i - n]) /\ c.how = "late"
        BY <1>4, <1>5, <1>12, <3>2
      <4>2. ~SamePlace(d.made[k], M[i - n])
        BY <1>20, <1>23, <3>2, <4>1
      <4> QED BY <1>12, <1>24, <3>2, <4>2
    <3> QED BY <1>9, <3>1, <3>2
  <2>2. \A d \in late' : d.how = "late" => \A k \in 1..Len(d.made) :
          Category(d.made[k]) => \A e \in late' : \A l \in 1..Len(e.made) :
            /\ e.how = "late" /\ Category(e.made[l]) /\ SamePlace(d.made[k], e.made[l])
            => d = e /\ k = l
    BY <1>20 DEF IInv, ApartInv
  <2> QED BY <1>11, <2>1, <2>2 DEF ApartInv
<1>26. OnceInv'
  <2> SUFFICES ASSUME NEW i \in 1..Len(things'), NEW j \in 1..Len(things'), i # j,
                      Category(things'[i]), Category(things'[j]),
                      SamePlace(things'[i], things'[j]),
                      things'[i].how # "overtaken", things'[j].how # "overtaken"
               PROVE  FALSE
    BY <1>11 DEF OnceInv
  <2>1. \A x \in 1..Len(things') : Category(things'[x]) /\ things'[x].how # "overtaken" =>
          \/ x \in 1..n /\ things'[x] = things[x]
          \/ /\ x - n \in 1..Len(M) /\ things'[x] = L[x - n] /\ Category(M[x - n])
             /\ c.how = "late"
    BY <1>4, <1>5, <1>9, <1>12
  <2>2. CASE i \in 1..n /\ things'[i] = things[i] /\ j \in 1..n /\ things'[j] = things[j]
    BY <2>2 DEF IInv, OnceInv, n
  <2>3. CASE /\ i \in 1..n /\ things'[i] = things[i]
             /\ j - n \in 1..Len(M) /\ things'[j] = L[j - n] /\ Category(M[j - n])
             /\ c.how = "late"
    BY <1>12, <1>23, <2>3 DEF M
  <2>4. CASE /\ j \in 1..n /\ things'[j] = things[j]
             /\ i - n \in 1..Len(M) /\ things'[i] = L[i - n] /\ Category(M[i - n])
             /\ c.how = "late"
    <3>1. SamePlace(M[i - n], things[j])
      BY <1>12, <2>4
    <3>2. c \in late /\ ~SamePlace(things[j], M[i - n])
      BY <1>23, <2>4 DEF M
    <3> QED BY <1>24, <3>1, <3>2
  <2>5. CASE /\ i - n \in 1..Len(M) /\ things'[i] = L[i - n] /\ Category(M[i - n])
             /\ j - n \in 1..Len(M) /\ things'[j] = L[j - n] /\ Category(M[j - n])
             /\ c.how = "late"
    <3>1. SamePlace(M[i - n], M[j - n])
      BY <1>12, <2>5
    <3>2. i - n = j - n
      BY <1>23, <2>5, <3>1 DEF M
    <3> QED BY <1>2, <1>4, <1>8, <3>2
  <2> QED BY <2>1, <2>2, <2>3, <2>4, <2>5
<1> QED BY <1>13, <1>14, <1>15, <1>16, <1>17, <1>18, <1>21, <1>22, <1>25, <1>26
        DEF IInv

\* A restart: what was running is dead, what was sent may still be made.
LEMMA RestartKeeps ==
  ASSUME IInv, Restart
  PROVE  IInv'
<1> DEFINE M(o) == Made(o, sent[o], "late")
           r(o) == [made |-> M(o), how |-> "late"]
<1>1. /\ active' = {}
      /\ pc' = [o \in Request |-> IF pc[o] \in Running THEN "dead" ELSE pc[o]]
      /\ late' = late \cup {r(o) : o \in {x \in Request : pc[x] = "call"}}
      /\ sent' = [o \in Request |-> {}]
      /\ UNCHANGED <<plan, things, known, seen, at, report>>
  BY DEF Restart
<1>2. plan \in Plans /\ known \in Nat /\ Len(things) \in Nat
  BY DEF IInv, ShapeInv, ThingsInv
<1>3. \A o \in Request : IsCall(M(o), o, "late") /\ r(o).made = M(o) /\ r(o).how = "late"
  BY CallFacts
<1> HIDE DEF M
<1>4. \A o \in Request :
        /\ r(o) \in [made : Seq(ThingRecord), how : {"late", "overtaken"}]
        /\ \A k \in 1..Len(M(o)) :
             /\ M(o)[k].by = o
             /\ Category(M(o)[k]) <=> Guard(o) = "categories"
             /\ Grounded(things, M(o)[k], Len(things))
  BY <1>3 DEF IsCall, Category
<1> HIDE DEF r
<1>5. \A c \in late' : c \in late \/ \E o \in Request : pc[o] = "call" /\ c = r(o)
  BY <1>1
<1>6. ShapeInv'
  <2>1. pc' = [k \in Request |-> pc'[k]] /\ sent' = [k \in Request |-> sent'[k]]
    BY <1>1
  <2> QED BY <1>1, <2>1 DEF IInv, ShapeInv
<1>7. Grows /\ ThingsInv'
  BY <1>1, SameThings, ThingsStay DEF IInv
<1>8. LateInv'
  <2>1. \A t : Grounded(things, t, Len(things))' <=> Grounded(things, t, Len(things))
    BY <1>1 DEF Grounded, IsPlace, Category, Guard
  <2> QED BY <1>1, <1>3, <1>4, <1>5, <2>1 DEF IInv, LateInv
<1>9. \A k \in Request : RequestInv(k)'
  <2> SUFFICES ASSUME NEW k \in Request PROVE RequestInv(k)'
    OBVIOUS
  <2>1. RequestInv(k)
    BY DEF IInv
  <2>2. AtInv(k)' /\ ReportInv(k)'
    BY <1>1, <1>7, <2>1, AtStays, ReportStays DEF RequestInv
  <2>3. SentInv(k)'
    BY <1>1 DEF SentInv
  <2>4. pc'[k] = IF pc[k] \in Running THEN "dead" ELSE pc[k]
    BY <1>1
  <2>5. Due(k)' = Due(k) /\ Guard(k)' = Guard(k)
    BY <1>1 DEF Due, Guard
  <2>6. PcInv(k)'
    BY <1>1, <2>1, <2>4, <2>5 DEF RequestInv, PcInv, PcNames
  <2> QED BY <2>2, <2>3, <2>6 DEF RequestInv
<1>10. OwnInv'
  BY <1>1 DEF IInv, OwnInv
<1>11. \A k \in Request : pc'[k] \notin Running /\ ~Walks(k)'
  BY <1>1 DEF Running, Walks
<1>12. GuardInv'
  BY <1>11 DEF GuardInv, Running
<1>13. SinceInv' /\ NewInv'
  BY <1>11 DEF SinceInv, NewInv
<1>14. \A o \in Request : pc[o] = "call" /\ Guard(o) = "categories" =>
         \A l \in 1..Len(M(o)) :
           /\ \A i \in 1..Len(things) :
                Category(things[i]) /\ things[i].how # "overtaken" =>
                  ~SamePlace(things[i], M(o)[l])
           /\ \A c \in late : \A k \in 1..Len(c.made) :
                c.how = "late" /\ Category(c.made[k]) => ~SamePlace(c.made[k], M(o)[l])
  BY <1>3, CallIsNew
<1>15. \A t, u : SamePlace(t, u) => SamePlace(u, t)
  BY DEF SamePlace
<1>16. ApartInv'
  <2> SUFFICES ASSUME NEW c \in late', c.how = "late", NEW k \in 1..Len(c.made),
                      Category(c.made[k])
               PROVE  /\ \A i \in 1..Len(things) :
                           Category(things[i]) /\ things[i].how # "overtaken" =>
                             ~SamePlace(things[i], c.made[k])
                      /\ \A d \in late' : \A l \in 1..Len(d.made) :
                           /\ d.how = "late" /\ Category(d.made[l])
                           /\ SamePlace(c.made[k], d.made[l])
                           => c = d /\ k = l
    BY <1>1, CategoryStays DEF ApartInv
  <2>1. CASE c \in late
    <3>1. \A o \in Request : pc[o] = "call" => \A l \in 1..Len(M(o)) :
            Category(M(o)[l]) => ~SamePlace(c.made[k], M(o)[l])
      BY <1>4, <1>14, <2>1
    <3>2. \A d \in late' : \A l \in 1..Len(d.made) :
            /\ d.how = "late" /\ Category(d.made[l]) /\ SamePlace(c.made[k], d.made[l])
            => d \in late
      BY <1>3, <1>5, <3>1
    <3> QED BY <2>1, <3>2 DEF IInv, ApartInv
  <2>2. CASE \E o \in Request : pc[o] = "call" /\ c = r(o)
    <3>1. PICK o \in Request : pc[o] = "call" /\ c = r(o)
      BY <2>2
    <3>2. k \in 1..Len(M(o)) /\ c.made = M(o) /\ Guard(o) = "categories"
      BY <1>3, <1>4, <3>1
    <3>3. \A d \in late : \A l \in 1..Len(d.made) :
            d.how = "late" /\ Category(d.made[l]) => ~SamePlace(c.made[k], d.made[l])
      BY <1>14, <1>15, <3>1, <3>2
    <3>4. \A x \in Request : pc[x] = "call" => \A l \in 1..Len(M(x)) :
            Category(M(x)[l]) => x = o
      BY <1>4, <3>1, <3>2 DEF IInv, GuardInv, Running
    <3>5. \A l \in 1..Len(M(o)) : SamePlace(M(o)[k], M(o)[l]) => k = l
      BY <1>2, <1>3, <3>2, MadeApart DEF IInv, RequestInv
    <3>6. \A d \in late' : \A l \in 1..Len(d.made) :
            /\ d.how = "late" /\ Category(d.made[l]) /\ SamePlace(c.made[k], d.made[l])
            => d = r(o)
      BY <1>3, <1>5, <3>3, <3>4
    <3> QED BY <1>3, <1>14, <3>1, <3>2, <3>5, <3>6
  <2> QED BY <1>5, <2>1, <2>2
<1>17. OnceInv'
  BY <1>1, CategoryStays DEF IInv, OnceInv
<1> QED BY <1>6, <1>7, <1>8, <1>9, <1>10, <1>12, <1>13, <1>16, <1>17 DEF IInv

-----------------------------------------------------------------------------
(* The invariant, and the properties that follow from it.                  *)

LEMMA InitInvariant ==
  ASSUME Init
  PROVE  IInv
<1> USE DEF Init
<1>1. plan \in Plans /\ Len(things) = 0 /\ things \in Seq(ThingRecord)
  OBVIOUS
<1>2. \A o \in Request :
        /\ pc[o] = "new" /\ seen[o] = 0 /\ report[o] = <<>> /\ sent[o] = {}
        /\ at[o] = IF Guard(o) = "courses" THEN <<>> ELSE [p \in {<<>>} |-> 0]
  BY DEF Guard
<1>3. ShapeInv
  <2>1. /\ pc = [k \in Request |-> pc[k]] /\ seen = [k \in Request |-> seen[k]]
        /\ at = [k \in Request |-> at[k]] /\ report = [k \in Request |-> report[k]]
        /\ sent = [k \in Request |-> sent[k]]
    OBVIOUS
  <2> QED BY <1>1, <2>1 DEF ShapeInv
<1>4. ThingsInv /\ LateInv /\ OwnInv /\ OnceInv /\ ApartInv
  BY <1>1 DEF ThingsInv, LateInv, OwnInv, OnceInv, ApartInv
<1>5. GuardInv /\ SinceInv /\ NewInv
  BY <1>2 DEF GuardInv, SinceInv, NewInv, Walks, Running
<1>6. ASSUME NEW o \in Request PROVE RequestInv(o)
  <2>1. DOMAIN report[o] = {}
    BY <1>2
  <2>2. /\ DOMAIN at[o] \in {{}, {<<>>}}
        /\ \A p \in DOMAIN at[o] : Guard(o) # "courses" /\ p = <<>> /\ at[o][p] = 0
        /\ at[o] \in [DOMAIN at[o] -> {0}]
    <3>1. CASE Guard(o) = "courses"
      <4>1. at[o] = <<>>
        BY <1>2, <3>1
      <4>2. DOMAIN <<>> = {} /\ <<>> \in [{} -> {0}]
        OBVIOUS
      <4> QED BY <4>1, <4>2
    <3>2. CASE Guard(o) # "courses"
      BY <1>2, <3>2
    <3> QED BY <3>1, <3>2
  <2>3. <<>> \notin plan[o].items /\ <<>> \in Seq(Name) /\ Len(<<>>) = 0
    <3>1. Len(<<>>) = 0
      OBVIOUS
    <3> QED BY <1>1, <3>1, ItemFacts
  <2>4. AtInv(o)
    <3>1. DOMAIN at[o] \subseteq Seq(Name) /\ at[o] \in [DOMAIN at[o] -> 0..Len(things)]
      <4>1. DOMAIN at[o] \subseteq Seq(Name)
        BY <2>2, <2>3
      <4>2. {0} \subseteq 0..Len(things)
        BY <1>1
      <4> DEFINE D == DOMAIN at[o]
                 R == 0..Len(things)
      <4>3. at[o] \in [D -> {0}]
        BY <2>2
      <4> HIDE DEF D, R
      <4>4. at[o] \in [D -> R]
        BY <4>2, <4>3 DEF R
      <4> QED BY <4>1, <4>4 DEF D, R
    <3>2. \A p \in DOMAIN at[o] : p \notin plan[o].items /\ IsPlace(things, o, at[o][p], p)
      BY <2>2, <2>3 DEF IsPlace
    <3> QED BY <3>1, <3>2 DEF AtInv
  <2>5. ReportInv(o)
    BY <2>1 DEF ReportInv
  <2>6. SentInv(o)
    BY <1>2 DEF SentInv
  <2>7. PcInv(o)
    BY <1>1, <1>2, <2>1 DEF PcInv, PcNames
  <2> QED BY <2>4, <2>5, <2>6, <2>7 DEF RequestInv
<1> QED BY <1>3, <1>4, <1>5, <1>6 DEF IInv

LEMMA NextInvariant ==
  ASSUME IInv, [Next]_vars
  PROVE  IInv'
<1>1. ASSUME NEW o \in Request, PreviewCourses(o) PROVE IInv'
  BY <1>1, PreviewCoursesKeeps
<1>2. ASSUME NEW o \in Request, Begin(o) PROVE IInv'
  BY <1>2, BeginKeeps
<1>3. ASSUME NEW o \in Request, Conflict(o) PROVE IInv'
  BY <1>3, ConflictKeeps
<1>4. ASSUME NEW o \in Request, ReadCategories(o) PROVE IInv'
  BY <1>4, ReadCategoriesKeeps
<1>5. ASSUME NEW o \in Request, ReadFails(o) PROVE IInv'
  BY <1>5, ReadFailsKeeps
<1>6. ASSUME NEW o \in Request, TakeLevel(o) PROVE IInv'
  BY <1>6, TakeLevelKeeps
<1>7. ASSUME NEW o \in Request, Answered(o) PROVE IInv'
  BY <1>7, AnsweredKeeps
<1>8. ASSUME NEW o \in Request, NoAnswer(o) PROVE IInv'
  BY <1>8, NoAnswerKeeps
<1>9. ASSUME NEW o \in Request, Finish(o) PROVE IInv'
  BY <1>9, FinishKeeps
<1>10. ASSUME NEW o \in Request, SyncAndRebuildHierarchy(o) PROVE IInv'
  BY <1>10, SyncKeeps
<1>11. CASE LateCall
  BY <1>11, LateCallKeeps
<1>12. CASE Restart
  BY <1>12, RestartKeeps
<1>13. CASE UNCHANGED vars
  <2> USE <1>13 DEF vars
  <2>1. ShapeInv' /\ OwnInv' /\ GuardInv'
    BY DEF IInv, ShapeInv, OwnInv, GuardInv, Guard
  <2>2. ThingsInv'
    BY ThingsStay DEF IInv
  <2>3. LateInv'
    <3>1. \A t : Grounded(things, t, Len(things))' <=> Grounded(things, t, Len(things))
      BY DEF Grounded, IsPlace, Category, Guard
    <3> QED BY <3>1 DEF IInv, LateInv
  <2>4. \A o \in Request : RequestInv(o)'
    BY DEF IInv, RequestInv, PcInv, AtInv, ReportInv, SentInv, Due, IsPlace,
           Category, Guard
  <2>5. SinceInv' /\ NewInv' /\ ApartInv' /\ OnceInv'
    BY DEF IInv, SinceInv, NewInv, ApartInv, OnceInv, Walks, Category, Guard, Thing
  <2> QED BY <2>1, <2>2, <2>3, <2>4, <2>5 DEF IInv
<1> QED BY <1>1, <1>2, <1>3, <1>4, <1>5, <1>6, <1>7, <1>8, <1>9, <1>10, <1>11,
           <1>12, <1>13 DEF Next

\* The invariant holds in every state of every run of the specification: what
\* is in Moodle, what the requests know of it and say, what may still be made.
THEOREM InductiveInvariant == Spec => []IInv
<1>1. Init => IInv
  BY InitInvariant
<1>2. IInv /\ [Next]_vars => IInv'
  BY NextInvariant
<1> QED BY <1>1, <1>2, PTL DEF Spec

\* NoTwins: no two categories have one name in one place, for any number of
\* requests, restarts and lost answers, unless a call that Moodle did after a
\* later request had read the categories made one of them.
THEOREM NoTwinsCorrect == Spec => []NoTwins
<1>1. IInv => NoTwins
  <2> SUFFICES ASSUME IInv, NEW i \in DOMAIN things, NEW j \in DOMAIN things, i # j,
                      {plan[things[k].by].guard : k \in {i, j}} = {"categories"},
                      things[i].name = things[j].name,
                      things[i].parent = things[j].parent
               PROVE  "overtaken" \in {things[i].how, things[j].how}
    BY DEF NoTwins
  <2>1. i \in 1..Len(things) /\ j \in 1..Len(things)
    BY DEF IInv, ThingsInv
  <2>2. Category(things[i]) /\ Category(things[j])
    BY DEF Category, Guard
  <2> QED BY <2>1, <2>2 DEF IInv, OnceInv, SamePlace
<1> QED BY <1>1, InductiveInvariant, PTL

\* ReportsAreTrue: every item of a finished operation is accounted for, what is
\* created or skipped is in its place, what Moodle answered is called created,
\* courses are in the programs that were shown, and the mirror has what a
\* finished operation on categories reports.
THEOREM ReportsAreTrueCorrect == Spec => []ReportsAreTrue
<1>1. ASSUME IInv, NEW o \in Request PROVE Accounted(o) /\ Exists(o)
  BY <1>1 DEF IInv, RequestInv, ReportInv, PcInv, Due, Accounted, Exists
<1>2. ASSUME IInv, NEW o \in Request, plan[o].guard = "categories", pc[o] = "done"
      PROVE  \A p \in DOMAIN at[o] : at[o][p] <= known
  BY <1>2 DEF IInv, RequestInv, PcInv, Guard
<1>3. ASSUME IInv, NEW i \in DOMAIN things PROVE Owned(i)
  <2>1. i \in 1..Len(things)
    BY <1>3 DEF IInv, ThingsInv
  <2> QED BY <1>3, <2>1 DEF IInv, OwnInv, Owned
<1>4. ASSUME IInv, NEW i \in DOMAIN things PROVE Shown(i)
  <2> DEFINE t == things[i]
             p == Front(t.item)
             q == PathOf[t.parent]
  <2>1. i \in 1..Len(things) /\ plan \in Plans /\ ThingsInv /\ Len(things) \in Nat
    BY <1>4 DEF IInv, ShapeInv, ThingsInv
  <2>2. IsPlace(things, t.by, t.parent, p) /\ t.parent \in Nat /\ t.parent < i
    BY <2>1, ThingFacts
  <2>3. SUFFICES ASSUME plan[t.by].guard = "courses"
                 PROVE  /\ <<q[1], q[3], q[4]>> = <<p[1], p[3], p[4]>>
                        /\ plan[t.by].via = "bulk" => q = p
    BY DEF Shown
  <2>4. t.parent \in 1..Len(things) /\ Category(things[t.parent])
    BY <2>1, <2>2, <2>3 DEF IsPlace, Guard
  <2>5. q = things[t.parent].item
    BY <2>1, <2>4, PathIsItem DEF Category
  <2> HIDE DEF q, p
  <2> QED BY <2>2, <2>3, <2>5 DEF IsPlace, Guard
<1>5. IInv => ReportsAreTrue
  BY <1>1, <1>2, <1>3, <1>4 DEF ReportsAreTrue
<1> QED BY <1>5, InductiveInvariant, PTL

=============================================================================
