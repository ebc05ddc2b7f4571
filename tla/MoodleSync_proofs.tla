-------------------------- MODULE MoodleSync_proofs --------------------------
(***************************************************************************)
(* Proofs about the mirror of Moodle: what holds for any programs, courses *)
(* and jobs, and however often Moodle changes and calls fail.              *)
(***************************************************************************)
EXTENDS MoodleSync, TLAPS

USE MoodleAssumption DEF MoodleAssumption

-----------------------------------------------------------------------------
(* The inductive invariant: types.                                         *)

HomeInv ==
  /\ moodle \in [at : [Course -> Program \cup {Nowhere}], hidden : SUBSET Course,
                 roster : SUBSET Course, categories : SUBSET Program]
  /\ \A c \in Course : moodle.at[c] \in moodle.categories \cup {Nowhere}

CourseRow == [program : Program \cup {Nowhere}, active : BOOLEAN, visible : BOOLEAN]

\* A row that is seen is active, and an active one has a program.
RowsInv ==
  /\ known \subseteq Program /\ enrol \subseteq Course
  /\ course \in [Course -> CourseRow]
  /\ \A c \in Course :
       /\ course[c].visible => course[c].active
       /\ course[c].active => course[c].program # Nowhere
       /\ course[c].program \in known \cup {Nowhere}

QueueInv ==
  jobs \in [JobId -> [state : {"absent", "waiting", "active", "failed"},
                      stalls : 0..MaxStalls]]

BookInv ==
  /\ list \in {"none", "current", "stale"} /\ tracked \in BOOLEAN
  /\ clean \in BOOLEAN /\ cut \in BOOLEAN

CountInv == changes \in 0..MaxChanges /\ faults \in 0..MaxFaults

\* What a sync works through is there.
Sane(r) ==
  /\ r.pc = "listing" => r.todo \subseteq known /\ r.commits \subseteq known
  /\ r.pc = "rosters" => /\ r.todo \subseteq Course /\ r.commits \subseteq Course
                         /\ r.todo \cap r.roster = {}

RunInv == run \in [Slot -> RunRecord] /\ \A s \in Slot : Sane(run[s])

TypeInv == HomeInv /\ RowsInv /\ QueueInv /\ BookInv /\ CountInv /\ RunInv

-----------------------------------------------------------------------------
(* The inductive invariant: what a sync has brought in step so far.        *)

\* What has been fetched and not committed is what Moodle has.
Fresh(r) ==
  /\ r.pc = "listing" => \A p \in r.commits : r.got[p] = ListOf(p)
  /\ r.pc = "rosters" => \A c \in r.commits : c \in r.roster <=> c \in moodle.roster

Synced(r) == known \ (r.todo \cup r.commits)

CourseInStep(c) ==
  ~Moved(c) => /\ course[c].active <=> moodle.at[c] # Nowhere
               /\ course[c].visible <=> course[c].active /\ c \notin moodle.hidden

EnrolInStep(c) == course[c].visible => (c \in enrol <=> c \in moodle.roster)

\* A course, as far as the programs committed so far decide about it.
Reached(r, c) ==
  /\ moodle.at[c] \in Synced(r) =>
       /\ course[c].program # Nowhere
       /\ course[c].program = moodle.at[c] =>
            course[c].active /\ (course[c].visible <=> c \notin moodle.hidden)
  /\ moodle.at[c] = Nowhere /\ course[c].program \in Synced(r) => ~course[c].active

Progress(r) ==
  /\ r.pc \in {"courses", "listing"} => moodle.categories \subseteq known
  /\ r.pc = "listing" => \A c \in Course : Reached(r, c)
  /\ r.pc \in {"enrolments", "rosters", "final"} => \A c \in Course : CourseInStep(c)
  /\ r.pc = "rosters" => \A c \in Course \ (r.todo \cup r.commits) : EnrolInStep(c)
  /\ r.pc = "final" => \A c \in Course : EnrolInStep(c)

\* A sync that is alone, without an error and without a change in Moodle.
GoodInv ==
  run["job"].good => /\ At("startup", "idle") /\ ~run["job"].errors
                     /\ Fresh(run["job"]) /\ Progress(run["job"])

\* Once the mirror is in step, every sync brings what is there already.
CleanInv ==
  clean => /\ \A c \in Course : CourseInStep(c) /\ (~Moved(c) => EnrolInStep(c))
           /\ \A s \in Slot : Fresh(run[s])

ListInv == list = "stale" => cut \/ \E s \in Slot : At(s, "rosters")

-----------------------------------------------------------------------------
(* Records of a sync.                                                      *)

LEMMA IdleRecord ==
  /\ Idle \in RunRecord /\ Idle.pc = "idle" /\ Idle.good = FALSE /\ Idle.errors = FALSE
  /\ [Idle EXCEPT !.pc = "categories"] \in RunRecord
  /\ [Idle EXCEPT !.pc = "categories"].pc = "categories"
  /\ [Idle EXCEPT !.pc = "categories"].good = FALSE
  /\ [Idle EXCEPT !.pc = "categories"].errors = FALSE
<1>1. Idle \in RunRecord
  BY DEF Idle, RunRecord
<1>2. Idle.pc = "idle" /\ Idle.good = FALSE /\ Idle.errors = FALSE
  BY DEF Idle
<1> QED BY <1>1, <1>2 DEF RunRecord

\* A phase that begins or ends.
LEMMA ReadyRecord ==
  ASSUME NEW r \in RunRecord,
         NEW l \in {"listing", "enrolments", "rosters", "final"}
  PROVE  /\ Ready(r, l) \in RunRecord /\ Ready(r, l).pc = l
         /\ Ready(r, l).todo = {} /\ Ready(r, l).commits = {}
         /\ Ready(r, l).errors = FALSE /\ Ready(r, l).good = r.good
         /\ Ready(r, l).got = r.got /\ Ready(r, l).roster = r.roster
BY DEF Ready, RunRecord

\* A failure within a phase.
LEMMA FailedRecord ==
  ASSUME NEW r \in RunRecord, NEW s \in Slot
  PROVE  /\ Failed(s, r) \in RunRecord /\ Failed(s, r).good = FALSE
         /\ Failed(s, r).pc = r.pc /\ Failed(s, r).todo = r.todo
         /\ Failed(s, r).commits = r.commits /\ Failed(s, r).got = r.got
         /\ Failed(s, r).roster = r.roster
BY DEF Failed, RunRecord

\* Something was upserted.
LEMMA SomeRecord ==
  ASSUME NEW r \in RunRecord, NEW s \in Slot
  PROVE  /\ Some(s, r) \in RunRecord /\ Some(s, r).good = r.good
         /\ Some(s, r).pc = r.pc /\ Some(s, r).todo = r.todo
         /\ Some(s, r).commits = r.commits /\ Some(s, r).got = r.got
         /\ Some(s, r).roster = r.roster /\ Some(s, r).errors = r.errors
BY DEF Some, RunRecord

-----------------------------------------------------------------------------
(* Everything but the syncs themselves.                                    *)

LEMMA CountStep ==
  ASSUME CountInv, [Next]_vars
  PROVE  CountInv'
<1>1. /\ faults' = faults \/ (faults < MaxFaults /\ faults' = faults + 1)
      /\ changes' = changes \/ (changes < MaxChanges /\ changes' = changes + 1)
  <2>1. CASE MoodleChanges
    BY <2>1 DEF MoodleChanges, Changes
  <2>2. ASSUME NEW s \in Slot, Proceed(s)
        PROVE  /\ faults' = faults \/ (faults < MaxFaults /\ faults' = faults + 1)
               /\ changes' = changes
    BY <2>2 DEF Proceed, Categories, CoursesBegin, CoursesEnd, ListCourses, SyncCourses,
      EnrolmentsBegin, EnrolmentsEnd, FetchRoster, SyncRoster, Fault
  <2>3. CASE \/ \E s \in Slot : Throw(s) \/ InvalidateThrows(s)
             \/ Crash
    BY <2>3 DEF Throw, InvalidateThrows, Crash, Fault
  <2>4. CASE \/ Tick \/ Finish \/ GetMyEnrollments \/ Expire \/ UNCHANGED vars
             \/ \E j \in JobId : Trigger(j) \/ Take(j) \/ Stall(j)
    BY <2>4 DEF Tick, Finish, GetMyEnrollments, Expire, vars, Trigger, Take, Stall
  <2> QED BY <2>1, <2>2, <2>3, <2>4 DEF Next
<1>2. changes \in 0..MaxChanges /\ faults \in 0..MaxFaults
  BY DEF CountInv
<1>3. changes' \in 0..MaxChanges
  BY <1>1, <1>2
<1>4. faults' \in 0..MaxFaults
  BY <1>1, <1>2
<1> QED BY <1>3, <1>4 DEF CountInv

LEMMA QueueStep ==
  ASSUME QueueInv, [Next]_vars
  PROVE  QueueInv'
<1> DEFINE Job == [state : {"absent", "waiting", "active", "failed"}, stalls : 0..MaxStalls]
<1>0. jobs \in [JobId -> Job] /\ "scheduled" \in JobId
  BY DEF QueueInv, JobId
<1>1. ASSUME NEW j \in JobId, NEW x \in Job, jobs' = [jobs EXCEPT ![j] = x]
      PROVE  QueueInv'
  BY <1>0, <1>1 DEF QueueInv
<1>2. ASSUME NEW e, jobs' = Ended(e) PROVE QueueInv'
  <2>1. ASSUME NEW j \in JobId
        PROVE  (IF ~Running(j) THEN jobs[j]
                ELSE [state |-> IF e = "threw" /\ j = "scheduled" THEN "failed" ELSE "absent",
                      stalls |-> 0]) \in Job
    BY <1>0
  <2> QED BY <1>2, <2>1 DEF Ended, QueueInv
<1>3. CASE jobs' = jobs
  BY <1>3 DEF QueueInv
<1>4. CASE Tick
  <2>1. jobs' = [jobs EXCEPT !["scheduled"] = [jobs["scheduled"] EXCEPT !.state = "waiting"]]
    BY <1>0, <1>4 DEF Tick
  <2>2. [jobs["scheduled"] EXCEPT !.state = "waiting"] \in Job
    BY <1>0
  <2> QED BY <1>0, <1>1, <2>1, <2>2
<1>5. ASSUME NEW j \in JobId, Trigger(j) PROVE QueueInv'
  <2>1. [state |-> "waiting", stalls |-> 0] \in Job
    OBVIOUS
  <2>2. jobs' = [jobs EXCEPT ![j] = [state |-> "waiting", stalls |-> 0]]
    BY <1>5 DEF Trigger
  <2> HIDE DEF Job
  <2> QED BY <1>1, <2>1, <2>2
<1>6. ASSUME NEW j \in JobId, Take(j) PROVE QueueInv'
  <2>1. jobs' = [jobs EXCEPT ![j] = [jobs[j] EXCEPT !.state = "active"]]
    BY <1>0, <1>6 DEF Take
  <2>2. [jobs[j] EXCEPT !.state = "active"] \in Job
    BY <1>0
  <2> QED BY <1>1, <2>1, <2>2
<1>7. ASSUME NEW j \in JobId, Stall(j) PROVE QueueInv'
  <2>1. jobs' = [jobs EXCEPT ![j] =
          IF jobs[j].stalls < MaxStalls
          THEN [state |-> "waiting", stalls |-> jobs[j].stalls + 1]
          ELSE [state |-> IF j = "scheduled" THEN "failed" ELSE "absent", stalls |-> 0]]
    BY <1>0, <1>7 DEF Stall
  <2>2. jobs[j].stalls \in 0..MaxStalls
    BY <1>0
  <2>3. jobs[j].stalls < MaxStalls =>
          [state |-> "waiting", stalls |-> jobs[j].stalls + 1] \in Job
    BY <2>2
  <2>4. [state |-> IF j = "scheduled" THEN "failed" ELSE "absent", stalls |-> 0] \in Job
    OBVIOUS
  <2> QED BY <1>1, <2>1, <2>3, <2>4
<1>8. \/ jobs' = jobs
      \/ \E e : jobs' = Ended(e)
      \/ Tick
      \/ \E j \in JobId : Trigger(j) \/ Take(j) \/ Stall(j)
  <2>1. CASE MoodleChanges
    BY <2>1 DEF MoodleChanges, Changes
  <2>2. ASSUME NEW s \in Slot, Proceed(s) PROVE jobs' = jobs
    BY <2>2 DEF Proceed, Categories, CoursesBegin, CoursesEnd, ListCourses, SyncCourses,
      EnrolmentsBegin, EnrolmentsEnd, FetchRoster, SyncRoster
  <2>3. ASSUME NEW s \in Slot, Throw(s) \/ InvalidateThrows(s)
        PROVE  jobs' = jobs \/ jobs' = Ended("threw")
    BY <2>3 DEF Throw, InvalidateThrows
  <2>4. CASE Finish
    BY <2>4 DEF Finish
  <2>5. CASE GetMyEnrollments \/ Expire \/ Crash \/ UNCHANGED vars
    BY <2>5 DEF GetMyEnrollments, Expire, Crash, vars
  <2> QED BY <2>1, <2>2, <2>3, <2>4, <2>5 DEF Next
<1> QED BY <1>2, <1>3, <1>4, <1>5, <1>6, <1>7, <1>8

LEMMA HomeStep ==
  ASSUME HomeInv, [Next]_vars
  PROVE  HomeInv'
<1> DEFINE Home == [at : [Course -> Program \cup {Nowhere}], hidden : SUBSET Course,
                    roster : SUBSET Course, categories : SUBSET Program]
<1>1. moodle \in Home /\ \A c \in Course : moodle.at[c] \in moodle.categories \cup {Nowhere}
  BY DEF HomeInv
<1>2. ASSUME NEW c \in Course, NEW p \in moodle.categories \cup {Nowhere},
             moodle' = [moodle EXCEPT !.at[c] = p]
      PROVE  HomeInv'
  <2>1. [moodle EXCEPT !.at[c] = p] \in Home
    BY <1>1
  <2>2. /\ moodle'.categories = moodle.categories
        /\ \A d \in Course : moodle'.at[d] = IF d = c THEN p ELSE moodle.at[d]
    BY <1>1, <1>2
  <2> QED BY <1>1, <1>2, <2>1, <2>2 DEF HomeInv
<1>3. ASSUME NEW h \in SUBSET Course,
             moodle' = [moodle EXCEPT !.hidden = h] \/ moodle' = [moodle EXCEPT !.roster = h]
      PROVE  HomeInv'
  <2>1. /\ [moodle EXCEPT !.hidden = h] \in Home
        /\ [moodle EXCEPT !.roster = h] \in Home
    BY <1>1
  <2>2. moodle'.categories = moodle.categories /\ moodle'.at = moodle.at
    BY <1>1, <1>3
  <2> QED BY <1>1, <1>3, <2>1, <2>2 DEF HomeInv
<1>4. ASSUME NEW p \in Program, NEW cats \in SUBSET Program,
             cats = (moodle.categories \cup {p}) \ (moodle.categories \cap {p}),
             NEW places \in [Course -> Program \cup {Nowhere}],
             places = [c \in Course |->
                         IF moodle.at[c] = p THEN Nowhere ELSE moodle.at[c]],
             moodle' = [moodle EXCEPT !.categories = cats, !.at = places]
      PROVE  HomeInv'
  <2>1. [moodle EXCEPT !.categories = cats, !.at = places] \in Home
    BY <1>1
  <2>2. moodle'.categories = cats /\ moodle'.at = places
    BY <1>1, <1>4
  <2>3. ASSUME NEW c \in Course PROVE moodle'.at[c] \in moodle'.categories \cup {Nowhere}
    BY <1>1, <1>4, <2>2
  <2> QED BY <1>4, <2>1, <2>3 DEF HomeInv
<1>5. CASE MoodleChanges
  <2>1. ASSUME NEW c \in Course, NEW p \in moodle.categories \cup {Nowhere},
               Changes([moodle EXCEPT !.at[c] = p])
        PROVE  HomeInv'
    BY <1>2, <2>1 DEF Changes
  <2>2. ASSUME NEW c \in Course,
               \/ Changes([moodle EXCEPT !.hidden = (@ \cup {c}) \ (@ \cap {c})])
               \/ Changes([moodle EXCEPT !.roster = (@ \cup {c}) \ (@ \cap {c})])
        PROVE  HomeInv'
    <3>1. /\ (moodle.hidden \cup {c}) \ (moodle.hidden \cap {c}) \in SUBSET Course
          /\ (moodle.roster \cup {c}) \ (moodle.roster \cap {c}) \in SUBSET Course
      BY <1>1
    <3> QED BY <1>3, <2>2, <3>1 DEF Changes
  <2>3. ASSUME NEW p \in Program,
               Changes([moodle EXCEPT !.categories = (@ \cup {p}) \ (@ \cap {p}),
                          !.at = [c \in Course |-> IF @[c] = p THEN Nowhere ELSE @[c]]])
        PROVE  HomeInv'
    <3> DEFINE cats == (moodle.categories \cup {p}) \ (moodle.categories \cap {p})
               places == [c \in Course |->
                            IF moodle.at[c] = p THEN Nowhere ELSE moodle.at[c]]
    <3>1. cats \in SUBSET Program /\ places \in [Course -> Program \cup {Nowhere}]
      BY <1>1
    <3>2. moodle' = [moodle EXCEPT !.categories = cats, !.at = places]
      BY <2>3 DEF Changes
    <3> QED BY <1>4, <3>1, <3>2
  <2> QED BY <1>5, <2>1, <2>2, <2>3 DEF MoodleChanges
<1>6. CASE moodle' = moodle
  BY <1>6 DEF HomeInv
<1>7. MoodleChanges \/ moodle' = moodle
  <2>1. ASSUME NEW s \in Slot, Proceed(s) PROVE moodle' = moodle
    BY <2>1 DEF Proceed, Categories, CoursesBegin, CoursesEnd, ListCourses, SyncCourses,
      EnrolmentsBegin, EnrolmentsEnd, FetchRoster, SyncRoster
  <2>2. CASE \/ \E s \in Slot : Throw(s) \/ InvalidateThrows(s)
             \/ Tick \/ Finish \/ GetMyEnrollments \/ Expire \/ Crash \/ UNCHANGED vars
             \/ \E j \in JobId : Trigger(j) \/ Take(j) \/ Stall(j)
    BY <2>2 DEF Throw, InvalidateThrows, Tick, Finish, GetMyEnrollments, Expire, Crash,
      vars, Trigger, Take, Stall
  <2> QED BY <2>1, <2>2 DEF Next
<1> QED BY <1>5, <1>6, <1>7

-----------------------------------------------------------------------------
(* What a listing says, and what a program's transaction makes of a row.   *)

Lists(listed, c) == \E v \in BOOLEAN : <<c, v>> \in listed
Shows(listed, c) == IF <<c, TRUE>> \in listed THEN TRUE ELSE FALSE

LEMMA Unlisted ==
  ASSUME NEW listed, NEW c
  PROVE  listed \cap ({c} \X BOOLEAN) = {} <=> ~Lists(listed, c)
<1>1. ASSUME NEW v \in BOOLEAN, <<c, v>> \in listed
      PROVE  listed \cap ({c} \X BOOLEAN) # {}
  <2>1. <<c, v>> \in {c} \X BOOLEAN
    OBVIOUS
  <2>2. <<c, v>> \in listed \cap ({c} \X BOOLEAN)
    BY <1>1, <2>1, Zenon
  <2> QED BY <2>2, Zenon
<1>2. ASSUME NEW x \in listed \cap ({c} \X BOOLEAN)
      PROVE  \E v \in BOOLEAN : <<c, v>> \in listed
  <2>1. x \in {c} \X BOOLEAN /\ x \in listed
    BY Zenon
  <2>2. PICK d \in {c}, v \in BOOLEAN : x = <<d, v>>
    BY <2>1
  <2> QED BY <2>1, <2>2
<1>3. ASSUME ~\E v \in BOOLEAN : <<c, v>> \in listed
      PROVE  listed \cap ({c} \X BOOLEAN) = {}
  BY <1>2, <1>3, Zenon
<1> QED BY <1>1, <1>3, Zenon DEF Lists

LEMMA ListOfSays ==
  ASSUME HomeInv, NEW p, NEW c \in Course
  PROVE  /\ Lists(ListOf(p), c) <=> moodle.at[c] = p
         /\ Shows(ListOf(p), c) <=> moodle.at[c] = p /\ c \notin moodle.hidden
<1>1. ASSUME NEW v \in BOOLEAN
      PROVE  <<c, v>> \in ListOf(p) <=> moodle.at[c] = p /\ v = (c \notin moodle.hidden)
  BY DEF ListOf
<1>2. Lists(ListOf(p), c) <=> moodle.at[c] = p
  BY <1>1 DEF Lists
<1>3. Shows(ListOf(p), c) <=> moodle.at[c] = p /\ c \notin moodle.hidden
  BY <1>1 DEF Shows
<1> QED BY <1>2, <1>3

LEMMA ListOfType ==
  ASSUME NEW p
  PROVE  ListOf(p) \in SUBSET Listed
<1>1. ASSUME NEW x \in ListOf(p) PROVE x \in Course \X BOOLEAN
  <2>1. PICK d \in Course : x = <<d, d \notin moodle.hidden>>
    BY DEF ListOf
  <2>2. (d \notin moodle.hidden) \in BOOLEAN
    BY Zenon
  <2> DEFINE v == d \notin moodle.hidden
  <2> HIDE DEF v
  <2>3. x = <<d, v>>
    BY <2>1 DEF v
  <2>4. v \in BOOLEAN
    BY <2>2 DEF v
  <2> QED BY <2>3, <2>4
<1> QED BY <1>1 DEF Listed

\* A listed row, and one that is not listed.
LEMMA MergedListed ==
  ASSUME NEW p, NEW listed, NEW c \in Course, course[c] \in CourseRow, p \in Program,
         Lists(listed, c)
  PROVE  /\ Merged(p, listed, c) \in CourseRow
         /\ Merged(p, listed, c).active
         /\ course[c].program = Nowhere => Merged(p, listed, c).program = p
         /\ course[c].program # Nowhere => Merged(p, listed, c).program = course[c].program
         /\ Merged(p, listed, c).visible <=> Shows(listed, c)
<1> DEFINE v == <<c, TRUE>> \in listed
           home == IF course[c].program = Nowhere THEN p ELSE course[c].program
           m == Merged(p, listed, c)
<1>1. v \in BOOLEAN /\ (v <=> Shows(listed, c))
  BY DEF Shows
<1>2. m = [program |-> home, active |-> TRUE, visible |-> v]
  <2>1. listed \cap ({c} \X BOOLEAN) # {}
    BY Unlisted, Zenon
  <2> QED BY <2>1, Zenon DEF Merged, Lists
<1>3. /\ course[c].program = Nowhere => home = p
      /\ course[c].program # Nowhere => home = course[c].program
  BY Zenon
<1>4. home \in Program \cup {Nowhere}
  BY DEF CourseRow
<1> HIDE DEF v, home, m
<1>5. m \in CourseRow
  BY <1>1, <1>2, <1>4 DEF CourseRow
<1>6. m.program = home /\ m.active = TRUE /\ m.visible = v
  BY <1>2
<1> QED BY <1>1, <1>3, <1>5, <1>6, Zenon DEF m

LEMMA MergedUnlisted ==
  ASSUME NEW p, NEW listed, NEW c \in Course, course[c] \in CourseRow, ~Lists(listed, c)
  PROVE  /\ Merged(p, listed, c) \in CourseRow
         /\ Merged(p, listed, c).program = course[c].program
         /\ course[c].program = p =>
              ~Merged(p, listed, c).active /\ ~Merged(p, listed, c).visible
         /\ course[c].program # p => Merged(p, listed, c) = course[c]
<1>1. listed \cap ({c} \X BOOLEAN) = {}
  BY Unlisted, Zenon
<1>2. Merged(p, listed, c) =
        IF course[c].program = p
        THEN [course[c] EXCEPT !.active = FALSE, !.visible = FALSE]
        ELSE course[c]
  BY <1>1, Zenon DEF Merged, Lists
<1>3. [course[c] EXCEPT !.active = FALSE, !.visible = FALSE] \in CourseRow
  BY DEF CourseRow
<1>4. /\ [course[c] EXCEPT !.active = FALSE, !.visible = FALSE].program = course[c].program
      /\ ~[course[c] EXCEPT !.active = FALSE, !.visible = FALSE].active
      /\ ~[course[c] EXCEPT !.active = FALSE, !.visible = FALSE].visible
  BY DEF CourseRow
<1> QED BY <1>2, <1>3, <1>4, Zenon

LEMMA MergedRow ==
  ASSUME RowsInv, NEW p \in known, NEW listed, NEW c \in Course
  PROVE  /\ Merged(p, listed, c) \in CourseRow
         /\ Merged(p, listed, c).visible => Merged(p, listed, c).active
         /\ Merged(p, listed, c).active => Merged(p, listed, c).program # Nowhere
         /\ Merged(p, listed, c).program \in known \cup {Nowhere}
<1>1. /\ course[c] \in CourseRow /\ p \in Program /\ p # Nowhere
      /\ course[c].visible => course[c].active
      /\ course[c].active => course[c].program # Nowhere
      /\ course[c].program \in known \cup {Nowhere}
  BY DEF RowsInv
<1>2. CASE Lists(listed, c)
  BY <1>1, <1>2, MergedListed
<1>3. CASE ~Lists(listed, c)
  BY <1>1, <1>3, MergedUnlisted
<1> QED BY <1>2, <1>3

-----------------------------------------------------------------------------
(* The rows.                                                               *)

LEMMA RowsStep ==
  ASSUME TypeInv, [Next]_vars
  PROVE  RowsInv'
<1>1. /\ RowsInv /\ run \in [Slot -> RunRecord] /\ moodle.categories \subseteq Program
      /\ \A s \in Slot : Sane(run[s])
  BY DEF TypeInv, RunInv, HomeInv
<1>2. CASE UNCHANGED <<known, enrol, course>>
  BY <1>1, <1>2 DEF RowsInv
<1>3. ASSUME known' = known \cup moodle.categories, UNCHANGED <<enrol, course>>
      PROVE  RowsInv'
  BY <1>1, <1>3 DEF RowsInv
<1>4. ASSUME NEW s \in Slot, NEW p \in Program, SyncCourses(s, p),
             UNCHANGED <<known, enrol>>
      PROVE  RowsInv'
  <2>1. p \in known
    BY <1>1, <1>4 DEF SyncCourses, At, Sane
  <2>2. CASE course' = course
    BY <1>2, <1>4, <2>2
  <2>3. CASE course' = [c \in Course |-> Merged(p, run[s].got[p], c)]
    <3>1. ASSUME NEW c \in Course
          PROVE  /\ course'[c] = Merged(p, run[s].got[p], c)
                 /\ course'[c] \in CourseRow
                 /\ course'[c].visible => course'[c].active
                 /\ course'[c].active => course'[c].program # Nowhere
                 /\ course'[c].program \in known \cup {Nowhere}
      <4>1. course'[c] = Merged(p, run[s].got[p], c)
        BY <2>3
      <4> QED BY <1>1, <2>1, <4>1, MergedRow
    <3>2. course' \in [Course -> CourseRow]
      BY <2>3, <3>1
    <3> QED BY <1>1, <1>4, <3>1, <3>2 DEF RowsInv
  <2> QED BY <1>4, <2>2, <2>3 DEF SyncCourses
<1>5. ASSUME NEW s \in Slot, NEW c \in Course, SyncRoster(s, c),
             UNCHANGED <<known, course>>
      PROVE  RowsInv'
  <2>1. enrol' = enrol \/ enrol' = (enrol \ {c}) \cup ({c} \cap run[s].roster)
    BY <1>5 DEF SyncRoster
  <2> QED BY <1>1, <1>5, <2>1 DEF RowsInv
<1>6. ASSUME NEW s \in Slot, Proceed(s) PROVE RowsInv'
  <2>1. CASE Categories(s)
    BY <1>2, <1>3, <2>1 DEF Categories
  <2>2. ASSUME NEW p \in Program, SyncCourses(s, p) PROVE RowsInv'
    BY <1>4, <2>2 DEF SyncCourses
  <2>3. ASSUME NEW c \in Course, SyncRoster(s, c) PROVE RowsInv'
    BY <1>5, <2>3 DEF SyncRoster
  <2>4. CASE \/ CoursesBegin(s) \/ CoursesEnd(s) \/ EnrolmentsBegin(s) \/ EnrolmentsEnd(s)
             \/ \E p \in Program : ListCourses(s, p)
             \/ \E c \in Course : FetchRoster(s, c)
    <3>1. UNCHANGED <<known, enrol, course>>
      BY <2>4 DEF CoursesBegin, CoursesEnd, EnrolmentsBegin, EnrolmentsEnd, ListCourses,
        FetchRoster, mirror
    <3> QED BY <1>2, <3>1
  <2> QED BY <1>6, <2>1, <2>2, <2>3, <2>4 DEF Proceed
<1>7. CASE \/ \E s \in Slot : Throw(s) \/ InvalidateThrows(s)
           \/ Tick \/ Finish \/ GetMyEnrollments \/ Expire \/ Crash \/ UNCHANGED vars
           \/ \E j \in JobId : Trigger(j) \/ Take(j) \/ Stall(j)
  <2>1. UNCHANGED <<known, enrol, course>>
    BY <1>7 DEF Throw, InvalidateThrows, Tick, Finish, GetMyEnrollments, Expire, Crash,
      vars, Trigger, Take, Stall, mirror
  <2> QED BY <1>2, <2>1
<1>8. CASE MoodleChanges
  <2>1. UNCHANGED <<known, enrol, course>>
    BY <1>8 DEF MoodleChanges, Changes, mirror
  <2> QED BY <1>2, <2>1
<1> QED BY <1>6, <1>7, <1>8 DEF Next

-----------------------------------------------------------------------------
(* The flags, and the cached list of enrolments.                           *)

LEMMA BookStep ==
  ASSUME TypeInv, [Next]_vars
  PROVE  BookInv'
<1>1. BookInv /\ run["job"].good \in BOOLEAN
  BY DEF TypeInv, RunInv, RunRecord, Slot
<1>2. \/ list' = list \/ list' = "none" \/ list' = "current" \/ list' = "stale"
  <2>1. ASSUME NEW s \in Slot, Proceed(s)
        PROVE  list' = list \/ list' = "none" \/ list' = "stale"
    BY <2>1 DEF Proceed, Categories, CoursesBegin, CoursesEnd, ListCourses, SyncCourses,
      EnrolmentsBegin, EnrolmentsEnd, FetchRoster, SyncRoster, mirror, cached
  <2>2. CASE \/ \E s \in Slot : Throw(s) \/ InvalidateThrows(s)
             \/ Tick \/ Finish \/ GetMyEnrollments \/ Expire \/ Crash \/ UNCHANGED vars
             \/ \E j \in JobId : Trigger(j) \/ Take(j) \/ Stall(j)
    BY <2>2 DEF Throw, InvalidateThrows, Tick, Finish, GetMyEnrollments, Expire, Crash,
      vars, Trigger, Take, Stall, mirror, cached
  <2>3. CASE MoodleChanges
    BY <2>3 DEF MoodleChanges, Changes, mirror, cached
  <2> QED BY <2>1, <2>2, <2>3 DEF Next
<1>3. /\ tracked' \in BOOLEAN /\ clean' \in BOOLEAN /\ cut' \in BOOLEAN
  <2>1. ASSUME NEW s \in Slot, Proceed(s)
        PROVE  /\ clean' = clean
               /\ tracked' = tracked \/ \E b \in BOOLEAN : tracked' = b
               /\ cut' = cut \/ \E b \in BOOLEAN : cut' = b
    BY <1>1, <2>1 DEF Proceed, Categories, CoursesBegin, CoursesEnd, ListCourses, SyncCourses,
      EnrolmentsBegin, EnrolmentsEnd, FetchRoster, SyncRoster, mirror, cached, BookInv
  <2>2. CASE \/ \E s \in Slot : Throw(s) \/ InvalidateThrows(s)
             \/ Tick \/ Finish \/ GetMyEnrollments \/ Expire \/ Crash \/ UNCHANGED vars
             \/ \E j \in JobId : Trigger(j) \/ Take(j) \/ Stall(j)
    BY <1>1, <2>2 DEF Throw, InvalidateThrows, Tick, Finish, GetMyEnrollments, Expire, Crash,
      vars, Trigger, Take, Stall, mirror, cached, BookInv
  <2>3. CASE MoodleChanges
    BY <1>1, <2>3 DEF MoodleChanges, Changes, mirror, cached, BookInv
  <2> QED BY <1>1, <2>1, <2>2, <2>3 DEF Next, BookInv
<1> QED BY <1>1, <1>2, <1>3 DEF BookInv

LEMMA ListStep ==
  ASSUME RunInv, ListInv, [Next]_vars
  PROVE  ListInv'
<1> DEFINE Stays == \A t \in Slot : run[t].pc = "rosters" => run'[t].pc = "rosters"
<1>1. run \in [Slot -> RunRecord]
  BY DEF RunInv
<1>2. ASSUME UNCHANGED <<list, cut>>, Stays PROVE ListInv'
  BY <1>2 DEF ListInv, At
<1>3. ASSUME cut' \/ list' # "stale" PROVE ListInv'
  BY <1>3 DEF ListInv
<1>4. ASSUME NEW s \in Slot, NEW r, Step(s, r), run[s].pc = "rosters" => r.pc = "rosters"
      PROVE  Stays
  BY <1>1, <1>4 DEF Step
<1>5. ASSUME NEW s \in Slot, NEW r, Step(s, r), run[s].pc # "rosters",
             UNCHANGED <<list, cut>>
      PROVE  ListInv'
  <2>1. Stays
    BY <1>4, <1>5
  <2> QED BY <1>2, <1>5, <2>1
<1> HIDE DEF Stays
<1>6. ASSUME NEW s \in Slot, NEW c \in Course, FetchRoster(s, c) PROVE ListInv'
  <2> DEFINE r == [run[s] EXCEPT !.todo = @ \ {c}]
             good == [r EXCEPT !.roster = @ \cup ({c} \cap moodle.roster),
                               !.commits = @ \cup {c}]
  <2>1. Step(s, good) \/ Step(s, Failed(s, r))
    BY <1>6, Zenon DEF FetchRoster
  <2>2. r \in RunRecord /\ r.pc = run[s].pc
    BY <1>1, <1>6 DEF RunRecord
  <2>3. Failed(s, r).pc = run[s].pc
    BY <2>2, FailedRecord
  <2>4. good.pc = run[s].pc
    BY <2>2 DEF RunRecord
  <2> HIDE DEF good, r
  <2>5. Stays
    BY <1>4, <2>1, <2>3, <2>4
  <2>6. UNCHANGED <<list, cut>>
    BY <1>6 DEF FetchRoster, mirror, cached
  <2> QED BY <1>2, <2>5, <2>6
<1>7. ASSUME NEW s \in Slot, NEW c \in Course, SyncRoster(s, c) PROVE ListInv'
  <2> DEFINE r == [run[s] EXCEPT !.commits = @ \ {c}, !.roster = @ \ {c}]
  <2>1. Step(s, r) \/ Step(s, Some(s, r)) \/ Step(s, Failed(s, r))
    BY <1>7, Zenon DEF SyncRoster
  <2>2. r \in RunRecord /\ r.pc = run[s].pc
    BY <1>1, <1>7 DEF RunRecord
  <2> HIDE DEF r
  <2>3. Failed(s, r).pc = run[s].pc /\ Some(s, r).pc = run[s].pc
    BY <2>2, FailedRecord, SomeRecord
  <2>4. Stays
    BY <1>4, <2>1, <2>2, <2>3
  <2>5. run[s].pc = "rosters"
    BY <1>7 DEF SyncRoster, At
  <2>6. run'[s].pc = "rosters"
    BY <2>4, <2>5 DEF Stays
  <2> QED BY <2>6 DEF ListInv, At
<1>8. ASSUME NEW s \in Slot, EnrolmentsEnd(s) PROVE ListInv'
  <2>1. list' = "stale" => cut'
    BY <1>8 DEF EnrolmentsEnd
  <2> QED BY <1>3, <2>1
<1>9. ASSUME NEW s \in Slot, Proceed(s) PROVE ListInv'
  <2>1. CASE Categories(s)
    BY <1>5, <2>1, Zenon DEF Categories, cached, At
  <2>2. CASE CoursesBegin(s) \/ CoursesEnd(s) \/ EnrolmentsBegin(s)
    BY <1>5, <2>2, Zenon DEF CoursesBegin, CoursesEnd, EnrolmentsBegin, mirror, cached, At
  <2>3. ASSUME NEW p \in Program, ListCourses(s, p) \/ SyncCourses(s, p) PROVE ListInv'
    BY <1>5, <2>3, Zenon DEF ListCourses, SyncCourses, mirror, cached, At
  <2> QED BY <1>6, <1>7, <1>8, <1>9, <2>1, <2>2, <2>3 DEF Proceed
<1>10. ASSUME NEW s \in Slot, Throw(s) PROVE ListInv'
  <2>1. run[s].pc # "rosters" /\ Step(s, Idle) /\ UNCHANGED <<list, cut>>
    BY <1>10 DEF Throw, mirror, cached
  <2> QED BY <1>5, <2>1
<1>11. ASSUME NEW s \in Slot, InvalidateThrows(s) PROVE ListInv'
  <2>1. list' = list /\ cut' = (list = "stale")
    BY <1>11 DEF InvalidateThrows, mirror, cached
  <2> QED BY <1>3, <2>1
<1>12. CASE Crash
  <2>1. list' = list /\ cut' = (list = "stale")
    BY <1>12 DEF Crash
  <2> QED BY <1>3, <2>1
<1>13. CASE Finish
  BY <1>5, <1>13, Zenon DEF Finish, At, mirror, cached, Slot
<1>14. ASSUME NEW j \in JobId, Take(j) PROVE ListInv'
  <2>1. /\ Step("job", [Idle EXCEPT !.pc = "categories", !.good = run["startup"].pc = "idle"])
        /\ run["job"].pc # "rosters" /\ UNCHANGED <<list, cut>>
    BY <1>14 DEF Take, Step, mirror, cached
  <2> QED BY <1>5, <2>1, Zenon DEF Slot
<1>15. CASE MoodleChanges
  <2>1. run' = [s \in Slot |-> [run[s] EXCEPT !.good = FALSE]] /\ UNCHANGED <<list, cut>>
    BY <1>15, Zenon DEF MoodleChanges, Changes, mirror, cached
  <2>2. Stays
    BY <1>1, <2>1 DEF Stays, RunRecord
  <2> QED BY <1>2, <2>1, <2>2
<1>16. CASE Tick \/ UNCHANGED vars \/ \E j \in JobId : Trigger(j) \/ Stall(j)
  <2>1. UNCHANGED <<list, cut, run>>
    BY <1>16 DEF Tick, Trigger, Stall, vars, mirror, cached
  <2> QED BY <1>2, <2>1 DEF Stays
<1>17. CASE GetMyEnrollments
  <2>1. UNCHANGED <<cut, run>> /\ (list' = list \/ list' = "current")
    BY <1>17 DEF GetMyEnrollments
  <2> QED BY <1>2, <1>3, <2>1 DEF Stays
<1>18. CASE Expire
  BY <1>3, <1>18 DEF Expire
<1> QED BY <1>9, <1>10, <1>11, <1>12, <1>13, <1>14, <1>15, <1>16, <1>17, <1>18 DEF Next

-----------------------------------------------------------------------------
(* The syncs.                                                              *)

SyncInv == RunInv /\ GoodInv /\ CleanInv

InStepInv == \A c \in Course : CourseInStep(c) /\ (~Moved(c) => EnrolInStep(c))

\* A step of one sync, whose record becomes r.
LEMMA OneSync ==
  ASSUME SyncInv, NEW s \in Slot, NEW r \in RunRecord, Step(s, r),
         UNCHANGED <<moodle, clean>>, known \subseteq known',
         Sane(r)', clean => Fresh(r), clean => InStepInv',
         s = "startup" => run["startup"].pc # "idle",
         s = "job" => (r.good => /\ run["startup"].pc = "idle" /\ ~r.errors
                                 /\ Fresh(r) /\ Progress(r)')
  PROVE  SyncInv'
<1>1. /\ run \in [Slot -> RunRecord] /\ run' = [run EXCEPT ![s] = r]
      /\ "job" \in Slot /\ "startup" \in Slot
  BY DEF SyncInv, RunInv, Step, Slot
<1>2. run'[s] = r /\ \A t \in Slot \ {s} : run'[t] = run[t]
  BY <1>1
<1>3. RunInv'
  <2>1. run' \in [Slot -> RunRecord]
    BY <1>1
  <2>2. ASSUME NEW t \in Slot PROVE Sane(run[t])'
    <3>1. CASE t = s
      BY <1>2, <3>1 DEF Sane
    <3>2. CASE t # s
      <4>1. Sane(run[t]) /\ run'[t] = run[t]
        BY <1>2, <3>2 DEF SyncInv, RunInv
      <4> QED BY <4>1 DEF Sane
    <3> QED BY <3>1, <3>2
  <2> QED BY <2>1, <2>2 DEF RunInv
<1>4. GoodInv'
  <2>1. CASE s = "job"
    <3>1. run'["job"] = r /\ run'["startup"] = run["startup"]
      BY <1>1, <1>2, <2>1
    <3> SUFFICES ASSUME r.good
                 PROVE  /\ run'["startup"].pc = "idle" /\ ~r.errors
                        /\ Fresh(run["job"])' /\ Progress(run["job"])'
      BY <3>1 DEF GoodInv, At
    <3>2. run["startup"].pc = "idle" /\ ~r.errors /\ Fresh(r) /\ Progress(r)'
      BY <2>1
    <3>3. Fresh(run["job"])'
      BY <3>1, <3>2 DEF Fresh, ListOf
    <3>4. Progress(run["job"])'
      BY <3>1, <3>2 DEF Progress, Reached, Synced
    <3> QED BY <3>1, <3>2, <3>3, <3>4
  <2>2. CASE s = "startup"
    <3>1. run'["job"] = run["job"] /\ run["startup"].pc # "idle"
      BY <1>1, <1>2, <2>2
    <3> QED BY <3>1 DEF SyncInv, GoodInv, At
  <2> QED BY <2>1, <2>2 DEF Slot
<1>5. CleanInv'
  <2> SUFFICES ASSUME clean PROVE InStepInv' /\ \A t \in Slot : Fresh(run[t])'
    BY DEF CleanInv, InStepInv
  <2>1. ASSUME NEW t \in Slot PROVE Fresh(run[t])'
    <3>1. CASE t = s
      BY <1>2, <3>1 DEF Fresh, ListOf
    <3>2. CASE t # s
      <4>1. Fresh(run[t]) /\ run'[t] = run[t]
        BY <1>2, <3>2 DEF SyncInv, CleanInv
      <4> QED BY <4>1 DEF Fresh, ListOf
    <3> QED BY <3>1, <3>2
  <2> QED BY <2>1
<1> QED BY <1>3, <1>4, <1>5 DEF SyncInv

\* If the rows do not change.
LEMMA OneSyncOnly ==
  ASSUME SyncInv, NEW s \in Slot, NEW r \in RunRecord, Step(s, r),
         UNCHANGED <<moodle, known, course, enrol, clean>>,
         Sane(r), clean => Fresh(r),
         s = "startup" => run["startup"].pc # "idle",
         s = "job" => (r.good => /\ run["startup"].pc = "idle" /\ ~r.errors
                                 /\ Fresh(r) /\ Progress(r))
  PROVE  SyncInv'
<1>1. Sane(r)'
  BY DEF Sane
<1>2. clean => InStepInv'
  BY DEF SyncInv, CleanInv, InStepInv, CourseInStep, EnrolInStep, Moved
<1>3. Progress(r) => Progress(r)'
  BY DEF Progress, Reached, Synced, CourseInStep, EnrolInStep, Moved
<1> QED BY <1>1, <1>2, <1>3, OneSync

LEMMA SyncSays ==
  ASSUME SyncInv, NEW s \in Slot
  PROVE  /\ run[s] \in RunRecord /\ Sane(run[s]) /\ (clean => Fresh(run[s]))
         /\ s = "job" /\ run[s].good =>
              /\ run["startup"].pc = "idle" /\ ~run[s].errors
              /\ Fresh(run[s]) /\ Progress(run[s])
BY DEF SyncInv, RunInv, GoodInv, CleanInv, At

\* A sync that ends.
LEMMA SyncEnds ==
  ASSUME SyncInv, NEW s \in Slot, Step(s, Idle), run[s].pc # "idle",
         UNCHANGED <<moodle, known, course, enrol, clean>>
  PROVE  SyncInv'
<1> PICK r : r = Idle
  OBVIOUS
<1>1. r \in RunRecord /\ r.pc = "idle" /\ ~r.good /\ Step(s, r)
  BY IdleRecord
<1>2. Sane(r) /\ Fresh(r)
  BY <1>1 DEF Sane, Fresh
<1> QED BY <1>1, <1>2, OneSyncOnly

\* A failure within a phase.
LEMMA SyncFails ==
  ASSUME SyncInv, NEW s \in Slot, NEW x \in RunRecord, Step(s, Failed(s, x)),
         x.pc = run[s].pc, x.pc # "idle", Sane(x), clean => Fresh(x),
         UNCHANGED <<moodle, known, course, enrol, clean>>
  PROVE  SyncInv'
<1> PICK r : r = Failed(s, x)
  OBVIOUS
<1>1. /\ r \in RunRecord /\ ~r.good /\ Step(s, r) /\ r.pc = x.pc /\ r.todo = x.todo
      /\ r.commits = x.commits /\ r.got = x.got /\ r.roster = x.roster
  BY FailedRecord
<1>2. Sane(r) /\ (clean => Fresh(r))
  BY <1>1 DEF Sane, Fresh
<1> QED BY <1>1, <1>2, OneSyncOnly

LEMMA CategoriesSync ==
  ASSUME SyncInv, NEW s \in Slot, Categories(s)
  PROVE  SyncInv'
<1>1. /\ run[s] \in RunRecord /\ run[s].pc = "categories"
      /\ UNCHANGED <<moodle, course, enrol, clean>>
      /\ s = "job" /\ run[s].good => run["startup"].pc = "idle" /\ ~run[s].errors
  BY SyncSays DEF Categories, At
<1>2. CASE known' = known \cup moodle.categories /\ Step(s, [run[s] EXCEPT !.pc = "courses"])
  <2> PICK r : r = [run[s] EXCEPT !.pc = "courses"]
    OBVIOUS
  <2>1. /\ r \in RunRecord /\ r.pc = "courses" /\ r.good = run[s].good
        /\ r.errors = run[s].errors
    BY <1>1 DEF RunRecord
  <2>2. Sane(r)' /\ Fresh(r)
    BY <2>1 DEF Sane, Fresh
  <2>3. Progress(r)'
    BY <1>1, <1>2, <2>1 DEF Progress
  <2>4. clean => InStepInv'
    BY <1>1 DEF SyncInv, CleanInv, InStepInv, CourseInStep, EnrolInStep, Moved
  <2> QED BY <1>1, <1>2, <2>1, <2>2, <2>3, <2>4, OneSync
<1>3. CASE /\ UNCHANGED known
           /\ Step(s, [Failed(s, run[s]) EXCEPT !.pc = IF s = "job" THEN "final" ELSE "courses"])
  <2> PICK l : l = IF s = "job" THEN "final" ELSE "courses"
    OBVIOUS
  <2> PICK r : r = [Failed(s, run[s]) EXCEPT !.pc = l]
    OBVIOUS
  <2>1. l \in {"final", "courses"}
    OBVIOUS
  <2>2. Failed(s, run[s]) \in RunRecord /\ Failed(s, run[s]).good = FALSE
    BY <1>1, FailedRecord
  <2>3. r \in RunRecord /\ r.pc = l /\ ~r.good
    BY <2>1, <2>2 DEF RunRecord
  <2>4. Sane(r) /\ Fresh(r)
    BY <2>1, <2>3 DEF Sane, Fresh
  <2>5. Step(s, r)
    BY <1>3
  <2> QED BY <1>1, <1>3, <2>3, <2>4, <2>5, OneSyncOnly
<1> QED BY <1>2, <1>3 DEF Categories

LEMMA CoursesBeginSync ==
  ASSUME SyncInv, RowsInv, NEW s \in Slot, CoursesBegin(s)
  PROVE  SyncInv'
<1> PICK r : r = [Ready(run[s], "listing") EXCEPT !.todo = known]
  OBVIOUS
<1>1. /\ run[s] \in RunRecord /\ run[s].pc = "courses" /\ Step(s, r)
      /\ UNCHANGED <<moodle, known, course, enrol, clean>>
  BY SyncSays DEF CoursesBegin, At, mirror
<1>2. /\ r \in RunRecord /\ r.pc = "listing" /\ r.todo = known /\ r.commits = {}
      /\ r.errors = FALSE /\ r.good = run[s].good
  <2>1. known \in SUBSET (Program \cup Course)
    BY DEF RowsInv
  <2> QED BY <1>1, <2>1 DEF Ready, RunRecord
<1>3. Sane(r) /\ Fresh(r)
  BY <1>2 DEF Sane, Fresh
<1>4. s = "job" /\ r.good => run["startup"].pc = "idle" /\ Progress(r)
  <2>1. Synced(r) = {}
    BY <1>2 DEF Synced
  <2> QED BY <1>1, <1>2, <2>1, SyncSays DEF Progress, Reached
<1> QED BY <1>1, <1>2, <1>3, <1>4, OneSyncOnly

LEMMA ListCoursesSync ==
  ASSUME SyncInv, NEW s \in Slot, NEW p \in Program, ListCourses(s, p)
  PROVE  SyncInv'
<1> PICK x : x = [run[s] EXCEPT !.todo = @ \ {p}]
  OBVIOUS
<1>1. /\ run[s] \in RunRecord /\ run[s].pc = "listing" /\ p \in run[s].todo
      /\ UNCHANGED <<moodle, known, course, enrol, clean>>
      /\ Sane(run[s]) /\ (clean => Fresh(run[s]))
  BY SyncSays DEF ListCourses, At, mirror
<1>2. /\ x \in RunRecord /\ x.pc = "listing" /\ x.todo = run[s].todo \ {p}
      /\ x.commits = run[s].commits /\ x.got = run[s].got /\ x.good = run[s].good
      /\ x.errors = run[s].errors
  BY <1>1 DEF RunRecord
<1>3. CASE Step(s, Failed(s, x))
  <2>1. Sane(x) /\ (clean => Fresh(x))
    BY <1>1, <1>2 DEF Sane, Fresh
  <2> QED BY <1>1, <1>2, <1>3, <2>1, SyncFails
<1>4. CASE Step(s, [x EXCEPT !.got[p] = ListOf(p), !.commits = @ \cup {p}])
  <2> PICK r : r = [x EXCEPT !.got[p] = ListOf(p), !.commits = @ \cup {p}]
    OBVIOUS
  <2>1. /\ r \in RunRecord /\ r.pc = "listing" /\ r.todo = run[s].todo \ {p}
        /\ r.commits = run[s].commits \cup {p} /\ r.got = [run[s].got EXCEPT ![p] = ListOf(p)]
        /\ r.good = run[s].good /\ r.errors = run[s].errors
    BY <1>2, ListOfType DEF RunRecord
  <2>2. run[s].got \in [Program -> SUBSET Listed]
    BY <1>1 DEF RunRecord
  <2>3. Sane(r)
    BY <1>1, <2>1 DEF Sane
  <2>4. Fresh(run[s]) => Fresh(r)
    <3> SUFFICES ASSUME Fresh(run[s]), NEW q \in r.commits PROVE r.got[q] = ListOf(q)
      BY <2>1 DEF Fresh
    <3> QED BY <1>1, <2>1, <2>2 DEF Fresh, Sane, RunRecord
  <2>5. Progress(run[s]) => Progress(r)
    <3>1. Synced(r) = Synced(run[s])
      BY <1>1, <2>1 DEF Synced
    <3> QED BY <1>1, <2>1, <3>1 DEF Progress, Reached
  <2> QED BY <1>1, <1>4, <2>1, <2>3, <2>4, <2>5, SyncSays, OneSyncOnly
<1> QED BY <1>3, <1>4, Zenon DEF ListCourses

\* What the transaction of a program does to the courses when its listing is
\* what Moodle has.
LEMMA MergedInStep ==
  ASSUME HomeInv, RowsInv, NEW p \in known, NEW c \in Course, UNCHANGED <<moodle, enrol>>,
         course' = [d \in Course |-> Merged(p, ListOf(p), d)]
  PROVE  /\ moodle.at[c] = p =>
              /\ course'[c].active /\ course'[c].program # Nowhere
              /\ course'[c].visible <=> c \notin moodle.hidden
         /\ moodle.at[c] # p =>
              /\ course'[c].program = course[c].program
              /\ course[c].program # p => course'[c] = course[c]
              /\ course[c].program = p => ~course'[c].active /\ ~course'[c].visible
         /\ CourseInStep(c) /\ (~Moved(c) => EnrolInStep(c)) =>
              CourseInStep(c)' /\ (~Moved(c)' => EnrolInStep(c)')
<1>1. /\ course[c] \in CourseRow /\ p \in Program /\ p # Nowhere
      /\ course[c].visible => course[c].active
      /\ course[c].active => course[c].program # Nowhere
      /\ course'[c] = Merged(p, ListOf(p), c)
  BY DEF RowsInv
<1>2. CASE moodle.at[c] = p
  <2>1. Lists(ListOf(p), c) /\ (Shows(ListOf(p), c) <=> c \notin moodle.hidden)
    BY <1>2, ListOfSays
  <2>2. /\ course'[c].active
        /\ course[c].program = Nowhere => course'[c].program = p
        /\ course[c].program # Nowhere => course'[c].program = course[c].program
        /\ course'[c].visible <=> c \notin moodle.hidden
    BY <1>1, <2>1, MergedListed
  <2>3. CourseInStep(c) /\ (~Moved(c) => EnrolInStep(c)) =>
          CourseInStep(c)' /\ (~Moved(c)' => EnrolInStep(c)')
    BY <1>1, <1>2, <2>2 DEF CourseInStep, EnrolInStep, Moved
  <2> QED BY <1>1, <1>2, <2>2, <2>3
<1>3. CASE moodle.at[c] # p
  <2>1. ~Lists(ListOf(p), c)
    BY <1>3, ListOfSays
  <2>2. /\ course'[c].program = course[c].program
        /\ course[c].program # p => course'[c] = course[c]
        /\ course[c].program = p => ~course'[c].active /\ ~course'[c].visible
    BY <1>1, <2>1, MergedUnlisted
  <2>3. CourseInStep(c) /\ (~Moved(c) => EnrolInStep(c)) =>
          CourseInStep(c)' /\ (~Moved(c)' => EnrolInStep(c)')
    BY <1>1, <1>3, <2>2 DEF CourseInStep, EnrolInStep, Moved
  <2> QED BY <1>3, <2>2, <2>3
<1> QED BY <1>2, <1>3

LEMMA SyncCoursesSync ==
  ASSUME SyncInv, HomeInv, RowsInv, NEW s \in Slot, NEW p \in Program, SyncCourses(s, p)
  PROVE  SyncInv'
<1> PICK x : x = [run[s] EXCEPT !.commits = @ \ {p}, !.got[p] = {}]
  OBVIOUS
<1>1. /\ run[s] \in RunRecord /\ run[s].pc = "listing" /\ p \in run[s].commits
      /\ UNCHANGED <<moodle, known, enrol, clean>>
      /\ Sane(run[s]) /\ (clean => Fresh(run[s]))
  BY SyncSays DEF SyncCourses, At
<1>2. /\ x \in RunRecord /\ x.pc = "listing" /\ x.todo = run[s].todo
      /\ x.commits = run[s].commits \ {p} /\ x.got = [run[s].got EXCEPT ![p] = {}]
      /\ x.good = run[s].good /\ x.errors = run[s].errors
  BY <1>1 DEF RunRecord
<1>3. Sane(x) /\ (Fresh(run[s]) => Fresh(x))
  <2>1. Sane(x)
    BY <1>1, <1>2 DEF Sane
  <2>2. run[s].got \in [Program -> SUBSET Listed] /\ run[s].commits \subseteq Program
    BY <1>1 DEF RunRecord, Sane, RowsInv
  <2>3. ASSUME Fresh(run[s]), NEW q \in x.commits PROVE x.got[q] = ListOf(q)
    BY <1>1, <1>2, <2>2, <2>3 DEF Fresh
  <2> QED BY <1>2, <2>1, <2>3 DEF Fresh
<1>4. CASE Step(s, Failed(s, x)) /\ UNCHANGED course
  BY <1>1, <1>2, <1>3, <1>4, SyncFails
<1>5. CASE /\ course' = [c \in Course |-> Merged(p, run[s].got[p], c)]
           /\ Step(s, x) \/ Step(s, Some(s, x))
  <2> PICK r : r \in {x, Some(s, x)} /\ Step(s, r)
    BY <1>5
  <2>1. /\ r \in RunRecord /\ r.pc = "listing" /\ r.todo = run[s].todo
        /\ r.commits = run[s].commits \ {p} /\ r.got = x.got
        /\ r.good = run[s].good /\ r.errors = run[s].errors
    <3>1. CASE r = x
      BY ONLY <1>2, <3>1
    <3>2. CASE r = Some(s, x)
      <4>1. /\ r \in RunRecord /\ r.good = x.good /\ r.pc = x.pc /\ r.todo = x.todo
            /\ r.commits = x.commits /\ r.got = x.got /\ r.errors = x.errors
        BY <1>2, <3>2, SomeRecord, Zenon
      <4> QED BY ONLY <1>2, <4>1
    <3> QED BY <3>1, <3>2
  <2>2. Sane(r)' /\ (Fresh(run[s]) => Fresh(r))
    BY <1>1, <1>2, <1>3, <2>1 DEF Sane, Fresh
  <2>3. p \in known
    BY <1>1 DEF Sane
  <2>4. ASSUME Fresh(run[s])
        PROVE  course' = [c \in Course |-> Merged(p, ListOf(p), c)]
    BY <1>1, <1>5, <2>4 DEF Fresh
  <2>5. clean => InStepInv'
    <3> SUFFICES ASSUME clean, NEW c \in Course
                 PROVE  CourseInStep(c)' /\ (~Moved(c)' => EnrolInStep(c)')
      BY DEF InStepInv
    <3>1. CourseInStep(c) /\ (~Moved(c) => EnrolInStep(c))
      BY DEF SyncInv, CleanInv
    <3> QED BY <1>1, <2>3, <2>4, <3>1, MergedInStep
  <2>6. Fresh(run[s]) /\ Progress(run[s]) => Progress(r)'
    <3> SUFFICES ASSUME Fresh(run[s]), Progress(run[s]), NEW c \in Course
                 PROVE  moodle.categories \subseteq known /\ Reached(r, c)'
      BY <1>1, <2>1 DEF Progress
    <3>1. moodle.categories \subseteq known /\ Reached(run[s], c)
      BY <1>1 DEF Progress
    <3>2. /\ moodle.at[c] = p =>
               /\ course'[c].active /\ course'[c].program # Nowhere
               /\ course'[c].visible <=> c \notin moodle.hidden
          /\ moodle.at[c] # p =>
               /\ course'[c].program = course[c].program
               /\ course[c].program # p => course'[c] = course[c]
               /\ course[c].program = p => ~course'[c].active /\ ~course'[c].visible
      BY <1>1, <2>3, <2>4, MergedInStep
    <3>3. p # Nowhere
      BY <2>3 DEF RowsInv
    <3>4. ASSUME NEW q PROVE q \in Synced(r)' => q \in Synced(run[s]) \/ q = p
      BY <1>1, <2>1 DEF Synced
    <3>5. moodle.at[c] \in Synced(r)' =>
            /\ course'[c].program # Nowhere
            /\ course'[c].program = moodle.at[c] =>
                 course'[c].active /\ (course'[c].visible <=> c \notin moodle.hidden)
      BY <3>1, <3>2, <3>4 DEF Reached
    <3>6. moodle.at[c] = Nowhere /\ course'[c].program \in Synced(r)' => ~course'[c].active
      BY <3>1, <3>2, <3>3, <3>4 DEF Reached
    <3> QED BY <1>1, <3>1, <3>5, <3>6 DEF Reached
  <2> QED BY <1>1, <2>1, <2>2, <2>5, <2>6, SyncSays, OneSync
<1> QED BY <1>4, <1>5, Zenon DEF SyncCourses

LEMMA CoursesEndSync ==
  ASSUME SyncInv, HomeInv, RowsInv, NEW s \in Slot, CoursesEnd(s)
  PROVE  SyncInv'
<1> PICK l : l = IF Outcome(run[s]) = "failed" THEN "final" ELSE "enrolments"
  OBVIOUS
<1> PICK r : r = Ready(run[s], l)
  OBVIOUS
<1>1. /\ run[s] \in RunRecord /\ run[s].pc = "listing" /\ run[s].todo = {}
      /\ run[s].commits = {} /\ Step(s, r)
      /\ UNCHANGED <<moodle, known, course, enrol, clean>>
  BY SyncSays DEF CoursesEnd, At, mirror
<1>2. l \in {"enrolments", "final"} /\ (~run[s].errors => l = "enrolments")
  BY DEF Outcome
<1>3. r \in RunRecord /\ r.pc = l /\ r.errors = FALSE /\ r.good = run[s].good
  BY <1>1, <1>2, ReadyRecord
<1>4. Sane(r) /\ Fresh(r)
  BY <1>2, <1>3 DEF Sane, Fresh
<1>5. Progress(run[s]) => \A c \in Course : CourseInStep(c)
  <2> SUFFICES ASSUME Progress(run[s]), NEW c \in Course PROVE CourseInStep(c)
    OBVIOUS
  <2>1. moodle.categories \subseteq known /\ Reached(run[s], c)
    BY <1>1 DEF Progress
  <2>2. Synced(run[s]) = known
    BY <1>1 DEF Synced
  <2>3. /\ moodle.at[c] \in moodle.categories \cup {Nowhere}
        /\ course[c].visible => course[c].active
        /\ course[c].active => course[c].program # Nowhere
        /\ course[c].program \in known \cup {Nowhere}
    BY DEF HomeInv, RowsInv
  <2> QED BY <2>1, <2>2, <2>3 DEF Reached, CourseInStep, Moved
<1>6. s = "job" /\ r.good =>
        run["startup"].pc = "idle" /\ Progress(r)
  BY <1>2, <1>3, <1>5, SyncSays DEF Progress
<1> QED BY <1>1, <1>3, <1>4, <1>6, OneSyncOnly

LEMMA EnrolmentsBeginSync ==
  ASSUME SyncInv, NEW s \in Slot, EnrolmentsBegin(s)
  PROVE  SyncInv'
<1> PICK r : r = [Ready(run[s], "rosters") EXCEPT !.roster = {},
                    !.todo = {c \in Course : course[c].visible}]
  OBVIOUS
<1>1. /\ run[s] \in RunRecord /\ run[s].pc = "enrolments" /\ Step(s, r)
      /\ UNCHANGED <<moodle, known, course, enrol, clean>>
  BY SyncSays DEF EnrolmentsBegin, At, mirror
<1>2. /\ r \in RunRecord /\ r.pc = "rosters" /\ r.commits = {} /\ r.roster = {}
      /\ r.todo = {c \in Course : course[c].visible}
      /\ r.errors = FALSE /\ r.good = run[s].good
  <2> PICK t : t = {c \in Course : course[c].visible}
    OBVIOUS
  <2> PICK x : x = Ready(run[s], "rosters")
    OBVIOUS
  <2>1. /\ x \in RunRecord /\ x.pc = "rosters" /\ x.commits = {}
        /\ x.errors = FALSE /\ x.good = run[s].good
    BY <1>1, ReadyRecord
  <2>2. t \in SUBSET (Program \cup Course)
    OBVIOUS
  <2>3. r = [x EXCEPT !.roster = {}, !.todo = t]
    BY Zenon
  <2> QED BY <2>1, <2>2, <2>3 DEF RunRecord
<1>3. Sane(r) /\ Fresh(r)
  BY <1>2 DEF Sane, Fresh
<1>4. Progress(run[s]) => Progress(r)
  BY <1>1, <1>2 DEF Progress, EnrolInStep
<1> QED BY <1>1, <1>2, <1>3, <1>4, SyncSays, OneSyncOnly

LEMMA FetchRosterSync ==
  ASSUME SyncInv, NEW s \in Slot, NEW c \in Course, FetchRoster(s, c)
  PROVE  SyncInv'
<1> PICK x : x = [run[s] EXCEPT !.todo = @ \ {c}]
  OBVIOUS
<1>1. /\ run[s] \in RunRecord /\ run[s].pc = "rosters" /\ c \in run[s].todo
      /\ UNCHANGED <<moodle, known, course, enrol, clean>>
      /\ Sane(run[s]) /\ (clean => Fresh(run[s]))
  BY SyncSays DEF FetchRoster, At, mirror
<1>2. /\ x \in RunRecord /\ x.pc = "rosters" /\ x.todo = run[s].todo \ {c}
      /\ x.commits = run[s].commits /\ x.roster = run[s].roster /\ x.good = run[s].good
      /\ x.errors = run[s].errors
  BY <1>1 DEF RunRecord
<1>3. CASE Step(s, Failed(s, x))
  <2>1. Sane(x) /\ (clean => Fresh(x))
    BY <1>1, <1>2 DEF Sane, Fresh
  <2> QED BY <1>1, <1>2, <1>3, <2>1, SyncFails
<1>4. CASE Step(s, [x EXCEPT !.roster = @ \cup ({c} \cap moodle.roster), !.commits = @ \cup {c}])
  <2> PICK r : r = [x EXCEPT !.roster = @ \cup ({c} \cap moodle.roster),
                             !.commits = @ \cup {c}]
    OBVIOUS
  <2>1. /\ r \in RunRecord /\ r.pc = "rosters" /\ r.todo = run[s].todo \ {c}
        /\ r.commits = run[s].commits \cup {c}
        /\ r.roster = run[s].roster \cup ({c} \cap moodle.roster)
        /\ r.good = run[s].good /\ r.errors = run[s].errors
    BY <1>2 DEF RunRecord
  <2>2. Sane(r)
    BY <1>1, <2>1 DEF Sane
  <2>3. Fresh(run[s]) => Fresh(r)
    BY <1>1, <2>1 DEF Fresh, Sane
  <2>4. Progress(run[s]) => Progress(r)
    <3>1. \A d : d \in r.todo \cup r.commits <=> d \in run[s].todo \cup run[s].commits
      BY <1>1, <2>1
    <3> QED BY <1>1, <2>1, <3>1 DEF Progress
  <2> QED BY <1>1, <1>4, <2>1, <2>2, <2>3, <2>4, SyncSays, OneSyncOnly
<1> QED BY <1>3, <1>4, Zenon DEF FetchRoster

LEMMA SyncRosterSync ==
  ASSUME SyncInv, NEW s \in Slot, NEW c \in Course, SyncRoster(s, c)
  PROVE  SyncInv'
<1> PICK x : x = [run[s] EXCEPT !.commits = @ \ {c}, !.roster = @ \ {c}]
  OBVIOUS
<1>1. /\ run[s] \in RunRecord /\ run[s].pc = "rosters" /\ run[s].todo = {}
      /\ c \in run[s].commits
      /\ UNCHANGED <<moodle, known, course, clean>>
      /\ Sane(run[s]) /\ (clean => Fresh(run[s]))
  BY SyncSays DEF SyncRoster, At
<1>2. /\ x \in RunRecord /\ x.pc = "rosters" /\ x.todo = {}
      /\ x.commits = run[s].commits \ {c} /\ x.roster = run[s].roster \ {c}
      /\ x.good = run[s].good /\ x.errors = run[s].errors
  BY <1>1 DEF RunRecord
<1>3. Sane(x) /\ (Fresh(run[s]) => Fresh(x))
  BY <1>1, <1>2 DEF Sane, Fresh
<1>4. CASE Step(s, Failed(s, x)) /\ UNCHANGED enrol
  BY <1>1, <1>2, <1>3, <1>4, SyncFails
<1>5. CASE /\ enrol' = (enrol \ {c}) \cup ({c} \cap run[s].roster)
           /\ Step(s, x) \/ Step(s, Some(s, x))
  <2> PICK r : r \in {x, Some(s, x)} /\ Step(s, r)
    BY <1>5
  <2>1. /\ r \in RunRecord /\ r.pc = "rosters" /\ r.todo = {} /\ r.commits = x.commits
        /\ r.roster = x.roster /\ r.good = run[s].good /\ r.errors = run[s].errors
    <3>1. CASE r = x
      BY ONLY <1>2, <3>1
    <3>2. CASE r = Some(s, x)
      <4>1. /\ r \in RunRecord /\ r.good = x.good /\ r.pc = x.pc /\ r.todo = x.todo
            /\ r.commits = x.commits /\ r.roster = x.roster /\ r.errors = x.errors
        BY <1>2, <3>2, SomeRecord, Zenon
      <4> QED BY ONLY <1>2, <4>1
    <3> QED BY <3>1, <3>2
  <2>2. Sane(r)' /\ (Fresh(run[s]) => Fresh(r))
    BY <1>1, <1>2, <1>3, <2>1 DEF Sane, Fresh
  <2>3. ASSUME Fresh(run[s]), NEW d \in Course
        PROVE  /\ d = c => EnrolInStep(d)'
               /\ d # c => (EnrolInStep(d)' <=> EnrolInStep(d))
    BY <1>1, <1>5, <2>3 DEF Fresh, EnrolInStep
  <2>4. ASSUME NEW d \in Course
        PROVE  (CourseInStep(d)' <=> CourseInStep(d)) /\ (Moved(d)' <=> Moved(d))
    BY <1>1 DEF CourseInStep, Moved
  <2>5. clean => InStepInv'
    BY <1>1, <2>3, <2>4 DEF SyncInv, CleanInv, InStepInv
  <2>6. Fresh(run[s]) /\ Progress(run[s]) => Progress(r)'
    <3> SUFFICES ASSUME Fresh(run[s]), Progress(run[s]) PROVE Progress(r)'
      OBVIOUS
    <3>1. \A d \in Course : CourseInStep(d)'
      BY <1>1, <2>4 DEF Progress
    <3>2. ASSUME NEW d \in Course \ (r.todo \cup r.commits) PROVE EnrolInStep(d)'
      BY <1>1, <1>2, <2>1, <2>3 DEF Progress
    <3> QED BY <2>1, <3>1, <3>2 DEF Progress
  <2> QED BY <1>1, <2>1, <2>2, <2>5, <2>6, SyncSays, OneSync
<1> QED BY <1>4, <1>5, Zenon DEF SyncRoster

LEMMA EnrolmentsEndSync ==
  ASSUME SyncInv, NEW s \in Slot, EnrolmentsEnd(s)
  PROVE  SyncInv'
<1>1. /\ run[s] \in RunRecord /\ run[s].pc = "rosters" /\ run[s].todo = {}
      /\ run[s].commits = {}
      /\ UNCHANGED <<moodle, known, course, enrol, clean>>
      /\ Step(s, IF s = "job" THEN Ready(run[s], "final") ELSE Idle)
  BY SyncSays DEF EnrolmentsEnd, At
<1>2. CASE s = "startup"
  BY <1>1, <1>2, SyncEnds
<1>3. CASE s = "job"
  <2> PICK r : r = Ready(run[s], "final")
    OBVIOUS
  <2>1. Step(s, r)
    BY <1>1, <1>3
  <2>2. /\ r \in RunRecord /\ r.pc = "final" /\ r.errors = FALSE /\ r.good = run[s].good
    BY <1>1, ReadyRecord
  <2>3. Sane(r) /\ Fresh(r) /\ (Progress(run[s]) => Progress(r))
    BY <1>1, <2>2 DEF Sane, Fresh, Progress
  <2> QED BY <1>1, <1>3, <2>1, <2>2, <2>3, SyncSays, OneSyncOnly
<1> QED BY <1>2, <1>3 DEF Slot

LEMMA TakeSync ==
  ASSUME SyncInv, NEW j \in JobId, Take(j)
  PROVE  SyncInv'
<1> PICK b : b = (run["startup"].pc = "idle")
  OBVIOUS
<1> PICK r : r = [Idle EXCEPT !.pc = "categories", !.good = b]
  OBVIOUS
<1>1. Step("job", r) /\ UNCHANGED <<moodle, known, course, enrol, clean>> /\ "job" \in Slot
  BY DEF Take, Step, mirror, Slot
<1>2. r \in RunRecord /\ r.pc = "categories" /\ r.errors = FALSE /\ r.good = b
  BY IdleRecord DEF RunRecord
<1>3. Sane(r) /\ Fresh(r) /\ Progress(r)
  BY <1>2 DEF Sane, Fresh, Progress
<1> QED BY <1>1, <1>2, <1>3, OneSyncOnly

LEMMA FinishSync ==
  ASSUME SyncInv, BookInv, Finish
  PROVE  SyncInv'
<1>1. /\ Step("job", Idle) /\ run["job"].pc = "final" /\ clean' = (clean \/ run["job"].good)
      /\ UNCHANGED <<moodle, known, course, enrol>> /\ "job" \in Slot /\ "startup" \in Slot
  BY DEF Finish, At, mirror, Slot
<1>2. CASE clean' = clean
  BY <1>1, <1>2, SyncEnds
<1>3. ~run["job"].good => clean' = clean
  BY <1>1 DEF BookInv
<1>4. CASE run["job"].good
  <2>1. run["startup"].pc = "idle" /\ Progress(run["job"]) /\ run \in [Slot -> RunRecord]
    BY <1>1, <1>4 DEF SyncInv, GoodInv, RunInv, At
  <2>2. /\ run'["job"] = Idle /\ run'["startup"] = run["startup"]
        /\ run' \in [Slot -> RunRecord]
    BY <1>1, <2>1, IdleRecord DEF Step, Slot
  <2>3. \A s \in Slot : run'[s].pc = "idle"
    BY <2>1, <2>2, IdleRecord DEF Slot
  <2>4. RunInv'
    BY <2>2, <2>3 DEF RunInv, Sane
  <2>5. GoodInv'
    BY <2>2, IdleRecord DEF GoodInv
  <2>6. ASSUME NEW c \in Course PROVE CourseInStep(c)' /\ EnrolInStep(c)'
    BY <1>1, <2>1 DEF Progress, CourseInStep, EnrolInStep, Moved
  <2>7. CleanInv'
    BY <2>3, <2>6 DEF CleanInv, Fresh
  <2> QED BY <2>4, <2>5, <2>7 DEF SyncInv
<1> QED BY <1>2, <1>3, <1>4

LEMMA CrashSync ==
  ASSUME SyncInv, Crash
  PROVE  SyncInv'
<1>1. /\ UNCHANGED <<moodle, known, course, enrol, clean>>
      /\ run' = [s \in Slot |->
           IF s = "startup" THEN [Idle EXCEPT !.pc = "categories"] ELSE Idle]
  BY DEF Crash
<1>2. /\ run' \in [Slot -> RunRecord] /\ ~run'["job"].good
      /\ \A s \in Slot : run'[s].pc \in {"idle", "categories"}
  BY <1>1, IdleRecord DEF Slot
<1>3. RunInv' /\ GoodInv'
  BY <1>2 DEF RunInv, Sane, GoodInv
<1>4. clean => InStepInv'
  BY <1>1 DEF SyncInv, CleanInv, InStepInv, CourseInStep, EnrolInStep, Moved
<1>5. CleanInv'
  BY <1>1, <1>2, <1>4 DEF CleanInv, InStepInv, Fresh
<1> QED BY <1>3, <1>5 DEF SyncInv

LEMMA ChangesSync ==
  ASSUME SyncInv, MoodleChanges
  PROVE  SyncInv'
<1>1. /\ clean' = FALSE /\ UNCHANGED known
      /\ run' = [s \in Slot |-> [run[s] EXCEPT !.good = FALSE]]
  BY Zenon DEF MoodleChanges, Changes, mirror
<1>2. run \in [Slot -> RunRecord] /\ \A s \in Slot : Sane(run[s])
  BY DEF SyncInv, RunInv
<1>3. ASSUME NEW s \in Slot
      PROVE  /\ run'[s] \in RunRecord /\ ~run'[s].good /\ run'[s].pc = run[s].pc
             /\ run'[s].todo = run[s].todo /\ run'[s].commits = run[s].commits
             /\ run'[s].roster = run[s].roster
  <2>1. run'[s] = [run[s] EXCEPT !.good = FALSE] /\ run[s] \in RunRecord
    BY <1>1, <1>2
  <2> QED BY <2>1 DEF RunRecord
<1>4. run' \in [Slot -> RunRecord]
  BY <1>1, <1>3
<1>5. RunInv'
  <2>1. ASSUME NEW s \in Slot PROVE Sane(run[s])'
    BY <1>1, <1>2, <1>3 DEF Sane
  <2> QED BY <1>4, <2>1 DEF RunInv
<1>6. GoodInv'
  BY <1>3 DEF GoodInv, Slot
<1> QED BY <1>1, <1>5, <1>6 DEF SyncInv, CleanInv

LEMMA RestSync ==
  ASSUME SyncInv, UNCHANGED <<moodle, known, course, enrol, run, clean>>
  PROVE  SyncInv'
<1>1. RunInv'
  BY DEF SyncInv, RunInv, Sane
<1>2. GoodInv'
  BY DEF SyncInv, GoodInv, At, Fresh, ListOf, Progress, Reached, Synced, CourseInStep,
    EnrolInStep, Moved
<1>3. clean => InStepInv'
  BY DEF SyncInv, CleanInv, InStepInv, CourseInStep, EnrolInStep, Moved
<1>4. clean => \A s \in Slot : Fresh(run[s])'
  BY DEF SyncInv, CleanInv, Fresh, ListOf
<1>5. CleanInv'
  BY <1>3, <1>4 DEF CleanInv, InStepInv
<1> QED BY <1>1, <1>2, <1>5 DEF SyncInv

LEMMA SyncStep ==
  ASSUME SyncInv, HomeInv, RowsInv, BookInv, [Next]_vars
  PROVE  SyncInv'
<1>1. ASSUME NEW s \in Slot, Proceed(s) PROVE SyncInv'
  BY <1>1, CategoriesSync, CoursesBeginSync, CoursesEndSync, ListCoursesSync,
    SyncCoursesSync, EnrolmentsBeginSync, EnrolmentsEndSync, FetchRosterSync,
    SyncRosterSync DEF Proceed
<1>2. ASSUME NEW s \in Slot, Throw(s) \/ InvalidateThrows(s) PROVE SyncInv'
  <2>1. /\ Step(s, Idle) /\ run[s].pc # "idle"
        /\ UNCHANGED <<moodle, known, course, enrol, clean>>
    BY <1>2 DEF Throw, InvalidateThrows, mirror, At
  <2> QED BY <2>1, SyncEnds
<1>3. ASSUME NEW j \in JobId, Take(j) PROVE SyncInv'
  BY <1>3, TakeSync
<1>4. CASE \/ Tick \/ GetMyEnrollments \/ Expire \/ UNCHANGED vars
           \/ \E j \in JobId : Trigger(j) \/ Stall(j)
  <2>1. UNCHANGED <<moodle, known, course, enrol, run, clean>>
    BY <1>4 DEF Tick, GetMyEnrollments, Expire, vars, Trigger, Stall, mirror
  <2> QED BY <2>1, RestSync
<1> QED BY <1>1, <1>2, <1>3, <1>4, CrashSync, ChangesSync, FinishSync DEF Next

-----------------------------------------------------------------------------
(* The theorems.                                                           *)

Inv == TypeInv /\ GoodInv /\ CleanInv /\ ListInv

LEMMA InvInit == Init => Inv
<1> SUFFICES ASSUME Init PROVE Inv
  OBVIOUS
<1>1. HomeInv
  <2> PICK home : home = CHOOSE p \in Program : TRUE
    OBVIOUS
  <2>1. home \in Program
    BY Zenon
  <2>2. /\ moodle \in [at : {[c \in Course |-> home]}, hidden : {{}},
                       roster : {Course}, categories : {Program}]
    BY DEF Init
  <2> QED BY <2>1, <2>2 DEF HomeInv
<1>2. RowsInv
  BY DEF Init, RowsInv, CourseRow
<1>3. QueueInv
  BY DEF Init, QueueInv
<1>4. BookInv /\ CountInv
  <2>1. BookInv
    BY DEF Init, BookInv
  <2>2. changes = 0 /\ faults = 0
    BY DEF Init
  <2>3. CountInv
    BY <2>2 DEF CountInv
  <2> QED BY <2>1, <2>3
<1>5. run = [s \in Slot |->
        IF s = "startup" THEN [Idle EXCEPT !.pc = "categories"] ELSE Idle]
  BY DEF Init
<1>6. /\ run \in [Slot -> RunRecord] /\ ~run["job"].good
      /\ \A s \in Slot : run[s].pc \in {"idle", "categories"}
  BY <1>5, IdleRecord DEF Slot
<1>7. RunInv /\ GoodInv
  BY <1>6 DEF RunInv, Sane, GoodInv
<1>8. CleanInv /\ ListInv
  BY DEF Init, CleanInv, ListInv
<1> QED BY <1>1, <1>2, <1>3, <1>4, <1>7, <1>8 DEF Inv, TypeInv

LEMMA InvStep == Inv /\ [Next]_vars => Inv'
<1> SUFFICES ASSUME Inv, [Next]_vars PROVE Inv'
  OBVIOUS
<1>1. /\ HomeInv /\ RowsInv /\ QueueInv /\ BookInv /\ CountInv /\ RunInv /\ TypeInv
      /\ SyncInv /\ ListInv
  BY DEF Inv, TypeInv, SyncInv
<1>2. HomeInv' /\ RowsInv' /\ QueueInv' /\ BookInv' /\ CountInv' /\ ListInv'
  BY <1>1, HomeStep, RowsStep, QueueStep, BookStep, CountStep, ListStep
<1>3. SyncInv'
  BY <1>1, SyncStep
<1> QED BY <1>2, <1>3 DEF Inv, TypeInv, SyncInv

LEMMA InvHolds == Spec => []Inv
BY InvInit, InvStep, PTL DEF Spec

\* The mirror, the queue and the syncs are what they are said to be; and a
\* course that is active is in a program that the mirror knows
\* (MoodleCourseSyncService upserts into programs it has read before).
THEOREM MoodleTypeCorrect == Spec => []MoodleTypeOK
<1>1. Inv => MoodleTypeOK
  <2> SUFFICES ASSUME Inv PROVE MoodleTypeOK
    OBVIOUS
  <2>1. HomeInv /\ RowsInv /\ QueueInv /\ BookInv /\ CountInv /\ RunInv
    BY DEF Inv, TypeInv
  <2>2. \A c \in Course : course[c].active => course[c].program \in known
    BY <2>1 DEF RowsInv
  <2> QED BY <2>1, <2>2
        DEF MoodleTypeOK, HomeInv, RowsInv, CourseRow, QueueInv, BookInv, CountInv, RunInv
<1> QED BY <1>1, InvHolds, PTL

\* After a queue job that met no error, no other sync and no change in Moodle,
\* courses and enrolments are those of Moodle, but for courses that moved; they
\* stay so whatever further syncs do, until Moodle changes; and a cached list of
\* enrolments is stale only while a sync is about to invalidate it, or after one
\* that could not (MoodleEnrollmentSyncService, CacheService).
THEOREM MirrorIsTrueCorrect == Spec => []MirrorIsTrue
<1>1. Inv => MirrorIsTrue
  <2> SUFFICES ASSUME Inv PROVE MirrorIsTrue
    OBVIOUS
  <2>1. CleanInv /\ ListInv
    BY DEF Inv
  <2>2. clean => InStep
    BY <2>1 DEF CleanInv, InStep, CourseInStep, EnrolInStep, Moved
  <2> QED BY <2>1, <2>2 DEF MirrorIsTrue, ListInv
<1> QED BY <1>1, InvHolds, PTL

=============================================================================
