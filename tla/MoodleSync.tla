----------------------------- MODULE MoodleSync -----------------------------
(***************************************************************************)
(* The mirror of Moodle's categories, courses and enrolments:              *)
(* MoodleSyncProcessor with its queue, MoodleSyncScheduler, the endpoint   *)
(* that triggers a sync, MoodleStartupService, and the three services that *)
(* do the work.  A queue job and the sync of a starting process may run at *)
(* the same time.  Categories are the programs, the level that has         *)
(* courses; enrolments are those of one user, and so is the list of them   *)
(* that CacheService keeps.  What the roles of users become is UserRoles.  *)
(*                                                                         *)
(* Moodle is external: its contents change between any two calls.          *)
(***************************************************************************)
EXTENDS Naturals, FiniteSets

CONSTANTS
  Program, Course,
  Nowhere,      \* where a course is that Moodle does not have
  Manual,       \* jobs an administrator asks for; each time has a new jobId
  MaxStalls,    \* BULLMQ_MAX_STALLED_COUNT
  MaxChanges,   \* bound on what changes in Moodle
  MaxFaults     \* bound on failed calls, failed transactions and crashes

ASSUME MoodleAssumption ==
  /\ Program # {} /\ Nowhere \notin Program
  /\ "scheduled" \notin Manual
  /\ MaxStalls \in Nat /\ MaxChanges \in Nat /\ MaxFaults \in Nat

VARIABLES
  moodle,   \* what Moodle has
  known,    \* program rows
  course,   \* course rows
  enrol,    \* courses with an active enrolment row of the user
  list,     \* the cached list of them: none, current, or stale
  tracked,  \* CacheService.keyRegistry has its key, in memory
  jobs,     \* the moodle-sync queue
  run,      \* the syncs in progress
  clean,    \* history: a sync without errors saw Moodle as it is now
  cut,      \* history: a sync ended before it could invalidate the list
  changes, faults

cached == <<list, tracked>>
mirror == <<known, course, enrol, cached>>
vars == <<moodle, mirror, jobs, run, clean, cut, changes, faults>>

Slot  == {"job", "startup"}
JobId == {"scheduled"} \cup Manual
Listed == Course \X BOOLEAN      \* a course, and whether it is visible

RunRecord ==
  [pc      : {"idle", "categories", "courses", "listing", "enrolments",
              "rosters", "final"},
   todo    : SUBSET (Program \cup Course),   \* to be fetched
   got     : [Program -> SUBSET Listed],
   roster  : SUBSET Course,                  \* fetched with the user in it
   commits : SUBSET (Program \cup Course),   \* fetched, not yet committed
   errors  : BOOLEAN,
   some    : BOOLEAN,                        \* something was upserted
   good    : BOOLEAN]   \* history: a queue job so far without an error, alone,
                        \* and without a change in Moodle

Idle ==
  [pc |-> "idle", todo |-> {}, got |-> [p \in Program |-> {}], roster |-> {},
   commits |-> {}, errors |-> FALSE, some |-> FALSE,
   good |-> FALSE]

MoodleTypeOK ==
  /\ moodle \in [at : [Course -> Program \cup {Nowhere}], hidden : SUBSET Course,
                 roster : SUBSET Course, categories : SUBSET Program]
  /\ known \subseteq Program
  /\ course \in [Course -> [program : Program \cup {Nowhere}, active : BOOLEAN,
                            visible : BOOLEAN]]
  /\ \A c \in Course : course[c].active =>
       course[c].program \in known
  /\ enrol \subseteq Course
  /\ list \in {"none", "current", "stale"} /\ tracked \in BOOLEAN
  /\ jobs \in [JobId -> [state : {"absent", "waiting", "active", "failed"},
                         stalls : 0..MaxStalls]]
  /\ run \in [Slot -> RunRecord]
  /\ clean \in BOOLEAN /\ cut \in BOOLEAN
  /\ changes \in 0..MaxChanges /\ faults \in 0..MaxFaults

\* An empty database; the process starts.  All courses are in one category.
Init ==
  /\ LET home == CHOOSE p \in Program : TRUE IN
     moodle \in [at : {[c \in Course |-> home]}, hidden : {{}},
                 roster : {Course}, categories : {Program}]
  /\ known = {} /\ enrol = {} /\ list = "none" /\ tracked = FALSE
  /\ course = [c \in Course |->
       [program |-> Nowhere, active |-> FALSE, visible |-> FALSE]]
  /\ jobs = [j \in JobId |-> [state |-> "absent", stalls |-> 0]]
  /\ clean = FALSE /\ cut = FALSE
  /\ run = [s \in Slot |->
       IF s = "startup" THEN [Idle EXCEPT !.pc = "categories"] ELSE Idle]
  /\ changes = 0 /\ faults = 0

-----------------------------------------------------------------------------
(* Moodle.                                                                 *)

Changes(m) ==
  /\ changes < MaxChanges /\ changes' = changes + 1
  /\ m # moodle /\ moodle' = m
  /\ clean' = FALSE
  /\ run' = [s \in Slot |-> [run[s] EXCEPT !.good = FALSE]]
  /\ UNCHANGED <<mirror, jobs, cut, faults>>

\* A course appears, moves or goes; is hidden or shown; the user joins or
\* leaves it; a category goes, with its courses, or comes back.
MoodleChanges ==
  \/ \E c \in Course, p \in moodle.categories \cup {Nowhere} :
       Changes([moodle EXCEPT !.at[c] = p])
  \/ \E c \in Course : \/ Changes([moodle EXCEPT !.hidden = (@ \cup {c}) \ (@ \cap {c})])
                       \/ Changes([moodle EXCEPT !.roster = (@ \cup {c}) \ (@ \cap {c})])
  \/ \E p \in Program :
       Changes([moodle EXCEPT !.categories = (@ \cup {p}) \ (@ \cap {p}),
                  !.at = [c \in Course |-> IF @[c] = p THEN Nowhere ELSE @[c]]])

ListOf(p) ==
  {<<c, c \notin moodle.hidden>> : c \in {x \in Course : moodle.at[x] = p}}

-----------------------------------------------------------------------------
(* The queue.  A completed job is removed, a failed one keeps its jobId.   *)

\* handleScheduledSync: a jobId that is known is ignored.
Tick ==
  /\ jobs["scheduled"].state = "absent"
  /\ jobs' = [jobs EXCEPT !["scheduled"].state = "waiting"]
  /\ UNCHANGED <<moodle, mirror, run, clean, cut, changes, faults>>

\* TriggerSync, unless a job waits or runs.  What the cron job adds between
\* its count and its add could as well be added after.
Trigger(j) ==
  /\ j \in Manual
  /\ \A i \in JobId : jobs[i].state \notin {"waiting", "active"}
  /\ jobs' = [jobs EXCEPT ![j] = [state |-> "waiting", stalls |-> 0]]
  /\ UNCHANGED <<moodle, mirror, run, clean, cut, changes, faults>>

Take(j) ==
  /\ run["job"].pc = "idle" /\ jobs[j].state = "waiting"
  /\ jobs' = [jobs EXCEPT ![j].state = "active"]
  /\ run' = [run EXCEPT !["job"] =
       [Idle EXCEPT !.pc = "categories", !.good = run["startup"].pc = "idle"]]
  /\ UNCHANGED <<moodle, mirror, clean, cut, changes, faults>>

Running(j) == j \in JobId /\ jobs[j].state = "active" /\ run["job"].pc # "idle"

\* Mutant of Ended: a completed job is kept.
EndedKept(ending) ==
  [j \in JobId |->
     IF ~Running(j) THEN jobs[j]
     ELSE [state |-> IF ending = "threw" THEN "failed" ELSE "completed",
           stalls |-> 0]]

\* The job returned, or threw; it has one attempt.  A manual job that failed is
\* kept too, under a jobId of its own.
Ended(ending) ==
  [j \in JobId |->
     IF ~Running(j) THEN jobs[j]
     ELSE [state |-> IF ending = "threw" /\ j = "scheduled" THEN "failed" ELSE "absent",
           stalls |-> 0]]

\* A job that nobody runs any more is noticed.
Stall(j) ==
  /\ jobs[j].state = "active" /\ run["job"].pc = "idle"
  /\ jobs' = [jobs EXCEPT ![j] =
       IF @.stalls < MaxStalls
       THEN [state |-> "waiting", stalls |-> @.stalls + 1]
       ELSE [state |-> IF j = "scheduled" THEN "failed" ELSE "absent", stalls |-> 0]]
  /\ UNCHANGED <<moodle, mirror, run, clean, cut, changes, faults>>

-----------------------------------------------------------------------------
(* One sync.                                                               *)

At(s, label) == run[s].pc = label
Step(s, r)   == run' = [run EXCEPT ![s] = r]
Fault        == faults < MaxFaults /\ faults' = faults + 1
\* The metrics of a phase decide its outcome for a queue job; the startup
\* looks only at what is thrown.
Failed(s, r) == [r EXCEPT !.errors = s = "job", !.good = FALSE]
Some(s, r)   == [r EXCEPT !.some = s = "job"]
Ready(r, label) ==
  [r EXCEPT !.pc = label, !.todo = {}, !.commits = {}, !.errors = FALSE,
            !.some = FALSE]

\* A query outside of any try fails, or a flush of the job's SyncLog row, which
\* the program does not read again and which is not modelled: the job fails,
\* or the startup leaves the remaining phases out.
Throw(s) ==
  /\ run[s].pc \in {"courses", "enrolments"}
       \cup (IF s = "job" THEN {"categories", "final"} ELSE {})
  /\ Fault
  /\ Step(s, Idle)
  /\ jobs' = IF s = "job" THEN Ended("threw") ELSE jobs
  /\ UNCHANGED <<moodle, mirror, clean, cut, changes>>

\* Mutant of Categories: a program that is gone is deleted.
CategoriesReplace(s) ==
  /\ At(s, "categories")
  /\ known' = moodle.categories
  /\ Step(s, [run[s] EXCEPT !.pc = "courses"])
  /\ UNCHANGED <<moodle, course, enrol, cached, jobs, clean, cut, changes, faults>>

\* SyncAndRebuildHierarchy: one transaction; what is gone from Moodle stays.
\* A queue job goes no further if it failed; the startup does.
Categories(s) ==
  /\ At(s, "categories")
  /\ \/ /\ known' = known \cup moodle.categories
        /\ Step(s, [run[s] EXCEPT !.pc = "courses"])
        /\ UNCHANGED faults
     \/ /\ Fault
        /\ Step(s, [Failed(s, run[s]) EXCEPT
                      !.pc = IF s = "job" THEN "final" ELSE "courses"])
        /\ UNCHANGED known
  /\ UNCHANGED <<moodle, course, enrol, cached, jobs, clean, cut, changes>>

CoursesBegin(s) ==
  /\ At(s, "courses")
  /\ Step(s, [Ready(run[s], "listing") EXCEPT !.todo = known])
  /\ UNCHANGED <<moodle, mirror, jobs, clean, cut, changes, faults>>

\* Each program by itself, several at a time.
ListCourses(s, p) ==
  LET r == [run[s] EXCEPT !.todo = @ \ {p}] IN
  /\ At(s, "listing") /\ p \in run[s].todo
  /\ \/ /\ Step(s, [r EXCEPT !.got[p] = ListOf(p), !.commits = @ \cup {p}])
        /\ UNCHANGED faults
     \/ Fault /\ Step(s, Failed(s, r))
  /\ UNCHANGED <<moodle, mirror, jobs, clean, cut, changes>>

\* Mutant of Merged: an empty listing is taken for a failed one.
MergedUnlessEmpty(p, listed, c) ==
  CASE \E v \in BOOLEAN : <<c, v>> \in listed ->
         [program |-> IF course[c].program = Nowhere THEN p ELSE course[c].program,
          active |-> TRUE, visible |-> <<c, TRUE>> \in listed]
    [] course[c].program = p /\ listed \cap ({c} \X BOOLEAN) = {} /\ listed # {} ->
         [course[c] EXCEPT !.active = FALSE, !.visible = FALSE]
    [] OTHER -> course[c]

\* What a program's transaction makes of a course: the listed ones are
\* upserted, into the program they had; its others are deactivated.
Merged(p, listed, c) ==
  CASE \E v \in BOOLEAN : <<c, v>> \in listed ->
         [program |-> IF course[c].program = Nowhere THEN p ELSE course[c].program,
          active |-> TRUE, visible |-> <<c, TRUE>> \in listed]
    [] course[c].program = p /\ listed \cap ({c} \X BOOLEAN) = {} ->
         [course[c] EXCEPT !.active = FALSE, !.visible = FALSE]
    [] OTHER -> course[c]

SyncCourses(s, p) ==
  LET r == [run[s] EXCEPT !.commits = @ \ {p}, !.got[p] = {}] IN
  /\ At(s, "listing") /\ p \in run[s].commits
  /\ \/ /\ course' = [c \in Course |-> Merged(p, run[s].got[p], c)]
        /\ Step(s, IF run[s].got[p] = {} THEN r ELSE Some(s, r))
        /\ UNCHANGED faults
     \/ Fault /\ Step(s, Failed(s, r)) /\ UNCHANGED course
  /\ UNCHANGED <<moodle, known, enrol, cached, jobs, clean, cut, changes>>

\* A phase failed if something did and nothing was upserted.
Outcome(r) == IF r.errors /\ ~r.some THEN "failed" ELSE "success"

CoursesEnd(s) ==
  LET r == run[s] IN
  /\ At(s, "listing") /\ r.todo = {} /\ r.commits = {}
  /\ Step(s, Ready(r, IF Outcome(r) = "failed" THEN "final" ELSE "enrolments"))
  /\ UNCHANGED <<moodle, mirror, jobs, clean, cut, changes, faults>>

EnrolmentsBegin(s) ==
  /\ At(s, "enrolments")
  /\ Step(s, [Ready(run[s], "rosters") EXCEPT !.roster = {},
                !.todo = {c \in Course : course[c].visible}])
  /\ UNCHANGED <<moodle, mirror, jobs, clean, cut, changes, faults>>

FetchRoster(s, c) ==
  LET r == [run[s] EXCEPT !.todo = @ \ {c}] IN
  /\ At(s, "rosters") /\ c \in run[s].todo
  /\ \/ /\ Step(s, [r EXCEPT !.roster = @ \cup ({c} \cap moodle.roster),
                             !.commits = @ \cup {c}])
        /\ UNCHANGED faults
     \/ Fault /\ Step(s, Failed(s, r))
  /\ UNCHANGED <<moodle, mirror, jobs, clean, cut, changes>>

\* Once all are fetched, each course has a transaction.
SyncRoster(s, c) ==
  LET r   == [run[s] EXCEPT !.commits = @ \ {c}, !.roster = @ \ {c}]
      now == (enrol \ {c}) \cup ({c} \cap run[s].roster)
  IN
  /\ At(s, "rosters") /\ run[s].todo = {} /\ c \in run[s].commits
  /\ \/ /\ enrol' = now
        /\ list' = IF list = "current" /\ now # enrol THEN "stale" ELSE list
        /\ Step(s, IF c \in run[s].roster THEN Some(s, r) ELSE r)
        /\ UNCHANGED faults
     \/ Fault /\ Step(s, Failed(s, r)) /\ UNCHANGED <<enrol, list>>
  /\ UNCHANGED <<moodle, known, course, tracked, jobs, clean, cut, changes>>

\* Unless the phase failed, the cached lists whose keys are known are
\* invalidated; a failed call to Redis ends the job.
EnrolmentsEnd(s) ==
  LET r == run[s]  invalid == Outcome(r) # "failed" /\ tracked IN
  /\ At(s, "rosters") /\ r.todo = {} /\ r.commits = {}
  /\ list' = IF invalid THEN "none" ELSE list
  /\ tracked' = (tracked /\ ~invalid)
  /\ cut' = (~invalid /\ list = "stale")
  /\ Step(s, IF s = "job" THEN Ready(r, "final") ELSE Idle)
  /\ UNCHANGED <<moodle, known, course, enrol, jobs, clean, changes, faults>>

InvalidateThrows(s) ==
  LET r == run[s] IN
  /\ At(s, "rosters") /\ r.todo = {} /\ r.commits = {}
  /\ Outcome(r) # "failed" /\ tracked /\ Fault
  /\ cut' = (list = "stale")
  /\ Step(s, Idle)
  /\ jobs' = IF s = "job" THEN Ended("threw") ELSE jobs
  /\ UNCHANGED <<moodle, mirror, clean, changes>>

\* A queue job has its last flush and is removed.
Finish ==
  /\ At("job", "final")
  /\ jobs' = Ended("returned")
  /\ clean' = (clean \/ run["job"].good)
  /\ Step("job", Idle)
  /\ UNCHANGED <<moodle, mirror, cut, changes, faults>>

\* The process dies, and starts again with its own sync and no known keys.
Crash ==
  /\ Fault
  /\ tracked' = FALSE
  /\ cut' = (list = "stale")
  /\ run' = [s \in Slot |->
       IF s = "startup" THEN [Idle EXCEPT !.pc = "categories"] ELSE Idle]
  /\ UNCHANGED <<moodle, known, course, enrol, list, jobs, clean, changes>>

\* EnrollmentsService.getMyEnrollments: the key is known from now on.  The time
\* between reading and storing the list is left to Surveys.
GetMyEnrollments ==
  /\ list = "none" \/ ~tracked
  /\ list' = IF list = "none" THEN "current" ELSE list
  /\ tracked' = TRUE
  /\ UNCHANGED <<moodle, known, course, enrol, jobs, run, clean, cut, changes,
                 faults>>

\* The time to live is over; to forget the key as well changes nothing.
Expire ==
  /\ list # "none" /\ list' = "none" /\ tracked' = FALSE /\ cut' = FALSE
  /\ UNCHANGED <<moodle, known, course, enrol, jobs, run, clean, changes, faults>>

-----------------------------------------------------------------------------
Proceed(s) ==
  \/ Categories(s)
  \/ CoursesBegin(s) \/ CoursesEnd(s)
  \/ \E p \in Program : ListCourses(s, p) \/ SyncCourses(s, p)
  \/ EnrolmentsBegin(s) \/ EnrolmentsEnd(s)
  \/ \E c \in Course : FetchRoster(s, c) \/ SyncRoster(s, c)

Next ==
  \/ MoodleChanges
  \/ Tick
  \/ \E j \in JobId : Trigger(j) \/ Take(j) \/ Stall(j)
  \/ Finish
  \/ \E s \in Slot : Proceed(s) \/ Throw(s) \/ InvalidateThrows(s)
  \/ GetMyEnrollments \/ Expire \/ Crash

\* The cron job ticks, the worker takes jobs and finds stalled ones, and what
\* has begun goes on.
Fairness ==
  /\ WF_vars(Tick)
  /\ \A j \in JobId : WF_vars(Take(j)) /\ WF_vars(Stall(j))
  /\ WF_vars(Finish)
  /\ \A s \in Slot : WF_vars(Proceed(s))

Spec == Init /\ [][Next]_vars /\ Fairness

-----------------------------------------------------------------------------
(* Properties.                                                             *)

\* A course that Moodle moved keeps its first program in the mirror, and the
\* order of two transactions decides whether it is active.
Moved(c) == Nowhere \notin {moodle.at[c], course[c].program}
            /\ course[c].program # moodle.at[c]

InStep ==
  \A c \in Course : ~Moved(c) =>
    /\ course[c].active <=> moodle.at[c] # Nowhere
    /\ course[c].visible <=> course[c].active /\ c \notin moodle.hidden
    /\ course[c].visible => (c \in enrol <=> c \in moodle.roster)

\* A sync that completed, with no error, met no other and during which Moodle
\* did not change, has made the mirror what Moodle is, but for courses that
\* moved to another category; and the cached enrolments are those of the
\* mirror unless a sync is about to invalidate them or could not: it failed,
\* died, or does not know the key since a restart.
MirrorIsTrue ==
  /\ clean => InStep
  /\ list = "stale" => cut \/ \E s \in Slot : At(s, "rosters")

\* Once Moodle stays as it is and nothing fails any more, the mirror gets in
\* step and stays so, unless a scheduled sync failed: its job keeps the jobId
\* ("BullMQ silently ignores duplicate waiting jobs", institutional-sync.md:116),
\* and no other is scheduled.
Converges == <>[](InStep \/ jobs["scheduled"].state = "failed")

=============================================================================
