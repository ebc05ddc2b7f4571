------------------------------ MODULE UserRoles ------------------------------
(***************************************************************************)
(* Where a user's roles come from.  User.roles is a copy, derived from the *)
(* active enrolments and the institutional roles by whoever changed one of *)
(* them: the login's MoodleUserHydrationService, the scheduled             *)
(* EnrollmentSyncService and AdminService.  The three run concurrently and *)
(* derive from what they have read.                                        *)
(*                                                                         *)
(* There is one course per program and one semester; a category stands for *)
(* the campus (depth 1), department (depth 3) or program (depth 4) it      *)
(* became.                                                                 *)
(***************************************************************************)
EXTENDS Integers, FiniteSets

CONSTANTS
  User,         \* users
  Staff,        \* the users administrators give roles to
  Fixed,        \* roles no derivation touches: SUPER_ADMIN of a user
  EnrolRole,    \* Moodle roles in a course: student, teacher, manager
  Program,      \* programs of the semester
  Department,   \* departments of the semester
  DeptOf,       \* the department of a program
  Campus,       \* campuses
  NoOne,        \* no user
  MaxOps        \* bound on role changes, hydrations and synchronisations

Category == Campus \cup Department \cup Program
InstRole == {"DEAN", "CHAIRPERSON", "CAMPUS_HEAD"}
Role     == InstRole \cup {"SUPER_ADMIN", "FACULTY", "STUDENT"}
Taken    == EnrolRole \cup {"none"}   \* an active enrolment, or none

ASSUME RolesAssumption ==
  /\ Staff \subseteq User /\ NoOne \notin User
  /\ Fixed \in [User -> SUBSET {"SUPER_ADMIN"}]
  /\ EnrolRole \subseteq {"student", "teacher", "manager"}
  /\ DeptOf \in [Program -> Department]
  /\ Campus \cap Department = {} /\ Department \cap Program = {}
  /\ Campus \cap Program = {}
  /\ MaxOps \in Nat

VARIABLES
  enrol,    \* active enrollment rows: the role of a user in a program's course
  inst,     \* user_institutional_role rows
  roles,    \* "user".roles
  admin,    \* a request of AdminService in progress
  login,    \* a hydration in progress
  sync,     \* the enrolment synchronisation in progress
  ops       \* changes, hydrations and synchronisations so far

rolesVars == <<enrol, inst, roles, admin, login, sync, ops>>

InstRecord ==
  [user : User, role : InstRole, cat : Category, source : {"auto", "manual"}]

AdminRecord ==
  [pc : {"idle", "read", "flush"}, user : User \cup {NoOne}, to : SUBSET Role]
LoginRecord ==
  [pc : {"idle", "commit"}, user : User \cup {NoOne},
   courses : [Program -> Taken], detected : SUBSET Program,
   seen : SUBSET InstRecord]
Lists == [Program -> [User -> Taken]]
SyncRecord ==
  [pc : {"idle", "courses", "derive", "flush"}, todo : SUBSET Program,
   lists : Lists, to : [User -> SUBSET Role], changed : SUBSET User]

NoCourses == [p \in Program |-> "none"]
AdminIdle == [pc |-> "idle", user |-> NoOne, to |-> {}]
LoginIdle ==
  [pc |-> "idle", user |-> NoOne, courses |-> NoCourses, detected |-> {},
   seen |-> {}]
SyncIdle ==
  [pc |-> "idle", todo |-> {},
   lists |-> [p \in Program |-> [u \in User |-> "none"]],
   to |-> [u \in User |-> {}], changed |-> {}]

RoleKey(r) == <<r.user, r.role, r.cat>>

RolesTypeOK ==
  /\ enrol \in [User -> [Program -> Taken]]
  /\ inst \subseteq InstRecord
  /\ \A r, s \in inst : RoleKey(r) = RoleKey(s) => r = s   \* the unique index
  /\ roles \in [User -> SUBSET Role]
  /\ admin \in AdminRecord /\ login \in LoginRecord /\ sync \in SyncRecord
  /\ ops \in 0..MaxOps

-----------------------------------------------------------------------------
InstOf(u) == {r \in inst : r.user = u}

\* MoodleRoleMapping.
Mapped(e) ==
  CASE e = "teacher" -> {"FACULTY"} [] e = "student" -> {"STUDENT"}
    [] e = "manager" -> {"DEAN"}    [] e = "none" -> {}

\* User.updateRolesFromEnrollments.
Derived(u, courses, rows) ==
  Fixed[u] \cup (UNION {Mapped(courses[p]) : p \in Program})
           \cup {r.role : r \in rows}

RolesInit ==
  /\ enrol = [u \in User |-> NoCourses]
  /\ inst = {}
  /\ roles = Fixed
  /\ admin = AdminIdle /\ login = LoginIdle /\ sync = SyncIdle
  /\ ops = 0

-----------------------------------------------------------------------------
(* AdminService.                                                           *)

\* The category a role is stored at: a DEAN's program stands for its
\* department; other levels are refused.
Stored(role, cat) ==
  CASE role = "DEAN" /\ cat \in Program -> {DeptOf[cat]}
    [] role = "DEAN" -> {cat} \cap Department
    [] role = "CAMPUS_HEAD" -> {cat} \cap Campus
    [] role = "CHAIRPERSON" -> {cat}

AdminBegins(u) ==
  /\ admin.pc = "idle" /\ ops < MaxOps
  /\ ops' = ops + 1
  /\ admin' = [AdminIdle EXCEPT !.pc = "read", !.user = u]
  /\ UNCHANGED <<enrol, roles, login, sync>>

\* Mutant of Assign: a row is inserted for a role the user has already.
AssignInserts(u, role, cat) ==
  /\ AdminBegins(u)
  /\ \E c \in Stored(role, cat) :
       inst' = inst \cup {[user |-> u, role |-> role, cat |-> c, source |-> "manual"]}

\* AssignInstitutionalRole: the upsert takes the row over as a manual one.
Assign(u, role, cat) ==
  /\ AdminBegins(u)
  /\ \E c \in Stored(role, cat) :
       LET row == [user |-> u, role |-> role, cat |-> c, source |-> "manual"]
       IN  inst' = {r \in inst : RoleKey(r) # RoleKey(row)} \cup {row}

\* RemoveInstitutionalRole: the removal is flushed before the roles are read.
Unassign(u, role, cat) ==
  /\ AdminBegins(u)
  /\ \E row \in inst :
       RoleKey(row) = <<u, role, cat>> /\ inst' = inst \ {row}

\* refreshUserRoles reads ...
RefreshRead ==
  /\ admin.pc = "read"
  /\ admin' = [admin EXCEPT !.pc = "flush",
       !.to = Derived(admin.user, enrol[admin.user], InstOf(admin.user))]
  /\ UNCHANGED <<enrol, inst, roles, login, sync, ops>>

\* ... and writes.
RefreshFlush ==
  /\ admin.pc = "flush"
  /\ roles' = [roles EXCEPT ![admin.user] = admin.to]
  /\ admin' = AdminIdle
  /\ UNCHANGED <<enrol, inst, login, sync, ops>>

-----------------------------------------------------------------------------
(* hydrateUserCourses, at a login through Moodle.                          *)

\* The courses Moodle lists, "student" standing in for a role that could not
\* be fetched; the programs at which the user may manage the category, a
\* failed query counting as no; and the rows read in the transaction.
Hydrate(u, courses, detected) ==
  /\ login.pc = "idle" /\ ops < MaxOps
  /\ detected \subseteq {p \in Program : courses[p] # "none"}
  /\ ops' = ops + 1
  /\ login' = [pc |-> "commit", user |-> u, courses |-> courses,
               detected |-> detected, seen |-> InstOf(u)]
  /\ UNCHANGED <<enrol, inst, roles, admin, sync>>

ManualDean(rows) ==
  {r.cat : r \in {x \in rows : x.role = "DEAN" /\ x.source = "manual"}}

\* Step 3: a CHAIRPERSON below a department of which the user is manual DEAN.
Redundant(r, rows) ==
  /\ r.role = "CHAIRPERSON" /\ r.cat \in Program
  /\ DeptOf[r.cat] \in ManualDean(rows)

\* Mutant of Stale: manual rows as well.
StaleOfAnySource(r, detected) ==
  ~(r.role = "CHAIRPERSON" /\ r.cat \in detected)

\* Step 4: automatic rows Moodle no longer confirms.
Stale(r, detected) ==
  /\ r.source = "auto"
  /\ ~(r.role = "CHAIRPERSON" /\ r.cat \in detected)

Dropped(rows, detected) ==
  {r \in rows : Redundant(r, rows) \/ Stale(r, detected)}

\* Programs for which an automatic CHAIRPERSON is inserted.
Promoted(rows, detected) ==
  {p \in detected :
     LET left == {r \in rows : ~Redundant(r, rows)} IN
     /\ ~\E r \in left : r.source = "manual" /\ r.cat = p
     /\ DeptOf[p] \notin ManualDean(left)}

\* The commit: the rows are removed by their ids, an insertion that meets a row
\* leaves it, and the roles are derived from what the transaction then sees.
HydrateCommit ==
  LET u == login.user
      kept == {r \in inst :
                 RoleKey(r) \notin {RoleKey(x) : x \in Dropped(login.seen, login.detected)}}
      fresh == {[user |-> u, role |-> "CHAIRPERSON", cat |-> p, source |-> "auto"]
                  : p \in Promoted(login.seen, login.detected)}
      added == {r \in fresh : RoleKey(r) \notin {RoleKey(x) : x \in kept}}
      courses == [p \in Program |->
                    IF login.courses[p] = "none" THEN enrol[u][p]
                                                 ELSE login.courses[p]]
  IN
  /\ login.pc = "commit"
  /\ enrol' = [enrol EXCEPT ![u] = courses]
  /\ inst' = kept \cup added
  /\ roles' = [roles EXCEPT ![u] =
                 Derived(u, courses, {r \in inst' : r.user = u})]
  /\ login' = LoginIdle
  /\ UNCHANGED <<admin, sync, ops>>

-----------------------------------------------------------------------------
(* EnrollmentSyncService.SyncEnrollments.                                  *)

\* Phase 1: the lists of the courses that could be fetched.
SyncFetch(fetched, lists) ==
  /\ sync.pc = "idle" /\ ops < MaxOps
  /\ \A p \in Program \ fetched : lists[p] = SyncIdle.lists[p]
  /\ ops' = ops + 1
  /\ sync' = [SyncIdle EXCEPT !.pc = "courses", !.todo = fetched, !.lists = lists]
  /\ UNCHANGED <<enrol, inst, roles, admin, login>>

\* Phase 3, one transaction per course: who is not listed is deactivated.
SyncCourse ==
  /\ sync.pc = "courses"
  /\ \E p \in sync.todo :
       /\ enrol' = [u \in User |-> [enrol[u] EXCEPT ![p] = sync.lists[p][u]]]
       /\ sync' = [sync EXCEPT !.todo = @ \ {p}]
  /\ UNCHANGED <<inst, roles, admin, login, ops>>

\* A course whose transaction fails is skipped.
SyncCourseFails ==
  /\ sync.pc = "courses"
  /\ \E p \in sync.todo : sync' = [sync EXCEPT !.todo = @ \ {p}]
  /\ UNCHANGED <<enrol, inst, roles, admin, login, ops>>

\* Phase 5, deriveUserRoles, for the users on the fetched lists only ...
Enrolled == {u \in User : \E p \in Program : sync.lists[p][u] # "none"}

SyncDerive ==
  /\ sync.pc = "courses" /\ sync.todo = {}
  /\ LET to == [u \in User |->
                  IF u \in Enrolled THEN Derived(u, enrol[u], InstOf(u)) ELSE {}]
     IN  sync' = [SyncIdle EXCEPT !.pc = "flush", !.to = to,
                    !.changed = {u \in Enrolled : to[u] # roles[u]}]
  /\ UNCHANGED <<enrol, inst, roles, admin, login, ops>>

\* ... and only what changed is written.
SyncFlush ==
  /\ sync.pc = "flush"
  /\ roles' = [u \in User |-> IF u \in sync.changed THEN sync.to[u] ELSE roles[u]]
  /\ sync' = SyncIdle
  /\ UNCHANGED <<enrol, inst, admin, login, ops>>

-----------------------------------------------------------------------------
RolesNext ==
  \/ \E u \in Staff, role \in InstRole, cat \in Category :
       Assign(u, role, cat) \/ Unassign(u, role, cat)
  \/ RefreshRead \/ RefreshFlush
  \/ \E u \in Staff, courses \in [Program -> Taken], detected \in SUBSET Program :
       Hydrate(u, courses, detected)
  \/ HydrateCommit
  \/ \E fetched \in SUBSET Program, lists \in Lists : SyncFetch(fetched, lists)
  \/ SyncCourse \/ SyncCourseFails \/ SyncDerive \/ SyncFlush

RolesSpec == RolesInit /\ [][RolesNext]_rolesVars

-----------------------------------------------------------------------------
(* Properties.                                                             *)

\* A hydration no administrator overtook keeps every manual role but a
\* CHAIRPERSON below a manual DEAN, and leaves no such CHAIRPERSON.
HydrationRespectsManual ==
  [][ login.pc = "commit" /\ login'.pc = "idle" /\ login.seen = InstOf(login.user)
      => \A r \in login.seen :
           r.source = "manual" =>
             (r \in inst' <=> ~(/\ r.role = "CHAIRPERSON" /\ r.cat \in Program
                                /\ DeptOf[r.cat] \in ManualDean(login.seen))) ]_rolesVars

=============================================================================
