----------------------------- MODULE ScopeAccess -----------------------------
(***************************************************************************)
(* What a user may see and start in the semester: ScopeResolverService and *)
(* the services that ask it, over the roles, enrolments and institutional  *)
(* roles that UserRoles lets arise.  A viewer is the user of a request     *)
(* with the roles it carries.                                              *)
(***************************************************************************)
EXTENDS UserRoles

CONSTANTS
  HomeCampus,   \* the campus of the semester
  Null          \* a scope column that is not set

ASSUME ScopeAccessAssumption ==
  /\ HomeCampus \in Campus
  /\ Null \notin Category \cup User

Viewer(u) == [id |-> u, roles |-> roles[u]]

\* A resolver that answers null restricts nothing.
Unrestricted == Category

-----------------------------------------------------------------------------
(* ScopeResolverService.                                                   *)

Holds(v, role) == {r.cat : r \in {x \in inst : x.user = v.id /\ x.role = role}}

\* A department of which the viewer is DEAN, or one with such a program.
DeanDepartments(v) ==
  (Holds(v, "DEAN") \cap Department)
    \cup {DeptOf[p] : p \in Holds(v, "DEAN") \cap Program}

\* A CHAIRPERSON's category is looked up among the programs only.
ChairPrograms(v)    == Holds(v, "CHAIRPERSON") \cap Program
ChairDepartments(v) == {DeptOf[p] : p \in ChairPrograms(v)}

CampusHeadDepartments(v) ==
  IF HomeCampus \in Holds(v, "CAMPUS_HEAD") THEN Department ELSE {}
CampusHeadCampuses(v) == {HomeCampus} \cap Holds(v, "CAMPUS_HEAD")

\* The first role decides; without any of them the resolvers throw, which is
\* not to be confused with {}.
Scoped(v) == v.roles \cap (InstRole \cup {"SUPER_ADMIN"}) # {}

ResolveDepartmentIds(v) ==
  CASE "SUPER_ADMIN" \in v.roles -> Unrestricted
    [] "SUPER_ADMIN" \notin v.roles /\ "DEAN" \in v.roles -> DeanDepartments(v)
    [] v.roles \cap {"SUPER_ADMIN", "DEAN"} = {} /\ "CHAIRPERSON" \in v.roles ->
         ChairDepartments(v)
    [] OTHER -> CampusHeadDepartments(v)

ResolveProgramIds(v) ==
  IF v.roles \cap {"SUPER_ADMIN", "DEAN", "CAMPUS_HEAD"} # {}
  THEN Unrestricted ELSE ChairPrograms(v)

ResolveCampusIds(v) ==
  IF v.roles \cap {"SUPER_ADMIN", "DEAN", "CHAIRPERSON"} # {}
  THEN Unrestricted ELSE CampusHeadCampuses(v)

Teaching(f) == {p \in Program : enrol[f][p] = "teacher"}
TeachingDepartments(f) == {DeptOf[p] : p \in Teaching(f)}

\* Mutant of InSemesterScope: the home department decides.
InHomeScope(f, departments) ==
  departments = Unrestricted \/ \E d \in departments : TeachingDepartments(f) = {d}

\* IsFacultyInSemesterScope, and facultyTeachesInScope of the orchestrator.
InSemesterScope(f, departments) ==
  departments = Unrestricted \/ TeachingDepartments(f) \cap departments # {}
TeachesInPrograms(f, programs) ==
  programs = Unrestricted \/ Teaching(f) \cap programs # {}

-----------------------------------------------------------------------------
(* PipelineOrchestratorService: who may create, list and read pipelines.   *)

Row == [faculty : User \cup {Null}, department : Department \cup {Null},
        campus : Campus \cup {Null}]
NoScope == [faculty |-> Null, department |-> Null, campus |-> Null]

\* canonicalToInternal, listQueryToInternal: one scope, or none.
Asked ==
  {NoScope}
    \cup {[NoScope EXCEPT !.faculty = f] : f \in User}
    \cup {[NoScope EXCEPT !.department = d] : d \in Department}
    \cup {[NoScope EXCEPT !.campus = c] : c \in Campus}

\* assertFacultyInUserScope.
FacultyInUserScope(v, f) ==
  \/ "SUPER_ADMIN" \in v.roles
  \/ /\ v.roles \cap {"DEAN", "CAMPUS_HEAD"} # {}
     /\ InSemesterScope(f, ResolveDepartmentIds(v))
  \/ "CHAIRPERSON" \in v.roles /\ TeachesInPrograms(f, ResolveProgramIds(v))

\* The only member, if the viewer named none and has one to fill in.
Filled(named, allowed) ==
  IF named # Null THEN {named} \cap allowed
  ELSE {x \in allowed : allowed = {x}}

\* assertCanCreatePipeline: the row that will be inserted, none if refused.
Creatable(v, q) ==
  CASE "SUPER_ADMIN" \in v.roles -> {q} \ {NoScope}
    [] "SUPER_ADMIN" \notin v.roles /\ Scoped(v) /\ q.faculty # Null ->
         {r \in {q} : FacultyInUserScope(v, q.faculty)}
    [] "SUPER_ADMIN" \notin v.roles /\ "DEAN" \in v.roles /\ q.faculty = Null ->
         {[q EXCEPT !.department = d] :
            d \in Filled(q.department, ResolveDepartmentIds(v))}
    [] v.roles \cap InstRole = {"CAMPUS_HEAD"} /\ "SUPER_ADMIN" \notin v.roles
         /\ q.faculty = Null ->
         IF q.department # Null
         THEN {r \in {q} : q.department \in ResolveDepartmentIds(v)}
         ELSE {[q EXCEPT !.campus = c] :
                 c \in Filled(q.campus, ResolveCampusIds(v))}
    [] OTHER -> {}

\* Mutant of CanAccess: without the teaching footprint.
CanAccessByColumns(v, row) ==
  \/ "SUPER_ADMIN" \in v.roles
  \/ /\ "DEAN" \in v.roles
     /\ row.department \in ResolveDepartmentIds(v)
  \/ /\ "CAMPUS_HEAD" \in v.roles
     /\ row.campus # Null \/ row.department # Null
     /\ row.campus \in ResolveCampusIds(v) \cup {Null}
     /\ row.department \in ResolveDepartmentIds(v) \cup {Null}
  \/ "FACULTY" \in v.roles /\ row.faculty = v.id

\* assertCanAccessPipeline; new rows have no program.
CanAccess(v, row) ==
  \/ "SUPER_ADMIN" \in v.roles
  \/ /\ "DEAN" \in v.roles
     /\ row.department \in ResolveDepartmentIds(v)
  \/ /\ "CAMPUS_HEAD" \in v.roles
     /\ row.campus # Null \/ row.department # Null
     /\ row.campus \in ResolveCampusIds(v) \cup {Null}
     /\ row.department \in ResolveDepartmentIds(v) \cup {Null}
  \/ "FACULTY" \in v.roles /\ row.faculty = v.id
  \/ /\ v.roles \cap InstRole # {}
     /\ row.faculty # Null
     /\ row = [NoScope EXCEPT !.faculty = row.faculty]
     /\ FacultyInUserScope(v, row.faculty)

\* The filter of ListPipelines, as the values each column may have; a column
\* of a listing by faculty is not restricted.
Columns(q, departments, campuses) ==
  IF q.faculty # Null
  THEN [faculty |-> {q.faculty}, department |-> Department \cup {Null},
        campus |-> Campus \cup {Null}]
  ELSE [faculty |-> {Null},
        department |-> IF q.department # Null THEN {q.department} ELSE departments,
        campus |-> IF q.campus # Null THEN {q.campus} ELSE campuses]

Nothing == [faculty |-> {}, department |-> {}, campus |-> {}]

\* fillAndAssertListScope and the filter.
Listing(v, q) ==
  CASE "SUPER_ADMIN" \in v.roles -> Columns(q, {Null}, {Null})
    [] "SUPER_ADMIN" \notin v.roles /\ Scoped(v) /\ q.faculty # Null ->
         IF FacultyInUserScope(v, q.faculty)
         THEN Columns(q, {Null}, {Null}) ELSE Nothing
    [] "SUPER_ADMIN" \notin v.roles /\ "DEAN" \in v.roles /\ q.faculty = Null ->
         IF q.department \in ResolveDepartmentIds(v) \cup {Null}
         THEN Columns(q, ResolveDepartmentIds(v), {Null}) ELSE Nothing
    [] v.roles \cap {"SUPER_ADMIN", "DEAN"} = {} /\ "CHAIRPERSON" \in v.roles
         /\ q.faculty = Null ->
         Columns(q, {}, {Null})
    [] v.roles \cap InstRole = {"CAMPUS_HEAD"} /\ "SUPER_ADMIN" \notin v.roles
         /\ q.faculty = Null ->
         IF q.campus \in ResolveCampusIds(v) \cup {Null}
         THEN Columns(q, {Null}, ResolveCampusIds(v)) ELSE Nothing
    [] ~Scoped(v) /\ "FACULTY" \in v.roles ->
         Columns([q EXCEPT !.faculty = v.id], {Null}, {Null})
    [] OTHER -> Nothing

Shown(v, q, row) ==
  LET l == Listing(v, q) IN
  /\ row.faculty \in l.faculty
  /\ row.department \in l.department
  /\ row.campus \in l.campus

-----------------------------------------------------------------------------
(* Faculty, curriculum, reports and analytics.                             *)

\* A department and a program of a listing, each Null for all: the department
\* has to be in the viewer's scope, the program in it and in the department.
Narrowed(v, d, p) ==
  LET scope == ResolveDepartmentIds(v) IN
  /\ Scoped(v)
  /\ d \in scope \cup {Null}
  /\ p # Null => DeptOf[p] \in scope /\ d \in {Null, DeptOf[p]}

DepartmentsOf(v, d) ==
  Department \cap (IF d = Null THEN ResolveDepartmentIds(v) ELSE {d})

\* FacultyService.ListFaculty.
ListedFaculty(v, d, p) ==
  {f \in User : \E x \in Teaching(f) :
     /\ Narrowed(v, d, p)
     /\ DeptOf[x] \in DepartmentsOf(v, d) /\ p \in {Null, x}}

\* FacultyService.AssertFacultyAccess, of GetFacultyEnrollments.
FacultyAccess(v, f) ==
  \/ Scoped(v) /\ InSemesterScope(f, ResolveDepartmentIds(v))
  \/ ~Scoped(v) /\ "FACULTY" \in v.roles /\ v.id = f

\* ReportsService.validateFacultyInScope.
ReportAccess(v, f) == Scoped(v) /\ InSemesterScope(f, ResolveDepartmentIds(v))

\* AnalyticsService.validateFacultyScope.
AnalyticsAccess(v, f) ==
  \/ ~Scoped(v) /\ "FACULTY" \in v.roles /\ v.id = f
  \/ Scoped(v) /\ InSemesterScope(f, ResolveDepartmentIds(v))

\* CurriculumService.
ListedDepartments(v) ==
  IF Scoped(v) THEN Department \cap ResolveDepartmentIds(v) ELSE {}

\* Mutant of ListedPrograms: the programs decide alone.
ListedProgramsAnywhere(v, d) ==
  {p \in Program :
     Narrowed(v, d, Null) /\ p \in ResolveProgramIds(v) /\ d \in {Null, DeptOf[p]}}

ListedPrograms(v, d) ==
  {p \in Program :
     /\ Narrowed(v, d, Null)
     /\ DeptOf[p] \in DepartmentsOf(v, d) /\ p \in ResolveProgramIds(v)}

\* ListCourses: the programs whose courses are shown.
ListedCourses(v, d, p) ==
  {x \in Program :
     /\ d # Null \/ p # Null
     /\ Narrowed(v, d, p)
     /\ DeptOf[x] \in DepartmentsOf(v, d) /\ p \in {Null, x}}

-----------------------------------------------------------------------------
(* Properties, of every viewer the roles produce.                          *)

Viewers == {Viewer(u) : u \in User}
CreatableRows(v) == UNION {Creatable(v, q) : q \in Asked}
Rows == UNION {CreatableRows(v) : v \in Viewers}

\* Whoever may create a pipeline may read it, confirm it and cancel it, with
\* whatever roles besides ("Without this, dean/chair/campus-head cannot read
\* back FACULTY-scoped pipelines they just created").
CreatorCanRead ==
  \A v \in Viewers : \A row \in CreatableRows(v) : CanAccess(v, row)

\* The list of pipelines shows only what the viewer can open; not for a
\* CHAIRPERSON who asks for a department, which the filter takes as it is.
ListedIsReadable ==
  \A v \in Viewers : \A q \in Asked : \A row \in Rows :
    /\ Shown(v, q, row)
    /\ "CHAIRPERSON" \in v.roles => q.department = Null
    => CanAccess(v, row)

\* The rules for creating, listing and opening a pipeline, which are written
\* three times, agree: nobody creates or is shown what is then refused.
PipelineRulesAgree == CreatorCanRead /\ ListedIsReadable

\* A faculty member who is listed can be opened: the enrolments, the report and
\* the analytics ask other services, and all of them agree with the list.
ListedFacultyOpens ==
  \A v \in Viewers : \A d \in Department \cup {Null}, p \in Program \cup {Null} :
    \A f \in ListedFaculty(v, d, p) :
      FacultyAccess(v, f) /\ ReportAccess(v, f) /\ AnalyticsAccess(v, f)

\* From departments to programs to courses to teachers nobody is refused what
\* the list above has offered.
DrillDown ==
  \A v \in Viewers : \A d \in Department \cup {Null} : \A p \in ListedPrograms(v, d) :
    /\ DeptOf[p] \in ListedDepartments(v)
    /\ p \in ListedCourses(v, d, p)
    /\ \A f \in User : p \in Teaching(f) => f \in ListedFaculty(v, d, p)

\* The lists and the pages they lead to, each with a scope rule of its service,
\* agree: from the departments to a teacher's report no link is refused.
EveryLinkOpens == ListedFacultyOpens /\ DrillDown

=============================================================================
