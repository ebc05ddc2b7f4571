------------------------------- MODULE Surveys -------------------------------
(***************************************************************************)
(* A questionnaire, its versions, and what is submitted to them:           *)
(* QuestionnaireTypeService, QuestionnaireService, the IngestionEngine and *)
(* the list of one's own enrolments that CacheService keeps in Redis.      *)
(* One questionnaire type; one respondent evaluating one faculty member in *)
(* one semester, in a course or outside of any.                            *)
(*                                                                         *)
(* Every request has an EntityManager of its own: what it wrote is what    *)
(* differs from what it read, column by column, in one transaction.        *)
(***************************************************************************)
EXTENDS Integers, Sequences, FiniteSets, FiniteSetsExt

CONSTANTS
  Caller,       \* requests in progress
  Task,         \* the slots of the ingestion's pLimit(6)
  Course,       \* courses in which the faculty member can be evaluated
  NoCourse,     \* an evaluation outside of them
  Schema,       \* contents of a version
  Valid,        \* the ones QuestionnaireSchemaValidator accepts
  Answers,      \* what a draft holds
  None,         \* nothing cached, saved or reported
  MaxVersions,  \* bound on versions
  MaxSubs,      \* bound on submissions
  MaxFile,      \* bound on the records of an ingested file
  MaxOps,       \* bound on requests
  MaxFaults     \* bound on restarts, expiries, time-outs and failed jobs

Actor   == Caller \cup Task
Context == Course \cup {NoCourse}
Version == 1..MaxVersions
Sub     == 1..MaxSubs
Record  == 1..MaxFile

ASSUME SurveysAssumption ==
  /\ NoCourse \notin Course /\ Valid \subseteq Schema
  /\ None \notin Answers \cup {"success", "failure"}
  /\ Caller \cap Task = {}
  /\ MaxVersions \in Nat \ {0} /\ MaxSubs \in Nat /\ MaxFile \in Nat
  /\ MaxOps \in Nat /\ MaxFaults \in Nat

VARIABLES
  type,     \* questionnaire_type
  quest,    \* questionnaire.status
  vers,     \* questionnaire_version rows, in the order of their creation
  nvers,
  subs,     \* questionnaire_submission rows
  nsubs,
  drafts,   \* questionnaire_draft rows that are not deleted
  queued,   \* embedding jobs
  cache,    \* enrollments-me:<user>: the contexts shown as submitted
  tracked,  \* CacheService.keyRegistry has the key, in memory
  req,      \* requests and ingestion tasks in progress
  ing,      \* the last ingestion
  saved,    \* history: the last draft saved and not deleted
  past,     \* history: what has happened that the properties except
  ops,
  faults

lifecycle == <<type, quest, vers, nvers>>
landed    == <<subs, nsubs, queued>>
cached    == <<cache, tracked>>
drafted   == <<drafts, saved>>
vars == <<lifecycle, landed, cached, drafted, req, ing, past, ops, faults>>

Status == {"DRAFT", "ACTIVE", "DEPRECATED", "ARCHIVED"}

VersionRecord ==
  [number : Version, status : Status \ {"ARCHIVED"}, active : BOOLEAN,
   published : BOOLEAN, schema : Schema]

SubRecord ==
  [id : Sub, ver : Version, course : Context, schema : Schema,
   answers : BOOLEAN,   \* its questionnaire_answer rows
   results : BOOLEAN]   \* its embedding, sentiment results and topics

DraftRecord == [id : 1..MaxOps, ver : Version, course : Context, answers : Answers]

ReqRecord ==
  [pc : {"idle", "removing", "newQuest", "number", "newVersion", "publishing",
         "published", "deprecating", "deprecated", "archiving", "updating",
         "submitting", "submitted", "embedding", "saving", "storing",
         "wipeResults", "wipeAnswers", "wipeRows"},
   ver     : 0..MaxVersions,
   other   : 0..MaxVersions + MaxOps,  \* the active version found, or a new id
   quest   : Status \cup {"none"},   \* what was read ...
   status  : Status,
   active  : BOOLEAN,
   schema  : Schema \cup {None},
   course  : Context,
   draft   : 0..MaxOps,         \* the draft found; or the request's number
   answers : Answers \cup {None},
   ids     : SUBSET Sub,
   value   : SUBSET Context,
   record  : 0..MaxFile,        \* of the ingestion this is a task of
   late    : BOOLEAN]           \* ... that has timed out
Idle ==
  [pc |-> "idle", ver |-> 0, other |-> 0, quest |-> "none", status |-> "DRAFT",
   active |-> FALSE, schema |-> None, course |-> NoCourse, draft |-> 0,
   answers |-> None, ids |-> {}, value |-> {}, record |-> 0, late |-> FALSE]

IngRecord ==
  [ver : 0..MaxVersions, file : UNION {[1..n -> Course] : n \in 0..MaxFile},
   dry : BOOLEAN, next : 1..MaxFile + 1,
   result : [Record -> {None, "success", "failure"}],
   landed : SUBSET Record, timedOut : SUBSET Record]
NoIngestion ==
  [ver |-> 0, file |-> <<>>, dry |-> FALSE, next |-> 1,
   result |-> [i \in Record |-> None], landed |-> {}, timedOut |-> {}]

SurveysTypeOK ==
  /\ type \in {"absent", "live", "removed"} /\ quest \in Status \cup {"none"}
  /\ nvers \in 0..MaxVersions /\ vers \in [1..nvers -> VersionRecord]
  /\ subs \subseteq SubRecord /\ nsubs \in 0..MaxSubs
  /\ \A s, t \in subs : s.id = t.id => s = t
  /\ drafts \subseteq DraftRecord /\ queued \subseteq Sub
  /\ cache \in {None} \cup SUBSET Context /\ tracked \in BOOLEAN
  /\ req \in [Actor -> ReqRecord] /\ ing \in IngRecord
  /\ saved \in [Version \X Context -> Answers \cup {None}]
  /\ ops \in 0..MaxOps /\ faults \in 0..MaxFaults

\* From nothing, or with a first version in use.
Init ==
  /\ \/ type = "absent" /\ quest = "none" /\ vers = <<>> /\ nvers = 0
     \/ /\ type = "live" /\ quest = "ACTIVE" /\ nvers = 1
        /\ \E s \in Valid :
             vers = <<[number |-> 1, status |-> "ACTIVE", active |-> TRUE,
                       published |-> TRUE, schema |-> s]>>
  /\ subs = {} /\ nsubs = 0 /\ drafts = {} /\ queued = {}
  /\ cache = None /\ tracked = FALSE
  /\ req = [a \in Actor |-> Idle] /\ ing = NoIngestion
  /\ saved = [k \in Version \X Context |-> None]
  /\ past = {} /\ ops = 0 /\ faults = 0

-----------------------------------------------------------------------------
(* Requests.                                                               *)

At(a, label)   == req[a].pc = label
Goto(a, label) == req' = [req EXCEPT ![a].pc = label]
Done(a)        == req' = [req EXCEPT ![a] = Idle]

\* Requests of one kind that overlap are noted.
Lifecycle == {"removing", "newQuest", "number", "newVersion", "publishing",
              "published", "deprecating", "deprecated", "archiving", "updating"}
Kind(label) ==
  CASE label \in Lifecycle -> "lifecycle"
    [] label = "saving" -> "saves"
    [] OTHER -> label
Overlaps(a, label) ==
  ({Kind(label)} \cap {Kind(req[b].pc) : b \in Actor \ {a}}) \cap {"lifecycle", "saves"}

Begin(a, r) ==
  /\ a \in Caller /\ At(a, "idle") /\ ops < MaxOps
  /\ ops' = ops + 1
  /\ req' = [req EXCEPT ![a] = r]
  /\ past' = past \cup Overlaps(a, r.pc)
  /\ UNCHANGED <<lifecycle, landed, drafted, ing, faults>>

\* A request that only reads before its first write.
Reads(a, r) == Begin(a, r) /\ UNCHANGED cached

Only(changed) == UNCHANGED <<ing, past, ops, faults>> /\ UNCHANGED changed

-----------------------------------------------------------------------------
(* The type, the questionnaire and its versions.                           *)

TypeCreate ==
  /\ type = "absent" /\ ops < MaxOps
  /\ type' = "live" /\ ops' = ops + 1
  /\ UNCHANGED <<quest, vers, nvers, landed, cached, drafted, req, ing, past,
                 faults>>

TypeRemove(a) ==
  type = "live" /\ quest = "none" /\ Reads(a, [Idle EXCEPT !.pc = "removing"])

TypeRemoveFlush(a) ==
  /\ At(a, "removing")
  /\ type' = "removed"
  /\ Done(a)
  /\ Only(<<quest, vers, nvers, landed, cached, drafted>>)

CreateQuestionnaire(a) ==
  type = "live" /\ quest = "none" /\ Reads(a, [Idle EXCEPT !.pc = "newQuest"])

\* One questionnaire per type, by a unique constraint.
CreateQuestionnaireFlush(a) ==
  /\ At(a, "newQuest")
  /\ quest' = IF quest = "none" THEN "DRAFT" ELSE quest
  /\ Done(a)
  /\ Only(<<type, vers, nvers, landed, cached, drafted>>)

Drafted == {v \in 1..nvers : vers[v].status = "DRAFT"}
Active  == {v \in 1..nvers : vers[v].active}

CreateVersion(a, schema) ==
  /\ quest \notin {"none", "ARCHIVED"} /\ Drafted = {}
  /\ Reads(a, [Idle EXCEPT !.pc = "number", !.schema = schema])

CreateVersionFromTemplate(a, v) ==
  /\ v <= nvers /\ vers[v].status # "DRAFT"
  /\ quest \notin {"none", "ARCHIVED"} /\ Drafted = {}
  /\ Reads(a, [Idle EXCEPT !.pc = "number", !.schema = vers[v].schema])

\* The next number is read by a query of its own.
NextNumber(a) ==
  /\ At(a, "number")
  /\ req' = [req EXCEPT ![a] = [@ EXCEPT !.pc = "newVersion",
               !.other = Max({0} \cup {vers[v].number : v \in 1..nvers})]]
  /\ Only(<<lifecycle, landed, cached, drafted>>)

\* Mutant of NumberFree: no unique constraint.
NumberAnyway(n) == TRUE

\* A version number is unique in its questionnaire.
NumberFree(n) == \A v \in 1..nvers : vers[v].number # n

CreateVersionFlush(a) ==
  LET n == req[a].other + 1 IN
  /\ At(a, "newVersion")
  /\ IF NumberFree(n) /\ nvers < MaxVersions
     THEN /\ nvers' = nvers + 1
          /\ vers' = Append(vers, [number |-> n, status |-> "DRAFT",
               active |-> FALSE, published |-> FALSE, schema |-> req[a].schema])
     ELSE UNCHANGED <<vers, nvers>>
  /\ Done(a)
  /\ Only(<<type, quest, landed, cached, drafted>>)

Publish(a, v) ==
  /\ v <= nvers /\ ~vers[v].published /\ quest # "ARCHIVED"
  /\ vers[v].schema \in Valid
  /\ Reads(a, [Idle EXCEPT !.pc = "publishing", !.ver = v, !.quest = quest])

PublishFind(a) ==
  /\ At(a, "publishing")
  /\ \E w \in IF Active = {} THEN {0} ELSE Active :
       req' = [req EXCEPT ![a] = [@ EXCEPT !.pc = "published", !.other = w]]
  /\ Only(<<lifecycle, landed, cached, drafted>>)

\* Mutant of PublishFlush: the active version stays active.
PublishBeside(a) ==
  LET v == req[a].ver IN
  /\ At(a, "published")
  /\ vers' = [vers EXCEPT ![v] =
       [@ EXCEPT !.active = TRUE, !.status = "ACTIVE", !.published = TRUE]]
  /\ quest' = IF req[a].quest = "ACTIVE" THEN quest ELSE "ACTIVE"
  /\ Done(a)
  /\ Only(<<type, nvers, landed, cached, drafted>>)

PublishFlush(a) ==
  LET v == req[a].ver  w == req[a].other IN
  /\ At(a, "published")
  /\ vers' = [u \in 1..nvers |->
       CASE u = v -> [vers[u] EXCEPT !.active = TRUE, !.status = "ACTIVE",
                                     !.published = TRUE]
         [] u = w /\ u # v -> [vers[u] EXCEPT !.active = FALSE,
                                              !.status = "DEPRECATED"]
         [] OTHER -> vers[u]]
  /\ quest' = IF req[a].quest = "ACTIVE" THEN quest ELSE "ACTIVE"
  /\ Done(a)
  /\ Only(<<type, nvers, landed, cached, drafted>>)

Deprecate(a, v) ==
  /\ v <= nvers /\ vers[v].status # "DEPRECATED" /\ quest # "ARCHIVED"
  /\ Reads(a, [Idle EXCEPT !.pc = "deprecating", !.ver = v, !.quest = quest,
                           !.active = vers[v].active])

\* The query for another active version flushes the version first.
DeprecateFlush(a) ==
  LET v == req[a].ver IN
  /\ At(a, "deprecating")
  /\ vers' = [vers EXCEPT ![v] = [@ EXCEPT !.status = "DEPRECATED",
               !.active = IF req[a].active THEN FALSE ELSE vers[v].active]]
  /\ IF Active \ {v} = {} THEN Goto(a, "deprecated") ELSE Done(a)
  /\ Only(<<type, quest, nvers, landed, cached, drafted>>)

DeprecateQuestionnaire(a) ==
  /\ At(a, "deprecated")
  /\ quest' = IF req[a].quest = "DEPRECATED" THEN quest ELSE "DEPRECATED"
  /\ Done(a)
  /\ Only(<<type, vers, nvers, landed, cached, drafted>>)

Archive(a) ==
  /\ quest \notin {"none", "ARCHIVED"}
  /\ Reads(a, [Idle EXCEPT !.pc = "archiving"])

\* Mutant of ArchiveFlush: the versions are archived along.
ArchiveAll(a) ==
  /\ At(a, "archiving")
  /\ quest' = "ARCHIVED"
  /\ vers' = [v \in 1..nvers |-> [vers[v] EXCEPT !.status = "ARCHIVED"]]
  /\ Done(a)
  /\ Only(<<type, nvers, landed, cached, drafted>>)

ArchiveFlush(a) ==
  /\ At(a, "archiving")
  /\ quest' = "ARCHIVED"
  /\ Done(a)
  /\ Only(<<type, vers, nvers, landed, cached, drafted>>)

UpdateDraftVersion(a, v, schema) ==
  /\ v \in Drafted
  /\ Reads(a, [Idle EXCEPT !.pc = "updating", !.ver = v, !.schema = schema])

UpdateDraftFlush(a) ==
  /\ At(a, "updating")
  /\ vers' = [vers EXCEPT ![req[a].ver].schema = req[a].schema]
  /\ Done(a)
  /\ Only(<<type, quest, nvers, landed, cached, drafted>>)

-----------------------------------------------------------------------------
(* Submissions, by a respondent or by an ingestion.                        *)

Open(v) == v \in 1..nvers /\ vers[v].active /\ quest # "ARCHIVED"
Duplicate(v, c) == \E s \in subs : s.ver = v /\ s.course = c
Submitted == {s.course : s \in subs}

Submitting(v, c) ==
  [Idle EXCEPT !.pc = "submitting", !.ver = v, !.course = c,
               !.schema = vers[v].schema]

Submit(a, v, c) ==
  Open(v) /\ ~Duplicate(v, c) /\ Reads(a, Submitting(v, c))

\* Mutant of RowFree: the check before the insertion is all there is.
RowAnyway(v, c) == TRUE

\* The unique constraint knows no two rows of a course; NULLs differ.
RowFree(v, c) == c = NoCourse \/ ~Duplicate(v, c)

\* An ingestion reports what became of a record, once.
Report(a, ending) ==
  IF req[a].record = 0 \/ req[a].late THEN ing.result
  ELSE [ing.result EXCEPT ![req[a].record] = ending]

SubmitFlush(a) ==
  LET r == req[a] IN
  /\ At(a, "submitting") /\ nsubs < MaxSubs
  /\ ~(r.record # 0 /\ ing.dry)
  /\ IF RowFree(r.ver, r.course)
     THEN /\ nsubs' = nsubs + 1
          /\ subs' = subs \cup
               {[id |-> nsubs + 1, ver |-> r.ver, course |-> r.course,
                 schema |-> r.schema, answers |-> TRUE, results |-> FALSE]}
          /\ ing' = [ing EXCEPT !.landed = @ \cup ({r.record} \cap Record)]
          /\ req' = [req EXCEPT ![a] =
               [@ EXCEPT !.pc = "submitted", !.ids = {nsubs + 1}]]
     ELSE /\ ing' = [ing EXCEPT !.result = Report(a, "failure")]
          /\ Done(a)
          /\ UNCHANGED <<subs, nsubs>>
  /\ UNCHANGED <<lifecycle, cached, queued, drafted, past, ops, faults>>

\* A dry run throws once the submission is flushed: all is rolled back.
SubmitDry(a) ==
  LET r == req[a] IN
  /\ At(a, "submitting") /\ r.record # 0 /\ ing.dry
  /\ ing' = [ing EXCEPT !.result = Report(a,
       IF RowFree(r.ver, r.course) THEN "success" ELSE "failure")]
  /\ Done(a)
  /\ UNCHANGED <<lifecycle, landed, cached, drafted, past, ops, faults>>

\* Mutant of Invalidated: the key is forgotten, its value stays.
Forgotten == cache' = cache /\ tracked' = FALSE

\* invalidateNamespace deletes the keys of the registry, and empties it.
Invalidated ==
  /\ cache' = IF tracked THEN None ELSE cache
  /\ tracked' = FALSE

Storing == \E b \in Caller : At(b, "storing")

SubmitInvalidate(a) ==
  /\ At(a, "submitted")
  /\ Invalidated
  /\ past' = past \cup (IF Storing THEN {"storing"} ELSE {})
  /\ Goto(a, "embedding")
  /\ UNCHANGED <<lifecycle, landed, drafted, ing, ops, faults>>

\* The embedding is asked for; if the queue refuses, that is logged.
SubmitEnqueue(a) ==
  /\ At(a, "embedding")
  /\ \/ queued' = queued \cup req[a].ids /\ UNCHANGED faults
     \/ UNCHANGED queued /\ faults < MaxFaults /\ faults' = faults + 1
  /\ ing' = [ing EXCEPT !.result = Report(a, "success")]
  /\ Done(a)
  /\ UNCHANGED <<lifecycle, subs, nsubs, cached, drafted, past, ops>>

\* The EMBEDDING job stores its result, if the submission is still there.
Embed(i) ==
  /\ i \in queued
  /\ queued' = queued \ {i}
  /\ subs' = {IF s.id = i THEN [s EXCEPT !.results = TRUE] ELSE s : s \in subs}
  /\ UNCHANGED <<lifecycle, nsubs, cached, drafted, req, ing, past, ops, faults>>

-----------------------------------------------------------------------------
(* IngestionEngine.                                                        *)

Working == \E t \in Task : ~At(t, "idle")
Ended   == ing.next > Len(ing.file) /\ ~Working

Ingest(v, file, dry) ==
  /\ Ended /\ v \in Active /\ ops < MaxOps
  /\ ops' = ops + 1
  /\ ing' = [NoIngestion EXCEPT !.ver = v, !.file = file, !.dry = dry]
  /\ UNCHANGED <<lifecycle, landed, cached, drafted, req, past, faults>>

\* A slot takes the next record: its submission begins, or is refused.
TakeRecord(t) ==
  LET i == ing.next  c == ing.file[i] IN
  /\ t \in Task /\ At(t, "idle") /\ i <= Len(ing.file)
  /\ IF Open(ing.ver) /\ ~Duplicate(ing.ver, c)
     THEN /\ req' = [req EXCEPT ![t] = [Submitting(ing.ver, c) EXCEPT !.record = i]]
          /\ ing' = [ing EXCEPT !.next = i + 1]
     ELSE /\ ing' = [ing EXCEPT !.next = i + 1, !.result[i] = "failure"]
          /\ UNCHANGED req
  /\ UNCHANGED <<lifecycle, landed, cached, drafted, past, ops, faults>>

\* After 30 s the record has failed; its submission goes on all the same.
TimeOut(t) ==
  /\ t \in Task /\ ~At(t, "idle") /\ ~req[t].late /\ faults < MaxFaults
  /\ faults' = faults + 1
  /\ ing' = [ing EXCEPT !.result = Report(t, "failure"),
                        !.timedOut = @ \cup {req[t].record}]
  /\ req' = [req EXCEPT ![t].late = TRUE]
  /\ UNCHANGED <<lifecycle, landed, cached, drafted, past, ops>>

\* ... unless the cleared EntityManager has nothing left to flush.
LateFails(t) ==
  /\ t \in Task /\ At(t, "submitting") /\ req[t].late
  /\ Done(t)
  /\ Only(<<lifecycle, landed, cached, drafted>>)

-----------------------------------------------------------------------------
(* Drafts.                                                                 *)

\* Mutant of DraftsOf: the course is never asked for.
DraftsOfAnyCourse(v, c) == {d \in drafts : d.ver = v}

\* What SaveOrUpdateDraft looks for; a save without a course finds any draft.
DraftsOf(v, c) == {d \in drafts : d.ver = v /\ c \in {d.course, NoCourse}}

SaveDraft(a, v, c, answers) ==
  /\ v \in Active
  /\ \E i \in IF DraftsOf(v, c) = {} THEN {0} ELSE {d.id : d \in DraftsOf(v, c)} :
       Reads(a, [Idle EXCEPT !.pc = "saving", !.ver = v, !.course = c,
                             !.answers = answers, !.draft = i, !.other = ops + 1])

SaveDraftFlush(a) ==
  LET r == req[a] IN
  /\ At(a, "saving")
  /\ drafts' =
       IF r.draft = 0
       THEN drafts \cup {[id |-> r.other, ver |-> r.ver, course |-> r.course,
                          answers |-> r.answers]}
       ELSE {IF d.id = r.draft THEN [d EXCEPT !.answers = r.answers] ELSE d :
               d \in drafts}
  /\ saved' = [saved EXCEPT ![<<r.ver, r.course>>] = r.answers]
  /\ past' = past \cup
       (IF \E d \in drafts : d.id = r.draft /\ d.course # NoCourse /\ r.course = NoCourse
        THEN {"courseless"} ELSE {})
  /\ Done(a)
  /\ UNCHANGED <<lifecycle, landed, cached, ing, ops, faults>>

\* A deleted draft that is being saved stays deleted.
DeleteDraft(d) ==
  /\ d \in drafts /\ ops < MaxOps
  /\ ops' = ops + 1
  /\ drafts' = drafts \ {d}
  /\ saved' = [saved EXCEPT ![<<d.ver, d.course>>] = None]
  /\ past' = past \cup
       (IF \E a \in Caller : At(a, "saving") THEN {"saves"} ELSE {})
  /\ UNCHANGED <<lifecycle, landed, cached, req, ing, faults>>

GetDraft(v, c) == {d \in drafts : d.ver = v /\ d.course = c}

-----------------------------------------------------------------------------
(* WipeSubmissions: one statement after the other, in no transaction.      *)

WithoutResults(ids) ==
  {IF s.id \in ids THEN [s EXCEPT !.results = FALSE] ELSE s : s \in subs}
WithoutAnswers(ids) ==
  {IF s.id \in ids THEN [s EXCEPT !.answers = FALSE] ELSE s : s \in subs}

Wipe(a, v) ==
  LET ids == {s.id : s \in {x \in subs : x.ver = v}} IN
  /\ ids # {}
  /\ Reads(a, [Idle EXCEPT !.pc = "wipeResults", !.ver = v, !.ids = ids])

WipeResults(a) ==
  /\ At(a, "wipeResults")
  /\ subs' = WithoutResults(req[a].ids)
  /\ Goto(a, "wipeAnswers")
  /\ Only(<<lifecycle, nsubs, queued, cached, drafted>>)

\* Mutant of WipeAnswers: of every submission to the version.
WipeAnswersOfVersion(a) ==
  /\ At(a, "wipeAnswers")
  /\ subs' = WithoutAnswers({s.id : s \in {x \in subs : x.ver = req[a].ver}})
  /\ Goto(a, "wipeRows")
  /\ Only(<<lifecycle, nsubs, queued, cached, drafted>>)

WipeAnswers(a) ==
  /\ At(a, "wipeAnswers")
  /\ subs' = WithoutAnswers(req[a].ids)
  /\ Goto(a, "wipeRows")
  /\ Only(<<lifecycle, nsubs, queued, cached, drafted>>)

\* The last statement fails if a result was stored meanwhile.  The cached
\* enrolments are not invalidated.
WipeRows(a) ==
  /\ At(a, "wipeRows")
  /\ IF \E s \in subs : s.id \in req[a].ids /\ s.results
     THEN past' = past \cup {"cutWipe"} /\ UNCHANGED subs
     ELSE /\ subs' = {s \in subs : s.id \notin req[a].ids}
          /\ past' = past \cup {"wipe"}
  /\ Done(a)
  /\ UNCHANGED <<lifecycle, nsubs, queued, cached, drafted, ing, ops, faults>>

-----------------------------------------------------------------------------
(* EnrollmentsService.getMyEnrollments through CacheService.wrap.          *)

\* The key is tracked, then looked up; on a miss the database is read ...
GetMyEnrollments(a) ==
  /\ IF cache = None
     THEN Begin(a, [Idle EXCEPT !.pc = "storing", !.value = Submitted])
     ELSE Begin(a, Idle)
  /\ tracked' = TRUE /\ UNCHANGED cache

\* ... and what it said is stored.
Store(a) ==
  /\ At(a, "storing")
  /\ cache' = req[a].value
  /\ Done(a)
  /\ Only(<<lifecycle, landed, tracked, drafted>>)

Expire ==
  /\ cache # None
  /\ cache' = None
  /\ UNCHANGED <<lifecycle, landed, tracked, drafted, req, ing, past, ops, faults>>

\* A restart: the registry is empty, Redis keeps the values.
Crash ==
  /\ faults < MaxFaults
  /\ faults' = faults + 1
  /\ tracked' = FALSE
  /\ past' = past \cup {"restart"} \cup
       (IF \E a \in Caller : req[a].pc \in {"wipeAnswers", "wipeRows"}
        THEN {"cutWipe"} ELSE {})
  /\ req' = [a \in Actor |-> Idle] /\ ing' = NoIngestion
  /\ UNCHANGED <<lifecycle, landed, cache, drafted, ops>>

-----------------------------------------------------------------------------
Ask(a) ==
  \/ TypeRemove(a) \/ CreateQuestionnaire(a) \/ Archive(a) \/ GetMyEnrollments(a)
  \/ \E s \in Schema : CreateVersion(a, s)
  \/ \E v \in Version :
       \/ CreateVersionFromTemplate(a, v) \/ Publish(a, v) \/ Deprecate(a, v)
       \/ Wipe(a, v)
       \/ \E s \in Schema : UpdateDraftVersion(a, v, s)
       \/ \E c \in Context : Submit(a, v, c)
       \/ \E c \in Context, x \in Answers : SaveDraft(a, v, c, x)

Proceed(a) ==
  \/ TypeRemoveFlush(a) \/ CreateQuestionnaireFlush(a)
  \/ NextNumber(a) \/ CreateVersionFlush(a)
  \/ PublishFind(a) \/ PublishFlush(a)
  \/ DeprecateFlush(a) \/ DeprecateQuestionnaire(a)
  \/ ArchiveFlush(a) \/ UpdateDraftFlush(a)
  \/ SubmitFlush(a) \/ SubmitDry(a) \/ SubmitInvalidate(a) \/ SubmitEnqueue(a)
  \/ SaveDraftFlush(a)
  \/ WipeResults(a) \/ WipeAnswers(a) \/ WipeRows(a)
  \/ Store(a)

Next ==
  \/ TypeCreate
  \/ \E a \in Caller : Ask(a)
  \/ \E a \in Actor : Proceed(a)
  \/ \E v \in Version, n \in Record, dry \in BOOLEAN :
       \E file \in [1..n -> Course] : Ingest(v, file, dry)
  \/ \E t \in Task : TakeRecord(t) \/ TimeOut(t) \/ LateFails(t)
  \/ \E i \in Sub : Embed(i)
  \/ \E d \in drafts : DeleteDraft(d)
  \/ Expire \/ Crash

Spec == Init /\ [][Next]_vars

-----------------------------------------------------------------------------
(* Properties.                                                             *)

Changing == \E a \in Caller : Kind(req[a].pc) = "lifecycle"

\* The lifecycle of versions.  Numbers follow on from each other whatever
\* requests race.  If no two requests that change the lifecycle overlapped:
\* there is one active version and one draft at most ("Only one ACTIVE version
\* per questionnaire", "Single Draft Rule", questionnaire-management.md:90-93),
\* the version marked active is the one whose status is ACTIVE, it was
\* validated, its questionnaire and type are still there, and submissions have
\* the content it was published with.
VersionLifecycle ==
  /\ \A v \in 1..nvers : vers[v].number = v
  /\ "lifecycle" \notin past =>
       /\ Cardinality(Active) <= 1 /\ Cardinality(Drafted) <= 1
       /\ Active # {} => quest \in {"ACTIVE", "ARCHIVED"}
       /\ quest = "ACTIVE" /\ Active = {} => Changing \/ "restart" \in past
       /\ quest # "none" => type = "live"
       /\ \A v \in 1..nvers :
            /\ vers[v].active <=> vers[v].status = "ACTIVE"
            /\ vers[v].published => vers[v].schema \in Valid
       /\ \A s \in subs : s.schema = vers[s.ver].schema

\* An ingestion reports the truth, with records of one context side by side and
\* next to the respondent's own submission: a success has landed, a failure has
\* not unless it timed out, a dry run leaves nothing, and no context is filled
\* twice unless it was wiped in between.
IngestionReports ==
  /\ \A i \in Record :
       /\ ing.result[i] = "success" => ing.dry \/ i \in ing.landed
       /\ ing.result[i] = "failure" /\ i \in ing.landed => i \in ing.timedOut
  /\ ing.dry => ing.landed = {}
  /\ {"wipe", "cutWipe"} \cap past = {} =>
       \A i, j \in ing.landed : ing.file[i] = ing.file[j] => i = j
  /\ \A s, t \in subs : s.ver = t.ver /\ s.course = t.course =>
       s = t \/ s.course = NoCourse

\* A draft that was saved is found again with what was saved last, and only
\* it: unless saves and deletions overlapped, or a save without a course took
\* the draft of some course for its own.
DraftIsKept ==
  {"saves", "courseless"} \cap past = {} =>
    \A v \in Version, c \in Context :
      {d.answers : d \in GetDraft(v, c)} = {saved[v, c]} \ {None}

\* A submission without its answers is one that a wipe is about to delete, or
\* that a wipe left behind which a restart or a late result cut off.
AnswersStay ==
  \A s \in subs : s.answers \/ "cutWipe" \in past
    \/ \E a \in Caller : At(a, "wipeRows") /\ s.id \in req[a].ids

\* The cached enrolments show what is submitted as soon as the submission has
\* been answered; not so after a restart, after a wipe, or when somebody was
\* about to store what they had read before.
CacheIsFresh ==
  {"restart", "wipe", "storing"} \cap past = {} /\ cache # None =>
    cache = Submitted \/ \E a \in Actor : At(a, "submitted")

=============================================================================
