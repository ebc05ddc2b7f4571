--------------------------- MODULE Surveys_proofs ---------------------------
(***************************************************************************)
(* Proofs about questionnaires, submissions, drafts, ingestions and the    *)
(* cached enrolments: what holds however many requests, ingestion slots,   *)
(* courses, versions and restarts there are.                               *)
(***************************************************************************)
EXTENDS Surveys, FiniteSetTheorems, SequenceTheorems, WellFoundedInduction, TLAPS

USE SurveysAssumption DEF SurveysAssumption

\* A set of numbers up to a bound has a greatest one, which Max finds.
LEMMA MaxIsGreatest ==
  ASSUME NEW n \in Nat, NEW S \in SUBSET (0..n), S # {}
  PROVE  Max(S) \in S /\ \A x \in S : x <= Max(S)
<1> DEFINE T == {n - x : x \in S}
<1>1. T \subseteq Nat /\ T # {}
  <2>1. T \subseteq Nat
    OBVIOUS
  <2>2. PICK x \in S : TRUE
    OBVIOUS
  <2>3. n - x \in T
    BY <2>2
  <2> QED BY <2>1, <2>3
<1>2. PICK m \in T : \A y \in T : ~(<<y, m>> \in OpToRel(<, Nat))
  <2> HIDE DEF T
  <2> QED BY <1>1, NatLessThanWellFounded, WFMin
<1>3. \A y \in T : m <= y
  <2>1. ASSUME NEW y \in T PROVE m <= y
    <3>1. y \in Nat /\ m \in Nat
      BY <1>1
    <3>2. ~(y < m)
      BY <1>2, <3>1 DEF OpToRel
    <3> QED BY <3>1, <3>2
  <2> QED BY <2>1
<1>4. \E x \in S : \A y \in S : x >= y
  <2>1. PICK x \in S : m = n - x
    BY DEF T
  <2>2. \A y \in S : n - x <= n - y
    BY <1>3, <2>1
  <2> QED BY <2>1, <2>2
<1> QED BY <1>4 DEF Max

-----------------------------------------------------------------------------
(* The inductive invariant: types.                                         *)

LifeInv ==
  /\ type \in {"absent", "live", "removed"} /\ quest \in Status \cup {"none"}
  /\ nvers \in 0..MaxVersions /\ vers \in [1..nvers -> VersionRecord]
  /\ \A v \in 1..nvers : vers[v].number = v
  /\ nvers > 0 => quest # "none"

SubsInv ==
  /\ subs \subseteq SubRecord /\ nsubs \in 0..MaxSubs /\ queued \subseteq Sub
  /\ \A s \in subs : s.id <= nsubs /\ s.ver <= nvers
  /\ \A s, t \in subs : s.id = t.id => s = t

\* The draft that a save creates has an id of its own.
DraftsInv ==
  /\ drafts \subseteq DraftRecord
  /\ saved \in [Version \X Context -> Answers \cup {None}]
  /\ \A d \in drafts : d.id <= ops
  /\ \A d, e \in drafts : d.id = e.id => d = e
  /\ \A a \in Actor : At(a, "saving") => req[a].other <= ops
  /\ \A a \in Actor, d \in drafts : At(a, "saving") => d.id # req[a].other
  /\ \A a, b \in Actor :
       At(a, "saving") /\ At(b, "saving") /\ req[a].other = req[b].other => a = b

CacheTypes == cache \in {None} \cup SUBSET Context /\ tracked \in BOOLEAN

\* What the step an actor has reached lets it rely on.
WellFormed(a, r, n) ==
  /\ r.pc \in {"number", "newVersion", "updating", "submitting"} => r.schema \in Schema
  /\ r.pc \in {"publishing", "published", "deprecating", "updating", "submitting"} =>
       r.ver \in 1..n
  /\ r.pc \in {"newVersion", "published"} => r.other \in 0..n
  /\ r.pc = "saving" =>
       r.other \in 1..MaxOps /\ r.ver \in Version /\ r.answers \in Answers
  /\ r.pc \in {"number", "newVersion"} => quest # "none"
  /\ a \in Caller => r.record = 0 /\ ~r.late
  /\ a \in Task => r.pc \in {"idle", "submitting", "submitted", "embedding"}
  /\ a \in Task /\ r.pc # "idle" => r.record \in Record

ReqInv ==
  /\ req \in [Actor -> ReqRecord]
  /\ \A a \in Actor : WellFormed(a, req[a], nvers)

BoundsInv == ops \in 0..MaxOps /\ faults \in 0..MaxFaults

TypeInv ==
  LifeInv /\ SubsInv /\ DraftsInv /\ CacheTypes /\ ReqInv /\ ing \in IngRecord /\ BoundsInv

-----------------------------------------------------------------------------
(* The lifecycle of versions.                                              *)

\* What a request that changes the lifecycle has read, and may still rely on.
Relies(r) ==
  /\ r.pc = "newQuest" => type = "live"
  /\ r.pc = "removing" => quest = "none"
  /\ r.pc \in {"number", "newVersion"} => Drafted = {}
  /\ r.pc \in {"publishing", "published"} =>
       r.quest = quest /\ vers[r.ver].schema \in Valid
  /\ r.pc = "published" => IF r.other = 0 THEN Active = {} ELSE r.other \in Active
  /\ r.pc = "deprecating" => r.quest = quest /\ r.active = vers[r.ver].active
  /\ r.pc = "deprecated" => r.quest = quest /\ Active = {}
  /\ r.pc \in {"deprecated", "archiving"} => quest # "none"
  /\ r.pc = "updating" => r.ver \in Drafted

Consistent(r) ==
  /\ r.active <=> r.status = "ACTIVE"
  /\ r.active => r.published
  /\ r.status = "DRAFT" => ~r.published
  /\ r.published => r.schema \in Valid

Lines ==
  /\ \A u, v \in Active : u = v
  /\ \A u, v \in Drafted : u = v
  /\ Active # {} => quest \in {"ACTIVE", "ARCHIVED"}
  /\ quest # "none" => type = "live"
  /\ \A v \in 1..nvers : Consistent(vers[v])

Between ==
  quest = "ACTIVE" /\ Active = {} =>
    "restart" \in past \/ \E a \in Actor : At(a, "deprecated")

Contents ==
  /\ \A s \in subs : vers[s.ver].published /\ s.schema = vers[s.ver].schema
  /\ \A a \in Actor : At(a, "submitting") =>
       vers[req[a].ver].published /\ req[a].schema = vers[req[a].ver].schema

Alone ==
  /\ \A a, b \in Actor : req[a].pc \in Lifecycle /\ req[b].pc \in Lifecycle => a = b
  /\ \A a \in Actor : Relies(req[a])
  /\ Lines /\ Between /\ Contents

CycleInv == "lifecycle" \notin past => Alone

-----------------------------------------------------------------------------
(* Ingestion.                                                              *)

RowsUnique ==
  \A s, t \in subs : s.ver = t.ver /\ s.course = t.course => s = t \/ s.course = NoCourse

\* A slot at work has a record of its own, of which the report says nothing yet
\* unless it timed out.
SlotInv(r) ==
  /\ r.record \in 1..Len(ing.file) /\ r.record < ing.next
  /\ r.late <=> r.record \in ing.timedOut
  /\ ing.result[r.record] = IF r.late THEN "failure" ELSE None
  /\ r.pc = "submitting" =>
       r.record \notin ing.landed /\ r.ver = ing.ver /\ r.course = ing.file[r.record]
  /\ r.pc \in {"submitted", "embedding"} => r.record \in ing.landed

SlotsInv ==
  /\ \A t \in Task : ~At(t, "idle") => SlotInv(req[t])
  /\ \A t, u \in Task : ~At(t, "idle") /\ ~At(u, "idle") /\ req[t].record = req[u].record => t = u
  /\ \A i \in Record : i >= ing.next =>
       i \notin ing.landed /\ i \notin ing.timedOut /\ ing.result[i] = None
  /\ ing.landed \subseteq 1..Len(ing.file)

ToldInv ==
  /\ \A i \in Record :
       /\ ing.result[i] = "success" => ing.dry \/ i \in ing.landed
       /\ ing.result[i] = "failure" /\ i \in ing.landed => i \in ing.timedOut
  /\ ing.dry => ing.landed = {}

\* What has landed is a row, each record one of its own.
FilledInv ==
  {"wipe", "cutWipe"} \cap past = {} =>
    /\ \A i \in ing.landed : Duplicate(ing.ver, ing.file[i])
    /\ \A i, j \in ing.landed : ing.file[i] = ing.file[j] => i = j

IngInv == SlotsInv /\ ToldInv /\ FilledInv

-----------------------------------------------------------------------------
(* Drafts.                                                                 *)

Found(r) ==
  IF r.draft = 0 THEN DraftsOf(r.ver, r.course) = {}
  ELSE \E d \in DraftsOf(r.ver, r.course) : d.id = r.draft

KeptInv ==
  {"saves", "courseless"} \cap past = {} =>
    /\ \A a, b \in Actor : At(a, "saving") /\ At(b, "saving") => a = b
    /\ \A a \in Actor : At(a, "saving") => Found(req[a])
    /\ \A d, e \in drafts : d.ver = e.ver /\ d.course = e.course => d = e
    /\ \A d \in drafts : d.answers = saved[d.ver, d.course]
    /\ \A v \in Version, c \in Context :
         saved[v, c] # None => \E d \in drafts : d.ver = v /\ d.course = c

-----------------------------------------------------------------------------
(* The cached enrolments.                                                  *)

Landing == \E a \in Actor : At(a, "submitted")

FreshInv ==
  {"restart", "wipe", "storing"} \cap past = {} =>
    /\ cache # None => tracked /\ (cache = Submitted \/ Landing)
    /\ \A a \in Actor : At(a, "storing") =>
         tracked /\ (req[a].value = Submitted \/ Landing)

-----------------------------------------------------------------------------
(* Types.                                                                  *)

LEMMA TypeInvTyped == TypeInv => SurveysTypeOK
BY DEF TypeInv, LifeInv, SubsInv, DraftsInv, CacheTypes, ReqInv, BoundsInv, SurveysTypeOK

\* A request that does nothing.
LEMMA IdleTypes ==
  /\ Idle \in ReqRecord
  /\ Idle.pc = "idle" /\ Idle.record = 0 /\ Idle.late = FALSE
  /\ \A a, n : WellFormed(a, Idle, n)
<1>1. Idle \in ReqRecord
  BY DEF Idle, ReqRecord, Context, Status
<1>2. Idle.pc = "idle" /\ Idle.record = 0 /\ Idle.late = FALSE
  BY DEF Idle
<1> QED BY <1>1, <1>2 DEF WellFormed

\* What a request of a user has found before its first write.
Starts(r) ==
  \/ r.pc = "idle"
  \/ r.pc = "storing" /\ r.value = Submitted
  \/ r.pc = "removing" /\ quest = "none"
  \/ r.pc = "newQuest" /\ type = "live"
  \/ r.pc = "number" /\ quest # "none" /\ Drafted = {} /\ r.schema \in Schema
  \/ /\ r.pc = "publishing" /\ r.ver \in 1..nvers
     /\ r.quest = quest /\ vers[r.ver].schema \in Valid
  \/ /\ r.pc = "deprecating" /\ r.ver \in 1..nvers
     /\ r.quest = quest /\ r.active = vers[r.ver].active
  \/ r.pc = "archiving" /\ quest # "none"
  \/ r.pc = "updating" /\ r.ver \in Drafted /\ r.schema \in Schema
  \/ /\ r.pc = "submitting" /\ r.ver \in 1..nvers
     /\ vers[r.ver].active /\ r.schema = vers[r.ver].schema
  \/ /\ r.pc = "saving" /\ r.ver \in Version /\ r.answers \in Answers
     /\ r.other = ops + 1 /\ Found(r)
  \/ r.pc = "wipeResults"

Begins(a, r) ==
  /\ Begin(a, r) /\ Starts(r) /\ r.record = 0 /\ r.late = FALSE
  /\ cache' = cache /\ tracked' \in {tracked, TRUE}
  /\ r.pc = "storing" => tracked' = TRUE

\* Every request of a user is such a beginning.
LEMMA AskBegins ==
  ASSUME TypeInv, NEW a \in Caller, Ask(a)
  PROVE  \E r \in ReqRecord : Begins(a, r)
<1>0. /\ Idle \in ReqRecord /\ Idle.pc = "idle" /\ Idle.record = 0 /\ Idle.late = FALSE
      /\ LifeInv /\ ops \in 0..MaxOps
  BY IdleTypes DEF TypeInv, BoundsInv
<1>1. ASSUME TypeRemove(a) \/ CreateQuestionnaire(a) \/ Archive(a)
      PROVE  \E r \in ReqRecord : Begins(a, r)
  <2>1. ASSUME NEW l \in {"removing", "newQuest", "archiving"}
        PROVE  /\ [Idle EXCEPT !.pc = l] \in ReqRecord
               /\ [Idle EXCEPT !.pc = l].pc = l
               /\ [Idle EXCEPT !.pc = l].record = 0 /\ [Idle EXCEPT !.pc = l].late = FALSE
    BY <1>0 DEF ReqRecord
  <2>2. CASE TypeRemove(a)
    BY <2>1, <2>2 DEF TypeRemove, Reads, Begins, Starts, cached
  <2>3. CASE CreateQuestionnaire(a)
    BY <2>1, <2>3 DEF CreateQuestionnaire, Reads, Begins, Starts, cached
  <2>4. CASE Archive(a)
    BY <2>1, <2>4 DEF Archive, Reads, Begins, Starts, cached
  <2> QED BY <1>1, <2>2, <2>3, <2>4
<1>2. ASSUME GetMyEnrollments(a) PROVE \E r \in ReqRecord : Begins(a, r)
  <2> DEFINE r == [Idle EXCEPT !.pc = "storing", !.value = Submitted]
  <2>1. Submitted \in SUBSET Context
    BY DEF Submitted, TypeInv, SubsInv, SubRecord
  <2>2. r \in ReqRecord /\ r.pc = "storing" /\ r.value = Submitted /\ r.record = 0 /\ r.late = FALSE
    BY <1>0, <2>1 DEF ReqRecord
  <2>3. Begin(a, r) \/ Begin(a, Idle)
    BY <1>2 DEF GetMyEnrollments
  <2>4. tracked' = TRUE /\ cache' = cache
    BY <1>2 DEF GetMyEnrollments
  <2> HIDE DEF r
  <2> QED BY <1>0, <2>2, <2>3, <2>4 DEF Begins, Starts
<1>3. ASSUME NEW s \in Schema, CreateVersion(a, s) PROVE \E r \in ReqRecord : Begins(a, r)
  <2> DEFINE r == [Idle EXCEPT !.pc = "number", !.schema = s]
  <2>1. r \in ReqRecord /\ r.pc = "number" /\ r.schema = s /\ r.record = 0 /\ r.late = FALSE
    BY <1>0 DEF ReqRecord
  <2> HIDE DEF r
  <2>2. Begin(a, r) /\ UNCHANGED cached /\ quest # "none" /\ Drafted = {}
    BY <1>3 DEF CreateVersion, Reads, r
  <2> QED BY <2>1, <2>2 DEF Begins, Starts, cached
<1>4. ASSUME NEW v \in Version, CreateVersionFromTemplate(a, v)
      PROVE  \E r \in ReqRecord : Begins(a, r)
  <2> DEFINE r == [Idle EXCEPT !.pc = "number", !.schema = vers[v].schema]
  <2>1. Begin(a, r) /\ UNCHANGED cached /\ quest # "none" /\ Drafted = {} /\ v <= nvers
    BY <1>4 DEF CreateVersionFromTemplate, Reads
  <2>2. vers[v].schema \in Schema
    BY <1>0, <2>1 DEF LifeInv, VersionRecord, Version
  <2>3. r \in ReqRecord /\ r.pc = "number" /\ r.schema \in Schema /\ r.record = 0 /\ r.late = FALSE
    BY <1>0, <2>2 DEF ReqRecord
  <2> HIDE DEF r
  <2> QED BY <2>1, <2>3 DEF Begins, Starts, cached
<1>5. ASSUME NEW v \in Version, Publish(a, v) PROVE \E r \in ReqRecord : Begins(a, r)
  <2> DEFINE r == [Idle EXCEPT !.pc = "publishing", !.ver = v, !.quest = quest]
  <2>1. Begin(a, r) /\ UNCHANGED cached /\ vers[v].schema \in Valid /\ v <= nvers
    BY <1>5 DEF Publish, Reads
  <2>2. v \in 0..MaxVersions /\ v \in 1..nvers /\ quest \in Status \cup {"none"}
    BY <1>0, <2>1 DEF LifeInv, Version
  <2>3. r \in ReqRecord /\ r.pc = "publishing" /\ r.ver = v /\ r.quest = quest /\ r.record = 0 /\ r.late = FALSE
    BY <1>0, <2>2 DEF ReqRecord
  <2> HIDE DEF r
  <2> QED BY <2>1, <2>2, <2>3 DEF Begins, Starts, cached
<1>6. ASSUME NEW v \in Version, Deprecate(a, v) PROVE \E r \in ReqRecord : Begins(a, r)
  <2> DEFINE r == [Idle EXCEPT !.pc = "deprecating", !.ver = v, !.quest = quest,
                               !.active = vers[v].active]
  <2>1. Begin(a, r) /\ UNCHANGED cached /\ v <= nvers
    BY <1>6 DEF Deprecate, Reads
  <2>2. /\ v \in 0..MaxVersions /\ v \in 1..nvers /\ quest \in Status \cup {"none"}
        /\ vers[v].active \in BOOLEAN
    BY <1>0, <2>1 DEF LifeInv, Version, VersionRecord
  <2>3. /\ r \in ReqRecord /\ r.pc = "deprecating" /\ r.ver = v /\ r.quest = quest
        /\ r.active = vers[v].active /\ r.record = 0 /\ r.late = FALSE
    BY <1>0, <2>2 DEF ReqRecord
  <2> HIDE DEF r
  <2> QED BY <2>1, <2>2, <2>3 DEF Begins, Starts, cached
<1>7. ASSUME NEW v \in Version, Wipe(a, v) PROVE \E r \in ReqRecord : Begins(a, r)
  <2> DEFINE ids == {s.id : s \in {x \in subs : x.ver = v}}
             r == [Idle EXCEPT !.pc = "wipeResults", !.ver = v, !.ids = ids]
  <2>1. Begin(a, r) /\ UNCHANGED cached
    BY <1>7 DEF Wipe, Reads
  <2>2. ids \in SUBSET Sub /\ v \in 0..MaxVersions
    BY DEF TypeInv, SubsInv, SubRecord, Version
  <2> HIDE DEF ids
  <2>3. r \in ReqRecord /\ r.pc = "wipeResults" /\ r.record = 0 /\ r.late = FALSE
    BY <1>0, <2>2 DEF ReqRecord
  <2> HIDE DEF r
  <2> QED BY <2>1, <2>3 DEF Begins, Starts, cached
<1>8. ASSUME NEW v \in Version, NEW s \in Schema, UpdateDraftVersion(a, v, s)
      PROVE  \E r \in ReqRecord : Begins(a, r)
  <2> DEFINE r == [Idle EXCEPT !.pc = "updating", !.ver = v, !.schema = s]
  <2>1. Begin(a, r) /\ UNCHANGED cached /\ v \in Drafted
    BY <1>8 DEF UpdateDraftVersion, Reads
  <2>2. v \in 0..MaxVersions
    BY DEF Version
  <2>3. r \in ReqRecord /\ r.pc = "updating" /\ r.ver = v /\ r.schema = s /\ r.record = 0 /\ r.late = FALSE
    BY <1>0, <2>2 DEF ReqRecord
  <2> HIDE DEF r
  <2> QED BY <2>1, <2>3 DEF Begins, Starts, cached
<1>9. ASSUME NEW v \in Version, NEW c \in Context, Submit(a, v, c)
      PROVE  \E r \in ReqRecord : Begins(a, r)
  <2> DEFINE r == Submitting(v, c)
  <2>1. Begin(a, r) /\ UNCHANGED cached /\ v \in 1..nvers /\ vers[v].active
    BY <1>9 DEF Submit, Reads, Open
  <2>2. v \in 0..MaxVersions /\ vers[v].schema \in Schema
    BY <1>0, <2>1 DEF LifeInv, Version, VersionRecord
  <2>3. /\ r \in ReqRecord /\ r.pc = "submitting" /\ r.ver = v /\ r.schema = vers[v].schema
        /\ r.record = 0 /\ r.late = FALSE
    BY <1>0, <2>2 DEF ReqRecord, Submitting
  <2> HIDE DEF r
  <2> QED BY <2>1, <2>3 DEF Begins, Starts, cached
<1>10. ASSUME NEW v \in Version, NEW c \in Context, NEW x \in Answers, SaveDraft(a, v, c, x)
       PROVE  \E r \in ReqRecord : Begins(a, r)
  <2> DEFINE r(i) == [Idle EXCEPT !.pc = "saving", !.ver = v, !.course = c,
                                  !.answers = x, !.draft = i, !.other = ops + 1]
  <2>1. PICK i \in IF DraftsOf(v, c) = {} THEN {0} ELSE {d.id : d \in DraftsOf(v, c)} :
          Reads(a, r(i))
    BY <1>10 DEF SaveDraft
  <2>2. Begin(a, r(i)) /\ UNCHANGED cached /\ ops < MaxOps
    BY <2>1 DEF Reads, Begin
  <2>3. \A d \in DraftsOf(v, c) : d \in drafts /\ d.id \in 1..MaxOps
    BY DEF DraftsOf, TypeInv, DraftsInv, DraftRecord
  <2>4. i \in 0..MaxOps /\ v \in 0..MaxVersions /\ ops + 1 \in 0..MaxVersions + MaxOps
    BY <1>0, <2>1, <2>2, <2>3 DEF Version
  <2>5. /\ r(i) \in ReqRecord /\ r(i).pc = "saving" /\ r(i).ver = v /\ r(i).course = c
        /\ r(i).answers = x /\ r(i).draft = i /\ r(i).other = ops + 1
        /\ r(i).record = 0 /\ r(i).late = FALSE
    BY <1>0, <2>4 DEF ReqRecord
  <2> HIDE DEF r
  <2>6. IF i = 0 THEN DraftsOf(v, c) = {} ELSE \E d \in DraftsOf(v, c) : d.id = i
    BY <2>1, <2>3
  <2>7. Found(r(i))
    BY <2>5, <2>6 DEF Found
  <2> QED BY <2>2, <2>5, <2>7 DEF Begins, Starts, cached
<1> QED BY <1>1, <1>2, <1>3, <1>4, <1>5, <1>6, <1>7, <1>8, <1>9, <1>10 DEF Ask

-----------------------------------------------------------------------------
(* Which steps touch what.                                                 *)

LifeSteps(a) ==
  \/ TypeRemoveFlush(a) \/ CreateQuestionnaireFlush(a) \/ CreateVersionFlush(a)
  \/ PublishFlush(a) \/ DeprecateFlush(a) \/ DeprecateQuestionnaire(a)
  \/ ArchiveFlush(a) \/ UpdateDraftFlush(a)

\* A step of a request or of a slot.
LEMMA Frames ==
  ASSUME NEW a \in Actor, Proceed(a)
  PROVE  /\ LifeSteps(a) \/ UNCHANGED lifecycle
         /\ \/ SubmitFlush(a) \/ SubmitEnqueue(a) \/ WipeResults(a) \/ WipeAnswers(a)
            \/ WipeRows(a) \/ UNCHANGED landed
         /\ SaveDraftFlush(a) \/ UNCHANGED drafted
         /\ SubmitInvalidate(a) \/ Store(a) \/ UNCHANGED cached
         /\ SubmitFlush(a) \/ SubmitDry(a) \/ SubmitEnqueue(a) \/ UNCHANGED ing
         /\ SubmitInvalidate(a) \/ SaveDraftFlush(a) \/ WipeRows(a) \/ UNCHANGED past
         /\ past \subseteq past'
         /\ ops' = ops
<1>1. CASE LifeSteps(a)
  BY <1>1 DEF LifeSteps, TypeRemoveFlush, CreateQuestionnaireFlush, CreateVersionFlush,
    PublishFlush, DeprecateFlush, DeprecateQuestionnaire, ArchiveFlush, UpdateDraftFlush,
    Only, landed, drafted, cached
<1>2. CASE NextNumber(a) \/ PublishFind(a) \/ Store(a) \/ SubmitDry(a) \/ SubmitInvalidate(a)
  BY <1>2 DEF NextNumber, PublishFind, Store, SubmitDry, SubmitInvalidate,
    Only, lifecycle, landed, drafted, cached
<1>3. CASE \/ SubmitFlush(a) \/ SubmitEnqueue(a) \/ WipeResults(a) \/ WipeAnswers(a)
           \/ WipeRows(a) \/ SaveDraftFlush(a)
  BY <1>3 DEF SubmitFlush, SubmitEnqueue, WipeResults, WipeAnswers, WipeRows, SaveDraftFlush,
    Only, lifecycle, landed, drafted, cached
<1> QED BY <1>1, <1>2, <1>3 DEF Proceed, LifeSteps

\* A step of anything else.
LEMMA Surrounding ==
  ASSUME TypeInv, [Next]_vars, ~(\E a \in Actor : Proceed(a))
  PROVE  /\ TypeCreate \/ UNCHANGED lifecycle
         /\ (\E i \in Sub : Embed(i)) \/ UNCHANGED landed
         /\ (\E d \in drafts : DeleteDraft(d)) \/ UNCHANGED drafted
         /\ past \subseteq past'
         /\ (\E d \in drafts : DeleteDraft(d)) \/ (\E a \in Caller : Ask(a)) \/ Crash \/ UNCHANGED past
         /\ ops \in 0..MaxOps /\ (ops' = ops \/ (ops < MaxOps /\ ops' = ops + 1))
<1>0. ops \in 0..MaxOps
  BY DEF TypeInv, BoundsInv
<1>1. CASE UNCHANGED vars \/ TypeCreate \/ Expire \/ Crash
  BY <1>0, <1>1 DEF vars, TypeCreate, Expire, Crash, lifecycle, landed, drafted
<1>2. ASSUME NEW a \in Caller, Ask(a)
      PROVE /\ UNCHANGED lifecycle /\ UNCHANGED landed /\ UNCHANGED drafted
            /\ past \subseteq past' /\ ops < MaxOps /\ ops' = ops + 1
  BY <1>2, AskBegins DEF Begins, Begin, lifecycle, landed, drafted
<1>3. CASE \/ \E v \in Version, n \in Record, dry \in BOOLEAN :
                \E file \in [1..n -> Course] : Ingest(v, file, dry)
           \/ \E t \in Task : TakeRecord(t) \/ TimeOut(t) \/ LateFails(t)
  BY <1>0, <1>3 DEF Ingest, TakeRecord, TimeOut, LateFails, Only, lifecycle, landed, drafted
<1>4. CASE (\E i \in Sub : Embed(i)) \/ (\E d \in drafts : DeleteDraft(d))
  BY <1>0, <1>4 DEF Embed, DeleteDraft, lifecycle, landed, drafted
<1> QED BY <1>0, <1>1, <1>2, <1>3, <1>4 DEF Next

-----------------------------------------------------------------------------
(* Each part of the type invariant is kept.                                *)

LEMMA LifeStep ==
  ASSUME TypeInv, [Next]_vars
  PROVE  LifeInv' /\ nvers' >= nvers /\ (quest # "none" => quest' # "none")
<1> DEFINE Goal == LifeInv' /\ nvers' >= nvers /\ (quest # "none" => quest' # "none")
<1>0. LifeInv /\ ReqInv /\ nvers \in Nat
  BY DEF TypeInv, LifeInv
<1>1. ASSUME UNCHANGED lifecycle PROVE Goal
  BY <1>0, <1>1 DEF lifecycle, LifeInv
<1>2. CASE TypeCreate
  BY <1>0, <1>2 DEF TypeCreate, LifeInv
<1>3. ASSUME NEW a \in Actor, LifeSteps(a) PROVE Goal
  <2>0. WellFormed(a, req[a], nvers) /\ req[a] \in ReqRecord
    BY <1>0 DEF ReqInv
  <2>1. CASE TypeRemoveFlush(a) \/ CreateQuestionnaireFlush(a) \/ DeprecateQuestionnaire(a) \/ ArchiveFlush(a)
    <3>1. /\ type' \in {type, "removed"} /\ vers' = vers /\ nvers' = nvers
          /\ quest' \in {quest, "DRAFT", "DEPRECATED", "ARCHIVED"}
      BY <2>1 DEF TypeRemoveFlush, CreateQuestionnaireFlush, DeprecateQuestionnaire,
        ArchiveFlush, Only
    <3> QED BY <1>0, <3>1 DEF LifeInv, Status
  <2>2. CASE CreateVersionFlush(a)
    <3> DEFINE n == req[a].other + 1
               row == [number |-> n, status |-> "DRAFT", active |-> FALSE,
                       published |-> FALSE, schema |-> req[a].schema]
    <3>1. req[a].other \in 0..nvers /\ req[a].schema \in Schema /\ quest # "none"
          /\ type' = type /\ quest' = quest
      BY <2>0, <2>2 DEF CreateVersionFlush, At, WellFormed, Only
    <3>2. CASE NumberFree(n) /\ nvers < MaxVersions
      <4>1. nvers' = nvers + 1 /\ vers' = Append(vers, row)
        BY <2>2, <3>2 DEF CreateVersionFlush
      <4>2. n = nvers + 1
        <5>1. \A v \in 1..nvers : v # n
          BY <1>0, <3>2 DEF NumberFree, LifeInv
        <5> QED BY <1>0, <3>1, <5>1
      <4>3. row \in VersionRecord
        BY <1>0, <3>1, <3>2, <4>2 DEF VersionRecord, Version, Status
      <4>4. row.number = n
        OBVIOUS
      <4> HIDE DEF row
      <4>5. vers \in [1..nvers -> VersionRecord] /\ vers \in Seq(VersionRecord) /\ Len(vers) = nvers
        BY <1>0 DEF LifeInv
      <4>6. /\ vers' \in [1..(nvers + 1) -> VersionRecord] /\ vers'[nvers + 1] = row
            /\ \A v \in 1..nvers : vers'[v] = vers[v]
        <5>1. vers' \in Seq(VersionRecord) /\ Len(vers') = nvers + 1
          BY <4>1, <4>3, <4>5, AppendProperties
        <5>2. \A v \in 1..(nvers + 1) : vers'[v] = IF v <= nvers THEN vers[v] ELSE row
          BY <1>0, <4>1, <4>3, <4>5, AppendProperties
        <5>3. vers' \in [1..(nvers + 1) -> VersionRecord]
          BY <5>1, LenProperties
        <5> QED BY <1>0, <5>2, <5>3
      <4>7. \A v \in 1..(nvers + 1) : vers'[v].number = v
        BY <1>0, <4>2, <4>4, <4>6 DEF LifeInv
      <4> QED BY <1>0, <3>1, <3>2, <4>1, <4>6, <4>7 DEF LifeInv
    <3>3. CASE ~(NumberFree(n) /\ nvers < MaxVersions)
      BY <1>0, <1>1, <2>2, <3>1, <3>3 DEF CreateVersionFlush, lifecycle
    <3> QED BY <3>2, <3>3
  <2>3. CASE PublishFlush(a)
    <3>1. nvers' = nvers /\ type' = type /\ quest' \in {quest, "ACTIVE"}
          /\ req[a].ver \in 1..nvers
      BY <2>0, <2>3 DEF PublishFlush, Only, At, WellFormed
    <3> DEFINE new(u) == CASE u = req[a].ver -> [vers[u] EXCEPT !.active = TRUE, !.status = "ACTIVE",
                                                     !.published = TRUE]
         [] u = req[a].other /\ u # req[a].ver -> [vers[u] EXCEPT !.active = FALSE,
                                              !.status = "DEPRECATED"]
         [] OTHER -> vers[u]
    <3>2. vers' = [u \in 1..nvers |-> new(u)]
      BY <2>3 DEF PublishFlush
    <3>3. ASSUME NEW u \in 1..nvers PROVE new(u) \in VersionRecord /\ new(u).number = u
      <4>1. vers[u] \in VersionRecord /\ vers[u].number = u
        BY <1>0 DEF LifeInv
      <4> QED BY <4>1 DEF VersionRecord, Status
    <3> HIDE DEF new
    <3> QED BY <1>0, <3>1, <3>2, <3>3 DEF LifeInv, Status
  <2>4. CASE DeprecateFlush(a) \/ UpdateDraftFlush(a)
    <3>1. nvers' = nvers /\ type' = type /\ quest' = quest
      BY <2>4 DEF DeprecateFlush, UpdateDraftFlush, Only
    <3>2. /\ vers' \in [1..nvers -> VersionRecord]
          /\ \A v \in 1..nvers : vers'[v].number = v
      <4> DEFINE v == req[a].ver
                 gone == [vers[v] EXCEPT !.status = "DEPRECATED",
                            !.active = IF req[a].active THEN FALSE ELSE vers[v].active]
                 new == [vers[v] EXCEPT !.schema = req[a].schema]
      <4>1. v \in 1..nvers /\ vers[v] \in VersionRecord /\ vers[v].number = v
        BY <1>0, <2>0, <2>4 DEF DeprecateFlush, UpdateDraftFlush, At, WellFormed, LifeInv
      <4>2. \/ vers' = [vers EXCEPT ![v] = gone]
            \/ vers' = [vers EXCEPT ![v] = new] /\ req[a].schema \in Schema
        BY <1>0, <2>0, <2>4, <4>1 DEF DeprecateFlush, UpdateDraftFlush, At, WellFormed, LifeInv, VersionRecord
      <4>3. gone \in VersionRecord /\ gone.number = v
        BY <4>1 DEF VersionRecord, Status
      <4>4. req[a].schema \in Schema => new \in VersionRecord /\ new.number = v
        BY <4>1 DEF VersionRecord
      <4> HIDE DEF v, gone, new
      <4> QED BY <1>0, <4>1, <4>2, <4>3, <4>4 DEF LifeInv
    <3> QED BY <1>0, <3>1, <3>2 DEF LifeInv
  <2> QED BY <1>3, <2>1, <2>2, <2>3, <2>4 DEF LifeSteps
<1> QED BY <1>1, <1>2, <1>3, Frames, Surrounding

LEMMA SubsStep ==
  ASSUME TypeInv, [Next]_vars
  PROVE  SubsInv'
<1>0. LifeInv /\ SubsInv /\ ReqInv /\ nvers \in Nat /\ nvers' \in Nat /\ nvers' >= nvers
  BY LifeStep DEF TypeInv, LifeInv
<1>00. nsubs \in 0..MaxSubs
  BY <1>0 DEF SubsInv
<1>1. CASE UNCHANGED landed
  BY <1>0, <1>1 DEF landed, SubsInv, SubRecord, Version
<1>2. ASSUME UNCHANGED nsubs, queued' \subseteq Sub,
             \A s \in subs' : s \in SubRecord /\ \E t \in subs : s.id = t.id /\ s.ver = t.ver,
             \A s, t \in subs' : s.id = t.id => s = t
      PROVE  SubsInv'
  <2>1. ASSUME NEW s \in subs' PROVE s.id <= nsubs /\ s.ver <= nvers'
    <3>1. s \in SubRecord /\ s.id <= nsubs /\ s.ver <= nvers
      BY <1>0, <1>2 DEF SubsInv
    <3>2. s.ver \in Nat
      BY <3>1 DEF SubRecord, Version
    <3> QED BY <1>0, <3>1, <3>2
  <2> QED BY <1>0, <1>2, <2>1 DEF SubsInv
<1>3. ASSUME NEW g \in [subs -> SubRecord], UNCHANGED nsubs, queued' \subseteq Sub,
             subs' = {g[s] : s \in subs},
             \A s \in subs : g[s].id = s.id /\ g[s].ver = s.ver
      PROVE  SubsInv'
  <2>1. \A s, t \in subs' : s.id = t.id => s = t
    <3> SUFFICES ASSUME NEW s \in subs', NEW t \in subs', s.id = t.id PROVE s = t
      OBVIOUS
    <3>1. PICK x \in subs : s = g[x]
      BY <1>3
    <3>2. PICK y \in subs : t = g[y]
      BY <1>3
    <3>3. x.id = y.id
      BY <1>3, <3>1, <3>2
    <3>4. x = y
      BY <1>0, <3>3 DEF SubsInv
    <3> QED BY <3>1, <3>2, <3>4
  <2>2. \A s \in subs' : s \in SubRecord /\ \E t \in subs : s.id = t.id /\ s.ver = t.ver
    BY <1>3
  <2> QED BY <1>2, <1>3, <2>1, <2>2
<1>4. ASSUME NEW i \in Sub, Embed(i) PROVE SubsInv'
  <2> DEFINE g == [s \in subs |-> IF s.id = i THEN [s EXCEPT !.results = TRUE] ELSE s]
  <2>1. subs' = {g[s] : s \in subs} /\ UNCHANGED nsubs /\ queued' \subseteq Sub
    BY <1>0, <1>4 DEF Embed, SubsInv
  <2>2. ASSUME NEW s \in subs PROVE g[s] \in SubRecord /\ g[s].id = s.id /\ g[s].ver = s.ver
    BY <1>0 DEF SubsInv, SubRecord
  <2>3. g \in [subs -> SubRecord]
    BY <2>2
  <2> HIDE DEF g
  <2> QED BY <1>3, <2>1, <2>2, <2>3
<1>5. ASSUME NEW a \in Actor, WipeResults(a) PROVE SubsInv'
  <2> DEFINE g == [s \in subs |-> IF s.id \in req[a].ids THEN [s EXCEPT !.results = FALSE] ELSE s]
  <2>1. subs' = {g[s] : s \in subs} /\ UNCHANGED nsubs /\ queued' \subseteq Sub
    BY <1>0, <1>5 DEF WipeResults, WithoutResults, Only, SubsInv
  <2>2. ASSUME NEW s \in subs PROVE g[s] \in SubRecord /\ g[s].id = s.id /\ g[s].ver = s.ver
    BY <1>0 DEF SubsInv, SubRecord
  <2>3. g \in [subs -> SubRecord]
    BY <2>2
  <2> HIDE DEF g
  <2> QED BY <1>3, <2>1, <2>2, <2>3
<1>6. ASSUME NEW a \in Actor, WipeAnswers(a) PROVE SubsInv'
  <2> DEFINE g == [s \in subs |-> IF s.id \in req[a].ids THEN [s EXCEPT !.answers = FALSE] ELSE s]
  <2>1. subs' = {g[s] : s \in subs} /\ UNCHANGED nsubs /\ queued' \subseteq Sub
    BY <1>0, <1>6 DEF WipeAnswers, WithoutAnswers, Only, SubsInv
  <2>2. ASSUME NEW s \in subs PROVE g[s] \in SubRecord /\ g[s].id = s.id /\ g[s].ver = s.ver
    BY <1>0 DEF SubsInv, SubRecord
  <2>3. g \in [subs -> SubRecord]
    BY <2>2
  <2> HIDE DEF g
  <2> QED BY <1>3, <2>1, <2>2, <2>3
<1>7. ASSUME NEW a \in Actor, WipeRows(a) PROVE SubsInv'
  <2>1. subs' \subseteq subs /\ UNCHANGED <<nsubs, queued>>
    BY <1>7 DEF WipeRows
  <2> QED BY <1>0, <1>2, <2>1 DEF SubsInv
<1>8. ASSUME NEW a \in Actor, SubmitEnqueue(a) PROVE SubsInv'
  <2>1. UNCHANGED <<subs, nsubs>> /\ queued' \in {queued, queued \cup req[a].ids}
    BY <1>8 DEF SubmitEnqueue
  <2>2. req[a].ids \subseteq Sub
    BY <1>0 DEF ReqInv, ReqRecord
  <2> QED BY <1>0, <1>2, <2>1, <2>2 DEF SubsInv
<1>9. ASSUME NEW a \in Actor, SubmitFlush(a) PROVE SubsInv'
  <2>1. CASE UNCHANGED <<subs, nsubs>>
    BY <1>0, <1>9, <2>1 DEF SubmitFlush, SubsInv, SubRecord, Version
  <2>2. CASE RowFree(req[a].ver, req[a].course)
    <3> DEFINE row == [id |-> nsubs + 1, ver |-> req[a].ver, course |-> req[a].course,
                       schema |-> req[a].schema, answers |-> TRUE, results |-> FALSE]
    <3>1. nsubs' = nsubs + 1 /\ subs' = subs \cup {row} /\ nsubs < MaxSubs /\ queued' = queued
      BY <1>9, <2>2 DEF SubmitFlush
    <3>2. req[a].ver \in 1..nvers /\ req[a].schema \in Schema /\ req[a].course \in Context
      BY <1>0, <1>9 DEF SubmitFlush, At, ReqInv, WellFormed, ReqRecord
    <3>3. row \in SubRecord /\ row.id = nsubs + 1 /\ row.ver = req[a].ver
      BY <1>0, <1>00, <3>1, <3>2 DEF SubRecord, Sub, Version, LifeInv
    <3> HIDE DEF row
    <3>4. ASSUME NEW s \in subs
          PROVE  s \in SubRecord /\ s.id <= nsubs /\ s.id # row.id /\ s.id <= nsubs' /\ s.ver <= nvers'
      <4>1. s \in SubRecord /\ s.id <= nsubs /\ s.ver <= nvers
        BY <1>0 DEF SubsInv
      <4>2. s.id \in Nat /\ s.ver \in Nat
        BY <4>1 DEF SubRecord, Sub, Version
      <4> QED BY <1>0, <1>00, <3>1, <3>3, <4>1, <4>2
    <3>5. row.id <= nsubs' /\ row.ver <= nvers'
      BY <1>0, <1>00, <3>1, <3>2, <3>3
    <3>6. \A s, t \in subs' : s.id = t.id => s = t
      BY <1>0, <3>1, <3>4 DEF SubsInv
    <3>7. nsubs' \in 0..MaxSubs /\ queued' \subseteq Sub
      BY <1>0, <1>00, <3>1 DEF SubsInv
    <3> QED BY <3>1, <3>3, <3>4, <3>5, <3>6, <3>7 DEF SubsInv
  <2> QED BY <1>9, <2>1, <2>2 DEF SubmitFlush
<1> QED BY <1>1, <1>4, <1>5, <1>6, <1>7, <1>8, <1>9, Frames, Surrounding

\* How a request or slot goes on: it is done, or it takes its next step with
\* what it has read.
Moves(a, r) ==
  \/ r = Idle
  \/ /\ r.ver = req[a].ver /\ r.course = req[a].course /\ r.schema = req[a].schema
     /\ r.quest = req[a].quest /\ r.record = req[a].record /\ r.late = req[a].late
     /\ \/ /\ req[a].pc = "number" /\ r.pc = "newVersion" /\ r.other \in 0..nvers
        \/ /\ req[a].pc = "publishing" /\ r.pc = "published" /\ r.other \in 0..nvers
           /\ IF r.other = 0 THEN Active = {} ELSE r.other \in Active
        \/ req[a].pc = "deprecating" /\ r.pc = "deprecated"
        \/ req[a].pc = "submitting" /\ r.pc = "submitted"
        \/ req[a].pc = "submitted" /\ r.pc = "embedding"
        \/ req[a].pc = "wipeResults" /\ r.pc = "wipeAnswers" /\ r.ids = req[a].ids
        \/ req[a].pc = "wipeAnswers" /\ r.pc = "wipeRows" /\ r.ids = req[a].ids

\* Every step of an actor is such a move, and of it alone.
LEMMA Moved ==
  ASSUME TypeInv, NEW a \in Actor, Proceed(a)
  PROVE  \E r \in ReqRecord : req' = [req EXCEPT ![a] = r] /\ Moves(a, r)
<1> DEFINE Goal == \E r \in ReqRecord : req' = [req EXCEPT ![a] = r] /\ Moves(a, r)
<1>0. /\ LifeInv /\ ReqInv /\ req \in [Actor -> ReqRecord] /\ req[a] \in ReqRecord
      /\ Idle \in ReqRecord /\ nvers \in 0..MaxVersions
  BY IdleTypes DEF TypeInv, LifeInv, ReqInv
<1>1. ASSUME Done(a) PROVE Goal
  BY <1>0, <1>1 DEF Done, Moves
<1>2. ASSUME NEW l \in {"deprecated", "embedding", "wipeAnswers", "wipeRows"}, Goto(a, l),
             \/ At(a, "deprecating") /\ l = "deprecated"
             \/ At(a, "submitted") /\ l = "embedding"
             \/ At(a, "wipeResults") /\ l = "wipeAnswers"
             \/ At(a, "wipeAnswers") /\ l = "wipeRows"
      PROVE  Goal
  <2> DEFINE r == [req[a] EXCEPT !.pc = l]
  <2>1. req' = [req EXCEPT ![a] = r]
    BY <1>0, <1>2 DEF Goto
  <2>2. /\ r \in ReqRecord /\ r.pc = l /\ r.ver = req[a].ver /\ r.course = req[a].course
        /\ r.schema = req[a].schema /\ r.quest = req[a].quest /\ r.record = req[a].record
        /\ r.late = req[a].late /\ r.ids = req[a].ids
    BY <1>0 DEF ReqRecord
  <2> HIDE DEF r
  <2>3. Moves(a, r)
    BY <1>2, <2>2 DEF Moves, At
  <2> QED BY <2>1, <2>2, <2>3
<1>3. CASE NextNumber(a)
  <2> DEFINE top == Max({0} \cup {vers[v].number : v \in 1..nvers})
             r == [req[a] EXCEPT !.pc = "newVersion", !.other = top]
  <2>1. top \in 0..nvers
    <3> DEFINE S == {0} \cup {vers[v].number : v \in 1..nvers}
    <3>1. S \in SUBSET (0..nvers) /\ S # {} /\ nvers \in Nat
      BY <1>0 DEF LifeInv
    <3> HIDE DEF S
    <3>2. Max(S) \in S
      BY <3>1, MaxIsGreatest
    <3>3. Max(S) \in 0..nvers
      BY <3>1, <3>2
    <3> QED BY <3>3 DEF S
  <2>2. top \in 0..MaxVersions + MaxOps
    <3> HIDE DEF top
    <3> QED BY <1>0, <2>1
  <2>3. req' = [req EXCEPT ![a] = r] /\ req[a].pc = "number"
    BY <1>3 DEF NextNumber, At
  <2> HIDE DEF top
  <2>4. /\ r \in ReqRecord /\ r.pc = "newVersion" /\ r.ver = req[a].ver
        /\ r.course = req[a].course /\ r.schema = req[a].schema /\ r.quest = req[a].quest
        /\ r.record = req[a].record /\ r.late = req[a].late /\ r.other = top
    BY <1>0, <2>2 DEF ReqRecord
  <2> HIDE DEF r
  <2> QED BY <2>1, <2>3, <2>4 DEF Moves
<1>4. CASE PublishFind(a)
  <2>1. PICK w \in IF Active = {} THEN {0} ELSE Active :
          req' = [req EXCEPT ![a] = [req[a] EXCEPT !.pc = "published", !.other = w]]
    BY <1>4 DEF PublishFind
  <2> DEFINE r == [req[a] EXCEPT !.pc = "published", !.other = w]
  <2>2. /\ w \in 0..nvers /\ w \in 0..MaxVersions + MaxOps
        /\ IF w = 0 THEN Active = {} ELSE w \in Active
    BY <1>0, <2>1 DEF Active
  <2>3. /\ r \in ReqRecord /\ r.pc = "published" /\ r.ver = req[a].ver
        /\ r.course = req[a].course /\ r.schema = req[a].schema /\ r.quest = req[a].quest
        /\ r.record = req[a].record /\ r.late = req[a].late /\ r.other = w
    BY <1>0, <2>2 DEF ReqRecord
  <2> HIDE DEF r
  <2>4. req' = [req EXCEPT ![a] = r] /\ req[a].pc = "publishing"
    BY <1>4, <2>1 DEF PublishFind, At, r
  <2> QED BY <2>2, <2>3, <2>4 DEF Moves
<1>5. CASE SubmitFlush(a)
  <2>1. CASE RowFree(req[a].ver, req[a].course)
    <3> DEFINE r == [req[a] EXCEPT !.pc = "submitted", !.ids = {nsubs + 1}]
    <3>1. req' = [req EXCEPT ![a] = r] /\ req[a].pc = "submitting" /\ nsubs < MaxSubs
      BY <1>5, <2>1 DEF SubmitFlush, At
    <3>2. {nsubs + 1} \in SUBSET Sub
      BY <3>1 DEF TypeInv, SubsInv, Sub
    <3>3. /\ r \in ReqRecord /\ r.pc = "submitted" /\ r.ver = req[a].ver
          /\ r.course = req[a].course /\ r.schema = req[a].schema /\ r.quest = req[a].quest
          /\ r.record = req[a].record /\ r.late = req[a].late
      BY <1>0, <3>2 DEF ReqRecord
    <3> HIDE DEF r
    <3> QED BY <3>1, <3>3 DEF Moves
  <2> QED BY <1>1, <1>5, <2>1 DEF SubmitFlush
<1>6. CASE DeprecateFlush(a) \/ SubmitInvalidate(a) \/ WipeResults(a) \/ WipeAnswers(a)
  BY <1>1, <1>2, <1>6 DEF DeprecateFlush, SubmitInvalidate, WipeResults, WipeAnswers
<1>7. CASE \/ TypeRemoveFlush(a) \/ CreateQuestionnaireFlush(a) \/ CreateVersionFlush(a)
           \/ PublishFlush(a) \/ DeprecateQuestionnaire(a) \/ ArchiveFlush(a)
           \/ UpdateDraftFlush(a) \/ SubmitDry(a) \/ SubmitEnqueue(a) \/ SaveDraftFlush(a)
           \/ WipeRows(a) \/ Store(a)
  BY <1>1, <1>7 DEF TypeRemoveFlush, CreateQuestionnaireFlush, CreateVersionFlush,
    PublishFlush, DeprecateQuestionnaire, ArchiveFlush, UpdateDraftFlush, SubmitDry,
    SubmitEnqueue, SaveDraftFlush, WipeRows, Store
<1> QED BY <1>3, <1>4, <1>5, <1>6, <1>7 DEF Proceed

\* A slot takes a record, times out, or fails late; others do nothing.
SlotMoves(t, r) ==
  \/ r = Idle /\ LateFails(t)
  \/ r = [Submitting(ing.ver, ing.file[ing.next]) EXCEPT !.record = ing.next]
     /\ TakeRecord(t) /\ Open(ing.ver) /\ ~Duplicate(ing.ver, ing.file[ing.next])
  \/ r = [req[t] EXCEPT !.late = TRUE] /\ TimeOut(t)

LEMMA IngFile ==
  ASSUME TypeInv
  PROVE  /\ ing.file \in Seq(Course) /\ Len(ing.file) \in 0..MaxFile
         /\ \A i \in 1..Len(ing.file) : ing.file[i] \in Course
         /\ ing.next \in 1..MaxFile + 1 /\ ing.ver \in 0..MaxVersions
         /\ ing.result \in [Record -> {None, "success", "failure"}]
         /\ ing.landed \in SUBSET Record /\ ing.timedOut \in SUBSET Record
         /\ ing.dry \in BOOLEAN
<1>1. /\ ing.file \in UNION {[1..n -> Course] : n \in 0..MaxFile}
      /\ ing.next \in 1..MaxFile + 1 /\ ing.ver \in 0..MaxVersions
      /\ ing.result \in [Record -> {None, "success", "failure"}]
      /\ ing.landed \in SUBSET Record /\ ing.timedOut \in SUBSET Record
      /\ ing.dry \in BOOLEAN
  BY DEF TypeInv, IngRecord
<1>2. PICK n \in 0..MaxFile : ing.file \in [1..n -> Course]
  BY <1>1
<1>3. ing.file \in Seq(Course) /\ Len(ing.file) = n
  BY <1>2
<1> QED BY <1>1, <1>2, <1>3

LEMMA SlotTypes ==
  ASSUME TypeInv, NEW t \in Task, TakeRecord(t) \/ TimeOut(t) \/ LateFails(t)
  PROVE  \/ req' = req
         \/ \E r \in ReqRecord :
              req' = [req EXCEPT ![t] = r] /\ WellFormed(t, r, nvers) /\ SlotMoves(t, r)
<1>0. /\ req \in [Actor -> ReqRecord] /\ t \in Actor /\ req[t] \in ReqRecord
      /\ WellFormed(t, req[t], nvers) /\ Idle \in ReqRecord /\ WellFormed(t, Idle, nvers)
      /\ t \notin Caller
  BY IdleTypes DEF TypeInv, ReqInv, Actor
<1>1. CASE TakeRecord(t)
  <2> DEFINE c == ing.file[ing.next]
             s == Submitting(ing.ver, c)
             r == [Submitting(ing.ver, c) EXCEPT !.record = ing.next]
  <2>1. CASE Open(ing.ver) /\ ~Duplicate(ing.ver, c)
    <3>1. req' = [req EXCEPT ![t] = r] /\ ing.next <= Len(ing.file)
      BY <1>1, <2>1 DEF TakeRecord
    <3>2. /\ ing.ver \in 1..nvers /\ ing.ver \in 0..MaxVersions /\ c \in Context
          /\ ing.next \in 0..MaxFile /\ ing.next \in Record
          /\ vers[ing.ver].schema \in Schema
      <4>1. ing.ver \in 1..nvers
        BY <2>1 DEF Open
      <4>2. ing.next \in 1..Len(ing.file) /\ Len(ing.file) \in 0..MaxFile
        BY <3>1, IngFile
      <4>3. c \in Context
        BY <4>2, IngFile DEF Context
      <4>4. vers[ing.ver].schema \in Schema
        BY <4>1 DEF TypeInv, LifeInv, VersionRecord
      <4> QED BY <4>1, <4>2, <4>3, <4>4, IngFile DEF Record
    <3>3. s \in ReqRecord /\ s.pc = "submitting" /\ s.ver = ing.ver
          /\ s.schema = vers[ing.ver].schema
      BY <1>0, <3>2 DEF Submitting, ReqRecord
    <3>4. r = [s EXCEPT !.record = ing.next]
      OBVIOUS
    <3> HIDE DEF s
    <3>5. r \in ReqRecord /\ r.pc = "submitting" /\ r.ver = ing.ver
          /\ r.schema = vers[ing.ver].schema /\ r.record = ing.next
      BY <3>2, <3>3, <3>4 DEF ReqRecord
    <3>6. SlotMoves(t, r)
      BY <1>1, <2>1 DEF SlotMoves
    <3> HIDE DEF r
    <3>7. WellFormed(t, r, nvers)
      BY <1>0, <3>2, <3>5 DEF WellFormed
    <3> QED BY <3>1, <3>5, <3>6, <3>7
  <2> QED BY <1>1, <2>1 DEF TakeRecord
<1>2. CASE TimeOut(t)
  <2> DEFINE r == [req[t] EXCEPT !.late = TRUE]
  <2>1. req' = [req EXCEPT ![t] = r]
    BY <1>0, <1>2 DEF TimeOut
  <2>2. /\ r \in ReqRecord /\ r.pc = req[t].pc /\ r.ver = req[t].ver /\ r.schema = req[t].schema
        /\ r.other = req[t].other /\ r.answers = req[t].answers /\ r.record = req[t].record
    BY <1>0 DEF ReqRecord
  <2>3. SlotMoves(t, r)
    BY <1>2 DEF SlotMoves
  <2> HIDE DEF r
  <2>4. WellFormed(t, r, nvers)
    BY <1>0, <2>2 DEF WellFormed
  <2> QED BY <2>1, <2>2, <2>3, <2>4
<1>3. CASE LateFails(t)
  BY <1>0, <1>3 DEF LateFails, Done, SlotMoves
<1> QED BY <1>1, <1>2, <1>3

LEMMA ReqStep ==
  ASSUME TypeInv, [Next]_vars
  PROVE  ReqInv'
<1>0. /\ ReqInv /\ req \in [Actor -> ReqRecord] /\ nvers \in Nat /\ nvers' \in Nat
      /\ nvers' >= nvers /\ (quest # "none" => quest' # "none")
      /\ Idle \in ReqRecord /\ \A a, n : WellFormed(a, Idle, n)
      /\ ops \in 0..MaxOps
  BY LifeStep, IdleTypes DEF TypeInv, LifeInv, ReqInv, BoundsInv
<1>1. ASSUME NEW a \in Actor, WellFormed(a, req'[a], nvers) PROVE WellFormed(a, req[a], nvers)'
  BY <1>0, <1>1 DEF WellFormed
<1>2. ASSUME NEW a \in Actor, NEW r \in ReqRecord, req' = [req EXCEPT ![a] = r],
             WellFormed(a, r, nvers)
      PROVE  ReqInv'
  <2>1. req' \in [Actor -> ReqRecord]
    BY <1>0, <1>2
  <2>2. \A b \in Actor : WellFormed(b, req'[b], nvers)
    BY <1>0, <1>2 DEF ReqInv
  <2> QED BY <1>1, <2>1, <2>2 DEF ReqInv
<1>3. ASSUME req' = req PROVE ReqInv'
  BY <1>0, <1>1, <1>3 DEF ReqInv
<1>4. ASSUME NEW a \in Caller, Ask(a) PROVE ReqInv'
  <2>1. PICK r \in ReqRecord : Begins(a, r)
    BY <1>4, AskBegins
  <2>2. req' = [req EXCEPT ![a] = r] /\ a \in Actor /\ a \notin Task /\ ops < MaxOps
    BY <2>1 DEF Begins, Begin, Actor
  <2>3. \A v \in 1..nvers : vers[v].schema \in Schema
    BY DEF TypeInv, LifeInv, VersionRecord
  <2>4. WellFormed(a, r, nvers)
    BY <1>0, <2>1, <2>2, <2>3 DEF Begins, Starts, WellFormed, Drafted
  <2> QED BY <1>2, <2>2, <2>4
<1>5. ASSUME NEW a \in Actor, Proceed(a) PROVE ReqInv'
  <2>1. PICK r \in ReqRecord : req' = [req EXCEPT ![a] = r] /\ Moves(a, r)
    BY <1>5, Moved
  <2>2. WellFormed(a, req[a], nvers)
    BY <1>0 DEF ReqInv
  <2>3. WellFormed(a, r, nvers)
    BY <1>0, <2>1, <2>2 DEF Moves, WellFormed
  <2> QED BY <1>2, <2>1, <2>3
<1>6. ASSUME NEW t \in Task, TakeRecord(t) \/ TimeOut(t) \/ LateFails(t) PROVE ReqInv'
  BY <1>2, <1>3, <1>6, SlotTypes DEF Actor
<1>7. CASE Crash
  <2>1. req' \in [Actor -> ReqRecord] /\ \A a \in Actor : req'[a] = Idle
    BY <1>0, <1>7 DEF Crash
  <2> QED BY <1>0, <1>1, <2>1 DEF ReqInv
<1>8. CASE \/ UNCHANGED vars \/ TypeCreate \/ Expire
           \/ \E i \in Sub : Embed(i)
           \/ \E d \in drafts : DeleteDraft(d)
           \/ \E v \in Version, n \in Record, dry \in BOOLEAN :
                \E file \in [1..n -> Course] : Ingest(v, file, dry)
  BY <1>3, <1>8 DEF vars, TypeCreate, Expire, Embed, DeleteDraft, Ingest
<1> QED BY <1>4, <1>5, <1>6, <1>7, <1>8 DEF Next

\* A save that is under way is the one that was, or has just begun.
LEMMA SavesUnderWay ==
  ASSUME TypeInv, [Next]_vars, NEW a \in Actor, At(a, "saving")'
  PROVE  \/ At(a, "saving") /\ req'[a] = req[a]
         \/ a \in Caller /\ Begins(a, req'[a])
<1>0. req \in [Actor -> ReqRecord] /\ ReqInv /\ ReqInv'
  BY ReqStep DEF TypeInv, ReqInv
<1>1. ASSUME NEW b \in Caller, Ask(b)
      PROVE  \/ At(a, "saving") /\ req'[a] = req[a]
             \/ a \in Caller /\ Begins(a, req'[a])
  <2>1. PICK r \in ReqRecord : Begins(b, r)
    BY <1>1, AskBegins
  <2>2. req' = [req EXCEPT ![b] = r]
    BY <2>1 DEF Begins, Begin
  <2>3. CASE a = b
    BY <1>0, <2>1, <2>2, <2>3
  <2>4. CASE a # b
    BY <1>0, <2>2, <2>4 DEF At
  <2> QED BY <2>3, <2>4
<1>2. ASSUME NEW b \in Actor, Proceed(b) PROVE At(a, "saving") /\ req'[a] = req[a]
  <2>1. PICK r \in ReqRecord : req' = [req EXCEPT ![b] = r] /\ Moves(b, r)
    BY <1>2, Moved
  <2>2. r.pc # "saving"
    BY <2>1, IdleTypes DEF Moves
  <2> QED BY <1>0, <2>1, <2>2 DEF At
<1>3. ASSUME NEW t \in Task, TakeRecord(t) \/ TimeOut(t) \/ LateFails(t)
      PROVE  At(a, "saving") /\ req'[a] = req[a]
  <2>1. CASE req' = req
    BY <2>1 DEF At
  <2>2. CASE req' # req
    <3>1. PICK r \in ReqRecord : req' = [req EXCEPT ![t] = r] /\ WellFormed(t, r, nvers)
      BY <1>3, <2>2, SlotTypes
    <3>2. r.pc # "saving"
      BY <3>1 DEF WellFormed
    <3> QED BY <1>0, <3>1, <3>2 DEF At, Actor
  <2> QED BY <2>1, <2>2
<1>4. ~Crash
  BY IdleTypes DEF Crash, At
<1>5. CASE \/ UNCHANGED vars \/ TypeCreate \/ Expire
           \/ \E i \in Sub : Embed(i)
           \/ \E d \in drafts : DeleteDraft(d)
           \/ \E v \in Version, n \in Record, dry \in BOOLEAN :
                \E file \in [1..n -> Course] : Ingest(v, file, dry)
  BY <1>5 DEF vars, TypeCreate, Expire, Embed, DeleteDraft, Ingest, At
<1> QED BY <1>1, <1>2, <1>3, <1>4, <1>5 DEF Next

\* The drafts a flush leaves behind.
LEMMA SavedDrafts ==
  ASSUME TypeInv, NEW a \in Actor, SaveDraftFlush(a)
  PROVE  /\ req[a].ver \in Version /\ req[a].course \in Context /\ req[a].answers \in Answers
         /\ req[a].other \in 1..MaxOps
         /\ \/ /\ req[a].draft = 0
               /\ drafts' = drafts \cup
                    {[id |-> req[a].other, ver |-> req[a].ver, course |-> req[a].course,
                      answers |-> req[a].answers]}
            \/ /\ req[a].draft # 0
               /\ drafts' = {IF d.id = req[a].draft THEN [d EXCEPT !.answers = req[a].answers]
                             ELSE d : d \in drafts}
         /\ saved' = [saved EXCEPT ![<<req[a].ver, req[a].course>>] = req[a].answers]
         /\ req' = [req EXCEPT ![a] = Idle] /\ ops' = ops
BY DEF SaveDraftFlush, Done, At, TypeInv, ReqInv, WellFormed, ReqRecord

LEMMA DraftsStep ==
  ASSUME TypeInv, [Next]_vars
  PROVE  DraftsInv'
<1>0. /\ DraftsInv /\ ops \in 0..MaxOps /\ ops' \in Nat /\ ops' >= ops
      /\ req \in [Actor -> ReqRecord] /\ Idle.pc = "idle"
  <2>1. ops \in 0..MaxOps
    BY DEF TypeInv, BoundsInv
  <2>2. ops' = ops \/ (ops < MaxOps /\ ops' = ops + 1)
    BY Frames, Surrounding
  <2> QED BY <2>1, <2>2, IdleTypes DEF TypeInv, ReqInv
<1>1. ASSUME drafts' \subseteq DraftRecord, saved' \in [Version \X Context -> Answers \cup {None}],
             \A d \in drafts' : \E e \in drafts : d.id = e.id,
             \A d, e \in drafts' : d.id = e.id => d = e
      PROVE  DraftsInv'
  <2>1. \A d \in drafts' : d.id \in Nat /\ d.id <= ops /\ d.id <= ops'
    <3>1. \A d \in drafts : d.id \in Nat /\ d.id <= ops
      BY <1>0 DEF DraftsInv, DraftRecord
    <3> QED BY <1>0, <1>1, <3>1
  <2>2. ASSUME NEW a \in Actor, At(a, "saving")'
        PROVE  req'[a].other <= ops' /\ \A d \in drafts' : d.id # req'[a].other
    <3>1. CASE At(a, "saving") /\ req'[a] = req[a]
      <4>1. req[a].other <= ops /\ req[a].other \in Nat
        BY <1>0, <3>1 DEF DraftsInv, TypeInv, ReqInv, WellFormed, At
      <4> QED BY <1>0, <1>1, <3>1, <4>1 DEF DraftsInv
    <3>2. CASE Begins(a, req'[a])
      <4>1. req'[a].other = ops + 1 /\ ops' = ops + 1
        BY <2>2, <3>2 DEF Begins, Begin, Starts, At
      <4> QED BY <1>0, <2>1, <4>1
    <3> QED BY <2>2, <3>1, <3>2, SavesUnderWay
  <2>3. ASSUME NEW a \in Actor, NEW b \in Actor, At(a, "saving")', At(b, "saving")',
               req'[a].other = req'[b].other, a # b
        PROVE  FALSE
    <3>1. ASSUME NEW x \in Actor, NEW y \in Actor, At(x, "saving")', At(y, "saving")',
                 x # y, Begins(x, req'[x])
          PROVE  req'[x].other # req'[y].other
      <4>1. req'[x].other = ops + 1 /\ req' = [req EXCEPT ![x] = req'[x]]
        BY <3>1 DEF Begins, Begin, Starts, At
      <4>2. req'[y] = req[y] /\ At(y, "saving")
        BY <1>0, <3>1, <4>1 DEF At
      <4>3. req[y].other <= ops /\ req[y].other \in Nat
        BY <1>0, <4>2 DEF DraftsInv, TypeInv, ReqInv, WellFormed, At
      <4> QED BY <1>0, <4>1, <4>2, <4>3
    <3>2. CASE ~Begins(a, req'[a]) /\ ~Begins(b, req'[b])
      <4>1. At(a, "saving") /\ req'[a] = req[a] /\ At(b, "saving") /\ req'[b] = req[b]
        BY <2>3, <3>2, SavesUnderWay
      <4> QED BY <1>0, <2>3, <4>1 DEF DraftsInv
    <3> QED BY <2>3, <3>1, <3>2
  <2> QED BY <1>1, <2>1, <2>2, <2>3 DEF DraftsInv
<1>2. CASE UNCHANGED drafted
  BY <1>0, <1>1, <1>2 DEF drafted, DraftsInv
<1>3. ASSUME NEW d \in drafts, DeleteDraft(d) PROVE DraftsInv'
  <2>1. d.ver \in Version /\ d.course \in Context
    BY <1>0 DEF DraftsInv, DraftRecord
  <2>2. saved' \in [Version \X Context -> Answers \cup {None}] /\ drafts' \subseteq drafts
    BY <1>0, <1>3, <2>1 DEF DeleteDraft, DraftsInv
  <2> QED BY <1>0, <1>1, <2>2 DEF DraftsInv
<1>4. ASSUME NEW a \in Actor, SaveDraftFlush(a) PROVE DraftsInv'
  <2> DEFINE r == req[a]
             row == [id |-> r.other, ver |-> r.ver, course |-> r.course, answers |-> r.answers]
             g == [d \in drafts |-> IF d.id = r.draft THEN [d EXCEPT !.answers = r.answers] ELSE d]
  <2>1. /\ r.ver \in Version /\ r.course \in Context /\ r.answers \in Answers
        /\ r.other \in 1..MaxOps /\ ops' = ops
        /\ saved' = [saved EXCEPT ![<<r.ver, r.course>>] = r.answers]
    BY <1>4, SavedDrafts
  <2>2. saved' \in [Version \X Context -> Answers \cup {None}]
    BY <1>0, <2>1 DEF DraftsInv
  <2>3. CASE r.draft = 0
    <3>1. drafts' = drafts \cup {row}
      BY <1>4, <2>3, SavedDrafts
    <3>2. row \in DraftRecord /\ row.id = r.other
      BY <2>1 DEF DraftRecord
    <3>3. r.other <= ops /\ \A d \in drafts : d.id # r.other
      BY <1>0, <1>4 DEF DraftsInv, SaveDraftFlush
    <3> HIDE DEF row
    <3>4. \A b \in Actor : At(b, "saving")' =>
            b # a /\ At(b, "saving") /\ req'[b] = req[b]
      <4>1. \A b \in Actor : b # a => req'[b] = req[b]
        BY <1>0, <1>4, SavedDrafts
      <4>2. req'[a] = Idle
        BY <1>0, <1>4, SavedDrafts
      <4> QED BY <1>0, <4>1, <4>2 DEF At
    <3>5. \A b \in Actor : At(b, "saving")' => req'[b].other # r.other
      BY <1>0, <1>4, <3>4 DEF DraftsInv, SaveDraftFlush
    <3>6. drafts' \subseteq DraftRecord /\ \A d, e \in drafts' : d.id = e.id => d = e
      <4>1. drafts \subseteq DraftRecord /\ \A d, e \in drafts : d.id = e.id => d = e
        BY <1>0 DEF DraftsInv
      <4> QED BY <3>1, <3>2, <3>3, <4>1
    <3>7. \A d \in drafts' : d.id <= ops'
      BY <1>0, <2>1, <3>1, <3>2, <3>3 DEF DraftsInv
    <3>8. /\ \A b \in Actor : At(b, "saving")' => req'[b].other <= ops'
          /\ \A b \in Actor, d \in drafts' : At(b, "saving")' => d.id # req'[b].other
          /\ \A b, c \in Actor :
               At(b, "saving")' /\ At(c, "saving")' /\ req'[b].other = req'[c].other => b = c
      BY <1>0, <2>1, <3>1, <3>2, <3>4, <3>5 DEF DraftsInv
    <3> QED BY <2>2, <3>6, <3>7, <3>8 DEF DraftsInv
  <2>4. CASE r.draft # 0
    <3>1. drafts' = {g[d] : d \in drafts}
      <4>1. drafts' = {IF d.id = r.draft THEN [d EXCEPT !.answers = r.answers] ELSE d :
                         d \in drafts}
        BY <1>4, <2>4, SavedDrafts
      <4> HIDE DEF r
      <4> QED BY <4>1
    <3>2. ASSUME NEW d \in drafts PROVE g[d] \in DraftRecord /\ g[d].id = d.id
      BY <1>0, <2>1 DEF DraftsInv, DraftRecord
    <3> HIDE DEF g
    <3>3. drafts' \subseteq DraftRecord /\ \A d \in drafts' : \E e \in drafts : d.id = e.id
      BY <3>1, <3>2
    <3>4. \A d, e \in drafts' : d.id = e.id => d = e
      <4> SUFFICES ASSUME NEW d \in drafts', NEW e \in drafts', d.id = e.id PROVE d = e
        OBVIOUS
      <4>1. PICK x \in drafts : d = g[x]
        BY <3>1
      <4>2. PICK y \in drafts : e = g[y]
        BY <3>1
      <4>3. x.id = y.id
        BY <3>2, <4>1, <4>2
      <4> QED BY <1>0, <4>1, <4>2, <4>3 DEF DraftsInv
    <3> QED BY <1>1, <2>2, <3>3, <3>4
  <2> QED BY <2>3, <2>4
<1> QED BY <1>2, <1>3, <1>4, Frames, Surrounding

LEMMA CacheStep ==
  ASSUME TypeInv, [Next]_vars
  PROVE  CacheTypes'
<1>0. CacheTypes /\ ReqInv /\ Submitted \in SUBSET Context
  BY DEF TypeInv, Submitted, SubsInv, SubRecord
<1>1. ASSUME NEW a \in Caller, Ask(a) PROVE CacheTypes'
  BY <1>0, <1>1, AskBegins DEF Begins, CacheTypes
<1>2. ASSUME NEW a \in Actor, Store(a) PROVE CacheTypes'
  BY <1>0, <1>2 DEF Store, Only, CacheTypes, ReqInv, ReqRecord
<1>3. ASSUME NEW a \in Actor, SubmitInvalidate(a) PROVE CacheTypes'
  BY <1>0, <1>3 DEF SubmitInvalidate, Invalidated, CacheTypes
<1>4. CASE UNCHANGED cached
  BY <1>0, <1>4 DEF cached, CacheTypes
<1>5. ASSUME NEW t \in Task, TakeRecord(t) \/ TimeOut(t) \/ LateFails(t) PROVE UNCHANGED cached
  BY <1>5 DEF TakeRecord, TimeOut, LateFails, Only
<1>6. CASE \/ UNCHANGED vars \/ TypeCreate
           \/ \E i \in Sub : Embed(i)
           \/ \E d \in drafts : DeleteDraft(d)
           \/ \E v \in Version, n \in Record, dry \in BOOLEAN :
                \E file \in [1..n -> Course] : Ingest(v, file, dry)
  BY <1>4, <1>6 DEF vars, TypeCreate, Embed, DeleteDraft, Ingest
<1>7. CASE Expire \/ Crash
  BY <1>0, <1>7 DEF Expire, Crash, CacheTypes
<1> QED BY <1>1, <1>2, <1>3, <1>4, <1>5, <1>6, <1>7, Frames DEF Next

LEMMA BoundsStep ==
  ASSUME TypeInv, [Next]_vars
  PROVE  BoundsInv'
<1>0. ops \in 0..MaxOps /\ faults \in 0..MaxFaults
  BY DEF TypeInv, BoundsInv
<1>1. ops' \in 0..MaxOps
  <2>1. ops' = ops \/ (ops < MaxOps /\ ops' = ops + 1)
    BY Frames, Surrounding
  <2> QED BY <1>0, <2>1
<1>2. faults' = faults \/ (faults < MaxFaults /\ faults' = faults + 1)
  <2>1. ASSUME NEW a \in Caller, Ask(a) PROVE faults' = faults
    BY <2>1, AskBegins DEF Begins, Begin
  <2>2. ASSUME NEW a \in Actor, Proceed(a), ~SubmitEnqueue(a) PROVE faults' = faults
    <3>1. CASE LifeSteps(a) \/ NextNumber(a) \/ PublishFind(a) \/ Store(a) \/ WipeResults(a)
               \/ WipeAnswers(a)
      BY <3>1 DEF LifeSteps, TypeRemoveFlush, CreateQuestionnaireFlush, CreateVersionFlush,
        PublishFlush, DeprecateFlush, DeprecateQuestionnaire, ArchiveFlush, UpdateDraftFlush,
        NextNumber, PublishFind, Store, WipeResults, WipeAnswers, Only
    <3>2. CASE SubmitFlush(a) \/ SubmitDry(a) \/ SubmitInvalidate(a) \/ SaveDraftFlush(a)
               \/ WipeRows(a)
      BY <3>2 DEF SubmitFlush, SubmitDry, SubmitInvalidate, SaveDraftFlush, WipeRows
    <3> QED BY <2>2, <3>1, <3>2 DEF Proceed, LifeSteps
  <2>3. ASSUME NEW a \in Actor, SubmitEnqueue(a)
        PROVE  faults' = faults \/ (faults < MaxFaults /\ faults' = faults + 1)
    BY <2>3 DEF SubmitEnqueue
  <2>4. CASE \/ UNCHANGED vars \/ TypeCreate \/ Expire
             \/ \E i \in Sub : Embed(i)
             \/ \E d \in drafts : DeleteDraft(d)
             \/ \E v \in Version, n \in Record, dry \in BOOLEAN :
                  \E file \in [1..n -> Course] : Ingest(v, file, dry)
    BY <2>4 DEF vars, TypeCreate, Embed, DeleteDraft, Ingest, Expire
  <2>5. CASE Crash \/ \E t \in Task : TakeRecord(t) \/ TimeOut(t) \/ LateFails(t)
    BY <2>5 DEF Crash, TakeRecord, TimeOut, LateFails, Only
  <2> QED BY <2>1, <2>2, <2>3, <2>4, <2>5 DEF Next
<1> QED BY <1>0, <1>1, <1>2 DEF BoundsInv

\* A report stays one about the records of the file.
LEMMA ReportType ==
  ASSUME TypeInv, NEW a \in Actor, NEW e \in {"success", "failure"}
  PROVE  Report(a, e) \in [Record -> {None, "success", "failure"}]
BY IngFile DEF Report

LEMMA NoIngestionType == NoIngestion \in IngRecord
<1>1. <<>> \in [1..0 -> Course]
  OBVIOUS
<1>2. 0 \in 0..MaxFile
  OBVIOUS
<1>3. <<>> \in UNION {[1..n -> Course] : n \in 0..MaxFile}
  BY <1>1, <1>2
<1>4. [i \in Record |-> None] \in [Record -> {None, "success", "failure"}]
  OBVIOUS
<1> QED BY <1>3, <1>4 DEF NoIngestion, IngRecord

LEMMA IngStep ==
  ASSUME TypeInv, [Next]_vars
  PROVE  ing' \in IngRecord
<1>0. ing \in IngRecord /\ NoIngestion \in IngRecord
  BY NoIngestionType DEF TypeInv
<1>1. CASE UNCHANGED ing
  BY <1>0, <1>1
<1>2. ASSUME NEW v \in Version, NEW n \in Record, NEW dry \in BOOLEAN,
             NEW file \in [1..n -> Course], Ingest(v, file, dry)
      PROVE  ing' \in IngRecord
  <2>1. n \in 0..MaxFile /\ v \in 0..MaxVersions
    BY DEF Record, Version
  <2>2. file \in UNION {[1..k -> Course] : k \in 0..MaxFile}
    BY <2>1
  <2> QED BY <1>0, <1>2, <2>1, <2>2 DEF Ingest, IngRecord
<1>3. ASSUME NEW t \in Task, TakeRecord(t) PROVE ing' \in IngRecord
  <2>1. ing.next + 1 \in 1..MaxFile + 1
    BY <1>3, IngFile DEF TakeRecord
  <2> DEFINE result == [ing.result EXCEPT ![ing.next] = "failure"]
  <2>2. result \in [Record -> {None, "success", "failure"}]
    BY IngFile
  <2>3. \/ ing' = [ing EXCEPT !.next = ing.next + 1]
        \/ ing' = [ing EXCEPT !.next = ing.next + 1, !.result = result]
    BY <1>0, <1>3 DEF TakeRecord, IngRecord
  <2>4. ASSUME NEW n \in 1..MaxFile + 1 PROVE [ing EXCEPT !.next = n] \in IngRecord
    BY <1>0 DEF IngRecord
  <2>5. ASSUME NEW n \in 1..MaxFile + 1, NEW f \in [Record -> {None, "success", "failure"}]
        PROVE  [ing EXCEPT !.next = n, !.result = f] \in IngRecord
    BY <1>0 DEF IngRecord
  <2> DEFINE next == ing.next + 1
  <2>6. next \in 1..MaxFile + 1
    BY <2>1
  <2>7. ing' = [ing EXCEPT !.next = next] \/ ing' = [ing EXCEPT !.next = next, !.result = result]
    BY <2>3
  <2> HIDE DEF result, next
  <2>8. [ing EXCEPT !.next = next] \in IngRecord
    BY <2>4, <2>6
  <2>9. [ing EXCEPT !.next = next, !.result = result] \in IngRecord
    BY <2>2, <2>5, <2>6
  <2> QED BY ONLY <2>7, <2>8, <2>9, Zenon
<1>4. ASSUME NEW t \in Task, TimeOut(t) PROVE ing' \in IngRecord
  <2>1. t \in Actor /\ req[t].record \in Record
    BY <1>4 DEF TimeOut, At, Actor, TypeInv, ReqInv, WellFormed
  <2>2. Report(t, "failure") \in [Record -> {None, "success", "failure"}]
    BY <2>1, ReportType
  <2>3. ing.timedOut \cup {req[t].record} \in SUBSET Record
    BY <2>1, IngFile
  <2>4. ing' = [ing EXCEPT !.result = Report(t, "failure"),
                           !.timedOut = ing.timedOut \cup {req[t].record}]
    BY <1>4 DEF TimeOut
  <2> HIDE DEF Report
  <2> QED BY <1>0, <2>2, <2>3, <2>4 DEF IngRecord
<1>5. ASSUME NEW a \in Actor, SubmitDry(a) \/ SubmitEnqueue(a) \/ SubmitFlush(a)
      PROVE  ing' \in IngRecord
  <2>1. /\ Report(a, "failure") \in [Record -> {None, "success", "failure"}]
        /\ Report(a, "success") \in [Record -> {None, "success", "failure"}]
    BY ReportType
  <2>2. \/ ing' = [ing EXCEPT !.result = Report(a, "failure")]
        \/ ing' = [ing EXCEPT !.result = Report(a, "success")]
        \/ ing' = [ing EXCEPT !.landed = ing.landed \cup ({req[a].record} \cap Record)]
    BY <1>5 DEF SubmitDry, SubmitEnqueue, SubmitFlush
  <2>3. ing.landed \cup ({req[a].record} \cap Record) \in SUBSET Record
    BY IngFile
  <2>4. ASSUME NEW f \in [Record -> {None, "success", "failure"}]
        PROVE  [ing EXCEPT !.result = f] \in IngRecord
    BY <1>0 DEF IngRecord
  <2>5. ASSUME NEW S \in SUBSET Record
        PROVE  [ing EXCEPT !.landed = S] \in IngRecord
    BY <1>0 DEF IngRecord
  <2> QED BY <2>1, <2>2, <2>3, <2>4, <2>5
<1>6. CASE \/ UNCHANGED vars \/ TypeCreate \/ Expire
           \/ \E i \in Sub : Embed(i)
           \/ \E d \in drafts : DeleteDraft(d)
           \/ \E t \in Task : LateFails(t)
  BY <1>1, <1>6 DEF vars, TypeCreate, Expire, Embed, DeleteDraft, LateFails, Only
<1>7. ASSUME NEW a \in Caller, Ask(a) PROVE UNCHANGED ing
  BY <1>7, AskBegins DEF Begins, Begin
<1>8. CASE Crash
  BY <1>0, <1>8 DEF Crash
<1> QED BY <1>1, <1>2, <1>3, <1>4, <1>5, <1>6, <1>7, <1>8, Frames DEF Next

LEMMA TypeStart == Init => TypeInv
<1> SUFFICES ASSUME Init PROVE TypeInv
  OBVIOUS
<1>1. LifeInv
  <2>1. CASE type = "absent" /\ quest = "none" /\ vers = <<>> /\ nvers = 0
    BY <2>1 DEF LifeInv, Status
  <2>2. ASSUME NEW s \in Valid, type = "live", quest = "ACTIVE", nvers = 1,
               vers = <<[number |-> 1, status |-> "ACTIVE", active |-> TRUE,
                         published |-> TRUE, schema |-> s]>>
        PROVE  LifeInv
    <3> DEFINE row == [number |-> 1, status |-> "ACTIVE", active |-> TRUE,
                       published |-> TRUE, schema |-> s]
    <3>1. row \in VersionRecord /\ row.number = 1
      BY DEF VersionRecord, Version, Status
    <3>2. vers = <<row>>
      BY <2>2
    <3> HIDE DEF row
    <3>3. vers \in [1..1 -> VersionRecord] /\ vers[1] = row
      BY <3>1, <3>2
    <3> QED BY <2>2, <3>1, <3>3 DEF LifeInv, Status
  <2> QED BY <2>1, <2>2 DEF Init
<1>2. SubsInv
  BY DEF Init, SubsInv
<1>20. CacheTypes /\ BoundsInv
  <2>1. cache = None /\ tracked \in BOOLEAN
    BY DEF Init
  <2>2. ops = 0 /\ faults = 0
    BY DEF Init
  <2>3. BoundsInv
    BY <2>2 DEF BoundsInv
  <2> QED BY <2>1, <2>3 DEF CacheTypes
<1>3. ReqInv
  BY IdleTypes DEF Init, ReqInv
<1>4. DraftsInv
  BY IdleTypes DEF Init, DraftsInv, At
<1>5. ing \in IngRecord
  BY NoIngestionType DEF Init
<1> QED BY <1>1, <1>2, <1>20, <1>3, <1>4, <1>5 DEF TypeInv

LEMMA TypeStep == TypeInv /\ [Next]_vars => TypeInv'
<1> SUFFICES ASSUME TypeInv, [Next]_vars PROVE TypeInv'
  OBVIOUS
<1> QED BY LifeStep, SubsStep, DraftsStep, CacheStep, ReqStep, IngStep, BoundsStep
     DEF TypeInv

\* Every row, request and report keeps its type; submissions keep identities of
\* their own, and no request is about a version that does not exist.
THEOREM SurveysTypeCorrect == Spec => []SurveysTypeOK
<1>1. Init => TypeInv
  BY TypeStart
<1>2. TypeInv /\ [Next]_vars => TypeInv'
  BY TypeStep
<1> QED BY <1>1, <1>2, TypeInvTyped, PTL DEF Spec

-----------------------------------------------------------------------------
(* Who moves in a step.                                                    *)

\* What an actor may do is said by the step it has reached.
LEMMA Guarded ==
  ASSUME NEW a \in Actor, Proceed(a)
  PROVE  /\ ~At(a, "idle")
         /\ At(a, "wipeRows") => WipeRows(a)
         /\ At(a, "submitted") => SubmitInvalidate(a)
         /\ At(a, "embedding") => SubmitEnqueue(a)
         /\ At(a, "storing") => Store(a)
         /\ At(a, "saving") => SaveDraftFlush(a)
         /\ At(a, "submitting") => SubmitFlush(a) \/ SubmitDry(a)
BY DEF Proceed, At, TypeRemoveFlush, CreateQuestionnaireFlush, NextNumber, CreateVersionFlush,
  PublishFind, PublishFlush, DeprecateFlush, DeprecateQuestionnaire, ArchiveFlush,
  UpdateDraftFlush, SubmitFlush, SubmitDry, SubmitInvalidate, SubmitEnqueue, SaveDraftFlush,
  WipeResults, WipeAnswers, WipeRows, Store

\* Unless the process restarts, an actor moves by a step of its own.
LEMMA OneMoves ==
  ASSUME TypeInv, [Next]_vars, ~Crash, NEW b \in Actor
  PROVE  \/ req'[b] = req[b]
         \/ Proceed(b)
         \/ b \in Caller /\ At(b, "idle") /\ Ask(b)
         \/ b \in Task /\ (TakeRecord(b) \/ TimeOut(b) \/ LateFails(b))
<1>0. req \in [Actor -> ReqRecord]
  BY DEF TypeInv, ReqInv
<1>1. ASSUME NEW a \in Caller, Ask(a)
      PROVE  req'[b] = req[b] \/ (b \in Caller /\ At(b, "idle") /\ Ask(b))
  <2>1. PICK r \in ReqRecord : Begin(a, r)
    BY <1>1, AskBegins DEF Begins
  <2> QED BY <1>0, <1>1, <2>1 DEF Begin
<1>2. ASSUME NEW a \in Actor, Proceed(a) PROVE req'[b] = req[b] \/ Proceed(b)
  BY <1>0, <1>2, Moved
<1>3. ASSUME NEW t \in Task, TakeRecord(t) \/ TimeOut(t) \/ LateFails(t)
      PROVE  req'[b] = req[b] \/ (b \in Task /\ (TakeRecord(b) \/ TimeOut(b) \/ LateFails(b)))
  BY <1>0, <1>3, SlotTypes
<1>4. CASE \/ UNCHANGED vars \/ TypeCreate \/ Expire
           \/ \E i \in Sub : Embed(i)
           \/ \E d \in drafts : DeleteDraft(d)
           \/ \E v \in Version, n \in Record, dry \in BOOLEAN :
                \E file \in [1..n -> Course] : Ingest(v, file, dry)
  BY <1>4 DEF vars, TypeCreate, Expire, Embed, DeleteDraft, Ingest
<1> QED BY <1>1, <1>2, <1>3, <1>4 DEF Next

\* A step reached is left by the action that it is the guard of, and by no
\* other; what a user's request has read stays until then.
LEMMA StaysPut ==
  ASSUME TypeInv, [Next]_vars, ~Crash, NEW b \in Actor, ~Proceed(b),
         ~At(b, "idle"), ~LateFails(b)
  PROVE  req'[b].pc = req[b].pc /\ (b \in Caller => req'[b] = req[b])
<1>0. req \in [Actor -> ReqRecord] /\ Caller \cap Task = {}
  BY DEF TypeInv, ReqInv
<1>1. CASE TimeOut(b) /\ b \in Task
  <2>1. req' = [req EXCEPT ![b] = [req[b] EXCEPT !.late = TRUE]]
    BY <1>0, <1>1 DEF TimeOut
  <2> QED BY <1>0, <1>1, <2>1 DEF ReqRecord
<1> QED BY <1>0, <1>1, OneMoves DEF TakeRecord, At

-----------------------------------------------------------------------------
(* Answers.                                                                *)

LEMMA SubsWriters ==
  ASSUME TypeInv, [Next]_vars
  PROVE  \/ subs' = subs
         \/ \E i \in Sub : Embed(i)
         \/ \E a \in Actor : WipeResults(a) \/ WipeAnswers(a) \/ WipeRows(a) \/ SubmitFlush(a)
<1>1. ASSUME NEW a \in Actor, Proceed(a)
      PROVE  \/ subs' = subs
             \/ WipeResults(a) \/ WipeAnswers(a) \/ WipeRows(a) \/ SubmitFlush(a)
  <2>1. SubmitEnqueue(a) => subs' = subs
    BY DEF SubmitEnqueue
  <2>2. UNCHANGED landed => subs' = subs
    BY DEF landed
  <2> HIDE DEF landed
  <2> QED BY <1>1, <2>1, <2>2, Frames
<1>2. CASE ~(\E a \in Actor : Proceed(a))
  <2>1. UNCHANGED landed => subs' = subs
    BY DEF landed
  <2> QED BY <1>2, <2>1, Surrounding
<1> QED BY <1>1, <1>2

LEMMA AnswersStep ==
  ASSUME TypeInv, AnswersStay, [Next]_vars
  PROVE  AnswersStay'
<1>0. /\ SubsInv /\ ReqInv /\ req \in [Actor -> ReqRecord] /\ Caller \subseteq Actor
      /\ past \subseteq past'
  BY Frames, Surrounding DEF TypeInv, ReqInv, Actor
<1> SUFFICES ASSUME "cutWipe" \notin past', NEW s \in subs', ~s.answers
             PROVE  \E a \in Caller : At(a, "wipeRows")' /\ s.id \in req'[a].ids
  BY DEF AnswersStay
<1>1. "cutWipe" \notin past
  BY <1>0
<1>2. ASSUME NEW x \in subs, x.id = s.id, ~x.answers, ~Crash,
             \A a \in Actor : WipeRows(a) => x.id \notin req[a].ids
      PROVE  \E a \in Caller : At(a, "wipeRows")' /\ s.id \in req'[a].ids
  <2>1. PICK a \in Caller : At(a, "wipeRows") /\ x.id \in req[a].ids
    BY <1>1, <1>2 DEF AnswersStay
  <2>2. a \in Actor /\ ~WipeRows(a) /\ ~At(a, "idle") /\ ~LateFails(a)
    BY <1>0, <1>2, <2>1 DEF At, LateFails
  <2>3. req'[a] = req[a]
    BY <1>2, <2>1, <2>2, Guarded, StaysPut
  <2> QED BY <1>2, <2>1, <2>3 DEF At
<1>3. CASE Crash
  <2>1. subs' = subs
    BY <1>3 DEF Crash, landed
  <2>2. PICK a \in Caller : At(a, "wipeRows")
    BY <1>1, <2>1 DEF AnswersStay
  <2>3. "cutWipe" \in past'
    BY <1>3, <2>2 DEF Crash, At
  <2> QED BY <2>3
<1>4. CASE subs' = subs /\ ~Crash /\ \A a \in Actor : ~WipeRows(a)
  BY <1>2, <1>4
<1>5. ASSUME NEW a \in Actor, WipeRows(a), ~Crash
      PROVE  \E b \in Caller : At(b, "wipeRows")' /\ s.id \in req'[b].ids
  <2>1. subs' = {x \in subs : x.id \notin req[a].ids}
    BY <1>5 DEF WipeRows
  <2>2. PICK b \in Caller : At(b, "wipeRows") /\ s.id \in req[b].ids
    BY <1>1, <2>1 DEF AnswersStay
  <2>3. b # a /\ b \in Actor
    BY <1>0, <2>1, <2>2
  <2>4. req' = [req EXCEPT ![a] = Idle]
    BY <1>5 DEF WipeRows, Done
  <2>5. req'[b] = req[b]
    BY <1>0, <2>3, <2>4
  <2> QED BY <2>2, <2>5 DEF At
<1>6. ASSUME NEW a \in Actor, WipeAnswers(a), ~Crash
      PROVE  \E b \in Caller : At(b, "wipeRows")' /\ s.id \in req'[b].ids
  <2>1. subs' = {IF x.id \in req[a].ids THEN [x EXCEPT !.answers = FALSE] ELSE x : x \in subs}
    BY <1>6 DEF WipeAnswers, WithoutAnswers
  <2>2. PICK x \in subs : s = IF x.id \in req[a].ids THEN [x EXCEPT !.answers = FALSE] ELSE x
    BY <2>1
  <2>3. x.id = s.id
    BY <1>0, <2>2 DEF SubsInv, SubRecord
  <2>4. CASE x.id \in req[a].ids
    <3>1. req' = [req EXCEPT ![a] = [req[a] EXCEPT !.pc = "wipeRows"]]
      BY <1>0, <1>6 DEF WipeAnswers, Goto
    <3>2. req'[a].pc = "wipeRows" /\ req'[a].ids = req[a].ids
      BY <1>0, <3>1 DEF ReqRecord
    <3>3. a \in Caller
      BY <1>0, <1>6 DEF WipeAnswers, At, ReqInv, WellFormed, Actor
    <3> QED BY <2>3, <2>4, <3>2, <3>3 DEF At
  <2>5. CASE x.id \notin req[a].ids
    <3>1. \A b \in Actor : ~WipeRows(b)
      <4>1. ASSUME NEW b \in Actor, WipeRows(b) PROVE FALSE
        <5>1. req' = [req EXCEPT ![a] = [req[a] EXCEPT !.pc = "wipeRows"]]
              /\ req' = [req EXCEPT ![b] = Idle]
              /\ req[a].pc = "wipeAnswers" /\ req[b].pc = "wipeRows"
          BY <1>0, <1>6, <4>1 DEF WipeAnswers, Goto, WipeRows, Done, At
        <5>2. b # a
          BY <5>1
        <5>3. req'[a] = req[a]
          BY <1>0, <5>1, <5>2
        <5>4. req'[a].pc = "wipeRows"
          BY <1>0, <5>1 DEF ReqRecord
        <5> QED BY <5>1, <5>3, <5>4
      <4> QED BY <4>1
    <3> QED BY <1>2, <1>6, <2>2, <2>3, <2>5, <3>1
  <2> QED BY <2>4, <2>5
<1>7. ASSUME NEW i \in Sub, Embed(i), ~Crash, \A a \in Actor : ~WipeRows(a)
      PROVE  \E b \in Caller : At(b, "wipeRows")' /\ s.id \in req'[b].ids
  <2>1. PICK x \in subs : s = IF x.id = i THEN [x EXCEPT !.results = TRUE] ELSE x
    BY <1>7 DEF Embed
  <2>2. x.id = s.id /\ x.answers = s.answers
    BY <1>0, <2>1 DEF SubsInv, SubRecord
  <2> QED BY <1>2, <1>7, <2>2
<1>8. ASSUME NEW a \in Actor, WipeResults(a), ~Crash, \A b \in Actor : ~WipeRows(b)
      PROVE  \E b \in Caller : At(b, "wipeRows")' /\ s.id \in req'[b].ids
  <2>1. PICK x \in subs : s = IF x.id \in req[a].ids THEN [x EXCEPT !.results = FALSE] ELSE x
    BY <1>8 DEF WipeResults, WithoutResults
  <2>2. x.id = s.id /\ x.answers = s.answers
    BY <1>0, <2>1 DEF SubsInv, SubRecord
  <2> QED BY <1>2, <1>8, <2>2
<1>9. ASSUME NEW a \in Actor, SubmitFlush(a), ~Crash, \A b \in Actor : ~WipeRows(b)
      PROVE  \E b \in Caller : At(b, "wipeRows")' /\ s.id \in req'[b].ids
  <2>1. \/ subs' = subs
        \/ subs' = subs \cup
               {[id |-> nsubs + 1, ver |-> req[a].ver, course |-> req[a].course,
                 schema |-> req[a].schema, answers |-> TRUE, results |-> FALSE]}
    BY <1>9 DEF SubmitFlush
  <2>2. s \in subs
    BY <2>1
  <2> QED BY <1>2, <1>9, <2>2
<1> QED BY <1>3, <1>4, <1>5, <1>6, <1>7, <1>8, <1>9, SubsWriters

\* A submission loses its answers only on the way to being wiped, or where a
\* restart or a late result cut the wipe off.
THEOREM AnswersStayCorrect == Spec => []AnswersStay
<1>1. Init => TypeInv /\ AnswersStay
  BY TypeStart DEF Init, AnswersStay
<1>2. TypeInv /\ AnswersStay /\ [Next]_vars => TypeInv' /\ AnswersStay'
  BY TypeStep, AnswersStep
<1> QED BY <1>1, <1>2, PTL DEF Spec
-----------------------------------------------------------------------------
(* Rows.                                                                   *)

\* The row that a submission inserts.
NewRow(r) ==
  [id |-> nsubs + 1, ver |-> r.ver, course |-> r.course, schema |-> r.schema,
   answers |-> TRUE, results |-> FALSE]

\* Rows keep what they are about; they go by a wipe, and come one at a time
\* where the unique constraint has room for them.
LEMMA SubsShape ==
  ASSUME TypeInv, [Next]_vars
  PROVE  \/ \E g \in [subs -> SubRecord] :
              /\ subs' = {g[s] : s \in subs}
              /\ \A s \in subs : g[s].id = s.id /\ g[s].ver = s.ver
                                 /\ g[s].course = s.course /\ g[s].schema = s.schema
         \/ subs' \subseteq subs /\ "wipe" \in past'
         \/ \E a \in Actor :
              /\ SubmitFlush(a) /\ RowFree(req[a].ver, req[a].course)
              /\ subs' = subs \cup {NewRow(req[a])}
<1> DEFINE Kept == \E g \in [subs -> SubRecord] :
              /\ subs' = {g[s] : s \in subs}
              /\ \A s \in subs : g[s].id = s.id /\ g[s].ver = s.ver
                                 /\ g[s].course = s.course /\ g[s].schema = s.schema
<1>0. subs \subseteq SubRecord
  BY DEF TypeInv, SubsInv
<1>1. ASSUME subs' = subs PROVE Kept
  <2> DEFINE g == [s \in subs |-> s]
  <2>1. g \in [subs -> SubRecord] /\ \A s \in subs : g[s] = s
    BY <1>0
  <2>2. subs' = {g[s] : s \in subs}
    BY <1>1
  <2> HIDE DEF g
  <2> QED BY <2>1, <2>2
<1>2. ASSUME NEW i \in Sub, Embed(i) PROVE Kept
  <2> DEFINE g == [s \in subs |-> IF s.id = i THEN [s EXCEPT !.results = TRUE] ELSE s]
  <2>1. subs' = {g[s] : s \in subs}
    BY <1>2 DEF Embed
  <2>2. ASSUME NEW s \in subs
        PROVE  /\ g[s] \in SubRecord /\ g[s].id = s.id /\ g[s].ver = s.ver
               /\ g[s].course = s.course /\ g[s].schema = s.schema
    BY <1>0 DEF SubRecord
  <2>3. g \in [subs -> SubRecord]
    BY <2>2
  <2> HIDE DEF g
  <2> QED BY <2>1, <2>2, <2>3
<1>3. ASSUME NEW a \in Actor, WipeResults(a) PROVE Kept
  <2> DEFINE g == [s \in subs |-> IF s.id \in req[a].ids THEN [s EXCEPT !.results = FALSE] ELSE s]
  <2>1. subs' = {g[s] : s \in subs}
    BY <1>3 DEF WipeResults, WithoutResults
  <2>2. ASSUME NEW s \in subs
        PROVE  /\ g[s] \in SubRecord /\ g[s].id = s.id /\ g[s].ver = s.ver
               /\ g[s].course = s.course /\ g[s].schema = s.schema
    BY <1>0 DEF SubRecord
  <2>3. g \in [subs -> SubRecord]
    BY <2>2
  <2> HIDE DEF g
  <2> QED BY <2>1, <2>2, <2>3
<1>4. ASSUME NEW a \in Actor, WipeAnswers(a) PROVE Kept
  <2> DEFINE g == [s \in subs |-> IF s.id \in req[a].ids THEN [s EXCEPT !.answers = FALSE] ELSE s]
  <2>1. subs' = {g[s] : s \in subs}
    BY <1>4 DEF WipeAnswers, WithoutAnswers
  <2>2. ASSUME NEW s \in subs
        PROVE  /\ g[s] \in SubRecord /\ g[s].id = s.id /\ g[s].ver = s.ver
               /\ g[s].course = s.course /\ g[s].schema = s.schema
    BY <1>0 DEF SubRecord
  <2>3. g \in [subs -> SubRecord]
    BY <2>2
  <2> HIDE DEF g
  <2> QED BY <2>1, <2>2, <2>3
<1>5. ASSUME NEW a \in Actor, WipeRows(a)
      PROVE  subs' = subs \/ (subs' \subseteq subs /\ "wipe" \in past')
  BY <1>5 DEF WipeRows
<1>6. ASSUME NEW a \in Actor, SubmitFlush(a)
      PROVE  \/ subs' = subs
             \/ /\ RowFree(req[a].ver, req[a].course)
                /\ subs' = subs \cup {NewRow(req[a])}
  BY <1>6 DEF SubmitFlush, NewRow
<1> HIDE DEF Kept
<1>7. \/ Kept
      \/ subs' \subseteq subs /\ "wipe" \in past'
      \/ \E a \in Actor : /\ SubmitFlush(a) /\ RowFree(req[a].ver, req[a].course)
                          /\ subs' = subs \cup {NewRow(req[a])}
  BY <1>1, <1>2, <1>3, <1>4, <1>5, <1>6, SubsWriters
<1> QED BY <1>7 DEF Kept

LEMMA NewRowFields ==
  ASSUME NEW r
  PROVE  /\ NewRow(r).ver = r.ver /\ NewRow(r).course = r.course
         /\ NewRow(r).schema = r.schema /\ NewRow(r).id = nsubs + 1
BY DEF NewRow

LEMMA RowsStep ==
  ASSUME TypeInv, RowsUnique, [Next]_vars
  PROVE  RowsUnique'
<1>1. ASSUME NEW g \in [subs -> SubRecord], subs' = {g[s] : s \in subs},
             \A s \in subs : g[s].ver = s.ver /\ g[s].course = s.course
      PROVE  RowsUnique'
  <2> SUFFICES ASSUME NEW s \in subs', NEW t \in subs', s.ver = t.ver, s.course = t.course
               PROVE  s = t \/ s.course = NoCourse
    BY DEF RowsUnique
  <2>1. PICK x \in subs : s = g[x]
    BY <1>1
  <2>2. PICK y \in subs : t = g[y]
    BY <1>1
  <2>3. x = y \/ x.course = NoCourse
    BY <1>1, <2>1, <2>2 DEF RowsUnique
  <2> QED BY <1>1, <2>1, <2>2, <2>3
<1>2. CASE subs' \subseteq subs
  BY <1>2 DEF RowsUnique
<1>3. ASSUME NEW a \in Actor, RowFree(req[a].ver, req[a].course),
             subs' = subs \cup {NewRow(req[a])}
      PROVE  RowsUnique'
  BY <1>3, NewRowFields DEF RowsUnique, RowFree, Duplicate
<1> QED BY <1>1, <1>2, <1>3, SubsShape

\* A row for a context stays, unless a wipe removes it.
LEMMA RowsStay ==
  ASSUME TypeInv, [Next]_vars, "wipe" \notin past', NEW v, NEW c, Duplicate(v, c)
  PROVE  Duplicate(v, c)'
<1>1. PICK s \in subs : s.ver = v /\ s.course = c
  BY DEF Duplicate
<1>2. ASSUME NEW g \in [subs -> SubRecord], subs' = {g[x] : x \in subs},
             \A x \in subs : g[x].ver = x.ver /\ g[x].course = x.course
      PROVE  Duplicate(v, c)'
  BY <1>1, <1>2 DEF Duplicate
<1>3. CASE subs \subseteq subs'
  BY <1>1, <1>3 DEF Duplicate
<1> QED BY <1>2, <1>3, SubsShape

-----------------------------------------------------------------------------
(* The cached enrolments.                                                  *)

\* What is noted stays noted.
LEMMA PastGrows ==
  ASSUME TypeInv, [Next]_vars
  PROVE  past \subseteq past'
<1>1. ASSUME NEW a \in Actor, Proceed(a) PROVE past \subseteq past'
  BY <1>1, Frames
<1>2. CASE ~(\E a \in Actor : Proceed(a))
  BY <1>2, Surrounding
<1> QED BY <1>1, <1>2

\* What a user's request is about to do: it stays, begins, or goes on.
LEMMA CallerMoves ==
  ASSUME TypeInv, [Next]_vars, ~Crash, NEW b \in Caller
  PROVE  \/ req'[b] = req[b]
         \/ Proceed(b) /\ Moves(b, req'[b])
         \/ At(b, "idle") /\ Begins(b, req'[b])
<1>0. req \in [Actor -> ReqRecord] /\ b \in Actor /\ b \notin Task
  BY DEF TypeInv, ReqInv, Actor
<1>1. CASE Proceed(b)
  BY <1>0, <1>1, Moved
<1>2. CASE At(b, "idle") /\ Ask(b)
  <2>1. PICK r \in ReqRecord : Begins(b, r)
    BY <1>2, AskBegins
  <2>2. req'[b] = r
    BY <1>0, <2>1 DEF Begins, Begin
  <2> QED BY <1>2, <2>1, <2>2
<1> QED BY <1>0, <1>1, <1>2, OneMoves

LEMMA CacheWriters ==
  ASSUME TypeInv, [Next]_vars, ~Crash
  PROVE  \/ cache' = cache /\ tracked' \in {tracked, TRUE}
         \/ cache' = None /\ tracked' = tracked
         \/ \E a \in Actor : SubmitInvalidate(a) \/ Store(a)
<1>1. ASSUME NEW a \in Caller, Ask(a) PROVE cache' = cache /\ tracked' \in {tracked, TRUE}
  BY <1>1, AskBegins DEF Begins
<1>2. ASSUME NEW a \in Actor, Proceed(a)
      PROVE  \/ cache' = cache /\ tracked' = tracked
             \/ SubmitInvalidate(a) \/ Store(a)
  BY <1>2, Frames DEF cached
<1>3. ASSUME NEW t \in Task, TakeRecord(t) \/ TimeOut(t) \/ LateFails(t)
      PROVE  cache' = cache /\ tracked' = tracked
  BY <1>3 DEF TakeRecord, TimeOut, LateFails, Only, cached
<1>4. CASE \/ UNCHANGED vars \/ TypeCreate
           \/ \E i \in Sub : Embed(i)
           \/ \E d \in drafts : DeleteDraft(d)
           \/ \E v \in Version, n \in Record, dry \in BOOLEAN :
                \E file \in [1..n -> Course] : Ingest(v, file, dry)
  BY <1>4 DEF vars, TypeCreate, Embed, DeleteDraft, Ingest, cached
<1>5. CASE Expire
  BY <1>5 DEF Expire
<1> QED BY <1>1, <1>2, <1>3, <1>4, <1>5 DEF Next

\* What is submitted changes by a wipe, or by a submission that has not been
\* answered yet.
LEMMA SubmittedChanges ==
  ASSUME TypeInv, [Next]_vars
  PROVE  Submitted' = Submitted \/ "wipe" \in past' \/ \E a \in Actor : At(a, "submitted")'
<1>0. req \in [Actor -> ReqRecord] /\ subs \subseteq SubRecord
  BY DEF TypeInv, ReqInv, SubsInv
<1>1. ASSUME NEW g \in [subs -> SubRecord], subs' = {g[s] : s \in subs},
             \A s \in subs : g[s].course = s.course
      PROVE  Submitted' = Submitted
  <2>1. \A c \in Submitted' : c \in Submitted
    BY <1>1 DEF Submitted
  <2>2. \A c \in Submitted : c \in Submitted'
    BY <1>1 DEF Submitted
  <2> QED BY <2>1, <2>2
<1>2. ASSUME NEW a \in Actor, SubmitFlush(a), RowFree(req[a].ver, req[a].course)
      PROVE  At(a, "submitted")'
  <2>1. req' = [req EXCEPT ![a] = [req[a] EXCEPT !.pc = "submitted", !.ids = {nsubs + 1}]]
    BY <1>0, <1>2 DEF SubmitFlush
  <2> QED BY <1>0, <2>1 DEF At, ReqRecord
<1> QED BY <1>1, <1>2, SubsShape

LEMMA FreshStep ==
  ASSUME TypeInv, TypeInv', FreshInv, [Next]_vars
  PROVE  FreshInv'
<1>0. /\ req \in [Actor -> ReqRecord] /\ Caller \subseteq Actor
      /\ \A a \in Actor : At(a, "storing") => a \in Caller
      /\ \A a \in Actor : At(a, "storing")' => a \in Caller
  BY DEF TypeInv, ReqInv, WellFormed, Actor, At
<1> SUFFICES ASSUME {"restart", "wipe", "storing"} \cap past' = {}
             PROVE  /\ cache' # None => tracked' /\ (cache' = Submitted' \/ Landing')
                    /\ \A a \in Actor : At(a, "storing")' =>
                         tracked' /\ (req'[a].value = Submitted' \/ Landing')
  BY DEF FreshInv
<1>1. {"restart", "wipe", "storing"} \cap past = {}
  BY PastGrows
<1>2. ~Crash
  BY DEF Crash
<1>3. /\ cache # None => tracked /\ (cache = Submitted \/ Landing)
      /\ \A a \in Actor : At(a, "storing") =>
           tracked /\ (req[a].value = Submitted \/ Landing)
  BY <1>1 DEF FreshInv
<1>4. ASSUME NEW a \in Actor, SubmitInvalidate(a)
      PROVE  cache' = None /\ \A b \in Actor : ~At(b, "storing")'
  <2>1. cache' = None
    BY <1>3, <1>4 DEF SubmitInvalidate, Invalidated
  <2>2. \A b \in Actor : ~At(b, "storing")
    BY <1>0, <1>4 DEF SubmitInvalidate, Storing
  <2>3. req' = [req EXCEPT ![a] = [req[a] EXCEPT !.pc = "embedding"]]
    BY <1>0, <1>4 DEF SubmitInvalidate, Goto
  <2>4. req'[a].pc = "embedding" /\ \A b \in Actor \ {a} : req'[b] = req[b]
    BY <1>0, <2>3 DEF ReqRecord
  <2> QED BY <2>1, <2>2, <2>4 DEF At
<1>5. ASSUME \A a \in Actor : ~SubmitInvalidate(a)
      PROVE  /\ cache' # None => tracked' /\ (cache' = Submitted' \/ Landing')
             /\ \A a \in Actor : At(a, "storing")' =>
                  tracked' /\ (req'[a].value = Submitted' \/ Landing')
  <2>1. Landing => Landing'
    <3>1. ASSUME NEW a \in Actor, At(a, "submitted") PROVE At(a, "submitted")'
      <4>1. ~Proceed(a) /\ ~At(a, "idle") /\ ~LateFails(a)
        BY <1>5, <3>1, Guarded DEF At, LateFails
      <4> QED BY <1>2, <3>1, <4>1, StaysPut DEF At
    <3> QED BY <3>1 DEF Landing
  <2>2. Submitted' = Submitted \/ Landing'
    BY SubmittedChanges DEF Landing
  <2>3. ASSUME NEW a \in Actor, Store(a) PROVE cache' = req[a].value /\ tracked' = tracked /\ At(a, "storing")
    BY <2>3 DEF Store, Only
  <2>4. tracked => tracked'
    BY <1>2, <1>5, <2>3, CacheWriters
  <2>5. cache' # None => tracked' /\ (cache' = Submitted' \/ Landing')
    <3>1. CASE cache' = cache
      BY <1>3, <2>1, <2>2, <2>4, <3>1
    <3>2. ASSUME NEW a \in Actor, Store(a) PROVE tracked' /\ (cache' = Submitted' \/ Landing')
      BY <1>3, <2>1, <2>2, <2>3, <3>2
    <3> QED BY <1>2, <1>5, <3>1, <3>2, CacheWriters
  <2>6. ASSUME NEW a \in Actor, At(a, "storing")'
        PROVE  tracked' /\ (req'[a].value = Submitted' \/ Landing')
    <3>1. a \in Caller
      BY <1>0, <2>6
    <3>2. CASE req'[a] = req[a]
      <4>1. At(a, "storing")
        BY <2>6, <3>2 DEF At
      <4> QED BY <1>3, <2>1, <2>2, <2>4, <3>2, <4>1
    <3>3. CASE Begins(a, req'[a])
      <4>1. req'[a].pc = "storing"
        BY <2>6 DEF At
      <4>2. tracked' = TRUE /\ req'[a].value = Submitted /\ UNCHANGED landed
        BY <3>3, <4>1 DEF Begins, Starts, Begin
      <4> QED BY <4>2 DEF landed, Submitted
    <3>4. CASE Moves(a, req'[a])
      BY <2>6, <3>4, IdleTypes DEF Moves, At
    <3> QED BY <1>2, <3>1, <3>2, <3>3, <3>4, CallerMoves
  <2> QED BY <2>5, <2>6
<1> QED BY <1>4, <1>5

\* The cached list shows a submission as soon as it has been answered, unless
\* the process restarted, a wipe ran or somebody stored what was read before.
THEOREM CacheIsFreshCorrect == Spec => []CacheIsFresh
<1>1. Init => TypeInv /\ FreshInv
  BY TypeStart, IdleTypes DEF Init, FreshInv, At
<1>2. TypeInv /\ FreshInv /\ [Next]_vars => TypeInv' /\ FreshInv'
  BY TypeStep, FreshStep
<1>3. FreshInv => CacheIsFresh
  BY DEF FreshInv, CacheIsFresh, Landing
<1> QED BY <1>1, <1>2, <1>3, PTL DEF Spec
-----------------------------------------------------------------------------
(* Drafts.                                                                 *)

\* The drafts as they are to be, once those who save are accounted for.
Matching(D, S) ==
  /\ \A d, e \in D : d.ver = e.ver /\ d.course = e.course => d = e
  /\ \A d \in D : d.answers = S[<<d.ver, d.course>>]
  /\ \A v \in Version, c \in Context :
       S[<<v, c>>] # None => \E d \in D : d.ver = v /\ d.course = c

LEMMA KeptStep ==
  ASSUME TypeInv, TypeInv', KeptInv, [Next]_vars
  PROVE  KeptInv'
<1>0. /\ req \in [Actor -> ReqRecord] /\ Caller \subseteq Actor
      /\ \A a \in Actor : At(a, "saving") => a \in Caller
      /\ \A a \in Actor : At(a, "saving")' => a \in Caller
      /\ drafts \subseteq DraftRecord /\ drafts' \subseteq DraftRecord
      /\ saved \in [Version \X Context -> Answers \cup {None}]
      /\ \A d, e \in drafts : d.id = e.id => d = e
  BY DEF TypeInv, ReqInv, WellFormed, Actor, At, DraftsInv
<1> SUFFICES ASSUME {"saves", "courseless"} \cap past' = {}
             PROVE  /\ \A a, b \in Actor : At(a, "saving")' /\ At(b, "saving")' => a = b
                    /\ \A a \in Actor : At(a, "saving")' => Found(req[a])'
                    /\ Matching(drafts', saved')
  BY DEF KeptInv, Matching
<1>1. {"saves", "courseless"} \cap past = {}
  BY PastGrows
<1>2. /\ \A a, b \in Actor : At(a, "saving") /\ At(b, "saving") => a = b
      /\ \A a \in Actor : At(a, "saving") => Found(req[a])
      /\ Matching(drafts, saved)
  BY <1>1 DEF KeptInv, Matching
<1>3. CASE Crash
  <2>1. drafts' = drafts /\ saved' = saved /\ req' = [a \in Actor |-> Idle]
    BY <1>3 DEF Crash, drafted
  <2>2. \A a \in Actor : ~At(a, "saving")'
    BY <2>1, IdleTypes DEF At
  <2> QED BY <1>2, <2>1, <2>2
<1>4. ASSUME NEW a \in Actor, SaveDraftFlush(a)
      PROVE  /\ \A x \in Actor : ~At(x, "saving")'
             /\ Matching(drafts', saved')
  <2> DEFINE r == req[a]
             k == <<r.ver, r.course>>
  <2>1. /\ At(a, "saving") /\ Found(r) /\ a \in Caller
        /\ r.ver \in Version /\ r.course \in Context /\ r.answers \in Answers
    BY <1>0, <1>2, <1>4 DEF SaveDraftFlush, TypeInv, ReqInv, WellFormed, At, ReqRecord
  <2>2. \A x \in Actor : ~At(x, "saving")'
    <3>1. req' = [req EXCEPT ![a] = Idle]
      BY <1>4 DEF SaveDraftFlush, Done
    <3> QED BY <1>0, <1>2, <2>1, <3>1, IdleTypes DEF At
  <2>3. /\ saved'[k] = r.answers
        /\ \A x \in Version \X Context : x # k => saved'[x] = saved[x]
    <3>1. saved' = [saved EXCEPT ![k] = r.answers] /\ k \in Version \X Context
      BY <1>4, <2>1 DEF SaveDraftFlush
    <3> QED BY <1>0, <3>1
  <2>4. CASE r.draft = 0
    <3> DEFINE row == [id |-> r.other, ver |-> r.ver, course |-> r.course,
                       answers |-> r.answers]
    <3>1. drafts' = drafts \cup {row}
      BY <1>4, <2>4 DEF SaveDraftFlush
    <3>2. row.ver = r.ver /\ row.course = r.course /\ row.answers = r.answers
      OBVIOUS
    <3>3. \A d \in drafts : ~(d.ver = r.ver /\ d.course = r.course)
      BY <2>1, <2>4 DEF Found, DraftsOf
    <3> HIDE DEF row
    <3>4. \A d \in drafts : /\ d.ver \in Version /\ d.course \in Context
                            /\ <<d.ver, d.course>> # k
      BY <1>0, <3>3 DEF DraftRecord
    <3> HIDE DEF r, k
    <3>5. \A d, e \in drafts' : d.ver = e.ver /\ d.course = e.course => d = e
      BY <1>2, <3>1, <3>2, <3>3 DEF Matching
    <3>6. \A d \in drafts' : d.answers = saved'[<<d.ver, d.course>>]
      BY <1>2, <2>3, <3>1, <3>2, <3>4 DEF Matching, k
    <3>7. ASSUME NEW v \in Version, NEW c \in Context, saved'[<<v, c>>] # None
          PROVE  \E d \in drafts' : d.ver = v /\ d.course = c
      <4>1. CASE <<v, c>> = k
        BY <3>1, <3>2, <4>1 DEF k
      <4>2. CASE <<v, c>> # k
        BY <1>2, <2>3, <3>1, <3>7, <4>2 DEF Matching
      <4> QED BY <4>1, <4>2
    <3> QED BY <2>2, <3>5, <3>6, <3>7 DEF Matching
  <2>5. CASE r.draft # 0
    <3>1. PICK d0 \in drafts : d0.id = r.draft /\ d0.ver = r.ver /\ r.course \in {d0.course, NoCourse}
      BY <2>1, <2>5 DEF Found, DraftsOf
    <3>2. d0.course = r.course
      BY <1>4, <3>1 DEF SaveDraftFlush
    <3> DEFINE new(d) == IF d.id = r.draft THEN [d EXCEPT !.answers = r.answers] ELSE d
    <3>3. drafts' = {new(d) : d \in drafts}
      BY <1>4, <2>5 DEF SaveDraftFlush
    <3>4. \A d \in drafts : d.id = r.draft <=> d = d0
      BY <1>0, <3>1
    <3>5. ASSUME NEW d \in drafts
          PROVE  /\ new(d).ver = d.ver /\ new(d).course = d.course
                 /\ new(d).answers = IF d = d0 THEN r.answers ELSE d.answers
      BY <1>0, <3>4 DEF DraftRecord
    <3>6. \A d \in drafts : /\ <<d.ver, d.course>> \in Version \X Context
                            /\ d # d0 => <<d.ver, d.course>> # k
      <4>1. \A d \in drafts : d # d0 => ~(d.ver = d0.ver /\ d.course = d0.course)
        BY <1>2 DEF Matching
      <4>2. \A d \in drafts : <<d.ver, d.course>> \in Version \X Context
        BY <1>0 DEF DraftRecord
      <4> QED BY <3>1, <3>2, <4>1, <4>2
    <3>7. <<d0.ver, d0.course>> = k
      BY <3>1, <3>2
    <3> HIDE DEF new, r, k
    <3>8. \A d, e \in drafts' : d.ver = e.ver /\ d.course = e.course => d = e
      BY <1>2, <3>3, <3>5 DEF Matching
    <3>9. ASSUME NEW x \in drafts' PROVE x.answers = saved'[<<x.ver, x.course>>]
      <4>1. PICK d \in drafts : x = new(d)
        BY <3>3
      <4>2. CASE d = d0
        BY <2>3, <3>5, <3>7, <4>1, <4>2
      <4>3. CASE d # d0
        BY <1>2, <2>3, <3>5, <3>6, <4>1, <4>3 DEF Matching
      <4> QED BY <4>2, <4>3
    <3>10. ASSUME NEW v \in Version, NEW c \in Context, saved'[<<v, c>>] # None
           PROVE  \E d \in drafts' : d.ver = v /\ d.course = c
      <4>1. \E d \in drafts : d.ver = v /\ d.course = c
        <5>1. CASE <<v, c>> = k
          BY <3>1, <3>7, <5>1
        <5>2. CASE <<v, c>> # k
          BY <1>2, <2>3, <3>10, <5>2 DEF Matching
        <5> QED BY <5>1, <5>2
      <4> QED BY <3>3, <3>5, <4>1
    <3> QED BY <2>2, <3>8, <3>9, <3>10 DEF Matching
  <2> QED BY <2>4, <2>5
<1>5. ASSUME NEW d \in drafts, DeleteDraft(d)
      PROVE  /\ \A x \in Actor : ~At(x, "saving")'
             /\ Matching(drafts', saved')
  <2> DEFINE k == <<d.ver, d.course>>
  <2>1. /\ drafts' = drafts \ {d} /\ saved' = [saved EXCEPT ![k] = None] /\ req' = req
        /\ ~(\E a \in Caller : At(a, "saving"))
    BY <1>5 DEF DeleteDraft
  <2>2. \A x \in Actor : ~At(x, "saving")'
    BY <1>0, <2>1 DEF At
  <2>3. k \in Version \X Context
    BY <1>0 DEF DraftRecord
  <2>4. saved'[k] = None /\ \A x \in Version \X Context : x # k => saved'[x] = saved[x]
    BY <1>0, <2>1, <2>3
  <2>5. \A e \in drafts' : e \in drafts /\ <<e.ver, e.course>> \in Version \X Context
                           /\ <<e.ver, e.course>> # k
    BY <1>0, <1>2, <2>1 DEF DraftRecord, Matching
  <2>6. \A e \in drafts' : e.answers = saved'[<<e.ver, e.course>>]
    BY <1>2, <2>4, <2>5 DEF Matching
  <2>7. ASSUME NEW v \in Version, NEW c \in Context, saved'[<<v, c>>] # None
        PROVE  \E e \in drafts' : e.ver = v /\ e.course = c
    <3>1. <<v, c>> # k
      BY <2>4, <2>7
    <3>2. PICK e \in drafts : e.ver = v /\ e.course = c
      BY <1>2, <2>4, <2>7, <3>1 DEF Matching
    <3>3. e # d
      BY <3>1, <3>2
    <3> QED BY <2>1, <3>2, <3>3
  <2> QED BY <1>2, <2>1, <2>2, <2>6, <2>7 DEF Matching
<1>6. CASE ~Crash /\ drafts' = drafts /\ saved' = saved /\ \A a \in Actor : ~SaveDraftFlush(a)
  <2>1. ASSUME NEW a \in Actor, At(a, "saving")'
        PROVE  \/ req'[a] = req[a]
               \/ Begins(a, req'[a]) /\ req'[a].pc = "saving"
    <3>1. ~Moves(a, req'[a])
      BY <2>1, IdleTypes DEF Moves, At
    <3>2. a \in Caller
      BY <1>0, <2>1
    <3> QED BY <1>6, <2>1, <3>1, <3>2, CallerMoves DEF At
  <2>2. \A a \in Actor : At(a, "saving")' => Found(req[a])'
    <3>1. ASSUME NEW a \in Actor, At(a, "saving")', req'[a] = req[a] PROVE Found(req[a])'
      BY <1>2, <1>6, <3>1 DEF At, Found, DraftsOf
    <3>2. ASSUME NEW a \in Actor, Begins(a, req'[a]), req'[a].pc = "saving" PROVE Found(req[a])'
      <4>1. Found(req'[a])
        BY <3>2 DEF Begins, Starts
      <4> QED BY <1>6, <4>1 DEF Found, DraftsOf
    <3> QED BY <2>1, <3>1, <3>2
  <2>3. ASSUME NEW a \in Actor, Begins(a, req'[a]), req'[a].pc = "saving",
               NEW b \in Actor, b # a
        PROVE  ~At(b, "saving")'
    <3>1. req'[b] = req[b] /\ past' = past \cup Overlaps(a, "saving")
      BY <1>0, <2>3 DEF Begins, Begin
    <3>2. Kind("saving") = "saves"
      BY DEF Kind, Lifecycle
    <3>3. At(b, "saving") => "saves" \in Overlaps(a, "saving")
      BY <2>3, <3>2 DEF Overlaps, At
    <3> QED BY <3>1, <3>3 DEF At
  <2>4. \A a, b \in Actor : At(a, "saving")' /\ At(b, "saving")' => a = b
    <3> SUFFICES ASSUME NEW a \in Actor, NEW b \in Actor, At(a, "saving")', At(b, "saving")', a # b
                 PROVE  FALSE
      OBVIOUS
    <3>1. req'[a] = req[a] /\ req'[b] = req[b]
      BY <2>1, <2>3
    <3> QED BY <1>2, <3>1 DEF At
  <2> QED BY <1>2, <1>6, <2>2, <2>4
<1>7. \/ drafts' = drafts /\ saved' = saved
      \/ \E a \in Actor : SaveDraftFlush(a)
      \/ \E d \in drafts : DeleteDraft(d)
  <2>1. ASSUME NEW a \in Actor, Proceed(a)
        PROVE  SaveDraftFlush(a) \/ (drafts' = drafts /\ saved' = saved)
    BY <2>1, Frames DEF drafted
  <2>2. CASE ~(\E a \in Actor : Proceed(a))
    <3>1. UNCHANGED drafted => drafts' = drafts /\ saved' = saved
      BY DEF drafted
    <3> QED BY <2>2, <3>1, Surrounding
  <2> QED BY <2>1, <2>2
<1> QED BY <1>3, <1>4, <1>5, <1>6, <1>7

\* What was saved last is what is found, and nothing else is, unless saves
\* overlapped or a save without a course took the draft of a course.
THEOREM DraftIsKeptCorrect == Spec => []DraftIsKept
<1>1. Init => TypeInv /\ KeptInv
  <2> SUFFICES ASSUME Init PROVE KeptInv
    BY TypeStart
  <2>1. /\ drafts = {} /\ saved = [k \in Version \X Context |-> None]
        /\ \A a \in Actor : ~At(a, "saving")
    BY IdleTypes DEF Init, At
  <2>2. \A v \in Version, c \in Context : saved[v, c] = None
    BY <2>1
  <2> QED BY <2>1, <2>2 DEF KeptInv
<1>2. TypeInv /\ KeptInv /\ [Next]_vars => TypeInv' /\ KeptInv'
  BY TypeStep, KeptStep
<1>3. TypeInv /\ KeptInv => DraftIsKept
  <2> SUFFICES ASSUME TypeInv, KeptInv, {"saves", "courseless"} \cap past = {},
                      NEW v \in Version, NEW c \in Context
               PROVE  {d.answers : d \in GetDraft(v, c)} = {saved[v, c]} \ {None}
    BY DEF DraftIsKept
  <2>1. \A d \in drafts : d.answers # None
    BY DEF TypeInv, DraftsInv, DraftRecord
  <2>2. CASE saved[v, c] = None
    <3>1. ASSUME NEW d \in drafts, d.ver = v, d.course = c PROVE FALSE
      <4>1. d.answers = saved[d.ver, d.course]
        BY DEF KeptInv
      <4> QED BY <2>1, <2>2, <3>1, <4>1
    <3>2. GetDraft(v, c) = {}
      BY <3>1 DEF GetDraft
    <3> QED BY <2>2, <3>2
  <2>3. CASE saved[v, c] # None
    <3>0. \A w \in Version, x \in Context :
            saved[w, x] # None => \E d \in drafts : d.ver = w /\ d.course = x
      BY DEF KeptInv
    <3>1. PICK d \in drafts : d.ver = v /\ d.course = c
      BY <2>3, <3>0
    <3>2. GetDraft(v, c) = {d}
      <4>1. \A e \in drafts : e.ver = v /\ e.course = c => e = d
        BY <3>1 DEF KeptInv
      <4> QED BY <3>1, <4>1 DEF GetDraft
    <3>3. d.answers = saved[v, c]
      BY <3>1 DEF KeptInv
    <3> QED BY <2>3, <3>2, <3>3
  <2> QED BY <2>2, <2>3
<1> QED BY <1>1, <1>2, <1>3, PTL DEF Spec
-----------------------------------------------------------------------------
(* Ingestion.                                                              *)

SameFile == ing'.file = ing.file /\ ing'.ver = ing.ver /\ ing'.dry = ing.dry
SameReport ==
  ing'.result = ing.result /\ ing'.landed = ing.landed /\ ing'.timedOut = ing.timedOut

\* A step that leaves slots and report alone.
LEMMA QuietSlots ==
  ASSUME SlotsInv, ToldInv, SameFile, SameReport, ing'.next = ing.next,
         \A u \in Task : req'[u] = req[u]
  PROVE  SlotsInv' /\ ToldInv'
BY DEF SlotsInv, ToldInv, SlotInv, SameFile, SameReport, At

\* A step of one slot, which touches the report of its own record only.
LEMMA SlotWorks ==
  ASSUME TypeInv, TypeInv', SlotsInv, NEW t \in Task, ~At(t, "idle"),
         SameFile, ing'.next = ing.next,
         \A j \in Record : j # req[t].record =>
           /\ ing'.result[j] = ing.result[j]
           /\ j \in ing'.landed <=> j \in ing.landed
           /\ j \in ing'.timedOut <=> j \in ing.timedOut,
         \A u \in Task : u # t => req'[u] = req[u],
         At(t, "idle")' \/ (SlotInv(req[t])' /\ req'[t].record = req[t].record)
  PROVE  SlotsInv'
<1> DEFINE i == req[t].record
<1>0. /\ SlotInv(req[t]) /\ i \in 1..Len(ing.file) /\ i < ing.next
      /\ Len(ing.file) \in 0..MaxFile /\ i \in Record /\ ing.next \in Nat
      /\ ing'.landed \subseteq Record
  <2>1. SlotInv(req[t])
    BY DEF SlotsInv
  <2>2. ing'.landed \subseteq Record
    BY DEF TypeInv, IngRecord
  <2> QED BY <2>1, <2>2, IngFile DEF SlotInv, Record
<1>1. ASSUME NEW u \in Task, u # t, ~At(u, "idle")'
      PROVE  SlotInv(req[u])' /\ req'[u].record = req[u].record /\ ~At(u, "idle")
             /\ req[u].record # i
  <2>1. req'[u] = req[u] /\ ~At(u, "idle")
    BY <1>1 DEF At
  <2>2. SlotInv(req[u]) /\ req[u].record # i
    BY <1>1, <2>1 DEF SlotsInv
  <2>3. req[u].record \in Record
    BY <1>0, <2>2 DEF SlotInv, Record
  <2> QED BY <2>1, <2>2, <2>3 DEF SlotInv, SameFile
<1>2. \A u \in Task : ~At(u, "idle")' => SlotInv(req[u])'
  BY <1>1
<1>3. \A u, w \in Task :
        ~At(u, "idle")' /\ ~At(w, "idle")' /\ req'[u].record = req'[w].record => u = w
  BY <1>1 DEF SlotsInv
<1>4. \A j \in Record : j >= ing'.next =>
        j \notin ing'.landed /\ j \notin ing'.timedOut /\ ing'.result[j] = None
  BY <1>0 DEF SlotsInv, Record
<1>5. ing'.landed \subseteq 1..Len(ing'.file)
  BY <1>0 DEF SlotsInv, SameFile
<1> QED BY <1>2, <1>3, <1>4, <1>5 DEF SlotsInv

\* What has landed stays a row.
LEMMA FilledStays ==
  ASSUME TypeInv, FilledInv, [Next]_vars, ing'.file = ing.file, ing'.ver = ing.ver,
         ing'.landed \subseteq ing.landed
  PROVE  FilledInv'
<1> SUFFICES ASSUME {"wipe", "cutWipe"} \cap past' = {}
             PROVE  /\ \A i \in ing'.landed : Duplicate(ing.ver, ing.file[i])'
                    /\ \A i, j \in ing'.landed : ing'.file[i] = ing'.file[j] => i = j
  BY DEF FilledInv
<1>1. {"wipe", "cutWipe"} \cap past = {} /\ "wipe" \notin past'
  BY PastGrows
<1>2. ASSUME NEW i \in ing'.landed PROVE Duplicate(ing.ver, ing.file[i])'
  <2>1. Duplicate(ing.ver, ing.file[i])
    BY <1>1 DEF FilledInv
  <2>2. \A v, c : Duplicate(v, c) => Duplicate(v, c)'
    BY <1>1, RowsStay
  <2>3. Duplicate(ing'.ver, ing'.file[i]) <=> Duplicate(ing.ver, ing.file[i])
    OBVIOUS
  <2> QED BY <2>1, <2>2 DEF Duplicate
<1> QED BY <1>1, <1>2 DEF FilledInv

\* The slot's own record, before and after.
LEMMA OwnRecord ==
  ASSUME TypeInv, SlotsInv, NEW t \in Task, ~At(t, "idle")
  PROVE  /\ t \in Actor /\ SlotInv(req[t]) /\ req[t].record \in Record /\ req[t].record # 0
         /\ req[t].late \in BOOLEAN
         /\ ing.file[req[t].record] \in Course
<1>1. SlotInv(req[t]) /\ req[t] \in ReqRecord /\ t \in Actor
  BY DEF SlotsInv, TypeInv, ReqInv, Actor
<1>2. req[t].record \in 1..Len(ing.file)
  BY <1>1 DEF SlotInv
<1> QED BY <1>1, <1>2, IngFile DEF ReqRecord, Record

\* What a report becomes when a record ends.
LEMMA Reported ==
  ASSUME TypeInv, SlotsInv, NEW t \in Task, ~At(t, "idle"), NEW e \in {"success", "failure"},
         ing'.result = Report(t, e)
  PROVE  /\ \A j \in Record : j # req[t].record => ing'.result[j] = ing.result[j]
         /\ ing'.result[req[t].record] = IF req[t].late THEN "failure" ELSE e
BY OwnRecord, IngFile DEF Report, SlotInv
LEMMA IngInvStep ==
  ASSUME TypeInv, TypeInv', IngInv, [Next]_vars
  PROVE  IngInv'
<1>0. /\ SlotsInv /\ ToldInv /\ FilledInv
      /\ ing \in IngRecord /\ req \in [Actor -> ReqRecord]
      /\ Task \subseteq Actor /\ Caller \subseteq Actor /\ Actor = Caller \cup Task
      /\ Caller \cap Task = {}
  BY DEF IngInv, TypeInv, ReqInv, Actor
<1>00. /\ None \notin {"success", "failure"}
       /\ ing.result \in [Record -> {None, "success", "failure"}]
       /\ Len(ing.file) \in 0..MaxFile /\ ing.next \in 1..MaxFile + 1
       /\ ing.landed \subseteq Record /\ ing.timedOut \subseteq Record
  BY IngFile
<1>1. ASSUME SameFile, SameReport, ing'.next = ing.next, \A u \in Task : req'[u] = req[u]
      PROVE  IngInv'
  <2>1. SlotsInv' /\ ToldInv'
    BY <1>0, <1>1, QuietSlots
  <2>2. FilledInv'
    BY <1>0, <1>1, FilledStays DEF SameFile, SameReport
  <2> QED BY <2>1, <2>2 DEF IngInv
<1>2. CASE ing' = ing /\ \A u \in Task : req'[u] = req[u]
  BY <1>1, <1>2 DEF SameFile, SameReport
<1>3. ASSUME NEW a \in Caller, Ask(a) PROVE IngInv'
  <2>1. PICK r \in ReqRecord : Begin(a, r)
    BY <1>3, AskBegins DEF Begins
  <2> QED BY <1>0, <1>2, <2>1 DEF Begin
<1>4. CASE \/ UNCHANGED vars \/ TypeCreate \/ Expire
           \/ \E i \in Sub : Embed(i)
           \/ \E d \in drafts : DeleteDraft(d)
  BY <1>2, <1>4 DEF vars, TypeCreate, Expire, Embed, DeleteDraft
\* Requests of users report nothing.
<1>5. ASSUME NEW a \in Caller, Proceed(a) PROVE IngInv'
  <2>1. /\ a \in Actor /\ req[a].record = 0
        /\ \A u \in Task : req'[u] = req[u]
    BY <1>0, <1>5, Moved DEF TypeInv, ReqInv, WellFormed
  <2>2. ing.landed \cup ({req[a].record} \cap Record) = ing.landed
    BY <2>1 DEF Record
  <2>3. \A e : Report(a, e) = ing.result
    BY <2>1 DEF Report
  <2>4. \/ ing' = ing
        \/ ing' = [ing EXCEPT !.result = ing.result]
        \/ ing' = [ing EXCEPT !.landed = ing.landed]
    <3>1. CASE SubmitFlush(a)
      BY <2>2, <2>3, <3>1 DEF SubmitFlush
    <3>2. CASE SubmitDry(a) \/ SubmitEnqueue(a)
      BY <2>3, <3>2 DEF SubmitDry, SubmitEnqueue
    <3> QED BY <1>5, <2>1, <3>1, <3>2, Frames
  <2>5. SameFile /\ SameReport /\ ing'.next = ing.next
    BY <1>0, <2>4 DEF IngRecord, SameFile, SameReport
  <2> QED BY <1>1, <2>1, <2>5
<1>6. ASSUME NEW t \in Task, ~At(t, "idle"),
             \A u \in Task : u # t => req'[u] = req[u],
             At(t, "idle")' \/ (SlotInv(req[t])' /\ req'[t].record = req[t].record),
             SameFile, ing'.next = ing.next, ing'.landed = ing.landed, ing'.timedOut = ing.timedOut,
             \A j \in Record : j # req[t].record => ing'.result[j] = ing.result[j],
             ing'.result[req[t].record] = "success" => ing.dry \/ req[t].record \in ing.landed,
             ing'.result[req[t].record] = "failure" /\ req[t].record \in ing.landed =>
               req[t].record \in ing.timedOut
      PROVE  IngInv'
  <2>1. SlotsInv'
    BY <1>0, <1>6, SlotWorks
  <2>2. ToldInv'
    BY <1>0, <1>6 DEF ToldInv, SameFile
  <2>3. FilledInv'
    BY <1>0, <1>6, FilledStays DEF SameFile
  <2> QED BY <2>1, <2>2, <2>3 DEF IngInv
<1>7. ASSUME NEW t \in Task, SubmitInvalidate(t) PROVE IngInv'
  <2>1. /\ At(t, "submitted") /\ ing' = ing
        /\ req' = [req EXCEPT ![t] = [req[t] EXCEPT !.pc = "embedding"]]
    BY <1>0, <1>7 DEF SubmitInvalidate, Goto
  <2>2. /\ req'[t].pc = "embedding" /\ req'[t].record = req[t].record /\ req'[t].late = req[t].late
        /\ \A u \in Task : u # t => req'[u] = req[u]
    BY <1>0, <2>1 DEF ReqRecord
  <2>3. ~At(t, "idle") /\ SlotInv(req[t])
    BY <1>0, <2>1, OwnRecord DEF At
  <2>4. SlotInv(req[t])'
    BY <2>1, <2>2, <2>3 DEF SlotInv, At
  <2> QED BY <1>0, <1>6, <2>1, <2>2, <2>3, <2>4, OwnRecord DEF SameFile, ToldInv
<1>8. ASSUME NEW t \in Task, LateFails(t) PROVE IngInv'
  <2>1. At(t, "submitting") /\ ing' = ing /\ req' = [req EXCEPT ![t] = Idle]
    BY <1>8 DEF LateFails, Only, Done
  <2>2. ~At(t, "idle") /\ At(t, "idle")' /\ \A u \in Task : u # t => req'[u] = req[u]
    BY <1>0, <2>1, IdleTypes DEF At
  <2> QED BY <1>0, <1>6, <2>1, <2>2, OwnRecord DEF SameFile, ToldInv
<1>9. ASSUME NEW t \in Task, SubmitEnqueue(t) \/ SubmitDry(t) PROVE IngInv'
  <2>1. /\ ~At(t, "idle") /\ req' = [req EXCEPT ![t] = Idle]
        /\ \E e \in {"success", "failure"} :
             /\ ing' = [ing EXCEPT !.result = Report(t, e)]
             /\ ing.dry \/ (e = "success" /\ At(t, "embedding"))
    BY <1>9 DEF SubmitEnqueue, SubmitDry, At, Done
  <2>2. PICK e \in {"success", "failure"} :
          /\ ing' = [ing EXCEPT !.result = Report(t, e)]
          /\ ing.dry \/ (e = "success" /\ At(t, "embedding"))
    BY <2>1
  <2>3. At(t, "idle")' /\ \A u \in Task : u # t => req'[u] = req[u]
    BY <1>0, <2>1, IdleTypes DEF At
  <2>4. /\ SameFile /\ ing'.next = ing.next /\ ing'.landed = ing.landed
        /\ ing'.timedOut = ing.timedOut /\ ing'.result = Report(t, e)
    BY <1>0, <2>2 DEF IngRecord, SameFile
  <2>5. /\ \A j \in Record : j # req[t].record => ing'.result[j] = ing.result[j]
        /\ ing'.result[req[t].record] = IF req[t].late THEN "failure" ELSE e
    BY <1>0, <2>1, <2>4, Reported
  <2>6. SlotInv(req[t])
    BY <1>0, <2>1, OwnRecord
  <2>7. /\ ing'.result[req[t].record] = "success" => ing.dry \/ req[t].record \in ing.landed
        /\ ing'.result[req[t].record] = "failure" /\ req[t].record \in ing.landed =>
             req[t].record \in ing.timedOut
    BY <1>0, <2>2, <2>5, <2>6 DEF SlotInv, At, ToldInv
  <2> QED BY <1>6, <2>1, <2>3, <2>4, <2>5, <2>7
\* A submission refused by the unique constraint.
<1>10. ASSUME NEW t \in Task, SubmitFlush(t), ~RowFree(req[t].ver, req[t].course) PROVE IngInv'
  <2>1. /\ At(t, "submitting") /\ ~At(t, "idle") /\ req' = [req EXCEPT ![t] = Idle]
        /\ ing' = [ing EXCEPT !.result = Report(t, "failure")]
    BY <1>10 DEF SubmitFlush, At, Done
  <2>3. At(t, "idle")' /\ \A u \in Task : u # t => req'[u] = req[u]
    BY <1>0, <2>1, IdleTypes DEF At
  <2>4. /\ SameFile /\ ing'.next = ing.next /\ ing'.landed = ing.landed
        /\ ing'.timedOut = ing.timedOut /\ ing'.result = Report(t, "failure")
    BY <1>0, <2>1 DEF IngRecord, SameFile
  <2>5. /\ \A j \in Record : j # req[t].record => ing'.result[j] = ing.result[j]
        /\ ing'.result[req[t].record] = "failure"
    BY <1>0, <2>1, <2>4, Reported
  <2>6. req[t].record \notin ing.landed
    BY <1>0, <2>1, OwnRecord DEF SlotInv, At
  <2> QED BY <1>6, <2>1, <2>3, <2>4, <2>5, <2>6
\* A submission that lands.
<1>11. ASSUME NEW t \in Task, SubmitFlush(t), RowFree(req[t].ver, req[t].course) PROVE IngInv'
  <2> DEFINE i == req[t].record
  <2>0. At(t, "submitting") /\ ~At(t, "idle")
    BY <1>11 DEF SubmitFlush, At
  <2>1. /\ SlotInv(req[t]) /\ i \in Record /\ i # 0 /\ req[t].late \in BOOLEAN
        /\ ing.file[i] \in Course
    BY <1>0, <2>0, OwnRecord
  <2>2. /\ ~ing.dry /\ subs' = subs \cup {NewRow(req[t])}
        /\ ing' = [ing EXCEPT !.landed = ing.landed \cup ({i} \cap Record)]
        /\ req' = [req EXCEPT ![t] = [req[t] EXCEPT !.pc = "submitted", !.ids = {nsubs + 1}]]
        /\ past' = past
    BY <1>0, <1>11, <2>1 DEF SubmitFlush, NewRow
  <2>3. /\ req'[t].pc = "submitted" /\ req'[t].record = i /\ req'[t].late = req[t].late
        /\ \A u \in Task : u # t => req'[u] = req[u]
    BY <1>0, <2>2 DEF ReqRecord
  <2>4. /\ SameFile /\ ing'.next = ing.next /\ ing'.landed = ing.landed \cup {i}
        /\ ing'.timedOut = ing.timedOut /\ ing'.result = ing.result
    BY <1>0, <2>1, <2>2 DEF IngRecord, SameFile
  <2>5. SlotInv(req[t])'
    BY <2>1, <2>3, <2>4 DEF SlotInv, SameFile
  <2>6. SlotsInv'
    BY <1>0, <2>0, <2>3, <2>4, <2>5, SlotWorks
  <2>7. ToldInv'
    BY <1>0, <1>00, <2>1, <2>2, <2>4 DEF ToldInv, SlotInv, SameFile
  <2>8. FilledInv'
    <3> SUFFICES ASSUME {"wipe", "cutWipe"} \cap past = {}
                 PROVE  /\ \A j \in ing'.landed : Duplicate(ing.ver, ing.file[j])'
                        /\ \A j, k \in ing'.landed : ing'.file[j] = ing'.file[k] => j = k
      BY <2>2 DEF FilledInv
    <3>1. req[t].ver = ing.ver /\ req[t].course = ing.file[i] /\ i \notin ing.landed
      BY <2>0, <2>1 DEF SlotInv, At
    <3>2. ~Duplicate(ing.ver, ing.file[i])
      BY <1>11, <2>1, <3>1 DEF RowFree
    <3>3. ASSUME NEW j \in ing.landed
          PROVE Duplicate(ing.ver, ing.file[j])' /\ ing.file[j] # ing.file[i]
      <4>1. Duplicate(ing.ver, ing.file[j])
        BY <1>0 DEF FilledInv
      <4> QED BY <2>2, <2>4, <3>2, <4>1 DEF Duplicate, SameFile
    <3>4. Duplicate(ing.ver, ing.file[i])'
      BY <2>2, <2>4, <3>1, NewRowFields DEF Duplicate, SameFile
    <3>5. \A j, k \in ing'.landed : ing'.file[j] = ing'.file[k] => j = k
      BY <1>0, <2>4, <3>3 DEF SameFile, FilledInv
    <3>6. ASSUME NEW j \in ing'.landed PROVE Duplicate(ing.ver, ing.file[j])'
      <4>1. j = i \/ j \in ing.landed
        BY <2>4
      <4> QED BY <2>3, <3>3, <3>4, <4>1
    <3> QED BY <3>5, <3>6
  <2> QED BY <2>6, <2>7, <2>8 DEF IngInv
<1>12. ASSUME NEW t \in Task, TimeOut(t) PROVE IngInv'
  <2> DEFINE i == req[t].record
  <2>1. /\ ~At(t, "idle") /\ ~req[t].late
        /\ ing' = [ing EXCEPT !.result = Report(t, "failure"), !.timedOut = ing.timedOut \cup {i}]
        /\ req' = [req EXCEPT ![t] = [req[t] EXCEPT !.late = TRUE]]
    BY <1>0, <1>12 DEF TimeOut
  <2>2. SlotInv(req[t]) /\ i \in Record
    BY <1>0, <2>1, OwnRecord
  <2>3. /\ req'[t].pc = req[t].pc /\ req'[t].record = i /\ req'[t].late = TRUE
        /\ req'[t].ver = req[t].ver /\ req'[t].course = req[t].course
        /\ \A u \in Task : u # t => req'[u] = req[u]
    BY <1>0, <2>1 DEF ReqRecord
  <2>4. /\ SameFile /\ ing'.next = ing.next /\ ing'.landed = ing.landed
        /\ ing'.timedOut = ing.timedOut \cup {i} /\ ing'.result = Report(t, "failure")
    BY <1>0, <2>1 DEF IngRecord, SameFile
  <2>5. /\ \A j \in Record : j # i => ing'.result[j] = ing.result[j]
        /\ ing'.result[i] = "failure"
    BY <1>0, <2>1, <2>4, Reported
  <2>6. SlotInv(req[t])'
    BY <2>2, <2>3, <2>4, <2>5 DEF SlotInv, SameFile
  <2>7. SlotsInv'
    BY <1>0, <2>1, <2>2, <2>3, <2>4, <2>5, <2>6, SlotWorks
  <2>8. ToldInv'
    BY <1>0, <2>4, <2>5 DEF ToldInv, SameFile
  <2>9. FilledInv'
    BY <1>0, <2>4, FilledStays DEF SameFile
  <2> QED BY <2>7, <2>8, <2>9 DEF IngInv
\* A record is taken: by a submission that begins, or refused at once.
<1>13. ASSUME NEW t \in Task, TakeRecord(t) PROVE IngInv'
  <2> DEFINE i == ing.next
  <2>1. /\ At(t, "idle") /\ i \in 1..Len(ing.file) /\ i \in Record /\ ing.file[i] \in Course
        /\ i \notin ing.landed /\ i \notin ing.timedOut /\ ing.result[i] = None
    <3>1. At(t, "idle") /\ i <= Len(ing.file)
      BY <1>13 DEF TakeRecord
    <3>2. i \in 1..Len(ing.file) /\ i \in Record
      BY <1>00, <3>1 DEF Record
    <3> QED BY <1>0, <3>1, <3>2, IngFile DEF SlotsInv
  <2>2. ASSUME NEW u \in Task, ~At(u, "idle")
        PROVE  SlotInv(req[u]) /\ req[u].record \in Record /\ req[u].record < i
    BY <1>0, <2>2, OwnRecord DEF SlotInv
  <2>3. CASE Open(ing.ver) /\ ~Duplicate(ing.ver, ing.file[i])
    <3> DEFINE s == Submitting(ing.ver, ing.file[i])
               r == [Submitting(ing.ver, ing.file[i]) EXCEPT !.record = i]
    <3>1. req' = [req EXCEPT ![t] = r] /\ ing' = [ing EXCEPT !.next = i + 1]
      BY <1>13, <2>3 DEF TakeRecord
    <3>2. /\ r.pc = "submitting" /\ r.record = i /\ r.late = FALSE /\ r.ver = ing.ver
          /\ r.course = ing.file[i]
      BY DEF Submitting, Idle
    <3> HIDE DEF r
    <3>3. req'[t] = r /\ \A u \in Task : u # t => req'[u] = req[u]
      BY <1>0, <3>1
    <3>4. SameFile /\ SameReport /\ ing'.next = i + 1
      BY <1>0, <3>1 DEF IngRecord, SameFile, SameReport
    <3>5. SlotInv(req[t])'
      BY <1>00, <2>1, <3>2, <3>3, <3>4 DEF SlotInv, SameFile, SameReport
    <3>6. ASSUME NEW u \in Task, u # t, ~At(u, "idle")'
          PROVE  SlotInv(req[u])' /\ req'[u].record < i /\ req'[u] = req[u] /\ ~At(u, "idle")
      <4>1. req'[u] = req[u] /\ ~At(u, "idle")
        BY <3>3, <3>6 DEF At
      <4>2. SlotInv(req[u]) /\ req[u].record \in Record /\ req[u].record < i
        BY <2>2, <4>1
      <4> QED BY <1>00, <3>4, <4>1, <4>2 DEF SlotInv, SameFile, SameReport, Record
    <3>7. \A u, w \in Task :
            ~At(u, "idle")' /\ ~At(w, "idle")' /\ req'[u].record = req'[w].record => u = w
      <4>1. \A u \in Task : u # t /\ ~At(u, "idle")' => req'[u].record # req'[t].record
        BY <1>00, <3>2, <3>3, <3>6
      <4>2. ASSUME NEW u \in Task, NEW w \in Task, u # t, w # t, ~At(u, "idle")',
                   ~At(w, "idle")', req'[u].record = req'[w].record
            PROVE  u = w
        <5>1. /\ ~At(u, "idle") /\ ~At(w, "idle") /\ req[u].record = req[w].record
          BY <3>6, <4>2
        <5> QED BY <1>0, <5>1 DEF SlotsInv
      <4> QED BY <4>1, <4>2
    <3>8. \A j \in Record : j >= i + 1 =>
            j \notin ing.landed /\ j \notin ing.timedOut /\ ing.result[j] = None
      BY <1>0, <1>00 DEF SlotsInv, Record
    <3>9. SlotsInv'
      <4>1. \A u \in Task : ~At(u, "idle")' => SlotInv(req[u])'
        BY <3>5, <3>6
      <4>2. \A j \in Record : j >= ing'.next =>
              j \notin ing'.landed /\ j \notin ing'.timedOut /\ ing'.result[j] = None
        BY <3>4, <3>8 DEF SameReport
      <4>3. ing'.landed \subseteq 1..Len(ing'.file)
        BY <1>0, <3>4 DEF SlotsInv, SameFile, SameReport
      <4> QED BY <3>7, <4>1, <4>2, <4>3 DEF SlotsInv
    <3>10. ToldInv'
      BY <1>0, <3>4 DEF ToldInv, SameFile, SameReport
    <3>11. FilledInv'
      BY <1>0, <3>4, FilledStays DEF SameFile, SameReport
    <3> QED BY <3>9, <3>10, <3>11 DEF IngInv
  <2>4. CASE ~(Open(ing.ver) /\ ~Duplicate(ing.ver, ing.file[i]))
    <3> DEFINE f == [ing.result EXCEPT ![i] = "failure"]
    <3>1. req' = req /\ ing' = [ing EXCEPT !.next = i + 1, !.result = f]
      BY <1>0, <1>13, <2>4 DEF TakeRecord, IngRecord
    <3>2. /\ f[i] = "failure" /\ \A j \in Record : j # i => f[j] = ing.result[j]
      BY <1>00, <2>1
    <3> HIDE DEF f
    <3>3. /\ SameFile /\ ing'.next = i + 1 /\ ing'.result = f
          /\ ing'.landed = ing.landed /\ ing'.timedOut = ing.timedOut
      BY <1>0, <3>1 DEF IngRecord, SameFile
    <3>4. \A u \in Task : ~At(u, "idle")' => SlotInv(req[u])'
      <4>1. ASSUME NEW u \in Task, ~At(u, "idle")' PROVE SlotInv(req[u])'
        <5>1. req'[u] = req[u] /\ ~At(u, "idle")
          BY <3>1, <4>1 DEF At
        <5>2. SlotInv(req[u]) /\ req[u].record \in Record /\ req[u].record < i
          BY <2>2, <5>1
        <5>3. ing'.result[req[u].record] = ing.result[req[u].record]
          BY <1>00, <3>2, <3>3, <5>2
        <5> QED BY <1>00, <3>3, <5>1, <5>2, <5>3 DEF SlotInv, SameFile, Record
      <4> QED BY <4>1
    <3>5. \A u, w \in Task :
            ~At(u, "idle")' /\ ~At(w, "idle")' /\ req'[u].record = req'[w].record => u = w
      BY <1>0, <3>1 DEF SlotsInv, At
    <3>6. \A j \in Record : j >= ing'.next =>
            j \notin ing'.landed /\ j \notin ing'.timedOut /\ ing'.result[j] = None
      <4>1. ASSUME NEW j \in Record, j >= i + 1 PROVE j >= i /\ j # i
        BY <1>00, <4>1 DEF Record
      <4> QED BY <1>0, <3>2, <3>3, <4>1 DEF SlotsInv
    <3>7. SlotsInv'
      BY <1>0, <3>3, <3>4, <3>5, <3>6 DEF SlotsInv, SameFile
    <3>8. ToldInv'
      BY <1>0, <2>1, <3>2, <3>3 DEF ToldInv, SameFile
    <3>9. FilledInv'
      BY <1>0, <3>3, FilledStays DEF SameFile
    <3> QED BY <3>7, <3>8, <3>9 DEF IngInv
  <2> QED BY <2>3, <2>4
\* A new ingestion, or none after a restart.
<1>14. ASSUME ing'.result = [j \in Record |-> None], ing'.landed = {}, ing'.timedOut = {},
              \A u \in Task : At(u, "idle")'
       PROVE  IngInv'
  <2>1. \A j \in Record : ing'.result[j] = None
    BY <1>14
  <2>2. SlotsInv'
    BY <1>14, <2>1 DEF SlotsInv
  <2>3. ToldInv'
    BY <1>00, <1>14, <2>1 DEF ToldInv
  <2>4. FilledInv'
    BY <1>14 DEF FilledInv
  <2> QED BY <2>2, <2>3, <2>4 DEF IngInv
<1>15. ASSUME NEW v \in Version, NEW n \in Record, NEW dry \in BOOLEAN,
              NEW file \in [1..n -> Course], Ingest(v, file, dry)
       PROVE  IngInv'
  <2>1. /\ ing' = [NoIngestion EXCEPT !.ver = v, !.file = file, !.dry = dry]
        /\ req' = req /\ ~Working
    BY <1>15 DEF Ingest, Ended
  <2>2. \A u \in Task : At(u, "idle")'
    BY <2>1 DEF Working, At
  <2>3. ing'.result = [j \in Record |-> None] /\ ing'.landed = {} /\ ing'.timedOut = {}
    BY <2>1 DEF NoIngestion
  <2> QED BY <1>14, <2>2, <2>3
<1>16. CASE Crash
  <2>1. req' = [a \in Actor |-> Idle] /\ ing' = NoIngestion
    BY <1>16 DEF Crash
  <2>2. \A u \in Task : At(u, "idle")'
    BY <1>0, <2>1, IdleTypes DEF At
  <2>3. ing'.result = [j \in Record |-> None] /\ ing'.landed = {} /\ ing'.timedOut = {}
    BY <2>1 DEF NoIngestion
  <2> QED BY <1>14, <2>2, <2>3
<1>17. ASSUME NEW t \in Task, Proceed(t)
       PROVE  SubmitFlush(t) \/ SubmitDry(t) \/ SubmitInvalidate(t) \/ SubmitEnqueue(t)
  <2>1. req[t].pc \in {"idle", "submitting", "submitted", "embedding"}
    BY <1>0 DEF TypeInv, ReqInv, WellFormed
  <2> QED BY <1>0, <1>17, <2>1, Guarded DEF At
<1>18. ASSUME NEW a \in Actor, Proceed(a) PROVE IngInv'
  BY <1>0, <1>5, <1>7, <1>9, <1>10, <1>11, <1>17, <1>18
<1> QED BY <1>3, <1>4, <1>8, <1>12, <1>13, <1>15, <1>16, <1>18 DEF Next

\* An ingestion says what became of its records, however its submissions mix
\* with each other, with those of users, with time-outs and with wipes.
THEOREM IngestionReportsCorrect == Spec => []IngestionReports
<1>1. Init => TypeInv /\ RowsUnique /\ IngInv
  <2> SUFFICES ASSUME Init PROVE RowsUnique /\ IngInv
    BY TypeStart
  <2>1. /\ subs = {} /\ \A u \in Task : At(u, "idle")
        /\ ing = NoIngestion
    BY IdleTypes DEF Init, At, Actor
  <2>2. /\ ing.landed = {} /\ ing.timedOut = {}
        /\ \A j \in Record : ing.result[j] = None
    BY <2>1 DEF NoIngestion
  <2> QED BY <2>1, <2>2 DEF RowsUnique, IngInv, SlotsInv, ToldInv, FilledInv
<1>2. TypeInv /\ RowsUnique /\ IngInv /\ [Next]_vars => TypeInv' /\ RowsUnique' /\ IngInv'
  BY TypeStep, RowsStep, IngInvStep
<1>3. RowsUnique /\ IngInv => IngestionReports
  BY DEF RowsUnique, IngInv, ToldInv, FilledInv, IngestionReports
<1> QED BY <1>1, <1>2, <1>3, PTL DEF Spec
-----------------------------------------------------------------------------
(* The lifecycle of versions.                                              *)

\* What has been published keeps its content.
Steady ==
  \A v \in 1..nvers : vers[v].published =>
    vers'[v].published /\ vers'[v].schema = vers[v].schema

\* Each step of the lifecycle has its own guard.
LEMMA GuardedLife ==
  ASSUME NEW a \in Actor, Proceed(a), req[a].pc \in Lifecycle
  PROVE  LifeSteps(a) \/ (NextNumber(a) /\ At(a, "number"))
         \/ (PublishFind(a) /\ At(a, "publishing"))
<1>1. ~SubmitFlush(a) /\ ~SubmitDry(a) /\ ~SubmitInvalidate(a) /\ ~SubmitEnqueue(a)
  BY DEF SubmitFlush, SubmitDry, SubmitInvalidate, SubmitEnqueue, At, Lifecycle
<1>2. ~SaveDraftFlush(a) /\ ~WipeResults(a) /\ ~WipeAnswers(a) /\ ~WipeRows(a) /\ ~Store(a)
  BY DEF SaveDraftFlush, WipeResults, WipeAnswers, WipeRows, Store, At, Lifecycle
<1>3. NextNumber(a) => At(a, "number")
  BY DEF NextNumber
<1>4. PublishFind(a) => At(a, "publishing")
  BY DEF PublishFind
<1> QED BY <1>1, <1>2, <1>3, <1>4 DEF Proceed, LifeSteps

\* Who changes the lifecycle has read it, and leaves all else alone.
LEMMA LifeStepFrame ==
  ASSUME NEW a \in Actor, LifeSteps(a)
  PROVE  /\ req[a].pc \in Lifecycle \ {"number", "publishing"}
         /\ subs' = subs /\ past' = past
         /\ DeprecateFlush(a) \/ req' = [req EXCEPT ![a] = Idle]
<1>1. CASE TypeRemoveFlush(a) \/ CreateQuestionnaireFlush(a) \/ CreateVersionFlush(a)
           \/ PublishFlush(a)
  BY <1>1 DEF TypeRemoveFlush, CreateQuestionnaireFlush, CreateVersionFlush, PublishFlush,
    At, Lifecycle, Done, Only, landed
<1>2. CASE DeprecateFlush(a) \/ DeprecateQuestionnaire(a) \/ ArchiveFlush(a) \/ UpdateDraftFlush(a)
  BY <1>2 DEF DeprecateFlush, DeprecateQuestionnaire, ArchiveFlush, UpdateDraftFlush,
    At, Lifecycle, Done, Only, landed
<1> QED BY <1>1, <1>2 DEF LifeSteps

\* Where nobody else changes it, a step of the lifecycle keeps it in order.
LEMMA LinesKept ==
  ASSUME TypeInv, TypeInv', Alone, NEW a \in Actor, LifeSteps(a)
  PROVE  Lines' /\ Steady /\ Between' /\ (req'[a] = Idle \/ Relies(req[a])')
<1> DEFINE Goal == Lines' /\ Steady /\ Between' /\ (req'[a] = Idle \/ Relies(req[a])')
<1>0. /\ LifeInv /\ req \in [Actor -> ReqRecord] /\ WellFormed(a, req[a], nvers)
      /\ Lines /\ Between /\ Relies(req[a])
      /\ req[a].pc \in Lifecycle /\ past' = past
      /\ \A b \in Actor : req[b].pc \in Lifecycle => b = a
  BY LifeStepFrame DEF TypeInv, ReqInv, Alone
<1>00. nvers \in Nat /\ \A v \in 1..nvers : vers[v] \in VersionRecord
  BY <1>0 DEF LifeInv
<1>01. ASSUME ~DeprecateFlush(a) PROVE req'[a] = Idle
  BY <1>0, <1>01, LifeStepFrame
<1>02. ASSUME NEW b \in Actor, At(b, "deprecated") PROVE b = a /\ At(a, "deprecated")
  BY <1>0, <1>02 DEF At, Lifecycle
<1>1. CASE TypeRemoveFlush(a)
  <2>1. vers' = vers /\ nvers' = nvers /\ quest' = quest /\ quest = "none" /\ req'[a] = Idle
    BY <1>0, <1>1, LifeStepFrame DEF TypeRemoveFlush, Only, At, Relies, Done
  <2> QED BY <1>0, <2>1 DEF Lines, Steady, Between, Active, Drafted, LifeInv, Consistent
<1>2. CASE CreateQuestionnaireFlush(a)
  <2>1. /\ vers' = vers /\ nvers' = nvers /\ type' = type /\ type = "live" /\ req'[a] = Idle
        /\ quest' = IF quest = "none" THEN "DRAFT" ELSE quest
        /\ ~At(a, "deprecated")
    BY <1>0, <1>2 DEF CreateQuestionnaireFlush, Only, At, Relies, Done
  <2>2. Active' = Active /\ Drafted' = Drafted
    BY <2>1 DEF Active, Drafted
  <2>3. Active # {} => quest # "none"
    BY <1>0, <1>00 DEF Active, LifeInv
  <2>4. Lines' /\ Steady
    BY <1>0, <2>1, <2>2, <2>3 DEF Lines, Steady, Consistent
  <2>5. Between'
    BY <1>0, <1>02, <2>1, <2>2 DEF Between
  <2> QED BY <2>1, <2>4, <2>5
<1>3. CASE CreateVersionFlush(a)
  <2> DEFINE n == req[a].other + 1
             row == [number |-> n, status |-> "DRAFT", active |-> FALSE,
                     published |-> FALSE, schema |-> req[a].schema]
  <2>1. /\ type' = type /\ quest' = quest /\ req'[a] = Idle /\ Drafted = {} /\ ~At(a, "deprecated")
        /\ req[a].schema \in Schema
    BY <1>0, <1>3 DEF CreateVersionFlush, Only, At, Relies, Done, WellFormed
  <2>2. CASE ~(NumberFree(n) /\ nvers < MaxVersions)
    <3>1. vers' = vers /\ nvers' = nvers
      BY <1>3, <2>2 DEF CreateVersionFlush
    <3>2. Active' = Active /\ Drafted' = Drafted
      BY <3>1 DEF Active, Drafted
    <3> QED BY <1>0, <1>02, <2>1, <3>1, <3>2 DEF Lines, Steady, Between, Consistent
  <2>3. CASE NumberFree(n) /\ nvers < MaxVersions
    <3>1. nvers' = nvers + 1 /\ vers' = Append(vers, row)
      BY <1>3, <2>3 DEF CreateVersionFlush
    <3>2. /\ row.status = "DRAFT" /\ row.active = FALSE /\ row.published = FALSE
      OBVIOUS
    <3>3. vers \in Seq(VersionRecord) /\ Len(vers) = nvers
      BY <1>0 DEF LifeInv
    <3> HIDE DEF row
    <3>4. vers'[nvers + 1] = row /\ \A v \in 1..nvers : vers'[v] = vers[v]
      BY <1>00, <3>1, <3>3
    <3>5. Active' = Active
      <4>1. Active' = {v \in 1..(nvers + 1) : vers'[v].active}
        BY <3>1 DEF Active
      <4>2. ~vers'[nvers + 1].active
        BY <3>2, <3>4
      <4>3. \A v \in 1..(nvers + 1) : v = nvers + 1 \/ v \in 1..nvers
        BY <1>00
      <4>4. \A v \in 1..nvers : v \in 1..(nvers + 1) /\ vers'[v].active = vers[v].active
        BY <1>00, <3>4
      <4> QED BY <4>1, <4>2, <4>3, <4>4 DEF Active
    <3>6. Drafted' = {nvers + 1}
      BY <1>00, <2>1, <3>1, <3>2, <3>4 DEF Drafted
    <3>7. \A v \in 1..(nvers + 1) : Consistent(vers'[v])
      <4>1. Consistent(row)
        BY <3>2 DEF Consistent
      <4> QED BY <1>0, <1>00, <3>4, <4>1 DEF Lines
    <3>8. Lines'
      BY <1>0, <2>1, <3>1, <3>5, <3>6, <3>7 DEF Lines, Consistent
    <3> QED BY <1>0, <1>02, <2>1, <3>4, <3>5, <3>8 DEF Steady, Between
  <2> QED BY <2>2, <2>3
<1>4. CASE PublishFlush(a)
  <2> DEFINE v == req[a].ver
             w == req[a].other
  <2>1. /\ type' = type /\ nvers' = nvers /\ req'[a] = Idle /\ v \in 1..nvers
        /\ req[a].quest = quest /\ vers[v].schema \in Valid
        /\ quest' = IF req[a].quest = "ACTIVE" THEN quest ELSE "ACTIVE"
        /\ IF w = 0 THEN Active = {} ELSE w \in Active
    BY <1>0, <1>4 DEF PublishFlush, Only, At, Relies, Done, WellFormed
  <2>2. vers' = [u \in 1..nvers |->
          CASE u = v -> [vers[u] EXCEPT !.active = TRUE, !.status = "ACTIVE",
                                        !.published = TRUE]
            [] u = w /\ u # v -> [vers[u] EXCEPT !.active = FALSE,
                                                 !.status = "DEPRECATED"]
            [] OTHER -> vers[u]]
    BY <1>4 DEF PublishFlush
  <2>3. /\ vers'[v].active = TRUE /\ vers'[v].status = "ACTIVE" /\ vers'[v].published = TRUE
        /\ vers'[v].schema = vers[v].schema
    BY <1>00, <2>1, <2>2 DEF VersionRecord
  <2>4. ASSUME NEW u \in 1..nvers, u # v
        PROVE  /\ vers'[u].active = FALSE
               /\ vers'[u].status = vers[u].status \/ vers'[u].status = "DEPRECATED"
               /\ vers'[u].published = vers[u].published /\ vers'[u].schema = vers[u].schema
               /\ vers'[u].status # "ACTIVE"
    <3>0. vers[u] \in VersionRecord /\ Consistent(vers[u])
      BY <1>0, <1>00 DEF Lines
    <3>1. CASE u = w
      <4>1. vers'[u] = [vers[u] EXCEPT !.active = FALSE, !.status = "DEPRECATED"]
        BY <2>2, <2>4, <3>1
      <4> QED BY <3>0, <4>1 DEF VersionRecord
    <3>2. CASE u # w
      <4>1. vers'[u] = vers[u]
        BY <2>2, <2>4, <3>2
      <4>2. u \notin Active
        BY <1>0, <2>1, <3>2 DEF Lines
      <4>3. ~vers[u].active /\ vers[u].active \in BOOLEAN
        BY <3>0, <4>2 DEF Active, VersionRecord
      <4> QED BY <3>0, <4>1, <4>3 DEF Consistent
    <3> QED BY <3>1, <3>2
  <2> HIDE DEF v, w
  <2>5. Active' = {v}
    BY <2>1, <2>3, <2>4 DEF Active
  <2>6. \A u \in Drafted' : u \in Drafted
    BY <2>1, <2>3, <2>4 DEF Drafted
  <2>7. quest' = "ACTIVE" /\ type = "live"
    BY <1>0, <1>00, <2>1 DEF Lines, LifeInv
  <2>8. ASSUME NEW u \in 1..nvers PROVE Consistent(vers'[u])
    <3>1. CASE u = v
      BY <2>1, <2>3, <3>1 DEF Consistent, v
    <3>2. CASE u # v
      <4>1. Consistent(vers[u])
        BY <1>0 DEF Lines
      <4> QED BY <2>4, <3>2, <4>1 DEF Consistent
    <3> QED BY <3>1, <3>2
  <2>9. Lines'
    <3>1. \A x, y \in Drafted' : x = y
      BY <1>0, <2>6 DEF Lines
    <3>2. \A x, y \in Active' : x = y
      BY <2>5
    <3> QED BY <2>1, <2>7, <2>8, <3>1, <3>2 DEF Lines, Consistent
  <2>10. Steady
    BY <2>3, <2>4 DEF Steady
  <2> QED BY <2>1, <2>5, <2>9, <2>10 DEF Between
<1>5. CASE DeprecateFlush(a)
  <2> DEFINE v == req[a].ver
  <2>1. /\ type' = type /\ nvers' = nvers /\ quest' = quest /\ v \in 1..nvers
        /\ req[a].quest = quest /\ req[a].active = vers[v].active
    BY <1>0, <1>5 DEF DeprecateFlush, Only, At, Relies, WellFormed
  <2>2. vers' = [vers EXCEPT ![v] = [vers[v] EXCEPT !.status = "DEPRECATED",
                   !.active = IF req[a].active THEN FALSE ELSE vers[v].active]]
    BY <1>0, <1>5, <2>1 DEF DeprecateFlush, LifeInv
  <2>3. /\ vers'[v].active = FALSE /\ vers'[v].status = "DEPRECATED"
        /\ vers'[v].published = vers[v].published /\ vers'[v].schema = vers[v].schema
        /\ \A u \in 1..nvers : u # v => vers'[u] = vers[u]
    <3>1. /\ [vers[v] EXCEPT !.status = "DEPRECATED",
                   !.active = IF req[a].active THEN FALSE ELSE vers[v].active].active = FALSE
          /\ vers[v] \in VersionRecord /\ vers \in [1..nvers -> VersionRecord]
      BY <1>0, <1>00, <2>1 DEF VersionRecord, LifeInv
    <3> QED BY <2>1, <2>2, <3>1 DEF VersionRecord
  <2>4. req' = [req EXCEPT ![a] = IF Active \ {v} = {} THEN [req[a] EXCEPT !.pc = "deprecated"]
                                                       ELSE Idle]
    BY <1>0, <1>5 DEF DeprecateFlush, Goto, Done
  <2>5. IF Active \ {v} = {} THEN req'[a].pc = "deprecated" /\ req'[a].quest = req[a].quest
                             ELSE req'[a] = Idle
    BY <1>0, <2>4 DEF ReqRecord
  <2> HIDE DEF v
  <2>6. Active' = Active \ {v}
    BY <2>1, <2>3 DEF Active
  <2>7. \A u \in Drafted' : u \in Drafted
    BY <2>1, <2>3 DEF Drafted
  <2>8. quest # "none"
    BY <1>0, <1>00, <2>1 DEF LifeInv
  <2>9. ASSUME NEW u \in 1..nvers PROVE Consistent(vers'[u])
    <3>1. Consistent(vers[u])
      BY <1>0 DEF Lines
    <3> QED BY <2>3, <3>1 DEF Consistent
  <2>10. Lines'
    <3>1. \A x, y \in Drafted' : x = y
      BY <1>0, <2>7 DEF Lines
    <3>2. \A x, y \in Active' : x = y
      BY <1>0, <2>6 DEF Lines
    <3>3. Active' # {} => quest' \in {"ACTIVE", "ARCHIVED"}
      BY <1>0, <2>1, <2>6 DEF Lines
    <3> QED BY <1>0, <2>1, <2>9, <3>1, <3>2, <3>3 DEF Lines, Consistent
  <2>11. Steady
    BY <2>3 DEF Steady
  <2>12. Between'
    BY <2>5, <2>6 DEF Between, At
  <2>13. req'[a] = Idle \/ Relies(req[a])'
    BY <2>1, <2>5, <2>6, <2>8 DEF Relies
  <2> QED BY <2>10, <2>11, <2>12, <2>13
<1>6. CASE DeprecateQuestionnaire(a)
  <2>1. /\ vers' = vers /\ nvers' = nvers /\ type' = type /\ req'[a] = Idle
        /\ quest' = "DEPRECATED" /\ quest # "none" /\ Active = {}
    BY <1>0, <1>6 DEF DeprecateQuestionnaire, Only, At, Relies, Done
  <2>2. Active' = Active /\ Drafted' = Drafted
    BY <2>1 DEF Active, Drafted
  <2> QED BY <1>0, <2>1, <2>2 DEF Lines, Steady, Between, Consistent
<1>7. CASE ArchiveFlush(a)
  <2>1. /\ vers' = vers /\ nvers' = nvers /\ type' = type /\ req'[a] = Idle
        /\ quest' = "ARCHIVED" /\ quest # "none"
    BY <1>0, <1>7 DEF ArchiveFlush, Only, At, Relies, Done
  <2>2. Active' = Active /\ Drafted' = Drafted
    BY <2>1 DEF Active, Drafted
  <2> QED BY <1>0, <2>1, <2>2 DEF Lines, Steady, Between, Consistent
<1>8. CASE UpdateDraftFlush(a)
  <2> DEFINE v == req[a].ver
  <2>1. /\ type' = type /\ nvers' = nvers /\ quest' = quest /\ req'[a] = Idle
        /\ v \in Drafted /\ v \in 1..nvers /\ ~At(a, "deprecated")
        /\ vers' = [vers EXCEPT ![v] = [vers[v] EXCEPT !.schema = req[a].schema]]
    BY <1>0, <1>8 DEF UpdateDraftFlush, Only, At, Relies, Done, WellFormed, LifeInv
  <2>2. /\ vers'[v].active = vers[v].active /\ vers'[v].status = vers[v].status
        /\ vers'[v].published = vers[v].published
        /\ \A u \in 1..nvers : u # v => vers'[u] = vers[u]
    BY <1>0, <1>00, <2>1 DEF LifeInv, VersionRecord
  <2>3. ~vers[v].published /\ Consistent(vers[v])
    BY <1>0, <2>1 DEF Lines, Consistent, Drafted
  <2> HIDE DEF v
  <2>4. Active' = Active /\ Drafted' = Drafted
    BY <2>1, <2>2 DEF Active, Drafted
  <2>5. ASSUME NEW u \in 1..nvers PROVE Consistent(vers'[u])
    <3>1. Consistent(vers[u])
      BY <1>0 DEF Lines
    <3> QED BY <2>2, <2>3, <3>1 DEF Consistent
  <2>6. Lines'
    BY <1>0, <2>1, <2>4, <2>5 DEF Lines, Consistent
  <2>7. Steady
    BY <2>2, <2>3 DEF Steady
  <2>8. Between'
    BY <1>0, <1>02, <2>1, <2>4 DEF Between
  <2> QED BY <2>1, <2>6, <2>7, <2>8
<1> QED BY <1>1, <1>2, <1>3, <1>4, <1>5, <1>6, <1>7, <1>8 DEF LifeSteps
\* A submission under way has the content its version had when it was open.
LEMMA Submitters ==
  ASSUME TypeInv, TypeInv', [Next]_vars, ~Crash, NEW b \in Actor, At(b, "submitting")'
  PROVE  \/ At(b, "submitting") /\ req'[b].ver = req[b].ver /\ req'[b].schema = req[b].schema
         \/ /\ req'[b].ver \in 1..nvers /\ vers[req'[b].ver].active
            /\ req'[b].schema = vers[req'[b].ver].schema
<1>0. req \in [Actor -> ReqRecord]
  BY DEF TypeInv, ReqInv
<1>1. ~Moves(b, req'[b])
  BY IdleTypes DEF Moves, At
<1>2. CASE req'[b] = req[b]
  BY <1>2 DEF At
<1>3. CASE b \in Caller
  <2>1. Begins(b, req'[b]) => Starts(req'[b])
    BY DEF Begins
  <2>2. Starts(req'[b]) => /\ req'[b].ver \in 1..nvers /\ vers[req'[b].ver].active
                           /\ req'[b].schema = vers[req'[b].ver].schema
    BY DEF Starts, At
  <2> QED BY <1>1, <1>2, <1>3, <2>1, <2>2, CallerMoves
<1>4. ASSUME b \in Task, TakeRecord(b) \/ TimeOut(b) \/ LateFails(b), req'[b] # req[b]
      PROVE  \/ At(b, "submitting") /\ req'[b].ver = req[b].ver /\ req'[b].schema = req[b].schema
             \/ /\ req'[b].ver \in 1..nvers /\ vers[req'[b].ver].active
                /\ req'[b].schema = vers[req'[b].ver].schema
  <2>1. PICK r \in ReqRecord : req' = [req EXCEPT ![b] = r] /\ SlotMoves(b, r)
    BY <1>4, SlotTypes
  <2>2. req'[b] = r
    BY <1>0, <2>1
  <2>3. CASE r = Idle
    BY <2>2, <2>3, IdleTypes DEF At
  <2>4. CASE r = [Submitting(ing.ver, ing.file[ing.next]) EXCEPT !.record = ing.next]
             /\ Open(ing.ver)
    <3>1. r.ver = ing.ver /\ r.schema = vers[ing.ver].schema
      BY <2>4 DEF Submitting, Idle
    <3> QED BY <2>2, <2>4, <3>1 DEF Open
  <2>5. CASE r = [req[b] EXCEPT !.late = TRUE]
    <3>1. r.pc = req[b].pc /\ r.ver = req[b].ver /\ r.schema = req[b].schema
      BY <1>0, <2>5 DEF ReqRecord
    <3> QED BY <2>2, <3>1 DEF At
  <2> QED BY <2>1, <2>3, <2>4, <2>5 DEF SlotMoves
<1>5. ASSUME Proceed(b) PROVE Moves(b, req'[b])
  BY <1>0, <1>5, Moved
<1> QED BY <1>1, <1>2, <1>3, <1>4, <1>5, OneMoves DEF Actor

LEMMA CycleStep ==
  ASSUME TypeInv, TypeInv', CycleInv, [Next]_vars
  PROVE  CycleInv'
<1> SUFFICES ASSUME "lifecycle" \notin past' PROVE Alone'
  BY DEF CycleInv
<1>0. /\ LifeInv /\ req \in [Actor -> ReqRecord] /\ Actor = Caller \cup Task
      /\ Lines /\ Between /\ Contents
      /\ \A b \in Actor : Relies(req[b])
      /\ \A x, y \in Actor : req[x].pc \in Lifecycle /\ req[y].pc \in Lifecycle => x = y
      /\ past \subseteq past'
      /\ \A s \in subs : s \in SubRecord /\ s.ver \in 1..nvers
      /\ \A b \in Actor : WellFormed(b, req[b], nvers)
      /\ Alone
  <2>1. "lifecycle" \notin past /\ past \subseteq past'
    BY PastGrows
  <2>2. \A s \in subs : s \in SubRecord /\ s.ver \in 1..nvers
    <3>1. ASSUME NEW s \in subs PROVE s \in SubRecord /\ s.ver \in 1..nvers
      <4>1. s \in SubRecord /\ s.ver <= nvers /\ nvers \in Nat
        BY DEF TypeInv, SubsInv, LifeInv
      <4> QED BY <4>1 DEF SubRecord, Version
    <3> QED BY <3>1
  <2> QED BY <2>1, <2>2 DEF CycleInv, Alone, TypeInv, ReqInv, Actor
<1>1. \A r : r.pc \notin Lifecycle => Relies(r)
  BY DEF Relies, Lifecycle
<1>2. CASE Crash
  <2>1. /\ UNCHANGED lifecycle /\ subs' = subs /\ req' = [b \in Actor |-> Idle]
        /\ "restart" \in past'
    BY <1>2 DEF Crash, landed
  <2>2. \A b \in Actor : req'[b].pc = "idle"
    BY <2>1, IdleTypes
  <2>3. \A b \in Actor : req'[b].pc \notin Lifecycle /\ ~At(b, "submitting")'
    BY <2>2 DEF Lifecycle, At
  <2>4. Lines'
    BY <1>0, <2>1 DEF lifecycle, Lines, Active, Drafted, Consistent
  <2>5. Contents'
    BY <1>0, <2>1, <2>3 DEF lifecycle, Contents
  <2>6. \A b \in Actor : Relies(req[b])'
    BY <2>3 DEF Relies, Lifecycle
  <2> QED BY <2>1, <2>3, <2>4, <2>5, <2>6 DEF Alone, Between
<1>3. ASSUME NEW a \in Actor, LifeSteps(a) PROVE Alone'
  <2>1. /\ req[a].pc \in Lifecycle /\ subs' = subs
        /\ \A b \in Actor : req[b].pc \in Lifecycle => b = a
    BY <1>0, <1>3, LifeStepFrame
  <2>2. /\ \A b \in Actor : b # a => req'[b] = req[b]
        /\ req'[a] = Idle \/ req'[a].pc = "deprecated"
    <3>1. CASE req' = [req EXCEPT ![a] = Idle]
      BY <1>0, <3>1
    <3>2. CASE DeprecateFlush(a)
      <4>1. req' = [req EXCEPT ![a] = Idle]
            \/ req' = [req EXCEPT ![a] = [req[a] EXCEPT !.pc = "deprecated"]]
        BY <1>0, <3>2 DEF DeprecateFlush, Goto, Done
      <4> QED BY <1>0, <4>1 DEF ReqRecord
    <3> QED BY <1>3, <3>1, <3>2, LifeStepFrame
  <2>3. Lines' /\ Steady /\ Between' /\ (req'[a] = Idle \/ Relies(req[a])')
    BY <1>0, <1>3, LinesKept
  <2>4. \A b \in Actor : req'[b].pc \in Lifecycle => b = a
    BY <2>1, <2>2
  <2>5. ASSUME NEW b \in Actor PROVE Relies(req[b])'
    <3>1. CASE req'[b].pc \notin Lifecycle
      BY <3>1 DEF Relies, Lifecycle
    <3>2. CASE req'[b].pc \in Lifecycle
      <4>1. b = a
        BY <2>4, <3>2
      <4>2. req'[a] # Idle
        BY <3>2, <4>1, IdleTypes DEF Lifecycle
      <4> QED BY <2>3, <4>1, <4>2
    <3> QED BY <3>1, <3>2
  <2>6. \A s \in subs' : vers'[s.ver].published /\ s.schema = vers'[s.ver].schema
    BY <1>0, <2>1, <2>3 DEF Contents, Steady
  <2>7. ASSUME NEW b \in Actor, At(b, "submitting")'
        PROVE  vers'[req'[b].ver].published /\ req'[b].schema = vers'[req'[b].ver].schema
    <3>1. b # a /\ req'[b] = req[b]
      BY <2>2, <2>7, IdleTypes DEF At
    <3>2. At(b, "submitting") /\ req[b].ver \in 1..nvers
      BY <1>0, <2>7, <3>1 DEF At, WellFormed
    <3> QED BY <1>0, <2>3, <3>1, <3>2 DEF Contents, Steady
  <2>8. Contents'
    BY <2>6, <2>7 DEF Contents
  <2> QED BY <2>3, <2>4, <2>5, <2>8 DEF Alone
<1>4. CASE ~Crash /\ \A a \in Actor : ~LifeSteps(a)
  <2>1. /\ vers' = vers /\ nvers' = nvers /\ quest' = quest
        /\ type' = type \/ (type' = "live" /\ req' = req)
    <3>1. ASSUME NEW a \in Actor, Proceed(a) PROVE UNCHANGED lifecycle
      BY <1>4, <3>1, Frames
    <3>2. CASE ~(\E a \in Actor : Proceed(a))
      BY <3>2, Surrounding DEF TypeCreate, lifecycle
    <3> QED BY <3>1, <3>2 DEF lifecycle
  <2>2. Active' = Active /\ Drafted' = Drafted
    BY <2>1 DEF Active, Drafted
  <2>3. Lines'
    BY <1>0, <2>1, <2>2 DEF Lines, Consistent
  <2>4. ASSUME NEW b \in Actor, req'[b].pc \in Lifecycle
        PROVE  \/ req'[b] = req[b]
               \/ Begins(b, req'[b]) /\ type' = type
               \/ Moves(b, req'[b]) /\ req[b].pc \in {"number", "publishing"} /\ type' = type
    <3>1. b \in Caller
      BY <1>0, <2>4 DEF TypeInv, ReqInv, WellFormed, Lifecycle
    <3>2. CASE Proceed(b) /\ Moves(b, req'[b])
      <4>1. req[b].pc \in {"number", "publishing", "deprecating"}
        BY <2>4, <3>2, IdleTypes DEF Moves, Lifecycle
      <4>2. req[b].pc \in {"number", "publishing"}
        BY <1>4, <3>2, <4>1, GuardedLife DEF Lifecycle, At
      <4> QED BY <2>1, <3>2, <4>2
    <3> QED BY <1>4, <2>1, <3>1, <3>2, CallerMoves
  <2>5. ASSUME NEW b \in Actor PROVE Relies(req[b])'
    <3>1. CASE req'[b].pc \notin Lifecycle
      BY <3>1 DEF Relies, Lifecycle
    <3>2. CASE req'[b].pc \in Lifecycle /\ req'[b] = req[b]
      BY <1>0, <2>1, <2>2, <3>2 DEF Relies
    <3>3. CASE req'[b].pc \in Lifecycle /\ Begins(b, req'[b]) /\ type' = type
      <4>1. Starts(req'[b])
        BY <3>3 DEF Begins
      <4>2. Relies(req'[b])
        BY <3>3, <4>1 DEF Starts, Relies, Lifecycle
      <4> QED BY <2>1, <2>2, <3>3, <4>2 DEF Relies
    <3>4. CASE /\ req'[b].pc \in Lifecycle /\ Moves(b, req'[b]) /\ type' = type
               /\ req[b].pc \in {"number", "publishing"}
      <4>1. Relies(req[b])
        BY <1>0
      <4>2. Relies(req'[b])
        BY <3>4, <4>1, IdleTypes DEF Moves, Relies, Lifecycle
      <4> QED BY <2>1, <2>2, <3>4, <4>2 DEF Relies
    <3> QED BY <2>4, <3>1, <3>2, <3>3, <3>4
  <2>6. ASSUME NEW b \in Actor, NEW c \in Actor, b # c, Begins(b, req'[b]),
               req'[b].pc \in Lifecycle, req'[c].pc \in Lifecycle
        PROVE  FALSE
    <3>1. req'[c] = req[c] /\ past' = past \cup Overlaps(b, req'[b].pc)
      BY <1>0, <2>6 DEF Begins, Begin
    <3>2. Kind(req'[b].pc) = "lifecycle" /\ Kind(req[c].pc) = "lifecycle"
      BY <2>6, <3>1 DEF Kind, Lifecycle
    <3>3. "lifecycle" \in Overlaps(b, req'[b].pc)
      BY <2>6, <3>2 DEF Overlaps
    <3> QED BY <3>1, <3>3
  <2>7. ASSUME NEW b \in Actor, NEW c \in Actor, req'[b].pc \in Lifecycle, req'[c].pc \in Lifecycle,
               b # c
        PROVE  FALSE
    <3>1. req[b].pc \in Lifecycle /\ req[c].pc \in Lifecycle
      BY <2>4, <2>6, <2>7 DEF Lifecycle
    <3> QED BY <1>0, <2>7, <3>1
  <2>8. Between'
    <3>1. ASSUME NEW b \in Actor, At(b, "deprecated") PROVE At(b, "deprecated")'
      <4>1. ~Proceed(b)
        BY <1>4, <3>1, GuardedLife DEF At, Lifecycle
      <4> QED BY <1>4, <3>1, <4>1, StaysPut DEF At, LateFails
    <3> QED BY <1>0, <2>1, <2>2, <3>1 DEF Between
  <2>9. ASSUME NEW s \in subs' PROVE vers[s.ver].published /\ s.schema = vers[s.ver].schema
    <3>1. CASE s \in subs
      BY <1>0, <3>1 DEF Contents
    <3>2. ASSUME NEW x \in subs, s.ver = x.ver, s.schema = x.schema
          PROVE  vers[s.ver].published /\ s.schema = vers[s.ver].schema
      BY <1>0, <3>2 DEF Contents
    <3>3. ASSUME NEW a \in Actor, SubmitFlush(a), s = NewRow(req[a])
          PROVE  vers[s.ver].published /\ s.schema = vers[s.ver].schema
      BY <1>0, <3>3, NewRowFields DEF SubmitFlush, Contents
    <3>4. \/ s \in subs
          \/ \E x \in subs : s.ver = x.ver /\ s.schema = x.schema
          \/ \E a \in Actor : SubmitFlush(a) /\ s = NewRow(req[a])
      BY SubsShape
    <3> QED BY <3>1, <3>2, <3>3, <3>4
  <2>10. ASSUME NEW b \in Actor, At(b, "submitting")'
         PROVE  vers[req'[b].ver].published /\ req'[b].schema = vers[req'[b].ver].schema
    <3>1. CASE At(b, "submitting") /\ req'[b].ver = req[b].ver /\ req'[b].schema = req[b].schema
      BY <1>0, <3>1 DEF Contents
    <3>2. CASE /\ req'[b].ver \in 1..nvers /\ vers[req'[b].ver].active
               /\ req'[b].schema = vers[req'[b].ver].schema
      BY <1>0, <3>2 DEF Lines, Consistent
    <3> QED BY <1>4, <2>10, <3>1, <3>2, Submitters
  <2>11. Contents'
    BY <2>1, <2>9, <2>10 DEF Contents
  <2> QED BY <2>3, <2>5, <2>7, <2>8, <2>11 DEF Alone
<1> QED BY <1>2, <1>3, <1>4

\* A set that holds one number at most has one element at most.
LEMMA OneAtMost ==
  ASSUME NEW S, \A x, y \in S : x = y
  PROVE  Cardinality(S) <= 1
<1>1. CASE S = {}
  BY <1>1, FS_EmptySet
<1>2. ASSUME NEW x \in S PROVE Cardinality(S) <= 1
  <2>1. S = {x}
    BY <1>2
  <2>2. Cardinality({x}) = 1
    BY FS_Singleton
  <2> QED BY <2>1, <2>2
<1> QED BY <1>1, <1>2

\* The lifecycle of versions is in order as long as the requests that change it
\* come one after the other, whatever else goes on meanwhile.
THEOREM VersionLifecycleCorrect == Spec => []VersionLifecycle
<1>1. Init => TypeInv /\ CycleInv
  <2> SUFFICES ASSUME Init PROVE Alone
    BY TypeStart DEF CycleInv
  <2>1. subs = {} /\ \A b \in Actor : req[b] = Idle
    BY DEF Init
  <2>2. Idle.pc \notin Lifecycle /\ Idle.pc # "submitting"
    BY IdleTypes DEF Lifecycle
  <2>3. \A b \in Actor : Relies(req[b])
    BY <2>1, <2>2 DEF Relies, Lifecycle
  <2>4. Contents
    BY <2>1, <2>2 DEF Contents, At
  <2>5. Lines /\ Between
    <3>1. CASE type = "absent" /\ quest = "none" /\ vers = <<>> /\ nvers = 0
      BY <3>1 DEF Lines, Between, Active, Drafted
    <3>2. CASE /\ type = "live" /\ quest = "ACTIVE" /\ nvers = 1
               /\ \E s \in Valid :
                    vers = <<[number |-> 1, status |-> "ACTIVE", active |-> TRUE,
                              published |-> TRUE, schema |-> s]>>
      <4>1. PICK s \in Valid : vers = <<[number |-> 1, status |-> "ACTIVE", active |-> TRUE,
                                         published |-> TRUE, schema |-> s]>>
        BY <3>2
      <4>2. vers[1].active = TRUE /\ vers[1].status = "ACTIVE" /\ vers[1].published = TRUE
            /\ vers[1].schema \in Valid
        BY <4>1
      <4>3. Active = {1} /\ Drafted = {}
        BY <3>2, <4>2 DEF Active, Drafted
      <4>4. \A v \in 1..nvers : Consistent(vers[v])
        BY <3>2, <4>2 DEF Consistent
      <4> QED BY <3>2, <4>3, <4>4 DEF Lines, Between
    <3> QED BY <3>1, <3>2 DEF Init
  <2> QED BY <2>1, <2>2, <2>3, <2>4, <2>5 DEF Alone
<1>2. TypeInv /\ CycleInv /\ [Next]_vars => TypeInv' /\ CycleInv'
  BY TypeStep, CycleStep
<1>3. TypeInv /\ CycleInv => VersionLifecycle
  <2> SUFFICES ASSUME TypeInv, CycleInv PROVE VersionLifecycle
    OBVIOUS
  <2>1. \A v \in 1..nvers : vers[v].number = v
    BY DEF TypeInv, LifeInv
  <2> SUFFICES ASSUME "lifecycle" \notin past
               PROVE
       /\ Cardinality(Active) <= 1 /\ Cardinality(Drafted) <= 1
       /\ Active # {} => quest \in {"ACTIVE", "ARCHIVED"}
       /\ quest = "ACTIVE" /\ Active = {} => Changing \/ "restart" \in past
       /\ quest # "none" => type = "live"
       /\ \A v \in 1..nvers :
            /\ vers[v].active <=> vers[v].status = "ACTIVE"
            /\ vers[v].published => vers[v].schema \in Valid
       /\ \A s \in subs : s.schema = vers[s.ver].schema
    BY <2>1 DEF VersionLifecycle
  <2>2. Lines /\ Between /\ Contents
    BY DEF CycleInv, Alone
  <2>3. Cardinality(Active) <= 1 /\ Cardinality(Drafted) <= 1
    BY <2>2, OneAtMost DEF Lines
  <2>4. ASSUME NEW b \in Actor, At(b, "deprecated") PROVE Changing
    <3>1. b \in Caller
      BY <2>4 DEF TypeInv, ReqInv, WellFormed, At, Actor
    <3>2. Kind("deprecated") = "lifecycle"
      BY DEF Kind, Lifecycle
    <3> QED BY <2>4, <3>1, <3>2 DEF Changing, At
  <2> QED BY <2>2, <2>3, <2>4 DEF Lines, Between, Contents, Consistent
<1> QED BY <1>1, <1>2, <1>3, PTL DEF Spec


=============================================================================
