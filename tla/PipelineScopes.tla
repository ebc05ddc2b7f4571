--------------------------- MODULE PipelineScopes ---------------------------
(***************************************************************************)
(* Which pipelines exist: CreatePipeline and the partial unique index,     *)
(* GetPipelineStatus, ConfirmPipeline, CancelPipeline, and the weekly      *)
(* TieredPipelineSchedulerJob that creates and would confirm by itself.    *)
(* What a confirmed pipeline goes through is module AnalysisPipeline; here *)
(* it is RUNNING and then completes or fails.                              *)
(*                                                                         *)
(* Time is counted in submissions: submission i was created at time i, and *)
(* a pipeline that completes now completes at time nposted.                *)
(***************************************************************************)
EXTENDS Integers, FiniteSets, FiniteSetsExt

CONSTANTS
  FacultyScope,     \* scope ids of the FACULTY tier in the active semesters
  DepartmentScope,  \* ... of the DEPARTMENT tier
  CampusScope,      \* ... of the CAMPUS tier
  Version,          \* questionnaire versions a pipeline can be limited to
  AllVersions,      \* a pipeline without a questionnaire version
  Comment,          \* kinds of comments submissions come with
  Tier,             \* the tiers whose weekly run is modelled
  Caller,           \* users with an API request in progress
  MaxPosts,         \* bound on submissions
  MaxPipes,         \* bound on pipelines
  MaxRequests,      \* bound on API requests
  MaxFaults         \* bound on pipelines that fail and restarts

ScopesOf(t) ==
  CASE t = "FACULTY" -> FacultyScope
    [] t = "DEPARTMENT" -> DepartmentScope
    [] t = "CAMPUS" -> CampusScope

Scope == FacultyScope \cup DepartmentScope \cup CampusScope
Actor == Caller \cup Tier
Key   == Scope \X (Version \cup {AllVersions})
NoKey == <<>>
Pipe  == 1..MaxPipes
Time  == 0..MaxPosts

ASSUME ScopeAssumption ==
  /\ AllVersions \notin Version
  \* No comment; one the cleaning drops, so no cleanedComment; or a text.
  /\ Comment \subseteq {"none", "noise", "text"}
  /\ Tier \subseteq {"FACULTY", "DEPARTMENT", "CAMPUS"}
  /\ Caller \cap Tier = {}
  /\ MaxPosts \in Nat /\ MaxPipes \in Nat
  /\ MaxRequests \in Nat /\ MaxFaults \in Nat

VARIABLES
  subs,      \* questionnaire_submission rows by creation time
  nposted,   \* how many there are
  pipe,      \* analysis_pipeline rows
  npipes,    \* how many there are
  act,       \* requests and tier runs in progress
  running,   \* TieredPipelineSchedulerJob.running, in memory
  requests,  \* requests so far
  faults     \* confirmed pipelines that failed, and restarts

rows == <<pipe, npipes>>
posts == <<subs, nposted>>
bounds == <<requests, faults>>
vars == <<subs, nposted, pipe, npipes, act, running, requests, faults>>

\* A submission counts for one scope of every tier.
Footprint ==
  {S \in SUBSET Scope :
     \A t \in {"FACULTY", "DEPARTMENT", "CAMPUS"} : ScopesOf(t) # {} => Cardinality(S \cap ScopesOf(t)) = 1}

SubmissionRecord ==
  [comment : Comment, scopes : Footprint, version : Version]
NoSubmission == [comment |-> "none", scopes |-> {}, version |-> AllVersions]

Ended == {"COMPLETED", "FAILED", "CANCELLED"}

PipeRecord ==
  [key       : Key,
   status    : {"AWAITING_CONFIRMATION", "RUNNING"} \cup Ended,
   count     : Time,          \* commentCount
   noop      : BOOLEAN,       \* warnings hold insufficient_coverage_at_schedule_time
   confirmed : Time,          \* confirmedAt
   read      : SUBSET (1..MaxPosts),  \* what dispatchSentiment sent off
   doneAt    : Time]          \* completedAt
NoPipe ==
  [key |-> NoKey, status |-> "CANCELLED", count |-> 0, noop |-> FALSE,
   confirmed |-> 0, read |-> {}, doneAt |-> 0]

ActRecord ==
  [pc    : {"idle", "next", "find", "insert", "refetch",
            "complete", "confirm", "confirmed", "dispatch", "covered",
            "viewed", "cancelling"},
   key   : Key \cup {NoKey},
   pipe  : 0..MaxPipes,
   count : Time,
   todo  : SUBSET (Scope \X Time)]  \* the tier's list: scope, last completedAt
Idle == [pc |-> "idle", key |-> NoKey, pipe |-> 0, count |-> 0, todo |-> {}]

ScopesTypeOK ==
  /\ nposted \in Time /\ npipes \in 0..MaxPipes
  /\ \A i \in 1..MaxPosts :
       IF i <= nposted THEN subs[i] \in SubmissionRecord
                       ELSE subs[i] = NoSubmission
  /\ \A p \in Pipe :
       IF p <= npipes THEN pipe[p] \in PipeRecord ELSE pipe[p] = NoPipe
  /\ act \in [Actor -> ActRecord]
  /\ running \in [Tier -> BOOLEAN]
  /\ requests \in 0..MaxRequests /\ faults \in 0..MaxFaults

Init ==
  /\ subs = [i \in 1..MaxPosts |-> NoSubmission] /\ nposted = 0
  /\ pipe = [p \in Pipe |-> NoPipe] /\ npipes = 0
  /\ act = [a \in Actor |-> Idle]
  /\ running = [t \in Tier |-> FALSE]
  /\ requests = 0 /\ faults = 0

-----------------------------------------------------------------------------
(* Queries.                                                                *)

\* buildSubmissionScope and the filter of ComputeCoverageStats.
InScope(i, key) ==
  /\ i \in 1..nposted
  /\ key[1] \in subs[i].scopes
  /\ key[2] \in {AllVersions, subs[i].version}

\* commentCount: the raw comment is what counts.
CommentCount(key) ==
  Cardinality({i \in 1..nposted :
                 InScope(i, key) /\ subs[i].comment # "none"})

\* The submissions with a cleanedComment.
Analysable(key) ==
  {i \in 1..nposted : InScope(i, key) /\ subs[i].comment = "text"}

Active(p) == p <= npipes /\ pipe[p].status \notin Ended
ActiveOf(key) == {p \in Pipe : Active(p) /\ pipe[p].key = key}
CompletedOn(s) ==
  {p \in 1..npipes : pipe[p].key[1] = s /\ pipe[p].status = "COMPLETED"}

\* MAX(completed_at) over the completed pipelines of the scope, whatever their
\* version; 0 for none, since every submission is later than that.
LastDone(s) ==
  Max({0} \cup {pipe[p].doneAt : p \in CompletedOn(s)})

-----------------------------------------------------------------------------
(* The surroundings.                                                       *)

Post(comment, scopes, version) ==
  /\ nposted < MaxPosts
  /\ nposted' = nposted + 1
  /\ subs' = [subs EXCEPT ![nposted + 1] =
       [comment |-> comment, scopes |-> scopes, version |-> version]]
  /\ UNCHANGED <<rows, act, running, bounds>>

\* OnRecommendationsComplete.
Complete(p) ==
  /\ Active(p) /\ pipe[p].status = "RUNNING" /\ pipe[p].read # {}
  /\ pipe' = [pipe EXCEPT ![p] =
       [@ EXCEPT !.status = "COMPLETED", !.doneAt = nposted]]
  /\ UNCHANGED <<posts, npipes, act, running, bounds>>

\* OnStageFailed or failPipeline, at any stage.
Fail(p) ==
  /\ Active(p) /\ pipe[p].status = "RUNNING" /\ pipe[p].read # {}
  /\ faults < MaxFaults
  /\ faults' = faults + 1
  /\ pipe' = [pipe EXCEPT ![p].status = "FAILED"]
  /\ UNCHANGED <<posts, npipes, act, running, requests>>

\* A restart: the requests and the tier runs are gone, and so are the flags.
Crash ==
  /\ faults < MaxFaults
  /\ faults' = faults + 1
  /\ act' = [a \in Actor |-> Idle]
  /\ running' = [t \in Tier |-> FALSE]
  /\ UNCHANGED <<posts, rows, requests>>

-----------------------------------------------------------------------------
(* Steps of an actor: a request, or the run of a tier.                     *)

At(a, label) == act[a].pc = label
Goto(a, label) == act' = [act EXCEPT ![a].pc = label]

\* The request is answered; the tier's run goes on with the next scope,
\* whether the last one succeeded or threw.
Left(a) ==
  IF a \in Caller THEN Idle
  ELSE [Idle EXCEPT !.pc = "next", !.todo = act[a].todo]
Release(a) == act' = [act EXCEPT ![a] = Left(a)]

\* CreatePipeline returns p.  CreateAndConfirmPipeline leaves it alone if it is
\* past the confirmation, completes it if it has no comments, or confirms it.
Returned(a, p, row) ==
  act' = [act EXCEPT ![a] =
    IF a \in Caller \/ row.status # "AWAITING_CONFIRMATION" THEN Left(a)
    ELSE [@ EXCEPT !.pc = IF row.count = 0 THEN "complete" ELSE "confirm",
                   !.pipe = p]]

Request(a, record) ==
  /\ a \in Caller /\ At(a, "idle")
  /\ requests < MaxRequests
  /\ requests' = requests + 1
  /\ act' = [act EXCEPT ![a] = record]
  /\ UNCHANGED <<posts, rows, running, faults>>

AskCreate(a, key) == Request(a, [Idle EXCEPT !.pc = "find", !.key = key])

\* An active pipeline of the same key is returned; else the coverage is counted.
FindActive(a) ==
  /\ At(a, "find")
  /\ IF ActiveOf(act[a].key) = {}
     THEN act' = [act EXCEPT ![a] =
            [@ EXCEPT !.pc = "insert", !.count = CommentCount(act[a].key)]]
     ELSE \E p \in ActiveOf(act[a].key) : Returned(a, p, pipe[p])
  /\ UNCHANGED <<posts, rows, running, bounds>>

\* Mutant of IndexFree: SQL finds no two NULLs equal.
IndexWithNulls(key) == key[2] = AllVersions \/ ActiveOf(key) = {}

\* uq_analysis_pipeline_active_scope: no other active row of the key.
IndexFree(key) == ActiveOf(key) = {}

Insert(a) ==
  /\ At(a, "insert") /\ IndexFree(act[a].key)
  /\ npipes < MaxPipes
  /\ npipes' = npipes + 1
  /\ pipe' = [pipe EXCEPT ![npipes + 1] =
       [NoPipe EXCEPT !.key = act[a].key, !.count = act[a].count,
                      !.status = "AWAITING_CONFIRMATION"]]
  /\ Returned(a, npipes + 1, pipe'[npipes + 1])
  /\ UNCHANGED <<posts, running, bounds>>

\* Any other error of the flush; here it also bounds the number of rows.
InsertFails(a) ==
  /\ At(a, "insert") /\ npipes = MaxPipes
  /\ Release(a)
  /\ UNCHANGED <<posts, rows, running, bounds>>

\* UniqueConstraintViolationException: the winner is looked up.
InsertConflict(a) ==
  /\ At(a, "insert") /\ ~IndexFree(act[a].key)
  /\ Goto(a, "refetch")
  /\ UNCHANGED <<posts, rows, running, bounds>>

\* Mutant of Refetch: the winner is waited for.
RefetchWaits(a) ==
  /\ At(a, "refetch")
  /\ \E p \in ActiveOf(act[a].key) : Returned(a, p, pipe[p])
  /\ UNCHANGED <<posts, rows, running, bounds>>

\* The winner may have ended meanwhile: then the violation is thrown.
Refetch(a) ==
  /\ At(a, "refetch")
  /\ IF ActiveOf(act[a].key) = {} THEN Release(a)
     ELSE \E p \in ActiveOf(act[a].key) : Returned(a, p, pipe[p])
  /\ UNCHANGED <<posts, rows, running, bounds>>

\* Mutant of CompleteEmpty: completedAt lies after the next submission.
CompleteEmptyLate(a) ==
  /\ At(a, "complete")
  /\ pipe' = [pipe EXCEPT ![act[a].pipe] =
       [@ EXCEPT !.status = "COMPLETED", !.doneAt = nposted + 1, !.noop = TRUE]]
  /\ Release(a)
  /\ UNCHANGED <<posts, npipes, running, bounds>>

\* The scheduler completes a pipeline without comments: the row is read again,
\* its status is not looked at.
CompleteEmpty(a) ==
  /\ At(a, "complete")
  /\ pipe' = [pipe EXCEPT ![act[a].pipe] =
       [@ EXCEPT !.status = "COMPLETED", !.doneAt = nposted, !.noop = TRUE]]
  /\ Release(a)
  /\ UNCHANGED <<posts, npipes, running, bounds>>

AskConfirm(a, p) ==
  p <= npipes /\ Request(a, [Idle EXCEPT !.pc = "confirm", !.pipe = p])

\* ConfirmPipeline reads the row, refuses any other status, and takes the time
\* that will be confirmedAt.
ConfirmRead(a) ==
  /\ a \in Caller /\ At(a, "confirm")
  /\ IF pipe[act[a].pipe].status = "AWAITING_CONFIRMATION"
       THEN act' = [act EXCEPT ![a] = [@ EXCEPT !.pc = "confirmed", !.count = nposted]]
       ELSE Release(a)
  /\ UNCHANGED <<posts, rows, running, bounds>>

\* The scheduler confirms after runAs has returned: without a current user the
\* access check throws, and the pipeline keeps waiting.
ConfirmRefused(a) ==
  /\ a \in Tier /\ At(a, "confirm")
  /\ Release(a)
  /\ UNCHANGED <<posts, rows, running, bounds>>

\* The flush writes the status it decided on; a row that ended meanwhile comes
\* back to life, unless the index knows a successor.
ConfirmFlush(a) ==
  LET p == act[a].pipe IN
  /\ At(a, "confirmed")
  /\ ActiveOf(pipe[p].key) \subseteq {p}
  /\ pipe' = [pipe EXCEPT ![p] =
       [@ EXCEPT !.status = "RUNNING", !.confirmed = act[a].count]]
  /\ Goto(a, "dispatch")
  /\ UNCHANGED <<posts, npipes, running, bounds>>

ConfirmConflict(a) ==
  LET p == act[a].pipe IN
  /\ At(a, "confirmed")
  /\ ~(ActiveOf(pipe[p].key) \subseteq {p})
  /\ Release(a)
  /\ UNCHANGED <<posts, rows, running, bounds>>

\* Mutant of Dispatch: only what is new since the last completed pipeline.
DispatchNew(a) ==
  LET p == act[a].pipe
      texts == {i \in Analysable(pipe[p].key) : i > LastDone(pipe[p].key[1])}
  IN
  /\ At(a, "dispatch")
  /\ pipe' = [pipe EXCEPT ![p] =
       IF texts = {} THEN [@ EXCEPT !.status = "FAILED"]
                     ELSE [@ EXCEPT !.read = texts]]
  /\ Release(a)
  /\ UNCHANGED <<posts, npipes, running, bounds>>

\* dispatchSentiment: without a cleaned comment the pipeline fails at once.
Dispatch(a) ==
  LET p == act[a].pipe
      texts == Analysable(pipe[p].key)
  IN
  /\ At(a, "dispatch")
  /\ pipe' = [pipe EXCEPT ![p] =
       IF texts = {} THEN [@ EXCEPT !.status = "FAILED"]
                     ELSE [@ EXCEPT !.read = texts]]
  /\ Release(a)
  /\ UNCHANGED <<posts, npipes, running, bounds>>

\* GetPipelineStatus reads the row, and counts again if it waits ...
StatusRead(a, p) ==
  /\ p <= npipes
  /\ CommentCount(pipe[p].key) # pipe[p].count
  /\ Request(a, [Idle EXCEPT !.pipe = p,
       !.pc = IF pipe[p].status = "AWAITING_CONFIRMATION" THEN "covered"
                                                          ELSE "viewed",
       !.count = CommentCount(pipe[p].key)])

\* Mutant of StatusFlush: for every pipeline.
StatusFlushAlways(a) ==
  /\ At(a, "covered") \/ At(a, "viewed")
  /\ pipe' = [pipe EXCEPT ![act[a].pipe] =
       [@ EXCEPT !.count = act[a].count, !.noop = FALSE]]
  /\ Release(a)
  /\ UNCHANGED <<posts, npipes, running, bounds>>

\* ... and flushes what changed: the counts and the warnings about them.
StatusFlush(a) ==
  /\ At(a, "covered")
  /\ pipe' = [pipe EXCEPT ![act[a].pipe] =
       [@ EXCEPT !.count = act[a].count, !.noop = FALSE]]
  /\ Release(a)
  /\ UNCHANGED <<posts, npipes, running, bounds>>

\* Of any other pipeline the stored values are shown.
StatusShow(a) ==
  /\ At(a, "viewed")
  /\ Release(a)
  /\ UNCHANGED <<posts, rows, running, bounds>>

CancelRead(a, p) ==
  Active(p) /\ Request(a, [Idle EXCEPT !.pc = "cancelling", !.pipe = p])

CancelFlush(a) ==
  /\ At(a, "cancelling")
  /\ pipe' = [pipe EXCEPT ![act[a].pipe].status = "CANCELLED"]
  /\ Release(a)
  /\ UNCHANGED <<posts, npipes, running, bounds>>

-----------------------------------------------------------------------------
(* TieredPipelineSchedulerJob.                                             *)

\* FindActiveScopesForTier names the column facultyDepartment_id without
\* quotes; the table has faculty_department_id, so the query of that tier is an
\* error and the run has nothing to do.
Listed(t) ==
  IF t = "DEPARTMENT" THEN {}
  ELSE {<<s, LastDone(s)>> : s \in
         {x \in ScopesOf(t) : \E i \in 1..nposted : x \in subs[i].scopes}}

\* The weekly firing, skipped while the tier still runs.
TierFires(t) ==
  /\ ~running[t]
  /\ running' = [running EXCEPT ![t] = TRUE]
  /\ act' = [act EXCEPT ![t] = [Idle EXCEPT !.pc = "next", !.todo = Listed(t)]]
  /\ UNCHANGED <<posts, rows, bounds>>

\* finally: the flag is cleared, however the run ends.
TierEnds(t) ==
  /\ At(t, "next") /\ act[t].todo = {}
  /\ running' = [running EXCEPT ![t] = FALSE]
  /\ act' = [act EXCEPT ![t] = Idle]
  /\ UNCHANGED <<posts, rows, bounds>>

\* Mutant of Changed: a scope is analysed once.
NeverDone(s, since) ==
  since = 0 /\ \E i \in 1..nposted : s \in subs[i].scopes

\* FindChangedSince: any submission of the scope after the listed completion.
Changed(s, since) == \E i \in 1..nposted : i > since /\ s \in subs[i].scopes

Evaluate(t) ==
  /\ At(t, "next")
  /\ \E e \in act[t].todo :
       LET left == [act[t] EXCEPT !.todo = @ \ {e}] IN
       act' = [act EXCEPT ![t] =
         IF Changed(e[1], e[2])
           THEN [left EXCEPT !.pc = "find", !.key = <<e[1], AllVersions>>]
           ELSE left]
  /\ UNCHANGED <<posts, rows, running, bounds>>

-----------------------------------------------------------------------------
ActorStep(a) ==
  \/ FindActive(a) \/ Insert(a) \/ InsertFails(a)
  \/ InsertConflict(a) \/ Refetch(a) \/ CompleteEmpty(a)
  \/ ConfirmRead(a) \/ ConfirmRefused(a) \/ ConfirmFlush(a) \/ ConfirmConflict(a) \/ Dispatch(a)
  \/ StatusFlush(a) \/ StatusShow(a) \/ CancelFlush(a)

TierStep(t) == Evaluate(t) \/ TierEnds(t)

Ask(a) ==
  \/ \E k \in Key : AskCreate(a, k)
  \/ \E p \in Pipe : AskConfirm(a, p) \/ StatusRead(a, p) \/ CancelRead(a, p)

Next ==
  \/ \E c \in Comment, S \in Footprint, v \in Version : Post(c, S, v)
  \/ \E p \in Pipe : Complete(p) \/ Fail(p)
  \/ Crash
  \/ \E a \in Caller : Ask(a)
  \/ \E a \in Actor : ActorStep(a)
  \/ \E t \in Tier : TierFires(t) \/ TierStep(t)

Spec == Init /\ [][Next]_vars

\* The process works on what it has begun, the cron fires every week, and a
\* pipeline that was dispatched ends one way or the other.
FairSpec ==
  /\ Spec
  /\ \A a \in Actor : WF_vars(ActorStep(a))
  /\ \A t \in Tier : WF_vars(TierStep(t)) /\ WF_vars(TierFires(t))
  /\ \A p \in Pipe : WF_vars(Complete(p))

-----------------------------------------------------------------------------
(* Properties.                                                             *)

\* One pipeline at a time per semester, scope and version, however requests and
\* the scheduler race, and whatever row a late confirmation writes to.
OneActivePerKey ==
  \A p, q \in Pipe :
    Active(p) /\ Active(q) /\ pipe[p].key = pipe[q].key => p = q

\* A dispatched pipeline reads every analysable submission of its scope that
\* existed when it was confirmed.
NothingLeftOut ==
  \A p \in Pipe : pipe[p].read # {} =>
    {i \in Analysable(pipe[p].key) : i <= pipe[p].confirmed} \subseteq pipe[p].read

BeingCovered(p) == \E a \in Caller : At(a, "covered") /\ act[a].pipe = p

\* Once a pipeline is confirmed or ended, its coverage and the mark of an empty
\* run are final ("must not drift"), except for a status request that read the
\* row while it still waited.
LockedIn ==
  [][\A p \in Pipe :
       /\ p <= npipes /\ pipe[p].status # "AWAITING_CONFIRMATION"
       /\ ~BeingCovered(p)
       => /\ pipe'[p].count = pipe[p].count
          /\ pipe[p].noop => pipe'[p].noop]_vars

\* Confirmed, and the request or run that was to dispatch it is gone.
Orphaned(p) ==
  /\ Active(p) /\ pipe[p].status = "RUNNING" /\ pipe[p].read = {}
  /\ \A a \in Actor : ~(At(a, "dispatch") /\ act[a].pipe = p)

Served(i, s) ==
  \/ \E p \in Pipe : i \in pipe[p].read
  \/ \E p \in CompletedOn(s) : pipe[p].doneAt >= i   \* never looked at again
  \/ \E p \in 1..npipes : pipe[p].key[1] = s /\ Orphaned(p)
  \/ npipes = MaxPipes                               \* the bound

\* An analysable submission of a faculty or campus that no pipeline has read or
\* buried is offered for confirmation again and again, until it is: an ended
\* pipeline is followed by another one.
OfferedUntilServed ==
  \A i \in 1..MaxPosts : \A s \in FacultyScope \cup CampusScope :
    (subs[i].comment = "text" /\ s \in subs[i].scopes) ~>
      (Served(i, s) \/ ActiveOf(<<s, AllVersions>>) # {})

TierIsReleased == \A t \in Tier : running[t] ~> ~running[t]

\* The nightly runs keep going: what they have to analyse stays on offer until it
\* is served, and no tier blocks itself, whatever fails in one of its scopes.
SchedulerGoesOn == OfferedUntilServed /\ TierIsReleased

\* The scheduler "bypasses the human gate and dispatches sentiment immediately"
\* (docs/workflows/analysis-pipeline.md, Tiered Scheduler): without anybody's
\* help an analysable submission gets analysed.
ServedWithoutHelp ==
  \A i \in 1..MaxPosts : \A s \in FacultyScope \cup CampusScope :
    (subs[i].comment = "text" /\ s \in subs[i].scopes) ~> Served(i, s)

=============================================================================
