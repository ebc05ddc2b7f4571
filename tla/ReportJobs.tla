----------------------------- MODULE ReportJobs -----------------------------
(***************************************************************************)
(* Faculty evaluation reports: GenerateSingle and GenerateBatch of         *)
(* ReportsService, ReportGenerationProcessor, and ReportCleanupJob.        *)
(*                                                                         *)
(* A row of report_job is one report of one faculty (Key stands for        *)
(* faculty, semester, questionnaire type and report type).  Its id is also *)
(* the job of JobQueue that renders it: these jobs have no jobId of their  *)
(* own, and each row is added once.  A stored PDF is named by its row; all *)
(* rows of a batch share a prefix, any other row has one of its own.       *)
(*                                                                         *)
(* Time is the age of a row, in ticks of more than an hour.                *)
(***************************************************************************)
EXTENDS JobQueue

CONSTANTS
  Key,        \* what a report is about; at most one is pending
  Single,     \* requests to GenerateSingle
  Batcher,    \* requests to GenerateBatch, which stand for their batchIds
  NoKey,
  NoBatch,
  Retention,  \* REPORT_RETENTION_DAYS, in ticks
  MaxCrashes  \* bound: process deaths

ASSUME ReportAssumption ==
  /\ MaxRuns = 1   \* each job is added once
  /\ NoKey \notin Key
  /\ NoBatch \notin Batcher
  /\ Single \cap Batcher = {}
  /\ JobId \cap Batcher = {}
  /\ Retention \in Nat \ {0}
  /\ MaxCrashes \in Nat

VARIABLES
  row,      \* the report_job table
  files,    \* the rows whose PDF is in the bucket
  request,  \* what each request is doing
  cleaner,  \* what the cleanup is doing
  crashes

vars == <<queueVars, row, files, request, cleaner, crashes>>

Requester == Single \cup Batcher
Pending == {"waiting", "active"}
Settled == {"completed", "failed", "skipped"}
OrphanAge == 0   \* a row is an orphan when it is more than an hour old

RowRecord ==
  [status : {"absent", "deleted"} \cup Pending \cup Settled,
   key    : Key \cup {NoKey},
   batch  : Batcher \cup {NoBatch},
   age    : 0..OrphanAge + 1,   \* since createdAt, up to what can matter
   done   : 0..Retention + 1]   \* since completedAt

RequestRecord ==
  [pc   : {"idle", "insert", "refetch", "enqueue", "undo",
           "accepted", "refused", "conflict"},
   keys : SUBSET Key,
   rows : SUBSET JobId]

CleanerRecord ==
  [pc   : {"idle", "purge", "sweep"},
   due  : BOOLEAN,
   ids  : SUBSET JobId,
   todo : SUBSET (JobId \cup Batcher)]

ReportPc ==
  {"idle", "answer", "activate", "render", "skip", "upload", "complete",
   "return"}

TypeOK ==
  /\ QueueTypeOK(ReportPc)
  /\ row \in [JobId -> RowRecord]
  /\ files \in SUBSET JobId
  /\ request \in [Requester -> RequestRecord]
  /\ cleaner \in CleanerRecord
  /\ crashes \in 0..MaxCrashes

NoRow ==
  [status |-> "absent", key |-> NoKey, batch |-> NoBatch, age |-> 0, done |-> 0]

Asleep(due) == [pc |-> "idle", due |-> due, ids |-> {}, todo |-> {}]

Init ==
  /\ QueueInit
  /\ row = [r \in JobId |-> NoRow]
  /\ files = {}
  /\ request = [h \in Requester |-> [pc |-> "idle", keys |-> {}, rows |-> {}]]
  /\ cleaner = Asleep(FALSE)
  /\ crashes = 0

-----------------------------------------------------------------------------
(* The table.                                                              *)

IsPending(r) == row[r].status \in Pending
Exists(r) == row[r].status \notin {"absent", "deleted"}
PendingKeys == {row[r].key : r \in {q \in JobId : IsPending(q)}}

\* nativeDelete; an update of a deleted row changes nothing.
Deleted(S) ==
  [r \in JobId |-> IF r \in S /\ Exists(r)
                   THEN [row[r] EXCEPT !.status = "deleted", !.age = 0, !.done = 0]
                   ELSE row[r]]

SetStatus(r, s) ==
  IF Exists(r) THEN [row EXCEPT ![r] = [@ EXCEPT !.status = s]] ELSE row

\* status and completedAt in one update.
Close(r, s) ==
  IF Exists(r) THEN [row EXCEPT ![r] = [@ EXCEPT !.status = s, !.done = 0]]
               ELSE row

\* uq_report_job_pending: no other pending row has the key of r.
IndexFree(r) ==
  \A q \in JobId \ {r} : IsPending(q) => row[q].key # row[r].key

-----------------------------------------------------------------------------
(* Requests.  Validation of semester, scope and names changes no state; a  *)
(* request it refuses is one that never began.                             *)

Proceed(h, label) ==
  request' = [request EXCEPT ![h] = [@ EXCEPT !.pc = label]]

\* GenerateSingle: a pending report of the key is answered with its id.
CheckSingle(h, k) ==
  /\ h \in Single
  /\ request[h].pc = "idle"
  /\ request' = [request EXCEPT ![h] =
       [@ EXCEPT !.keys = {k},
                 !.pc = IF k \in PendingKeys THEN "accepted" ELSE "insert"]]
  /\ UNCHANGED <<queueVars, row, files, cleaner, crashes>>

\* GenerateBatch: the faculties S of the scope that have submissions, less
\* those with a pending report.
CheckBatch(h, S) ==
  LET left == S \ PendingKeys
  IN  /\ h \in Batcher
      /\ request[h].pc = "idle"
      /\ request' = [request EXCEPT ![h] =
           [@ EXCEPT !.keys = left,
                     !.pc = IF left = {} THEN "accepted" ELSE "insert"]]
      /\ UNCHANGED <<queueVars, row, files, cleaner, crashes>>

NewRow(h, k) ==
  [NoRow EXCEPT !.status = "waiting", !.key = k,
                !.batch = IF h \in Batcher THEN h ELSE NoBatch]

Injective(id) == \A k, l \in DOMAIN id : id[k] = id[l] => k = l

\* The flush inserts all rows of the request, or none; id gives each key the
\* id of its row.
Insert(h, id) ==
  LET new == {id[k] : k \in request[h].keys}
  IN  /\ request[h].pc = "insert"
      /\ request[h].keys \cap PendingKeys = {}
      /\ Injective(id)
      /\ \A r \in new : row[r].status = "absent"
      /\ row' = [r \in JobId |->
                   IF r \in new
                   THEN NewRow(h, CHOOSE k \in request[h].keys : id[k] = r)
                   ELSE row[r]]
      /\ request' = [request EXCEPT ![h] =
                       [@ EXCEPT !.pc = "enqueue", !.rows = new]]
      /\ UNCHANGED <<queueVars, files, cleaner, crashes>>

\* Another request was faster: the index refuses the flush.  GenerateSingle
\* looks for the winner, GenerateBatch does not catch the error.
InsertRefused(h) ==
  /\ request[h].pc = "insert"
  /\ request[h].keys \cap PendingKeys # {}
  /\ Proceed(h, IF h \in Single THEN "refetch" ELSE "conflict")
  /\ UNCHANGED <<queueVars, row, files, cleaner, crashes>>

\* The winner's id is the answer, unless it is not pending any more.
Refetch(h) ==
  /\ request[h].pc = "refetch"
  /\ Proceed(h, IF request[h].keys \subseteq PendingKeys
                THEN "accepted" ELSE "conflict")
  /\ UNCHANGED <<queueVars, row, files, cleaner, crashes>>

\* Queue.add or addBulk takes the jobs of all rows.
EnqueueRows(h) ==
  /\ request[h].pc = "enqueue"
  /\ jobs' = [j \in JobId |->
       IF j \in request[h].rows THEN Enqueue(jobs, j, 1)[j] ELSE jobs[j]]
  /\ Proceed(h, "accepted")
  /\ UNCHANGED <<exec, failCall, row, files, cleaner, crashes>>

\* Redis refuses all of them: the rows are to be deleted.
EnqueueRefused(h) ==
  /\ "redis" \in Faults
  /\ request[h].pc = "enqueue"
  /\ Proceed(h, "undo")
  /\ UNCHANGED <<queueVars, row, files, cleaner, crashes>>

\* The compensation; the request answers with the error of the queue.
Undo(h) ==
  /\ request[h].pc = "undo"
  /\ row' = Deleted(request[h].rows)
  /\ Proceed(h, "refused")
  /\ UNCHANGED <<queueVars, files, cleaner, crashes>>

\* A query or flush of the request fails; in Undo that leaves its rows.
RequestThrows(h) ==
  /\ "db" \in Faults
  /\ request[h].pc \in {"insert", "refetch", "undo"}
  /\ Proceed(h, "refused")
  /\ UNCHANGED <<queueVars, row, files, cleaner, crashes>>

-----------------------------------------------------------------------------
(* ReportGenerationProcessor.process in slot w; "answer" is the label at   *)
(* which Take starts a handler.                                            *)

RowOf(w) == exec[w].job

At(w, label) == exec[w].pc = label

TakeReport(w, r) ==
  /\ Take(w, r)
  /\ UNCHANGED <<row, files, request, cleaner, crashes>>

\* findOneOrFail.  A row that is active already needs no update.
LoadRow(w) ==
  /\ At(w, "answer")
  /\ IF ~Exists(RowOf(w)) THEN Throw(w)
     ELSE Goto(w, IF row[RowOf(w)].status = "active" THEN "render" ELSE "activate")
  /\ UNCHANGED <<row, files, request, cleaner, crashes>>

\* Mutant of Activate: the index covers new rows only.
ActivateUnchecked(w) ==
  /\ At(w, "activate")
  /\ Goto(w, "render")
  /\ row' = SetStatus(RowOf(w), "active")
  /\ UNCHANGED <<files, request, cleaner, crashes>>

\* Whatever the row's status was, it becomes active, if the index allows.
Activate(w) ==
  /\ At(w, "activate")
  /\ \/ /\ Exists(RowOf(w)) /\ ~IsPending(RowOf(w)) /\ ~IndexFree(RowOf(w))
        /\ Throw(w)
        /\ UNCHANGED row
     \/ /\ ~Exists(RowOf(w)) \/ IsPending(RowOf(w)) \/ IndexFree(RowOf(w))
        /\ Goto(w, "render")
        /\ row' = SetStatus(RowOf(w), "active")
  /\ UNCHANGED <<files, request, cleaner, crashes>>

\* The report's data are fetched: there are submissions to render, or none.
FetchData(w) ==
  /\ At(w, "render")
  /\ \E label \in {"skip", "upload"} : Goto(w, label)
  /\ UNCHANGED <<row, files, request, cleaner, crashes>>

Skip(w) ==
  /\ At(w, "skip")
  /\ row' = Close(RowOf(w), "skipped")
  /\ Goto(w, "return")
  /\ UNCHANGED <<files, request, cleaner, crashes>>

\* GenerateFacultyEvaluationPdf and Upload.
Upload(w) ==
  /\ At(w, "upload")
  /\ files' = files \cup {RowOf(w)}
  /\ Goto(w, "complete")
  /\ UNCHANGED <<row, request, cleaner, crashes>>

\* Mutant of UploadFails: the error is logged and the report completed.
UploadFailureLogged(w) ==
  /\ "storage" \in Faults
  /\ At(w, "upload")
  /\ files' \in {files, files \cup {RowOf(w)}}
  /\ Goto(w, "complete")
  /\ UNCHANGED <<row, request, cleaner, crashes>>

\* The browser or the bucket fails; the object may have been stored.
UploadFails(w) ==
  /\ "storage" \in Faults
  /\ At(w, "upload")
  /\ files' \in {files, files \cup {RowOf(w)}}
  /\ Throw(w)
  /\ UNCHANGED <<row, request, cleaner, crashes>>

\* status, storageKey and completedAt.
Complete(w) ==
  /\ At(w, "complete")
  /\ row' = Close(RowOf(w), "completed")
  /\ Goto(w, "return")
  /\ UNCHANGED <<files, request, cleaner, crashes>>

Return(w) ==
  /\ At(w, "return")
  /\ Finish(w)
  /\ UNCHANGED <<row, files, request, cleaner, crashes>>

HandlerThrows(w) ==
  /\ "db" \in Faults
  /\ exec[w].pc \in {"answer", "activate", "render", "skip", "complete"}
  /\ Throw(w)
  /\ UNCHANGED <<row, files, request, cleaner, crashes>>

\* onFailed after the last attempt: the row is read ...
FailRead(r) ==
  /\ failCall[r] = "called"
  /\ failCall' = [failCall EXCEPT ![r] =
       IF Exists(r) /\ row[r].status # "failed" THEN "seen" ELSE "done"]
  /\ UNCHANGED <<jobs, exec, row, files, request, cleaner, crashes>>

\* ... and marked failed, whatever it is by now.
FailMark(r) ==
  /\ failCall[r] = "seen"
  /\ failCall' = [failCall EXCEPT ![r] = "done"]
  /\ row' = SetStatus(r, "failed")
  /\ UNCHANGED <<jobs, exec, files, request, cleaner, crashes>>

\* A database error in onFailed is logged, and that is all.
FailThrows(r) ==
  /\ "db" \in Faults
  /\ failCall[r] \in {"called", "seen"}
  /\ failCall' = [failCall EXCEPT ![r] = "done"]
  /\ UNCHANGED <<jobs, exec, row, files, request, cleaner, crashes>>

StallReport(r) ==
  /\ Stall(r)
  /\ UNCHANGED <<row, files, request, cleaner, crashes>>

-----------------------------------------------------------------------------
(* ReportCleanupJob.                                                       *)

Expired(r) == row[r].status = "completed" /\ row[r].done > Retention
\* Mutant of Orphan: no row is ever old enough.
OrphanNever(r) == row[r].status = "waiting" /\ row[r].age > OrphanAge + 1

Orphan(r) == row[r].status = "waiting" /\ row[r].age > OrphanAge

Prefix(r) == IF row[r].batch = NoBatch THEN r ELSE row[r].batch

FindExpired ==
  LET found == {r \in JobId : Expired(r)}
  IN  /\ cleaner.pc = "idle"
      /\ cleaner.due
      /\ cleaner' = [pc |-> "purge", due |-> TRUE,
                     ids |-> found, todo |-> {Prefix(r) : r \in found}]
      /\ UNCHANGED <<queueVars, row, files, request, crashes>>

\* DeleteByPrefix; a failure is logged.
DeleteFiles(p) ==
  LET under == {r \in files : Prefix(r) = p}
  IN  /\ cleaner.pc = "purge"
      /\ p \in cleaner.todo
      /\ files' \in {files \ under} \cup
                    (IF "storage" \in Faults THEN {files} ELSE {})
      /\ cleaner' = [cleaner EXCEPT !.todo = @ \ {p}]
      /\ UNCHANGED <<queueVars, row, request, crashes>>

DeleteExpired ==
  /\ cleaner.pc = "purge"
  /\ cleaner.todo = {}
  /\ row' = Deleted(cleaner.ids)
  /\ cleaner' = [cleaner EXCEPT !.pc = "sweep", !.ids = {}]
  /\ UNCHANGED <<queueVars, files, request, crashes>>

SweepOrphans ==
  /\ cleaner.pc = "sweep"
  /\ row' = Deleted({r \in JobId : Orphan(r)})
  /\ cleaner' = Asleep(FALSE)
  /\ UNCHANGED <<queueVars, files, request, crashes>>

\* A query or deletion fails: the rest is left to the next night.
CleanupThrows ==
  /\ "db" \in Faults
  /\ \/ cleaner.pc = "idle" /\ cleaner.due
     \/ cleaner.pc = "purge" /\ cleaner.todo = {}
     \/ cleaner.pc = "sweep"
  /\ cleaner' = Asleep(FALSE)
  /\ UNCHANGED <<queueVars, row, files, request, crashes>>

-----------------------------------------------------------------------------
(* The environment.                                                        *)

Quiet ==
  /\ \A w \in Worker : At(w, "idle")
  /\ \A r \in JobId : failCall[r] \in {"none", "done"}
  /\ \A h \in Requester :
       request[h].pc \in {"idle", "accepted", "refused", "conflict"}
  /\ cleaner.pc = "idle"

Older(n, limit) == IF n < limit THEN n + 1 ELSE n

\* A report does not expire while its job is still in the queue: that takes
\* days, a stalled or delayed job is taken in minutes.
Aged(r) ==
  [row[r] EXCEPT
     !.age = IF IsPending(r) THEN Older(@, OrphanAge + 1) ELSE 0,
     !.done = IF row[r].status \in Settled /\ jobs[r].state \notin {"waiting", "active"}
              THEN Older(@, Retention + 1) ELSE @]

\* More than an hour passes, and the cleanup's time may have come.  Whatever
\* is under way ends, or dies, well within an hour; jobs may wait longer.
Tick ==
  /\ Quiet
  /\ row' = [r \in JobId |-> Aged(r)]
  /\ cleaner' = Asleep(TRUE)
  /\ UNCHANGED <<queueVars, files, request, crashes>>

\* The process dies; isRunning, the requests and the handlers with it.
Crash ==
  /\ "crash" \in Faults
  /\ crashes < MaxCrashes
  /\ crashes' = crashes + 1
  /\ QueueCrash
  /\ request' = [h \in Requester |->
       IF request[h].pc \in {"insert", "refetch", "enqueue", "undo"}
       THEN [request[h] EXCEPT !.pc = "refused"] ELSE request[h]]
  /\ cleaner' = Asleep(FALSE)
  /\ UNCHANGED <<row, files>>

-----------------------------------------------------------------------------

RequestStep(h) ==
  \/ \E id \in [request[h].keys -> JobId] : Insert(h, id)
  \/ InsertRefused(h)
  \/ Refetch(h)
  \/ EnqueueRows(h)
  \/ EnqueueRefused(h)
  \/ Undo(h)
  \/ RequestThrows(h)

HandlerStep(w) ==
  \/ LoadRow(w)
  \/ Activate(w)
  \/ FetchData(w)
  \/ Skip(w)
  \/ Upload(w)
  \/ UploadFails(w)
  \/ Complete(w)
  \/ Return(w)
  \/ HandlerThrows(w)

FailStep(r) == FailRead(r) \/ FailMark(r) \/ FailThrows(r)

CleanerStep ==
  \/ FindExpired
  \/ \E p \in JobId \cup Batcher : DeleteFiles(p)
  \/ DeleteExpired
  \/ SweepOrphans
  \/ CleanupThrows

Next ==
  \/ \E h \in Requester : RequestStep(h)
  \/ \E h \in Single, k \in Key : CheckSingle(h, k)
  \/ \E h \in Batcher, S \in SUBSET Key : CheckBatch(h, S)
  \/ \E w \in Worker, r \in JobId : TakeReport(w, r)
  \/ \E w \in Worker : HandlerStep(w)
  \/ \E r \in JobId : FailStep(r) \/ StallReport(r)
  \/ CleanerStep
  \/ Tick
  \/ Crash

Spec == Init /\ [][Next]_vars

(***************************************************************************)
(* Requests and handlers that began run on, queued jobs are taken, jobs    *)
(* whose process died are found, time passes and the cron job runs.        *)
(***************************************************************************)
Fairness ==
  /\ \A h \in Requester : WF_vars(RequestStep(h))
  /\ \A w \in Worker : WF_vars(HandlerStep(w))
  /\ \A r \in JobId :
       /\ WF_vars(\E w \in Worker : TakeReport(w, r))
       /\ WF_vars(FailStep(r))
       /\ WF_vars(jobs[r].owner = NoWorker /\ StallReport(r))
  /\ WF_vars(CleanerStep)
  /\ WF_vars(Tick)

FairSpec == Spec /\ Fairness

-----------------------------------------------------------------------------
(* Properties.                                                             *)

\* No order of requests, retries, duplicates and refused flushes leaves two
\* pending reports of one key, though a retry makes its row pending again
\* whatever became of it (docs/workflows/report-generation.md, Deduplication).
OnePendingPerKey ==
  \A q, r \in JobId :
    IsPending(q) /\ IsPending(r) /\ row[q].key = row[r].key => q = r

\* A report of its own that has not expired and is offered for download has its
\* PDF: no order of retries, duplicates, failed uploads and cleanups hands out
\* a link to nothing (report-generation.processor.ts:117-123,
\* reports.service.ts:416).  The PDFs of a batch share a prefix and go with the
\* first of them that expires.
NoDeadLink ==
  \A r \in JobId :
    row[r].status = "completed" /\ row[r].done <= Retention
      /\ row[r].batch = NoBatch => r \in files

\* A row is marked failed only once the queue has given its job up: a report
\* shown as failed is never generated again by a retry that was still to come
\* (report-generation.processor.ts:140-141).
FailedIsFinal ==
  \A r \in JobId : row[r].status = "failed" => jobs[r].state = "failed"

\* waiting, active, and then one of completed, failed and skipped: a settled
\* report only ever disappears (docs/workflows/report-generation.md, Job Status
\* Lifecycle), unless the queue took its job for stalled and ran it twice.
SettledForGood ==
  [][\A r \in JobId : row[r].status \in Settled /\ jobs[r].stalls = 0 =>
       row'[r].status \in {row[r].status, "deleted"}]_vars

\* The queue gave up the job, and no onFailed will say so in the row.
Abandoned(r) ==
  /\ row[r].status = "active"
  /\ jobs[r].state = "failed"
  /\ failCall[r] \in {"none", "done"}

\* A pending report blocks its key: it is settled or swept in the end, be its
\* request cut off before the queue heard of it, its job refused, retried or
\* orphaned; the key stays blocked only if the queue gave up and the row was
\* not marked.
KeyIsFreed ==
  \A r \in JobId : IsPending(r) ~> ~IsPending(r) \/ Abandoned(r)

=============================================================================
