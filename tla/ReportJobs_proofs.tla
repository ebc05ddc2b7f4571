-------------------------- MODULE ReportJobs_proofs --------------------------
(***************************************************************************)
(* Proofs about report generation: types, one pending report per key, a    *)
(* failed report is never retried, and no report of its own is offered     *)
(* without its PDF.                                                        *)
(***************************************************************************)
EXTENDS ReportJobs, JobQueue_proofs

USE QueueAssumption, ReportAssumption DEF QueueAssumption, ReportAssumption

-----------------------------------------------------------------------------
(* The inductive invariant.                                                *)

Added(r) == jobs[r].state # "absent"

TableTypeOK ==
  /\ row \in [JobId -> RowRecord]
  /\ files \in SUBSET JobId
  /\ request \in [Requester -> RequestRecord]
  /\ cleaner \in CleanerRecord
  /\ crashes \in 0..MaxCrashes

\* Only a row that was inserted has a job, only a job that was added has a
\* handler, and only a handler or onFailed gives a row another status.
AddedInv ==
  /\ \A h \in Requester : \A r \in request[h].rows : row[r].status # "absent"
  /\ \A r \in JobId : Added(r) => row[r].status # "absent"
  /\ \A w \in Worker : exec[w].pc # "idle" => Added(exec[w].job)
  /\ \A r \in JobId : row[r].status \in {"active"} \cup Settled => Added(r)

\* onFailed is called for jobs that failed for good.
FailInv ==
  \A r \in JobId :
    \/ failCall[r] \in {"called", "seen"}
    \/ row[r].status = "failed"
    => jobs[r].state = "failed"

\* The queue is through with the job of r, and no slot runs it any more.
Finished(r) ==
  /\ jobs[r].state \in Over
  /\ \A w \in Worker : exec[w].pc # "idle" => exec[w].job # r

\* Nothing is going on any more about what the cleanup may delete.
CleanInv ==
  /\ \A r \in JobId : row[r].done > Retention => Finished(r)
  /\ \A r \in cleaner.ids :
       Finished(r) /\ (row[r].status = "completed" => row[r].done > Retention)
  /\ cleaner.todo \cap JobId \subseteq cleaner.ids

\* A PDF is there before its report is completed, and until it expires.
FileInv ==
  /\ \A w \in Worker :
       At(w, "complete") /\ row[exec[w].job].batch = NoBatch
         => exec[w].job \in files
  /\ NoDeadLink

IInv ==
  /\ QueueInv(ReportPc)
  /\ TableTypeOK
  /\ AddedInv
  /\ OnePendingPerKey
  /\ FailInv
  /\ CleanInv
  /\ FileInv

-----------------------------------------------------------------------------
(* The operators of the table.                                             *)

\* No time has passed.
LEMMA ZeroAge == 0 \in 0..OrphanAge + 1 /\ 0 \in 0..Retention + 1
BY DEF OrphanAge

\* The new states of a row are rows.
LEMMA RowsTyped ==
  ASSUME TableTypeOK
  PROVE  /\ NoRow \in RowRecord
         /\ \A S : Deleted(S) \in [JobId -> RowRecord]
         /\ \A r \in JobId, s \in {"active", "failed"} :
              SetStatus(r, s) \in [JobId -> RowRecord]
         /\ \A r \in JobId, s \in Settled : Close(r, s) \in [JobId -> RowRecord]
         /\ \A r \in JobId : Aged(r) \in RowRecord
<1>1. NoRow \in RowRecord
  BY DEF NoRow, RowRecord, OrphanAge
<1>2. \A r \in JobId : row[r] \in RowRecord
  BY DEF TableTypeOK
<1>3. \A r \in JobId : [row[r] EXCEPT !.status = "deleted", !.age = 0, !.done = 0]
                         \in RowRecord
  BY <1>2, ZeroAge DEF RowRecord
<1>4. \A S : Deleted(S) \in [JobId -> RowRecord]
  BY <1>2, <1>3 DEF Deleted
<1>5. \A r \in JobId, s \in {"active", "failed"} :
        [row[r] EXCEPT !.status = s] \in RowRecord
  BY <1>2 DEF RowRecord, Pending, Settled
<1>6. \A r \in JobId, s \in {"active", "failed"} :
        SetStatus(r, s) \in [JobId -> RowRecord]
  BY <1>5 DEF SetStatus, TableTypeOK
<1>7. \A r \in JobId, s \in Settled :
        [row[r] EXCEPT !.status = s, !.done = 0] \in RowRecord
  BY <1>2, ZeroAge DEF RowRecord, Settled
<1>8. \A r \in JobId, s \in Settled : Close(r, s) \in [JobId -> RowRecord]
  BY <1>7 DEF Close, TableTypeOK
<1>9. \A r \in JobId : Aged(r) \in RowRecord
  <2> SUFFICES ASSUME NEW r \in JobId PROVE Aged(r) \in RowRecord
    OBVIOUS
  <2>1. row[r].age \in 0..OrphanAge + 1 /\ row[r].done \in 0..Retention + 1
    BY <1>2 DEF RowRecord
  <2>2. /\ Older(row[r].age, OrphanAge + 1) \in 0..OrphanAge + 1
        /\ Older(row[r].done, Retention + 1) \in 0..Retention + 1
        /\ 0 \in 0..OrphanAge + 1
    BY <2>1 DEF Older, OrphanAge
  <2> HIDE DEF Older
  <2> QED BY <1>2, <2>1, <2>2 DEF Aged, RowRecord
<1> QED BY <1>1, <1>4, <1>6, <1>8, <1>9

-----------------------------------------------------------------------------
(* Types, and what the queue does in a step.                               *)

\* The requests that only look at the table, or do nothing to it.
Asking(h) ==
  \/ \E k \in Key : CheckSingle(h, k)
  \/ \E S \in SUBSET Key : CheckBatch(h, S)
  \/ InsertRefused(h) \/ Refetch(h) \/ EnqueueRefused(h) \/ RequestThrows(h)

\* The handler's and the listener's steps that leave the table alone.
Working ==
  \/ \E w \in Worker, r \in JobId : TakeReport(w, r)
  \/ \E w \in Worker :
       LoadRow(w) \/ FetchData(w) \/ Return(w) \/ HandlerThrows(w)
  \/ \E r \in JobId : FailRead(r) \/ FailThrows(r) \/ StallReport(r)

\* The actions in the groups that the proofs treat alike.
LEMMA NextCases ==
  ASSUME Next
  PROVE  \/ \E h \in Requester : Asking(h) \/ EnqueueRows(h) \/ Undo(h)
         \/ \E h \in Requester : \E id \in [request[h].keys -> JobId] : Insert(h, id)
         \/ Working
         \/ \E w \in Worker : Activate(w) \/ Skip(w) \/ Complete(w)
         \/ \E w \in Worker : Upload(w) \/ UploadFails(w)
         \/ \E r \in JobId : FailMark(r)
         \/ FindExpired \/ DeleteExpired \/ SweepOrphans \/ CleanupThrows
         \/ \E p \in JobId \cup Batcher : DeleteFiles(p)
         \/ Tick \/ Crash
BY DEF Next, RequestStep, HandlerStep, FailStep, CleanerStep, Asking, Working,
       Requester

\* Asking changes only what the request knows, and not its rows.
LEMMA AskingStep ==
  ASSUME TableTypeOK, NEW h \in Requester, Asking(h)
  PROVE  /\ UNCHANGED <<queueVars, row, files, cleaner, crashes>>
         /\ request' \in [Requester -> RequestRecord]
         /\ \A g \in Requester : request'[g].rows = request[g].rows
<1>1. request[h] \in RequestRecord
  BY DEF TableTypeOK
<1>2. PICK new \in RequestRecord :
        new.rows = request[h].rows /\ request' = [request EXCEPT ![h] = new]
  <2>1. CASE \E k \in Key : CheckSingle(h, k)
    <3>1. PICK k \in Key : CheckSingle(h, k)
      BY <2>1
    <3> DEFINE new == [request[h] EXCEPT !.keys = {k},
                         !.pc = IF k \in PendingKeys THEN "accepted" ELSE "insert"]
    <3>2. new \in RequestRecord /\ new.rows = request[h].rows
      BY <1>1 DEF RequestRecord
    <3> QED BY <3>1, <3>2 DEF CheckSingle
  <2>2. CASE \E S \in SUBSET Key : CheckBatch(h, S)
    <3>1. PICK S \in SUBSET Key : CheckBatch(h, S)
      BY <2>2
    <3> DEFINE left == S \ PendingKeys
               new == [request[h] EXCEPT !.keys = left,
                         !.pc = IF left = {} THEN "accepted" ELSE "insert"]
    <3>2. new \in RequestRecord /\ new.rows = request[h].rows
      BY <1>1 DEF RequestRecord
    <3> QED BY <3>1, <3>2 DEF CheckBatch
  <2>3. CASE InsertRefused(h) \/ Refetch(h) \/ EnqueueRefused(h) \/ RequestThrows(h)
    <3>1. PICK l \in {"refetch", "conflict", "accepted", "undo", "refused"} :
            Proceed(h, l)
      BY <2>3 DEF InsertRefused, Refetch, EnqueueRefused, RequestThrows
    <3> DEFINE new == [request[h] EXCEPT !.pc = l]
    <3>2. new \in RequestRecord /\ new.rows = request[h].rows
      BY <1>1 DEF RequestRecord
    <3> QED BY <3>1, <3>2 DEF Proceed
  <2> QED BY <2>1, <2>2, <2>3 DEF Asking
<1>3. UNCHANGED <<queueVars, row, files, cleaner, crashes>>
  BY DEF Asking, CheckSingle, CheckBatch, InsertRefused, Refetch,
         EnqueueRefused, RequestThrows
<1> QED BY <1>2, <1>3 DEF TableTypeOK

\* No slot arrives at the update that completes a report.
NoneArrives ==
  \A v \in Worker : exec'[v].pc = "complete" => exec'[v] = exec[v]

\* A handler that gives up is idle.
LEMMA ThrowsArrive ==
  ASSUME QueueInv(ReportPc), NEW w \in Worker, Throw(w) \/ Finish(w)
  PROVE  NoneArrives
BY DEF QueueInv, ExecInv, Throw, Finish, Leave, Idle, NoneArrives

\* A handler that goes on arrives where it goes.
LEMMA GotoArrives ==
  ASSUME QueueInv(ReportPc), NEW w \in Worker, NEW label \in ReportPc,
         label # "complete", Goto(w, label)
  PROVE  NoneArrives
BY DEF QueueInv, ExecInv, ExecRecord, Goto, NoneArrives

\* Working is work of the queue.
LEMMA WorkingStep ==
  ASSUME QueueInv(ReportPc), Working
  PROVE  /\ QueueInv(ReportPc)' /\ QueueStep /\ NoneArrives
         /\ UNCHANGED <<row, files, request, cleaner, crashes>>
<1>1. UNCHANGED <<row, files, request, cleaner, crashes>>
  BY DEF Working, TakeReport, LoadRow, FetchData, Return, HandlerThrows,
         FailRead, FailThrows, StallReport
<1>2. CASE \E w \in Worker, r \in JobId : TakeReport(w, r)
  <2>1. PICK w \in Worker, r \in JobId : Take(w, r)
    BY <1>2 DEF TakeReport
  <2>2. NoneArrives
    BY <2>1 DEF QueueInv, ExecInv, Take, NoneArrives
  <2> QED BY <1>1, <2>1, <2>2, TakeInv, TakeStep DEF ReportPc
<1>3. CASE \E w \in Worker :
             LoadRow(w) \/ FetchData(w) \/ Return(w) \/ HandlerThrows(w)
  <2>1. PICK w \in Worker :
          LoadRow(w) \/ FetchData(w) \/ Return(w) \/ HandlerThrows(w)
    BY <1>3
  <2>2. exec[w].pc # "idle"
    BY <2>1 DEF LoadRow, FetchData, Return, HandlerThrows, At
  <2>3. \/ Throw(w) \/ Finish(w)
        \/ \E label \in {"render", "activate", "skip", "upload"} : Goto(w, label)
    BY <2>1 DEF LoadRow, FetchData, Return, HandlerThrows
  <2>4. CASE Throw(w)
    BY <1>1, <2>2, <2>4, ThrowInv, ThrowStep, ThrowsArrive DEF ReportPc
  <2>5. CASE Finish(w)
    BY <1>1, <2>2, <2>5, FinishInv, FinishStep, ThrowsArrive DEF ReportPc
  <2>6. CASE \E label \in {"render", "activate", "skip", "upload"} : Goto(w, label)
    <3>1. PICK label \in {"render", "activate", "skip", "upload"} : Goto(w, label)
      BY <2>6
    <3>2. label \in ReportPc /\ label # "complete"
      BY DEF ReportPc
    <3> QED BY <1>1, <2>2, <3>1, <3>2, GotoInv, GotoStep, GotoArrives
  <2> QED BY <2>3, <2>4, <2>5, <2>6
<1>4. CASE \E r \in JobId : FailRead(r) \/ FailThrows(r)
  <2>1. PICK r \in JobId, s \in FailCallState :
          /\ failCall[r] \in {"called", "seen"}
          /\ failCall' = [failCall EXCEPT ![r] = s]
          /\ UNCHANGED <<jobs, exec>>
    BY <1>4 DEF FailRead, FailThrows, FailCallState
  <2>2. NoneArrives
    BY <2>1 DEF NoneArrives
  <2> QED BY <1>1, <2>1, <2>2, FailCallStep, FailCallQueueStep
<1>5. CASE \E r \in JobId : StallReport(r)
  <2>1. PICK r \in JobId : Stall(r)
    BY <1>5 DEF StallReport
  <2>2. NoneArrives
    BY <2>1 DEF Stall, NoneArrives
  <2> QED BY <1>1, <2>1, <2>2, StallInv, StallStep
<1> QED BY <1>2, <1>3, <1>4, <1>5 DEF Working

\* Activating, skipping and completing change the row of the slot's report.
LEMMA UpdateStep ==
  ASSUME QueueInv(ReportPc), NEW w \in Worker,
         Activate(w) \/ Skip(w) \/ Complete(w)
  PROVE  /\ QueueInv(ReportPc)' /\ QueueStep /\ NoneArrives
         /\ UNCHANGED <<files, request, cleaner, crashes>>
         /\ exec[w].pc # "idle" /\ exec[w].job \in JobId
         /\ \/ UNCHANGED row
            \/ /\ row' = SetStatus(RowOf(w), "active")
               /\ ~Exists(RowOf(w)) \/ IsPending(RowOf(w)) \/ IndexFree(RowOf(w))
            \/ row' = Close(RowOf(w), "skipped")
            \/ row' = Close(RowOf(w), "completed") /\ At(w, "complete")
<1>1. exec[w].pc # "idle" /\ exec[w].job \in JobId
  BY DEF Activate, Skip, Complete, At, QueueInv, ExecInv
<1>2. Throw(w) \/ \E label \in {"render", "return"} : Goto(w, label)
  BY DEF Activate, Skip, Complete
<1>3. QueueInv(ReportPc)' /\ QueueStep /\ NoneArrives
  <2>1. CASE Throw(w)
    BY <1>1, <2>1, ThrowInv, ThrowStep, ThrowsArrive DEF ReportPc
  <2>2. CASE \E label \in {"render", "return"} : Goto(w, label)
    <3>1. PICK label \in {"render", "return"} : Goto(w, label)
      BY <2>2
    <3>2. label \in ReportPc /\ label # "complete"
      BY DEF ReportPc
    <3> QED BY <1>1, <3>1, <3>2, GotoInv, GotoStep, GotoArrives
  <2> QED BY <1>2, <2>1, <2>2
<1> QED BY <1>1, <1>3 DEF Activate, Skip, Complete

\* An upload that succeeds stores the PDF of the slot's report; one that fails
\* may have stored it.
LEMMA UploadStep ==
  ASSUME QueueInv(ReportPc), NEW w \in Worker, Upload(w) \/ UploadFails(w)
  PROVE  /\ QueueInv(ReportPc)' /\ QueueStep
         /\ UNCHANGED <<row, request, cleaner, crashes>>
         /\ exec[w].pc # "idle" /\ exec[w].job \in JobId
         /\ files \subseteq files' /\ files' \subseteq files \cup {exec[w].job}
         /\ \A v \in Worker : exec'[v].pc = "complete" =>
              \/ exec'[v] = exec[v]
              \/ exec'[v].job = exec[w].job /\ exec[w].job \in files'
<1>1. exec[w].pc # "idle" /\ exec[w].job \in JobId
  BY DEF Upload, UploadFails, At, QueueInv, ExecInv
<1>2. CASE Upload(w)
  <2>1. Goto(w, "complete") /\ files' = files \cup {exec[w].job}
    BY <1>2 DEF Upload, RowOf
  <2>2. QueueInv(ReportPc)' /\ QueueStep
    BY <1>1, <2>1, GotoInv, GotoStep DEF ReportPc
  <2>3. \A v \in Worker : exec'[v].job = exec[v].job /\ (v # w => exec'[v] = exec[v])
    BY <2>1 DEF Goto, QueueInv, ExecInv, ExecRecord
  <2> QED BY <1>1, <1>2, <2>1, <2>2, <2>3 DEF Upload
<1>3. CASE UploadFails(w)
  <2>1. Throw(w) /\ files' \in {files, files \cup {exec[w].job}}
    BY <1>3 DEF UploadFails, RowOf
  <2>2. QueueInv(ReportPc)' /\ QueueStep /\ NoneArrives
    BY <1>1, <2>1, ThrowInv, ThrowStep, ThrowsArrive DEF ReportPc
  <2> QED BY <1>1, <1>3, <2>1, <2>2 DEF UploadFails, NoneArrives
<1> QED BY <1>2, <1>3

\* A job that is added was inserted, and only the added jobs change.
LEMMA EnqueueStep ==
  ASSUME QueueInv(ReportPc), TableTypeOK, NEW h \in Requester, EnqueueRows(h)
  PROVE  /\ QueueInv(ReportPc)'
         /\ UNCHANGED <<exec, failCall, row, files, cleaner, crashes>>
         /\ request' \in [Requester -> RequestRecord]
         /\ \A g \in Requester : request'[g].rows = request[g].rows
         /\ \A j \in JobId : Added(j) => jobs'[j] = jobs[j]
         /\ \A j \in JobId : j \notin request[h].rows => jobs'[j] = jobs[j]
<1>1. request[h] \in RequestRecord
  BY DEF TableTypeOK
<1>2. 1 \in Run
  BY DEF Run
<1>3. \A j \in JobId : JobsInv(Enqueue(jobs, j, 1))
  BY <1>2, EnqueueInv DEF QueueInv
<1>4. \A j \in JobId : /\ Enqueue(jobs, j, 1)[j] \in JobRecord
                       /\ WellFormed(Enqueue(jobs, j, 1)[j])
  BY <1>3 DEF JobsInv
<1>5. JobsInv(jobs')
  <2>1. \A j \in JobId : jobs'[j] \in JobRecord /\ WellFormed(jobs'[j])
    BY <1>4, JobFields DEF QueueInv, EnqueueRows
  <2>2. jobs' \in [JobId -> JobRecord]
    BY <2>1 DEF EnqueueRows
  <2> QED BY <2>1, <2>2 DEF JobsInv
<1>6. QueueInv(ReportPc)'
  BY <1>5 DEF QueueInv, ExecInv, FailCallInv, EnqueueRows
<1>7. \A j \in JobId : Added(j) => jobs'[j] = jobs[j]
  BY DEF EnqueueRows, Enqueue, Added
<1>8. \A j \in JobId : j \notin request[h].rows => jobs'[j] = jobs[j]
  BY DEF EnqueueRows
<1> DEFINE new == [request[h] EXCEPT !.pc = "accepted"]
<1>9. new \in RequestRecord /\ new.rows = request[h].rows
  BY <1>1 DEF RequestRecord
<1>10. request' = [request EXCEPT ![h] = new]
  BY DEF EnqueueRows, Proceed
<1> QED BY <1>6, <1>7, <1>8, <1>9, <1>10 DEF TableTypeOK, EnqueueRows

\* An inserted row is new, waits, and has the key that its id was given for.
LEMMA InsertStep ==
  ASSUME TableTypeOK, NEW h \in Requester, NEW id \in [request[h].keys -> JobId],
         Insert(h, id)
  PROVE  /\ UNCHANGED <<queueVars, files, cleaner, crashes>>
         /\ row' \in [JobId -> RowRecord]
         /\ request' \in [Requester -> RequestRecord]
         /\ \A g \in Requester : g # h => request'[g] = request[g]
         /\ \A r \in request'[h].rows : row'[r].status = "waiting"
         /\ request[h].keys \cap PendingKeys = {}
         /\ \A r \in JobId :
              \/ row'[r] = row[r]
              \/ /\ row[r].status = "absent" /\ row'[r].status = "waiting"
                 /\ row'[r].done = 0
                 /\ row'[r].key \in request[h].keys /\ id[row'[r].key] = r
<1> DEFINE keys == request[h].keys
           new == {id[k] : k \in keys}
           keyOf(r) == CHOOSE k \in keys : id[k] = r
           next == [request[h] EXCEPT !.pc = "enqueue", !.rows = new]
<1>1. request[h] \in RequestRecord /\ keys \subseteq Key
  BY DEF TableTypeOK, RequestRecord
<1>2. new \subseteq JobId
  OBVIOUS
<1>3. \A r \in new : keyOf(r) \in keys /\ id[keyOf(r)] = r
  OBVIOUS
<1>4. \A k \in Key : /\ NewRow(h, k) \in RowRecord /\ NewRow(h, k).status = "waiting"
                     /\ NewRow(h, k).done = 0 /\ NewRow(h, k).key = k
  BY ZeroAge DEF NewRow, NoRow, RowRecord, Pending, Requester
<1>5. row' = [r \in JobId |-> IF r \in new THEN NewRow(h, keyOf(r)) ELSE row[r]]
  BY DEF Insert
<1>6. \A r \in new : row[r].status = "absent" /\ row'[r] = NewRow(h, keyOf(r))
  BY <1>2, <1>5 DEF Insert
<1>7. \A r \in JobId \ new : row'[r] = row[r]
  BY <1>5
<1>8. \A r \in JobId : row'[r] \in RowRecord
  BY <1>1, <1>3, <1>4, <1>6, <1>7 DEF TableTypeOK
<1>9. row' \in [JobId -> RowRecord]
  BY <1>5, <1>8
<1>10. next \in RequestRecord /\ next.rows = new
  BY <1>1, <1>2 DEF RequestRecord
<1>11. request' = [request EXCEPT ![h] = next]
  BY DEF Insert
<1>12. /\ request' \in [Requester -> RequestRecord]
       /\ request'[h].rows = new
       /\ \A g \in Requester : g # h => request'[g] = request[g]
  BY <1>10, <1>11 DEF TableTypeOK
<1>13. \A r \in new : /\ row'[r].status = "waiting" /\ row'[r].done = 0
                      /\ row'[r].key \in keys /\ id[row'[r].key] = r
  BY <1>1, <1>3, <1>4, <1>6
<1>14. \A r \in request'[h].rows : row'[r].status = "waiting"
  BY <1>12, <1>13
<1>15. \A r \in JobId :
         \/ row'[r] = row[r]
         \/ /\ row[r].status = "absent" /\ row'[r].status = "waiting"
            /\ row'[r].done = 0
            /\ row'[r].key \in keys /\ id[row'[r].key] = r
  BY <1>6, <1>7, <1>13
<1>16. UNCHANGED <<queueVars, files, cleaner, crashes>> /\ keys \cap PendingKeys = {}
  BY DEF Insert
<1> QED BY <1>9, <1>12, <1>14, <1>15, <1>16

\* The compensation deletes rows and ends the request.
LEMMA UndoStep ==
  ASSUME TableTypeOK, NEW h \in Requester, Undo(h)
  PROVE  /\ UNCHANGED <<queueVars, files, cleaner, crashes>>
         /\ row' = Deleted(request[h].rows)
         /\ request' \in [Requester -> RequestRecord]
         /\ \A g \in Requester : request'[g].rows = request[g].rows
<1> DEFINE new == [request[h] EXCEPT !.pc = "refused"]
<1>1. new \in RequestRecord /\ new.rows = request[h].rows
  BY DEF TableTypeOK, RequestRecord
<1>2. request' = [request EXCEPT ![h] = new]
  BY DEF Undo, Proceed
<1> QED BY <1>1, <1>2 DEF TableTypeOK, Undo

\* The prefixes of rows are rows and batches.
LEMMA PrefixTyped ==
  ASSUME TableTypeOK, NEW r \in JobId
  PROVE  Prefix(r) \in JobId \cup Batcher
BY DEF TableTypeOK, RowRecord, Prefix

\* What the cleanup does to the table, to its own state and to the files.
LEMMA CleanupStep ==
  ASSUME TableTypeOK,
         \/ FindExpired \/ DeleteExpired \/ SweepOrphans \/ CleanupThrows
         \/ \E p \in JobId \cup Batcher : DeleteFiles(p)
  PROVE  /\ UNCHANGED <<queueVars, request, crashes>>
         /\ cleaner' \in CleanerRecord
         /\ \/ UNCHANGED row
            \/ row' = Deleted(cleaner.ids) /\ UNCHANGED files
            \/ row' = Deleted({r \in JobId : Orphan(r)}) /\ UNCHANGED files
         /\ \/ UNCHANGED files
            \/ /\ UNCHANGED row
               /\ \E p \in cleaner.todo : files' = files \ {r \in files : Prefix(r) = p}
         /\ \/ cleaner'.ids = {} /\ cleaner'.todo = {}
            \/ /\ cleaner'.ids = {r \in JobId : Expired(r)}
               /\ cleaner'.todo = {Prefix(r) : r \in cleaner'.ids}
               /\ UNCHANGED <<row, files>>
            \/ cleaner'.ids = cleaner.ids /\ cleaner'.todo \subseteq cleaner.todo
               /\ UNCHANGED row
<1>1. cleaner \in CleanerRecord
  BY DEF TableTypeOK
<1>2. \A due \in BOOLEAN : /\ Asleep(due) \in CleanerRecord
                          /\ Asleep(due).ids = {} /\ Asleep(due).todo = {}
  BY DEF Asleep, CleanerRecord
<1>3. CASE FindExpired
  <2> DEFINE found == {r \in JobId : Expired(r)}
             todo == {Prefix(r) : r \in found}
             new == [pc |-> "purge", due |-> TRUE, ids |-> found, todo |-> todo]
  <2>1. todo \subseteq JobId \cup Batcher
    BY PrefixTyped
  <2>2. new \in CleanerRecord /\ new.ids = found /\ new.todo = todo
    BY <2>1 DEF CleanerRecord
  <2>3. cleaner' = new
    BY <1>3 DEF FindExpired
  <2> HIDE DEF new
  <2>4. cleaner'.ids = found /\ cleaner'.todo = {Prefix(r) : r \in cleaner'.ids}
    BY <2>2, <2>3
  <2> QED BY <1>3, <2>2, <2>3, <2>4 DEF FindExpired
<1>4. CASE DeleteExpired
  <2> DEFINE new == [cleaner EXCEPT !.pc = "sweep", !.ids = {}]
  <2>1. new \in CleanerRecord /\ new.ids = {} /\ new.todo = {}
    BY <1>1, <1>4 DEF CleanerRecord, DeleteExpired
  <2> QED BY <1>4, <2>1 DEF DeleteExpired
<1>5. CASE SweepOrphans
  BY <1>2, <1>5 DEF SweepOrphans
<1>6. CASE CleanupThrows
  BY <1>2, <1>6 DEF CleanupThrows
<1>7. CASE \E p \in JobId \cup Batcher : DeleteFiles(p)
  <2>1. PICK p \in JobId \cup Batcher : DeleteFiles(p)
    BY <1>7
  <2> DEFINE new == [cleaner EXCEPT !.todo = @ \ {p}]
  <2>2. /\ new \in CleanerRecord /\ new.ids = cleaner.ids
        /\ new.todo \subseteq cleaner.todo
    BY <1>1 DEF CleanerRecord
  <2>3. /\ cleaner' = new /\ UNCHANGED row /\ p \in cleaner.todo
        /\ UNCHANGED <<queueVars, request, crashes>>
    BY <2>1 DEF DeleteFiles
  <2>4. files' = files \/ files' = files \ {r \in files : Prefix(r) = p}
    BY <2>1 DEF DeleteFiles
  <2> HIDE DEF new
  <2> QED BY <2>2, <2>3, <2>4
<1> QED BY <1>3, <1>4, <1>5, <1>6, <1>7

\* Time only ages rows, and only when nothing is under way.
LEMMA TickStep ==
  ASSUME TableTypeOK, Tick
  PROVE  /\ UNCHANGED <<queueVars, files, request, crashes>>
         /\ row' \in [JobId -> RowRecord]
         /\ cleaner' \in CleanerRecord /\ cleaner'.ids = {} /\ cleaner'.todo = {}
         /\ \A w \in Worker : exec[w].pc = "idle"
         /\ \A r \in JobId :
              /\ row'[r].status = row[r].status
              /\ row'[r].key = row[r].key
              /\ row'[r].batch = row[r].batch
              /\ row'[r].done >= row[r].done
              /\ row'[r].done # row[r].done =>
                   /\ row[r].status \in Settled
                   /\ jobs[r].state \notin {"waiting", "active"}
<1>1. cleaner' \in CleanerRecord /\ cleaner'.ids = {} /\ cleaner'.todo = {}
  BY DEF Tick, Asleep, CleanerRecord
<1>2. \A r \in JobId : row[r] \in RowRecord /\ row[r].done \in Nat
  BY DEF TableTypeOK, RowRecord
<1>3. \A r \in JobId :
        /\ Aged(r).status = row[r].status
        /\ Aged(r).key = row[r].key
        /\ Aged(r).batch = row[r].batch
        /\ \/ Aged(r).done = row[r].done
           \/ /\ row[r].status \in Settled
              /\ jobs[r].state \notin {"waiting", "active"}
              /\ Aged(r).done = Older(row[r].done, Retention + 1)
  BY <1>2 DEF Aged, RowRecord
<1>4. \A r \in JobId : Older(row[r].done, Retention + 1) >= row[r].done
  BY <1>2 DEF Older
<1>5. \A r \in JobId : row'[r] = Aged(r)
  BY DEF Tick
<1>6. row' \in [JobId -> RowRecord]
  BY RowsTyped DEF Tick
<1>7. \A r \in JobId : row[r].done >= row[r].done
  BY <1>2
<1>8. \A w \in Worker : exec[w].pc = "idle"
  BY DEF Tick, Quiet, At
<1> QED BY <1>1, <1>3, <1>4, <1>5, <1>6, <1>7, <1>8 DEF Tick

\* A crash leaves the table and the files.
LEMMA CrashStep ==
  ASSUME QueueInv(ReportPc), TableTypeOK, Crash
  PROVE  /\ QueueInv(ReportPc)' /\ QueueStep
         /\ UNCHANGED <<row, files>>
         /\ \A w \in Worker : exec'[w].pc = "idle"
         /\ request' \in [Requester -> RequestRecord]
         /\ \A g \in Requester : request'[g].rows = request[g].rows
         /\ cleaner' \in CleanerRecord /\ cleaner'.ids = {} /\ cleaner'.todo = {}
         /\ crashes' \in 0..MaxCrashes
<1>1. QueueInv(ReportPc)' /\ QueueStep
  BY QueueCrashInv, QueueCrashStep DEF Crash, ReportPc
<1>2. \A w \in Worker : exec'[w].pc = "idle"
  BY DEF Crash, QueueCrash, Idle
<1>3. \A h \in Requester :
        /\ request[h] \in RequestRecord
        /\ [request[h] EXCEPT !.pc = "refused"] \in RequestRecord
        /\ [request[h] EXCEPT !.pc = "refused"].rows = request[h].rows
  BY DEF TableTypeOK, RequestRecord
<1>4. /\ request' \in [Requester -> RequestRecord]
      /\ \A g \in Requester : request'[g].rows = request[g].rows
  BY <1>3 DEF Crash
<1>5. cleaner' \in CleanerRecord /\ cleaner'.ids = {} /\ cleaner'.todo = {}
  BY DEF Crash, Asleep, CleanerRecord
<1>6. crashes' \in 0..MaxCrashes
  BY DEF Crash, TableTypeOK
<1> QED BY <1>1, <1>2, <1>4, <1>5, <1>6 DEF Crash

\* onFailed marks the row of a job that it was called for.
LEMMA MarkStep ==
  ASSUME QueueInv(ReportPc), NEW r \in JobId, FailMark(r)
  PROVE  /\ QueueInv(ReportPc)' /\ QueueStep /\ NoneArrives
         /\ UNCHANGED <<jobs, exec, files, request, cleaner, crashes>>
         /\ row' = SetStatus(r, "failed") /\ failCall[r] = "seen"
<1>1. QueueInv(ReportPc)' /\ QueueStep
  BY FailCallStep, FailCallQueueStep DEF FailMark, FailCallState
<1> QED BY <1>1 DEF FailMark, NoneArrives

TypeInv == QueueInv(ReportPc) /\ TableTypeOK

\* The type invariant holds initially.
LEMMA TypeInit == Init => TypeInv
<1> SUFFICES ASSUME Init PROVE TypeInv
  OBVIOUS
<1>1. QueueInv(ReportPc)
  BY QueueInitInv DEF Init, ReportPc
<1>2. NoRow \in RowRecord
  BY ZeroAge DEF NoRow, RowRecord
<1>3. [pc |-> "idle", keys |-> {}, rows |-> {}] \in RequestRecord
  BY DEF RequestRecord
<1>4. Asleep(FALSE) \in CleanerRecord
  BY DEF Asleep, CleanerRecord
<1>5. row \in [JobId -> RowRecord]
  BY <1>2 DEF Init
<1>6. request \in [Requester -> RequestRecord]
  BY <1>3 DEF Init
<1>7. crashes \in 0..MaxCrashes
  BY DEF Init
<1>8. TableTypeOK
  BY <1>4, <1>5, <1>6, <1>7 DEF Init, TableTypeOK
<1> QED BY <1>1, <1>8 DEF TypeInv

\* Every step keeps the types.
LEMMA TypeStep == TypeInv /\ [Next]_vars => TypeInv'
<1> SUFFICES ASSUME TypeInv, [Next]_vars PROVE TypeInv'
  OBVIOUS
<1> USE DEF TypeInv
<1>1. CASE UNCHANGED vars
  BY <1>1, QueueStutter DEF TableTypeOK, vars
<1>2. CASE \E h \in Requester : Asking(h)
  BY <1>2, AskingStep, QueueStutter DEF TableTypeOK
<1>3. CASE \E h \in Requester : EnqueueRows(h)
  BY <1>3, EnqueueStep DEF TableTypeOK
<1>4. CASE \E h \in Requester : Undo(h)
  BY <1>4, UndoStep, RowsTyped, QueueStutter DEF TableTypeOK
<1>5. CASE \E h \in Requester : \E id \in [request[h].keys -> JobId] : Insert(h, id)
  BY <1>5, InsertStep, QueueStutter DEF TableTypeOK
<1>6. CASE Working
  BY <1>6, WorkingStep DEF TableTypeOK
<1>7. CASE \E w \in Worker : Activate(w) \/ Skip(w) \/ Complete(w)
  <2>1. PICK w \in Worker : Activate(w) \/ Skip(w) \/ Complete(w)
    BY <1>7
  <2>2. RowOf(w) \in JobId
    BY <2>1, UpdateStep DEF RowOf
  <2>3. \/ UNCHANGED row
        \/ row' = SetStatus(RowOf(w), "active")
        \/ \E s \in Settled : row' = Close(RowOf(w), s)
    BY <2>1, UpdateStep DEF Settled
  <2>4. row' \in [JobId -> RowRecord]
    <3>1. CASE UNCHANGED row
      BY <3>1 DEF TableTypeOK
    <3>2. CASE row' = SetStatus(RowOf(w), "active")
      BY <2>2, <3>2, RowsTyped
    <3>3. CASE \E s \in Settled : row' = Close(RowOf(w), s)
      BY <2>2, <3>3, RowsTyped
    <3> QED BY <2>3, <3>1, <3>2, <3>3
  <2> QED BY <2>1, <2>4, UpdateStep DEF TableTypeOK
<1>8. CASE \E w \in Worker : Upload(w) \/ UploadFails(w)
  BY <1>8, UploadStep DEF TableTypeOK
<1>9. CASE \E r \in JobId : FailMark(r)
  BY <1>9, MarkStep, RowsTyped DEF TableTypeOK
<1>10. CASE \/ FindExpired \/ DeleteExpired \/ SweepOrphans \/ CleanupThrows
            \/ \E p \in JobId \cup Batcher : DeleteFiles(p)
  BY <1>10, CleanupStep, RowsTyped, QueueStutter DEF TableTypeOK
<1>11. CASE Tick
  BY <1>11, TickStep, QueueStutter DEF TableTypeOK
<1>12. CASE Crash
  BY <1>12, CrashStep DEF TableTypeOK
<1> QED BY <1>1, <1>2, <1>3, <1>4, <1>5, <1>6, <1>7, <1>8, <1>9, <1>10, <1>11,
           <1>12, NextCases

-----------------------------------------------------------------------------
(* What every step does to jobs, slots, rows and files.                    *)

\* As QueueStep, but a request may add the jobs of its rows.
JobsStep ==
  /\ \A j \in JobId : Added(j) => jobs'[j].state # "absent"
  /\ \A j \in JobId : jobs'[j].state # "absent" =>
       Added(j) \/ \E h \in Requester : j \in request[h].rows
  /\ \A j \in JobId : jobs[j].state \in Over => jobs'[j].state = jobs[j].state
  /\ \A w \in Worker : exec'[w].pc # "idle" =>
       \/ exec[w].pc # "idle" /\ exec'[w].job = exec[w].job
       \/ jobs[exec'[w].job].state = "waiting"
  /\ \A j \in JobId : failCall'[j] \in {"called", "seen"} =>
       failCall[j] \in {"called", "seen"} \/ jobs'[j].state = "failed"

\* Rows stay in the table with their key and batch; they are settled for jobs
\* that were added, failed for jobs that failed, completed by a slot.
RowsStep ==
  /\ \A r \in JobId : row[r].status # "absent" =>
       /\ row'[r].status # "absent"
       /\ row'[r].batch = row[r].batch
       /\ row'[r].key = row[r].key
  /\ \A r \in JobId : row'[r].status \in {"active"} \cup Settled =>
       row'[r].status = row[r].status \/ Added(r)
  /\ \A r \in JobId : row'[r].status = "failed" =>
       row[r].status = "failed" \/ jobs[r].state = "failed"
  /\ \A r \in JobId : row'[r].status = "completed" =>
       \/ row[r].status = "completed" /\ row'[r].done >= row[r].done
       \/ \E w \in Worker : At(w, "complete") /\ exec[w].job = r
  /\ \A r \in JobId :
       \/ row[r].done >= row'[r].done
       \/ /\ row[r].status \in Settled
          /\ jobs[r].state \notin {"waiting", "active"}
          /\ jobs' = jobs
          /\ \A w \in Worker : exec'[w].pc = "idle"

\* The rows of a request were inserted.
RequestStepOK ==
  \A h \in Requester : \A r \in request'[h].rows :
    r \in request[h].rows \/ row'[r].status # "absent"

\* Files come with an upload, and go with a prefix of the cleanup.
FilesStep ==
  /\ \/ files \subseteq files'
     \/ \E p \in cleaner.todo : files' = files \ {r \in files : Prefix(r) = p}
  /\ \A w \in Worker : exec'[w].pc = "complete" =>
       exec'[w] = exec[w] \/ exec'[w].job \in files'

\* The cleanup forgets, finds what has expired, or goes on.
CleanerStepOK ==
  \/ cleaner'.ids = {} /\ cleaner'.todo = {}
  \/ /\ cleaner'.ids = {r \in JobId : Expired(r)}
     /\ cleaner'.todo = {Prefix(r) : r \in cleaner'.ids}
     /\ UNCHANGED <<queueVars, row, files>>
  \/ cleaner'.ids = cleaner.ids /\ cleaner'.todo \subseteq cleaner.todo

EveryStep ==
  JobsStep /\ RowsStep /\ RequestStepOK /\ FilesStep /\ CleanerStepOK

\* The fields of a row are what they are.
LEMMA RowFields ==
  ASSUME TableTypeOK, NEW r \in JobId
  PROVE  /\ row[r] \in RowRecord
         /\ row[r].done \in Nat /\ row[r].done >= 0 /\ row[r].done >= row[r].done
BY DEF TableTypeOK, RowRecord

\* What an update leaves and what it sets.
LEMMA UpdatedFields ==
  ASSUME NEW x \in RowRecord, NEW s
  PROVE  /\ LET y == [x EXCEPT !.status = s]
            IN  y.status = s /\ y.key = x.key /\ y.batch = x.batch /\ y.done = x.done
         /\ LET y == [x EXCEPT !.status = s, !.done = 0]
            IN  y.status = s /\ y.key = x.key /\ y.batch = x.batch /\ y.done = 0
         /\ LET y == [x EXCEPT !.status = s, !.age = 0, !.done = 0]
            IN  y.status = s /\ y.key = x.key /\ y.batch = x.batch /\ y.done = 0
BY DEF RowRecord

\* Rows that do not change do nothing.
LEMMA SameRows ==
  ASSUME TableTypeOK, UNCHANGED row
  PROVE  RowsStep
BY RowFields DEF RowsStep

\* What a deleted row keeps.
LEMMA DeletedFields ==
  ASSUME TableTypeOK, NEW S, row' = Deleted(S), NEW r \in JobId, row'[r] # row[r]
  PROVE  /\ row'[r].status = "deleted" /\ row'[r].batch = row[r].batch
         /\ row'[r].key = row[r].key /\ row[r].done >= row'[r].done
<1>1. row'[r] = [row[r] EXCEPT !.status = "deleted", !.age = 0, !.done = 0]
  BY DEF Deleted
<1> QED BY <1>1, RowFields, UpdatedFields

\* What a row with a new status keeps.
LEMMA StatusFields ==
  ASSUME TableTypeOK, NEW q \in JobId, NEW s, row' = SetStatus(q, s),
         NEW r \in JobId, row'[r] # row[r]
  PROVE  /\ r = q /\ Exists(q) /\ row'[r].status = s /\ row'[r].batch = row[r].batch
         /\ row'[r].key = row[r].key /\ row[r].done = row'[r].done
<1>1. r = q /\ Exists(q) /\ row'[r] = [row[r] EXCEPT !.status = s]
  BY DEF TableTypeOK, SetStatus
<1> QED BY <1>1, RowFields, UpdatedFields

\* What a closed row keeps.
LEMMA ClosedFields ==
  ASSUME TableTypeOK, NEW q \in JobId, NEW s, row' = Close(q, s),
         NEW r \in JobId, row'[r] # row[r]
  PROVE  /\ r = q /\ row'[r].status = s /\ row'[r].batch = row[r].batch
         /\ row'[r].key = row[r].key /\ row'[r].done = 0
<1>1. r = q /\ row'[r] = [row[r] EXCEPT !.status = s, !.done = 0]
  BY DEF TableTypeOK, Close
<1> QED BY <1>1, RowFields, UpdatedFields

\* Deleting rows settles none.
LEMMA DeletedRows ==
  ASSUME TableTypeOK, NEW S, row' = Deleted(S)
  PROVE  RowsStep
<1>1. \A r \in JobId :
        \/ row'[r] = row[r]
        \/ /\ row'[r].status = "deleted" /\ row'[r].batch = row[r].batch
           /\ row'[r].key = row[r].key /\ row[r].done >= row'[r].done
  BY DeletedFields
<1> QED BY <1>1, RowFields DEF RowsStep, Settled

\* A status is set for a job that was added.
LEMMA StatusRows ==
  ASSUME TableTypeOK, NEW q \in JobId, NEW s \in {"active", "failed"}, Added(q),
         s = "failed" => jobs[q].state = "failed",
         row' = SetStatus(q, s)
  PROVE  RowsStep
<1>1. \A r \in JobId :
        \/ row'[r] = row[r]
        \/ /\ r = q /\ row'[r].status = s /\ row'[r].batch = row[r].batch
           /\ row'[r].key = row[r].key /\ row[r].done = row'[r].done
  BY StatusFields
<1>2. s # "absent" /\ s # "completed"
  OBVIOUS
<1> QED BY <1>1, <1>2, RowFields DEF RowsStep, Settled

\* So is a report closed.
LEMMA ClosedRows ==
  ASSUME TableTypeOK, NEW q \in JobId, NEW s \in {"skipped", "completed"}, Added(q),
         s = "completed" => \E w \in Worker : At(w, "complete") /\ exec[w].job = q,
         row' = Close(q, s)
  PROVE  RowsStep
<1>1. \A r \in JobId :
        \/ row'[r] = row[r]
        \/ /\ r = q /\ row'[r].status = s /\ row'[r].batch = row[r].batch
           /\ row'[r].key = row[r].key /\ row'[r].done = 0
  BY ClosedFields
<1>2. s # "absent" /\ s # "failed"
  OBVIOUS
<1> QED BY <1>1, <1>2, RowFields DEF RowsStep, Settled

\* The queue's own steps are steps of jobs.
LEMMA QueueIsJobs ==
  ASSUME QueueStep
  PROVE  JobsStep
BY DEF QueueStep, JobsStep, Added

\* Slots that do not change, or do not arrive, need no file.
LEMMA SameFiles ==
  ASSUME UNCHANGED files, UNCHANGED exec \/ NoneArrives
  PROVE  FilesStep
BY DEF FilesStep, NoneArrives

\* Every step is of this kind.
LEMMA StepFacts ==
  ASSUME TypeInv, AddedInv, FailInv, [Next]_vars
  PROVE  EveryStep
<1> USE DEF TypeInv
<1>1. CASE UNCHANGED vars
  <2>1. UNCHANGED <<queueVars, row, files, request, cleaner, exec>>
    BY <1>1 DEF vars, queueVars
  <2> QED BY <2>1, NoQueueStep, QueueIsJobs, SameRows, SameFiles
          DEF EveryStep, RequestStepOK, CleanerStepOK
<1>2. CASE \E h \in Requester : Asking(h)
  <2>1. /\ UNCHANGED <<queueVars, row, files, cleaner, exec>>
        /\ \A g \in Requester : request'[g].rows = request[g].rows
    BY <1>2, AskingStep DEF queueVars
  <2> QED BY <2>1, NoQueueStep, QueueIsJobs, SameRows, SameFiles
          DEF EveryStep, RequestStepOK, CleanerStepOK
<1>3. CASE \E h \in Requester : EnqueueRows(h)
  <2>1. PICK h \in Requester : EnqueueRows(h)
    BY <1>3
  <2>2. /\ UNCHANGED <<exec, failCall, row, files, cleaner>>
        /\ \A g \in Requester : request'[g].rows = request[g].rows
        /\ \A j \in JobId : Added(j) => jobs'[j] = jobs[j]
        /\ \A j \in JobId : j \notin request[h].rows => jobs'[j] = jobs[j]
    BY <2>1, EnqueueStep
  <2>3. JobsStep
    BY <2>2 DEF JobsStep, Added, Over
  <2> QED BY <2>2, <2>3, SameRows, SameFiles
          DEF EveryStep, RequestStepOK, CleanerStepOK
<1>4. CASE \E h \in Requester : Undo(h)
  <2>1. PICK h \in Requester : Undo(h)
    BY <1>4
  <2>2. /\ UNCHANGED <<queueVars, files, cleaner, exec>>
        /\ row' = Deleted(request[h].rows)
        /\ \A g \in Requester : request'[g].rows = request[g].rows
    BY <2>1, UndoStep DEF queueVars
  <2> QED BY <2>2, NoQueueStep, QueueIsJobs, DeletedRows, SameFiles
          DEF EveryStep, RequestStepOK, CleanerStepOK
<1>5. CASE \E h \in Requester : \E id \in [request[h].keys -> JobId] : Insert(h, id)
  <2>1. PICK h \in Requester : \E id \in [request[h].keys -> JobId] : Insert(h, id)
    BY <1>5
  <2>2. /\ UNCHANGED <<queueVars, files, cleaner, exec>>
        /\ \A g \in Requester : g # h => request'[g] = request[g]
        /\ \A r \in request'[h].rows : row'[r].status = "waiting"
        /\ \A r \in JobId :
             \/ row'[r] = row[r]
             \/ /\ row[r].status = "absent" /\ row'[r].status = "waiting"
                /\ row'[r].done = 0
    BY <2>1, InsertStep DEF queueVars
  <2>3. RowsStep
    BY <2>2, RowFields DEF RowsStep, Settled
  <2>4. RequestStepOK
    BY <2>2 DEF RequestStepOK
  <2> QED BY <2>2, <2>3, <2>4, NoQueueStep, QueueIsJobs, SameFiles
          DEF EveryStep, CleanerStepOK
<1>6. CASE Working
  BY <1>6, WorkingStep, QueueIsJobs, SameRows, SameFiles
     DEF EveryStep, RequestStepOK, CleanerStepOK
<1>7. CASE \E w \in Worker : Activate(w) \/ Skip(w) \/ Complete(w)
  <2>1. PICK w \in Worker : Activate(w) \/ Skip(w) \/ Complete(w)
    BY <1>7
  <2> DEFINE r == exec[w].job
  <2>2. /\ QueueStep /\ NoneArrives
        /\ UNCHANGED <<files, request, cleaner>>
        /\ exec[w].pc # "idle" /\ r \in JobId
        /\ \/ UNCHANGED row
           \/ row' = SetStatus(r, "active")
           \/ row' = Close(r, "skipped")
           \/ row' = Close(r, "completed") /\ At(w, "complete")
    BY <2>1, UpdateStep DEF RowOf
  <2>3. Added(r)
    BY <2>2 DEF AddedInv
  <2>4. RowsStep
    <3>1. CASE UNCHANGED row
      BY <3>1, SameRows
    <3>2. CASE row' = SetStatus(r, "active")
      BY <2>2, <2>3, <3>2, StatusRows
    <3>3. CASE row' = Close(r, "skipped")
      BY <2>2, <2>3, <3>3, ClosedRows
    <3>4. CASE row' = Close(r, "completed") /\ At(w, "complete")
      BY <2>2, <2>3, <3>4, ClosedRows
    <3> QED BY <2>2, <3>1, <3>2, <3>3, <3>4
  <2> QED BY <2>2, <2>4, QueueIsJobs, SameFiles
          DEF EveryStep, RequestStepOK, CleanerStepOK
<1>8. CASE \E w \in Worker : Upload(w) \/ UploadFails(w)
  <2>1. PICK w \in Worker : Upload(w) \/ UploadFails(w)
    BY <1>8
  <2>2. QueueStep /\ UNCHANGED <<row, request, cleaner>>
    BY <2>1, UploadStep
  <2>3. FilesStep
    BY <2>1, UploadStep DEF FilesStep
  <2> QED BY <2>2, <2>3, QueueIsJobs, SameRows
          DEF EveryStep, RequestStepOK, CleanerStepOK
<1>9. CASE \E r \in JobId : FailMark(r)
  <2>1. PICK r \in JobId : FailMark(r)
    BY <1>9
  <2>2. /\ QueueStep /\ NoneArrives /\ UNCHANGED <<files, request, cleaner>>
        /\ row' = SetStatus(r, "failed") /\ failCall[r] = "seen"
    BY <2>1, MarkStep
  <2>3. jobs[r].state = "failed" /\ Added(r)
    BY <2>2 DEF FailInv, Added
  <2> QED BY <2>2, <2>3, QueueIsJobs, StatusRows, SameFiles
          DEF EveryStep, RequestStepOK, CleanerStepOK
<1>10. CASE \/ FindExpired \/ DeleteExpired \/ SweepOrphans \/ CleanupThrows
            \/ \E p \in JobId \cup Batcher : DeleteFiles(p)
  <2>1. UNCHANGED <<queueVars, request, exec>>
    BY <1>10, CleanupStep DEF queueVars
  <2>2. RowsStep
    BY <1>10, CleanupStep, SameRows, DeletedRows
  <2>3. FilesStep
    BY <1>10, <2>1, CleanupStep DEF FilesStep
  <2>4. CleanerStepOK
    BY <1>10, <2>1, CleanupStep DEF CleanerStepOK
  <2> QED BY <2>1, <2>2, <2>3, <2>4, NoQueueStep, QueueIsJobs
          DEF EveryStep, RequestStepOK
<1>11. CASE Tick
  <2>1. UNCHANGED <<queueVars, jobs, exec, files, request>>
    BY <1>11, TickStep DEF queueVars
  <2>2. RowsStep
    BY <1>11, <2>1, TickStep, RowFields DEF RowsStep
  <2> QED BY <1>11, <2>1, <2>2, TickStep, NoQueueStep, QueueIsJobs, SameFiles
          DEF EveryStep, RequestStepOK, CleanerStepOK
<1>12. CASE Crash
  <2>1. /\ QueueStep /\ UNCHANGED <<row, files>>
        /\ \A w \in Worker : exec'[w].pc = "idle"
        /\ \A g \in Requester : request'[g].rows = request[g].rows
        /\ cleaner'.ids = {} /\ cleaner'.todo = {}
    BY <1>12, CrashStep
  <2>2. FilesStep
    BY <2>1 DEF FilesStep
  <2> QED BY <2>1, <2>2, QueueIsJobs, SameRows
          DEF EveryStep, RequestStepOK, CleanerStepOK
<1> QED BY <1>1, <1>2, <1>3, <1>4, <1>5, <1>6, <1>7, <1>8, <1>9, <1>10, <1>11,
           <1>12, NextCases

-----------------------------------------------------------------------------
(* The parts of the invariant.                                             *)

\* Jobs and handlers belong to inserted rows in every state.
LEMMA AddedStep ==
  ASSUME TypeInv, TypeInv', AddedInv, EveryStep
  PROVE  AddedInv'
<1> USE DEF EveryStep
<1>1. ASSUME NEW h \in Requester, NEW r \in request'[h].rows
      PROVE  row'[r].status # "absent"
  <2>1. r \in JobId
    BY DEF TypeInv, TableTypeOK, RequestRecord
  <2> QED BY <2>1 DEF AddedInv, RequestStepOK, RowsStep
<1>2. ASSUME NEW r \in JobId, Added(r)'
      PROVE  row'[r].status # "absent"
  <2>1. row[r].status # "absent"
    BY <1>2 DEF AddedInv, JobsStep, Added
  <2> QED BY <2>1 DEF RowsStep
<1>3. \A r \in JobId : Added(r) => Added(r)'
  BY DEF JobsStep, Added
<1>4. ASSUME NEW w \in Worker, exec'[w].pc # "idle"
      PROVE  Added(exec[w].job)'
  <2>1. exec'[w].job \in JobId
    BY <1>4 DEF TypeInv, QueueInv, ExecInv
  <2>2. Added(exec'[w].job)
    BY <1>4 DEF AddedInv, JobsStep, Added
  <2> QED BY <1>3, <2>1, <2>2 DEF Added
<1>5. ASSUME NEW r \in JobId, row'[r].status \in {"active"} \cup Settled
      PROVE  Added(r)'
  <2>1. Added(r)
    BY <1>5 DEF AddedInv, RowsStep
  <2> QED BY <1>3, <2>1
<1> QED BY <1>1, <1>2, <1>4, <1>5 DEF AddedInv

\* Failed rows and calls of onFailed belong to failed jobs in every state.
LEMMA FailedStep ==
  ASSUME FailInv, EveryStep
  PROVE  FailInv'
<1> SUFFICES ASSUME NEW r \in JobId,
                    failCall'[r] \in {"called", "seen"} \/ row'[r].status = "failed"
             PROVE  jobs'[r].state = "failed"
  BY DEF FailInv
<1>1. jobs[r].state = "failed" \/ jobs'[r].state = "failed"
  BY DEF FailInv, EveryStep, JobsStep, RowsStep
<1> QED BY <1>1 DEF EveryStep, JobsStep, Over

\* A job that is finished remains so.
LEMMA FinishedStays ==
  ASSUME NEW r \in JobId, Finished(r), EveryStep
  PROVE  Finished(r)'
<1>1. jobs'[r].state = jobs[r].state
  BY DEF Finished, EveryStep, JobsStep
<1>2. \A w \in Worker : exec'[w].pc # "idle" => exec'[w].job # r
  BY DEF Finished, EveryStep, JobsStep, Over
<1> QED BY <1>1, <1>2 DEF Finished

\* What the cleanup may delete is finished in every state.
LEMMA CleanStep ==
  ASSUME TypeInv, TypeInv', AddedInv, CleanInv, EveryStep
  PROVE  CleanInv'
<1> USE DEF EveryStep
<1>1. \A r \in JobId : row[r].done \in Nat /\ row'[r].done \in Nat
  BY DEF TypeInv, TableTypeOK, RowRecord
<1>2. ASSUME NEW r \in JobId, row'[r].done > Retention
      PROVE  Finished(r)'
  <2>1. CASE row[r].done >= row'[r].done
    BY <1>1, <1>2, <2>1, FinishedStays DEF CleanInv
  <2>2. CASE /\ row[r].status \in Settled
             /\ jobs[r].state \notin {"waiting", "active"}
             /\ jobs' = jobs
             /\ \A w \in Worker : exec'[w].pc = "idle"
    <3>1. jobs[r].state # "absent"
      BY <2>2 DEF AddedInv, Added
    <3>2. jobs[r].state \in {"absent", "waiting", "active", "completed", "failed"}
      BY DEF TypeInv, QueueInv, JobsInv, JobRecord
    <3> QED BY <2>2, <3>1, <3>2 DEF Finished, Over
  <2> QED BY <2>1, <2>2 DEF RowsStep
<1>3. \A r \in cleaner.ids : r \in JobId
  BY DEF TypeInv, TableTypeOK, CleanerRecord
<1>4. ASSUME NEW r \in cleaner'.ids
      PROVE  Finished(r)' /\ (row'[r].status = "completed" => row'[r].done > Retention)
  <2>1. CASE cleaner'.ids = {r_1 \in JobId : Expired(r_1)}
             /\ UNCHANGED <<queueVars, row, files>>
    <3>1. r \in JobId /\ Expired(r)
      BY <2>1
    <3>2. row[r].done > Retention /\ row'[r] = row[r]
      BY <2>1, <3>1 DEF Expired
    <3> QED BY <3>1, <3>2, FinishedStays DEF CleanInv
  <2>2. CASE cleaner'.ids = cleaner.ids
    <3>1. /\ r \in JobId /\ Finished(r)
          /\ row[r].status = "completed" => row[r].done > Retention
      BY <1>3, <2>2 DEF CleanInv
    <3>2. \A w \in Worker : ~(At(w, "complete") /\ exec[w].job = r)
      BY <3>1 DEF Finished, At
    <3>3. row'[r].status = "completed" =>
            row[r].done > Retention /\ row'[r].done >= row[r].done
      BY <3>1, <3>2 DEF RowsStep
    <3> QED BY <1>1, <3>1, <3>3, FinishedStays
  <2> QED BY <2>1, <2>2 DEF CleanerStepOK
<1>5. cleaner'.todo \cap JobId \subseteq cleaner'.ids
  <2>1. CASE cleaner'.todo = {Prefix(r) : r \in cleaner'.ids}
             /\ cleaner'.ids = {r \in JobId : Expired(r)}
    <3> SUFFICES ASSUME NEW p \in JobId, NEW r \in cleaner'.ids, p = Prefix(r)
                 PROVE  p \in cleaner'.ids
      BY <2>1
    <3>1. row[r].batch \in Batcher \cup {NoBatch}
      BY <2>1 DEF TypeInv, TableTypeOK, RowRecord
    <3> QED BY <3>1 DEF Prefix
  <2> QED BY <2>1 DEF CleanInv, CleanerStepOK
<1> QED BY <1>2, <1>4, <1>5 DEF CleanInv

\* The file of a report of its own is not deleted while it is needed.
LEMMA FileStays ==
  ASSUME CleanInv, FilesStep, NEW r \in JobId, r \in files,
         row[r].batch = NoBatch, r \notin cleaner.ids
  PROVE  r \in files'
<1>1. Prefix(r) = r
  BY DEF Prefix
<1>2. r \notin cleaner.todo
  BY DEF CleanInv
<1> QED BY <1>1, <1>2 DEF FilesStep

\* The PDF is there in every state.
LEMMA FileStep ==
  ASSUME TypeInv, TypeInv', AddedInv, CleanInv, FileInv, EveryStep
  PROVE  FileInv'
<1> USE DEF EveryStep
<1>1. \A r \in JobId : row[r].done \in Nat /\ row'[r].done \in Nat
  BY DEF TypeInv, TableTypeOK, RowRecord
<1>2. ASSUME NEW w \in Worker, At(w, "complete"), row'[exec[w].job].batch = NoBatch
      PROVE  exec[w].job \in files'
  <2>1. exec[w].pc # "idle" /\ exec[w].job \in JobId
    BY <1>2 DEF At, TypeInv, QueueInv, ExecInv
  <2>2. row[exec[w].job].batch = NoBatch
    BY <1>2, <2>1 DEF AddedInv, RowsStep
  <2>3. exec[w].job \notin cleaner.ids
    BY <2>1 DEF CleanInv, Finished
  <2> QED BY <1>2, <2>1, <2>2, <2>3, FileStays DEF FileInv
<1>3. ASSUME NEW w \in Worker, exec'[w].pc = "complete",
             row'[exec'[w].job].batch = NoBatch
      PROVE  exec'[w].job \in files'
  BY <1>2, <1>3 DEF FilesStep, At
<1>4. ASSUME NEW r \in JobId, row'[r].status = "completed",
             row'[r].done <= Retention, row'[r].batch = NoBatch
      PROVE  r \in files'
  <2>1. CASE row[r].status = "completed" /\ row'[r].done >= row[r].done
    <3>1. row[r].batch = NoBatch
      BY <1>4, <2>1 DEF RowsStep
    <3>2. row[r].done <= Retention
      BY <1>1, <1>4, <2>1
    <3>3. r \in files
      BY <2>1, <3>1, <3>2 DEF FileInv, NoDeadLink
    <3>4. r \notin cleaner.ids
      BY <1>1, <2>1, <3>2 DEF CleanInv
    <3> QED BY <3>1, <3>3, <3>4, FileStays
  <2>2. CASE \E w \in Worker : At(w, "complete") /\ exec[w].job = r
    BY <1>2, <1>4, <2>2
  <2> QED BY <1>4, <2>1, <2>2 DEF RowsStep
<1> QED BY <1>3, <1>4 DEF FileInv, NoDeadLink, At

-----------------------------------------------------------------------------
(* One pending report of each key.                                         *)

\* A step after which no more rows are pending than before.
FewerPending ==
  \A r \in JobId : IsPending(r)' => IsPending(r) /\ row'[r].key = row[r].key

\* Such a step does no harm.
LEMMA FewerStep ==
  ASSUME OnePendingPerKey, FewerPending
  PROVE  OnePendingPerKey'
BY DEF OnePendingPerKey, FewerPending

\* A row that becomes pending when the index allows it is the only one.
LEMMA ActivatedStep ==
  ASSUME OnePendingPerKey, TableTypeOK, NEW q \in JobId,
         row' = SetStatus(q, "active"),
         ~Exists(q) \/ IsPending(q) \/ IndexFree(q)
  PROVE  OnePendingPerKey'
<1>1. \A r \in JobId :
        \/ row'[r] = row[r]
        \/ r = q /\ Exists(q) /\ row'[r].key = row[r].key
  <2> SUFFICES ASSUME NEW r \in JobId, row'[r] # row[r]
               PROVE  r = q /\ Exists(q) /\ row'[r].key = row[r].key
    OBVIOUS
  <2> DEFINE s == "active"
  <2>1. row' = SetStatus(q, s)
    OBVIOUS
  <2> HIDE DEF s
  <2> QED BY <2>1, StatusFields
<1>2. CASE ~Exists(q)
  BY <1>1, <1>2 DEF OnePendingPerKey, IsPending
<1>3. CASE IsPending(q) \/ IndexFree(q)
  <2>1. \A r \in JobId \ {q} : IsPending(r)' => IsPending(r) /\ row[r].key # row[q].key
    BY <1>1, <1>3 DEF OnePendingPerKey, IsPending, IndexFree
  <2>2. \A r \in JobId : row'[r].key = row[r].key
    BY <1>1
  <2>3. \A r, p \in JobId \ {q} :
          IsPending(r)' /\ IsPending(p)' /\ row'[r].key = row'[p].key => r = p
    BY <2>1, <2>2 DEF OnePendingPerKey
  <2> QED BY <2>1, <2>2, <2>3 DEF OnePendingPerKey
<1> QED BY <1>2, <1>3

\* Inserted rows have keys that are not pending, and each key once.
LEMMA InsertedStep ==
  ASSUME OnePendingPerKey, NEW keys, NEW id, keys \cap PendingKeys = {},
         \A r \in JobId :
           \/ row'[r] = row[r]
           \/ row'[r].key \in keys /\ id[row'[r].key] = r
  PROVE  OnePendingPerKey'
<1> SUFFICES ASSUME NEW q \in JobId, NEW r \in JobId, IsPending(q)', IsPending(r)',
                    row'[q].key = row'[r].key
             PROVE  q = r
  BY DEF OnePendingPerKey
<1>1. \A p \in JobId : IsPending(p) => row[p].key \notin keys
  BY DEF PendingKeys
<1>2. CASE row'[q] = row[q] /\ row'[r] = row[r]
  BY <1>2 DEF OnePendingPerKey, IsPending
<1>3. CASE row'[q] = row[q] /\ row'[r].key \in keys
  BY <1>1, <1>3 DEF IsPending
<1>4. CASE row'[r] = row[r] /\ row'[q].key \in keys
  BY <1>1, <1>4 DEF IsPending
<1>5. CASE id[row'[q].key] = q /\ id[row'[r].key] = r
  BY <1>5
<1> QED BY <1>2, <1>3, <1>4, <1>5

\* No step makes two reports of one key pending.
LEMMA PendingStep ==
  ASSUME TypeInv, OnePendingPerKey, [Next]_vars
  PROVE  OnePendingPerKey'
<1> USE DEF TypeInv
<1>1. CASE UNCHANGED row
  <2>1. FewerPending
    BY <1>1 DEF FewerPending, IsPending
  <2> QED BY <2>1, FewerStep
<1>2. ASSUME NEW S, row' = Deleted(S)
      PROVE  OnePendingPerKey'
  <2>1. FewerPending
    <3>1. \A r \in JobId : row'[r] = row[r] \/ row'[r].status = "deleted"
      BY <1>2, DeletedFields
    <3> QED BY <3>1 DEF FewerPending, IsPending, Pending
  <2> QED BY <2>1, FewerStep
<1>3. ASSUME NEW h \in Requester, NEW id \in [request[h].keys -> JobId],
             Insert(h, id)
      PROVE  OnePendingPerKey'
  <2> DEFINE keys == request[h].keys
  <2>1. /\ keys \cap PendingKeys = {}
        /\ \A r \in JobId :
             \/ row'[r] = row[r]
             \/ row'[r].key \in keys /\ id[row'[r].key] = r
    BY <1>3, InsertStep
  <2> HIDE DEF keys
  <2> QED BY <2>1, InsertedStep
<1>4. ASSUME NEW w \in Worker, Activate(w) \/ Skip(w) \/ Complete(w)
      PROVE  OnePendingPerKey'
  <2> DEFINE q == exec[w].job
  <2>1. /\ q \in JobId
        /\ \/ UNCHANGED row
           \/ /\ row' = SetStatus(q, "active")
              /\ ~Exists(q) \/ IsPending(q) \/ IndexFree(q)
           \/ row' = Close(q, "skipped")
           \/ row' = Close(q, "completed")
    BY <1>4, UpdateStep DEF RowOf
  <2>2. ASSUME NEW s \in {"skipped", "completed"}, row' = Close(q, s)
        PROVE  OnePendingPerKey'
    <3>1. \A r \in JobId : row'[r] = row[r] \/ row'[r].status = s
      BY <2>1, <2>2, ClosedFields
    <3>2. FewerPending
      BY <3>1 DEF FewerPending, IsPending, Pending
    <3> QED BY <3>2, FewerStep
  <2> QED BY <1>1, <2>1, <2>2, ActivatedStep
<1>5. ASSUME NEW q \in JobId, row' = SetStatus(q, "failed")
      PROVE  OnePendingPerKey'
  <2>1. \A r \in JobId : row'[r] = row[r] \/ row'[r].status = "failed"
    BY <1>5, StatusFields
  <2>2. FewerPending
    BY <2>1 DEF FewerPending, IsPending, Pending
  <2> QED BY <2>2, FewerStep
<1>6. CASE Tick
  <2>1. FewerPending
    BY <1>6, TickStep DEF FewerPending, IsPending
  <2> QED BY <2>1, FewerStep
<1>7. CASE \/ FindExpired \/ DeleteExpired \/ SweepOrphans \/ CleanupThrows
           \/ \E p \in JobId \cup Batcher : DeleteFiles(p)
  BY <1>1, <1>2, <1>7, CleanupStep
<1>8. CASE \E h \in Requester : Asking(h) \/ EnqueueRows(h) \/ Undo(h)
  <2>1. CASE \E h \in Requester : Asking(h)
    BY <1>1, <2>1, AskingStep
  <2>2. CASE \E h \in Requester : EnqueueRows(h)
    BY <1>1, <2>2, EnqueueStep
  <2>3. CASE \E h \in Requester : Undo(h)
    BY <1>2, <2>3, UndoStep
  <2> QED BY <1>8, <2>1, <2>2, <2>3
<1>9. CASE Working \/ \E w \in Worker : Upload(w) \/ UploadFails(w)
  <2>1. CASE Working
    BY <1>1, <2>1, WorkingStep
  <2>2. CASE \E w \in Worker : Upload(w) \/ UploadFails(w)
    BY <1>1, <2>2, UploadStep
  <2> QED BY <1>9, <2>1, <2>2
<1>10. CASE \E r \in JobId : FailMark(r)
  BY <1>5, <1>10, MarkStep
<1>11. CASE Crash
  BY <1>1, <1>11, CrashStep
<1>12. CASE UNCHANGED vars
  BY <1>1, <1>12 DEF vars
<1> QED BY <1>3, <1>4, <1>6, <1>7, <1>8, <1>9, <1>10, <1>11, <1>12, NextCases

-----------------------------------------------------------------------------
(* The theorems.                                                           *)

\* The whole invariant holds initially.
LEMMA InitInv == Init => IInv
<1> SUFFICES ASSUME Init PROVE IInv
  OBVIOUS
<1>1. \A r \in JobId : /\ row[r] = NoRow /\ jobs[r].state = "absent"
                       /\ failCall[r] = "none"
  BY DEF Init, QueueInit, NeverAdded
<1>2. \A w \in Worker : exec[w].pc = "idle"
  BY DEF Init, QueueInit, Idle
<1>3. /\ \A h \in Requester : request[h].rows = {}
      /\ cleaner.ids = {} /\ cleaner.todo = {}
  BY DEF Init, Asleep
<1>4. NoRow.status = "absent" /\ NoRow.done = 0 /\ ~(0 > Retention)
  BY DEF NoRow
<1>5. AddedInv
  BY <1>1, <1>2, <1>3, <1>4 DEF AddedInv, Added, Settled
<1>6. FailInv
  BY <1>1, <1>4 DEF FailInv
<1>7. CleanInv
  BY <1>1, <1>3, <1>4 DEF CleanInv
<1>8. FileInv
  BY <1>1, <1>2, <1>4 DEF FileInv, NoDeadLink, At
<1>9. OnePendingPerKey
  BY <1>1, <1>4 DEF OnePendingPerKey, IsPending, Pending
<1> QED BY <1>5, <1>6, <1>7, <1>8, <1>9, TypeInit DEF IInv, TypeInv

\* Every step keeps the whole invariant.
LEMMA StepInv == IInv /\ [Next]_vars => IInv'
<1> SUFFICES ASSUME IInv, [Next]_vars PROVE IInv'
  OBVIOUS
<1>1. TypeInv /\ TypeInv'
  BY TypeStep DEF IInv, TypeInv
<1>2. EveryStep
  BY <1>1, StepFacts DEF IInv
<1>3. AddedInv'
  BY <1>1, <1>2, AddedStep DEF IInv
<1>4. OnePendingPerKey'
  BY <1>1, PendingStep DEF IInv
<1>5. FailInv'
  BY <1>2, FailedStep DEF IInv
<1>6. CleanInv'
  BY <1>1, <1>2, CleanStep DEF IInv
<1>7. FileInv'
  BY <1>1, <1>2, FileStep DEF IInv
<1> QED BY <1>1, <1>3, <1>4, <1>5, <1>6, <1>7 DEF IInv, TypeInv

\* The whole invariant holds in every state the system reaches.
THEOREM ReportInvariant == Spec => []IInv
BY InitInv, StepInv, PTL DEF Spec

\* Rows, requests, jobs, handlers and the cleanup are always what their types
\* say (report-job.entity.ts, and the handlers' program points).
THEOREM ReportTypeCorrect == Spec => []TypeOK
<1>1. IInv => TypeOK
  BY QueueTyped DEF IInv, TableTypeOK, TypeOK
<1> QED BY <1>1, ReportInvariant, PTL

\* Whatever the order of requests, retries and stalled duplicates, one key has
\* at most one pending report (uq_report_job_pending and the processor's
\* update of whatever status it finds).
THEOREM OnePendingCorrect == Spec => []OnePendingPerKey
<1>1. IInv => OnePendingPerKey
  BY DEF IInv
<1> QED BY <1>1, ReportInvariant, PTL

\* A report shown as failed is one whose job the queue will not run again
\* (onFailed of the report processor).
THEOREM FailedIsFinalCorrect == Spec => []FailedIsFinal
<1>1. IInv => FailedIsFinal
  BY DEF IInv, FailInv, FailedIsFinal
<1> QED BY <1>1, ReportInvariant, PTL

\* A completed report of its own has its PDF until it expires, for all orders
\* of uploads, retries, duplicates, crashes and cleanups.
THEOREM NoDeadLinkCorrect == Spec => []NoDeadLink
<1>1. IInv => NoDeadLink
  BY DEF IInv, FileInv
<1> QED BY <1>1, ReportInvariant, PTL

-----------------------------------------------------------------------------
(* A settled report stays, as long as its job was not taken for stalled.   *)

\* Slot w runs the job of r.
Runs(w, r) == exec[w].pc # "idle" /\ exec[w].job = r

\* Only its owner runs a job that never stalled.
OwnerInv ==
  \A w \in Worker, r \in JobId :
    Runs(w, r) /\ jobs[r].stalls = 0 => jobs[r].owner = w

\* Nothing but the return of its handler is left to do for a closed report.
ClosedInv ==
  \A r \in JobId :
    jobs[r].stalls = 0 /\ row[r].status \in {"completed", "skipped"} =>
      /\ jobs[r].state \in {"active", "completed"}
      /\ \A w \in Worker : Runs(w, r) => At(w, "return")

SettledInv == OwnerInv /\ ClosedInv

\* What a step does to a job that has never stalled: it goes back to the queue
\* or fails only when a handler that had not come to its end throws.
UnstalledStep ==
  \A r \in JobId : jobs'[r].stalls = 0 =>
    /\ jobs[r].stalls = 0
    /\ jobs[r].state \in {"active", "completed"} =>
         \/ jobs'[r].state \in {"active", "completed"}
         \/ \E w \in Worker : Runs(w, r) /\ ~At(w, "return")
    /\ \A w \in Worker : Runs(w, r)' =>
         /\ \/ jobs'[r].owner = w
            \/ Runs(w, r) /\ jobs'[r].owner = jobs[r].owner
         /\ \/ exec'[w].pc = "return"
            \/ Runs(w, r) /\ ~At(w, "return")
            \/ jobs[r].state = "waiting"

\* A step that leaves jobs and slots alone.
LEMMA UnstalledStutter ==
  ASSUME UNCHANGED <<jobs, exec>>
  PROVE  UnstalledStep
BY DEF UnstalledStep, Runs, At

\* A slot that takes a job owns it.
LEMMA UnstalledTake ==
  ASSUME QueueInv(ReportPc), OwnerInv, NEW v \in Worker, NEW q \in JobId, Take(v, q)
  PROVE  UnstalledStep
<1>1. /\ jobs[q] \in JobRecord /\ jobs[q].state = "waiting"
      /\ jobs[q].owner = NoWorker
      /\ \A r \in JobId : r # q => jobs'[r] = jobs[r]
  BY JobFields DEF QueueInv, JobsInv, WellFormed, Take
<1>2. /\ jobs'[q].stalls = jobs[q].stalls
      /\ jobs'[q].owner = v
  BY <1>1 DEF QueueInv, JobsInv, Take, JobRecord
<1>3. /\ exec'[v].job = q
      /\ \A w \in Worker : w # v => exec'[w] = exec[w]
  BY DEF QueueInv, ExecInv, Take
<1>4. ASSUME NEW r \in JobId, jobs'[r].stalls = 0
      PROVE  /\ jobs[r].stalls = 0
             /\ jobs[r].state \in {"active", "completed"} => jobs'[r] = jobs[r]
  BY <1>1, <1>2, <1>4
<1>5. ASSUME NEW r \in JobId, NEW w \in Worker, Runs(w, r)',
             jobs'[r].stalls = 0
      PROVE  /\ \/ jobs'[r].owner = w
                \/ Runs(w, r) /\ jobs'[r].owner = jobs[r].owner
             /\ \/ exec'[w].pc = "return"
                \/ Runs(w, r) /\ ~At(w, "return")
                \/ jobs[r].state = "waiting"
  <2>1. \/ w = v /\ r = q
        \/ w # v /\ Runs(w, r) /\ exec'[w] = exec[w]
    BY <1>3, <1>5 DEF Runs
  <2>2. CASE w = v /\ r = q
    BY <1>1, <1>2, <2>2
  <2>3. CASE w # v /\ Runs(w, r) /\ exec'[w] = exec[w] /\ r # q
    BY <1>1, <2>3 DEF At
  <2>4. CASE w # v /\ Runs(w, r) /\ exec'[w] = exec[w] /\ r = q
    BY <1>1, <1>4, <1>5, <2>4 DEF OwnerInv
  <2> QED BY <2>1, <2>2, <2>3, <2>4
<1> QED BY <1>4, <1>5 DEF UnstalledStep

\* A handler that goes on still runs its job.
LEMMA UnstalledGoto ==
  ASSUME QueueInv(ReportPc), NEW v \in Worker, NEW label, Goto(v, label),
         exec[v].pc \notin {"idle", "return"}
  PROVE  UnstalledStep
<1>1. \A w \in Worker : exec'[w].job = exec[w].job /\ (w # v => exec'[w] = exec[w])
  BY DEF QueueInv, ExecInv, ExecRecord, Goto
<1> QED BY <1>1 DEF UnstalledStep, Runs, At, Goto

\* What becomes of the job of a handler that comes to its end.
LEMMA Leaves ==
  ASSUME QueueInv(ReportPc), NEW v \in Worker, Leave(v),
         NEW r \in JobId, NEW w \in Worker, Runs(w, r)'
  PROVE  w # v /\ Runs(w, r) /\ exec'[w] = exec[w]
BY DEF QueueInv, ExecInv, Leave, Idle, Runs

\* A handler that returns completes the job it owns, or leaves it active.
LEMMA UnstalledFinish ==
  ASSUME QueueInv(ReportPc), OwnerInv, NEW v \in Worker, exec[v].pc # "idle",
         Finish(v)
  PROVE  UnstalledStep
<1> DEFINE q == exec[v].job
<1>1. q \in JobId /\ Runs(v, q)
  BY DEF QueueInv, ExecInv, Runs
<1>2. jobs[q] \in JobRecord /\ WellFormed(jobs[q])
  BY <1>1, JobFields DEF QueueInv
<1>3. \/ UNCHANGED jobs
      \/ /\ jobs[q].owner = v
         /\ \A r \in JobId : r # q => jobs'[r] = jobs[r]
         /\ jobs'[q].stalls = jobs[q].stalls
         /\ jobs'[q].state \in {"active", "completed"}
  <2>1. CASE jobs[q].owner # v
    BY <2>1 DEF Finish, Acknowledged
  <2>2. CASE jobs[q].owner = v
    <3>1. jobs[q].state = "active"
      BY <1>2, <2>2 DEF WellFormed
    <3>2. \/ jobs' = [jobs EXCEPT ![q] = Completed(jobs[q])]
          \/ jobs' = [jobs EXCEPT ![q] = Orphaned(jobs[q])]
      BY <2>2 DEF Finish, Acknowledged
    <3>3. /\ Completed(jobs[q]).stalls = jobs[q].stalls
          /\ Completed(jobs[q]).state = "completed"
          /\ Orphaned(jobs[q]).stalls = jobs[q].stalls
          /\ Orphaned(jobs[q]).state = "active"
      BY <1>2, <3>1 DEF JobRecord, Completed, Orphaned
    <3> QED BY <1>1, <2>2, <3>2, <3>3 DEF QueueInv, JobsInv
  <2> QED BY <2>1, <2>2
<1>4. ASSUME NEW r \in JobId, NEW w \in Worker, Runs(w, r)', jobs'[r].stalls = 0
      PROVE  Runs(w, r) /\ jobs'[r].owner = jobs[r].owner /\ exec'[w] = exec[w]
  <2>1. w # v /\ Runs(w, r) /\ exec'[w] = exec[w]
    BY <1>4, Leaves DEF Finish
  <2>2. jobs[r].stalls = 0
    BY <1>3, <1>4
  <2>3. jobs[r].owner = w
    BY <2>1, <2>2 DEF OwnerInv
  <2> QED BY <1>3, <2>1, <2>3
<1>5. ASSUME NEW r \in JobId, jobs'[r].stalls = 0
      PROVE  /\ jobs[r].stalls = 0
             /\ jobs[r].state \in {"active", "completed"} =>
                  jobs'[r].state \in {"active", "completed"}
  BY <1>3, <1>5
<1>6. ASSUME NEW r \in JobId, NEW w \in Worker, Runs(w, r)', jobs'[r].stalls = 0
      PROVE  \/ exec'[w].pc = "return"
             \/ Runs(w, r) /\ ~At(w, "return")
  BY <1>4, <1>6 DEF At
<1> QED BY <1>4, <1>5, <1>6 DEF UnstalledStep

\* A handler that throws gives back, or fails, the job it owns.
LEMMA UnstalledThrow ==
  ASSUME QueueInv(ReportPc), OwnerInv, NEW v \in Worker,
         exec[v].pc \notin {"idle", "return"}, Throw(v)
  PROVE  UnstalledStep
<1> DEFINE q == exec[v].job
<1>1. q \in JobId /\ Runs(v, q) /\ ~At(v, "return")
  BY DEF QueueInv, ExecInv, Runs, At
<1>2. jobs[q] \in JobRecord
  BY <1>1, JobFields DEF QueueInv
<1>3. \/ UNCHANGED jobs
      \/ /\ jobs[q].owner = v
         /\ \A r \in JobId : r # q => jobs'[r] = jobs[r]
         /\ jobs'[q].stalls = jobs[q].stalls
  <2>1. CASE ~Owns(v)
    BY <2>1 DEF Throw
  <2>2. CASE Owns(v)
    <3> DEFINE tries == jobs[q].attempts + 1
               new == [jobs[q] EXCEPT !.state = IF tries < MaxAttempts
                                                THEN "waiting" ELSE "failed",
                                      !.attempts = tries,
                                      !.owner = NoWorker]
    <3>1. jobs' = [jobs EXCEPT ![q] = new]
      BY <2>2 DEF Throw
    <3>2. new.stalls = jobs[q].stalls
      BY <1>2 DEF JobRecord
    <3> HIDE DEF new
    <3> QED BY <1>1, <2>2, <3>1, <3>2 DEF QueueInv, JobsInv, Owns
  <2> QED BY <2>1, <2>2
<1>4. ASSUME NEW r \in JobId, NEW w \in Worker, Runs(w, r)', jobs'[r].stalls = 0
      PROVE  Runs(w, r) /\ jobs'[r].owner = jobs[r].owner /\ exec'[w] = exec[w]
  <2>1. w # v /\ Runs(w, r) /\ exec'[w] = exec[w]
    BY <1>4, Leaves DEF Throw
  <2>2. jobs[r].stalls = 0
    BY <1>3, <1>4
  <2>3. jobs[r].owner = w
    BY <2>1, <2>2 DEF OwnerInv
  <2> QED BY <1>3, <2>1, <2>3
<1>5. ASSUME NEW r \in JobId, jobs'[r].stalls = 0
      PROVE  /\ jobs[r].stalls = 0
             /\ jobs[r].state \in {"active", "completed"} =>
                  \/ jobs'[r].state \in {"active", "completed"}
                  \/ \E w \in Worker : Runs(w, r) /\ ~At(w, "return")
  BY <1>1, <1>3, <1>5
<1>6. ASSUME NEW r \in JobId, NEW w \in Worker, Runs(w, r)', jobs'[r].stalls = 0
      PROVE  \/ exec'[w].pc = "return"
             \/ Runs(w, r) /\ ~At(w, "return")
  BY <1>4, <1>6 DEF At
<1> QED BY <1>4, <1>5, <1>6 DEF UnstalledStep

\* A job that is found stalled has stalled, when one may.
LEMMA UnstalledStall ==
  ASSUME MaxStalls # 0, QueueInv(ReportPc), NEW q \in JobId, Stall(q)
  PROVE  UnstalledStep
<1>1. jobs[q] \in JobRecord
  BY JobFields DEF QueueInv
<1> DEFINE again == [jobs[q] EXCEPT !.state = "waiting",
                                    !.stalls = jobs[q].stalls + 1,
                                    !.owner = NoWorker]
           over  == [jobs[q] EXCEPT !.state = "failed",
                                    !.attempts = jobs[q].attempts + 1,
                                    !.owner = NoWorker]
<1>2. again.stalls = jobs[q].stalls + 1 /\ over.stalls = jobs[q].stalls
  BY <1>1 DEF JobRecord
<1>3. /\ jobs[q].stalls < MaxStalls => jobs' = [jobs EXCEPT ![q] = again]
      /\ ~(jobs[q].stalls < MaxStalls) => jobs' = [jobs EXCEPT ![q] = over]
  BY DEF Stall
<1> HIDE DEF again, over
<1>4. \A r \in JobId : r # q => jobs'[r] = jobs[r]
  BY <1>3 DEF QueueInv, JobsInv
<1>5. jobs'[q].stalls # 0
  <2>1. jobs[q].stalls \in 0..MaxStalls
    BY <1>1 DEF JobRecord
  <2>2. \/ jobs[q].stalls < MaxStalls /\ jobs'[q] = again
        \/ ~(jobs[q].stalls < MaxStalls) /\ jobs'[q] = over
    BY <1>3 DEF QueueInv, JobsInv
  <2> QED BY <1>2, <2>1, <2>2
<1>6. exec' = exec
  BY DEF Stall
<1> QED BY <1>4, <1>5, <1>6 DEF UnstalledStep, Runs, At

\* After a crash no slot runs anything.
LEMMA UnstalledCrash ==
  ASSUME QueueInv(ReportPc), QueueCrash
  PROVE  UnstalledStep
<1>1. \A r \in JobId : /\ jobs'[r].state = jobs[r].state
                       /\ jobs'[r].stalls = jobs[r].stalls
  BY JobFields DEF QueueInv, QueueCrash, Orphaned, JobRecord
<1>2. \A w \in Worker : exec'[w].pc = "idle"
  BY DEF QueueCrash, Idle
<1> QED BY <1>1, <1>2 DEF UnstalledStep, Runs

\* A job that is added has neither stalled nor been run.
LEMMA UnstalledEnqueue ==
  ASSUME TypeInv, AddedInv, NEW h \in Requester, EnqueueRows(h)
  PROVE  UnstalledStep
<1>1. /\ exec' = exec
      /\ \A j \in JobId : Added(j) => jobs'[j] = jobs[j]
  BY EnqueueStep DEF TypeInv
<1>2. \A j \in JobId : jobs'[j].stalls = jobs[j].stalls
  <2> SUFFICES ASSUME NEW j \in JobId PROVE jobs'[j].stalls = jobs[j].stalls
    OBVIOUS
  <2>1. jobs[j] \in JobRecord
    BY JobFields DEF TypeInv, QueueInv
  <2>2. Enqueue(jobs, j, 1)[j].stalls = jobs[j].stalls
    BY <2>1 DEF Enqueue, JobRecord, TypeInv, QueueInv, JobsInv
  <2> QED BY <2>2 DEF EnqueueRows
<1>3. \A w \in Worker, r \in JobId : Runs(w, r) => Added(r)
  BY DEF AddedInv, Runs
<1> QED BY <1>1, <1>2, <1>3 DEF UnstalledStep, Added, Runs, At

\* Every step is of this kind.
LEMMA UnstalledNext ==
  ASSUME MaxStalls # 0, TypeInv, AddedInv, OwnerInv, [Next]_vars
  PROVE  UnstalledStep
<1>1. QueueInv(ReportPc)
  BY DEF TypeInv
<1>2. ASSUME NEW w \in Worker, HandlerStep(w)
      PROVE  UnstalledStep
  <2>1. CASE Return(w)
    BY <1>1, <2>1, UnstalledFinish DEF Return, At
  <2>2. CASE Throw(w) /\ exec[w].pc \notin {"idle", "return"}
    BY <1>1, <2>2, UnstalledThrow
  <2>3. CASE /\ \E label \in ReportPc : Goto(w, label)
             /\ exec[w].pc \notin {"idle", "return"}
    BY <1>1, <2>3, UnstalledGoto
  <2>4. \/ Return(w)
        \/ Throw(w) /\ exec[w].pc \notin {"idle", "return"}
        \/ /\ \E label \in ReportPc : Goto(w, label)
           /\ exec[w].pc \notin {"idle", "return"}
    BY <1>2 DEF HandlerStep, LoadRow, Activate, FetchData, Skip, Upload,
                UploadFails, Complete, HandlerThrows, At, ReportPc
  <2> QED BY <2>1, <2>2, <2>3, <2>4
<1>3. CASE \E w \in Worker, r \in JobId : TakeReport(w, r)
  BY <1>1, <1>3, UnstalledTake DEF TakeReport
<1>4. CASE \E r \in JobId : StallReport(r)
  BY <1>1, <1>4, UnstalledStall DEF StallReport
<1>5. CASE \E r \in JobId : FailStep(r)
  BY <1>5, UnstalledStutter DEF FailStep, FailRead, FailMark, FailThrows
<1>6. CASE \E h \in Requester : RequestStep(h)
  <2>1. CASE \E h \in Requester : EnqueueRows(h)
    BY <2>1, UnstalledEnqueue
  <2>2. CASE UNCHANGED <<jobs, exec>>
    BY <2>2, UnstalledStutter
  <2>3. UNCHANGED <<jobs, exec>> \/ \E h \in Requester : EnqueueRows(h)
    BY <1>6 DEF RequestStep, Insert, InsertRefused, Refetch, EnqueueRefused, Undo,
                RequestThrows, queueVars
  <2> QED BY <2>1, <2>2, <2>3
<1>7. CASE \/ \E h \in Single, k \in Key : CheckSingle(h, k)
           \/ \E h \in Batcher, S \in SUBSET Key : CheckBatch(h, S)
           \/ CleanerStep \/ Tick
  <2>1. UNCHANGED <<jobs, exec>>
    BY <1>7 DEF CheckSingle, CheckBatch, CleanerStep, FindExpired, DeleteFiles,
                DeleteExpired, SweepOrphans, CleanupThrows, Tick, queueVars
  <2> QED BY <2>1, UnstalledStutter
<1>8. CASE Crash
  BY <1>1, <1>8, UnstalledCrash DEF Crash
<1>9. CASE UNCHANGED vars
  BY <1>9, UnstalledStutter DEF vars, queueVars
<1> QED BY <1>2, <1>3, <1>4, <1>5, <1>6, <1>7, <1>8, <1>9 DEF Next

\* A report is closed by its handler, which then has nothing left to do.
Closing(w, r) ==
  /\ Runs(w, r)
  /\ jobs' = jobs
  /\ exec'[w].pc = "return"
  /\ \A v \in Worker : v # w => exec'[v] = exec[v]

\* Who gives a row another status.
LEMMA StatusChanges ==
  ASSUME TypeInv, [Next]_vars, NEW r \in JobId, row'[r].status # row[r].status
  PROVE  \/ row[r].status = "absent" /\ row'[r].status = "waiting"
         \/ row'[r].status = "deleted"
         \/ row'[r].status = "failed" /\ failCall[r] = "seen"
         \/ \E w \in Worker :
              /\ Runs(w, r) /\ ~At(w, "return")
              /\ \/ row'[r].status = "active"
                 \/ row'[r].status \in {"completed", "skipped"} /\ Closing(w, r)
<1> USE DEF TypeInv
<1>1. CASE UNCHANGED row
  BY <1>1
<1>2. ASSUME NEW S, row' = Deleted(S)
      PROVE  row'[r].status = "deleted"
  BY <1>2, DeletedFields
<1>3. CASE \E h \in Requester : \E id \in [request[h].keys -> JobId] : Insert(h, id)
  BY <1>3, InsertStep
<1>4. ASSUME NEW w \in Worker, Activate(w) \/ Skip(w) \/ Complete(w)
      PROVE  /\ Runs(w, r) /\ ~At(w, "return")
             /\ \/ row'[r].status = "active"
                \/ row'[r].status \in {"completed", "skipped"} /\ Closing(w, r)
  <2> DEFINE q == exec[w].job
  <2>1. q \in JobId /\ exec[w].pc # "idle" /\ ~At(w, "return")
    BY <1>4, UpdateStep DEF At, Activate, Skip, Complete
  <2>2. CASE Activate(w)
    <3>1. row' = SetStatus(q, "active")
      BY <2>2 DEF Activate, RowOf
    <3>2. r = q /\ row'[r].status = "active"
      BY <2>1, <3>1, StatusFields
    <3> QED BY <2>1, <3>2 DEF Runs
  <2>3. CASE Skip(w) \/ Complete(w)
    <3>1. PICK s \in {"completed", "skipped"} : row' = Close(q, s)
      BY <2>3 DEF Skip, Complete, RowOf
    <3>2. r = q /\ row'[r].status = s
      BY <2>1, <3>1, ClosedFields
    <3>3. Goto(w, "return")
      BY <2>3 DEF Skip, Complete
    <3>4. Closing(w, r)
      BY <2>1, <3>2, <3>3
         DEF Closing, Runs, Goto, QueueInv, ExecInv, ExecRecord
    <3> QED BY <2>1, <3>1, <3>2, <3>4 DEF Runs
  <2> QED BY <1>4, <2>2, <2>3
<1>5. ASSUME NEW q \in JobId, FailMark(q)
      PROVE  row'[r].status = "failed" /\ failCall[r] = "seen"
  <2>1. row' = SetStatus(q, "failed") /\ failCall[q] = "seen"
    BY <1>5, MarkStep
  <2> QED BY <2>1, StatusFields
<1>6. CASE Tick
  BY <1>6, TickStep
<1>7. CASE \/ FindExpired \/ DeleteExpired \/ SweepOrphans \/ CleanupThrows
           \/ \E p \in JobId \cup Batcher : DeleteFiles(p)
  BY <1>1, <1>2, <1>7, CleanupStep
<1>8. CASE \E h \in Requester : Asking(h) \/ EnqueueRows(h) \/ Undo(h)
  BY <1>1, <1>2, <1>8, AskingStep, EnqueueStep, UndoStep
<1>9. CASE Working \/ \E w \in Worker : Upload(w) \/ UploadFails(w)
  BY <1>1, <1>9, WorkingStep, UploadStep
<1>10. CASE Crash \/ UNCHANGED vars
  BY <1>1, <1>10, CrashStep DEF vars
<1> QED BY <1>3, <1>4, <1>5, <1>6, <1>7, <1>8, <1>9, <1>10, NextCases

\* Slots and reports keep their invariant.
LEMMA SettledStep ==
  ASSUME MaxStalls # 0, TypeInv, AddedInv, SettledInv, [Next]_vars
  PROVE  SettledInv'
<1>1. UnstalledStep
  BY UnstalledNext DEF SettledInv
<1>2. ASSUME NEW w \in Worker, NEW r \in JobId, Runs(w, r)', jobs'[r].stalls = 0
      PROVE  jobs'[r].owner = w
  BY <1>1, <1>2 DEF UnstalledStep, SettledInv, OwnerInv
<1>3. ASSUME NEW r \in JobId, jobs'[r].stalls = 0,
             row'[r].status \in {"completed", "skipped"}
      PROVE  /\ jobs'[r].state \in {"active", "completed"}
             /\ \A w \in Worker : Runs(w, r)' => exec'[w].pc = "return"
  <2>1. jobs[r].stalls = 0
    BY <1>1, <1>3 DEF UnstalledStep
  <2>2. CASE row[r].status \in {"completed", "skipped"}
    <3>1. /\ jobs[r].state \in {"active", "completed"}
          /\ \A w \in Worker : Runs(w, r) => At(w, "return")
      BY <2>1, <2>2 DEF SettledInv, ClosedInv
    <3> QED BY <1>1, <1>3, <3>1 DEF UnstalledStep
  <2>3. CASE row[r].status \notin {"completed", "skipped"}
    <3>1. PICK w \in Worker : Closing(w, r)
      BY <1>3, <2>3, StatusChanges
    <3>2. jobs[r].owner = w
      BY <2>1, <3>1 DEF Closing, SettledInv, OwnerInv
    <3>3. jobs[r].state = "active"
      BY <3>2, JobFields DEF TypeInv, QueueInv, WellFormed
    <3>4. ASSUME NEW v \in Worker, Runs(v, r)' PROVE v = w
      <4>1. CASE v # w
        <5>1. exec'[v] = exec[v] /\ Runs(v, r)
          BY <3>1, <3>4, <4>1 DEF Closing, Runs
        <5> QED BY <2>1, <3>2, <5>1 DEF SettledInv, OwnerInv
      <4> QED BY <4>1
    <3> QED BY <3>1, <3>3, <3>4 DEF Closing
  <2> QED BY <2>2, <2>3
<1> QED BY <1>2, <1>3 DEF SettledInv, OwnerInv, ClosedInv, At

\* A settled report whose job never stalled is deleted or stays what it is.
LEMMA SettledStays ==
  ASSUME TypeInv, FailInv, SettledInv, [Next]_vars,
         NEW r \in JobId, row[r].status \in Settled, jobs[r].stalls = 0
  PROVE  row'[r].status \in {row[r].status, "deleted"}
<1>1. CASE row[r].status \in {"completed", "skipped"}
  <2>1. /\ jobs[r].state \in {"active", "completed"}
        /\ \A w \in Worker : Runs(w, r) => At(w, "return")
    BY <1>1 DEF SettledInv, ClosedInv
  <2>2. failCall[r] # "seen"
    BY <2>1 DEF FailInv
  <2> QED BY <1>1, <2>1, <2>2, StatusChanges
<1>2. CASE row[r].status = "failed"
  <2>1. jobs[r].state = "failed"
    BY <1>2 DEF FailInv
  <2>2. jobs[r].owner \notin Worker
    BY <2>1, JobFields DEF TypeInv, QueueInv, WellFormed
  <2>3. \A w \in Worker : ~Runs(w, r)
    BY <2>2 DEF SettledInv, OwnerInv
  <2> QED BY <1>2, <2>3, StatusChanges
<1> QED BY <1>1, <1>2 DEF Settled

\* A settled report only ever disappears, whatever the order of retries,
\* refused acknowledgements, crashes and calls of onFailed, unless its job was
\* taken for stalled; with maxStalledCount = 0 that would not show in the job.
THEOREM SettledForGoodCorrect ==
  ASSUME MaxStalls # 0
  PROVE  Spec => SettledForGood
<1>1. Init => SettledInv
  <2> SUFFICES ASSUME Init PROVE SettledInv
    OBVIOUS
  <2>1. /\ \A r \in JobId : row[r].status = "absent"
        /\ \A w \in Worker : exec[w].pc = "idle"
    BY DEF Init, NoRow, QueueInit, Idle
  <2> QED BY <2>1 DEF SettledInv, OwnerInv, ClosedInv, Runs
<1>2. IInv /\ SettledInv /\ [Next]_vars => SettledInv'
  BY SettledStep DEF IInv, TypeInv
<1>3. IInv /\ SettledInv /\ [Next]_vars =>
        [\A r \in JobId : row[r].status \in Settled /\ jobs[r].stalls = 0 =>
           row'[r].status \in {row[r].status, "deleted"}]_vars
  BY SettledStays DEF IInv, TypeInv
<1> QED BY <1>1, <1>2, <1>3, ReportInvariant, PTL DEF Spec, SettledForGood

=============================================================================
