-------------------------- MODULE JobQueue_proofs --------------------------
(***************************************************************************)
(* What every step of the queue keeps, whichever processor takes it.       *)
(***************************************************************************)
EXTENDS JobQueue, TLAPS

\* A record of a job that was added belongs to a run, a job that has not failed
\* has an attempt left, and only an active job has an owner.
WellFormed(job) ==
  /\ job.state # "absent" => job.run \in Run
  /\ job.state # "failed" => job.attempts < MaxAttempts
  /\ job.owner # NoWorker => job.state = "active"

JobsInv(q) ==
  /\ q \in [JobId -> JobRecord]
  /\ \A j \in JobId : WellFormed(q[j])

\* A slot that is busy has a job and a run.
ExecInv(labels) ==
  /\ exec \in [Worker -> ExecRecord(labels)]
  /\ \A w \in Worker :
       exec[w].pc # "idle" => exec[w].job \in JobId /\ exec[w].run \in Run

FailCallInv == failCall \in [JobId -> FailCallState]

QueueInv(labels) == JobsInv(jobs) /\ ExecInv(labels) /\ FailCallInv

USE QueueAssumption DEF QueueAssumption

\* The invariant of the queue implies its types.
LEMMA QueueTyped == \A labels : QueueInv(labels) => QueueTypeOK(labels)
BY DEF QueueInv, QueueTypeOK, JobsInv, ExecInv, FailCallInv

\* Only the replaced record has to be looked at.
LEMMA ReplaceJob ==
  ASSUME NEW q, JobsInv(q), NEW j \in JobId, NEW job \in JobRecord,
         WellFormed(job)
  PROVE  JobsInv([q EXCEPT ![j] = job])
BY DEF JobsInv

\* What is known of the record that a step replaces.
LEMMA JobFields ==
  ASSUME NEW q, JobsInv(q), NEW j \in JobId
  PROVE  /\ q[j] \in JobRecord
         /\ WellFormed(q[j])
         /\ q[j] = [state |-> q[j].state, attempts |-> q[j].attempts,
                    stalls |-> q[j].stalls, owner |-> q[j].owner,
                    run |-> q[j].run]
         /\ q[j].state \in {"absent", "waiting", "active", "completed", "failed"}
         /\ q[j].attempts \in 0..MaxAttempts
         /\ q[j].stalls \in 0..MaxStalls
         /\ q[j].owner \in Worker \cup {NoWorker}
         /\ q[j].run \in 0..MaxRuns
BY DEF JobsInv, JobRecord

\* A slot that becomes idle, or goes on with its job, stays well-formed.
LEMMA LeaveInv ==
  ASSUME NEW L, "idle" \in L, ExecInv(L), NEW w \in Worker, Leave(w)
  PROVE  ExecInv(L)'
BY DEF ExecInv, Leave, Idle, ExecRecord

\* A run is in the range of the records' run field.
LEMMA RunRange == \A r \in Run : r \in 0..MaxRuns
BY DEF Run

\* Adding a job for a run keeps the jobs well-formed.
LEMMA EnqueueInv ==
  ASSUME NEW q, JobsInv(q), NEW j \in JobId, NEW r \in Run
  PROVE  JobsInv(Enqueue(q, j, r))
<1> DEFINE job == [q[j] EXCEPT !.state = "waiting", !.run = r]
<1>1. CASE q[j].state = "absent"
  <2>1. q[j] \in JobRecord /\ WellFormed(q[j])
    BY JobFields
  <2>2. job \in JobRecord
    BY <2>1, RunRange DEF JobRecord
  <2>3. WellFormed(job)
    BY <1>1, <2>1 DEF JobRecord, WellFormed
  <2>4. JobsInv([q EXCEPT ![j] = job])
    BY <2>2, <2>3, ReplaceJob
  <2> QED BY <1>1, <2>4 DEF Enqueue
<1>2. CASE q[j].state # "absent"
  BY <1>2 DEF Enqueue
<1> QED BY <1>1, <1>2

\* A record that loses its owner stays well-formed.
LEMMA OrphanedInv ==
  ASSUME NEW job \in JobRecord, WellFormed(job)
  PROVE  Orphaned(job) \in JobRecord /\ WellFormed(Orphaned(job))
<1>1. Orphaned(job) \in JobRecord
  BY DEF Orphaned, JobRecord
<1>2. WellFormed(Orphaned(job))
  BY DEF Orphaned, JobRecord, WellFormed
<1> QED BY <1>1, <1>2

\* Completing or orphaning the job of a slot keeps the records well-formed.
LEMMA AcknowledgedInv ==
  ASSUME NEW q, JobsInv(q), NEW w \in Worker, exec[w].job \in JobId,
         NEW p \in Acknowledged(q, w)
  PROVE  JobsInv(p)
<1> DEFINE j == exec[w].job
<1>1. q[j] \in JobRecord /\ WellFormed(q[j])
  BY JobFields
<1>2. CASE q[j].owner = w
  <2>1. q[j].state = "active"
    BY <1>1, <1>2 DEF WellFormed
  <2>2. Completed(q[j]) \in JobRecord
    BY <1>1 DEF Completed, JobRecord
  <2>3. WellFormed(Completed(q[j]))
    BY <1>1, <2>1 DEF Completed, JobRecord, WellFormed
  <2>4. \/ p = [q EXCEPT ![j] = Completed(q[j])]
        \/ p = [q EXCEPT ![j] = Orphaned(q[j])]
    BY <1>2 DEF Acknowledged
  <2> QED BY <1>1, <2>2, <2>3, <2>4, OrphanedInv, ReplaceJob
<1>3. CASE q[j].owner # w
  BY <1>3 DEF Acknowledged
<1> QED BY <1>2, <1>3

\* A slot that goes on with its job stays well-formed.
LEMMA ExecStepInv ==
  ASSUME NEW L, ExecInv(L), NEW w \in Worker, NEW label \in L, NEW r \in Run,
         exec[w].job \in JobId,
         exec' = [exec EXCEPT ![w] = [@ EXCEPT !.pc = label, !.run = r]]
  PROVE  ExecInv(L)'
BY RunRange DEF ExecInv, ExecRecord

-----------------------------------------------------------------------------
(* The steps of a slot, a job and the process.                             *)

\* A handler that goes on keeps the queue's invariant.
LEMMA GotoInv ==
  ASSUME NEW L, QueueInv(L), NEW w \in Worker, NEW label \in L,
         exec[w].pc # "idle", Goto(w, label)
  PROVE  QueueInv(L)'
BY DEF QueueInv, FailCallInv, ExecInv, ExecRecord, Goto

\* A handler that returns keeps it too.
LEMMA FinishInv ==
  ASSUME NEW L, "idle" \in L, QueueInv(L), NEW w \in Worker,
         exec[w].pc # "idle", Finish(w)
  PROVE  QueueInv(L)'
<1>1. JobsInv(jobs')
  BY AcknowledgedInv DEF QueueInv, ExecInv, Finish
<1>2. ExecInv(L)'
  BY LeaveInv DEF QueueInv, Finish
<1> QED BY <1>1, <1>2 DEF QueueInv, FailCallInv, Finish

\* A slot that takes a waiting job has a job and a run.
LEMMA TakeInv ==
  ASSUME NEW L, "answer" \in L, QueueInv(L), NEW w \in Worker,
         NEW j \in JobId, Take(w, j)
  PROVE  QueueInv(L)'
<1> DEFINE job == [jobs[j] EXCEPT !.state = "active", !.owner = w]
<1>1. jobs[j] \in JobRecord /\ WellFormed(jobs[j]) /\ jobs[j].state = "waiting"
  BY JobFields DEF QueueInv, Take
<1>2. job \in JobRecord /\ WellFormed(job)
  BY <1>1 DEF JobRecord, WellFormed
<1>3. JobsInv(jobs')
  BY <1>2, ReplaceJob DEF QueueInv, Take
<1>4. jobs[j].run \in Run
  BY <1>1 DEF WellFormed
<1>5. [job |-> j, pc |-> "answer", run |-> jobs[j].run] \in ExecRecord(L)
  BY <1>4, RunRange DEF ExecRecord
<1>6. ExecInv(L)'
  BY <1>4, <1>5 DEF QueueInv, ExecInv, Take
<1> QED BY <1>3, <1>6 DEF QueueInv, FailCallInv, Take

\* A failed attempt is one of those that were left.
LEMMA ThrowInv ==
  ASSUME NEW L, "idle" \in L, QueueInv(L), NEW w \in Worker,
         exec[w].pc # "idle", Throw(w)
  PROVE  QueueInv(L)'
<1> DEFINE j == exec[w].job
           tries == jobs[j].attempts + 1
           job == [jobs[j] EXCEPT !.state = IF tries < MaxAttempts
                                            THEN "waiting" ELSE "failed",
                                  !.attempts = tries,
                                  !.owner = NoWorker]
<1>1. j \in JobId
  BY DEF QueueInv, ExecInv
<1>2. jobs[j] \in JobRecord /\ WellFormed(jobs[j])
  BY <1>1, JobFields DEF QueueInv
<1>3. ExecInv(L)'
  BY LeaveInv DEF QueueInv, Throw
<1>4. CASE Owns(w)
  <2>1. jobs[j].state = "active" /\ jobs[j].attempts \in 0..MaxAttempts
    BY <1>2, <1>4 DEF Owns, WellFormed, JobRecord
  <2>2. tries \in 0..MaxAttempts
    BY <1>2, <2>1 DEF WellFormed
  <2>3. job \in JobRecord
    BY <1>2, <2>2 DEF JobRecord
  <2>4. WellFormed(job)
    BY <1>2, <2>1 DEF JobRecord, WellFormed
  <2>5. JobsInv(jobs')
    BY <1>1, <1>4, <2>3, <2>4, ReplaceJob DEF QueueInv, Throw
  <2>6. FailCallInv'
    BY <1>1, <1>4 DEF QueueInv, FailCallInv, FailCallState, Throw
  <2> QED BY <1>3, <2>5, <2>6 DEF QueueInv
<1>5. CASE ~Owns(w)
  BY <1>3, <1>5 DEF QueueInv, FailCallInv, Throw
<1> QED BY <1>4, <1>5

\* A job that may stall once more has an attempt left, as every active job.
LEMMA StallInv ==
  ASSUME NEW L, QueueInv(L), NEW j \in JobId, Stall(j)
  PROVE  QueueInv(L)'
<1> DEFINE again == [jobs[j] EXCEPT !.state = "waiting",
                                    !.stalls = jobs[j].stalls + 1,
                                    !.owner = NoWorker]
           over  == [jobs[j] EXCEPT !.state = "failed",
                                    !.attempts = jobs[j].attempts + 1,
                                    !.owner = NoWorker]
<1>1. jobs[j] \in JobRecord /\ WellFormed(jobs[j]) /\ jobs[j].state = "active"
  BY JobFields DEF QueueInv, Stall
<1>2. /\ jobs[j].attempts \in 0..MaxAttempts /\ jobs[j].attempts < MaxAttempts
      /\ jobs[j].stalls \in 0..MaxStalls
  BY <1>1 DEF JobRecord, WellFormed
<1>3. ExecInv(L)'
  BY DEF QueueInv, ExecInv, Stall
<1>4. CASE jobs[j].stalls < MaxStalls
  <2>1. jobs[j].stalls + 1 \in 0..MaxStalls
    BY <1>2, <1>4
  <2>2. again \in JobRecord
    BY <1>1, <2>1 DEF JobRecord
  <2>3. WellFormed(again)
    BY <1>1 DEF JobRecord, WellFormed
  <2>4. jobs' = [jobs EXCEPT ![j] = again]
    BY <1>1, <1>4 DEF Stall, JobRecord
  <2>5. JobsInv(jobs')
    BY <2>2, <2>3, <2>4, ReplaceJob DEF QueueInv
  <2> QED BY <1>3, <1>4, <2>5 DEF QueueInv, FailCallInv, Stall
<1>5. CASE ~(jobs[j].stalls < MaxStalls)
  <2>1. jobs[j].attempts + 1 \in 0..MaxAttempts
    BY <1>2
  <2>2. over \in JobRecord
    BY <1>1, <2>1 DEF JobRecord
  <2>3. WellFormed(over)
    BY <1>1 DEF JobRecord, WellFormed
  <2>4. jobs' = [jobs EXCEPT ![j] = over]
    BY <1>1, <1>5 DEF Stall, JobRecord
  <2>5. JobsInv(jobs')
    BY <2>2, <2>3, <2>4, ReplaceJob DEF QueueInv
  <2>6. FailCallInv'
    BY <1>5 DEF QueueInv, FailCallInv, FailCallState, Stall
  <2> QED BY <1>3, <2>5, <2>6 DEF QueueInv
<1> QED BY <1>4, <1>5

\* After a crash no slot is busy and no job is owned.
LEMMA QueueCrashInv ==
  ASSUME NEW L, "idle" \in L, QueueInv(L), QueueCrash
  PROVE  QueueInv(L)'
<1>1. \A j \in JobId :
        Orphaned(jobs[j]) \in JobRecord /\ WellFormed(Orphaned(jobs[j]))
  BY JobFields, OrphanedInv DEF QueueInv
<1>2. JobsInv(jobs')
  BY <1>1 DEF JobsInv, QueueCrash
<1>3. ExecInv(L)'
  BY DEF ExecInv, QueueCrash, Idle, ExecRecord
<1>4. FailCallInv'
  BY DEF FailCallInv, FailCallState, QueueCrash
<1> QED BY <1>2, <1>3, <1>4 DEF QueueInv

\* The calls of the onFailed listeners leave jobs and slots alone.
LEMMA FailCallStep ==
  ASSUME NEW L, QueueInv(L), NEW j \in JobId, NEW s \in FailCallState,
         failCall' = [failCall EXCEPT ![j] = s], UNCHANGED <<jobs, exec>>
  PROVE  QueueInv(L)'
BY DEF QueueInv, JobsInv, ExecInv, FailCallInv

\* The invariant holds of the empty queue.
LEMMA QueueInitInv ==
  ASSUME NEW L, "idle" \in L, QueueInit
  PROVE  QueueInv(L)
<1>1. NeverAdded \in JobRecord /\ WellFormed(NeverAdded)
  BY DEF NeverAdded, JobRecord, WellFormed
<1>2. JobsInv(jobs)
  BY <1>1 DEF JobsInv, QueueInit
<1>3. ExecInv(L)
  BY DEF ExecInv, QueueInit, Idle, ExecRecord
<1> QED BY <1>2, <1>3 DEF QueueInv, QueueInit, FailCallInv, FailCallState

\* Steps that leave the queue alone keep its invariant.
LEMMA QueueStutter ==
  ASSUME NEW L, QueueInv(L), UNCHANGED queueVars
  PROVE  QueueInv(L)'
BY DEF QueueInv, JobsInv, ExecInv, FailCallInv, queueVars

-----------------------------------------------------------------------------
(* What no step of the queue undoes.                                       *)

Over == {"completed", "failed"}

\* No job is added, jobs that are over stay so, a slot goes on with its job or takes a
\* waiting one, and onFailed is called for failed jobs.
QueueStep ==
  /\ \A j \in JobId : jobs[j].state # "absent" <=> jobs'[j].state # "absent"
  /\ \A j \in JobId : jobs[j].state \in Over => jobs'[j].state = jobs[j].state
  /\ \A w \in Worker : exec'[w].pc # "idle" =>
       \/ exec[w].pc # "idle" /\ exec'[w].job = exec[w].job
       \/ jobs[exec'[w].job].state = "waiting"
  /\ \A j \in JobId : failCall'[j] \in {"called", "seen"} =>
       failCall[j] \in {"called", "seen"} \/ jobs'[j].state = "failed"

\* A handler that goes on is such a step.
LEMMA GotoStep ==
  ASSUME NEW L, QueueInv(L), NEW w \in Worker, NEW label \in L,
         exec[w].pc # "idle", Goto(w, label)
  PROVE  QueueStep
BY DEF QueueInv, ExecInv, ExecRecord, Goto, QueueStep

\* So is one that returns: only the owner of an active job completes it.
LEMMA FinishStep ==
  ASSUME NEW L, QueueInv(L), NEW w \in Worker, exec[w].pc # "idle", Finish(w)
  PROVE  QueueStep
<1> DEFINE j == exec[w].job
<1>1. j \in JobId
  BY DEF QueueInv, ExecInv
<1>2. jobs[j] \in JobRecord /\ WellFormed(jobs[j])
  BY <1>1, JobFields DEF QueueInv
<1>3. \A v \in Worker : exec'[v].pc # "idle" => exec'[v] = exec[v]
  BY DEF QueueInv, ExecInv, Finish, Leave, Idle
<1>4. CASE jobs[j].owner # w
  BY <1>3, <1>4 DEF Finish, Acknowledged, QueueStep
<1>5. CASE jobs[j].owner = w
  <2>1. jobs[j].state = "active"
    BY <1>2, <1>5 DEF WellFormed
  <2>2. \/ jobs' = [jobs EXCEPT ![j] = Completed(jobs[j])]
        \/ jobs' = [jobs EXCEPT ![j] = Orphaned(jobs[j])]
    BY <1>5 DEF Finish, Acknowledged
  <2>3. /\ Completed(jobs[j]).state = "completed"
        /\ Orphaned(jobs[j]).state = "active"
    BY <1>2, <2>1 DEF Completed, Orphaned, JobRecord
  <2>4. \A k \in JobId : k # j => jobs'[k] = jobs[k]
    BY <2>2 DEF QueueInv, JobsInv
  <2>5. jobs'[j].state \in {"completed", "active"}
    BY <1>1, <2>2, <2>3 DEF QueueInv, JobsInv
  <2> QED BY <1>3, <2>1, <2>4, <2>5 DEF Finish, QueueStep, Over
<1> QED BY <1>4, <1>5

\* So is one that takes a waiting job.
LEMMA TakeStep ==
  ASSUME NEW L, QueueInv(L), NEW w \in Worker, NEW j \in JobId, Take(w, j)
  PROVE  QueueStep
<1>1. jobs[j] \in JobRecord /\ jobs[j].state = "waiting"
  BY JobFields DEF QueueInv, Take
<1>2. \A k \in JobId : k # j => jobs'[k] = jobs[k]
  BY DEF QueueInv, JobsInv, Take
<1>3. jobs'[j].state = "active"
  BY <1>1 DEF QueueInv, JobsInv, Take, JobRecord
<1>4. \A v \in Worker : v # w => exec'[v] = exec[v]
  BY DEF QueueInv, ExecInv, Take
<1>5. exec'[w].job = j
  BY DEF QueueInv, ExecInv, Take
<1> QED BY <1>1, <1>2, <1>3, <1>4, <1>5 DEF QueueStep, Over, Take

\* So is one that throws.
LEMMA ThrowStep ==
  ASSUME NEW L, QueueInv(L), NEW w \in Worker, exec[w].pc # "idle", Throw(w)
  PROVE  QueueStep
<1> DEFINE j == exec[w].job
<1>1. j \in JobId
  BY DEF QueueInv, ExecInv
<1>2. jobs[j] \in JobRecord /\ WellFormed(jobs[j])
  BY <1>1, JobFields DEF QueueInv
<1>3. \A v \in Worker : exec'[v].pc # "idle" => exec'[v] = exec[v]
  BY DEF QueueInv, ExecInv, Throw, Leave, Idle
<1>4. CASE ~Owns(w)
  BY <1>3, <1>4 DEF Throw, QueueStep
<1>5. CASE Owns(w)
  <2>1. jobs[j].state = "active"
    BY <1>2, <1>5 DEF Owns, WellFormed
  <2>2. \A k \in JobId : k # j => jobs'[k] = jobs[k] /\ failCall'[k] = failCall[k]
    BY <1>5 DEF Throw, QueueInv, JobsInv, FailCallInv
  <2> DEFINE end == IF jobs[j].attempts + 1 < MaxAttempts
                    THEN "waiting" ELSE "failed"
             job == [jobs[j] EXCEPT !.state = end,
                                    !.attempts = jobs[j].attempts + 1,
                                    !.owner = NoWorker]
  <2>3. jobs' = [jobs EXCEPT ![j] = job]
    BY <1>5 DEF Throw
  <2>4. job.state = end
    BY <1>2 DEF JobRecord
  <2>5. jobs'[j].state = end
    BY <1>1, <2>3, <2>4 DEF QueueInv, JobsInv
  <2>6. jobs[j].attempts + 1 < MaxAttempts => failCall' = failCall
    BY <1>5 DEF Throw
  <2> QED BY <1>3, <2>1, <2>2, <2>5, <2>6 DEF QueueStep, Over
<1> QED BY <1>4, <1>5

\* So is the end of a lock.
LEMMA StallStep ==
  ASSUME NEW L, QueueInv(L), NEW j \in JobId, Stall(j)
  PROVE  QueueStep
<1>1. jobs[j] \in JobRecord /\ jobs[j].state = "active"
  BY JobFields DEF QueueInv, Stall
<1>2. \A k \in JobId : k # j => jobs'[k] = jobs[k] /\ failCall'[k] = failCall[k]
  BY DEF Stall, QueueInv, JobsInv, FailCallInv
<1> DEFINE again == [jobs[j] EXCEPT !.state = "waiting",
                                    !.stalls = jobs[j].stalls + 1,
                                    !.owner = NoWorker]
           over  == [jobs[j] EXCEPT !.state = "failed",
                                    !.attempts = jobs[j].attempts + 1,
                                    !.owner = NoWorker]
<1>3. again.state = "waiting" /\ over.state = "failed"
  BY <1>1 DEF JobRecord
<1>4. CASE jobs[j].stalls < MaxStalls
  <2>1. jobs' = [jobs EXCEPT ![j] = again] /\ failCall' = failCall
    BY <1>4 DEF Stall
  <2>2. jobs'[j].state = "waiting"
    BY <1>3, <2>1 DEF QueueInv, JobsInv
  <2> QED BY <1>1, <1>2, <2>2, <2>1 DEF QueueStep, Over, Stall
<1>5. CASE ~(jobs[j].stalls < MaxStalls)
  <2>1. jobs' = [jobs EXCEPT ![j] = over]
    BY <1>5 DEF Stall
  <2>2. jobs'[j].state = "failed"
    BY <1>3, <2>1 DEF QueueInv, JobsInv
  <2> QED BY <1>1, <1>2, <2>2 DEF QueueStep, Over, Stall
<1> QED BY <1>4, <1>5

\* So is the death of the process.
LEMMA QueueCrashStep ==
  ASSUME NEW L, QueueInv(L), QueueCrash
  PROVE  QueueStep
<1>1. \A j \in JobId : jobs'[j].state = jobs[j].state
  BY JobFields DEF QueueInv, QueueCrash, Orphaned, JobRecord
<1>2. \A w \in Worker : exec'[w].pc = "idle"
  BY DEF QueueCrash, Idle
<1>3. \A j \in JobId : failCall'[j] \in {"none", "done"}
  BY DEF QueueCrash
<1> QED BY <1>1, <1>2, <1>3 DEF QueueStep

\* So is a step of onFailed.
LEMMA FailCallQueueStep ==
  ASSUME NEW L, QueueInv(L), NEW j \in JobId, NEW s \in FailCallState,
         failCall[j] \in {"called", "seen"},
         failCall' = [failCall EXCEPT ![j] = s], UNCHANGED <<jobs, exec>>
  PROVE  QueueStep
BY DEF QueueInv, FailCallInv, QueueStep

\* And so is any other step.
LEMMA NoQueueStep ==
  ASSUME UNCHANGED queueVars
  PROVE  QueueStep
BY DEF queueVars, QueueStep

=============================================================================
