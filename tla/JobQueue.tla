------------------------------ MODULE JobQueue ------------------------------
(***************************************************************************)
(* BullMQ as the processors use it: jobs keyed by a jobId that is not used *)
(* again, retried up to MaxAttempts, re-queued when their lock expires (at *)
(* most MaxStalls times).  The jobIds of the analysis are deterministic,   *)
(* and its finished jobs are never removed.  A worker slot                 *)
(* that runs a job is a process with a program counter; a slot whose job   *)
(* was re-queued under it goes on running as a stalled duplicate, and      *)
(* nothing it reports to the queue counts any more.                        *)
(*                                                                         *)
(* BullMQ is external code.  failCall is the fire-and-forget call that a   *)
(* processor's own `onFailed' listener starts once the attempts are used   *)
(* up.                                                                     *)
(***************************************************************************)
EXTENDS Naturals, FiniteSets

CONSTANTS
  JobId,        \* the jobIds of the jobs of one pipeline
  Worker,       \* slots that process jobs, over all queues and processes
  MaxAttempts,  \* BULLMQ_DEFAULT_ATTEMPTS
  MaxStalls,    \* BULLMQ_MAX_STALLED_COUNT
  MaxRuns,      \* bound: runs of one stage of one pipeline
  Faults,       \* which environment faults a model allows
  NoWorker,
  NoJob

\* A database error; a job Redis refuses; an acknowledgement it refuses; a lock
\* that expires under a running handler; a process that dies; a worker's answer
\* of which no item is valid; a PDF that cannot be rendered or stored.
FaultKinds == {"db", "redis", "ack", "stall", "crash", "void", "storage"}

ASSUME QueueAssumption ==
  /\ MaxAttempts \in Nat \ {0}
  /\ MaxStalls \in Nat
  /\ MaxRuns \in Nat
  /\ Faults \subseteq FaultKinds
  /\ NoWorker \notin Worker
  /\ NoJob \notin JobId

VARIABLES
  jobs,      \* the queue's record of each job
  exec,      \* what each worker slot is doing
  failCall   \* the onFailed call of each job

queueVars == <<jobs, exec, failCall>>

Run == 1..MaxRuns

JobRecord ==
  [state    : {"absent", "waiting", "active", "completed", "failed"},
   attempts : 0..MaxAttempts,
   stalls   : 0..MaxStalls,
   owner    : Worker \cup {NoWorker},
   run      : 0..MaxRuns]

ExecRecord(labels) ==
  [job : JobId \cup {NoJob}, pc : labels, run : 0..MaxRuns]

FailCallState == {"none", "called", "seen", "done"}

\* labels: the program points of the processors' handlers.
QueueTypeOK(labels) ==
  /\ jobs \in [JobId -> JobRecord]
  /\ exec \in [Worker -> ExecRecord(labels)]
  /\ failCall \in [JobId -> FailCallState]

Idle == [job |-> NoJob, pc |-> "idle", run |-> 0]

NeverAdded ==
  [state |-> "absent", attempts |-> 0, stalls |-> 0,
   owner |-> NoWorker, run |-> 0]

QueueInit ==
  /\ jobs = [j \in JobId |-> NeverAdded]
  /\ exec = [w \in Worker |-> Idle]
  /\ failCall = [j \in JobId |-> "none"]

(***************************************************************************)
(* Queue.add with a jobId.  A job whose id is already known is ignored,    *)
(* whatever its state: the analysis queues keep finished jobs.             *)
(***************************************************************************)
Enqueue(q, j, r) ==
  IF q[j].state = "absent"
  THEN [q EXCEPT ![j] = [@ EXCEPT !.state = "waiting", !.run = r]]
  ELSE q

Owns(w) == jobs[exec[w].job].owner = w

\* A free slot takes a waiting job.
Take(w, j) ==
  /\ exec[w].pc = "idle"
  /\ jobs[j].state = "waiting"
  /\ jobs' = [jobs EXCEPT ![j] = [@ EXCEPT !.state = "active", !.owner = w]]
  /\ exec' = [exec EXCEPT ![w] =
                [job |-> j, pc |-> "answer", run |-> jobs[j].run]]
  /\ UNCHANGED failCall

Goto(w, label) ==
  /\ exec' = [exec EXCEPT ![w] = [@ EXCEPT !.pc = label]]
  /\ UNCHANGED <<jobs, failCall>>

Completed(rec) == [rec EXCEPT !.state = "completed", !.owner = NoWorker]
Orphaned(rec)  == [rec EXCEPT !.owner = NoWorker]

(***************************************************************************)
(* The handler of slot w returned.  Its job completes if w still holds the *)
(* lock; when Redis does not take the acknowledgement, the job stays       *)
(* active until its lock expires.                                          *)
(***************************************************************************)
Acknowledged(q, w) ==
  LET j == exec[w].job
  IN  IF q[j].owner # w THEN {q}
      ELSE {[q EXCEPT ![j] = Completed(@)]} \cup
           (IF "ack" \in Faults THEN {[q EXCEPT ![j] = Orphaned(@)]} ELSE {})

Leave(w) == exec' = [exec EXCEPT ![w] = Idle]

Finish(w) ==
  /\ Leave(w)
  /\ jobs' \in Acknowledged(jobs, w)
  /\ UNCHANGED failCall

\* Mutant of Throw: one attempt too many is retried.
ThrowOffByOne(w) ==
  LET j     == exec[w].job
      tries == jobs[j].attempts + 1
  IN  /\ Leave(w)
      /\ UNCHANGED failCall
      /\ IF Owns(w)
         THEN jobs' = [jobs EXCEPT ![j] =
                [@ EXCEPT !.state = IF tries <= MaxAttempts
                                    THEN "waiting" ELSE "failed",
                          !.attempts = tries,
                          !.owner = NoWorker]]
         ELSE UNCHANGED jobs

\* Mutant of Throw: every failed attempt is taken for the last one.
ThrowNotifies(w) ==
  LET j     == exec[w].job
      tries == jobs[j].attempts + 1
  IN  /\ Leave(w)
      /\ IF Owns(w)
         THEN /\ jobs' = [jobs EXCEPT ![j] =
                   [@ EXCEPT !.state = IF tries < MaxAttempts
                                       THEN "waiting" ELSE "failed",
                             !.attempts = tries,
                             !.owner = NoWorker]]
              /\ failCall' = [failCall EXCEPT ![j] = "called"]
         ELSE UNCHANGED <<jobs, failCall>>

(***************************************************************************)
(* The handler threw: the job is retried, or fails for good, which starts  *)
(* the processor's onFailed.  A stalled duplicate has lost the lock, so    *)
(* its failure is not recorded.                                            *)
(***************************************************************************)
Throw(w) ==
  LET j     == exec[w].job
      tries == jobs[j].attempts + 1
  IN  /\ Leave(w)
      /\ IF Owns(w)
         THEN /\ jobs' = [jobs EXCEPT ![j] =
                   [@ EXCEPT !.state = IF tries < MaxAttempts
                                       THEN "waiting" ELSE "failed",
                             !.attempts = tries,
                             !.owner = NoWorker]]
              /\ failCall' = IF tries < MaxAttempts
                             THEN failCall
                             ELSE [failCall EXCEPT ![j] = "called"]
         ELSE UNCHANGED <<jobs, failCall>>

(***************************************************************************)
(* The lock of an active job expired: its process died, or it still runs   *)
(* and could not renew the lock in time ("stall").  The job goes back to   *)
(* the queue, or fails for good once it has stalled too often; then its    *)
(* attempts are usually not used up and onFailed returns without a call.   *)
(***************************************************************************)
Stall(j) ==
  /\ jobs[j].state = "active"
  /\ jobs[j].owner = NoWorker \/ "stall" \in Faults
  /\ IF jobs[j].stalls < MaxStalls
     THEN /\ jobs' = [jobs EXCEPT ![j] =
               [jobs[j] EXCEPT !.state = "waiting", !.stalls = @ + 1,
                               !.owner = NoWorker]]
          /\ UNCHANGED failCall
     ELSE /\ jobs' = [jobs EXCEPT ![j] =
               [jobs[j] EXCEPT !.state = "failed", !.attempts = @ + 1,
                               !.owner = NoWorker]]
          /\ failCall' = IF jobs[j].attempts + 1 < MaxAttempts
                         THEN failCall
                         ELSE [failCall EXCEPT ![j] = "called"]
  /\ UNCHANGED exec

\* The process died: handlers and pending calls are gone, the jobs are not.
QueueCrash ==
  /\ exec' = [w \in Worker |-> Idle]
  /\ jobs' = [j \in JobId |-> Orphaned(jobs[j])]
  /\ failCall' = [j \in JobId |->
       IF failCall[j] = "none" THEN "none" ELSE "done"]

=============================================================================
