--------------------------- MODULE SentimentStage ---------------------------
(***************************************************************************)
(* The sentiment stage of one analysis pipeline: confirmation, the fan-out *)
(* of a run into chunk jobs, SentimentProcessor.Persist, its counter, and  *)
(* the first part of OnSentimentComplete, up to the write of               *)
(* SENTIMENT_GATE.  Every `await' on the database or on Redis ends a step. *)
(* Entities are loaded by one step and flushed by a later one, and a flush *)
(* writes the changed columns by primary key, with no version check.       *)
(***************************************************************************)
EXTENDS JobQueue

CONSTANTS
  Chunk,       \* chunk indexes: chunk c is the job <pipelineId>--sentiment--c
  Confirmer,   \* requests that confirm the pipeline, once each
  Canceller,   \* requests that cancel it, once each
  MaxCrashes   \* bound: process crashes

ASSUME StageAssumption ==
  /\ IsFiniteSet(Chunk)
  /\ Chunk # {}
  /\ Chunk \subseteq JobId
  /\ MaxCrashes \in Nat

Caller == Confirmer \cup Canceller

VARIABLES
  status,     \* analysis_pipeline.status
  hasUrl,     \* SENTIMENT_WORKER_URL is configured
  nruns,      \* sentiment_run rows; the newest one is run nruns
  completed,  \* sentiment_run.completed_chunks
  runStatus,  \* sentiment_run.status
  results,    \* the chunks of which a run has sentiment_result rows
  landed,     \* history: the chunks whose Persist transaction committed
  caller,     \* what each request is doing
  crashes

stageVars == <<hasUrl, nruns, completed, runStatus, results,
               landed, caller, crashes>>
vars == <<queueVars, status, stageVars>>

runVars == <<completed, runStatus, results, landed>>

Terminal == {"COMPLETED", "FAILED", "CANCELLED"}

Status ==
  {"AWAITING_CONFIRMATION", "SENTIMENT_ANALYSIS", "SENTIMENT_GATE",
   "TOPIC_MODELING", "GENERATING_RECOMMENDATIONS"} \cup Terminal

StagePc ==
  {"idle", "answer", "persist", "persistVoid", "reread", "stageFailed",
   "failFlush", "complete", "gateLoad", "gateFlush", "gated"}

ExpectedChunks == Cardinality(Chunk)

CallerRecord ==
  [pc   : {"idle", "confirming", "dispatching", "adding", "cancelling", "done"},
   run  : 0..MaxRuns,
   todo : SUBSET Chunk]

StageTypeOK ==
  /\ status \in Status
  /\ hasUrl \in BOOLEAN
  /\ nruns \in 0..MaxRuns
  /\ completed \in [Run -> 0..ExpectedChunks]
  /\ runStatus \in [Run -> {"PROCESSING", "COMPLETED"}]
  /\ results \in [Run -> SUBSET Chunk]
  /\ landed \in [Run -> SUBSET Chunk]
  /\ caller \in [Caller -> CallerRecord]
  /\ crashes \in 0..MaxCrashes

TypeOK ==
  /\ QueueTypeOK(StagePc)
  /\ StageTypeOK

StageInit ==
  /\ status = "AWAITING_CONFIRMATION"
  /\ hasUrl \in BOOLEAN
  /\ nruns = 0
  /\ completed = [r \in Run |-> 0]
  /\ runStatus = [r \in Run |-> "PROCESSING"]
  /\ results = [r \in Run |-> {}]
  /\ landed = [r \in Run |-> {}]
  /\ caller = [h \in Caller |-> [pc |-> "idle", run |-> 0, todo |-> {}]]
  /\ crashes = 0

Init == QueueInit /\ StageInit

-----------------------------------------------------------------------------
(* Requests: ConfirmPipeline, dispatchSentiment and CancelPipeline.        *)

CallerGoto(h, label) ==
  caller' = [caller EXCEPT ![h] = [@ EXCEPT !.pc = label]]

\* The pipeline is read; any other status is refused with a 400.
ConfirmRead(h) ==
  /\ h \in Confirmer
  /\ caller[h].pc = "idle"
  /\ status = "AWAITING_CONFIRMATION"
  /\ CallerGoto(h, "confirming")
  /\ UNCHANGED <<queueVars, status, hasUrl, nruns, runVars, crashes>>

\* Without a worker URL the pipeline fails; otherwise the stage begins.
ConfirmFlush(h) ==
  /\ caller[h].pc = "confirming"
  /\ \/ /\ ~hasUrl
        /\ status' = "FAILED"
        /\ CallerGoto(h, "done")
     \/ /\ hasUrl
        /\ status' = "SENTIMENT_ANALYSIS"
        /\ CallerGoto(h, "dispatching")
  /\ UNCHANGED <<queueVars, hasUrl, nruns, runVars, crashes>>

\* No submission of the scope has a cleaned comment: failPipeline.
DispatchEmpty(h) ==
  /\ caller[h].pc = "dispatching"
  /\ status' = "FAILED"
  /\ CallerGoto(h, "done")
  /\ UNCHANGED <<queueVars, hasUrl, nruns, runVars, crashes>>

\* The SentimentRun is inserted with its expected chunk count.
DispatchRun(h) ==
  /\ caller[h].pc = "dispatching"
  /\ nruns < MaxRuns
  /\ nruns' = nruns + 1
  /\ caller' = [caller EXCEPT ![h] =
                  [pc |-> "adding", run |-> nruns + 1, todo |-> Chunk]]
  /\ UNCHANGED <<queueVars, status, hasUrl, runVars, crashes>>

ChunkHandled(h, c) ==
  LET left == caller[h].todo \ {c}
  IN  caller' = [caller EXCEPT ![h] =
        [@ EXCEPT !.todo = left, !.pc = IF left = {} THEN "done" ELSE "adding"]]

\* One of the concurrent Queue.add calls of Promise.all.
AddChunk(h, c) ==
  /\ caller[h].pc = "adding"
  /\ c \in caller[h].todo
  /\ jobs' = Enqueue(jobs, c, caller[h].run)
  /\ ChunkHandled(h, c)
  /\ UNCHANGED <<exec, failCall, status, hasUrl, nruns, runVars, crashes>>

\* Redis refuses the job; the request ends in an error, its siblings run on.
AddRejected(h, c) ==
  /\ "redis" \in Faults
  /\ caller[h].pc = "adding"
  /\ c \in caller[h].todo
  /\ ChunkHandled(h, c)
  /\ UNCHANGED <<queueVars, status, hasUrl, nruns, runVars, crashes>>

CancelRead(h) ==
  /\ h \in Canceller
  /\ caller[h].pc = "idle"
  /\ status \notin Terminal
  /\ CallerGoto(h, "cancelling")
  /\ UNCHANGED <<queueVars, status, hasUrl, nruns, runVars, crashes>>

CancelFlush(h) ==
  /\ caller[h].pc = "cancelling"
  /\ status' = "CANCELLED"
  /\ CallerGoto(h, "done")
  /\ UNCHANGED <<queueVars, hasUrl, nruns, runVars, crashes>>

\* A query or flush of the request fails: it ends there, nothing is undone.
RequestThrows(h) ==
  /\ "db" \in Faults
  /\ caller[h].pc \in {"confirming", "dispatching", "cancelling"}
  /\ CallerGoto(h, "done")
  /\ UNCHANGED <<queueVars, status, hasUrl, nruns, runVars, crashes>>

-----------------------------------------------------------------------------
(* SentimentProcessor: the job of a chunk, from the worker's answer on.    *)

AtChunk(w, label) == exec[w].job \in Chunk /\ exec[w].pc = label

ChunkOf(w) == exec[w].job
RunOf(w)   == exec[w].run

\* HTTP error, timeout or malformed response: process() throws.
AnswerThrows(w) ==
  /\ AtChunk(w, "answer")
  /\ Throw(w)
  /\ UNCHANGED <<status, stageVars>>

\* Whatever the worker answered, a terminal pipeline supersedes the chunk.
AnswerSuperseded(w) ==
  /\ AtChunk(w, "answer")
  /\ status \in Terminal
  /\ Finish(w)
  /\ UNCHANGED <<status, stageVars>>

\* The worker reports a failure, no results, or results for other ids only.
AnswerBad(w) ==
  /\ AtChunk(w, "answer")
  /\ status \notin Terminal
  /\ Goto(w, "stageFailed")
  /\ UNCHANGED <<status, stageVars>>

\* All ids are known.  Where void answers are possible, it may be that no item
\* passes sentimentResultItemSchema, and there is nothing to insert.
AnswerAccepted(w) ==
  /\ AtChunk(w, "answer")
  /\ status \notin Terminal
  /\ \E next \in {"persist"} \cup {"persistVoid" : f \in Faults \cap {"void"}} :
       Goto(w, next)
  /\ UNCHANGED <<status, stageVars>>

\* Mutant of PersistDuplicate: the counter is not read again.
DuplicateCompletes(w) ==
  /\ AtChunk(w, "persist")
  /\ ChunkOf(w) \in results[RunOf(w)]
  /\ Goto(w, "complete")
  /\ UNCHANGED <<status, stageVars>>

\* The insert hits the unique index on (run, submission): rolled back.
PersistDuplicate(w) ==
  /\ AtChunk(w, "persist")
  /\ ChunkOf(w) \in results[RunOf(w)]
  /\ Goto(w, "reread")
  /\ UNCHANGED <<status, stageVars>>

\* Mutants of Countable: without the saturation, without the run.
CountableUnsaturated(r) == r = nruns
CountableInAnyRun(r) == completed[r] < ExpectedChunks

\* The guard of the counter's UPDATE: not saturated, and still the newest run.
Countable(r) == completed[r] < ExpectedChunks /\ r = nruns

\* Mutant of NothingStored: without the unique index.
NothingCompared(w) == AtChunk(w, "persist") \/ AtChunk(w, "persistVoid")

NothingStored(w) ==
  \/ AtChunk(w, "persist") /\ ChunkOf(w) \notin results[RunOf(w)]
  \/ AtChunk(w, "persistVoid")

\* The counter's UPDATE matches no row: SupersededChunkError, rolled back.
PersistSuperseded(w) ==
  /\ NothingStored(w)
  /\ ~Countable(RunOf(w))
  /\ Finish(w)
  /\ UNCHANGED <<status, stageVars>>

\* Rows, counter and, for the last chunk, the run's status commit together.
PersistCommit(w) ==
  LET r    == RunOf(w)
      last == completed[r] + 1 = ExpectedChunks
  IN  /\ NothingStored(w)
      /\ Countable(r)
      /\ completed' = [completed EXCEPT ![r] = @ + 1]
      /\ results' = IF exec[w].pc = "persist"
                    THEN [results EXCEPT ![r] = @ \cup {ChunkOf(w)}]
                    ELSE results
      /\ landed' = [landed EXCEPT ![r] = @ \cup {ChunkOf(w)}]
      /\ runStatus' = IF last THEN [runStatus EXCEPT ![r] = "COMPLETED"]
                      ELSE runStatus
      /\ IF last THEN Goto(w, "complete") ELSE Finish(w)
      /\ UNCHANGED <<status, hasUrl, nruns, caller, crashes>>

\* A mutant of Reread: every duplicate is taken for the last chunk.
RereadUnchecked(w) ==
  /\ AtChunk(w, "reread")
  /\ Goto(w, "complete")
  /\ UNCHANGED <<status, stageVars>>

\* A swallowed duplicate re-reads the counter and compensates.
Reread(w) ==
  /\ AtChunk(w, "reread")
  /\ IF completed[RunOf(w)] = ExpectedChunks
     THEN Goto(w, "complete") ELSE Finish(w)
  /\ UNCHANGED <<status, stageVars>>

-----------------------------------------------------------------------------
(* OnStageFailed, from a processor and from a job's onFailed listener.     *)

\* Missing or terminal pipelines and stale failures are ignored.
StageFailedRead(w, expected) ==
  /\ exec[w].pc = "stageFailed"
  /\ IF status = expected THEN Goto(w, "failFlush") ELSE Finish(w)
  /\ UNCHANGED <<status, stageVars>>

StageFailedFlush(w) ==
  /\ exec[w].pc = "failFlush"
  /\ status' = "FAILED"
  /\ Finish(w)
  /\ UNCHANGED stageVars

OnFailedRead(j, expected) ==
  /\ failCall[j] = "called"
  /\ failCall' = [failCall EXCEPT ![j] =
       IF status = expected THEN "seen" ELSE "done"]
  /\ UNCHANGED <<jobs, exec, status, stageVars>>

OnFailedFlush(j) ==
  /\ failCall[j] = "seen"
  /\ status' = "FAILED"
  /\ failCall' = [failCall EXCEPT ![j] = "done"]
  /\ UNCHANGED <<jobs, exec, stageVars>>

\* The call's own database error is caught and logged.
OnFailedLost(j) ==
  /\ "db" \in Faults
  /\ failCall[j] \in {"called", "seen"}
  /\ failCall' = [failCall EXCEPT ![j] = "done"]
  /\ UNCHANGED <<jobs, exec, status, stageVars>>

-----------------------------------------------------------------------------
(* OnSentimentComplete, up to the flush of the gate.                       *)

\* Mutant of CompleteRead: OnSentimentComplete does not look at the status.
CompleteUnchecked(w) ==
  /\ AtChunk(w, "complete")
  /\ Goto(w, "gateLoad")
  /\ UNCHANGED <<status, stageVars>>

CompleteRead(w) ==
  /\ AtChunk(w, "complete")
  /\ IF status = "SENTIMENT_ANALYSIS" THEN Goto(w, "gateLoad") ELSE Finish(w)
  /\ UNCHANGED <<status, stageVars>>

\* The gate works on the results of the newest run.
GateLoad(w) ==
  /\ AtChunk(w, "gateLoad")
  /\ exec' = [exec EXCEPT ![w] = [@ EXCEPT !.pc = "gateFlush", !.run = nruns]]
  /\ UNCHANGED <<jobs, failCall, status, stageVars>>

GateFlush(w) ==
  /\ AtChunk(w, "gateFlush")
  /\ status' = "SENTIMENT_GATE"
  /\ Goto(w, "gated")
  /\ UNCHANGED stageVars

\* A query or a flush fails: the handler throws.
HandlerThrows(w) ==
  /\ "db" \in Faults
  /\ exec[w].pc \in StagePc \ {"idle", "answer", "gated"}
  /\ Throw(w)
  /\ UNCHANGED <<status, stageVars>>

\* What follows the gate is not part of this module.
StageDone(w) ==
  /\ AtChunk(w, "gated")
  /\ Finish(w)
  /\ UNCHANGED <<status, stageVars>>

-----------------------------------------------------------------------------

TakeJob(w, j) == Take(w, j) /\ UNCHANGED <<status, stageVars>>
StallJob(j)   == Stall(j) /\ UNCHANGED <<status, stageVars>>

\* The process dies: its requests end without finishing their work.
Crash ==
  /\ "crash" \in Faults
  /\ crashes < MaxCrashes
  /\ crashes' = crashes + 1
  /\ QueueCrash
  /\ caller' = [h \in Caller |->
       IF caller[h].pc = "idle" THEN caller[h]
       ELSE [caller[h] EXCEPT !.pc = "done", !.todo = {}]]
  /\ UNCHANGED <<status, hasUrl, nruns, runVars>>

CallerProgress(h) ==
  \/ ConfirmFlush(h) \/ DispatchEmpty(h) \/ DispatchRun(h)
  \/ CancelFlush(h) \/ RequestThrows(h)
  \/ \E c \in Chunk : AddChunk(h, c) \/ AddRejected(h, c)

ChunkStep(w) ==
  \/ AnswerThrows(w) \/ AnswerSuperseded(w) \/ AnswerBad(w)
  \/ AnswerAccepted(w)
  \/ PersistDuplicate(w) \/ PersistSuperseded(w) \/ PersistCommit(w)
  \/ Reread(w)
  \/ exec[w].job \in Chunk /\ StageFailedRead(w, "SENTIMENT_ANALYSIS")
  \/ StageFailedFlush(w)
  \/ CompleteRead(w) \/ GateLoad(w) \/ GateFlush(w) \/ HandlerThrows(w)

OnFailedStep(c) ==
  \/ OnFailedRead(c, "SENTIMENT_ANALYSIS") \/ OnFailedFlush(c)
  \/ OnFailedLost(c)

Next ==
  \/ \E h \in Caller : ConfirmRead(h) \/ CancelRead(h) \/ CallerProgress(h)
  \/ \E w \in Worker : ChunkStep(w) \/ StageDone(w)
  \/ \E w \in Worker, c \in Chunk : TakeJob(w, c)
  \/ \E c \in Chunk : OnFailedStep(c) \/ StallJob(c)
  \/ Crash

Spec == Init /\ [][Next]_vars

-----------------------------------------------------------------------------
(* Properties.                                                             *)

\* The counter that decides the fan-in counts each chunk of its run once,
\* whatever was retried, stalled or superseded, and the run is COMPLETED
\* exactly when all its chunks have landed (sentiment.processor.ts:204-304).
CounterIsExact ==
  \A r \in Run :
    /\ completed[r] = Cardinality(landed[r])
    /\ runStatus[r] = "COMPLETED" <=> landed[r] = Chunk

\* The pipeline leaves the sentiment stage for the gate only once every chunk
\* of one run has landed: no order of duplicates, failures and crashes lets
\* OnSentimentComplete advance it early.
GateOnlyAfterFanIn ==
  status = "SENTIMENT_GATE" => \E r \in Run : results[r] = Chunk

\* The gate filters the newest run.  As long as the pipeline was dispatched
\* once, that is a whole run; a second confirmation can break it.
GateSeesWholeRun ==
  nruns = 1 => \A w \in Worker :
    exec[w].pc \in {"gateFlush", "gated"} => results[RunOf(w)] = Chunk

\* The stage is a ChunkBatch: a run is a batch, its stored rows are the chunks
\* that landed, a COMPLETED run is whole.
Batch ==
  INSTANCE ChunkBatch WITH
    MaxBatches <- MaxRuns,
    newest <- nruns,
    landed <- results,
    whole <- {r \in Run : runStatus[r] = "COMPLETED"},
    passed <- (status = "SENTIMENT_GATE")

\* However jobs are retried, doubled, superseded or lost, the rows of the runs,
\* their status and the gate change only as a ChunkBatch allows: a chunk's rows
\* land once and only in the newest run, in the same step as its count.
ImplementsBatch == Batch!BatchSpec

BeingDispatched(c) ==
  \E h \in Confirmer :
    \/ caller[h].pc = "dispatching"
    \/ caller[h].pc = "adding" /\ c \in caller[h].todo

\* A chunk that never reached the queue, was skipped because the pipeline
\* looked terminal, or failed for good without failing the pipeline.
ChunkLost(c) ==
  \/ jobs[c].state = "absent" /\ ~BeingDispatched(c)
  \/ jobs[c].state = "completed" /\ c \notin landed[jobs[c].run]
  \/ jobs[c].state = "failed" /\ failCall[c] \in {"none", "done"}

=============================================================================
