-------------------------- MODULE AnalysisPipeline --------------------------
(***************************************************************************)
(* The whole life of one analysis pipeline: the sentiment stage of module  *)
(* SentimentStage, then the rest of OnSentimentComplete, the topic job,    *)
(* OnTopicModelComplete, the recommendations job, and                      *)
(* OnRecommendationsComplete.  The three queues feed the same slots.       *)
(***************************************************************************)
EXTENDS SentimentStage

CONSTANTS
  TopicJob,   \* <pipelineId>--topic-model
  RecJob      \* <pipelineId>--recommendations

ASSUME PipelineAssumption ==
  /\ TopicJob # RecJob
  /\ {TopicJob, RecJob} \cap Chunk = {}
  /\ JobId = Chunk \cup {TopicJob, RecJob}

VARIABLES
  hasTopicUrl,   \* TOPIC_MODEL_WORKER_URL is configured
  ntopics,       \* topic_model_run rows; the newest one is run ntopics
  topicSets,     \* how often the topics of a run were inserted
  topicStatus,   \* topic_model_run.status
  nrecs,         \* recommendation_run rows; the newest one is run nrecs
  actionSets,    \* how often the actions of a run were inserted
  recStatus,     \* recommendation_run.status
  recMark,       \* the write of FAILED that RecommendationsProcessor.onFailed starts
  refreshQueued  \* the analytics-refresh job was added

topicVars == <<hasTopicUrl, ntopics, topicSets, topicStatus>>
recVars   == <<nrecs, actionSets, recStatus, recMark, refreshQueued>>
laterVars == <<topicVars, recVars>>
pipelineVars == <<vars, laterVars>>

PipelinePc ==
  StagePc \cup
  {"topicDispatch", "topicAdd", "topicPersist", "topicComplete", "labelling",
   "recDispatch", "recAdd", "recPersist", "recComplete", "completing",
   "refreshing", "dispatchFailed"}

\* A job is run at most once per attempt and per stall.
MaxSets == MaxAttempts + MaxStalls

PipelineTypeOK ==
  /\ QueueTypeOK(PipelinePc)
  /\ StageTypeOK
  /\ hasTopicUrl \in BOOLEAN
  /\ ntopics \in 0..MaxRuns
  /\ topicSets \in [Run -> 0..MaxSets]
  /\ topicStatus \in [Run -> {"PROCESSING", "COMPLETED"}]
  /\ nrecs \in 0..MaxRuns
  /\ actionSets \in [Run -> 0..MaxSets]
  /\ recStatus \in [Run -> {"PROCESSING", "COMPLETED", "FAILED"}]
  /\ recMark \in {"none", "called", "seen"}
  /\ refreshQueued \in BOOLEAN

PipelineInit ==
  /\ Init
  /\ hasTopicUrl \in BOOLEAN
  /\ ntopics = 0
  /\ topicSets = [r \in Run |-> 0]
  /\ topicStatus = [r \in Run |-> "PROCESSING"]
  /\ nrecs = 0
  /\ actionSets = [r \in Run |-> 0]
  /\ recStatus = [r \in Run |-> "PROCESSING"]
  /\ recMark = "none"
  /\ refreshQueued = FALSE

At(w, label) == exec[w].pc = label

\* The handler goes on with a run it has just created.
GotoRun(w, label, r) ==
  /\ exec' = [exec EXCEPT ![w] = [@ EXCEPT !.pc = label, !.run = r]]
  /\ UNCHANGED <<jobs, failCall>>

-----------------------------------------------------------------------------
(* OnSentimentComplete after the gate, and dispatchTopicModeling.          *)

\* Without a topic worker URL: failPipeline.
GateUnconfigured(w) ==
  /\ At(w, "gated")
  /\ ~hasTopicUrl
  /\ status' = "FAILED"
  /\ Finish(w)
  /\ UNCHANGED <<stageVars, laterVars>>

GateAdvance(w) ==
  /\ At(w, "gated")
  /\ hasTopicUrl
  /\ status' = "TOPIC_MODELING"
  /\ Goto(w, "topicDispatch")
  /\ UNCHANGED <<stageVars, laterVars>>

\* No submission passed the gate, or none that did has an embedding.
TopicDispatchEmpty(w) ==
  /\ At(w, "topicDispatch")
  /\ status' = "FAILED"
  /\ Finish(w)
  /\ UNCHANGED <<stageVars, laterVars>>

TopicDispatchRun(w) ==
  /\ At(w, "topicDispatch")
  /\ ntopics < MaxRuns
  /\ ntopics' = ntopics + 1
  /\ GotoRun(w, "topicAdd", ntopics + 1)
  /\ UNCHANGED <<status, stageVars, hasTopicUrl, topicSets, topicStatus,
                 recVars>>

\* The handler's last step: the job is added, under an id without the run.
AddAndFinish(w, j) ==
  /\ jobs' \in Acknowledged(Enqueue(jobs, j, exec[w].run), w)
  /\ Leave(w)
  /\ UNCHANGED failCall

TopicAdd(w) ==
  /\ At(w, "topicAdd")
  /\ AddAndFinish(w, TopicJob)
  /\ UNCHANGED <<status, stageVars, laterVars>>

\* Both dispatches are wrapped in a try whose catch fails the pipeline.
DispatchThrows(w) ==
  /\ \/ /\ "db" \in Faults
        /\ exec[w].pc \in {"topicDispatch", "topicAdd", "recDispatch", "recAdd"}
     \/ /\ "redis" \in Faults
        /\ exec[w].pc \in {"topicAdd", "recAdd"}
  /\ Goto(w, "dispatchFailed")
  /\ UNCHANGED <<status, stageVars, laterVars>>

DispatchFailed(w) ==
  /\ At(w, "dispatchFailed")
  /\ status' = "FAILED"
  /\ Finish(w)
  /\ UNCHANGED <<stageVars, laterVars>>

-----------------------------------------------------------------------------
(* TopicModelProcessor and OnTopicModelComplete.                           *)

AtTopic(w) == exec[w].job = TopicJob /\ exec[w].pc = "answer"

TopicAnswerThrows(w) ==
  /\ AtTopic(w)
  /\ Throw(w)
  /\ UNCHANGED <<status, stageVars, laterVars>>

\* Mutant of TopicAnswerBad: the handler goes on to OnTopicModelComplete.
TopicAnswerBadIgnored(w) ==
  /\ AtTopic(w)
  /\ Goto(w, "topicComplete")
  /\ UNCHANGED <<status, stageVars, laterVars>>

\* Mutant of TopicAnswerBad: it returns without a word to the orchestrator.
TopicAnswerBadDropped(w) ==
  /\ AtTopic(w)
  /\ Finish(w)
  /\ UNCHANGED <<status, stageVars, laterVars>>

\* An invalid, failed or incomplete answer fails the stage.
TopicAnswerBad(w) ==
  /\ AtTopic(w)
  /\ Goto(w, "stageFailed")
  /\ UNCHANGED <<status, stageVars, laterVars>>

\* Unlike the sentiment processor, this one does not look at the pipeline.
TopicAnswerGood(w) ==
  /\ AtTopic(w)
  /\ Goto(w, "topicPersist")
  /\ UNCHANGED <<status, stageVars, laterVars>>

\* Topics, assignments and the run's status are flushed together; nothing
\* keeps a second attempt from inserting them again.
TopicPersist(w) ==
  LET r == exec[w].run
  IN  /\ At(w, "topicPersist")
      /\ topicSets' = [topicSets EXCEPT ![r] = @ + 1]
      /\ topicStatus' = [topicStatus EXCEPT ![r] = "COMPLETED"]
      /\ Goto(w, "topicComplete")
      /\ UNCHANGED <<status, stageVars, hasTopicUrl, ntopics, recVars>>

\* Mutant of TopicComplete: OnTopicModelComplete does not look at the status.
TopicCompleteUnchecked(w) ==
  /\ At(w, "topicComplete")
  /\ Goto(w, "labelling")
  /\ UNCHANGED <<status, stageVars, laterVars>>

TopicComplete(w) ==
  /\ At(w, "topicComplete")
  /\ IF status = "TOPIC_MODELING" THEN Goto(w, "labelling") ELSE Finish(w)
  /\ UNCHANGED <<status, stageVars, laterVars>>

\* After the LLM has named the topics, the status read before is advanced.
Labelled(w) ==
  /\ At(w, "labelling")
  /\ status' = "GENERATING_RECOMMENDATIONS"
  /\ Goto(w, "recDispatch")
  /\ UNCHANGED <<stageVars, laterVars>>

RecDispatchRun(w) ==
  /\ At(w, "recDispatch")
  /\ nrecs < MaxRuns
  /\ nrecs' = nrecs + 1
  /\ GotoRun(w, "recAdd", nrecs + 1)
  /\ UNCHANGED <<status, stageVars, topicVars, actionSets, recStatus, recMark,
                 refreshQueued>>

RecAdd(w) ==
  /\ At(w, "recAdd")
  /\ AddAndFinish(w, RecJob)
  /\ UNCHANGED <<status, stageVars, laterVars>>

-----------------------------------------------------------------------------
(* RecommendationsProcessor and OnRecommendationsComplete.                 *)

AtRec(w) == exec[w].job = RecJob /\ exec[w].pc = "answer"

\* A failed attempt, the last one or not, starts the marking of the run.
RecThrow(w) ==
  /\ Throw(w)
  /\ recMark' = IF Owns(w) THEN "called" ELSE recMark
  /\ UNCHANGED <<status, stageVars, topicVars, nrecs, actionSets, recStatus,
                 refreshQueued>>

\* The LLM call of Generate fails.
RecAnswerThrows(w) == AtRec(w) /\ RecThrow(w)

RecGenerated(w) ==
  /\ AtRec(w)
  /\ Goto(w, "recPersist")
  /\ UNCHANGED <<status, stageVars, laterVars>>

RecPersist(w) ==
  LET r == exec[w].run
  IN  /\ At(w, "recPersist")
      /\ actionSets' = [actionSets EXCEPT ![r] = @ + 1]
      /\ recStatus' = [recStatus EXCEPT ![r] = "COMPLETED"]
      /\ Goto(w, "recComplete")
      /\ UNCHANGED <<status, stageVars, topicVars, nrecs, recMark,
                     refreshQueued>>

RecComplete(w) ==
  /\ At(w, "recComplete")
  /\ IF status = "GENERATING_RECOMMENDATIONS"
     THEN Goto(w, "completing") ELSE Finish(w)
  /\ UNCHANGED <<status, stageVars, laterVars>>

CompletePipeline(w) ==
  /\ At(w, "completing")
  /\ status' = "COMPLETED"
  /\ Goto(w, "refreshing")
  /\ UNCHANGED <<stageVars, laterVars>>

\* Best effort: a refused analytics-refresh job is only logged.
QueueRefresh(w) ==
  /\ At(w, "refreshing")
  /\ \/ refreshQueued' = TRUE
     \/ "redis" \in Faults /\ UNCHANGED refreshQueued
  /\ Finish(w)
  /\ UNCHANGED <<status, stageVars, topicVars, nrecs, actionSets, recStatus,
                 recMark>>

RecMarkRead ==
  /\ recMark = "called"
  /\ recMark' = IF recStatus[jobs[RecJob].run] = "COMPLETED"
                THEN "none" ELSE "seen"
  /\ UNCHANGED <<vars, topicVars, nrecs, actionSets, recStatus,
                 refreshQueued>>

RecMarkFlush ==
  /\ recMark = "seen"
  /\ recMark' = "none"
  /\ recStatus' = [recStatus EXCEPT ![jobs[RecJob].run] = "FAILED"]
  /\ UNCHANGED <<vars, topicVars, nrecs, actionSets, refreshQueued>>

-----------------------------------------------------------------------------

\* A query or a flush outside the two try blocks fails.
LaterThrows(w) ==
  /\ "db" \in Faults
  /\ \/ /\ exec[w].pc \in {"gated", "topicPersist", "topicComplete",
                           "labelling", "dispatchFailed"}
        /\ Throw(w)
        /\ UNCHANGED <<status, stageVars, laterVars>>
     \/ /\ exec[w].pc \in {"recPersist", "recComplete", "completing"}
        /\ RecThrow(w)

LaterStep(w) ==
  \/ GateUnconfigured(w) \/ GateAdvance(w)
  \/ TopicDispatchEmpty(w) \/ TopicDispatchRun(w) \/ TopicAdd(w)
  \/ DispatchThrows(w) \/ DispatchFailed(w)
  \/ TopicAnswerThrows(w) \/ TopicAnswerBad(w) \/ TopicAnswerGood(w)
  \/ /\ exec[w].job = TopicJob
     /\ StageFailedRead(w, "TOPIC_MODELING")
     /\ UNCHANGED laterVars
  \/ TopicPersist(w) \/ TopicComplete(w) \/ Labelled(w)
  \/ RecDispatchRun(w) \/ RecAdd(w)
  \/ RecAnswerThrows(w) \/ RecGenerated(w) \/ RecPersist(w)
  \/ RecComplete(w) \/ CompletePipeline(w) \/ QueueRefresh(w)
  \/ LaterThrows(w)

\* The stage a job belongs to; its onFailed reports the failure of that stage.
StageStatus(j) ==
  CASE j \in Chunk -> "SENTIMENT_ANALYSIS"
    [] j = TopicJob -> "TOPIC_MODELING"
    [] j = RecJob   -> "GENERATING_RECOMMENDATIONS"

PipelineOnFailed(j) ==
  /\ OnFailedRead(j, StageStatus(j)) \/ OnFailedFlush(j) \/ OnFailedLost(j)
  /\ UNCHANGED laterVars

\* A recommendations job that stalled too often also marks its run.
PipelineStall(j) ==
  /\ StallJob(j)
  /\ recMark' = IF j = RecJob /\ jobs'[j].state = "failed"
                THEN "called" ELSE recMark
  /\ UNCHANGED <<topicVars, nrecs, actionSets, recStatus, refreshQueued>>

PipelineCrash ==
  /\ Crash
  /\ recMark' = "none"
  /\ UNCHANGED <<topicVars, nrecs, actionSets, recStatus, refreshQueued>>

WorkerStep(w) == (ChunkStep(w) /\ UNCHANGED laterVars) \/ LaterStep(w)

PipelineTake(j) ==
  \E w \in Worker : TakeJob(w, j) /\ UNCHANGED laterVars

PipelineNext ==
  \/ /\ \E h \in Caller : ConfirmRead(h) \/ CancelRead(h) \/ CallerProgress(h)
     /\ UNCHANGED laterVars
  \/ \E w \in Worker : WorkerStep(w)
  \/ \E j \in JobId : PipelineTake(j) \/ PipelineOnFailed(j) \/ PipelineStall(j)
  \/ RecMarkRead \/ RecMarkFlush
  \/ PipelineCrash

PipelineSpec == PipelineInit /\ [][PipelineNext]_pipelineVars

\* As in SentimentStage: what has begun goes on; users need not call anything.
PipelineFairness ==
  /\ \A h \in Caller : WF_pipelineVars(CallerProgress(h) /\ UNCHANGED laterVars)
  /\ \A w \in Worker : WF_pipelineVars(WorkerStep(w))
  /\ \A j \in JobId :
       /\ WF_pipelineVars(PipelineTake(j))
       /\ WF_pipelineVars(PipelineOnFailed(j))
       /\ WF_pipelineVars(jobs[j].owner = NoWorker /\ PipelineStall(j))

PipelineFairSpec == PipelineSpec /\ PipelineFairness

-----------------------------------------------------------------------------
(* Properties.                                                             *)

WholeSentimentRun == \E r \in Run : landed[r] = Chunk
SomeTopicRunDone  == \E r \in Run : topicStatus[r] = "COMPLETED"
SomeActionsStored == \E r \in Run : actionSets[r] > 0

NoStageSkipped ==
  /\ status \in {"SENTIMENT_GATE", "TOPIC_MODELING"} => WholeSentimentRun
  /\ status = "GENERATING_RECOMMENDATIONS" =>
       WholeSentimentRun /\ SomeTopicRunDone
  /\ status = "COMPLETED" =>
       WholeSentimentRun /\ SomeTopicRunDone /\ SomeActionsStored

CompletedRunsAreNewest ==
  status = "COMPLETED" =>
    /\ landed[nruns] = Chunk
    /\ ntopics = 1 /\ topicStatus[1] = "COMPLETED"
    /\ nrecs = 1 /\ actionSets[1] > 0

\* No stage is skipped: whatever is retried, cancelled or lost, in a pipeline
\* that shows a later stage every chunk of some run has landed, be it without a
\* valid item, and the later stages before it have their rows.  In a completed
\* one the newest runs, the ones that readers take, are whole, and each stage
\* ran once.
StagesAreWhole == NoStageSkipped /\ CompletedRunsAreNewest

Rank ==
  [s \in Status \ Terminal |->
     CASE s = "AWAITING_CONFIRMATION" -> 0
       [] s = "SENTIMENT_ANALYSIS" -> 1
       [] s = "SENTIMENT_GATE" -> 2
       [] s = "TOPIC_MODELING" -> 3
       [] s = "GENERATING_RECOMMENDATIONS" -> 4]

NeverBack ==
  {status, status'} \cap Terminal = {} => Rank[status] <= Rank[status']

AtWork(pcs) == \E w \in Worker : exec[w].pc \in pcs

\* The job of a later stage was never added, because the process died or failed
\* to record that it could not, or the job failed for good and nobody recorded it.
JobLost(j, dispatching) ==
  \/ jobs[j].state = "absent" /\ ~AtWork(dispatching)
  \/ jobs[j].state = "failed" /\ failCall[j] \in {"none", "done"}

\* Nobody goes on with the later stage the pipeline is in.  Past the gate only
\* the handler that passed it does; a retry finds the guard closed.
StageLost ==
  \/ status = "SENTIMENT_GATE" /\ ~AtWork({"gated"})
  \/ /\ status = "TOPIC_MODELING"
     /\ JobLost(TopicJob, {"topicDispatch", "topicAdd", "dispatchFailed"})
  \/ /\ status = "GENERATING_RECOMMENDATIONS"
     /\ JobLost(RecJob, {"recDispatch", "recAdd", "dispatchFailed"})

\* All chunks are through and nobody opened the gate: the one that should have
\* was a retry without a valid item, whose rows were there already.
GateLost ==
  status = "SENTIMENT_ANALYSIS" /\ \A c \in Chunk : jobs[c].state = "completed"

Stuck == StageLost \/ GateLost \/ \E c \in Chunk : ChunkLost(c)

\* A confirmed pipeline ends, unless a chunk of it was lost on the way, or its
\* gate or its later stage is: whatever query, job or process fails, these are all the ways
\* in which it can hang, and a pipeline that hangs in one of them hangs for good.
PipelineEndsOrIsStuck ==
  status = "SENTIMENT_ANALYSIS" ~> (status \in Terminal \/ []Stuck)

\* A step that read the pipeline, or left its reading behind, is still to write.
ReadBefore ==
  \/ \E w \in Worker : exec[w].pc \in
       {"failFlush", "gateLoad", "gateFlush", "gated", "topicDispatch",
        "topicAdd", "dispatchFailed", "labelling", "recDispatch", "recAdd",
        "completing"}
  \/ \E j \in JobId : failCall[j] = "seen"
  \/ \E h \in Caller :
       caller[h].pc \in {"confirming", "dispatching", "cancelling"}

Settled == status \in Terminal /\ ~ReadBefore

SettledStays == Settled => Settled' /\ status' = status

\* The stages of a pipeline only go forward, and COMPLETED, FAILED and CANCELLED
\* are final as soon as no handler or request is at work that read the pipeline
\* before it ended: jobs that still wait, run, stall or fail then, and retries
\* of any kind, change nothing any more.
OnlyForward == [][NeverBack /\ SettledStays]_pipelineVars

=============================================================================
