---------------------- MODULE AnalysisPipeline_proofs ----------------------
(***************************************************************************)
(* Proofs about the sentiment stage and about the whole pipeline.          *)
(*                                                                         *)
(* The stage: its type invariant is proved with the queue's; the fan-in,   *)
(* and that the stage implements ChunkBatch, need that every answer the    *)
(* processor stores holds a valid item.                                    *)
(*                                                                         *)
(* The pipeline: its types, with the number of times a job can store its   *)
(* rows; that no stage is skipped; that the stages only go forward; and    *)
(* that a pipeline that has ended stays as it is.                          *)
(***************************************************************************)
EXTENDS AnalysisPipeline, JobQueue_proofs, FiniteSetTheorems

-----------------------------------------------------------------------------
(* The sentiment stage.                                                    *)

USE QueueAssumption, StageAssumption DEF QueueAssumption, StageAssumption

\* The expected number of chunks is a number.
LEMMA ExpectedIsNat == ExpectedChunks \in Nat
BY FS_CardinalityType DEF ExpectedChunks

-----------------------------------------------------------------------------
(* Types.                                                                  *)

\* A request that adds jobs adds them for a run.
CallerInv ==
  \A h \in Caller : caller[h].pc = "adding" => caller[h].run \in Run

\* Before the first run no job and no handler is there.
BegunInv ==
  nruns = 0 =>
    /\ \A h \in Caller : caller[h].pc # "adding"
    /\ \A j \in JobId : jobs[j].state = "absent"
    /\ \A w \in Worker : exec[w].pc = "idle"

\* L: the program points of the handlers, those that follow the stage included.
TypeInv(L) == QueueInv(L) /\ StageTypeOK /\ CallerInv /\ BegunInv

\* The type invariant holds initially.
LEMMA TypeInit ==
  ASSUME NEW L, StagePc \subseteq L, Init
  PROVE  TypeInv(L)
<1>1. QueueInv(L)
  BY QueueInitInv DEF Init, StagePc
<1>2. StageTypeOK
  <2>1. [pc |-> "idle", run |-> 0, todo |-> {}] \in CallerRecord
    BY DEF CallerRecord
  <2>2. caller \in [Caller -> CallerRecord]
    BY <2>1 DEF Init, StageInit
  <2>3. completed \in [Run -> 0..ExpectedChunks]
    BY ExpectedIsNat DEF Init, StageInit
  <2> QED BY <2>2, <2>3 DEF Init, StageInit, StageTypeOK, Status
<1>3. CallerInv
  BY DEF Init, StageInit, CallerInv
<1>4. BegunInv
  BY DEF Init, StageInit, QueueInit, NeverAdded, Idle, BegunInv
<1> QED BY <1>1, <1>2, <1>3, <1>4 DEF TypeInv

\* The steps of slots, jobs and listeners leave the stage's state alone.
LEMMA StageStutter ==
  ASSUME NEW L, StagePc \subseteq L, TypeInv(L), status' \in Status, UNCHANGED stageVars,
         QueueInv(L)', nruns # 0 \/ UNCHANGED <<jobs, exec>>
  PROVE  TypeInv(L)'
BY DEF TypeInv, StageTypeOK, CallerInv, BegunInv, stageVars

\* Requests change the pipeline, themselves and the number of runs.
LEMMA CallerStep ==
  ASSUME NEW L, StagePc \subseteq L, TypeInv(L), NEW h \in Caller,
         \/ ConfirmRead(h) \/ CancelRead(h) \/ ConfirmFlush(h)
         \/ DispatchEmpty(h) \/ DispatchRun(h) \/ CancelFlush(h)
         \/ RequestThrows(h)
         \/ \E c \in Chunk : AddRejected(h, c)
  PROVE  TypeInv(L)'
<1>1. UNCHANGED queueVars
  BY DEF ConfirmRead, CancelRead, ConfirmFlush, DispatchEmpty, DispatchRun,
         CancelFlush, RequestThrows, AddRejected
<1>2. QueueInv(L)'
  BY <1>1, QueueStutter DEF TypeInv
<1>3. caller[h] \in CallerRecord /\ nruns \in 0..MaxRuns
  BY DEF TypeInv, StageTypeOK
<1>4. CASE ConfirmRead(h) \/ CancelRead(h) \/ ConfirmFlush(h)
           \/ DispatchEmpty(h) \/ CancelFlush(h) \/ RequestThrows(h)
  <2>1. caller' \in [Caller -> CallerRecord]
    BY <1>3, <1>4 DEF TypeInv, StageTypeOK, CallerRecord, CallerGoto,
       ConfirmRead, CancelRead, ConfirmFlush, DispatchEmpty, CancelFlush,
       RequestThrows
  <2>2. status' \in Status
    BY <1>4 DEF TypeInv, StageTypeOK, ConfirmRead, CancelRead, ConfirmFlush,
       DispatchEmpty, CancelFlush, RequestThrows, Status, Terminal
  <2>3. UNCHANGED <<hasUrl, nruns, runVars, crashes>>
    BY <1>4 DEF ConfirmRead, CancelRead, ConfirmFlush, DispatchEmpty,
       CancelFlush, RequestThrows
  <2>4. StageTypeOK'
    BY <2>1, <2>2, <2>3 DEF TypeInv, StageTypeOK, runVars
  <2>5. CallerInv'
    BY <1>3, <1>4 DEF TypeInv, StageTypeOK, CallerInv, CallerRecord,
       CallerGoto, ConfirmRead, CancelRead, ConfirmFlush, DispatchEmpty,
       CancelFlush, RequestThrows
  <2>6. BegunInv'
    BY <1>1, <1>3, <1>4 DEF TypeInv, StageTypeOK, BegunInv, CallerRecord,
       CallerGoto, ConfirmRead, CancelRead, ConfirmFlush, DispatchEmpty,
       CancelFlush, RequestThrows, queueVars
  <2> QED BY <1>2, <2>4, <2>5, <2>6 DEF TypeInv
<1>5. CASE DispatchRun(h)
  <2>0. nruns < MaxRuns
    BY <1>5 DEF DispatchRun
  <2>1. nruns + 1 \in Run /\ nruns + 1 \in 0..MaxRuns
    BY <1>3, <2>0 DEF Run
  <2>2. [pc |-> "adding", run |-> nruns + 1, todo |-> Chunk] \in CallerRecord
    BY <2>1 DEF CallerRecord
  <2>3. StageTypeOK'
    BY <1>5, <2>1, <2>2 DEF TypeInv, StageTypeOK, DispatchRun, runVars
  <2>4. CallerInv'
    BY <1>5, <2>1 DEF TypeInv, StageTypeOK, CallerInv, DispatchRun
  <2>5. BegunInv'
    BY <1>3, <1>5 DEF BegunInv, DispatchRun
  <2> QED BY <1>2, <2>3, <2>4, <2>5 DEF TypeInv
<1>6. CASE \E c \in Chunk : AddRejected(h, c)
  <2>1. PICK c \in Chunk : AddRejected(h, c)
    BY <1>6
  <2>2. StageTypeOK'
    BY <1>3, <2>1 DEF TypeInv, StageTypeOK, CallerRecord, AddRejected,
       ChunkHandled, runVars
  <2>3. CallerInv'
    BY <1>3, <2>1 DEF TypeInv, StageTypeOK, CallerInv, CallerRecord,
       AddRejected, ChunkHandled
  <2>4. BegunInv'
    BY <1>1, <1>3, <2>1 DEF TypeInv, StageTypeOK, BegunInv, CallerRecord,
       AddRejected, ChunkHandled, queueVars
  <2> QED BY <1>2, <2>2, <2>3, <2>4 DEF TypeInv
<1> QED BY <1>4, <1>5, <1>6

\* Adding a chunk's job gives it the run of the request.
LEMMA AddChunkStep ==
  ASSUME NEW L, StagePc \subseteq L, TypeInv(L), NEW h \in Caller, NEW c \in Chunk, AddChunk(h, c)
  PROVE  TypeInv(L)'
<1>1. caller[h] \in CallerRecord /\ caller[h].run \in Run
  BY DEF TypeInv, StageTypeOK, CallerInv, AddChunk
<1>2. JobsInv(jobs')
  BY <1>1, EnqueueInv DEF TypeInv, QueueInv, AddChunk
<1>3. QueueInv(L)'
  BY <1>2 DEF TypeInv, QueueInv, ExecInv, FailCallInv, AddChunk
<1>4. StageTypeOK'
  BY <1>1 DEF TypeInv, StageTypeOK, CallerRecord, AddChunk, ChunkHandled,
     runVars
<1>5. CallerInv'
  BY <1>1 DEF TypeInv, StageTypeOK, CallerInv, CallerRecord, AddChunk,
     ChunkHandled
<1>6. BegunInv'
  BY DEF TypeInv, BegunInv, AddChunk
<1> QED BY <1>3, <1>4, <1>5, <1>6 DEF TypeInv


\* What a chunk's transaction commits stays within the types.
LEMMA CommitTypes ==
  ASSUME NEW L, StagePc \subseteq L, TypeInv(L), NEW w \in Worker, PersistCommit(w)
  PROVE  StageTypeOK'
<1> DEFINE r == RunOf(w)
<1>1. r \in Run /\ ChunkOf(w) \in Chunk
  BY DEF TypeInv, QueueInv, ExecInv, PersistCommit, NothingStored, AtChunk,
     RunOf, ChunkOf
<1>2. completed[r] \in 0..ExpectedChunks /\ completed[r] < ExpectedChunks
  BY <1>1 DEF TypeInv, StageTypeOK, PersistCommit, Countable
<1>3. completed[r] + 1 \in 0..ExpectedChunks
  BY <1>2, ExpectedIsNat
<1>4. completed' \in [Run -> 0..ExpectedChunks]
  BY <1>1, <1>3 DEF TypeInv, StageTypeOK, PersistCommit
<1>5. results' \in [Run -> SUBSET Chunk] /\ landed' \in [Run -> SUBSET Chunk]
  BY <1>1 DEF TypeInv, StageTypeOK, PersistCommit
<1>6. runStatus' \in [Run -> {"PROCESSING", "COMPLETED"}]
  BY <1>1 DEF TypeInv, StageTypeOK, PersistCommit
<1> QED
  BY <1>4, <1>5, <1>6 DEF TypeInv, StageTypeOK, PersistCommit

\* Each step of a slot ends in Goto, Finish or Throw.
LEMMA SlotStep ==
  ASSUME NEW L, StagePc \subseteq L, TypeInv(L), NEW w \in Worker,
         exec[w].pc # "idle",
         Finish(w) \/ Throw(w) \/ (\E label \in L : Goto(w, label))
  PROVE  QueueInv(L)'
BY FinishInv, ThrowInv, GotoInv DEF TypeInv, StagePc

\* Every step of a handler keeps the type invariant.
LEMMA ChunkStepTypes ==
  ASSUME NEW L, StagePc \subseteq L, TypeInv(L), NEW w \in Worker,
         ChunkStep(w) \/ StageDone(w)
  PROVE  TypeInv(L)'
<1>1. exec[w].pc # "idle"
  BY DEF ChunkStep, StageDone, AtChunk, NothingStored, AnswerThrows,
     AnswerSuperseded, AnswerBad, AnswerAccepted, PersistDuplicate,
     PersistSuperseded, PersistCommit, Reread, StageFailedRead,
     StageFailedFlush, CompleteRead, GateLoad, GateFlush, HandlerThrows
<1>2. nruns # 0 /\ nruns \in Run
  BY <1>1 DEF TypeInv, BegunInv, StageTypeOK, Run
<1>3. CASE GateLoad(w)
  <2>1. exec[w].job \in JobId
    BY <1>1 DEF TypeInv, QueueInv, ExecInv
  <2>2. "gateFlush" \in L
    BY DEF StagePc
  <2>3. ExecInv(L)'
    BY <1>2, <1>3, <2>1, <2>2, ExecStepInv DEF TypeInv, QueueInv, GateLoad
  <2>4. QueueInv(L)'
    BY <1>3, <2>3 DEF TypeInv, QueueInv, FailCallInv, GateLoad
  <2> QED BY <1>2, <1>3, <2>4, StageStutter DEF GateLoad, TypeInv, StageTypeOK
<1>4. CASE PersistCommit(w)
  <2>1. "complete" \in L
    BY DEF StagePc
  <2>2. Finish(w) \/ Goto(w, "complete")
    BY <1>4 DEF PersistCommit
  <2>3. QueueInv(L)'
    BY <1>1, <2>1, <2>2, SlotStep
  <2>4. CallerInv' /\ BegunInv'
    BY <1>2, <1>4 DEF TypeInv, CallerInv, BegunInv, PersistCommit
  <2> QED BY <1>4, <2>3, <2>4, CommitTypes DEF TypeInv
<1>5. CASE /\ ChunkStep(w) \/ StageDone(w)
           /\ ~GateLoad(w)
           /\ ~PersistCommit(w)
  <2>1. Finish(w) \/ Throw(w) \/ (\E label \in L : Goto(w, label))
    BY <1>5 DEF ChunkStep, StageDone, AnswerThrows, AnswerSuperseded,
       AnswerBad, AnswerAccepted, PersistDuplicate,
       PersistSuperseded, Reread, StageFailedRead, StageFailedFlush,
       CompleteRead, GateFlush, HandlerThrows, StagePc
  <2>2. UNCHANGED stageVars
    BY <1>5 DEF ChunkStep, StageDone, AnswerThrows, AnswerSuperseded,
       AnswerBad, AnswerAccepted, PersistDuplicate,
       PersistSuperseded, Reread, StageFailedRead, StageFailedFlush,
       CompleteRead, GateFlush, HandlerThrows
  <2>3. status' \in Status
    BY <1>5 DEF TypeInv, StageTypeOK, Status, Terminal, ChunkStep, StageDone,
       AnswerThrows, AnswerSuperseded, AnswerBad, AnswerAccepted,
       PersistDuplicate, PersistSuperseded, Reread, StageFailedRead,
       StageFailedFlush, CompleteRead, GateFlush, HandlerThrows
  <2>4. QueueInv(L)'
    BY <1>1, <2>1, SlotStep
  <2> QED BY <1>2, <2>2, <2>3, <2>4, StageStutter
<1> QED BY <1>3, <1>4, <1>5

\* So do the steps of the queue and of the onFailed listeners.
LEMMA QueueStepTypes ==
  ASSUME NEW L, StagePc \subseteq L, TypeInv(L), NEW c \in JobId,
         \/ \E w \in Worker : TakeJob(w, c)
         \/ \E s \in Status : OnFailedRead(c, s)
         \/ OnFailedFlush(c) \/ OnFailedLost(c) \/ StallJob(c)
  PROVE  TypeInv(L)'
<1>1. c \in JobId
  OBVIOUS
<1>2. ASSUME NEW w \in Worker, TakeJob(w, c) PROVE TypeInv(L)'
  <2>1. QueueInv(L)'
    BY <1>1, <1>2, TakeInv DEF TypeInv, TakeJob, StagePc
  <2>2. nruns # 0
    BY <1>1, <1>2 DEF TypeInv, BegunInv, TakeJob, Take
  <2> QED BY <1>2, <2>1, <2>2, StageStutter DEF TakeJob, TypeInv, StageTypeOK
<1>3. CASE StallJob(c)
  <2>1. QueueInv(L)'
    BY <1>1, <1>3, StallInv DEF TypeInv, StallJob
  <2>2. nruns # 0
    BY <1>1, <1>3 DEF TypeInv, BegunInv, StallJob, Stall
  <2> QED BY <1>3, <2>1, <2>2, StageStutter DEF StallJob, TypeInv, StageTypeOK
<1>4. CASE \/ \E s \in Status : OnFailedRead(c, s)
          \/ OnFailedFlush(c) \/ OnFailedLost(c)
  <2>1. /\ \E s \in FailCallState : failCall' = [failCall EXCEPT ![c] = s]
        /\ UNCHANGED <<jobs, exec>>
        /\ UNCHANGED stageVars
    BY <1>4 DEF OnFailedRead, OnFailedFlush, OnFailedLost,
       FailCallState
  <2>2. QueueInv(L)'
    BY <1>1, <2>1, FailCallStep DEF TypeInv
  <2>3. status' \in Status
    BY <1>4 DEF TypeInv, StageTypeOK, Status, Terminal,
       OnFailedRead, OnFailedFlush, OnFailedLost
  <2> QED BY <2>1, <2>2, <2>3, StageStutter
<1> QED BY <1>2, <1>3, <1>4

\* So does a crash: no request is left that adds jobs.
LEMMA CrashTypes ==
  ASSUME NEW L, StagePc \subseteq L, TypeInv(L), Crash
  PROVE  TypeInv(L)'
<1>1. QueueInv(L)'
  BY QueueCrashInv DEF TypeInv, Crash, StagePc
<1>2. caller' \in [Caller -> CallerRecord]
  <2>1. \A h \in Caller : caller[h] \in CallerRecord
    BY DEF TypeInv, StageTypeOK
  <2>2. \A h \in Caller :
          [caller[h] EXCEPT !.pc = "done", !.todo = {}] \in CallerRecord
    BY <2>1 DEF CallerRecord
  <2> QED BY <2>1, <2>2 DEF Crash
<1>3. crashes < MaxCrashes /\ crashes \in 0..MaxCrashes /\ crashes' = crashes + 1
  BY DEF TypeInv, StageTypeOK, Crash
<1>4. crashes' \in 0..MaxCrashes
  BY <1>3
<1>5. StageTypeOK'
  BY <1>2, <1>4 DEF TypeInv, StageTypeOK, Crash, runVars
<1>6. \A h \in Caller : caller'[h].pc # "adding"
  BY DEF TypeInv, StageTypeOK, CallerRecord, Crash
<1>7. CallerInv'
  BY <1>6 DEF CallerInv
<1>8. BegunInv'
  <2>1. /\ nruns' = nruns /\ jobs' = [j \in JobId |-> Orphaned(jobs[j])]
        /\ \A w \in Worker : exec'[w].pc = "idle"
    BY DEF Crash, QueueCrash, Idle
  <2>2. \A j \in JobId : Orphaned(jobs[j]).state = jobs[j].state
    BY JobFields DEF TypeInv, QueueInv, Orphaned, JobRecord
  <2>3. \A j \in JobId : jobs'[j].state = jobs[j].state
    BY <2>1, <2>2
  <2> QED BY <1>6, <2>1, <2>3 DEF TypeInv, BegunInv
<1> QED BY <1>1, <1>5, <1>7, <1>8 DEF TypeInv

\* The type invariant is inductive.
LEMMA TypeStep == TypeInv(StagePc) /\ [Next]_vars => TypeInv(StagePc)'
<1> SUFFICES ASSUME TypeInv(StagePc), [Next]_vars PROVE TypeInv(StagePc)'
  OBVIOUS
<1>1. ASSUME NEW h \in Caller,
             ConfirmRead(h) \/ CancelRead(h) \/ CallerProgress(h)
      PROVE  TypeInv(StagePc)'
  BY <1>1, CallerStep, AddChunkStep DEF CallerProgress
<1>2. ASSUME NEW w \in Worker, ChunkStep(w) \/ StageDone(w)
      PROVE  TypeInv(StagePc)'
  BY <1>2, ChunkStepTypes
<1>3. ASSUME NEW c \in Chunk,
             \/ \E w \in Worker : TakeJob(w, c)
             \/ OnFailedStep(c) \/ StallJob(c)
      PROVE  TypeInv(StagePc)'
  BY <1>3, QueueStepTypes DEF OnFailedStep, Status
<1>4. CASE Crash
  BY <1>4, CrashTypes
<1>5. CASE UNCHANGED vars
  <2>1. QueueInv(StagePc)'
    BY <1>5, QueueStutter DEF TypeInv, vars
  <2> QED BY <1>5, <2>1, StageStutter DEF vars, queueVars, TypeInv, StageTypeOK
<1> QED BY <1>1, <1>2, <1>3, <1>4, <1>5 DEF Next

\* Every reachable state has its types: no attempt, stall, run or chunk is
\* counted beyond its limit.
THEOREM TypeCorrect == Spec => []TypeOK
<1>1. TypeInv(StagePc) => TypeOK
  BY QueueTyped DEF TypeInv, TypeOK
<1>2. Init => TypeInv(StagePc)
  BY TypeInit
<1> QED BY <1>1, <1>2, TypeStep, PTL DEF Spec

-----------------------------------------------------------------------------
(* The fan-in, when every stored answer holds a valid item.                *)

Past == {"complete", "gateLoad", "gateFlush", "gated"}

\* A handler has found the run whole, or the pipeline stands at the gate.
PastFanIn == status = "SENTIMENT_GATE" \/ \E w \in Worker : exec[w].pc \in Past

\* The rows of a run are its history, nothing is stored for a run to come, and
\* whoever is past the fan-in has seen a whole run.
FanInInv ==
  /\ \A w \in Worker : exec[w].pc # "persistVoid"
  /\ results = landed
  /\ \A r \in Run : r > nruns => results[r] = {}
  /\ CounterIsExact
  /\ PastFanIn => \E r \in Run : results[r] = Chunk
  /\ GateSeesWholeRun

StageInv == TypeInv(StagePc) /\ FanInInv

\* A run's chunks are finitely many, and all of them when as many as expected.
LEMMA RunsAreFinite ==
  ASSUME StageTypeOK, NEW r \in Run
  PROVE  /\ landed[r] \subseteq Chunk
         /\ IsFiniteSet(landed[r])
         /\ Cardinality(landed[r]) \in Nat
         /\ Cardinality(landed[r]) <= ExpectedChunks
         /\ Cardinality(landed[r]) = ExpectedChunks => landed[r] = Chunk
<1>1. landed[r] \subseteq Chunk
  BY DEF StageTypeOK
<1> QED BY <1>1, FS_Subset, FS_CardinalityType DEF ExpectedChunks

\* Nothing is stored or counted initially.
LEMMA FanInInit == ASSUME Init PROVE FanInInv
<1>1. \A r \in Run : landed[r] = {} /\ completed[r] = 0
  BY DEF Init, StageInit
<1>2. Chunk # {} /\ Cardinality({}) = 0
  BY FS_EmptySet
<1>3. CounterIsExact
  BY <1>1, <1>2 DEF Init, StageInit, CounterIsExact
<1>4. \A w \in Worker : exec[w].pc = "idle"
  BY DEF Init, QueueInit, Idle
<1>5. ~PastFanIn
  BY <1>4 DEF PastFanIn, Past, Init, StageInit
<1> QED BY <1>1, <1>3, <1>4, <1>5
        DEF Init, StageInit, FanInInv, GateSeesWholeRun

\* A step that stores nothing and lets nobody past the fan-in.
LEMMA Elsewhere ==
  ASSUME FanInInv, UNCHANGED <<nruns, runVars>>,
         status' # status => status' # "SENTIMENT_GATE",
         \A w \in Worker : \/ exec'[w] = exec[w]
                           \/ exec'[w].pc \notin Past \cup {"persistVoid"}
  PROVE  FanInInv'
<1>1. PastFanIn' => PastFanIn
  BY DEF PastFanIn
<1>2. GateSeesWholeRun'
  BY DEF FanInInv, GateSeesWholeRun, Past, RunOf, runVars
<1> QED BY <1>1, <1>2 DEF FanInInv, CounterIsExact, runVars

\* The chunk of a commit is new to its run, and the count stays exact.
LEMMA CommitCounts ==
  ASSUME StageInv, NEW w \in Worker, PersistCommit(w)
  PROVE  FanInInv'
<1> DEFINE r == RunOf(w)
           c == ChunkOf(w)
<1>1. exec[w].pc = "persist" /\ c \in Chunk /\ c \notin results[r]
  BY DEF StageInv, FanInInv, PersistCommit, NothingStored, AtChunk, ChunkOf,
     RunOf
<1>2. r \in Run /\ r = nruns /\ completed[r] < ExpectedChunks
  BY <1>1 DEF StageInv, TypeInv, QueueInv, ExecInv, RunOf, PersistCommit,
     Countable
<1>3. TypeInv(StagePc)'
  BY ChunkStepTypes DEF StageInv, ChunkStep
<1>4. /\ landed' = [landed EXCEPT ![r] = @ \cup {c}]
      /\ results' = landed'
      /\ landed'[r] = landed[r] \cup {c}
      /\ \A q \in Run \ {r} : landed'[q] = landed[q]
  BY <1>1, <1>2 DEF StageInv, FanInInv, TypeInv, StageTypeOK, PersistCommit
<1>5. completed'[r] = completed[r] + 1
      /\ \A q \in Run \ {r} : completed'[q] = completed[q]
  BY <1>2 DEF StageInv, TypeInv, StageTypeOK, PersistCommit
<1>6. completed[r] = Cardinality(landed[r]) /\ Cardinality(landed[r]) \in Nat
      /\ IsFiniteSet(landed[r])
  BY <1>2, RunsAreFinite DEF StageInv, TypeInv, FanInInv, CounterIsExact
<1>7. Cardinality(landed'[r]) = Cardinality(landed[r]) + 1
  <2>1. c \notin landed[r]
    BY <1>1 DEF StageInv, FanInInv
  <2>2. Cardinality(landed[r] \cup {c}) = Cardinality(landed[r]) + 1
    BY <1>6, <2>1, FS_AddElement
  <2> QED BY <1>4, <2>2
<1>8. completed'[r] = Cardinality(landed'[r])
  BY <1>5, <1>6, <1>7
<1>9. /\ completed[r] + 1 = ExpectedChunks => landed'[r] = Chunk
      /\ landed'[r] = Chunk => completed[r] + 1 = ExpectedChunks
  <2>1. Cardinality(landed'[r]) = ExpectedChunks => landed'[r] = Chunk
    BY <1>1, <1>2, <1>4, FS_Subset, FS_CardinalityType
       DEF StageInv, TypeInv, StageTypeOK, ExpectedChunks
  <2> QED BY <2>1, <1>6, <1>7 DEF ExpectedChunks
<1>10. runStatus[r] # "COMPLETED"
  <2>1. landed[r] # Chunk
    BY <1>1 DEF StageInv, FanInInv
  <2> QED BY <1>2, <2>1 DEF StageInv, FanInInv, CounterIsExact
<1>11. /\ runStatus'[r] = "COMPLETED" <=> landed'[r] = Chunk
       /\ \A q \in Run \ {r} : runStatus'[q] = runStatus[q]
  BY <1>2, <1>9, <1>10 DEF StageInv, TypeInv, StageTypeOK, PersistCommit
<1>12. CounterIsExact'
  BY <1>4, <1>5, <1>8, <1>11 DEF StageInv, FanInInv, CounterIsExact
<1>13. \A v \in Worker :
         \/ exec'[v] = exec[v]
         \/ exec'[v].pc = "idle"
         \/ exec'[v].pc = "complete" /\ landed'[r] = Chunk
  <2> DEFINE last == completed[r] + 1 = ExpectedChunks
  <2>1. exec \in [Worker -> ExecRecord(StagePc)]
    BY DEF StageInv, TypeInv, QueueInv, ExecInv
  <2>2. CASE last
    <3>1. exec' = [exec EXCEPT ![w] = [@ EXCEPT !.pc = "complete"]]
      BY <2>2 DEF PersistCommit, Goto, RunOf
    <3>2. exec'[w].pc = "complete" /\ \A v \in Worker \ {w} : exec'[v] = exec[v]
      BY <2>1, <3>1 DEF ExecRecord
    <3> QED BY <1>9, <2>2, <3>2
  <2>3. CASE ~last
    <3>1. exec' = [exec EXCEPT ![w] = Idle]
      BY <2>3 DEF PersistCommit, Finish, Leave, RunOf
    <3>2. exec'[w].pc = "idle" /\ \A v \in Worker \ {w} : exec'[v] = exec[v]
      BY <2>1, <3>1 DEF Idle
    <3> QED BY <3>2
  <2> QED BY <2>2, <2>3
<1>14. \A q \in Run : results[q] \subseteq results'[q] /\ results'[q] \subseteq Chunk
  BY <1>3, <1>4 DEF StageInv, FanInInv, TypeInv, StageTypeOK
<1>15. PastFanIn' => \E q \in Run : results'[q] = Chunk
  <2>1. CASE PastFanIn
    BY <1>14, <2>1 DEF StageInv, FanInInv
  <2>2. CASE ~PastFanIn
    BY <1>2, <1>4, <1>13, <2>2 DEF PastFanIn, Past, PersistCommit
  <2> QED BY <2>1, <2>2
<1>16. GateSeesWholeRun'
  <2> SUFFICES ASSUME nruns' = 1, NEW v \in Worker,
                      exec'[v].pc \in {"gateFlush", "gated"}
               PROVE  results'[exec'[v].run] = Chunk
    BY DEF GateSeesWholeRun, RunOf
  <2>1. exec'[v] = exec[v]
    BY <1>13
  <2>2. nruns = 1
    BY DEF PersistCommit
  <2>3. results[exec[v].run] = Chunk
    BY <2>1, <2>2 DEF StageInv, FanInInv, GateSeesWholeRun, RunOf
  <2>4. exec[v].run \in Run
    BY <2>1 DEF StageInv, TypeInv, QueueInv, ExecInv
  <2> QED BY <1>14, <2>1, <2>3, <2>4
<1>17. \A q \in Run : q > nruns' => results'[q] = {}
  BY <1>2, <1>4 DEF StageInv, FanInInv, PersistCommit, Run
<1>18. \A v \in Worker : exec'[v].pc # "persistVoid"
  BY <1>13 DEF StageInv, FanInInv
<1> QED BY <1>4, <1>12, <1>15, <1>16, <1>17, <1>18 DEF FanInInv

\* The steps of a slot other than a commit.
LEMMA ChunkStepFanIn ==
  ASSUME StageInv, "void" \notin Faults, NEW w \in Worker,
         ChunkStep(w) \/ StageDone(w), ~PersistCommit(w)
  PROVE  FanInInv'
<1>1. exec \in [Worker -> ExecRecord(StagePc)]
  BY DEF StageInv, TypeInv, QueueInv, ExecInv
<1>2. UNCHANGED <<nruns, runVars>>
  BY DEF ChunkStep, StageDone, AnswerThrows, AnswerSuperseded, AnswerBad,
     AnswerAccepted, PersistDuplicate, PersistSuperseded, Reread,
     StageFailedRead, StageFailedFlush, CompleteRead, GateLoad, GateFlush,
     HandlerThrows, stageVars, runVars
<1>3. \A v \in Worker \ {w} : exec'[v] = exec[v]
  BY <1>1 DEF ChunkStep, StageDone, AnswerThrows, AnswerSuperseded, AnswerBad,
     AnswerAccepted, PersistDuplicate, PersistSuperseded, Reread,
     StageFailedRead, StageFailedFlush, CompleteRead, GateLoad, GateFlush,
     HandlerThrows, Goto, Finish, Throw, Leave
<1>4. exec[w].pc # "idle" => exec[w].run \in Run
  BY DEF StageInv, TypeInv, QueueInv, ExecInv
<1>5. CASE Reread(w)
  <2>1. exec[w].pc = "reread" /\ status' = status
    BY <1>5 DEF Reread, AtChunk
  <2>2. CASE completed[RunOf(w)] = ExpectedChunks
    <3>1. exec[w].run \in Run
      BY <1>4, <2>1
    <3>2. results[exec[w].run] = Chunk
      BY <2>2, <3>1, RunsAreFinite
         DEF StageInv, TypeInv, FanInInv, CounterIsExact, RunOf
    <3>3. exec'[w].pc = "complete"
      BY <1>1, <1>5, <2>2 DEF Reread, Goto, ExecRecord
    <3>4. GateSeesWholeRun'
      BY <1>2, <1>3, <3>3 DEF StageInv, FanInInv, GateSeesWholeRun, RunOf, runVars
    <3> QED BY <1>2, <1>3, <3>1, <3>2, <3>3, <3>4
            DEF StageInv, FanInInv, CounterIsExact, runVars
  <2>3. CASE completed[RunOf(w)] # ExpectedChunks
    <3>1. exec'[w].pc = "idle"
      BY <1>1, <1>5, <2>3 DEF Reread, Finish, Leave, Idle
    <3> QED BY <1>2, <1>3, <2>1, <3>1, Elsewhere DEF StageInv, Past
  <2> QED BY <2>2, <2>3
<1>6. CASE CompleteRead(w) \/ GateLoad(w) \/ GateFlush(w)
  <2>1. exec[w].pc \in Past
    BY <1>6 DEF CompleteRead, GateLoad, GateFlush, AtChunk, Past
  <2>2. PICK r \in Run : results[r] = Chunk
    BY <2>1 DEF StageInv, FanInInv, PastFanIn
  <2>3. exec'[w].pc \in {"idle", "gateLoad", "gateFlush", "gated"}
    <3>1. CASE CompleteRead(w)
      BY <1>1, <3>1 DEF CompleteRead, Goto, Finish, Leave, Idle, ExecRecord
    <3>2. CASE GateLoad(w)
      BY <1>1, <3>2 DEF GateLoad, ExecRecord
    <3>3. CASE GateFlush(w)
      BY <1>1, <3>3 DEF GateFlush, Goto, ExecRecord
    <3> QED BY <1>6, <3>1, <3>2, <3>3
  <2>4. ASSUME nruns = 1, exec'[w].pc \in {"gateFlush", "gated"}
        PROVE  results[exec'[w].run] = Chunk
    <3>1. r = 1
      BY <2>2, <2>4 DEF StageInv, FanInInv, Run
    <3>2. CASE GateLoad(w)
      <4>1. exec'[w].run = 1
        BY <1>1, <2>4, <3>2 DEF GateLoad, ExecRecord
      <4> QED BY <2>2, <3>1, <4>1
    <3>3. CASE GateFlush(w)
      <4>1. exec'[w].run = exec[w].run /\ exec[w].pc = "gateFlush"
        BY <1>1, <3>3 DEF GateFlush, AtChunk, Goto, ExecRecord
      <4> QED BY <2>4, <4>1 DEF StageInv, FanInInv, GateSeesWholeRun, RunOf
    <3>4. CASE CompleteRead(w)
      <4>1. exec'[w].pc \in {"idle", "gateLoad"}
        BY <1>1, <3>4 DEF CompleteRead, Goto, Finish, Leave, Idle, ExecRecord
      <4> QED BY <2>4, <4>1
    <3> QED BY <1>6, <3>2, <3>3, <3>4
  <2>5. GateSeesWholeRun'
    BY <1>2, <1>3, <2>4 DEF StageInv, FanInInv, GateSeesWholeRun, RunOf, runVars
  <2> QED BY <1>2, <1>3, <2>2, <2>3, <2>5
          DEF StageInv, FanInInv, CounterIsExact, runVars
<1>7. CASE /\ ChunkStep(w) \/ StageDone(w)
           /\ ~PersistCommit(w) /\ ~Reread(w)
           /\ ~CompleteRead(w) /\ ~GateLoad(w) /\ ~GateFlush(w)
  <2>1. exec'[w].pc \in {"idle", "stageFailed", "persist", "reread", "failFlush"}
    BY <1>1, <1>7 DEF ChunkStep, StageDone, AnswerThrows, AnswerSuperseded,
       AnswerBad, AnswerAccepted, PersistDuplicate,
       PersistSuperseded, StageFailedRead, StageFailedFlush, HandlerThrows,
       Goto, Finish, Throw, Leave, Idle, ExecRecord
  <2>2. status' # status => status' # "SENTIMENT_GATE"
    BY <1>7 DEF ChunkStep, StageDone, AnswerThrows, AnswerSuperseded,
       AnswerBad, AnswerAccepted, PersistDuplicate,
       PersistSuperseded, StageFailedRead, StageFailedFlush, HandlerThrows
  <2> QED BY <1>2, <1>3, <2>1, <2>2, Elsewhere DEF StageInv, Past
<1> QED BY <1>5, <1>6, <1>7

\* The second confirmation opens a run; the first finds the stage empty.
LEMMA DispatchFanIn ==
  ASSUME StageInv, NEW h \in Caller, DispatchRun(h)
  PROVE  FanInInv'
<1>1. UNCHANGED <<exec, status, runVars>> /\ nruns' = nruns + 1
  BY DEF DispatchRun, queueVars
<1>2. nruns \in Nat
  BY DEF StageInv, TypeInv, StageTypeOK
<1>3. \A r \in Run : r > nruns' => results'[r] = {}
  BY <1>1, <1>2 DEF StageInv, FanInInv, Run, runVars
<1>4. GateSeesWholeRun'
  BY <1>1, <1>2 DEF StageInv, TypeInv, BegunInv, GateSeesWholeRun
<1> QED BY <1>1, <1>3, <1>4
        DEF StageInv, FanInInv, CounterIsExact, PastFanIn, runVars

\* What the stage's other steps have in common.
Aside ==
  /\ UNCHANGED <<nruns, runVars>>
  /\ status' # status => status' # "SENTIMENT_GATE"

\* Every step but a commit, a gate flush and a dispatch is of that kind.
LEMMA OtherSteps ==
  ASSUME [Next]_vars,
         \A w \in Worker : ~PersistCommit(w) /\ ~GateFlush(w),
         \A h \in Caller : ~DispatchRun(h)
  PROVE  Aside
<1>1. ASSUME NEW h \in Caller,
             ConfirmRead(h) \/ CancelRead(h) \/ CallerProgress(h)
      PROVE  Aside
  BY <1>1 DEF CallerProgress, ConfirmRead, CancelRead, ConfirmFlush,
     DispatchEmpty, CancelFlush, RequestThrows, AddChunk, AddRejected, Aside
<1>2. ASSUME NEW w \in Worker, ChunkStep(w) \/ StageDone(w)
      PROVE  Aside
  BY <1>2 DEF ChunkStep, StageDone, AnswerThrows, AnswerSuperseded, AnswerBad,
     AnswerAccepted, PersistDuplicate, PersistSuperseded, Reread,
     StageFailedRead, StageFailedFlush, CompleteRead, GateLoad,
     HandlerThrows, stageVars, runVars, Aside
<1>3. ASSUME NEW c \in Chunk,
             \/ \E w \in Worker : TakeJob(w, c)
             \/ OnFailedStep(c) \/ StallJob(c)
      PROVE  Aside
  BY <1>3 DEF TakeJob, OnFailedStep, OnFailedRead, OnFailedFlush,
     OnFailedLost, StallJob, stageVars, runVars, Aside
<1>4. CASE Crash
  BY <1>4 DEF Crash, Aside
<1>5. CASE UNCHANGED vars
  BY <1>5 DEF vars, stageVars, runVars, Aside
<1> QED BY <1>1, <1>2, <1>3, <1>4, <1>5 DEF Next

\* The fan-in invariant is inductive relative to the types.
LEMMA FanInStep ==
  ASSUME StageInv, "void" \notin Faults, [Next]_vars
  PROVE  FanInInv'
<1>1. ASSUME NEW h \in Caller,
             ConfirmRead(h) \/ CancelRead(h) \/ CallerProgress(h)
      PROVE  FanInInv'
  <2>1. CASE DispatchRun(h)
    BY <2>1, DispatchFanIn
  <2>2. CASE ~DispatchRun(h)
    <3>1. UNCHANGED exec /\ Aside
      BY <1>1, <2>2 DEF CallerProgress, ConfirmRead, CancelRead, ConfirmFlush,
         DispatchEmpty, CancelFlush, RequestThrows, AddChunk, AddRejected,
         queueVars, Aside
    <3> QED BY <3>1, Elsewhere DEF StageInv, Aside
  <2> QED BY <2>1, <2>2
<1>2. ASSUME NEW w \in Worker, ChunkStep(w) \/ StageDone(w)
      PROVE  FanInInv'
  BY <1>2, CommitCounts, ChunkStepFanIn
<1>3. ASSUME NEW c \in Chunk, NEW w \in Worker, TakeJob(w, c)
      PROVE  FanInInv'
  <2>1. \A v \in Worker : exec'[v] = exec[v] \/ exec'[v].pc = "answer"
    BY <1>3 DEF StageInv, TypeInv, QueueInv, ExecInv, TakeJob, Take
  <2>2. Aside
    BY <1>3 DEF TakeJob, stageVars, runVars, Aside
  <2> QED BY <2>1, <2>2, Elsewhere DEF StageInv, Past, Aside
<1>4. ASSUME NEW c \in Chunk, OnFailedStep(c) \/ StallJob(c)
      PROVE  FanInInv'
  <2>1. UNCHANGED exec /\ Aside
    BY <1>4 DEF OnFailedStep, OnFailedRead, OnFailedFlush, OnFailedLost,
       StallJob, Stall, stageVars, runVars, Aside
  <2> QED BY <2>1, Elsewhere DEF StageInv, Aside
<1>5. CASE Crash
  <2>1. \A v \in Worker : exec'[v].pc = "idle"
    BY <1>5 DEF Crash, QueueCrash, Idle
  <2>2. Aside
    BY <1>5 DEF Crash, Aside
  <2> QED BY <2>1, <2>2, Elsewhere DEF StageInv, Past, Aside
<1>6. CASE UNCHANGED vars
  <2>1. UNCHANGED exec /\ Aside
    BY <1>6 DEF vars, queueVars, stageVars, runVars, Aside
  <2> QED BY <2>1, Elsewhere DEF StageInv, Aside
<1> QED BY <1>1, <1>2, <1>3, <1>4, <1>5, <1>6 DEF Next

\* The inductive invariant of the stage.
LEMMA StageInvariant ==
  ASSUME "void" \notin Faults
  PROVE  Spec => []StageInv
<1>1. Init => StageInv
  BY TypeInit, FanInInit DEF StageInv
<1>2. StageInv /\ [Next]_vars => StageInv'
  BY TypeStep, FanInStep DEF StageInv
<1> QED BY <1>1, <1>2, PTL DEF Spec

\* Whatever is retried, doubled, superseded or lost, each run counts every
\* chunk that landed once, and is COMPLETED exactly when all have landed.
THEOREM CounterCorrect ==
  ASSUME "void" \notin Faults
  PROVE  Spec => []CounterIsExact
<1>1. StageInv => CounterIsExact
  BY DEF StageInv, FanInInv
<1> QED BY <1>1, StageInvariant, PTL

\* The gate opens only over a whole run.
THEOREM GateCorrect ==
  ASSUME "void" \notin Faults
  PROVE  Spec => []GateOnlyAfterFanIn
<1>1. StageInv => GateOnlyAfterFanIn
  BY DEF StageInv, FanInInv, PastFanIn, GateOnlyAfterFanIn
<1> QED BY <1>1, StageInvariant, PTL

\* As long as the pipeline was dispatched once, the gate works on a whole run.
THEOREM GateInputCorrect ==
  ASSUME "void" \notin Faults
  PROVE  Spec => []GateSeesWholeRun
<1>1. StageInv => GateSeesWholeRun
  BY DEF StageInv, FanInInv
<1> QED BY <1>1, StageInvariant, PTL

-----------------------------------------------------------------------------
(* The stage implements ChunkBatch.                                        *)

\* The initial states map to the empty batch.
LEMMA BatchStarts == ASSUME Init PROVE Batch!BatchInit
BY DEF Init, StageInit, Batch!BatchInit, Batch!Batch, Run

\* A commit is the landing of a chunk, and closes the run when it is the last.
LEMMA CommitLands ==
  ASSUME StageInv, "void" \notin Faults, NEW w \in Worker, PersistCommit(w)
  PROVE  Batch!BatchNext
<1> DEFINE r == RunOf(w)
           c == ChunkOf(w)
           whole == {q \in Run : runStatus[q] = "COMPLETED"}
<1>1. exec[w].pc = "persist" /\ c \in Chunk /\ c \notin results[r]
  BY DEF StageInv, FanInInv, PersistCommit, NothingStored, AtChunk, ChunkOf,
     RunOf
<1>2. r \in Run /\ r = nruns
  BY <1>1 DEF StageInv, TypeInv, QueueInv, ExecInv, RunOf, PersistCommit,
     Countable
<1>3. results' = [results EXCEPT ![r] = @ \cup {c}]
  BY <1>1 DEF PersistCommit
<1>4. FanInInv'
  BY CommitCounts
<1>5. \A q \in Run : runStatus'[q] = "COMPLETED" <=> results'[q] = Chunk
  BY <1>4 DEF FanInInv, CounterIsExact
<1>6. \A q \in Run : runStatus[q] = "COMPLETED" <=> results[q] = Chunk
  BY DEF StageInv, FanInInv, CounterIsExact
<1>7. \A q \in Run \ {r} : results'[q] = results[q]
  BY <1>2, <1>3 DEF StageInv, TypeInv, StageTypeOK
<1>8. results[r] # Chunk
  BY <1>1
<1>9. whole' = IF results'[r] = Chunk THEN whole \cup {r} ELSE whole
  BY <1>2, <1>5, <1>6, <1>7, <1>8
<1>10. UNCHANGED <<nruns, status>>
  BY DEF PersistCommit
<1>11. \E d \in Chunk : Batch!Land(d)
  BY <1>1, <1>2, <1>3, <1>9, <1>10 DEF Batch!Land, Batch!Batch, Run
<1> QED BY <1>11 DEF Batch!BatchNext

\* Every step of the stage is a step of the batch or leaves it alone.
LEMMA BatchStep ==
  ASSUME StageInv, "void" \notin Faults, [Next]_vars
  PROVE  [Batch!BatchNext]_Batch!batchVars
<1>1. ASSUME NEW w \in Worker, PersistCommit(w) PROVE Batch!BatchNext
  BY <1>1, CommitLands
<1>2. ASSUME NEW w \in Worker, GateFlush(w) PROVE Batch!BatchNext
  <2>1. PICK r \in Run : results[r] = Chunk
    BY <1>2 DEF StageInv, FanInInv, PastFanIn, Past, GateFlush, AtChunk
  <2>2. runStatus[r] = "COMPLETED"
    BY <2>1 DEF StageInv, FanInInv, CounterIsExact
  <2>3. /\ status' = "SENTIMENT_GATE"
        /\ UNCHANGED <<nruns, results, runStatus>>
    BY <1>2 DEF GateFlush, stageVars
  <2>4. {q \in Run : runStatus[q] = "COMPLETED"} # {}
    BY <2>2
  <2> QED BY <2>3, <2>4 DEF Batch!BatchNext, Batch!Pass
<1>3. ASSUME NEW h \in Caller, DispatchRun(h) PROVE Batch!BatchNext
  <2>1. nruns \in 0..MaxRuns
    BY DEF StageInv, TypeInv, StageTypeOK
  <2>2. nruns < MaxRuns /\ nruns' = nruns + 1
    BY <1>3 DEF DispatchRun
  <2>3. nruns + 1 \in Batch!Batch
    BY <2>1, <2>2 DEF Batch!Batch
  <2> QED BY <1>3, <2>3 DEF DispatchRun, runVars, Batch!BatchNext, Batch!Open
<1>4. ASSUME Aside PROVE [Batch!BatchNext]_Batch!batchVars
  BY <1>4 DEF Aside, runVars, Batch!BatchNext, Batch!Withdraw, Batch!batchVars
<1> QED BY <1>1, <1>2, <1>3, <1>4, OtherSteps

\* The fan-out, the processor with its retries and duplicates, and the gate
\* together keep the promise of ChunkBatch.
THEOREM StageImplementsBatch ==
  ASSUME "void" \notin Faults
  PROVE  Spec => ImplementsBatch
<1>1. Init => Batch!BatchInit
  BY BatchStarts
<1>2. StageInv /\ [Next]_vars => [Batch!BatchNext]_Batch!batchVars
  BY BatchStep
<1> QED BY <1>1, <1>2, StageInvariant, PTL
        DEF Spec, ImplementsBatch, Batch!BatchSpec

-----------------------------------------------------------------------------
(* The whole pipeline.                                                     *)

USE PipelineAssumption DEF PipelineAssumption

-----------------------------------------------------------------------------
(* Types.                                                                  *)

LaterTypes ==
  /\ hasTopicUrl \in BOOLEAN
  /\ ntopics \in 0..MaxRuns
  /\ topicSets \in [Run -> Nat]
  /\ topicStatus \in [Run -> {"PROCESSING", "COMPLETED"}]
  /\ nrecs \in 0..MaxRuns
  /\ actionSets \in [Run -> Nat]
  /\ recStatus \in [Run -> {"PROCESSING", "COMPLETED", "FAILED"}]
  /\ recMark \in {"none", "called", "seen"}
  /\ refreshQueued \in BOOLEAN

\* The labels of each kind of job, and the labels a chunk shares with the others.
ChunkPc ==
  {"persist", "persistVoid", "reread", "complete", "gateLoad", "gateFlush",
   "gated", "topicDispatch", "topicAdd"}
TopicPc ==
  {"topicPersist", "topicComplete", "labelling", "recDispatch", "recAdd"}
RecPc == {"recPersist", "recComplete", "completing", "refreshing"}

\* A slot is where its job belongs, and its job was added.
PlaceInv ==
  \A w \in Worker :
    /\ exec[w].pc \in ChunkPc => exec[w].job \in Chunk
    /\ exec[w].pc \in TopicPc => exec[w].job = TopicJob
    /\ exec[w].pc \in RecPc => exec[w].job = RecJob
    /\ exec[w].pc # "idle" => jobs[exec[w].job].state # "absent"

TypesInv == TypeInv(PipelinePc) /\ LaterTypes /\ PlaceInv

\* The labels of the stage are labels of the pipeline.
LEMMA StageLabels == StagePc \subseteq PipelinePc
BY DEF PipelinePc

\* A busy slot has a job and a run, which are those of the record.
LEMMA Busy ==
  ASSUME TypesInv, NEW w \in Worker
  PROVE  /\ exec[w] \in ExecRecord(PipelinePc)
         /\ exec \in [Worker -> ExecRecord(PipelinePc)]
         /\ exec[w].pc # "idle" =>
              exec[w].job \in JobId /\ exec[w].run \in Run /\ nruns # 0
BY DEF TypesInv, TypeInv, QueueInv, ExecInv, BegunInv

\* What a handler's step does to its slot and job: it goes on, perhaps with
\* another run, returns, throws, or adds a job and returns.
SlotStepEnds(w) ==
  \/ \E label \in PipelinePc : Goto(w, label)
  \/ \E label \in PipelinePc, r \in Run : GotoRun(w, label, r)
  \/ Finish(w)
  \/ Throw(w)
  \/ AddAndFinish(w, TopicJob)
  \/ AddAndFinish(w, RecJob)

\* A step of that form keeps the queue's invariant.
LEMMA EndsKeepQueue ==
  ASSUME TypesInv, NEW w \in Worker, exec[w].pc # "idle", SlotStepEnds(w)
  PROVE  QueueInv(PipelinePc)'
<1>0. QueueInv(PipelinePc) /\ "idle" \in PipelinePc
  BY StageLabels DEF TypesInv, TypeInv, StagePc
<1>1. exec[w].job \in JobId /\ exec[w].run \in Run
  BY Busy
<1>2. ASSUME NEW label \in PipelinePc, Goto(w, label)
      PROVE  QueueInv(PipelinePc)'
  BY <1>0, <1>2, GotoInv
<1>3. ASSUME NEW label \in PipelinePc, NEW r \in Run, GotoRun(w, label, r)
      PROVE  QueueInv(PipelinePc)'
  <2>1. ExecInv(PipelinePc)'
    BY <1>0, <1>1, <1>3, ExecStepInv DEF QueueInv, GotoRun
  <2> QED BY <1>0, <1>3, <2>1 DEF QueueInv, FailCallInv, GotoRun
<1>4. CASE Finish(w)
  BY <1>0, <1>4, FinishInv
<1>5. CASE Throw(w)
  BY <1>0, <1>5, ThrowInv
<1>6. ASSUME NEW j \in JobId, AddAndFinish(w, j)
      PROVE  QueueInv(PipelinePc)'
  <2>1. JobsInv(Enqueue(jobs, j, exec[w].run))
    BY <1>0, <1>1, EnqueueInv DEF QueueInv
  <2>2. JobsInv(jobs')
    BY <1>1, <1>6, <2>1, AcknowledgedInv DEF AddAndFinish
  <2>3. ExecInv(PipelinePc)'
    BY <1>0, <1>6, LeaveInv DEF QueueInv, AddAndFinish
  <2> QED BY <1>0, <1>6, <2>2, <2>3 DEF QueueInv, FailCallInv, AddAndFinish
<1> QED BY <1>2, <1>3, <1>4, <1>5, <1>6 DEF SlotStepEnds

\* Every step after the stage is of that form, and leaves the stage alone.
LEMMA LaterEnds ==
  ASSUME TypesInv, NEW w \in Worker, LaterStep(w)
  PROVE  /\ exec[w].pc # "idle"
         /\ SlotStepEnds(w)
         /\ UNCHANGED stageVars
         /\ status' \in Status
<1>0. status \in Status /\ {"FAILED", "TOPIC_MODELING", "GENERATING_RECOMMENDATIONS",
                           "COMPLETED"} \subseteq Status
  BY DEF TypesInv, TypeInv, StageTypeOK, Status, Terminal
<1>1. CASE GateUnconfigured(w) \/ TopicDispatchEmpty(w) \/ DispatchFailed(w)
           \/ QueueRefresh(w)
  BY <1>0, <1>1 DEF GateUnconfigured, TopicDispatchEmpty, DispatchFailed, QueueRefresh,
     At, SlotStepEnds
<1>2. CASE GateAdvance(w) \/ DispatchThrows(w) \/ TopicAnswerBad(w)
           \/ TopicAnswerGood(w) \/ TopicPersist(w) \/ Labelled(w)
           \/ RecGenerated(w) \/ RecPersist(w) \/ CompletePipeline(w)
  <2>1. \E label \in PipelinePc : Goto(w, label)
    BY <1>2 DEF GateAdvance, DispatchThrows, TopicAnswerBad, TopicAnswerGood,
       TopicPersist, Labelled, RecGenerated, RecPersist, CompletePipeline,
       PipelinePc, StagePc
  <2> QED BY <1>0, <1>2, <2>1 DEF GateAdvance, DispatchThrows, TopicAnswerBad,
       TopicAnswerGood, TopicPersist, Labelled, RecGenerated, RecPersist,
       CompletePipeline, At, AtTopic, AtRec, SlotStepEnds
<1>3. CASE TopicComplete(w) \/ RecComplete(w)
           \/ StageFailedRead(w, "TOPIC_MODELING")
  <2>1. Finish(w) \/ \E label \in PipelinePc : Goto(w, label)
    BY <1>3 DEF TopicComplete, RecComplete, StageFailedRead, PipelinePc, StagePc
  <2> QED BY <1>0, <1>3, <2>1 DEF TopicComplete, RecComplete, StageFailedRead, At,
          SlotStepEnds
<1>4. CASE TopicDispatchRun(w)
  <2>1. ntopics + 1 \in Run
    BY <1>4 DEF TopicDispatchRun, TypesInv, LaterTypes, Run
  <2>2. "topicAdd" \in PipelinePc
    BY DEF PipelinePc
  <2> QED BY <1>0, <1>4, <2>1, <2>2 DEF TopicDispatchRun, At, SlotStepEnds
<1>5. CASE RecDispatchRun(w)
  <2>1. nrecs + 1 \in Run
    BY <1>5 DEF RecDispatchRun, TypesInv, LaterTypes, Run
  <2>2. "recAdd" \in PipelinePc
    BY DEF PipelinePc
  <2> QED BY <1>0, <1>5, <2>1, <2>2 DEF RecDispatchRun, At, SlotStepEnds
<1>6. CASE TopicAdd(w) \/ RecAdd(w)
  BY <1>0, <1>6 DEF TopicAdd, RecAdd, At, SlotStepEnds
<1>7. CASE TopicAnswerThrows(w) \/ RecAnswerThrows(w) \/ LaterThrows(w)
  BY <1>0, <1>7 DEF TopicAnswerThrows, RecAnswerThrows, LaterThrows, RecThrow,
     AtTopic, AtRec, SlotStepEnds
<1> QED BY <1>1, <1>2, <1>3, <1>4, <1>5, <1>6, <1>7 DEF LaterStep

\* So is every step of the stage.
LEMMA ChunkEnds ==
  ASSUME TypesInv, NEW w \in Worker, ChunkStep(w)
  PROVE  /\ exec[w].pc # "idle"
         /\ SlotStepEnds(w)
<1>1. exec[w].pc # "idle"
  BY DEF ChunkStep, AtChunk, NothingStored, AnswerThrows, AnswerSuperseded,
     AnswerBad, AnswerAccepted, PersistDuplicate, PersistSuperseded,
     PersistCommit, Reread, StageFailedRead, StageFailedFlush, CompleteRead,
     GateLoad, GateFlush, HandlerThrows
<1>2. CASE GateLoad(w)
  <2>1. nruns \in Run
    BY <1>1, Busy DEF TypesInv, TypeInv, StageTypeOK, Run
  <2>2. GotoRun(w, "gateFlush", nruns)
    BY <1>2 DEF GateLoad, GotoRun
  <2> QED BY <1>1, <2>1, <2>2 DEF SlotStepEnds, PipelinePc, StagePc
<1>3. CASE ChunkStep(w) /\ ~GateLoad(w)
  <2>1. Finish(w) \/ Throw(w) \/ (\E label \in PipelinePc : Goto(w, label))
    BY <1>3 DEF ChunkStep, AnswerThrows, AnswerSuperseded, AnswerBad,
       AnswerAccepted, PersistDuplicate, PersistSuperseded, PersistCommit,
       Reread, StageFailedRead, StageFailedFlush, CompleteRead, GateFlush,
       HandlerThrows, PipelinePc, StagePc
  <2> QED BY <1>1, <2>1 DEF SlotStepEnds
<1> QED BY <1>2, <1>3

\* What the step of a slot leaves alone: other slots, its job while it is busy,
\* and the run of every job; it adds no job but TopicJob and RecJob.
LEMMA EndsFrame ==
  ASSUME TypesInv, NEW w \in Worker, exec[w].pc # "idle", SlotStepEnds(w)
  PROVE  /\ \A v \in Worker \ {w} : exec'[v] = exec[v]
         /\ exec'[w].pc # "idle" => exec'[w].job = exec[w].job
         /\ \A j \in JobId :
              \/ jobs'[j].state # "absent" /\ jobs'[j].run = jobs[j].run
              \/ jobs'[j] = jobs[j]
              \/ /\ jobs[j].state = "absent" /\ AddAndFinish(w, j)
                 /\ j \in {TopicJob, RecJob} /\ jobs'[j].run = exec[w].run
<1>0. /\ exec \in [Worker -> ExecRecord(PipelinePc)]
      /\ jobs \in [JobId -> JobRecord]
      /\ JobsInv(jobs)
      /\ exec[w].job \in JobId /\ exec[w].run \in Run
  BY Busy DEF TypesInv, TypeInv, QueueInv, JobsInv
<1>1. ASSUME NEW label \in PipelinePc, NEW r \in Run,
             Goto(w, label) \/ GotoRun(w, label, r)
      PROVE  /\ \A v \in Worker \ {w} : exec'[v] = exec[v]
             /\ exec'[w].job = exec[w].job
             /\ jobs' = jobs
  <2>1. CASE Goto(w, label)
    BY <1>0, <2>1 DEF Goto, ExecRecord
  <2>2. CASE GotoRun(w, label, r)
    BY <1>0, <2>2 DEF GotoRun, ExecRecord
  <2> QED BY <1>1, <2>1, <2>2
<1>2. ASSUME NEW q \in [JobId -> JobRecord], JobsInv(q), NEW p \in Acknowledged(q, w)
      PROVE  \A j \in JobId :
               p[j] = q[j] \/ (p[j].state # "absent" /\ p[j].run = q[j].run)
  <2> DEFINE k == exec[w].job
  <2>1. CASE q[k].owner # w
    BY <1>2, <2>1 DEF Acknowledged
  <2>2. CASE q[k].owner = w
    <3>1. q[k] \in JobRecord /\ q[k].state = "active"
      <4>1. k \in JobId
        BY <1>0
      <4> HIDE DEF k
      <4>2. q[k] \in JobRecord /\ WellFormed(q[k])
        BY <1>2, <4>1, JobFields
      <4> QED BY <2>2, <4>2 DEF WellFormed
    <3>2. \/ p = [q EXCEPT ![k] = Completed(q[k])]
          \/ p = [q EXCEPT ![k] = Orphaned(q[k])]
      BY <1>2, <2>2 DEF Acknowledged
    <3>3. \A j \in JobId : j # k => p[j] = q[j]
      BY <3>2
    <3>4. p[k] = Completed(q[k]) \/ p[k] = Orphaned(q[k])
      BY <1>0, <3>2
    <3>5. p[k].state # "absent" /\ p[k].run = q[k].run
      BY <3>1, <3>4 DEF Completed, Orphaned, JobRecord
    <3> QED BY <3>3, <3>5
  <2> QED BY <2>1, <2>2
<1>3. ASSUME Finish(w)
      PROVE  \A j \in JobId :
               jobs'[j] = jobs[j] \/ (jobs'[j].state # "absent" /\ jobs'[j].run = jobs[j].run)
  BY <1>0, <1>2, <1>3 DEF Finish
<1>4. ASSUME Throw(w)
      PROVE  \A j \in JobId :
               jobs'[j] = jobs[j] \/ (jobs'[j].state # "absent" /\ jobs'[j].run = jobs[j].run)
  <2> DEFINE k == exec[w].job
  <2>1. jobs[k] \in JobRecord
    BY <1>0
  <2>2. \A j \in JobId : j # k => jobs'[j] = jobs[j]
    BY <1>0, <1>4 DEF Throw
  <2>3. CASE ~Owns(w)
    BY <1>4, <2>3 DEF Throw
  <2>4. CASE Owns(w)
    <3>1. PICK end \in {"waiting", "failed"} :
            jobs' = [jobs EXCEPT ![k] =
                       [@ EXCEPT !.state = end,
                                 !.attempts = jobs[k].attempts + 1,
                                 !.owner = NoWorker]]
      BY <1>4, <2>4 DEF Throw
    <3>2. jobs'[k].state = end /\ jobs'[k].run = jobs[k].run
      BY <1>0, <2>1, <3>1 DEF JobRecord
    <3> QED BY <2>2, <3>2
  <2> QED BY <2>3, <2>4
<1>5. ASSUME NEW k \in {TopicJob, RecJob}, AddAndFinish(w, k)
      PROVE  \A j \in JobId :
              \/ jobs'[j].state # "absent" /\ jobs'[j].run = jobs[j].run
              \/ jobs'[j] = jobs[j]
              \/ /\ jobs[j].state = "absent" /\ AddAndFinish(w, j)
                 /\ j \in {TopicJob, RecJob} /\ jobs'[j].run = exec[w].run
  <2> DEFINE q == Enqueue(jobs, k, exec[w].run)
  <2>1. JobsInv(q) /\ q \in [JobId -> JobRecord]
    BY <1>0, EnqueueInv DEF JobsInv
  <2>2. \A j \in JobId : j # k => q[j] = jobs[j]
    BY <1>0 DEF Enqueue
  <2>3. CASE jobs[k].state # "absent"
    <3>1. q = jobs
      BY <2>3 DEF Enqueue
    <3> QED BY <1>0, <1>2, <1>5, <3>1 DEF AddAndFinish
  <2>4. CASE jobs[k].state = "absent"
    <3>1. q[k].run = exec[w].run
      <4>1. q = [jobs EXCEPT ![k] = [jobs[k] EXCEPT !.state = "waiting", !.run = exec[w].run]]
        BY <2>4 DEF Enqueue
      <4>2. [jobs[k] EXCEPT !.state = "waiting", !.run = exec[w].run].run = exec[w].run
        BY <1>0 DEF JobRecord
      <4> QED BY <1>0, <4>1, <4>2
    <3>2. \A j \in JobId :
            jobs'[j] = q[j] \/ (jobs'[j].state # "absent" /\ jobs'[j].run = q[j].run)
      BY <1>2, <1>5, <2>1 DEF AddAndFinish
    <3>3. jobs'[k].run = exec[w].run
      BY <3>1, <3>2
    <3> QED BY <1>5, <2>2, <2>4, <3>2, <3>3
  <2> QED BY <2>3, <2>4
<1>6. ASSUME Leave(w)
      PROVE  exec'[w].pc = "idle" /\ \A v \in Worker \ {w} : exec'[v] = exec[v]
  BY <1>0, <1>6 DEF Leave, Idle
<1>7. CASE \E label \in PipelinePc, r \in Run :
             Goto(w, label) \/ GotoRun(w, label, r)
  BY <1>1, <1>7
<1>8. CASE \E label \in PipelinePc : Goto(w, label)
  BY <1>0, <1>8, <1>1
<1>9. CASE Finish(w)
  BY <1>3, <1>6, <1>9 DEF Finish
<1>10. CASE Throw(w)
  BY <1>4, <1>6, <1>10 DEF Throw
<1>11. CASE AddAndFinish(w, TopicJob) \/ AddAndFinish(w, RecJob)
  BY <1>5, <1>6, <1>11 DEF AddAndFinish
<1> QED BY <1>7, <1>8, <1>9, <1>10, <1>11 DEF SlotStepEnds

\* Where a slot is after a step of each form.
LEMMA EndsAt ==
  ASSUME TypesInv, NEW w \in Worker
  PROVE  /\ \A label : Goto(w, label) =>
              exec'[w].pc = label /\ exec'[w].run = exec[w].run
         /\ \A label, r : GotoRun(w, label, r) =>
              exec'[w].pc = label /\ exec'[w].run = r
         /\ Finish(w) \/ Throw(w) => exec'[w].pc = "idle"
         /\ \A j : AddAndFinish(w, j) => exec'[w].pc = "idle"
<1>1. exec \in [Worker -> ExecRecord(PipelinePc)] /\ exec[w] \in ExecRecord(PipelinePc)
  BY Busy
<1>2. ASSUME NEW label, Goto(w, label)
      PROVE  exec'[w].pc = label /\ exec'[w].run = exec[w].run
  BY <1>1, <1>2 DEF Goto, ExecRecord
<1>3. ASSUME NEW label, NEW r, GotoRun(w, label, r)
      PROVE  exec'[w].pc = label /\ exec'[w].run = r
  BY <1>1, <1>3 DEF GotoRun, ExecRecord
<1>4. Leave(w) => exec'[w].pc = "idle"
  BY <1>1 DEF Leave, Idle
<1> QED BY <1>2, <1>3, <1>4 DEF Finish, Throw, AddAndFinish

-----------------------------------------------------------------------------
(* The control flow of the handlers.                                       *)

\* From the worker's answer to the end of the sentiment stage.
StageFlow(a, b, job) ==
  \/ a = "answer" /\ b \in {"persist", "persistVoid"} /\ job \in Chunk
  \/ a = "answer" /\ b = "stageFailed" /\ job # RecJob
  \/ a \in {"persist", "persistVoid"} /\ b \in {"reread", "complete"} /\ job \in Chunk
  \/ a = "reread" /\ b = "complete"
  \/ a = "complete" /\ b = "gateLoad"
  \/ a = "gateLoad" /\ b = "gateFlush"
  \/ a = "gateFlush" /\ b = "gated"
  \/ a = "stageFailed" /\ b = "failFlush"

\* From there to the end of the pipeline.
LaterFlow(a, b, job) ==
  \/ a = "gated" /\ b = "topicDispatch"
  \/ a = "topicDispatch" /\ b = "topicAdd"
  \/ a \in {"topicDispatch", "topicAdd", "recDispatch", "recAdd"} /\ b = "dispatchFailed"
  \/ a = "answer" /\ b = "topicPersist" /\ job = TopicJob
  \/ a = "topicPersist" /\ b = "topicComplete"
  \/ a = "topicComplete" /\ b = "labelling"
  \/ a = "labelling" /\ b = "recDispatch"
  \/ a = "recDispatch" /\ b = "recAdd"
  \/ a = "answer" /\ b = "recPersist" /\ job = RecJob
  \/ a = "recPersist" /\ b = "recComplete"
  \/ a = "recComplete" /\ b = "completing"
  \/ a = "completing" /\ b = "refreshing"

\* A handler's step leads to idle or along this flow.
Flows(w) ==
  \/ exec'[w].pc = "idle"
  \/ StageFlow(exec[w].pc, exec'[w].pc, exec[w].job)
  \/ LaterFlow(exec[w].pc, exec'[w].pc, exec[w].job)

LEMMA ChunkFlows ==
  ASSUME TypesInv, NEW w \in Worker, ChunkStep(w)
  PROVE  Flows(w)
<1>0. TopicJob \notin Chunk /\ RecJob \notin Chunk
  OBVIOUS
<1>1. CASE AnswerThrows(w) \/ AnswerSuperseded(w) \/ PersistSuperseded(w)
           \/ StageFailedFlush(w) \/ HandlerThrows(w)
  BY <1>1, EndsAt DEF AnswerThrows, AnswerSuperseded, PersistSuperseded,
     StageFailedFlush, HandlerThrows, Flows
<1>2. CASE AnswerBad(w) \/ AnswerAccepted(w) \/ PersistDuplicate(w)
           \/ Reread(w) \/ CompleteRead(w) \/ GateFlush(w)
  BY <1>0, <1>2, EndsAt DEF AnswerBad, AnswerAccepted, PersistDuplicate, Reread,
     CompleteRead, GateFlush, AtChunk, Flows, StageFlow
<1>3. CASE PersistCommit(w)
  <2>1. exec[w].pc \in {"persist", "persistVoid"} /\ exec[w].job \in Chunk
    BY <1>3 DEF PersistCommit, NothingStored, AtChunk
  <2>2. Finish(w) \/ Goto(w, "complete")
    BY <1>3 DEF PersistCommit
  <2> QED BY <2>1, <2>2, EndsAt DEF Flows, StageFlow
<1>4. CASE \E s : StageFailedRead(w, s)
  BY <1>4, EndsAt DEF StageFailedRead, Flows, StageFlow
<1>5. CASE GateLoad(w)
  <2>1. GotoRun(w, "gateFlush", nruns)
    BY <1>5 DEF GateLoad, GotoRun
  <2> QED BY <1>5, <2>1, EndsAt DEF GateLoad, AtChunk, Flows, StageFlow
<1> QED BY <1>1, <1>2, <1>3, <1>4, <1>5 DEF ChunkStep

LEMMA LaterFlows ==
  ASSUME TypesInv, NEW w \in Worker, LaterStep(w)
  PROVE  Flows(w)
<1>1. CASE GateUnconfigured(w) \/ TopicDispatchEmpty(w) \/ DispatchFailed(w)
           \/ QueueRefresh(w) \/ TopicAdd(w) \/ RecAdd(w)
           \/ TopicAnswerThrows(w) \/ RecAnswerThrows(w) \/ LaterThrows(w)
  BY <1>1, EndsAt DEF GateUnconfigured, TopicDispatchEmpty, DispatchFailed,
     QueueRefresh, TopicAdd, RecAdd, TopicAnswerThrows, RecAnswerThrows,
     LaterThrows, RecThrow, Flows
<1>2. CASE GateAdvance(w) \/ DispatchThrows(w) \/ TopicAnswerBad(w)
           \/ TopicAnswerGood(w) \/ TopicPersist(w) \/ TopicComplete(w)
  BY <1>2, EndsAt DEF GateAdvance, DispatchThrows, TopicAnswerBad, TopicAnswerGood,
     TopicPersist, TopicComplete, At, AtTopic, Flows, StageFlow, LaterFlow
<1>3. CASE Labelled(w) \/ RecGenerated(w) \/ RecPersist(w) \/ RecComplete(w)
           \/ CompletePipeline(w)
  BY <1>3, EndsAt DEF Labelled, RecGenerated, RecPersist, RecComplete,
     CompletePipeline, At, AtRec, Flows, LaterFlow
<1>4. CASE StageFailedRead(w, "TOPIC_MODELING")
  BY <1>4, EndsAt DEF StageFailedRead, Flows, StageFlow
<1>5. CASE TopicDispatchRun(w) \/ RecDispatchRun(w)
  BY <1>5, EndsAt DEF TopicDispatchRun, RecDispatchRun, At, Flows, LaterFlow
<1> QED BY <1>1, <1>2, <1>3, <1>4, <1>5 DEF LaterStep

\* The step of a handler keeps every slot where its job belongs.
LEMMA HandlerPlace ==
  ASSUME TypesInv, NEW w \in Worker, exec[w].pc # "idle", SlotStepEnds(w), Flows(w)
  PROVE  PlaceInv'
<1> SUFFICES ASSUME NEW v \in Worker
             PROVE  /\ exec'[v].pc \in ChunkPc => exec'[v].job \in Chunk
                    /\ exec'[v].pc \in TopicPc => exec'[v].job = TopicJob
                    /\ exec'[v].pc \in RecPc => exec'[v].job = RecJob
                    /\ exec'[v].pc # "idle" => jobs'[exec'[v].job].state # "absent"
  BY DEF PlaceInv
<1>1. \A u \in Worker : exec[u].pc # "idle" => exec[u].job \in JobId
  BY Busy
<1>2. \A j \in JobId : jobs[j].state # "absent" => jobs'[j].state # "absent"
  BY EndsFrame
<1>3. CASE v # w
  <2>1. exec'[v] = exec[v]
    BY <1>3, EndsFrame
  <2> QED BY <1>1, <1>2, <2>1 DEF TypesInv, PlaceInv
<1>4. CASE v = w /\ exec'[w].pc # "idle"
  <2>1. exec'[w].job = exec[w].job
    BY <1>4, EndsFrame
  <2>2. jobs'[exec'[w].job].state # "absent"
    BY <1>1, <1>2, <2>1 DEF TypesInv, PlaceInv
  <2>3. /\ exec'[w].pc \in ChunkPc => exec'[w].job \in Chunk
        /\ exec'[w].pc \in TopicPc => exec'[w].job = TopicJob
        /\ exec'[w].pc \in RecPc => exec'[w].job = RecJob
    BY <1>4, <2>1 DEF TypesInv, PlaceInv, Flows, StageFlow, LaterFlow, ChunkPc,
       TopicPc, RecPc
  <2> QED BY <1>4, <2>2, <2>3
<1>5. CASE v = w /\ exec'[w].pc = "idle"
  BY <1>5 DEF ChunkPc, TopicPc, RecPc
<1> QED BY <1>3, <1>4, <1>5

\* What the steps after the stage write stays within the types.
LEMMA LaterWrites ==
  ASSUME TypesInv, NEW w \in Worker, LaterStep(w)
  PROVE  LaterTypes'
<1>1. CASE TopicDispatchRun(w)
  <2>1. ntopics < MaxRuns /\ ntopics \in 0..MaxRuns /\ ntopics' = ntopics + 1
    BY <1>1 DEF TopicDispatchRun, TypesInv, LaterTypes
  <2>2. ntopics' \in 0..MaxRuns
    BY <2>1
  <2> QED BY <1>1, <2>2 DEF TopicDispatchRun, TypesInv, LaterTypes, recVars
<1>2. CASE RecDispatchRun(w)
  <2>1. nrecs < MaxRuns /\ nrecs \in 0..MaxRuns /\ nrecs' = nrecs + 1
    BY <1>2 DEF RecDispatchRun, TypesInv, LaterTypes
  <2>2. nrecs' \in 0..MaxRuns
    BY <2>1
  <2> QED BY <1>2, <2>2 DEF RecDispatchRun, TypesInv, LaterTypes, topicVars
<1>3. CASE TopicPersist(w)
  <2>1. exec[w].run \in Run
    BY <1>3, Busy DEF TopicPersist, At
  <2>2. topicSets' \in [Run -> Nat]
    BY <1>3, <2>1 DEF TopicPersist, TypesInv, LaterTypes
  <2>3. topicStatus' \in [Run -> {"PROCESSING", "COMPLETED"}]
    BY <1>3, <2>1 DEF TopicPersist, TypesInv, LaterTypes
  <2> QED BY <1>3, <2>2, <2>3 DEF TopicPersist, TypesInv, LaterTypes, recVars
<1>4. CASE RecPersist(w)
  <2>1. exec[w].run \in Run
    BY <1>4, Busy DEF RecPersist, At
  <2>2. actionSets' \in [Run -> Nat]
    BY <1>4, <2>1 DEF RecPersist, TypesInv, LaterTypes
  <2>3. recStatus' \in [Run -> {"PROCESSING", "COMPLETED", "FAILED"}]
    BY <1>4, <2>1 DEF RecPersist, TypesInv, LaterTypes
  <2> QED BY <1>4, <2>2, <2>3 DEF RecPersist, TypesInv, LaterTypes, topicVars
<1>5. CASE QueueRefresh(w) \/ RecAnswerThrows(w) \/ LaterThrows(w)
  BY <1>5 DEF QueueRefresh, RecAnswerThrows, LaterThrows, RecThrow, TypesInv,
     LaterTypes, laterVars, topicVars, recVars
<1>6. CASE /\ LaterStep(w) /\ ~TopicDispatchRun(w) /\ ~RecDispatchRun(w)
           /\ ~TopicPersist(w) /\ ~RecPersist(w) /\ ~QueueRefresh(w)
           /\ ~RecAnswerThrows(w) /\ ~LaterThrows(w)
  <2>1. UNCHANGED laterVars
    BY <1>6 DEF LaterStep, GateUnconfigured, GateAdvance, TopicDispatchEmpty,
       TopicAdd, DispatchThrows, DispatchFailed, TopicAnswerThrows,
       TopicAnswerBad, TopicAnswerGood, TopicComplete, Labelled, RecAdd,
       RecGenerated, RecComplete, CompletePipeline
  <2> QED BY <2>1 DEF TypesInv, LaterTypes, laterVars, topicVars, recVars
<1> QED BY <1>1, <1>2, <1>3, <1>4, <1>5, <1>6

\* The steps of a worker keep the types.
LEMMA WorkerTypes ==
  ASSUME TypesInv, NEW w \in Worker, WorkerStep(w)
  PROVE  TypesInv'
<1>1. CASE ChunkStep(w) /\ UNCHANGED laterVars
  <2>1. TypeInv(PipelinePc)'
    BY <1>1, ChunkStepTypes, StageLabels DEF TypesInv
  <2>2. PlaceInv'
    BY <1>1, ChunkEnds, ChunkFlows, HandlerPlace
  <2>3. LaterTypes'
    BY <1>1 DEF TypesInv, LaterTypes, laterVars, topicVars, recVars
  <2> QED BY <2>1, <2>2, <2>3 DEF TypesInv
<1>2. CASE LaterStep(w)
  <2>1. exec[w].pc # "idle" /\ SlotStepEnds(w) /\ UNCHANGED stageVars /\ status' \in Status
    BY <1>2, LaterEnds
  <2>2. QueueInv(PipelinePc)' /\ nruns # 0
    BY <2>1, EndsKeepQueue, Busy
  <2>3. TypeInv(PipelinePc)'
    BY <2>1, <2>2, StageStutter, StageLabels DEF TypesInv
  <2>4. PlaceInv'
    BY <1>2, <2>1, LaterFlows, HandlerPlace
  <2> QED BY <1>2, <2>3, <2>4, LaterWrites DEF TypesInv
<1> QED BY <1>1, <1>2 DEF WorkerStep

\* What the requests do to the jobs: one is added for a chunk, with the run of
\* the request.
LEMMA CallerJobs ==
  ASSUME TypesInv, NEW h \in Caller,
         ConfirmRead(h) \/ CancelRead(h) \/ CallerProgress(h)
  PROVE  /\ UNCHANGED <<exec, failCall, hasUrl, runVars, crashes>>
         /\ \/ UNCHANGED jobs
            \/ \E c \in Chunk :
                 /\ AddChunk(h, c)
                 /\ jobs' = Enqueue(jobs, c, caller[h].run)
                 /\ caller[h].run \in Run /\ UNCHANGED <<status, nruns>>
<1>1. ASSUME NEW c \in Chunk, AddChunk(h, c)
      PROVE  caller[h].run \in Run
  BY <1>1 DEF AddChunk, TypesInv, TypeInv, CallerInv
<1> QED BY <1>1 DEF CallerProgress, ConfirmRead, CancelRead, ConfirmFlush, DispatchEmpty,
     DispatchRun, CancelFlush, RequestThrows, AddChunk, AddRejected, queueVars

\* Adding a job changes no other, and a job that was added keeps its record.
LEMMA Enqueued ==
  ASSUME NEW q, JobsInv(q), NEW k \in JobId, NEW r \in Run
  PROVE  \A j \in JobId :
           \/ Enqueue(q, k, r)[j] = q[j]
           \/ /\ j = k /\ q[j].state = "absent"
              /\ Enqueue(q, k, r)[j].state = "waiting" /\ Enqueue(q, k, r)[j].run = r
              /\ Enqueue(q, k, r)[j].owner = q[j].owner
              /\ Enqueue(q, k, r)[j].attempts = q[j].attempts
              /\ Enqueue(q, k, r)[j].stalls = q[j].stalls
<1> DEFINE job == [q[k] EXCEPT !.state = "waiting", !.run = r]
<1>1. q \in [JobId -> JobRecord] /\ q[k] \in JobRecord
  BY JobFields DEF JobsInv
<1>2. CASE q[k].state = "absent"
  <2>1. Enqueue(q, k, r) = [q EXCEPT ![k] = job]
    BY <1>2 DEF Enqueue
  <2>2. /\ job.state = "waiting" /\ job.run = r /\ job.owner = q[k].owner
        /\ job.attempts = q[k].attempts /\ job.stalls = q[k].stalls
    BY <1>1 DEF JobRecord
  <2>3. Enqueue(q, k, r)[k] = job
    BY <1>1, <2>1
  <2>4. \A j \in JobId : j # k => Enqueue(q, k, r)[j] = q[j]
    BY <1>1, <2>1
  <2> HIDE DEF job
  <2> QED BY <1>2, <2>2, <2>3, <2>4
<1>3. CASE q[k].state # "absent"
  BY <1>3 DEF Enqueue
<1> QED BY <1>2, <1>3

\* The steps of the requests keep the types.
LEMMA CallerTypes ==
  ASSUME TypesInv, NEW h \in Caller,
         ConfirmRead(h) \/ CancelRead(h) \/ CallerProgress(h), UNCHANGED laterVars
  PROVE  TypesInv'
<1>1. TypeInv(PipelinePc)'
  BY CallerStep, AddChunkStep, StageLabels DEF CallerProgress, TypesInv
<1>2. LaterTypes'
  BY DEF TypesInv, LaterTypes, laterVars, topicVars, recVars
<1>3. \A j \in JobId : jobs[j].state # "absent" => jobs'[j].state # "absent"
  BY CallerJobs, Enqueued DEF TypesInv, TypeInv, QueueInv
<1>4. UNCHANGED exec
  BY CallerJobs
<1>5. PlaceInv'
  BY <1>3, <1>4, Busy DEF TypesInv, PlaceInv
<1> QED BY <1>1, <1>2, <1>5 DEF TypesInv

\* What the queue's own steps do to the jobs and slots: no job is added, the run
\* of each stays, and each slot stays, takes a job that was added, or is gone.
LEMMA QueueMoves ==
  ASSUME TypesInv,
         \/ \E j \in JobId :
              \/ \E w \in Worker : Take(w, j)
              \/ OnFailedRead(j, StageStatus(j)) \/ OnFailedFlush(j) \/ OnFailedLost(j)
              \/ Stall(j)
         \/ QueueCrash
  PROVE  /\ \A j \in JobId : /\ jobs'[j].run = jobs[j].run
                             /\ jobs'[j].state = "absent" <=> jobs[j].state = "absent"
         /\ \A w \in Worker :
              \/ exec'[w] = exec[w]
              \/ exec'[w].pc = "idle"
              \/ /\ exec[w].pc = "idle" /\ exec'[w].pc = "answer"
                 /\ exec'[w].job \in JobId /\ jobs[exec'[w].job].state = "waiting"
                 /\ exec'[w].run = jobs[exec'[w].job].run
<1>0. /\ exec \in [Worker -> ExecRecord(PipelinePc)]
      /\ jobs \in [JobId -> JobRecord]
  BY DEF TypesInv, TypeInv, QueueInv, JobsInv, ExecInv
<1>1. ASSUME NEW j \in JobId, NEW w \in Worker, Take(w, j)
      PROVE  /\ \A k \in JobId : /\ jobs'[k].run = jobs[k].run
                                 /\ jobs'[k].state = "absent" <=> jobs[k].state = "absent"
             /\ \A v \in Worker :
                  \/ exec'[v] = exec[v]
                  \/ /\ exec[v].pc = "idle" /\ exec'[v].pc = "answer"
                     /\ exec'[v].job = j /\ jobs[j].state = "waiting"
                     /\ exec'[v].run = jobs[j].run
  BY <1>0, <1>1 DEF Take, JobRecord
<1>2. ASSUME NEW j \in JobId, Stall(j)
      PROVE  /\ \A k \in JobId : /\ jobs'[k].run = jobs[k].run
                                 /\ jobs'[k].state = "absent" <=> jobs[k].state = "absent"
             /\ exec' = exec
  <2> DEFINE again == [jobs[j] EXCEPT !.state = "waiting",
                                      !.stalls = jobs[j].stalls + 1,
                                      !.owner = NoWorker]
             over  == [jobs[j] EXCEPT !.state = "failed",
                                      !.attempts = jobs[j].attempts + 1,
                                      !.owner = NoWorker]
  <2>1. jobs[j] \in JobRecord /\ jobs[j].state = "active"
    BY <1>0, <1>2 DEF Stall
  <2>2. /\ again.state = "waiting" /\ again.run = jobs[j].run
        /\ over.state = "failed" /\ over.run = jobs[j].run
    BY <2>1 DEF JobRecord
  <2>3. jobs' = [jobs EXCEPT ![j] = again] \/ jobs' = [jobs EXCEPT ![j] = over]
    BY <1>2 DEF Stall
  <2> HIDE DEF again, over
  <2>4. jobs'[j] = again \/ jobs'[j] = over
    BY <1>0, <2>3
  <2>5. \A k \in JobId : k # j => jobs'[k] = jobs[k]
    BY <1>0, <2>3
  <2> QED BY <1>2, <2>1, <2>2, <2>4, <2>5 DEF Stall
<1>3. ASSUME NEW j \in JobId,
             \/ OnFailedRead(j, StageStatus(j)) \/ OnFailedFlush(j) \/ OnFailedLost(j)
      PROVE  UNCHANGED <<jobs, exec>>
  BY <1>3 DEF OnFailedRead, OnFailedFlush, OnFailedLost
<1>4. CASE QueueCrash
  <2>1. \A k \in JobId : /\ jobs'[k].run = jobs[k].run
                         /\ jobs'[k].state = jobs[k].state
    BY <1>0, <1>4 DEF QueueCrash, Orphaned, JobRecord
  <2>2. \A w \in Worker : exec'[w].pc = "idle"
    BY <1>4 DEF QueueCrash, Idle
  <2> QED BY <2>1, <2>2
<1> QED BY <1>1, <1>2, <1>3, <1>4

\* The steps of the queue, of the listeners and the crash are such steps.
QueueSteps ==
  \/ \E j \in JobId : PipelineTake(j) \/ PipelineOnFailed(j) \/ PipelineStall(j)
  \/ PipelineCrash

LEMMA QueueStepsMove ==
  ASSUME TypesInv, QueueSteps
  PROVE  /\ \A j \in JobId : /\ jobs'[j].run = jobs[j].run
                             /\ jobs'[j].state = "absent" <=> jobs[j].state = "absent"
         /\ \A w \in Worker :
              \/ exec'[w] = exec[w]
              \/ exec'[w].pc = "idle"
              \/ /\ exec[w].pc = "idle" /\ exec'[w].pc = "answer"
                 /\ exec'[w].job \in JobId /\ jobs[exec'[w].job].state = "waiting"
                 /\ exec'[w].run = jobs[exec'[w].job].run
BY QueueMoves DEF QueueSteps, PipelineTake, PipelineOnFailed, PipelineStall,
   PipelineCrash, TakeJob, StallJob, Crash

LEMMA QueueStepsTypes ==
  ASSUME TypesInv, QueueSteps
  PROVE  TypesInv'
<1>1. LaterTypes'
  <2>1. /\ UNCHANGED <<hasTopicUrl, ntopics, topicSets, topicStatus, nrecs, actionSets,
                       recStatus, refreshQueued>>
        /\ recMark' \in {"none", "called", "seen"}
    BY DEF TypesInv, LaterTypes, QueueSteps, PipelineTake, PipelineOnFailed,
       PipelineStall, PipelineCrash, laterVars, topicVars, recVars
  <2> QED BY <2>1 DEF TypesInv, LaterTypes
<1>2. TypeInv(PipelinePc)'
  <2>1. CASE PipelineCrash
    BY <2>1, CrashTypes, StageLabels DEF PipelineCrash, TypesInv
  <2>2. ASSUME NEW j \in JobId, PipelineTake(j) \/ PipelineOnFailed(j) \/ PipelineStall(j)
        PROVE  TypeInv(PipelinePc)'
    <3>1. StageStatus(j) \in Status
      BY DEF StageStatus, Status
    <3>2. \/ \E w \in Worker : TakeJob(w, j)
          \/ \E s \in Status : OnFailedRead(j, s)
          \/ OnFailedFlush(j) \/ OnFailedLost(j) \/ StallJob(j)
      BY <2>2, <3>1 DEF PipelineTake, PipelineOnFailed, PipelineStall
    <3> QED BY <3>2, QueueStepTypes, StageLabels DEF TypesInv
  <2> QED BY <2>1, <2>2 DEF QueueSteps
<1>3. PlaceInv'
  <2> SUFFICES ASSUME NEW w \in Worker
               PROVE  /\ exec'[w].pc \in ChunkPc => exec'[w].job \in Chunk
                      /\ exec'[w].pc \in TopicPc => exec'[w].job = TopicJob
                      /\ exec'[w].pc \in RecPc => exec'[w].job = RecJob
                      /\ exec'[w].pc # "idle" => jobs'[exec'[w].job].state # "absent"
    BY DEF PlaceInv
  <2> QED BY QueueStepsMove, Busy DEF TypesInv, PlaceInv, ChunkPc, TopicPc, RecPc
<1> QED BY <1>1, <1>2, <1>3 DEF TypesInv

\* The types hold initially, and every step keeps them.
LEMMA TypesInit == PipelineInit => TypesInv
<1> SUFFICES ASSUME PipelineInit PROVE TypesInv
  OBVIOUS
<1>1. TypeInv(PipelinePc)
  BY TypeInit, StageLabels DEF PipelineInit
<1>2. LaterTypes
  <2>1. [r \in Run |-> 0] \in [Run -> Nat]
    OBVIOUS
  <2>2. /\ [r \in Run |-> "PROCESSING"] \in [Run -> {"PROCESSING", "COMPLETED"}]
        /\ [r \in Run |-> "PROCESSING"] \in [Run -> {"PROCESSING", "COMPLETED", "FAILED"}]
    OBVIOUS
  <2>3. 0 \in 0..MaxRuns
    OBVIOUS
  <2> QED BY <2>1, <2>2, <2>3, Zenon DEF PipelineInit, LaterTypes
<1>3. PlaceInv
  BY DEF PipelineInit, Init, QueueInit, Idle, PlaceInv, ChunkPc, TopicPc, RecPc
<1> QED BY <1>1, <1>2, <1>3 DEF TypesInv

\* The marking of the recommendations run, and a step of somebody else.
LEMMA MarkTypes ==
  ASSUME TypesInv, RecMarkRead \/ RecMarkFlush \/ UNCHANGED pipelineVars
  PROVE  TypesInv'
<1>1. UNCHANGED vars
  BY DEF RecMarkRead, RecMarkFlush, pipelineVars
<1>2. QueueInv(PipelinePc)'
  BY <1>1, QueueStutter DEF TypesInv, TypeInv, vars
<1>3. TypeInv(PipelinePc)'
  BY <1>1, <1>2, StageStutter, StageLabels
     DEF vars, queueVars, TypesInv, TypeInv, StageTypeOK
<1>4. PlaceInv'
  BY <1>1 DEF vars, queueVars, TypesInv, PlaceInv
<1>5. LaterTypes'
  BY DEF TypesInv, LaterTypes, RecMarkRead, RecMarkFlush, pipelineVars, laterVars,
     topicVars, recVars
<1> QED BY <1>3, <1>4, <1>5 DEF TypesInv

LEMMA TypesStep == TypesInv /\ [PipelineNext]_pipelineVars => TypesInv'
BY WorkerTypes, CallerTypes, QueueStepsTypes, MarkTypes DEF PipelineNext, QueueSteps

-----------------------------------------------------------------------------
(* What the step of a handler does to the jobs and the status.             *)

\* A handler that goes on, returns or throws touches the job it owns alone.
LEMMA QuietEnds ==
  ASSUME TypesInv, NEW w \in Worker, exec[w].pc # "idle",
         \/ Finish(w) \/ Throw(w)
         \/ (\E label : Goto(w, label)) \/ (\E label, r : GotoRun(w, label, r))
  PROVE  \A j \in JobId : jobs[j].owner # w => jobs'[j] = jobs[j]
<1>0. jobs \in [JobId -> JobRecord] /\ exec[w].job \in JobId
  BY Busy DEF TypesInv, TypeInv, QueueInv, JobsInv
<1>1. CASE Finish(w)
  BY <1>0, <1>1 DEF Finish, Acknowledged
<1>2. CASE Throw(w)
  BY <1>0, <1>2 DEF Throw, Owns
<1>3. CASE (\E label : Goto(w, label)) \/ (\E label, r : GotoRun(w, label, r))
  BY <1>3 DEF Goto, GotoRun
<1> QED BY <1>1, <1>2, <1>3

\* One that adds a job touches that one besides.
LEMMA AddEnds ==
  ASSUME TypesInv, NEW w \in Worker, exec[w].pc # "idle",
         NEW k \in JobId, AddAndFinish(w, k)
  PROVE  \A j \in JobId :
           jobs[j].owner # w => jobs'[j] = Enqueue(jobs, k, exec[w].run)[j]
<1> DEFINE q == Enqueue(jobs, k, exec[w].run)
<1>0. JobsInv(jobs) /\ exec[w].job \in JobId /\ exec[w].run \in Run
  BY Busy DEF TypesInv, TypeInv, QueueInv
<1>1. JobsInv(q)
  BY <1>0, EnqueueInv
<1>2. \A j \in JobId : q[j].owner = jobs[j].owner
  BY <1>0, Enqueued
<1>3. jobs' \in Acknowledged(q, w)
  BY DEF AddAndFinish
<1> HIDE DEF q
<1>4. q \in [JobId -> JobRecord]
  BY <1>1 DEF JobsInv
<1>5. \A j \in JobId : q[j].owner # w => jobs'[j] = q[j]
  BY <1>0, <1>3, <1>4 DEF Acknowledged
<1> QED BY <1>2, <1>5 DEF q

\* A job that the slot does not own stays as it is, or is the one it adds.
Appears(w, j) ==
  /\ jobs[j].state = "absent"
  /\ jobs'[j].state = "waiting" /\ jobs'[j].run = exec[w].run
  /\ \/ j = TopicJob /\ exec[w].pc = "topicAdd"
     \/ j = RecJob /\ exec[w].pc = "recAdd"

LEMMA OthersJobs ==
  ASSUME TypesInv, NEW w \in Worker, WorkerStep(w),
         NEW j \in JobId, jobs[j].owner # w
  PROVE  jobs'[j] = jobs[j] \/ Appears(w, j)
<1>1. CASE ChunkStep(w)
  <2>1. exec[w].pc # "idle" /\ SlotStepEnds(w)
    BY <1>1, ChunkEnds
  <2>2. CASE GateLoad(w)
    BY <2>2 DEF GateLoad
  <2>3. CASE ChunkStep(w) /\ ~GateLoad(w)
    <3>1. Finish(w) \/ Throw(w) \/ \E label : Goto(w, label)
      BY <2>3 DEF ChunkStep, AnswerThrows, AnswerSuperseded, AnswerBad,
         AnswerAccepted, PersistDuplicate, PersistSuperseded, PersistCommit,
         Reread, StageFailedRead, StageFailedFlush, CompleteRead, GateFlush,
         HandlerThrows
    <3> QED BY <2>1, <3>1, QuietEnds
  <2> QED BY <1>1, <2>2, <2>3
<1>2. CASE LaterStep(w) /\ ~TopicAdd(w) /\ ~RecAdd(w)
  <2>1. exec[w].pc # "idle"
    BY <1>2, LaterEnds
  <2>2. \/ Finish(w) \/ Throw(w)
        \/ (\E label : Goto(w, label)) \/ (\E label, r : GotoRun(w, label, r))
    BY <1>2 DEF LaterStep, GateUnconfigured, GateAdvance, TopicDispatchEmpty,
       TopicDispatchRun, DispatchThrows, DispatchFailed, TopicAnswerThrows,
       TopicAnswerBad, TopicAnswerGood, TopicPersist, TopicComplete, Labelled,
       RecDispatchRun, RecAnswerThrows, RecGenerated, RecPersist, RecComplete,
       CompletePipeline, QueueRefresh, LaterThrows, RecThrow, StageFailedRead
  <2> QED BY <2>1, <2>2, QuietEnds
<1>3. ASSUME NEW k \in {TopicJob, RecJob}, AddAndFinish(w, k),
             exec[w].pc = IF k = TopicJob THEN "topicAdd" ELSE "recAdd"
      PROVE  jobs'[j] = jobs[j] \/ Appears(w, j)
  <2>1. jobs'[j] = Enqueue(jobs, k, exec[w].run)[j] /\ exec[w].run \in Run
    BY <1>3, AddEnds, Busy
  <2>2. \/ Enqueue(jobs, k, exec[w].run)[j] = jobs[j]
        \/ /\ j = k /\ jobs[j].state = "absent"
           /\ Enqueue(jobs, k, exec[w].run)[j].state = "waiting"
           /\ Enqueue(jobs, k, exec[w].run)[j].run = exec[w].run
    BY <2>1, Enqueued DEF TypesInv, TypeInv, QueueInv
  <2> QED BY <1>3, <2>1, <2>2 DEF Appears
<1>4. CASE TopicAdd(w) \/ RecAdd(w)
  BY <1>3, <1>4 DEF TopicAdd, RecAdd, At
<1> QED BY <1>1, <1>2, <1>4 DEF WorkerStep

\* The handlers' writes of the status: forward by the handler at the right place,
\* or to FAILED.
Writes(w) ==
  \/ status' = status
  \/ /\ exec[w].pc \in {"failFlush", "gated", "topicDispatch", "dispatchFailed"}
     /\ status' = "FAILED"
  \/ exec[w].pc = "gateFlush" /\ exec'[w].pc = "gated" /\ status' = "SENTIMENT_GATE"
  \/ exec[w].pc = "gated" /\ exec'[w].pc = "topicDispatch" /\ status' = "TOPIC_MODELING"
  \/ /\ exec[w].pc = "labelling" /\ exec'[w].pc = "recDispatch"
     /\ status' = "GENERATING_RECOMMENDATIONS"
  \/ exec[w].pc = "completing" /\ exec'[w].pc = "refreshing" /\ status' = "COMPLETED"

LEMMA WorkerWrites ==
  ASSUME TypesInv, NEW w \in Worker, WorkerStep(w)
  PROVE  Writes(w)
<1>1. CASE ChunkStep(w) /\ ~StageFailedFlush(w) /\ ~GateFlush(w)
  BY <1>1 DEF ChunkStep, AnswerThrows, AnswerSuperseded, AnswerBad,
     AnswerAccepted, PersistDuplicate, PersistSuperseded, PersistCommit,
     Reread, StageFailedRead, CompleteRead, GateLoad, HandlerThrows, Writes
<1>2. CASE StageFailedFlush(w) \/ GateFlush(w)
  BY <1>2, EndsAt DEF StageFailedFlush, GateFlush, AtChunk, Writes
<1>3. CASE GateUnconfigured(w) \/ GateAdvance(w) \/ TopicDispatchEmpty(w)
           \/ DispatchFailed(w) \/ Labelled(w) \/ CompletePipeline(w)
  BY <1>3, EndsAt DEF GateUnconfigured, GateAdvance, TopicDispatchEmpty,
     DispatchFailed, Labelled, CompletePipeline, At, Writes
<1>4. CASE /\ LaterStep(w)
           /\ ~GateUnconfigured(w) /\ ~GateAdvance(w) /\ ~TopicDispatchEmpty(w)
           /\ ~DispatchFailed(w) /\ ~Labelled(w) /\ ~CompletePipeline(w)
  BY <1>4 DEF LaterStep, TopicDispatchRun, TopicAdd, DispatchThrows,
     TopicAnswerThrows, TopicAnswerBad, TopicAnswerGood, TopicPersist,
     TopicComplete, RecDispatchRun, RecAdd, RecAnswerThrows, RecGenerated,
     RecPersist, RecComplete, QueueRefresh, LaterThrows, RecThrow,
     StageFailedRead, Writes
<1> QED BY <1>1, <1>2, <1>3, <1>4 DEF WorkerStep

-----------------------------------------------------------------------------
(* No stage is skipped.                                                    *)

\* A lock lasts as long as the handler that holds it, and a returned handler's
\* job is completed.
Exclusive == Faults \cap {"ack", "stall"} = {}

Later ==
  {"SENTIMENT_GATE", "TOPIC_MODELING", "GENERATING_RECOMMENDATIONS", "COMPLETED"}

GatePc ==
  {"complete", "gateLoad", "gateFlush", "gated", "topicDispatch", "topicAdd"}
AfterFan     == GatePc \cup TopicPc \cup RecPc
AfterTopics  == {"topicComplete", "labelling", "recDispatch", "recAdd"} \cup RecPc
AfterActions == {"recComplete", "completing", "refreshing"}

Added(j) == jobs[j].state # "absent"

\* Whoever is past a stage, a handler, a job or the pipeline's status, leaves a
\* run of it behind that is whole.
FanInv ==
  status \in Later \/ Added(TopicJob) \/ Added(RecJob) \/ AtWork(AfterFan)
    => WholeSentimentRun

TopicInv ==
  \/ status \in {"GENERATING_RECOMMENDATIONS", "COMPLETED"}
  \/ Added(RecJob) \/ AtWork(AfterTopics)
  => SomeTopicRunDone

ActionInv == status = "COMPLETED" \/ AtWork(AfterActions) => SomeActionsStored

CountInv == \A r \in Run : completed[r] = Cardinality(landed[r])

\* Without void answers, the unique index tells what has landed.
SameInv ==
  /\ \A w \in Worker : exec[w].pc # "persistVoid"
  /\ landed = results

\* A busy slot owns its job.
OwnInv == \A w \in Worker : exec[w].pc # "idle" => jobs[exec[w].job].owner = w

\* A chunk that landed in a run that is not whole is not run again.
DoneInv ==
  \A r \in Run : \A c \in landed[r] :
    completed[r] < ExpectedChunks => jobs[c].state = "completed"

FreshInv ==
  /\ "void" \notin Faults => SameInv
  /\ Exclusive => OwnInv /\ DoneInv

WholeInv == FanInv /\ TopicInv /\ ActionInv /\ CountInv /\ FreshInv

\* The orders of stalled duplicates under which no chunk is counted twice.
NoDoubles == "void" \notin Faults \/ Exclusive

\* What has landed, is done or is stored stays so in a handler's step.
LEMMA HandlerGrows ==
  ASSUME TypesInv, NEW w \in Worker, WorkerStep(w)
  PROVE  /\ \A r \in Run : landed[r] \subseteq landed'[r]
         /\ \A r \in Run : topicStatus[r] = "COMPLETED" => topicStatus'[r] = "COMPLETED"
         /\ \A r \in Run : actionSets[r] > 0 => actionSets'[r] > 0
<1>0. /\ landed \in [Run -> SUBSET Chunk]
      /\ topicStatus \in [Run -> {"PROCESSING", "COMPLETED"}]
      /\ actionSets \in [Run -> Nat]
  BY DEF TypesInv, TypeInv, StageTypeOK, LaterTypes
<1>1. CASE ChunkStep(w) /\ UNCHANGED laterVars
  <2>1. UNCHANGED <<topicStatus, actionSets>>
    BY <1>1 DEF laterVars, topicVars, recVars
  <2>2. CASE PersistCommit(w)
    <3>1. landed' = [landed EXCEPT ![RunOf(w)] = @ \cup {ChunkOf(w)}]
      BY <2>2 DEF PersistCommit
    <3>2. \A r \in Run : landed[r] \subseteq landed'[r]
      BY <1>0, <3>1
    <3> QED BY <2>1, <3>2
  <2>3. CASE ~PersistCommit(w)
    <3>1. UNCHANGED landed
      BY <1>1, <2>3 DEF ChunkStep, AnswerThrows, AnswerSuperseded, AnswerBad,
         AnswerAccepted, PersistDuplicate, PersistSuperseded, Reread,
         StageFailedRead, StageFailedFlush, CompleteRead, GateLoad, GateFlush,
         HandlerThrows, stageVars
    <3> QED BY <2>1, <3>1
  <2> QED BY <2>2, <2>3
<1>2. CASE LaterStep(w)
  <2>1. UNCHANGED landed
    BY <1>2, LaterEnds DEF stageVars
  <2>2. CASE TopicPersist(w)
    <3>1. /\ topicStatus' = [topicStatus EXCEPT ![exec[w].run] = "COMPLETED"]
          /\ actionSets' = actionSets
      BY <2>2 DEF TopicPersist, recVars
    <3> QED BY <1>0, <2>1, <3>1
  <2>3. CASE RecPersist(w)
    <3>1. /\ actionSets' = [actionSets EXCEPT ![exec[w].run] = @ + 1]
          /\ topicStatus' = topicStatus
      BY <2>3 DEF RecPersist, topicVars
    <3>2. \A r \in Run : actionSets[r] \in Nat
      BY <1>0
    <3>3. \A r \in Run : actionSets[r] > 0 => actionSets'[r] > 0
      BY <1>0, <3>1, <3>2
    <3> QED BY <2>1, <3>1, <3>3
  <2>4. CASE ~TopicPersist(w) /\ ~RecPersist(w)
    <3>1. UNCHANGED <<topicStatus, actionSets>>
      BY <1>2, <2>4 DEF LaterStep, GateUnconfigured, GateAdvance, TopicDispatchEmpty,
         TopicDispatchRun, TopicAdd, DispatchThrows, DispatchFailed,
         TopicAnswerThrows, TopicAnswerBad, TopicAnswerGood, TopicComplete,
         Labelled, RecDispatchRun, RecAdd, RecAnswerThrows, RecGenerated,
         RecComplete, CompletePipeline, QueueRefresh, LaterThrows, RecThrow,
         laterVars, topicVars, recVars
    <3> QED BY <2>1, <3>1
  <2> QED BY <2>2, <2>3, <2>4
<1> QED BY <1>1, <1>2 DEF WorkerStep

\* A chunk that commits has not landed in its run before.
LEMMA CommitIsNew ==
  ASSUME TypesInv, FreshInv, NoDoubles, NEW w \in Worker, PersistCommit(w)
  PROVE  /\ exec[w].run \in Run /\ exec[w].job \in Chunk
         /\ exec[w].job \notin landed[exec[w].run]
<1>1. /\ exec[w].pc \in {"persist", "persistVoid"} /\ exec[w].job \in Chunk
      /\ exec[w].pc = "persist" => exec[w].job \notin results[exec[w].run]
      /\ completed[exec[w].run] < ExpectedChunks
  BY DEF PersistCommit, NothingStored, AtChunk, ChunkOf, RunOf, Countable
<1>2. exec[w].run \in Run
  BY <1>1, Busy
<1>3. CASE "void" \notin Faults
  BY <1>1, <1>2, <1>3 DEF FreshInv, SameInv
<1>4. CASE Exclusive
  <2>1. jobs[exec[w].job].owner = w
    BY <1>1, <1>4 DEF FreshInv, OwnInv
  <2>2. jobs[exec[w].job].state = "active"
    BY <1>1, <2>1 DEF TypesInv, TypeInv, QueueInv, JobsInv, WellFormed
  <2> QED BY <1>1, <1>2, <1>4, <2>2 DEF FreshInv, DoneInv
<1> QED BY <1>1, <1>2, <1>3, <1>4 DEF NoDoubles

\* A commit counts its chunk, and sees the run whole when it is the last.
LEMMA CommitIsCounted ==
  ASSUME TypesInv, CountInv, FreshInv, NoDoubles, NEW w \in Worker, PersistCommit(w)
  PROVE  /\ CountInv'
         /\ completed[exec[w].run] + 1 = ExpectedChunks => landed'[exec[w].run] = Chunk
<1> DEFINE r == exec[w].run
           c == exec[w].job
<1>1. r \in Run /\ c \in Chunk /\ c \notin landed[r]
  BY CommitIsNew
<1>2. /\ landed \in [Run -> SUBSET Chunk]
      /\ completed \in [Run -> 0..ExpectedChunks]
      /\ StageTypeOK
  BY DEF TypesInv, TypeInv, StageTypeOK
<1>3. /\ landed' = [landed EXCEPT ![r] = @ \cup {c}]
      /\ completed' = [completed EXCEPT ![r] = @ + 1]
  BY DEF PersistCommit, RunOf, ChunkOf
<1> HIDE DEF r, c
<1>4. /\ landed'[r] = landed[r] \cup {c}
      /\ completed'[r] = completed[r] + 1
      /\ \A q \in Run : q # r => landed'[q] = landed[q] /\ completed'[q] = completed[q]
  BY <1>1, <1>2, <1>3
<1>5. IsFiniteSet(landed[r]) /\ Cardinality(landed[r]) \in Nat
  BY <1>1, <1>2, RunsAreFinite
<1>6. Cardinality(landed'[r]) = Cardinality(landed[r]) + 1
  BY <1>1, <1>4, <1>5, FS_AddElement
<1>7. completed[r] = Cardinality(landed[r])
  BY <1>1 DEF CountInv
<1>8. CountInv'
  BY <1>1, <1>4, <1>6, <1>7 DEF CountInv
<1>9. landed'[r] \in SUBSET Chunk
  BY <1>1, <1>2, <1>4
<1>10. ASSUME completed[r] + 1 = ExpectedChunks PROVE landed'[r] = Chunk
  <2>1. Cardinality(landed'[r]) = Cardinality(Chunk)
    BY <1>6, <1>7, <1>10 DEF ExpectedChunks
  <2> QED BY <1>9, <2>1, FS_Subset
<1> QED BY <1>8, <1>10 DEF r

\* A handler's step, in a word: the slot was busy, its step has one of the forms
\* and follows the flow.
LEMMA WorkerEnds ==
  ASSUME TypesInv, NEW w \in Worker, WorkerStep(w)
  PROVE  exec[w].pc # "idle" /\ SlotStepEnds(w) /\ Flows(w)
BY ChunkEnds, LaterEnds, ChunkFlows, LaterFlows DEF WorkerStep

\* A handler that goes on touches no job.
LEMMA GoesOn ==
  ASSUME TypesInv, NEW w \in Worker, WorkerStep(w), exec'[w].pc # "idle"
  PROVE  jobs' = jobs /\ exec'[w].job = exec[w].job
<1>1. exec[w].pc # "idle" /\ SlotStepEnds(w)
  BY WorkerEnds
<1>2. (\E label : Goto(w, label)) \/ (\E label, r : GotoRun(w, label, r))
  BY <1>1, EndsAt DEF SlotStepEnds
<1> QED BY <1>1, <1>2, EndsFrame DEF Goto, GotoRun

\* A run is found whole by the commit of its last chunk, or in its counter.
LEMMA Completes ==
  ASSUME TypesInv, NEW w \in Worker, WorkerStep(w), exec'[w].pc = "complete"
  PROVE  \/ PersistCommit(w) /\ completed[exec[w].run] + 1 = ExpectedChunks
         \/ completed[exec[w].run] = ExpectedChunks
<1>1. exec[w].pc \in {"persist", "persistVoid", "reread"}
  BY WorkerEnds DEF Flows, StageFlow, LaterFlow
<1>2. ~LaterStep(w)
  BY <1>1 DEF LaterStep, GateUnconfigured, GateAdvance, TopicDispatchEmpty,
     TopicDispatchRun, TopicAdd, DispatchThrows, DispatchFailed,
     TopicAnswerThrows, TopicAnswerBad, TopicAnswerGood, TopicPersist,
     TopicComplete, Labelled, RecDispatchRun, RecAdd, RecAnswerThrows,
     RecGenerated, RecPersist, RecComplete, CompletePipeline, QueueRefresh,
     LaterThrows, StageFailedRead, At, AtTopic, AtRec
<1>3. ChunkStep(w)
  BY <1>2 DEF WorkerStep
<1>4. ~Finish(w) /\ ~Throw(w) /\ ~Goto(w, "reread")
  BY EndsAt
<1> QED BY <1>1, <1>3, <1>4 DEF ChunkStep, AnswerThrows, AnswerSuperseded, AnswerBad,
     AnswerAccepted, PersistDuplicate, PersistSuperseded, PersistCommit,
     Reread, StageFailedRead, StageFailedFlush, CompleteRead, GateLoad,
     GateFlush, HandlerThrows, AtChunk, RunOf

LEMMA OnlyCommits ==
  ASSUME TypesInv, NEW w \in Worker, WorkerStep(w), ~PersistCommit(w)
  PROVE  UNCHANGED <<landed, completed, results>>
<1>1. CASE LaterStep(w)
  BY <1>1, LaterEnds DEF stageVars
<1>2. CASE ChunkStep(w)
  BY <1>2 DEF ChunkStep, AnswerThrows, AnswerSuperseded, AnswerBad,
     AnswerAccepted, PersistDuplicate, PersistSuperseded, Reread,
     StageFailedRead, StageFailedFlush, CompleteRead, GateLoad, GateFlush,
     HandlerThrows, stageVars
<1> QED BY <1>1, <1>2 DEF WorkerStep

\* A job without an owner is added by the handler that dispatches its stage.
LEMMA Adds ==
  ASSUME TypesInv, NEW w \in Worker, WorkerStep(w), NEW j \in JobId,
         ~Added(j), Added(j)'
  PROVE  Appears(w, j)
<1>1. jobs[j].state = "absent" /\ WellFormed(jobs[j])
  BY DEF Added, TypesInv, TypeInv, QueueInv, JobsInv
<1>2. jobs[j].owner # w
  BY <1>1 DEF WellFormed
<1> QED BY <1>1, <1>2, OthersJobs DEF Added

LEMMA FanWorker ==
  ASSUME TypesInv, WholeInv, NoDoubles, NEW w \in Worker, WorkerStep(w)
  PROVE  FanInv'
<1>0. landed' \in [Run -> SUBSET Chunk]
  BY WorkerTypes DEF TypesInv, TypeInv, StageTypeOK
<1>1. CASE WholeSentimentRun
  <2>1. PICK r \in Run : landed[r] = Chunk
    BY <1>1 DEF WholeSentimentRun
  <2>2. landed'[r] = Chunk
    BY <1>0, <2>1, HandlerGrows
  <2> QED BY <2>2 DEF FanInv, WholeSentimentRun
<1>2. CASE ~WholeSentimentRun
  <2>1. /\ status \notin Later /\ ~Added(TopicJob) /\ ~Added(RecJob)
        /\ \A v \in Worker : exec[v].pc \notin AfterFan
    BY <1>2 DEF WholeInv, FanInv, AtWork
  <2>2. status' \notin Later
    BY <2>1, WorkerWrites DEF Writes, Later, AfterFan, GatePc, TopicPc, RecPc
  <2>3. ~Added(TopicJob)' /\ ~Added(RecJob)'
    BY <2>1, Adds DEF Appears, AfterFan, GatePc, TopicPc
  <2>4. CASE exec'[w].pc \in AfterFan
    <3>1. exec[w].pc # "idle" /\ exec[w].job \notin {TopicJob, RecJob}
      BY <2>1, WorkerEnds DEF TypesInv, PlaceInv, Added
    <3>2. exec'[w].pc = "complete"
      BY <2>1, <2>4, <3>1, WorkerEnds DEF Flows, StageFlow, LaterFlow, AfterFan,
         GatePc, TopicPc, RecPc
    <3>3. exec[w].run \in Run
      BY <3>1, Busy
    <3>4. CASE PersistCommit(w) /\ completed[exec[w].run] + 1 = ExpectedChunks
      <4>1. landed'[exec[w].run] = Chunk
        BY <3>4, CommitIsCounted DEF WholeInv
      <4> QED BY <3>3, <4>1 DEF FanInv, WholeSentimentRun
    <3>5. CASE completed[exec[w].run] = ExpectedChunks
      <4>1. landed[exec[w].run] = Chunk
        BY <3>3, <3>5, RunsAreFinite DEF WholeInv, CountInv, TypesInv, TypeInv
      <4> QED BY <1>2, <3>3, <4>1 DEF WholeSentimentRun
    <3> QED BY <3>2, <3>4, <3>5, Completes
  <2>5. CASE exec'[w].pc \notin AfterFan
    <3>1. \A v \in Worker : exec'[v].pc \notin AfterFan
      BY <2>1, <2>5, WorkerEnds, EndsFrame
    <3> QED BY <2>2, <2>3, <3>1 DEF FanInv, AtWork
  <2> QED BY <2>4, <2>5
<1> QED BY <1>1, <1>2

LEMMA TopicWorker ==
  ASSUME TypesInv, WholeInv, NEW w \in Worker, WorkerStep(w)
  PROVE  TopicInv'
<1>1. CASE SomeTopicRunDone
  BY <1>1, HandlerGrows DEF TopicInv, SomeTopicRunDone
<1>2. CASE ~SomeTopicRunDone
  <2>1. /\ status \notin {"GENERATING_RECOMMENDATIONS", "COMPLETED"} /\ ~Added(RecJob)
        /\ \A v \in Worker : exec[v].pc \notin AfterTopics
    BY <1>2 DEF WholeInv, TopicInv, AtWork
  <2>2. status' \notin {"GENERATING_RECOMMENDATIONS", "COMPLETED"}
    BY <2>1, WorkerWrites DEF Writes, AfterTopics, RecPc
  <2>3. ~Added(RecJob)'
    BY <2>1, Adds DEF Appears, AfterTopics
  <2>4. CASE exec'[w].pc \in AfterTopics
    <3>1. exec[w].pc # "idle" /\ exec[w].job # RecJob
      BY <2>1, WorkerEnds DEF TypesInv, PlaceInv, Added
    <3>2. exec[w].pc = "topicPersist" /\ exec'[w].pc # "idle"
      BY <2>1, <2>4, <3>1, WorkerEnds DEF Flows, StageFlow, LaterFlow, AfterTopics, RecPc
    <3>3. exec[w].run \in Run
      BY <3>1, Busy
    <3>4. TopicPersist(w)
      <4>1. ~Finish(w) /\ ~Throw(w)
        BY <3>2, EndsAt
      <4>2. ~ChunkStep(w)
        BY <3>2, <4>1 DEF ChunkStep, AnswerThrows, AnswerSuperseded, AnswerBad,
           AnswerAccepted, PersistDuplicate, PersistSuperseded, PersistCommit,
           Reread, StageFailedRead, StageFailedFlush, CompleteRead, GateLoad,
           GateFlush, HandlerThrows, AtChunk, NothingStored
      <4> QED BY <3>2, <4>1, <4>2 DEF WorkerStep, LaterStep, GateUnconfigured,
           GateAdvance, TopicDispatchEmpty, TopicDispatchRun, TopicAdd,
           DispatchThrows, DispatchFailed, TopicAnswerThrows, TopicAnswerBad,
           TopicAnswerGood, TopicComplete, Labelled, RecDispatchRun, RecAdd,
           RecAnswerThrows, RecGenerated, RecPersist, RecComplete,
           CompletePipeline, QueueRefresh, LaterThrows, StageFailedRead, At,
           AtTopic, AtRec
    <3>5. topicStatus' = [topicStatus EXCEPT ![exec[w].run] = "COMPLETED"]
      BY <3>4 DEF TopicPersist
    <3>6. topicStatus'[exec[w].run] = "COMPLETED"
      BY <3>3, <3>5 DEF TypesInv, LaterTypes
    <3> QED BY <3>3, <3>6 DEF TopicInv, SomeTopicRunDone
  <2>5. CASE exec'[w].pc \notin AfterTopics
    <3>1. \A v \in Worker : exec'[v].pc \notin AfterTopics
      BY <2>1, <2>5, WorkerEnds, EndsFrame
    <3> QED BY <2>2, <2>3, <3>1 DEF TopicInv, AtWork
  <2> QED BY <2>4, <2>5
<1> QED BY <1>1, <1>2

LEMMA ActionWorker ==
  ASSUME TypesInv, WholeInv, NEW w \in Worker, WorkerStep(w)
  PROVE  ActionInv'
<1>1. CASE SomeActionsStored
  BY <1>1, HandlerGrows DEF ActionInv, SomeActionsStored
<1>2. CASE ~SomeActionsStored
  <2>1. /\ status # "COMPLETED"
        /\ \A v \in Worker : exec[v].pc \notin AfterActions
    BY <1>2 DEF WholeInv, ActionInv, AtWork
  <2>2. status' # "COMPLETED"
    BY <2>1, WorkerWrites DEF Writes, AfterActions
  <2>4. CASE exec'[w].pc \in AfterActions
    <3>2. exec[w].pc = "recPersist" /\ exec'[w].pc # "idle"
      BY <2>1, <2>4, WorkerEnds DEF Flows, StageFlow, LaterFlow, AfterActions
    <3>3. exec[w].run \in Run
      BY <3>2, Busy
    <3>4. RecPersist(w)
      <4>1. ~Finish(w) /\ ~Throw(w)
        BY <3>2, EndsAt
      <4>2. ~ChunkStep(w)
        BY <3>2, <4>1 DEF ChunkStep, AnswerThrows, AnswerSuperseded, AnswerBad,
           AnswerAccepted, PersistDuplicate, PersistSuperseded, PersistCommit,
           Reread, StageFailedRead, StageFailedFlush, CompleteRead, GateLoad,
           GateFlush, HandlerThrows, AtChunk, NothingStored
      <4> QED BY <3>2, <4>1, <4>2 DEF WorkerStep, LaterStep, GateUnconfigured,
           GateAdvance, TopicDispatchEmpty, TopicDispatchRun, TopicAdd,
           DispatchThrows, DispatchFailed, TopicAnswerThrows, TopicAnswerBad,
           TopicAnswerGood, TopicPersist, TopicComplete, Labelled,
           RecDispatchRun, RecAdd, RecAnswerThrows, RecGenerated, RecComplete,
           CompletePipeline, QueueRefresh, LaterThrows, RecThrow,
           StageFailedRead, At, AtTopic, AtRec
    <3>5. actionSets' = [actionSets EXCEPT ![exec[w].run] = @ + 1]
      BY <3>4 DEF RecPersist
    <3>6. actionSets \in [Run -> Nat] /\ actionSets[exec[w].run] \in Nat
      BY <3>3 DEF TypesInv, LaterTypes
    <3>7. actionSets'[exec[w].run] > 0
      BY <3>3, <3>5, <3>6
    <3> QED BY <3>3, <3>7 DEF ActionInv, SomeActionsStored
  <2>5. CASE exec'[w].pc \notin AfterActions
    <3>1. \A v \in Worker : exec'[v].pc \notin AfterActions
      BY <2>1, <2>5, WorkerEnds, EndsFrame
    <3> QED BY <2>2, <3>1 DEF ActionInv, AtWork
  <2> QED BY <2>4, <2>5
<1> QED BY <1>1, <1>2

LEMMA CountWorker ==
  ASSUME TypesInv, WholeInv, NoDoubles, NEW w \in Worker, WorkerStep(w)
  PROVE  CountInv'
<1>1. CASE PersistCommit(w)
  BY <1>1, CommitIsCounted DEF WholeInv
<1>2. CASE ~PersistCommit(w)
  BY <1>2, OnlyCommits DEF WholeInv, CountInv
<1> QED BY <1>1, <1>2

\* Without void answers, a commit stores the rows of the chunk that landed.
LEMMA SameWorker ==
  ASSUME TypesInv, SameInv, "void" \notin Faults, NEW w \in Worker, WorkerStep(w)
  PROVE  SameInv'
<1>1. CASE PersistCommit(w)
  <2>1. exec[w].pc = "persist"
    BY <1>1 DEF SameInv, PersistCommit, NothingStored, AtChunk
  <2>2. /\ results' = [results EXCEPT ![RunOf(w)] = @ \cup {ChunkOf(w)}]
        /\ landed' = [landed EXCEPT ![RunOf(w)] = @ \cup {ChunkOf(w)}]
    BY <1>1, <2>1 DEF PersistCommit
  <2>3. landed' = results'
    BY <2>2 DEF SameInv
  <2>4. Finish(w) \/ Goto(w, "complete")
    BY <1>1 DEF PersistCommit
  <2>5. exec'[w].pc # "persistVoid"
    BY <2>4, EndsAt
  <2>6. \A v \in Worker : exec'[v].pc # "persistVoid"
    BY <2>5, WorkerEnds, EndsFrame DEF SameInv
  <2> QED BY <2>3, <2>6 DEF SameInv
<1>2. CASE ~PersistCommit(w)
  <2>1. landed' = results'
    BY <1>2, OnlyCommits DEF SameInv
  <2>2. exec'[w].pc # "persistVoid"
    <3> SUFFICES ASSUME exec'[w].pc = "persistVoid" PROVE FALSE
      OBVIOUS
    <3>1. exec[w].pc = "answer" /\ exec[w].job \in Chunk
      BY WorkerEnds DEF Flows, StageFlow, LaterFlow
    <3>2. ~Finish(w) /\ ~Throw(w) /\ \A label : Goto(w, label) => label = "persistVoid"
      BY EndsAt
    <3>3. ~LaterStep(w)
      BY <3>1, <3>2 DEF LaterStep, GateUnconfigured, GateAdvance,
         TopicDispatchEmpty, TopicDispatchRun, TopicAdd, DispatchThrows,
         DispatchFailed, TopicAnswerThrows, TopicAnswerBad, TopicAnswerGood,
         TopicPersist, TopicComplete, Labelled, RecDispatchRun, RecAdd,
         RecAnswerThrows, RecGenerated, RecPersist, RecComplete,
         CompletePipeline, QueueRefresh, LaterThrows, StageFailedRead, At,
         AtTopic, AtRec
    <3>4. ChunkStep(w)
      BY <3>3 DEF WorkerStep
    <3>5. AnswerAccepted(w)
      BY <3>1, <3>2, <3>4 DEF ChunkStep, AnswerThrows, AnswerSuperseded, AnswerBad,
         PersistDuplicate, PersistSuperseded, PersistCommit, Reread,
         StageFailedRead, StageFailedFlush, CompleteRead, GateLoad, GateFlush,
         HandlerThrows, AtChunk, NothingStored
    <3>6. Goto(w, "persist")
      BY <3>5 DEF AnswerAccepted
    <3> QED BY <3>2, <3>6
  <2>3. \A v \in Worker : exec'[v].pc # "persistVoid"
    BY <2>2, WorkerEnds, EndsFrame DEF SameInv
  <2> QED BY <2>1, <2>3 DEF SameInv
<1> QED BY <1>1, <1>2

\* A busy slot keeps its lock, as long as no lock expires.
LEMMA OwnWorker ==
  ASSUME TypesInv, OwnInv, NEW w \in Worker, WorkerStep(w)
  PROVE  OwnInv'
<1> SUFFICES ASSUME NEW v \in Worker, exec'[v].pc # "idle"
             PROVE  jobs'[exec'[v].job].owner = v
  BY DEF OwnInv
<1>1. CASE v = w
  BY <1>1, GoesOn, WorkerEnds DEF OwnInv
<1>2. CASE v # w
  <2>1. exec'[v] = exec[v]
    BY <1>2, WorkerEnds, EndsFrame
  <2>2. exec[v].job \in JobId /\ jobs[exec[v].job].owner = v
    BY <2>1, Busy DEF OwnInv
  <2>3. jobs[exec[v].job].state = "active"
    BY <2>2 DEF TypesInv, TypeInv, QueueInv, JobsInv, WellFormed
  <2>4. jobs'[exec[v].job] = jobs[exec[v].job]
    BY <1>2, <2>2, <2>3, OthersJobs DEF Appears
  <2> QED BY <2>1, <2>2, <2>4
<1> QED BY <1>1, <1>2

\* A chunk's job is completed in the step that commits it, unless it was the last.
LEMMA DoneWorker ==
  ASSUME TypesInv, OwnInv, DoneInv, "ack" \notin Faults, NEW w \in Worker, WorkerStep(w)
  PROVE  DoneInv'
<1>0. /\ landed \in [Run -> SUBSET Chunk]
      /\ completed \in [Run -> 0..ExpectedChunks]
      /\ jobs \in [JobId -> JobRecord]
  BY DEF TypesInv, TypeInv, StageTypeOK, QueueInv, JobsInv
<1>1. \A j \in JobId : jobs[j].state = "completed" => jobs'[j].state = "completed"
  <2> SUFFICES ASSUME NEW j \in JobId, jobs[j].state = "completed"
               PROVE  jobs'[j].state = "completed"
    OBVIOUS
  <2>1. jobs[j].owner # w
    BY DEF TypesInv, TypeInv, QueueInv, JobsInv, WellFormed
  <2> QED BY <2>1, OthersJobs DEF Appears
<1>2. CASE ~PersistCommit(w)
  <2>1. UNCHANGED <<landed, completed>>
    BY <1>2, OnlyCommits
  <2> QED BY <1>0, <1>1, <2>1 DEF DoneInv
<1>3. CASE PersistCommit(w)
  <2>1. PICK r \in Run, c \in Chunk : r = exec[w].run /\ c = exec[w].job
    <3>1. exec[w].pc # "idle" /\ exec[w].job \in Chunk
      BY <1>3, WorkerEnds DEF PersistCommit, NothingStored, AtChunk
    <3> QED BY <3>1, Busy
  <2>2. /\ landed' = [landed EXCEPT ![r] = @ \cup {c}]
        /\ completed' = [completed EXCEPT ![r] = @ + 1]
        /\ completed[r] < ExpectedChunks
        /\ completed[r] + 1 = ExpectedChunks \/ Finish(w)
    BY <1>3, <2>1 DEF PersistCommit, Countable, RunOf, ChunkOf
  <2>3. /\ landed'[r] = landed[r] \cup {c} /\ completed'[r] = completed[r] + 1
        /\ \A q \in Run : q # r => landed'[q] = landed[q] /\ completed'[q] = completed[q]
    BY <1>0, <2>2
  <2>4. \A d \in landed[r] : jobs'[d].state = "completed"
    BY <1>0, <1>1, <2>2 DEF DoneInv
  <2>5. CASE completed[r] + 1 = ExpectedChunks
    <3>1. completed[r] + 1 \in Nat
      BY <1>0
    <3>2. ~(completed'[r] < ExpectedChunks)
      BY <2>3, <2>5, <3>1
    <3> QED BY <1>0, <1>1, <2>3, <3>2 DEF DoneInv
  <2>6. CASE Finish(w)
    <3>1. jobs[c].owner = w
      BY <1>3, <2>1, WorkerEnds DEF OwnInv
    <3>2. jobs' = [jobs EXCEPT ![c] = Completed(@)]
      BY <2>1, <2>6, <3>1 DEF Finish, Acknowledged
    <3>3. jobs'[c].state = "completed"
      BY <1>0, <3>2 DEF Completed, JobRecord
    <3> QED BY <1>0, <1>1, <2>3, <2>4, <3>3 DEF DoneInv
  <2> QED BY <2>2, <2>5, <2>6
<1> QED BY <1>2, <1>3

LEMMA FreshWorker ==
  ASSUME TypesInv, FreshInv, NEW w \in Worker, WorkerStep(w)
  PROVE  FreshInv'
<1>1. ASSUME "void" \notin Faults PROVE SameInv'
  BY <1>1, SameWorker DEF FreshInv
<1>2. ASSUME Exclusive PROVE OwnInv' /\ DoneInv'
  BY <1>2, OwnWorker, DoneWorker DEF FreshInv, Exclusive
<1> QED BY <1>1, <1>2 DEF FreshInv

\* The other steps reach no stage: the runs stay, no slot is moved on, no job of
\* a later stage is added.
Calm ==
  /\ UNCHANGED <<landed, completed, results, topicStatus, actionSets>>
  /\ status' = status \/ status' \notin Later
  /\ \A j \in {TopicJob, RecJob} : Added(j)' => Added(j)
  /\ \A w \in Worker : exec'[w] = exec[w] \/ exec'[w].pc \in {"idle", "answer"}

LEMMA CalmKeeps ==
  ASSUME WholeInv, Calm
  PROVE  /\ FanInv' /\ TopicInv' /\ ActionInv' /\ CountInv'
         /\ SameInv => SameInv'
<1>1. FanInv'
  BY DEF WholeInv, Calm, FanInv, AtWork, WholeSentimentRun, AfterFan, GatePc, TopicPc,
     RecPc
<1>2. TopicInv'
  BY DEF WholeInv, Calm, TopicInv, AtWork, SomeTopicRunDone, AfterTopics, RecPc, Later
<1>3. ActionInv'
  BY DEF WholeInv, Calm, ActionInv, AtWork, SomeActionsStored, AfterActions, Later
<1>4. CountInv' /\ (SameInv => SameInv')
  BY DEF WholeInv, Calm, CountInv, SameInv
<1> QED BY <1>1, <1>2, <1>3, <1>4

\* A request adds jobs for chunks only.
LEMMA CallerCalm ==
  ASSUME TypesInv, NEW h \in Caller,
         ConfirmRead(h) \/ CancelRead(h) \/ CallerProgress(h), UNCHANGED laterVars
  PROVE  /\ Calm
         /\ \A j \in JobId : /\ jobs'[j].owner = jobs[j].owner
                             /\ jobs[j].state = "absent" \/ jobs'[j] = jobs[j]
<1>1. \A j \in JobId :
        \/ jobs'[j] = jobs[j]
        \/ j \in Chunk /\ jobs[j].state = "absent" /\ jobs'[j].owner = jobs[j].owner
  BY CallerJobs, Enqueued DEF TypesInv, TypeInv, QueueInv
<1>2. \A j \in {TopicJob, RecJob} : Added(j)' => Added(j)
  BY <1>1 DEF Added
<1>3. status' = status \/ status' \notin Later
  BY DEF CallerProgress, ConfirmRead, CancelRead, ConfirmFlush, DispatchEmpty,
     DispatchRun, CancelFlush, RequestThrows, AddChunk, AddRejected, Later
<1>4. UNCHANGED <<exec, landed, completed, results, topicStatus, actionSets>>
  BY CallerJobs DEF runVars, laterVars, topicVars, recVars
<1> QED BY <1>1, <1>2, <1>3, <1>4 DEF Calm

LEMMA CallerWhole ==
  ASSUME TypesInv, WholeInv, NEW h \in Caller,
         ConfirmRead(h) \/ CancelRead(h) \/ CallerProgress(h), UNCHANGED laterVars
  PROVE  WholeInv'
<1>0. Calm /\ UNCHANGED exec
  BY CallerCalm, CallerJobs
<1>1. ASSUME OwnInv PROVE OwnInv'
  BY <1>0, <1>1, CallerCalm, Busy DEF OwnInv
<1>2. ASSUME DoneInv PROVE DoneInv'
  <2>1. \A r \in Run : landed[r] \subseteq JobId
    BY DEF TypesInv, TypeInv, StageTypeOK
  <2>2. \A j \in JobId : jobs[j].state = "completed" => jobs'[j].state = "completed"
    BY CallerCalm
  <2> QED BY <1>0, <1>2, <2>1, <2>2 DEF DoneInv, Calm
<1> QED BY <1>0, <1>1, <1>2, CalmKeeps DEF WholeInv, FreshInv

LEMMA QueueCalm ==
  ASSUME TypesInv, QueueSteps
  PROVE  Calm
<1>1. /\ UNCHANGED <<landed, completed, results, topicStatus, actionSets>>
      /\ status' = status \/ status' \notin Later
  BY DEF QueueSteps, PipelineTake, PipelineOnFailed, PipelineStall, PipelineCrash,
     TakeJob, OnFailedRead, OnFailedFlush, OnFailedLost, StallJob, Crash,
     laterVars, topicVars, recVars, stageVars, runVars, Later
<1> QED BY <1>1, QueueStepsMove DEF Calm, Added

\* While locks last, a job is taken from nobody.
LEMMA QueueOwn ==
  ASSUME TypesInv, OwnInv, "stall" \notin Faults, QueueSteps
  PROVE  OwnInv'
<1>0. /\ jobs \in [JobId -> JobRecord]
      /\ exec \in [Worker -> ExecRecord(PipelinePc)]
      /\ \A j \in JobId : WellFormed(jobs[j])
      /\ \A v \in Worker : exec[v].pc # "idle" => exec[v].job \in JobId
  BY DEF TypesInv, TypeInv, QueueInv, JobsInv, ExecInv
<1>1. ASSUME NEW j \in JobId, NEW w \in Worker, Take(w, j) PROVE OwnInv'
  <2> SUFFICES ASSUME NEW v \in Worker, exec'[v].pc # "idle"
               PROVE  jobs'[exec'[v].job].owner = v
    BY DEF OwnInv
  <2>1. jobs'[j].owner = w /\ \A k \in JobId \ {j} : jobs'[k] = jobs[k]
    BY <1>0, <1>1 DEF Take, JobRecord
  <2>2. exec'[w].job = j /\ \A u \in Worker \ {w} : exec'[u] = exec[u]
    BY <1>0, <1>1 DEF Take
  <2>3. jobs[j].owner = NoWorker
    BY <1>0, <1>1 DEF Take, WellFormed
  <2>4. CASE v = w
    BY <2>1, <2>2, <2>4
  <2>5. CASE v # w
    <3>1. exec'[v] = exec[v] /\ jobs[exec[v].job].owner = v /\ exec[v].job \in JobId
      BY <1>0, <2>2, <2>5 DEF OwnInv
    <3>2. exec[v].job # j
      BY <2>3, <3>1
    <3> QED BY <2>1, <3>1, <3>2
  <2> QED BY <2>4, <2>5
<1>2. ASSUME NEW j \in JobId, Stall(j) PROVE OwnInv'
  <2>1. jobs[j].owner = NoWorker /\ UNCHANGED exec
    BY <1>2 DEF Stall
  <2>2. \A k \in JobId \ {j} : jobs'[k] = jobs[k]
    BY <1>0, <1>2 DEF Stall
  <2> QED BY <1>0, <2>1, <2>2 DEF OwnInv
<1>3. ASSUME NEW j \in JobId,
             \/ OnFailedRead(j, StageStatus(j)) \/ OnFailedFlush(j) \/ OnFailedLost(j)
      PROVE  OwnInv'
  BY <1>3 DEF OnFailedRead, OnFailedFlush, OnFailedLost, OwnInv
<1>4. CASE QueueCrash
  BY <1>4 DEF QueueCrash, Idle, OwnInv
<1> QED BY <1>1, <1>2, <1>3, <1>4 DEF QueueSteps, PipelineTake, PipelineOnFailed,
   PipelineStall, PipelineCrash, TakeJob, StallJob, Crash

LEMMA QueueDone ==
  ASSUME TypesInv, DoneInv, QueueSteps
  PROVE  DoneInv'
<1>0. jobs \in [JobId -> JobRecord] /\ \A r \in Run : landed[r] \subseteq JobId
  BY DEF TypesInv, TypeInv, QueueInv, JobsInv, StageTypeOK
<1>1. ASSUME NEW j \in JobId, NEW w \in Worker, Take(w, j)
      PROVE  \A k \in JobId : jobs[k].state = "completed" => jobs'[k].state = "completed"
  BY <1>0, <1>1 DEF Take
<1>2. ASSUME NEW j \in JobId, Stall(j)
      PROVE  \A k \in JobId : jobs[k].state = "completed" => jobs'[k].state = "completed"
  <2>1. jobs[j].state = "active" /\ \A k \in JobId \ {j} : jobs'[k] = jobs[k]
    BY <1>0, <1>2 DEF Stall
  <2> QED BY <2>1
<1>3. ASSUME NEW j \in JobId,
             \/ OnFailedRead(j, StageStatus(j)) \/ OnFailedFlush(j) \/ OnFailedLost(j)
      PROVE  UNCHANGED jobs
  BY <1>3 DEF OnFailedRead, OnFailedFlush, OnFailedLost
<1>4. ASSUME QueueCrash
      PROVE  \A k \in JobId : jobs[k].state = "completed" => jobs'[k].state = "completed"
  BY <1>0, <1>4 DEF QueueCrash, Orphaned, JobRecord
<1>5. \A k \in JobId : jobs[k].state = "completed" => jobs'[k].state = "completed"
  BY <1>1, <1>2, <1>3, <1>4 DEF QueueSteps, PipelineTake, PipelineOnFailed,
     PipelineStall, PipelineCrash, TakeJob, StallJob, Crash
<1> QED BY <1>0, <1>5, QueueCalm DEF DoneInv, Calm

LEMMA QueueWhole ==
  ASSUME TypesInv, WholeInv, QueueSteps
  PROVE  WholeInv'
<1>1. ASSUME Exclusive PROVE OwnInv' /\ DoneInv'
  BY <1>1, QueueOwn, QueueDone DEF WholeInv, FreshInv, Exclusive
<1> QED BY <1>1, QueueCalm, CalmKeeps DEF WholeInv, FreshInv

LEMMA WholeInit == PipelineInit => WholeInv
<1> SUFFICES ASSUME PipelineInit PROVE WholeInv
  OBVIOUS
<1>0. /\ status = "AWAITING_CONFIRMATION"
      /\ completed = [r \in Run |-> 0] /\ results = [r \in Run |-> {}]
      /\ landed = [r \in Run |-> {}]
      /\ jobs = [j \in JobId |-> NeverAdded] /\ exec = [w \in Worker |-> Idle]
  BY DEF PipelineInit, Init, StageInit, QueueInit
<1>1. \A j \in JobId : ~Added(j)
  BY <1>0 DEF Added, NeverAdded
<1>2. \A w \in Worker : exec[w].pc = "idle"
  BY <1>0 DEF Idle
<1>3. FanInv /\ TopicInv /\ ActionInv
  BY <1>0, <1>1, <1>2 DEF FanInv, TopicInv, ActionInv, Later, AtWork, AfterFan, GatePc,
     TopicPc, RecPc, AfterTopics, AfterActions
<1>4. CountInv
  BY <1>0, FS_EmptySet DEF CountInv
<1>5. FreshInv
  BY <1>0, <1>2 DEF FreshInv, SameInv, OwnInv, DoneInv
<1> QED BY <1>3, <1>4, <1>5 DEF WholeInv

LEMMA WholeStep ==
  ASSUME TypesInv, WholeInv, NoDoubles, [PipelineNext]_pipelineVars
  PROVE  WholeInv'
<1>1. ASSUME NEW w \in Worker, WorkerStep(w) PROVE WholeInv'
  BY <1>1, FanWorker, TopicWorker, ActionWorker, CountWorker, FreshWorker DEF WholeInv
<1>2. CASE RecMarkRead \/ RecMarkFlush \/ UNCHANGED pipelineVars
  <2>1. Calm /\ UNCHANGED <<jobs, exec>>
    BY <1>2 DEF RecMarkRead, RecMarkFlush, pipelineVars, vars, queueVars, stageVars,
       laterVars, topicVars, recVars, Calm, Added
  <2>2. (OwnInv => OwnInv') /\ (DoneInv => DoneInv')
    BY <2>1 DEF OwnInv, DoneInv, Calm
  <2> QED BY <2>1, <2>2, CalmKeeps DEF WholeInv, FreshInv
<1> QED BY <1>1, <1>2, CallerWhole, QueueWhole DEF PipelineNext, QueueSteps

\* A pipeline that shows a later stage has its earlier stages behind it, for any
\* chunks, slots, retries, crashes and requests.  Where a lock can expire under
\* a handler or an acknowledgement be lost, every stored answer must hold a valid
\* item: a chunk without rows that is run twice is counted twice.
THEOREM NoStageSkippedCorrect ==
  ASSUME NoDoubles
  PROVE  PipelineSpec => []NoStageSkipped
<1>1. PipelineInit => TypesInv /\ WholeInv
  BY TypesInit, WholeInit
<1>2. TypesInv /\ WholeInv /\ [PipelineNext]_pipelineVars => TypesInv' /\ WholeInv'
  BY TypesStep, WholeStep
<1>3. WholeInv => NoStageSkipped
  BY DEF WholeInv, FanInv, TopicInv, ActionInv, NoStageSkipped, Later
<1> QED BY <1>1, <1>2, <1>3, PTL DEF PipelineSpec

-----------------------------------------------------------------------------
(* A pipeline that has ended stays as it is.                               *)

Reading ==
  {"failFlush", "gateLoad", "gateFlush", "gated", "topicDispatch", "topicAdd",
   "dispatchFailed", "labelling", "recDispatch", "recAdd", "completing"}

\* A handler starts to write only after a look at a pipeline that has not ended.
LEMMA EndedIsRead ==
  ASSUME TypesInv, NEW w \in Worker, WorkerStep(w), status \in Terminal,
         exec[w].pc \notin Reading
  PROVE  exec'[w].pc \notin Reading
<1>0. Terminal \cap {"SENTIMENT_ANALYSIS", "TOPIC_MODELING",
                     "GENERATING_RECOMMENDATIONS"} = {}
  BY DEF Terminal
<1>1. CASE ChunkStep(w)
  BY <1>0, <1>1, EndsAt DEF ChunkStep, AnswerThrows, AnswerSuperseded, AnswerBad,
     AnswerAccepted, PersistDuplicate, PersistSuperseded, PersistCommit,
     Reread, StageFailedRead, StageFailedFlush, CompleteRead, GateLoad,
     GateFlush, HandlerThrows, AtChunk, Reading
<1>2. CASE LaterStep(w)
  BY <1>0, <1>2, EndsAt DEF LaterStep, GateUnconfigured, GateAdvance,
     TopicDispatchEmpty, TopicDispatchRun, TopicAdd, DispatchThrows,
     DispatchFailed, TopicAnswerThrows, TopicAnswerBad, TopicAnswerGood,
     TopicPersist, TopicComplete, Labelled, RecDispatchRun, RecAdd,
     RecAnswerThrows, RecGenerated, RecPersist, RecComplete, CompletePipeline,
     QueueRefresh, LaterThrows, RecThrow, StageFailedRead, At, AtTopic, AtRec,
     Reading
<1> QED BY <1>1, <1>2 DEF WorkerStep

\* A handler starts onFailed calls, and continues none.
LEMMA WorkerCalls ==
  ASSUME TypesInv, NEW w \in Worker, WorkerStep(w), NEW j \in JobId,
         failCall[j] # "seen"
  PROVE  failCall'[j] # "seen"
<1>1. failCall' = failCall \/ failCall' = [failCall EXCEPT ![exec[w].job] = "called"]
  BY WorkerEnds DEF SlotStepEnds, Goto, GotoRun, Finish, Throw, AddAndFinish
<1>2. failCall \in [JobId -> FailCallState]
  BY DEF TypesInv, TypeInv, QueueInv, FailCallInv
<1> QED BY <1>1, <1>2

LEMMA SettledStep ==
  ASSUME TypesInv, [PipelineNext]_pipelineVars
  PROVE  SettledStays
<1> SUFFICES ASSUME Settled PROVE Settled' /\ status' = status
  BY DEF SettledStays
<1>0. /\ status \in Terminal
      /\ \A w \in Worker : exec[w].pc \notin Reading
      /\ \A j \in JobId : failCall[j] # "seen"
      /\ \A h \in Caller : caller[h].pc \notin {"confirming", "dispatching", "cancelling"}
  BY DEF Settled, ReadBefore, Reading
<1>a. Terminal \cap {"AWAITING_CONFIRMATION", "SENTIMENT_ANALYSIS", "TOPIC_MODELING",
                     "GENERATING_RECOMMENDATIONS"} = {}
  BY DEF Terminal
<1>b. /\ caller \in [Caller -> CallerRecord]
      /\ failCall \in [JobId -> FailCallState]
  BY DEF TypesInv, TypeInv, StageTypeOK, QueueInv, FailCallInv

<1>1. ASSUME NEW h \in Caller, ConfirmRead(h) \/ CancelRead(h) \/ CallerProgress(h),
             UNCHANGED laterVars
      PROVE  Settled' /\ status' = status
  <2>1. \E c \in Chunk : AddChunk(h, c) \/ AddRejected(h, c)
    BY <1>0, <1>1, <1>a DEF CallerProgress, ConfirmRead, CancelRead, ConfirmFlush,
       DispatchEmpty, DispatchRun, CancelFlush, RequestThrows
  <2>2. UNCHANGED <<status, exec, failCall>>
    BY <2>1 DEF AddChunk, AddRejected, queueVars
  <2>3. \A k \in Caller : caller'[k] = caller[k] \/ caller'[k].pc \in {"done", "adding"}
    <3>1. PICK c \in Chunk : ChunkHandled(h, c)
      BY <2>1 DEF AddChunk, AddRejected
    <3> DEFINE left  == caller[h].todo \ {c}
               label == IF left = {} THEN "done" ELSE "adding"
    <3>2. caller' = [caller EXCEPT ![h] = [@ EXCEPT !.todo = left, !.pc = label]]
      BY <3>1 DEF ChunkHandled
    <3>5. label \in {"done", "adding"}
      OBVIOUS
    <3> HIDE DEF left, label
    <3>3. \A k \in Caller \ {h} : caller'[k] = caller[k]
      BY <3>2, <1>b
    <3>4. caller'[h].pc = label
      BY <3>2, <1>b DEF CallerRecord
    <3> QED BY <3>3, <3>4, <3>5
  <2> QED BY <1>0, <2>2, <2>3 DEF Settled, ReadBefore, Reading
<1>2. ASSUME NEW w \in Worker, WorkerStep(w)
      PROVE  Settled' /\ status' = status
  <2>1. status' = status
    BY <1>0, <1>2, WorkerWrites DEF Writes, Reading
  <2>2. exec'[w].pc \notin Reading /\ \A v \in Worker \ {w} : exec'[v] = exec[v]
    BY <1>0, <1>2, EndedIsRead, WorkerEnds, EndsFrame
  <2>3. \A j \in JobId : failCall'[j] # "seen"
    BY <1>0, <1>2, WorkerCalls
  <2>4. caller' = caller
    <3>1. ASSUME LaterStep(w) PROVE caller' = caller
      BY <3>1, LaterEnds DEF stageVars
    <3>2. ASSUME ChunkStep(w) PROVE caller' = caller
      BY <3>2 DEF ChunkStep, AnswerThrows, AnswerSuperseded, AnswerBad,
         AnswerAccepted, PersistDuplicate, PersistSuperseded, PersistCommit,
         Reread, StageFailedRead, StageFailedFlush, CompleteRead, GateLoad,
         GateFlush, HandlerThrows, stageVars
    <3> QED BY <1>2, <3>1, <3>2 DEF WorkerStep
  <2> QED BY <1>0, <2>1, <2>2, <2>3, <2>4 DEF Settled, ReadBefore, Reading
<1>3. ASSUME QueueSteps
      PROVE  Settled' /\ status' = status
  <2>1. \A w \in Worker : exec'[w].pc \notin Reading
    BY <1>0, <1>3, QueueStepsMove DEF Reading
  <2>2. CASE PipelineCrash
    <3>1. status' = status /\ \A h \in Caller : caller'[h].pc \in {"idle", "done"}
      BY <1>b, <2>2 DEF PipelineCrash, Crash, CallerRecord
    <3>2. \A j \in JobId : failCall'[j] # "seen"
      BY <2>2 DEF PipelineCrash, Crash, QueueCrash
    <3> QED BY <1>0, <2>1, <3>1, <3>2 DEF Settled, ReadBefore, Reading
  <2>3. ASSUME NEW j \in JobId, PipelineTake(j) \/ PipelineOnFailed(j) \/ PipelineStall(j)
        PROVE  Settled' /\ status' = status
    <3>1. StageStatus(j) \notin Terminal
      BY DEF StageStatus, Terminal
    <3>2. status' = status /\ caller' = caller
      BY <1>0, <2>3 DEF PipelineTake, PipelineOnFailed, PipelineStall, TakeJob,
         OnFailedRead, OnFailedFlush, OnFailedLost, StallJob, stageVars
    <3>3. \/ failCall' = failCall
          \/ \E s \in {"called", "done"} : failCall' = [failCall EXCEPT ![j] = s]
      BY <1>0, <2>3, <3>1 DEF PipelineTake, PipelineOnFailed, PipelineStall, TakeJob,
         Take, OnFailedRead, OnFailedFlush, OnFailedLost, StallJob, Stall
    <3>4. \A k \in JobId : failCall'[k] # "seen"
      BY <1>0, <1>b, <3>3
    <3> QED BY <1>0, <2>1, <3>2, <3>4 DEF Settled, ReadBefore, Reading
  <2> QED BY <1>3, <2>2, <2>3 DEF QueueSteps
<1>4. ASSUME RecMarkRead \/ RecMarkFlush \/ UNCHANGED pipelineVars
      PROVE  Settled' /\ status' = status
  BY <1>0, <1>4 DEF RecMarkRead, RecMarkFlush, pipelineVars, vars, queueVars, stageVars,
     Settled, ReadBefore, Reading
<1> QED BY <1>1, <1>2, <1>3, <1>4 DEF PipelineNext, QueueSteps, Settled, ReadBefore,
   Reading

\* COMPLETED, FAILED and CANCELLED are final once nobody is at work that read the
\* pipeline before it ended, whatever jobs wait, run, stall, fail or are retried
\* then, whichever faults there are and however often it was confirmed.
THEOREM SettledIsFinal == PipelineSpec => [][SettledStays]_pipelineVars
<1>1. TypesInv /\ [PipelineNext]_pipelineVars => [SettledStays]_pipelineVars
  BY SettledStep
<1> QED BY <1>1, TypesInit, TypesStep, PTL DEF PipelineSpec

-----------------------------------------------------------------------------
(* What a handler's step does to the runs of the later stages.             *)

Dispatches(w) ==
  /\ \/ /\ exec[w].pc = "topicDispatch" /\ exec'[w].pc = "topicAdd"
        /\ ntopics' = ntopics + 1 /\ exec'[w].run = ntopics + 1
     \/ ntopics' = ntopics /\ exec'[w].pc # "topicAdd"
  /\ \/ /\ exec[w].pc = "recDispatch" /\ exec'[w].pc = "recAdd"
        /\ nrecs' = nrecs + 1 /\ exec'[w].run = nrecs + 1
     \/ nrecs' = nrecs /\ exec'[w].pc # "recAdd"

Stores(w) ==
  /\ \/ /\ exec[w].pc = "topicPersist" /\ exec'[w].pc = "topicComplete"
        /\ topicSets' = [topicSets EXCEPT ![exec[w].run] = @ + 1]
        /\ topicStatus' = [topicStatus EXCEPT ![exec[w].run] = "COMPLETED"]
     \/ UNCHANGED <<topicSets, topicStatus>>
  /\ \/ /\ exec[w].pc = "recPersist" /\ exec'[w].pc = "recComplete"
        /\ actionSets' = [actionSets EXCEPT ![exec[w].run] = @ + 1]
     \/ UNCHANGED actionSets

\* Which writes of the status follow from where the handler is now, and which
\* status it has read.
Looks(w) ==
  /\ exec'[w].pc = "gateLoad" => status = "SENTIMENT_ANALYSIS"
  /\ exec'[w].pc = "labelling" => status = "TOPIC_MODELING"
  /\ exec'[w].pc = "gated" => status' = "SENTIMENT_GATE"
  /\ exec'[w].pc = "topicDispatch" => status' = "TOPIC_MODELING"
  /\ exec'[w].pc = "recDispatch" => status' = "GENERATING_RECOMMENDATIONS"

LEMMA WorkerDispatches ==
  ASSUME TypesInv, NEW w \in Worker, WorkerStep(w)
  PROVE  Dispatches(w) /\ Stores(w)
<1>1. CASE ChunkStep(w) /\ UNCHANGED laterVars
  <2>1. exec[w].pc \in StagePc
    BY <1>1 DEF ChunkStep, AtChunk, NothingStored, AnswerThrows, AnswerSuperseded,
       AnswerBad, AnswerAccepted, PersistDuplicate, PersistSuperseded,
       PersistCommit, Reread, StageFailedRead, StageFailedFlush, CompleteRead,
       GateLoad, GateFlush, HandlerThrows, StagePc
  <2>2. exec'[w].pc \notin {"topicAdd", "recAdd"}
    BY <2>1, WorkerEnds DEF StagePc, Flows, StageFlow, LaterFlow
  <2> QED BY <1>1, <2>2 DEF Dispatches, Stores, laterVars, topicVars, recVars
<1>2. CASE TopicDispatchRun(w) \/ RecDispatchRun(w)
  BY <1>2, EndsAt DEF TopicDispatchRun, RecDispatchRun, At, Dispatches, Stores,
     topicVars, recVars
<1>3. CASE TopicPersist(w) \/ RecPersist(w)
  BY <1>3, EndsAt DEF TopicPersist, RecPersist, At, Dispatches, Stores, topicVars,
     recVars
<1>4. CASE /\ LaterStep(w)
           /\ ~TopicDispatchRun(w) /\ ~RecDispatchRun(w)
           /\ ~TopicPersist(w) /\ ~RecPersist(w)
  <2>1. UNCHANGED <<ntopics, topicSets, topicStatus, nrecs, actionSets>>
    BY <1>4 DEF LaterStep, GateUnconfigured, GateAdvance, TopicDispatchEmpty,
       TopicAdd, DispatchThrows, DispatchFailed, TopicAnswerThrows, TopicAnswerBad,
       TopicAnswerGood, TopicComplete, Labelled, RecAdd, RecAnswerThrows,
       RecGenerated, RecComplete, CompletePipeline, QueueRefresh, LaterThrows,
       RecThrow, StageFailedRead, laterVars, topicVars, recVars
  <2>2. exec'[w].pc \in {"idle", "dispatchFailed", "recDispatch"}
          \/ ~(Finish(w) \/ Throw(w) \/ Goto(w, "dispatchFailed") \/ Goto(w, "recDispatch"))
    BY EndsAt
  <2>3. exec'[w].pc \notin {"topicAdd", "recAdd"}
    <3> SUFFICES ASSUME exec'[w].pc \in {"topicAdd", "recAdd"} PROVE FALSE
      OBVIOUS
    <3>1. exec[w].pc \in {"topicDispatch", "recDispatch"}
      BY WorkerEnds DEF Flows, StageFlow, LaterFlow
    <3> QED BY <1>4, <2>2, <3>1 DEF LaterStep, GateUnconfigured, GateAdvance,
       TopicDispatchEmpty, TopicAdd, DispatchThrows, DispatchFailed,
       TopicAnswerThrows, TopicAnswerBad, TopicAnswerGood, TopicComplete,
       Labelled, RecAdd, RecAnswerThrows, RecGenerated, RecComplete,
       CompletePipeline, QueueRefresh, LaterThrows, StageFailedRead, At, AtTopic,
       AtRec
  <2> QED BY <2>1, <2>3 DEF Dispatches, Stores
<1> QED BY <1>1, <1>2, <1>3, <1>4 DEF WorkerStep

LEMMA WorkerLooks ==
  ASSUME TypesInv, NEW w \in Worker, WorkerStep(w)
  PROVE  Looks(w) /\ UNCHANGED <<nruns, caller>>
<1>1. CASE ChunkStep(w)
  <2>1. UNCHANGED <<nruns, caller>>
    BY <1>1 DEF ChunkStep, AnswerThrows, AnswerSuperseded, AnswerBad,
       AnswerAccepted, PersistDuplicate, PersistSuperseded, PersistCommit,
       Reread, StageFailedRead, StageFailedFlush, CompleteRead, GateLoad,
       GateFlush, HandlerThrows, stageVars
  <2>2. exec[w].pc \in StagePc \ {"gated"}
    BY <1>1 DEF ChunkStep, AtChunk, NothingStored, AnswerThrows, AnswerSuperseded,
       AnswerBad, AnswerAccepted, PersistDuplicate, PersistSuperseded,
       PersistCommit, Reread, StageFailedRead, StageFailedFlush, CompleteRead,
       GateLoad, GateFlush, HandlerThrows, StagePc
  <2>3. exec'[w].pc \notin {"labelling", "topicDispatch", "recDispatch"}
    BY <2>2, WorkerEnds DEF StagePc, Flows, StageFlow, LaterFlow
  <2>4. Finish(w) \/ Throw(w) => exec'[w].pc = "idle"
    BY EndsAt
  <2>5. ASSUME exec'[w].pc = "gateLoad" PROVE status = "SENTIMENT_ANALYSIS"
    <3>1. exec[w].pc = "complete"
      BY <2>5, WorkerEnds DEF Flows, StageFlow, LaterFlow
    <3> QED BY <1>1, <2>4, <2>5, <3>1 DEF ChunkStep, AtChunk, NothingStored, AnswerThrows,
       AnswerSuperseded, AnswerBad, AnswerAccepted, PersistDuplicate,
       PersistSuperseded, PersistCommit, Reread, StageFailedRead,
       StageFailedFlush, CompleteRead, GateLoad, GateFlush, HandlerThrows
  <2>6. ASSUME exec'[w].pc = "gated" PROVE status' = "SENTIMENT_GATE"
    <3>1. exec[w].pc = "gateFlush"
      BY <2>6, WorkerEnds DEF Flows, StageFlow, LaterFlow
    <3> QED BY <1>1, <2>4, <2>6, <3>1 DEF ChunkStep, AtChunk, NothingStored, AnswerThrows,
       AnswerSuperseded, AnswerBad, AnswerAccepted, PersistDuplicate,
       PersistSuperseded, PersistCommit, Reread, StageFailedRead,
       StageFailedFlush, CompleteRead, GateLoad, GateFlush, HandlerThrows
  <2> QED BY <2>1, <2>3, <2>5, <2>6 DEF Looks
<1>2. CASE LaterStep(w)
  <2>1. UNCHANGED <<nruns, caller>>
    BY <1>2, LaterEnds DEF stageVars
  <2> QED BY <1>2, <2>1, EndsAt DEF LaterStep, GateUnconfigured, GateAdvance,
     TopicDispatchEmpty, TopicDispatchRun, TopicAdd, DispatchThrows,
     DispatchFailed, TopicAnswerThrows, TopicAnswerBad, TopicAnswerGood,
     TopicPersist, TopicComplete, Labelled, RecDispatchRun, RecAdd,
     RecAnswerThrows, RecGenerated, RecPersist, RecComplete, CompletePipeline,
     QueueRefresh, LaterThrows, RecThrow, StageFailedRead, At, AtTopic, AtRec,
     Looks
<1> QED BY <1>1, <1>2 DEF WorkerStep

-----------------------------------------------------------------------------
(* A pipeline that is confirmed once.                                      *)

\* The run of a job that a slot has yet to store rows for.
RunInv ==
  \A w \in Worker : exec[w].pc \in {"answer", "topicPersist", "recPersist"} =>
    exec[w].run = jobs[exec[w].job].run

\* One request at most confirms the pipeline, and no lock is lost.
OneConfirmation == Exclusive /\ \A h, k \in Confirmer : h = k

\* The pipeline is dispatched once.
OnceInv ==
  /\ \A h \in Caller : caller[h].pc \in {"confirming", "dispatching"} => h \in Confirmer
  /\ \A h \in Confirmer :
       caller[h].pc \in {"idle", "confirming", "dispatching"} => nruns = 0
  /\ nruns <= 1
  /\ nruns = 0 =>
       /\ ntopics = 0
       /\ status \in {"AWAITING_CONFIRMATION", "SENTIMENT_ANALYSIS"} \cup Terminal
  /\ \A r \in Run : landed[r] # {} => r = 1 /\ nruns = 1

\* Only the job of the chunk that landed last may be run again.
LastInv ==
  WholeSentimentRun => \A c, d \in Chunk :
    jobs[c].state # "completed" /\ jobs[d].state # "completed" => c = d

\* Each later stage has at most one run.
OneRunInv ==
  /\ ntopics <= 1 /\ nrecs <= 1
  /\ Added(TopicJob) => ntopics = 1 /\ jobs[TopicJob].run = 1
  /\ Added(RecJob) => nrecs = 1 /\ jobs[RecJob].run = 1
  /\ ~Added(TopicJob) => nrecs = 0 /\ ~Added(RecJob)
  /\ \A r \in Run : topicStatus[r] = "COMPLETED" => r = 1 /\ ntopics = 1
  /\ \A r \in Run : actionSets[r] > 0 => r = 1 /\ nrecs = 1

\* A pipeline before a stage has nothing of it.
StatusPhase ==
  /\ status \in {"AWAITING_CONFIRMATION", "SENTIMENT_ANALYSIS"} =>
       ntopics = 0 /\ ~Added(TopicJob)
  /\ status \in {"AWAITING_CONFIRMATION", "SENTIMENT_ANALYSIS", "SENTIMENT_GATE",
                 "TOPIC_MODELING"} =>
       nrecs = 0 /\ ~Added(RecJob)

\* The handler that moves the pipeline on, the only one that does, finds it where
\* it left it, unless it has ended; and the next stage untouched.
Still(s) == status \in {s} \cup Terminal

SlotPhase(w) ==
  /\ exec[w].pc \in GatePc \ {"complete"} => ~Added(TopicJob)
  /\ exec[w].pc \in {"gateLoad", "gateFlush"} =>
       Still("SENTIMENT_ANALYSIS") /\ ntopics = 0
  /\ exec[w].pc = "gated" => Still("SENTIMENT_GATE") /\ ntopics = 0
  /\ exec[w].pc = "topicDispatch" => Still("TOPIC_MODELING") /\ ntopics = 0
  /\ exec[w].pc = "topicAdd" =>
       Still("TOPIC_MODELING") /\ ntopics = 1 /\ exec[w].run = 1
  /\ exec[w].pc \in {"labelling", "recDispatch", "recAdd"} => ~Added(RecJob)
  /\ exec[w].pc = "labelling" => Still("TOPIC_MODELING") /\ nrecs = 0
  /\ exec[w].pc = "recDispatch" => Still("GENERATING_RECOMMENDATIONS") /\ nrecs = 0
  /\ exec[w].pc = "recAdd" =>
       Still("GENERATING_RECOMMENDATIONS") /\ nrecs = 1 /\ exec[w].run = 1

OneInv ==
  /\ RunInv /\ OnceInv /\ LastInv /\ OneRunInv /\ StatusPhase
  /\ \A w \in Worker : SlotPhase(w)

OneGood == TypesInv /\ WholeInv /\ OneInv

\* A job that is completed stays so.
LEMMA CompletedStays ==
  ASSUME TypesInv, [PipelineNext]_pipelineVars, NEW j \in JobId,
         jobs[j].state = "completed"
  PROVE  jobs'[j].state = "completed"
<1>0. jobs \in [JobId -> JobRecord] /\ \A k \in JobId : WellFormed(jobs[k])
  BY DEF TypesInv, TypeInv, QueueInv, JobsInv
<1>1. ASSUME NEW w \in Worker, WorkerStep(w) PROVE jobs'[j].state = "completed"
  <2>1. jobs[j].owner # w
    BY <1>0 DEF WellFormed
  <2> QED BY <1>1, <2>1, OthersJobs DEF Appears
<1>2. ASSUME NEW h \in Caller, ConfirmRead(h) \/ CancelRead(h) \/ CallerProgress(h),
             UNCHANGED laterVars
      PROVE  jobs'[j].state = "completed"
  BY <1>2, CallerCalm
<1>3. ASSUME NEW k \in JobId, NEW w \in Worker, Take(w, k)
      PROVE  jobs'[j].state = "completed"
  BY <1>0, <1>3 DEF Take
<1>4. ASSUME NEW k \in JobId, Stall(k)
      PROVE  jobs'[j].state = "completed"
  <2>1. jobs[k].state = "active" /\ \A i \in JobId \ {k} : jobs'[i] = jobs[i]
    BY <1>0, <1>4 DEF Stall
  <2> QED BY <2>1
<1>5. ASSUME QueueCrash PROVE jobs'[j].state = "completed"
  BY <1>0, <1>5 DEF QueueCrash, Orphaned, JobRecord
<1>6. CASE QueueSteps
  BY <1>3, <1>4, <1>5, <1>6 DEF QueueSteps, PipelineTake, PipelineOnFailed,
     PipelineStall, PipelineCrash, TakeJob, OnFailedRead, OnFailedFlush,
     OnFailedLost, StallJob, Crash
<1>7. CASE RecMarkRead \/ RecMarkFlush \/ UNCHANGED pipelineVars
  BY <1>7 DEF RecMarkRead, RecMarkFlush, pipelineVars, vars, queueVars
<1> QED BY <1>1, <1>2, <1>6, <1>7 DEF PipelineNext, QueueSteps

\* Two slots do not run one job, and one handler at most is past the fan-in.
LEMMA Alone ==
  ASSUME OneGood, OneConfirmation, NEW v \in Worker, NEW w \in Worker,
         exec[v].pc # "idle", exec[w].pc # "idle",
         \/ exec[v].job = exec[w].job
         \/ exec[v].pc \in GatePc /\ exec[w].pc \in GatePc
  PROVE  v = w
<1>1. jobs[exec[v].job].owner = v /\ jobs[exec[w].job].owner = w
  BY DEF OneGood, WholeInv, FreshInv, OneConfirmation, OwnInv
<1>2. CASE exec[v].pc \in GatePc /\ exec[w].pc \in GatePc
  <2>1. exec[v].job \in Chunk /\ exec[w].job \in Chunk
    BY <1>2 DEF OneGood, TypesInv, PlaceInv, GatePc, ChunkPc
  <2>2. jobs[exec[v].job].state = "active" /\ jobs[exec[w].job].state = "active"
    BY <1>1, <2>1 DEF OneGood, TypesInv, TypeInv, QueueInv, JobsInv, WellFormed
  <2>3. WholeSentimentRun
    BY <1>2 DEF OneGood, WholeInv, FanInv, AtWork, AfterFan
  <2>4. exec[v].job = exec[w].job
    BY <2>1, <2>2, <2>3 DEF OneGood, OneInv, LastInv
  <2> QED BY <1>1, <2>4
<1> QED BY <1>1, <1>2

\* The worker's answer does not change the run it is for.
LEMMA AnswerKeepsRun ==
  ASSUME TypesInv, NEW w \in Worker, WorkerStep(w), exec[w].pc = "answer",
         exec'[w].pc # "idle"
  PROVE  exec'[w].run = exec[w].run
<1>1. ~Finish(w) /\ ~Throw(w)
  BY EndsAt
<1>2. \E label : Goto(w, label)
  <2>1. CASE ChunkStep(w)
    BY <1>1, <2>1 DEF ChunkStep, AnswerThrows, AnswerSuperseded, AnswerBad, AnswerAccepted,
       PersistDuplicate, PersistSuperseded, PersistCommit, Reread,
       StageFailedRead, StageFailedFlush, CompleteRead, GateLoad, GateFlush,
       HandlerThrows, AtChunk, NothingStored
  <2>2. CASE LaterStep(w)
    BY <1>1, <2>2 DEF LaterStep, GateUnconfigured, GateAdvance, TopicDispatchEmpty,
       TopicDispatchRun, TopicAdd, DispatchThrows, DispatchFailed,
       TopicAnswerThrows, TopicAnswerBad, TopicAnswerGood, TopicPersist,
       TopicComplete, Labelled, RecDispatchRun, RecAdd, RecAnswerThrows, RecThrow,
       RecGenerated, RecPersist, RecComplete, CompletePipeline, QueueRefresh,
       LaterThrows, StageFailedRead, At, AtTopic, AtRec
  <2> QED BY <2>1, <2>2 DEF WorkerStep
<1> QED BY <1>2, EndsAt

LEMMA RunWorker ==
  ASSUME TypesInv, RunInv, NEW w \in Worker, WorkerStep(w)
  PROVE  RunInv'
<1> SUFFICES ASSUME NEW v \in Worker,
                    exec'[v].pc \in {"answer", "topicPersist", "recPersist"}
             PROVE  exec'[v].run = jobs'[exec'[v].job].run
  BY DEF RunInv
<1>1. CASE v = w
  <2>1. exec[w].pc = "answer" /\ jobs' = jobs /\ exec'[w].job = exec[w].job
    BY <1>1, WorkerEnds, GoesOn DEF Flows, StageFlow, LaterFlow
  <2> QED BY <1>1, <2>1, AnswerKeepsRun DEF RunInv
<1>2. CASE v # w
  <2>1. exec'[v] = exec[v]
    BY <1>2, WorkerEnds, EndsFrame
  <2>2. exec[v].job \in JobId /\ jobs[exec[v].job].state # "absent"
    BY <2>1, Busy DEF TypesInv, PlaceInv
  <2>3. jobs'[exec[v].job].run = jobs[exec[v].job].run
    BY <2>2, WorkerEnds, EndsFrame
  <2> QED BY <2>1, <2>3 DEF RunInv
<1> QED BY <1>1, <1>2

LEMMA OnceWorker ==
  ASSUME OneGood, NEW w \in Worker, WorkerStep(w)
  PROVE  OnceInv'
<1>0. TypesInv /\ OnceInv /\ UNCHANGED <<nruns, caller>> /\ nruns # 0
  BY WorkerLooks, WorkerEnds, Busy DEF OneGood, OneInv
<1>1. \A r \in Run : landed'[r] # {} => r = 1 /\ nruns = 1
  <2>1. CASE PersistCommit(w)
    <3>1. landed' = [landed EXCEPT ![RunOf(w)] = @ \cup {ChunkOf(w)}] /\ RunOf(w) = nruns
      BY <2>1 DEF PersistCommit, Countable
    <3>2. landed \in [Run -> SUBSET Chunk] /\ nruns \in Nat /\ nruns <= 1
      BY <1>0 DEF TypesInv, TypeInv, StageTypeOK, OnceInv
    <3> QED BY <1>0, <3>1, <3>2 DEF OnceInv
  <2>2. CASE ~PersistCommit(w)
    BY <1>0, <2>2, OnlyCommits DEF OnceInv
  <2> QED BY <2>1, <2>2
<1> QED BY <1>0, <1>1 DEF OnceInv

LEMMA LastWorker ==
  ASSUME OneGood, OneConfirmation, NEW w \in Worker, WorkerStep(w)
  PROVE  LastInv'
<1>0. \A c \in Chunk : jobs[c].state = "completed" => jobs'[c].state = "completed"
  BY CompletedStays DEF OneGood, PipelineNext
<1>1. CASE WholeSentimentRun
  BY <1>0, <1>1 DEF OneGood, OneInv, LastInv
<1>2. CASE ~WholeSentimentRun
  <2> SUFFICES ASSUME NEW q \in Run, landed'[q] = Chunk
               PROVE  \A c, d \in Chunk :
                        jobs'[c].state # "completed" /\ jobs'[d].state # "completed" => c = d
    BY DEF LastInv, WholeSentimentRun
  <2>1. PersistCommit(w)
    BY <1>2, OnlyCommits DEF OneGood, WholeSentimentRun
  <2>2. /\ landed' = [landed EXCEPT ![exec[w].run] = @ \cup {exec[w].job}]
        /\ completed[exec[w].run] < ExpectedChunks
    BY <2>1 DEF PersistCommit, Countable, RunOf, ChunkOf
  <2>3. landed \in [Run -> SUBSET Chunk] /\ landed[q] # Chunk
    BY <1>2 DEF OneGood, TypesInv, TypeInv, StageTypeOK, WholeSentimentRun
  <2>4. q = exec[w].run /\ Chunk = landed[q] \cup {exec[w].job}
    BY <2>2, <2>3
  <2>5. DoneInv
    BY DEF OneGood, WholeInv, FreshInv, OneConfirmation
  <2>6. \A c \in Chunk : c # exec[w].job => jobs[c].state = "completed"
    BY <2>2, <2>4, <2>5 DEF DoneInv
  <2> QED BY <1>0, <2>6
<1> QED BY <1>1, <1>2

\* A job is added for the run its handler dispatched.
LEMMA OneRunWorker ==
  ASSUME OneGood, NEW w \in Worker, WorkerStep(w)
  PROVE  OneRunInv'
<1>0. /\ TypesInv /\ OneRunInv /\ RunInv /\ SlotPhase(w)
      /\ exec[w].pc # "idle" /\ exec[w].job \in JobId /\ Added(exec[w].job)
      /\ exec[w].pc \in TopicPc => exec[w].job = TopicJob
      /\ exec[w].pc \in RecPc => exec[w].job = RecJob
  BY WorkerEnds, Busy DEF OneGood, OneInv, TypesInv, PlaceInv, Added
<1>1. Dispatches(w) /\ Stores(w)
  BY <1>0, WorkerDispatches
<1>2. ntopics \in Nat /\ nrecs \in Nat
  BY <1>0 DEF TypesInv, LaterTypes
<1>3. ntopics' = ntopics \/ (ntopics = 0 /\ ntopics' = 1 /\ ~Added(TopicJob))
  <2>1. ntopics' = ntopics \/ (exec[w].pc = "topicDispatch" /\ ntopics' = ntopics + 1)
    BY <1>1 DEF Dispatches
  <2>2. exec[w].pc = "topicDispatch" => ntopics = 0 /\ ~Added(TopicJob)
    BY <1>0 DEF SlotPhase, GatePc
  <2> QED BY <2>1, <2>2
<1>4. nrecs' = nrecs \/ (nrecs = 0 /\ nrecs' = 1 /\ Added(TopicJob) /\ ~Added(RecJob))
  <2>1. nrecs' = nrecs \/ (exec[w].pc = "recDispatch" /\ nrecs' = nrecs + 1)
    BY <1>1 DEF Dispatches
  <2>2. exec[w].pc = "recDispatch" => nrecs = 0 /\ ~Added(RecJob)
    BY <1>0 DEF SlotPhase
  <2>3. exec[w].pc = "recDispatch" => Added(TopicJob)
    BY <1>0 DEF TopicPc
  <2> QED BY <2>1, <2>2, <2>3
<1>5. \A j \in JobId : Added(j) => Added(j)' /\ jobs'[j].run = jobs[j].run
  BY <1>0, WorkerEnds, EndsFrame DEF Added
<1>6. ASSUME ~Added(TopicJob), Added(TopicJob)'
      PROVE  ntopics = 1 /\ ntopics' = 1 /\ jobs'[TopicJob].run = 1
  <2>1. exec[w].pc = "topicAdd" /\ jobs'[TopicJob].run = exec[w].run
    BY <1>0, <1>6, Adds DEF Appears
  <2>2. ntopics = 1 /\ exec[w].run = 1
    BY <1>0, <2>1 DEF SlotPhase
  <2> QED BY <1>3, <2>1, <2>2
<1>7. ASSUME ~Added(RecJob), Added(RecJob)'
      PROVE  nrecs = 1 /\ nrecs' = 1 /\ jobs'[RecJob].run = 1 /\ Added(TopicJob)
  <2>1. exec[w].pc = "recAdd" /\ jobs'[RecJob].run = exec[w].run
    BY <1>0, <1>7, Adds DEF Appears
  <2>2. nrecs = 1 /\ exec[w].run = 1
    BY <1>0, <2>1 DEF SlotPhase
  <2>3. Added(TopicJob)
    BY <1>0, <2>1 DEF TopicPc
  <2> QED BY <1>4, <2>1, <2>2, <2>3
<1>8. \A r \in Run : topicStatus'[r] = "COMPLETED" => r = 1 /\ ntopics' = 1
  <2>1. CASE UNCHANGED topicStatus
    BY <1>0, <1>3, <2>1 DEF OneRunInv
  <2>2. CASE /\ exec[w].pc = "topicPersist"
             /\ topicStatus' = [topicStatus EXCEPT ![exec[w].run] = "COMPLETED"]
    <3>1. exec[w].run = 1 /\ ntopics = 1
      BY <1>0, <2>2 DEF RunInv, OneRunInv, TopicPc
    <3>2. ntopics' = 1
      BY <1>3, <3>1
    <3>3. topicStatus \in [Run -> {"PROCESSING", "COMPLETED"}]
      BY <1>0 DEF TypesInv, LaterTypes
    <3> QED BY <1>0, <2>2, <3>1, <3>2, <3>3 DEF OneRunInv
  <2> QED BY <1>1, <2>1, <2>2 DEF Stores
<1>9. \A r \in Run : actionSets'[r] > 0 => r = 1 /\ nrecs' = 1
  <2>1. CASE UNCHANGED actionSets
    BY <1>0, <1>4, <2>1 DEF OneRunInv
  <2>2. CASE /\ exec[w].pc = "recPersist"
             /\ actionSets' = [actionSets EXCEPT ![exec[w].run] = @ + 1]
    <3>1. exec[w].run = 1 /\ nrecs = 1
      BY <1>0, <2>2 DEF RunInv, OneRunInv, RecPc
    <3>2. nrecs' = 1
      BY <1>4, <3>1
    <3>3. actionSets \in [Run -> Nat]
      BY <1>0 DEF TypesInv, LaterTypes
    <3> QED BY <1>0, <2>2, <3>1, <3>2, <3>3 DEF OneRunInv
  <2> QED BY <1>1, <2>1, <2>2 DEF Stores
<1> QED BY <1>0, <1>2, <1>3, <1>4, <1>5, <1>6, <1>7, <1>8, <1>9 DEF OneRunInv

\* The status is moved on by the handler that finds the next stage untouched.
LEMMA StatusWorker ==
  ASSUME OneGood, NEW w \in Worker, WorkerStep(w)
  PROVE  StatusPhase'
<1>0. /\ TypesInv /\ OneRunInv /\ StatusPhase /\ SlotPhase(w)
      /\ Writes(w) /\ Dispatches(w)
  BY WorkerWrites, WorkerDispatches DEF OneGood, OneInv
<1>1. \A j \in {TopicJob, RecJob} : Added(j)' => Added(j) \/ Appears(w, j)
  BY <1>0, Adds
<1>2. ASSUME status' \in {"AWAITING_CONFIRMATION", "SENTIMENT_ANALYSIS"}
      PROVE  ntopics' = 0 /\ ~Added(TopicJob)'
  <2>1. status' = status /\ ntopics = 0 /\ ~Added(TopicJob)
    BY <1>0, <1>2 DEF Writes, StatusPhase
  <2>2. exec[w].pc \notin {"topicDispatch", "topicAdd"}
    BY <1>2, <2>1, <1>0 DEF SlotPhase, Still, Terminal
  <2> QED BY <1>0, <1>1, <2>1, <2>2 DEF Dispatches, Appears
<1>3. ASSUME status' \in {"AWAITING_CONFIRMATION", "SENTIMENT_ANALYSIS",
                          "SENTIMENT_GATE", "TOPIC_MODELING"}
      PROVE  nrecs' = 0 /\ ~Added(RecJob)'
  <2>1. /\ nrecs = 0 /\ ~Added(RecJob)
        /\ exec[w].pc \notin {"recDispatch", "recAdd"}
    <3>1. CASE status' = status
      BY <1>0, <1>3, <3>1 DEF StatusPhase, SlotPhase, Still, Terminal
    <3>2. CASE exec[w].pc \in {"gateFlush", "gated"}
      BY <1>0, <3>2 DEF SlotPhase, OneRunInv, GatePc
    <3> QED BY <1>0, <1>3, <3>1, <3>2 DEF Writes
  <2> QED BY <1>0, <1>1, <2>1 DEF Dispatches, Appears
<1> QED BY <1>2, <1>3 DEF StatusPhase

\* The handler that moves on finds what it expects where it goes.
LEMMA SlotMoves ==
  ASSUME OneGood, NEW w \in Worker, WorkerStep(w), exec'[w].pc # "idle"
  PROVE  SlotPhase(w)'
<1>0. /\ TypesInv /\ StatusPhase /\ SlotPhase(w)
      /\ Writes(w) /\ Dispatches(w) /\ Looks(w) /\ Flows(w)
      /\ jobs' = jobs
  BY WorkerWrites, WorkerDispatches, WorkerLooks, WorkerEnds, GoesOn DEF OneGood, OneInv
<1>1. (Added(TopicJob)' <=> Added(TopicJob)) /\ (Added(RecJob)' <=> Added(RecJob))
  BY <1>0 DEF Added
<1>2. CASE exec'[w].pc = "gateLoad"
  <2>1. exec[w].pc = "complete"
    BY <1>0, <1>2 DEF Flows, StageFlow, LaterFlow
  <2>2. status' = status /\ status = "SENTIMENT_ANALYSIS" /\ ntopics' = ntopics
    BY <1>0, <1>2, <2>1 DEF Writes, Looks, Dispatches
  <2> QED BY <1>0, <1>1, <1>2, <2>2 DEF SlotPhase, StatusPhase, Still, GatePc
<1>3. CASE exec'[w].pc = "gateFlush"
  <2>1. exec[w].pc = "gateLoad"
    BY <1>0, <1>3 DEF Flows, StageFlow, LaterFlow
  <2>2. status' = status /\ ntopics' = ntopics
    BY <1>0, <1>3, <2>1 DEF Writes, Dispatches
  <2> QED BY <1>0, <1>1, <1>3, <2>1, <2>2 DEF SlotPhase, Still, GatePc
<1>4. CASE exec'[w].pc = "gated"
  <2>1. exec[w].pc = "gateFlush"
    BY <1>0, <1>4 DEF Flows, StageFlow, LaterFlow
  <2>2. status' = "SENTIMENT_GATE" /\ ntopics' = ntopics
    BY <1>0, <1>4, <2>1 DEF Looks, Dispatches
  <2> QED BY <1>0, <1>1, <1>4, <2>1, <2>2 DEF SlotPhase, Still, GatePc
<1>5. CASE exec'[w].pc = "topicDispatch"
  <2>1. exec[w].pc = "gated"
    BY <1>0, <1>5 DEF Flows, StageFlow, LaterFlow
  <2>2. status' = "TOPIC_MODELING" /\ ntopics' = ntopics
    BY <1>0, <1>5, <2>1 DEF Looks, Dispatches
  <2> QED BY <1>0, <1>1, <1>5, <2>1, <2>2 DEF SlotPhase, Still, GatePc
<1>6. CASE exec'[w].pc = "topicAdd"
  <2>1. exec[w].pc = "topicDispatch" /\ ntopics' = ntopics + 1 /\ exec'[w].run = ntopics + 1
    BY <1>0, <1>6 DEF Dispatches
  <2>2. status' = status \/ status' = "FAILED"
    BY <1>0, <1>6, <2>1 DEF Writes
  <2>3. ntopics = 0 /\ Still("TOPIC_MODELING") /\ ~Added(TopicJob)
    BY <1>0, <2>1 DEF SlotPhase, GatePc
  <2>4. ntopics' = 1 /\ exec'[w].run = 1
    BY <2>1, <2>3
  <2> QED BY <1>1, <1>6, <2>2, <2>3, <2>4 DEF SlotPhase, Still, Terminal, GatePc
<1>7. CASE exec'[w].pc = "labelling"
  <2>1. exec[w].pc = "topicComplete"
    BY <1>0, <1>7 DEF Flows, StageFlow, LaterFlow
  <2>2. status' = status /\ status = "TOPIC_MODELING" /\ nrecs' = nrecs
    BY <1>0, <1>7, <2>1 DEF Writes, Looks, Dispatches
  <2> QED BY <1>0, <1>1, <1>7, <2>2 DEF SlotPhase, StatusPhase, Still, GatePc
<1>8. CASE exec'[w].pc = "recDispatch"
  <2>1. exec[w].pc = "labelling"
    BY <1>0, <1>8 DEF Flows, StageFlow, LaterFlow
  <2>2. status' = "GENERATING_RECOMMENDATIONS" /\ nrecs' = nrecs
    BY <1>0, <1>8, <2>1 DEF Looks, Dispatches
  <2> QED BY <1>0, <1>1, <1>8, <2>1, <2>2 DEF SlotPhase, Still, GatePc
<1>9. CASE exec'[w].pc = "recAdd"
  <2>1. exec[w].pc = "recDispatch" /\ nrecs' = nrecs + 1 /\ exec'[w].run = nrecs + 1
    BY <1>0, <1>9 DEF Dispatches
  <2>2. status' = status \/ status' = "FAILED"
    BY <1>0, <1>9, <2>1 DEF Writes
  <2>3. nrecs = 0 /\ Still("GENERATING_RECOMMENDATIONS") /\ ~Added(RecJob)
    BY <1>0, <2>1 DEF SlotPhase
  <2>4. nrecs' = 1 /\ exec'[w].run = 1
    BY <2>1, <2>3
  <2> QED BY <1>1, <1>9, <2>2, <2>3, <2>4 DEF SlotPhase, Still, Terminal, GatePc
<1>10. CASE exec'[w].pc \notin
              {"gateLoad", "gateFlush", "gated", "topicDispatch", "topicAdd",
               "labelling", "recDispatch", "recAdd"}
  BY <1>10 DEF SlotPhase, GatePc
<1> QED BY <1>2, <1>3, <1>4, <1>5, <1>6, <1>7, <1>8, <1>9, <1>10

\* Nobody else moves the pipeline under it.
LEMMA SlotRests ==
  ASSUME OneGood, OneConfirmation, NEW w \in Worker, WorkerStep(w),
         NEW v \in Worker, v # w
  PROVE  SlotPhase(v)'
<1>0. /\ TypesInv /\ OneRunInv /\ SlotPhase(v)
      /\ Writes(w) /\ Dispatches(w) /\ exec'[v] = exec[v]
      /\ exec[w].pc # "idle"
  BY WorkerWrites, WorkerDispatches, WorkerEnds, EndsFrame DEF OneGood, OneInv
<1>1. \A j \in {TopicJob, RecJob} : Added(j)' => Added(j) \/ Appears(w, j)
  BY <1>0, Adds
<1>2. /\ exec[w].pc \in TopicPc => exec[w].job = TopicJob /\ Added(TopicJob)
      /\ exec[w].pc \in RecPc => Added(RecJob) /\ Added(TopicJob)
      /\ exec[v].pc \in TopicPc => exec[v].job = TopicJob /\ Added(TopicJob)
  BY <1>0 DEF TypesInv, PlaceInv, TopicPc, RecPc, Added, OneRunInv
<1>3. CASE exec[v].pc \in GatePc \ {"complete"}
  <2>1. ~Added(TopicJob)
    BY <1>0, <1>3 DEF SlotPhase
  <2>2. exec[w].pc \notin GatePc \cup TopicPc \cup RecPc
    BY <1>0, <1>2, <1>3, <2>1, Alone DEF GatePc
  <2>3. status' = status \/ status' = "FAILED"
    BY <1>0, <2>2 DEF Writes, GatePc, TopicPc, RecPc
  <2>4. ntopics' = ntopics /\ ~Added(TopicJob)'
    BY <1>0, <1>1, <2>1, <2>2 DEF Dispatches, Appears, GatePc, TopicPc
  <2>5. exec[v].pc \notin TopicPc
    BY <1>3 DEF GatePc, TopicPc
  <2> QED BY <1>0, <2>3, <2>4, <2>5 DEF SlotPhase, Still, Terminal, TopicPc
<1>4. CASE exec[v].pc \in {"labelling", "recDispatch", "recAdd"}
  <2>1. ~Added(RecJob) /\ Added(TopicJob)
    BY <1>0, <1>2, <1>4 DEF SlotPhase, TopicPc
  <2>2. exec[w].pc \notin TopicPc \cup RecPc
    BY <1>0, <1>2, <1>4, <2>1, Alone DEF TopicPc
  <2>3. exec[w].pc \notin GatePc \ {"complete"}
    BY <2>1 DEF OneGood, OneInv, SlotPhase
  <2>4. status' = status \/ status' = "FAILED"
    BY <1>0, <2>2, <2>3 DEF Writes, GatePc, TopicPc, RecPc
  <2>5. nrecs' = nrecs /\ ~Added(RecJob)'
    BY <1>0, <1>1, <2>1, <2>2, <2>3 DEF Dispatches, Appears, GatePc, TopicPc
  <2> QED BY <1>0, <1>4, <2>4, <2>5 DEF SlotPhase, Still, Terminal, GatePc
<1>5. CASE exec[v].pc \notin (GatePc \ {"complete"}) \cup {"labelling", "recDispatch", "recAdd"}
  BY <1>0, <1>5 DEF SlotPhase, GatePc
<1> QED BY <1>3, <1>4, <1>5

\* What the other steps leave as it is.
Aloof ==
  /\ UNCHANGED <<ntopics, nrecs, topicStatus, actionSets, landed>>
  /\ \A j \in {TopicJob, RecJob} :
       (Added(j)' <=> Added(j)) /\ (Added(j) => jobs'[j].run = jobs[j].run)
  /\ \A w \in Worker : exec'[w] = exec[w] \/ exec'[w].pc \in {"idle", "answer"}
  /\ \A c \in Chunk : jobs[c].state = "completed" => jobs'[c].state = "completed"
  /\ \/ status' = status
     \/ status' \in Terminal
     \/ status' = "SENTIMENT_ANALYSIS" /\ nruns = 0

LEMMA AloofKeeps ==
  ASSUME OneGood, Aloof
  PROVE  LastInv' /\ OneRunInv' /\ StatusPhase' /\ \A w \in Worker : SlotPhase(w)'
<1>1. LastInv'
  BY DEF OneGood, OneInv, LastInv, Aloof, WholeSentimentRun
<1>2. OneRunInv'
  BY DEF OneGood, OneInv, OneRunInv, Aloof
<1>3. nruns = 0 =>
        /\ ntopics = 0 /\ nrecs = 0 /\ ~Added(TopicJob) /\ ~Added(RecJob)
        /\ \A w \in Worker : exec[w].pc = "idle"
  BY DEF OneGood, OneInv, OnceInv, OneRunInv, TypesInv, TypeInv, BegunInv, Added
<1>4. StatusPhase'
  BY <1>3 DEF OneGood, OneInv, StatusPhase, Aloof, Terminal
<1>5. ASSUME NEW w \in Worker PROVE SlotPhase(w)'
  <2>1. CASE exec'[w].pc \in {"idle", "answer"}
    BY <2>1 DEF SlotPhase, GatePc
  <2>2. CASE exec'[w] = exec[w] /\ exec[w].pc # "idle"
    <3>1. status' = status \/ status' \in Terminal
      BY <1>3, <2>2 DEF Aloof
    <3>2. SlotPhase(w)
      BY DEF OneGood, OneInv
    <3> QED BY <2>2, <3>1, <3>2 DEF SlotPhase, Aloof, Still
  <2> QED BY <2>1, <2>2 DEF Aloof
<1> QED BY <1>1, <1>2, <1>4, <1>5

\* A request keeps the rest aloof: it sets the stage going before the first run.
LEMMA CallerOne ==
  ASSUME OneGood, OneConfirmation, NEW h \in Caller,
         ConfirmRead(h) \/ CancelRead(h) \/ CallerProgress(h), UNCHANGED laterVars
  PROVE  OneInv'
<1>0. /\ TypesInv /\ OnceInv /\ RunInv
      /\ caller \in [Caller -> CallerRecord]
      /\ \A w \in Worker : exec[w].pc # "idle" => exec[w].job \in JobId /\ Added(exec[w].job)
  BY Busy DEF OneGood, OneInv, TypesInv, TypeInv, StageTypeOK, PlaceInv, Added
<1>1. /\ UNCHANGED <<exec, landed, ntopics, nrecs, topicStatus, actionSets>>
      /\ \A j \in JobId : jobs[j].state = "absent" \/ jobs'[j] = jobs[j]
      /\ \A j \in {TopicJob, RecJob} : Added(j)' => Added(j)
  BY <1>0, CallerCalm, CallerJobs DEF Calm, runVars, laterVars, topicVars, recVars
<1>2. \/ status' = status
      \/ status' \in Terminal
      \/ status' = "SENTIMENT_ANALYSIS" /\ caller[h].pc = "confirming"
  BY DEF CallerProgress, ConfirmRead, CancelRead, ConfirmFlush, DispatchEmpty,
     DispatchRun, CancelFlush, RequestThrows, AddChunk, AddRejected, Terminal
<1>3. Aloof
  BY <1>0, <1>1, <1>2 DEF Aloof, Added, OnceInv
<1>4. RunInv'
  BY <1>0, <1>1 DEF RunInv, Added
<1>5. OnceInv'
  <2>1. \A k \in Caller \ {h} : caller'[k] = caller[k]
    BY <1>0 DEF CallerProgress, ConfirmRead, CancelRead, ConfirmFlush, DispatchEmpty,
       DispatchRun, CancelFlush, RequestThrows, AddChunk, AddRejected,
       CallerGoto, ChunkHandled
  <2>2. CASE DispatchRun(h)
    <3>1. /\ nruns' = nruns + 1 /\ caller'[h].pc = "adding" /\ nruns = 0 /\ h \in Confirmer
          /\ status' = status
      BY <1>0, <2>2 DEF DispatchRun, OnceInv
    <3>2. \A k \in Confirmer : k = h
      BY <3>1 DEF OneConfirmation
    <3>3. \A r \in Run : landed'[r] = {}
      BY <1>0, <1>1, <3>1 DEF OnceInv
    <3> QED BY <1>0, <1>1, <2>1, <3>1, <3>2, <3>3 DEF OnceInv
  <2>3. CASE ~DispatchRun(h)
    <3>1. nruns' = nruns
      BY <2>3 DEF CallerProgress, ConfirmRead, CancelRead, ConfirmFlush, DispatchEmpty,
         CancelFlush, RequestThrows, AddChunk, AddRejected
    <3>2. \/ caller'[h].pc \notin {"idle", "confirming", "dispatching"}
          \/ h \in Confirmer /\ caller[h].pc \in {"idle", "confirming", "dispatching"}
      <4>1. \A label : CallerGoto(h, label) => caller'[h].pc = label
        BY <1>0 DEF CallerGoto, CallerRecord
      <4>2. \A c \in Chunk : ChunkHandled(h, c) => caller'[h].pc \in {"done", "adding"}
        <5> TAKE c \in Chunk
        <5> DEFINE left  == caller[h].todo \ {c}
                   label == IF left = {} THEN "done" ELSE "adding"
        <5>1. ChunkHandled(h, c) =>
                caller' = [caller EXCEPT ![h] = [@ EXCEPT !.todo = left, !.pc = label]]
          BY DEF ChunkHandled
        <5>2. label \in {"done", "adding"}
          OBVIOUS
        <5>3. /\ caller \in [Caller -> CallerRecord]
              /\ h \in Caller
          BY <1>0
        <5> HIDE DEF left, label
        <5> SUFFICES ASSUME ChunkHandled(h, c) PROVE caller'[h].pc \in {"done", "adding"}
          OBVIOUS
        <5>4. caller' = [caller EXCEPT ![h] = [@ EXCEPT !.todo = left, !.pc = label]]
          BY <5>1
        <5>5. caller'[h] = [caller[h] EXCEPT !.todo = left, !.pc = label]
          BY <5>3, <5>4
        <5>6. caller[h] \in CallerRecord
          BY <5>3
        <5>7. caller'[h].pc = label
          BY <5>5, <5>6 DEF CallerRecord
        <5> QED BY <5>2, <5>7
      <4>3. CASE ConfirmFlush(h)
        BY <1>0, <4>1, <4>3 DEF ConfirmFlush, OnceInv
      <4>4. CASE ConfirmRead(h)
        BY <4>1, <4>4 DEF ConfirmRead
      <4>5. CASE CancelRead(h) \/ DispatchEmpty(h) \/ CancelFlush(h) \/ RequestThrows(h)
        BY <4>1, <4>5 DEF CancelRead, DispatchEmpty, CancelFlush, RequestThrows
      <4>6. CASE \E c \in Chunk : AddChunk(h, c) \/ AddRejected(h, c)
        BY <4>2, <4>6 DEF AddChunk, AddRejected
      <4> QED BY <2>3, <4>3, <4>4, <4>5, <4>6 DEF CallerProgress
    <3>3. nruns = 0 => status' \in {"AWAITING_CONFIRMATION", "SENTIMENT_ANALYSIS"} \cup Terminal
      BY <1>0, <1>2 DEF OnceInv
    <3>4. \A k \in Caller : caller'[k].pc \in {"confirming", "dispatching"} => k \in Confirmer
      BY <1>0, <2>1, <3>2 DEF OnceInv
    <3>5. \A k \in Confirmer :
            caller'[k].pc \in {"idle", "confirming", "dispatching"} => nruns = 0
      BY <1>0, <2>1, <3>2 DEF OnceInv, Caller
    <3> QED BY <1>0, <1>1, <3>1, <3>3, <3>4, <3>5 DEF OnceInv
  <2> QED BY <2>2, <2>3
<1> QED BY <1>3, <1>4, <1>5, AloofKeeps DEF OneInv

LEMMA QueueOne ==
  ASSUME OneGood, QueueSteps
  PROVE  OneInv'
<1>0. /\ TypesInv /\ OnceInv /\ RunInv
      /\ caller \in [Caller -> CallerRecord]
      /\ \A w \in Worker : exec[w].pc # "idle" => exec[w].job \in JobId
  BY Busy DEF OneGood, OneInv, TypesInv, TypeInv, StageTypeOK
<1>1. UNCHANGED <<nruns, landed, ntopics, nrecs, topicStatus, actionSets>>
  BY DEF QueueSteps, PipelineTake, PipelineOnFailed, PipelineStall, PipelineCrash,
     TakeJob, OnFailedRead, OnFailedFlush, OnFailedLost, StallJob, Crash,
     laterVars, topicVars, recVars, stageVars, runVars
<1>2. status' = status \/ status' \in Terminal
  BY DEF QueueSteps, PipelineTake, PipelineOnFailed, PipelineStall, PipelineCrash,
     TakeJob, OnFailedRead, OnFailedFlush, OnFailedLost, StallJob, Crash, Terminal
<1>3. \A c \in JobId : jobs[c].state = "completed" => jobs'[c].state = "completed"
  BY <1>0, CompletedStays DEF PipelineNext, QueueSteps
<1>4. Aloof
  BY <1>0, <1>1, <1>2, <1>3, QueueStepsMove DEF Aloof, Added
<1>5. RunInv'
  BY <1>0, QueueStepsMove DEF RunInv
<1>6. \A k \in Caller : caller'[k] = caller[k] \/ caller'[k].pc = "done"
  <2>1. CASE PipelineCrash
    BY <1>0, <2>1 DEF PipelineCrash, Crash, CallerRecord
  <2>2. CASE ~PipelineCrash
    BY <2>2 DEF QueueSteps, PipelineTake, PipelineOnFailed, PipelineStall, TakeJob,
       OnFailedRead, OnFailedFlush, OnFailedLost, StallJob, stageVars
  <2> QED BY <2>1, <2>2
<1>7. OnceInv'
  BY <1>0, <1>1, <1>2, <1>6 DEF OnceInv, Caller
<1> QED BY <1>4, <1>5, <1>7, AloofKeeps DEF OneInv

LEMMA OneInit == PipelineInit => OneInv
<1> SUFFICES ASSUME PipelineInit PROVE OneInv
  OBVIOUS
<1>0. /\ status = "AWAITING_CONFIRMATION" /\ nruns = 0
      /\ landed = [r \in Run |-> {}]
      /\ caller = [h \in Caller |-> [pc |-> "idle", run |-> 0, todo |-> {}]]
      /\ jobs = [j \in JobId |-> NeverAdded] /\ exec = [w \in Worker |-> Idle]
      /\ ntopics = 0 /\ nrecs = 0
      /\ topicStatus = [r \in Run |-> "PROCESSING"] /\ actionSets = [r \in Run |-> 0]
  BY DEF PipelineInit, Init, StageInit, QueueInit
<1>1. \A j \in JobId : ~Added(j)
  BY <1>0 DEF Added, NeverAdded
<1>2. \A w \in Worker : exec[w].pc = "idle"
  BY <1>0 DEF Idle
<1>3. RunInv /\ \A w \in Worker : SlotPhase(w)
  BY <1>2 DEF RunInv, SlotPhase, GatePc
<1>4. \A h \in Caller : caller[h].pc = "idle"
  BY <1>0
<1>5. OnceInv
  BY <1>0, <1>4 DEF OnceInv, Terminal
<1>6. LastInv
  BY <1>0 DEF LastInv, WholeSentimentRun
<1>7. OneRunInv /\ StatusPhase
  BY <1>0, <1>1 DEF OneRunInv, StatusPhase
<1> QED BY <1>3, <1>5, <1>6, <1>7 DEF OneInv

LEMMA OneStep ==
  ASSUME OneGood, OneConfirmation, [PipelineNext]_pipelineVars
  PROVE  OneInv'
<1>1. ASSUME NEW w \in Worker, WorkerStep(w) PROVE OneInv'
  <2>1. RunInv' /\ OnceInv' /\ LastInv' /\ OneRunInv' /\ StatusPhase'
    BY <1>1, RunWorker, OnceWorker, LastWorker, OneRunWorker, StatusWorker
       DEF OneGood, OneInv
  <2>2. ASSUME NEW v \in Worker PROVE SlotPhase(v)'
    <3>1. CASE v # w
      BY <1>1, <3>1, SlotRests
    <3>2. CASE v = w /\ exec'[w].pc # "idle"
      BY <1>1, <3>2, SlotMoves
    <3>3. CASE v = w /\ exec'[w].pc = "idle"
      BY <3>3 DEF SlotPhase, GatePc
    <3> QED BY <3>1, <3>2, <3>3
  <2> QED BY <2>1, <2>2 DEF OneInv
<1>2. CASE RecMarkRead \/ RecMarkFlush \/ UNCHANGED pipelineVars
  <2>1. /\ UNCHANGED <<jobs, exec, status, nruns, caller, landed, ntopics, nrecs,
                       topicStatus, actionSets>>
    BY <1>2 DEF RecMarkRead, RecMarkFlush, pipelineVars, vars, queueVars, stageVars,
       laterVars, topicVars, recVars
  <2>2. Aloof
    BY <2>1 DEF Aloof, Added
  <2>3. RunInv' /\ OnceInv'
    BY <2>1 DEF OneGood, OneInv, RunInv, OnceInv
  <2> QED BY <2>2, <2>3, AloofKeeps DEF OneInv
<1> QED BY <1>1, <1>2, CallerOne, QueueOne DEF PipelineNext, QueueSteps

LEMMA OneInvariant ==
  ASSUME OneConfirmation
  PROVE  PipelineSpec => []OneGood
<1>0. NoDoubles
  BY DEF NoDoubles, OneConfirmation
<1>1. PipelineInit => OneGood
  BY TypesInit, WholeInit, OneInit DEF OneGood
<1>2. OneGood /\ [PipelineNext]_pipelineVars => OneGood'
  BY <1>0, TypesStep, WholeStep, OneStep DEF OneGood
<1> QED BY <1>1, <1>2, PTL DEF PipelineSpec

\* A pipeline that is confirmed once skips no stage, and once COMPLETED its newest
\* runs are the whole ones, each stage having run once: for any number of chunks,
\* slots, cancellations, retries and crashes, with answers void or not.
THEOREM StagesAreWholeCorrect ==
  ASSUME OneConfirmation
  PROVE  PipelineSpec => []StagesAreWhole
<1>1. ASSUME OneGood PROVE StagesAreWhole
  <2>1. /\ FanInv /\ TopicInv /\ ActionInv /\ OnceInv /\ OneRunInv
        /\ landed \in [Run -> SUBSET Chunk]
    BY <1>1 DEF OneGood, WholeInv, OneInv, TypesInv, TypeInv, StageTypeOK
  <2>2. NoStageSkipped
    BY <2>1 DEF FanInv, TopicInv, ActionInv, NoStageSkipped, Later
  <2>3. ASSUME status = "COMPLETED"
        PROVE  /\ landed[nruns] = Chunk
               /\ ntopics = 1 /\ topicStatus[1] = "COMPLETED"
               /\ nrecs = 1 /\ actionSets[1] > 0
    <3>1. PICK r \in Run : landed[r] = Chunk
      BY <2>1, <2>3 DEF FanInv, Later, WholeSentimentRun
    <3>2. r = 1 /\ nruns = 1
      BY <2>1, <3>1 DEF OnceInv
    <3>3. PICK t \in Run : topicStatus[t] = "COMPLETED"
      BY <2>1, <2>3 DEF TopicInv, SomeTopicRunDone
    <3>4. PICK a \in Run : actionSets[a] > 0
      BY <2>1, <2>3 DEF ActionInv, SomeActionsStored
    <3> QED BY <2>1, <3>1, <3>2, <3>3, <3>4 DEF OneRunInv
  <2> QED BY <2>2, <2>3 DEF StagesAreWhole, CompletedRunsAreNewest
<1> QED BY <1>1, OneInvariant, PTL

\* A later stage is never followed by an earlier one.
LEMMA ForwardStep ==
  ASSUME OneGood, [PipelineNext]_pipelineVars
  PROVE  NeverBack
<1> DEFINE Open == Status \ Terminal
<1>0. Open = {"AWAITING_CONFIRMATION", "SENTIMENT_ANALYSIS", "SENTIMENT_GATE",
              "TOPIC_MODELING", "GENERATING_RECOMMENDATIONS"}
  BY DEF Status, Terminal
<1>1. /\ Rank["AWAITING_CONFIRMATION"] = 0 /\ Rank["SENTIMENT_ANALYSIS"] = 1
      /\ Rank["SENTIMENT_GATE"] = 2 /\ Rank["TOPIC_MODELING"] = 3
      /\ Rank["GENERATING_RECOMMENDATIONS"] = 4
  BY <1>0 DEF Rank
<1>2. status \in Status
  BY DEF OneGood, TypesInv, TypeInv, StageTypeOK
<1> SUFFICES ASSUME status \notin Terminal, status' \notin Terminal
             PROVE  Rank[status] <= Rank[status']
  BY DEF NeverBack
<1>3. CASE status' = status
  BY <1>0, <1>1, <1>2, <1>3
<1>4. ASSUME NEW w \in Worker, WorkerStep(w), status' # status
      PROVE  Rank[status] <= Rank[status']
  <2>1. Writes(w) /\ SlotPhase(w)
    BY <1>4, WorkerWrites DEF OneGood, OneInv
  <2>2. \/ status = "SENTIMENT_ANALYSIS" /\ status' = "SENTIMENT_GATE"
        \/ status = "SENTIMENT_GATE" /\ status' = "TOPIC_MODELING"
        \/ status = "TOPIC_MODELING" /\ status' = "GENERATING_RECOMMENDATIONS"
    BY <1>4, <2>1 DEF Writes, SlotPhase, Still, Terminal
  <2> QED BY <1>1, <2>2
<1>5. ASSUME NEW h \in Caller, ConfirmRead(h) \/ CancelRead(h) \/ CallerProgress(h),
             status' # status
      PROVE  Rank[status] <= Rank[status']
  <2>1. status' = "SENTIMENT_ANALYSIS" /\ caller[h].pc = "confirming"
    BY <1>5 DEF CallerProgress, ConfirmRead, CancelRead, ConfirmFlush, DispatchEmpty,
       DispatchRun, CancelFlush, RequestThrows, AddChunk, AddRejected, Terminal
  <2>2. nruns = 0
    BY <2>1 DEF OneGood, OneInv, OnceInv
  <2>3. status \in {"AWAITING_CONFIRMATION", "SENTIMENT_ANALYSIS"}
    BY <2>2 DEF OneGood, OneInv, OnceInv
  <2> QED BY <1>1, <2>1, <2>3
<1>6. CASE QueueSteps
  <2>1. status' = status
    BY <1>6 DEF QueueSteps, PipelineTake, PipelineOnFailed, PipelineStall, PipelineCrash,
       TakeJob, OnFailedRead, OnFailedFlush, OnFailedLost, StallJob, Crash, Terminal
  <2> QED BY <1>3, <2>1
<1>7. CASE RecMarkRead \/ RecMarkFlush \/ UNCHANGED pipelineVars
  <2>1. status' = status
    BY <1>7 DEF RecMarkRead, RecMarkFlush, pipelineVars, vars
  <2> QED BY <1>3, <2>1
<1> QED BY <1>3, <1>4, <1>5, <1>6, <1>7 DEF PipelineNext, QueueSteps

\* The stages of a pipeline that is confirmed once only go forward, and its end is
\* final once nobody is at work that read it before.
THEOREM OnlyForwardCorrect ==
  ASSUME OneConfirmation
  PROVE  PipelineSpec => OnlyForward
<1>1. OneGood /\ [PipelineNext]_pipelineVars => [NeverBack /\ SettledStays]_pipelineVars
  BY ForwardStep, SettledStep DEF OneGood
<1> QED BY <1>1, OneInvariant, PTL DEF PipelineSpec, OnlyForward
-----------------------------------------------------------------------------
(* How often the rows of a stage are stored.                               *)

\* How often a job was taken, as its record tells it: an attempt that failed, a
\* lock that expired, and the one it is at or that ended it.
Takes(job) ==
  job.attempts + job.stalls +
  (IF job.state \in {"active", "completed"} THEN 1 ELSE 0)

StorePc == {"answer", "topicPersist", "recPersist"}

\* The slots that run a job and have not stored its rows yet.
Storing(j) == {w \in Worker : exec[w].job = j /\ exec[w].pc \in StorePc}

\* Every row set of a job and every slot that is still to store one have been
\* paid for by a take, and other runs have no rows.
Paid(slots, job, sets) ==
  /\ IsFiniteSet(slots)
  /\ job.state = "absent" => slots = {} /\ \A r \in Run : sets[r] = 0
  /\ \A r \in Run : sets[r] # 0 => r = job.run
  /\ \A r \in Run : sets[r] + Cardinality(slots) <= Takes(job)

SetsInv ==
  /\ Paid(Storing(TopicJob), jobs[TopicJob], topicSets)
  /\ Paid(Storing(RecJob), jobs[RecJob], actionSets)

\* A record that was taken at least as often pays for the slots that are left.
Keeps(old, new) ==
  /\ new.state = "absent" => old.state = "absent"
  /\ new.run = old.run \/ old.state = "absent"
  /\ Takes(old) <= Takes(new)

LEMMA TakesIsNat == ASSUME NEW job \in JobRecord PROVE Takes(job) \in Nat
BY DEF Takes, JobRecord

LEMMA PaidKeeps ==
  ASSUME NEW P, NEW Q, Q \subseteq P, NEW sets \in [Run -> Nat],
         NEW old \in JobRecord, NEW new \in JobRecord,
         Paid(P, old, sets), Keeps(old, new)
  PROVE  Paid(Q, new, sets)
<1>1. IsFiniteSet(Q) /\ Cardinality(Q) \in Nat /\ Cardinality(P) \in Nat
      /\ Cardinality(Q) <= Cardinality(P)
  BY FS_Subset, FS_CardinalityType DEF Paid
<1>2. \A r \in Run : sets[r] + Cardinality(Q) <= Takes(new)
  <2> TAKE r \in Run
  <2>1. sets[r] + Cardinality(P) <= Takes(old) /\ Takes(old) <= Takes(new)
    BY DEF Paid, Keeps
  <2> QED BY <1>1, <2>1, TakesIsNat
<1> QED BY <1>1, <1>2 DEF Paid, Keeps

\* The take of a waiting job pays for the slot that took it.
LEMMA PaidTake ==
  ASSUME NEW P, NEW w, w \notin P, NEW sets \in [Run -> Nat],
         NEW old \in JobRecord, NEW new \in JobRecord, Paid(P, old, sets),
         old.state = "waiting", new.state = "active", new.run = old.run,
         new.attempts = old.attempts, new.stalls = old.stalls
  PROVE  Paid(P \cup {w}, new, sets)
<1>1. /\ IsFiniteSet(P \cup {w}) /\ Cardinality(P) \in Nat
      /\ Cardinality(P \cup {w}) = Cardinality(P) + 1
  BY FS_AddElement, FS_CardinalityType DEF Paid
<1>2. Takes(new) = Takes(old) + 1
  BY DEF Takes, JobRecord
<1>3. \A r \in Run : sets[r] + Cardinality(P \cup {w}) <= Takes(new)
  <2> TAKE r \in Run
  <2>1. sets[r] + Cardinality(P) <= Takes(old)
    BY DEF Paid
  <2> QED BY <1>1, <1>2, <2>1, TakesIsNat
<1> QED BY <1>1, <1>3 DEF Paid

\* A slot that stores the rows of its run is not among those that are to.
LEMMA PaidStore ==
  ASSUME NEW P, NEW w \in P, NEW sets \in [Run -> Nat], NEW job \in JobRecord,
         Paid(P, job, sets), job.run \in Run
  PROVE  Paid(P \ {w}, job, [sets EXCEPT ![job.run] = @ + 1])
<1> DEFINE new == [sets EXCEPT ![job.run] = @ + 1]
<1>1. /\ IsFiniteSet(P \ {w}) /\ Cardinality(P) \in Nat /\ Cardinality(P \ {w}) \in Nat
      /\ Cardinality(P \ {w}) = Cardinality(P) - 1
  BY FS_RemoveElement, FS_CardinalityType DEF Paid
<1>2. new \in [Run -> Nat] /\ new[job.run] = sets[job.run] + 1
      /\ \A r \in Run : r # job.run => new[r] = sets[r]
  OBVIOUS
<1> HIDE DEF new
<1>3. \A r \in Run : new[r] + Cardinality(P \ {w}) <= Takes(job)
  <2> TAKE r \in Run
  <2>1. sets[r] + Cardinality(P) <= Takes(job)
    BY DEF Paid
  <2> QED BY <1>1, <1>2, <2>1, TakesIsNat
<1>4. Paid(P \ {w}, job, new)
  BY <1>1, <1>2, <1>3 DEF Paid
<1> QED BY <1>4 DEF new

\* What was paid for is within the attempts and the stalls of a job.
LEMMA PaidBound ==
  ASSUME NEW P, NEW sets \in [Run -> Nat], NEW job \in JobRecord, WellFormed(job),
         Paid(P, job, sets)
  PROVE  sets \in [Run -> 0..MaxSets]
<1>1. Takes(job) <= MaxSets
  BY DEF Takes, JobRecord, WellFormed, MaxSets
<1>2. \A r \in Run : sets[r] <= Takes(job)
  <2> TAKE r \in Run
  <2>1. sets[r] + Cardinality(P) <= Takes(job) /\ Cardinality(P) \in Nat
    BY FS_CardinalityType DEF Paid
  <2> QED BY <2>1, TakesIsNat
<1>3. MaxSets \in Nat
  BY DEF MaxSets
<1> QED BY <1>1, <1>2, <1>3, TakesIsNat

\* No step of a handler takes a job, and none takes back what was paid.
LEMMA KeepsTwice ==
  ASSUME NEW a \in JobRecord, NEW b \in JobRecord, NEW c \in JobRecord,
         Keeps(a, b), Keeps(b, c)
  PROVE  Keeps(a, c)
<1>1. Takes(a) <= Takes(b) /\ Takes(b) <= Takes(c)
  BY DEF Keeps
<1>2. Takes(a) <= Takes(c)
  BY <1>1, TakesIsNat
<1> QED BY <1>2 DEF Keeps

LEMMA KeepsSame == ASSUME NEW a \in JobRecord PROVE Keeps(a, a)
BY TakesIsNat DEF Keeps

\* A job that is acknowledged was active.
LEMMA AcknowledgedKeeps ==
  ASSUME NEW q, JobsInv(q), NEW w \in Worker, exec[w].job \in JobId,
         NEW p \in Acknowledged(q, w), NEW j \in JobId
  PROVE  Keeps(q[j], p[j])
<1> DEFINE k == exec[w].job
<1>1. q \in [JobId -> JobRecord] /\ q[j] \in JobRecord /\ q[k] \in JobRecord
  BY DEF JobsInv
<1>2. CASE p[j] = q[j]
  BY <1>1, <1>2, KeepsSame
<1>3. CASE p[j] # q[j]
  <2>1. q[k].owner = w /\ (p = [q EXCEPT ![k] = Completed(@)]
                           \/ p = [q EXCEPT ![k] = Orphaned(@)])
    BY <1>3 DEF Acknowledged
  <2>2. j = k /\ (p[j] = Completed(q[j]) \/ p[j] = Orphaned(q[j]))
    BY <1>1, <1>3, <2>1
  <2>3. q[j].state = "active"
    BY <2>1, <2>2 DEF JobsInv, WellFormed
  <2>4. /\ Completed(q[j]).state = "completed" /\ Orphaned(q[j]).state = "active"
        /\ Completed(q[j]).run = q[j].run /\ Orphaned(q[j]).run = q[j].run
        /\ Completed(q[j]).attempts = q[j].attempts
        /\ Orphaned(q[j]).attempts = q[j].attempts
        /\ Completed(q[j]).stalls = q[j].stalls
        /\ Orphaned(q[j]).stalls = q[j].stalls
    BY <1>1, <2>3 DEF Completed, Orphaned, JobRecord
  <2>5. /\ p[j].state \in {"active", "completed"} /\ p[j].run = q[j].run
        /\ p[j].attempts = q[j].attempts /\ p[j].stalls = q[j].stalls
    BY <2>2, <2>4
  <2>6. q[j].attempts \in Nat /\ q[j].stalls \in Nat
    BY <1>1 DEF JobRecord
  <2> QED BY <2>3, <2>5, <2>6 DEF Keeps, Takes
<1> QED BY <1>2, <1>3

LEMMA EnqueueKeeps ==
  ASSUME NEW q, JobsInv(q), NEW k \in JobId, NEW r \in Run, NEW j \in JobId
  PROVE  Keeps(q[j], Enqueue(q, k, r)[j])
<1> DEFINE p == Enqueue(q, k, r)
<1>1. q[j] \in JobRecord
  BY DEF JobsInv
<1>2. CASE p[j] = q[j]
  BY <1>1, <1>2, KeepsSame
<1>3. CASE p[j] # q[j]
  <2>1. /\ q[j].state = "absent" /\ p[j].state = "waiting"
        /\ p[j].attempts = q[j].attempts /\ p[j].stalls = q[j].stalls
    BY <1>3, Enqueued
  <2>2. q[j].attempts \in Nat /\ q[j].stalls \in Nat
    BY <1>1 DEF JobRecord
  <2> QED BY <2>1, <2>2 DEF Keeps, Takes
<1> QED BY <1>2, <1>3

LEMMA ThrowKeeps ==
  ASSUME TypesInv, NEW w \in Worker, exec[w].pc # "idle", Throw(w), NEW j \in JobId
  PROVE  Keeps(jobs[j], jobs'[j])
<1> DEFINE k     == exec[w].job
           tries == jobs[k].attempts + 1
           over  == IF tries < MaxAttempts THEN "waiting" ELSE "failed"
           new   == [jobs[k] EXCEPT !.state = over, !.attempts = tries, !.owner = NoWorker]
<1>0. JobsInv(jobs) /\ k \in JobId
  BY Busy DEF TypesInv, TypeInv, QueueInv
<1>1. jobs \in [JobId -> JobRecord] /\ jobs[j] \in JobRecord /\ jobs[k] \in JobRecord
  BY <1>0 DEF JobsInv
<1>2. CASE jobs'[j] = jobs[j]
  BY <1>1, <1>2, KeepsSame
<1>3. CASE jobs'[j] # jobs[j]
  <2>1. jobs[k].owner = w /\ jobs' = [jobs EXCEPT ![k] = new]
    BY <1>3 DEF Throw, Owns
  <2>2. /\ new.state = over /\ new.attempts = tries
        /\ new.run = jobs[k].run /\ new.stalls = jobs[k].stalls
    BY <1>1 DEF JobRecord
  <2>3. over \in {"waiting", "failed"}
    OBVIOUS
  <2> HIDE DEF new, over
  <2>4. j = k /\ jobs'[j] = new
    BY <1>1, <1>3, <2>1
  <2>5. jobs[j].state = "active"
    BY <1>0, <2>1, <2>4 DEF JobsInv, WellFormed
  <2>6. jobs[j].attempts \in Nat /\ jobs[j].stalls \in Nat
    BY <1>1 DEF JobRecord
  <2> QED BY <2>2, <2>3, <2>4, <2>5, <2>6 DEF Keeps, Takes
<1> QED BY <1>2, <1>3

\* The step of a handler keeps every record.
LEMMA WorkerKeeps ==
  ASSUME TypesInv, NEW w \in Worker, WorkerStep(w), NEW j \in JobId
  PROVE  Keeps(jobs[j], jobs'[j])
<1>1. exec[w].pc # "idle" /\ SlotStepEnds(w)
  BY WorkerEnds
<1>2. JobsInv(jobs) /\ jobs[j] \in JobRecord /\ exec[w].job \in JobId /\ exec[w].run \in Run
  BY <1>1, Busy DEF TypesInv, TypeInv, QueueInv, JobsInv
<1>3. CASE Finish(w)
  BY <1>2, <1>3, AcknowledgedKeeps DEF Finish
<1>4. CASE Throw(w)
  BY <1>1, <1>4, ThrowKeeps
<1>5. ASSUME NEW k \in {TopicJob, RecJob}, AddAndFinish(w, k)
      PROVE  Keeps(jobs[j], jobs'[j])
  <2> DEFINE q == Enqueue(jobs, k, exec[w].run)
  <2>1. JobsInv(q) /\ Keeps(jobs[j], q[j])
    BY <1>2, EnqueueInv, EnqueueKeeps
  <2>2. jobs' \in Acknowledged(q, w)
    BY <1>5 DEF AddAndFinish
  <2> HIDE DEF q
  <2>3. Keeps(q[j], jobs'[j])
    BY <1>2, <2>1, <2>2, AcknowledgedKeeps
  <2>4. q[j] \in JobRecord /\ jobs'[j] \in JobRecord
    BY <1>1, <2>1, EndsKeepQueue DEF QueueInv, JobsInv
  <2> QED BY <1>2, <2>1, <2>3, <2>4, KeepsTwice
<1>6. CASE (\E label : Goto(w, label)) \/ (\E label, r : GotoRun(w, label, r))
  <2>1. jobs' = jobs
    BY <1>6 DEF Goto, GotoRun
  <2> QED BY <1>2, <2>1, KeepsSame
<1> QED BY <1>1, <1>3, <1>4, <1>5, <1>6 DEF SlotStepEnds

\* Takes by a slot, and the other steps of the queue.
LEMMA TakeKeeps ==
  ASSUME TypesInv, NEW k \in JobId, NEW w \in Worker, Take(w, k)
  PROVE  /\ \A v \in Worker \ {w} : exec'[v] = exec[v]
         /\ exec[w].pc = "idle" /\ exec'[w].job = k
         /\ \A j \in JobId \ {k} : jobs'[j] = jobs[j]
         /\ jobs[k].state = "waiting" /\ jobs'[k].state = "active"
         /\ jobs'[k].attempts = jobs[k].attempts /\ jobs'[k].stalls = jobs[k].stalls
         /\ jobs'[k].run = jobs[k].run
<1> DEFINE new == [jobs[k] EXCEPT !.state = "active", !.owner = w]
           at  == [job |-> k, pc |-> "answer", run |-> jobs[k].run]
<1>1. /\ exec \in [Worker -> ExecRecord(PipelinePc)]
      /\ jobs \in [JobId -> JobRecord] /\ jobs[k] \in JobRecord
  BY Busy DEF TypesInv, TypeInv, QueueInv, JobsInv
<1>2. /\ jobs' = [jobs EXCEPT ![k] = new] /\ exec' = [exec EXCEPT ![w] = at]
      /\ exec[w].pc = "idle" /\ jobs[k].state = "waiting"
  BY DEF Take
<1>3. /\ new.state = "active" /\ new.run = jobs[k].run /\ at.job = k
      /\ new.attempts = jobs[k].attempts /\ new.stalls = jobs[k].stalls
  BY <1>1 DEF JobRecord
<1> HIDE DEF new, at
<1>4. /\ jobs'[k] = new /\ exec'[w] = at
      /\ \A j \in JobId \ {k} : jobs'[j] = jobs[j]
      /\ \A v \in Worker \ {w} : exec'[v] = exec[v]
  BY <1>1, <1>2
<1> QED BY <1>2, <1>3, <1>4

LEMMA StallKeeps ==
  ASSUME TypesInv, NEW k \in JobId, Stall(k), NEW j \in JobId
  PROVE  Keeps(jobs[j], jobs'[j])
<1> DEFINE again == [jobs[k] EXCEPT !.state = "waiting",
                                    !.stalls = jobs[k].stalls + 1,
                                    !.owner = NoWorker]
           over  == [jobs[k] EXCEPT !.state = "failed",
                                    !.attempts = jobs[k].attempts + 1,
                                    !.owner = NoWorker]
<1>1. jobs \in [JobId -> JobRecord] /\ jobs[j] \in JobRecord /\ jobs[k] \in JobRecord
  BY DEF TypesInv, TypeInv, QueueInv, JobsInv
<1>2. jobs[k].state = "active"
      /\ (jobs' = [jobs EXCEPT ![k] = again] \/ jobs' = [jobs EXCEPT ![k] = over])
  BY DEF Stall
<1>3. /\ again.state = "waiting" /\ again.run = jobs[k].run
      /\ again.attempts = jobs[k].attempts /\ again.stalls = jobs[k].stalls + 1
      /\ over.state = "failed" /\ over.run = jobs[k].run
      /\ over.attempts = jobs[k].attempts + 1 /\ over.stalls = jobs[k].stalls
  BY <1>1 DEF JobRecord
<1>4. jobs[k].attempts \in Nat /\ jobs[k].stalls \in Nat
  BY <1>1 DEF JobRecord
<1> HIDE DEF again, over
<1>5. j # k => jobs'[j] = jobs[j]
  BY <1>1, <1>2
<1>6. j = k => jobs'[j] = again \/ jobs'[j] = over
  BY <1>1, <1>2
<1>7. CASE j # k
  BY <1>1, <1>5, <1>7, KeepsSame
<1>8. CASE j = k
  BY <1>2, <1>3, <1>4, <1>6, <1>8 DEF Keeps, Takes
<1> QED BY <1>7, <1>8

LEMMA CrashKeeps ==
  ASSUME TypesInv, QueueCrash, NEW j \in JobId
  PROVE  Keeps(jobs[j], jobs'[j])
<1>1. jobs \in [JobId -> JobRecord] /\ jobs[j] \in JobRecord
  BY DEF TypesInv, TypeInv, QueueInv, JobsInv
<1>2. jobs'[j] = Orphaned(jobs[j])
  BY DEF QueueCrash
<1>3. /\ jobs'[j].state = jobs[j].state /\ jobs'[j].run = jobs[j].run
      /\ jobs'[j].attempts = jobs[j].attempts /\ jobs'[j].stalls = jobs[j].stalls
  BY <1>1, <1>2 DEF Orphaned, JobRecord
<1>4. jobs[j].attempts \in Nat /\ jobs[j].stalls \in Nat
  BY <1>1 DEF JobRecord
<1> QED BY <1>3, <1>4 DEF Keeps, Takes

\* What the proofs of the steps use of the state.
LEMMA SetTypes ==
  ASSUME TypesInv
  PROVE  /\ topicSets \in [Run -> Nat] /\ actionSets \in [Run -> Nat]
         /\ \A j \in JobId : jobs[j] \in JobRecord /\ WellFormed(jobs[j])
         /\ TopicJob \in JobId /\ RecJob \in JobId
BY DEF TypesInv, TypeInv, QueueInv, JobsInv, LaterTypes

\* A handler's step: it stores, or it does not, and nobody starts to.
LEMMA SetsWorker ==
  ASSUME TypesInv, TypesInv', RunInv, SetsInv, NEW w \in Worker, WorkerStep(w)
  PROVE  SetsInv'
<1>0. /\ topicSets' \in [Run -> Nat] /\ actionSets' \in [Run -> Nat]
      /\ jobs'[TopicJob] \in JobRecord /\ jobs'[RecJob] \in JobRecord
  BY DEF TypesInv, TypeInv, QueueInv, JobsInv, LaterTypes
<1>1. exec[w].pc # "idle" /\ SlotStepEnds(w) /\ Flows(w) /\ Stores(w)
  BY WorkerEnds, WorkerDispatches
<1>2. \A v \in Worker \ {w} : exec'[v] = exec[v]
  BY <1>1, EndsFrame
<1>3. exec'[w].pc \in StorePc => exec[w].pc = "answer" /\ exec'[w].job = exec[w].job
  BY <1>1, GoesOn DEF Flows, StageFlow, LaterFlow, StorePc
<1>4. /\ Storing(TopicJob)' \subseteq Storing(TopicJob)
      /\ Storing(RecJob)' \subseteq Storing(RecJob)
  BY <1>2, <1>3 DEF Storing, StorePc
<1>5. exec[w].pc \in {"topicPersist", "recPersist"} =>
        /\ Storing(TopicJob)' \subseteq Storing(TopicJob) \ {w}
        /\ Storing(RecJob)' \subseteq Storing(RecJob) \ {w}
  BY <1>2, <1>3 DEF Storing, StorePc
<1>6. \A j \in JobId : Keeps(jobs[j], jobs'[j])
  BY WorkerKeeps
<1>7. Paid(Storing(TopicJob), jobs[TopicJob], topicSets)'
  <2>1. CASE topicSets' = topicSets
    <3>1. Paid(Storing(TopicJob), jobs[TopicJob], topicSets)
      BY DEF SetsInv
    <3>2. /\ topicSets \in [Run -> Nat] /\ Keeps(jobs[TopicJob], jobs'[TopicJob])
          /\ jobs[TopicJob] \in JobRecord /\ jobs'[TopicJob] \in JobRecord
      BY <1>0, <1>6, SetTypes
    <3>3. Paid(Storing(TopicJob)', jobs'[TopicJob], topicSets)
      BY <1>4, <3>1, <3>2, PaidKeeps
    <3> QED BY <2>1, <3>3
  <2>2. CASE topicSets' # topicSets
    <3>1. /\ exec[w].pc = "topicPersist" /\ exec'[w].pc = "topicComplete"
          /\ topicSets' = [topicSets EXCEPT ![exec[w].run] = @ + 1]
      BY <1>1, <2>2 DEF Stores
    <3>2. exec[w].job = TopicJob /\ w \in Storing(TopicJob)
      BY <3>1 DEF TypesInv, PlaceInv, TopicPc, Storing, StorePc
    <3>3. exec[w].run = jobs[TopicJob].run /\ exec[w].run \in Run
      BY <1>1, <3>1, <3>2, Busy DEF RunInv
    <3>4. Paid(Storing(TopicJob) \ {w}, jobs[TopicJob], topicSets')
      BY <3>1, <3>2, <3>3, SetTypes, PaidStore DEF SetsInv
    <3>5. Storing(TopicJob)' \subseteq Storing(TopicJob) \ {w}
      BY <1>5, <3>1
    <3>6. topicSets' \in [Run -> Nat] /\ jobs'[TopicJob] \in JobRecord
      BY <1>0
    <3> QED BY <1>6, <3>4, <3>5, <3>6, SetTypes, PaidKeeps
  <2> QED BY <2>1, <2>2
<1>8. Paid(Storing(RecJob), jobs[RecJob], actionSets)'
  <2>1. CASE actionSets' = actionSets
    <3>1. Paid(Storing(RecJob), jobs[RecJob], actionSets)
      BY DEF SetsInv
    <3>2. /\ actionSets \in [Run -> Nat] /\ Keeps(jobs[RecJob], jobs'[RecJob])
          /\ jobs[RecJob] \in JobRecord /\ jobs'[RecJob] \in JobRecord
      BY <1>0, <1>6, SetTypes
    <3>3. Paid(Storing(RecJob)', jobs'[RecJob], actionSets)
      BY <1>4, <3>1, <3>2, PaidKeeps
    <3> QED BY <2>1, <3>3
  <2>2. CASE actionSets' # actionSets
    <3>1. /\ exec[w].pc = "recPersist" /\ exec'[w].pc = "recComplete"
          /\ actionSets' = [actionSets EXCEPT ![exec[w].run] = @ + 1]
      BY <1>1, <2>2 DEF Stores
    <3>2. exec[w].job = RecJob /\ w \in Storing(RecJob)
      BY <3>1 DEF TypesInv, PlaceInv, RecPc, Storing, StorePc
    <3>3. exec[w].run = jobs[RecJob].run /\ exec[w].run \in Run
      BY <1>1, <3>1, <3>2, Busy DEF RunInv
    <3>4. Paid(Storing(RecJob) \ {w}, jobs[RecJob], actionSets')
      BY <3>1, <3>2, <3>3, SetTypes, PaidStore DEF SetsInv
    <3>5. Storing(RecJob)' \subseteq Storing(RecJob) \ {w}
      BY <1>5, <3>1
    <3>6. actionSets' \in [Run -> Nat] /\ jobs'[RecJob] \in JobRecord
      BY <1>0
    <3> QED BY <1>6, <3>4, <3>5, <3>6, SetTypes, PaidKeeps
  <2> QED BY <2>1, <2>2
<1> QED BY <1>7, <1>8 DEF SetsInv

\* A step of nobody's handler: the slots that are to store stay or are gone.
LEMMA SetsKeep ==
  ASSUME TypesInv, TypesInv', SetsInv, UNCHANGED <<topicSets, actionSets>>,
         NEW j \in {TopicJob, RecJob}, Storing(j)' \subseteq Storing(j),
         Keeps(jobs[j], jobs'[j])
  PROVE  /\ j = TopicJob => Paid(Storing(TopicJob)', jobs'[TopicJob], topicSets')
         /\ j = RecJob => Paid(Storing(RecJob)', jobs'[RecJob], actionSets')
<1>1. /\ topicSets \in [Run -> Nat] /\ actionSets \in [Run -> Nat]
      /\ jobs[j] \in JobRecord /\ jobs'[j] \in JobRecord
  BY DEF TypesInv, TypeInv, QueueInv, JobsInv, LaterTypes
<1>2. ASSUME j = TopicJob PROVE Paid(Storing(TopicJob)', jobs'[TopicJob], topicSets')
  <2>1. Paid(Storing(TopicJob), jobs[TopicJob], topicSets)
    BY DEF SetsInv
  <2>2. Storing(TopicJob)' \subseteq Storing(TopicJob)
    BY <1>2
  <2>3. Paid(Storing(TopicJob)', jobs'[TopicJob], topicSets)
    BY <1>1, <1>2, <2>1, <2>2, PaidKeeps
  <2> QED BY <2>3
<1>3. ASSUME j = RecJob PROVE Paid(Storing(RecJob)', jobs'[RecJob], actionSets')
  <2>1. Paid(Storing(RecJob), jobs[RecJob], actionSets)
    BY DEF SetsInv
  <2>2. Storing(RecJob)' \subseteq Storing(RecJob)
    BY <1>3
  <2>3. Paid(Storing(RecJob)', jobs'[RecJob], actionSets)
    BY <1>1, <1>3, <2>1, <2>2, PaidKeeps
  <2> QED BY <2>3
<1> QED BY <1>2, <1>3

\* A take adds the slot to those of its job.
LEMMA SetsTake ==
  ASSUME TypesInv, TypesInv', SetsInv, UNCHANGED <<topicSets, actionSets>>,
         NEW k \in JobId, NEW w \in Worker, Take(w, k)
  PROVE  SetsInv'
<1>0. /\ topicSets \in [Run -> Nat] /\ actionSets \in [Run -> Nat]
      /\ TopicJob \in JobId /\ RecJob \in JobId
      /\ \A j \in JobId : jobs[j] \in JobRecord /\ jobs'[j] \in JobRecord
  BY DEF TypesInv, TypeInv, QueueInv, JobsInv, LaterTypes
<1>1. /\ \A v \in Worker \ {w} : exec'[v] = exec[v]
      /\ exec[w].pc = "idle" /\ exec'[w].job = k
      /\ \A j \in JobId \ {k} : jobs'[j] = jobs[j]
      /\ jobs[k].state = "waiting" /\ jobs'[k].state = "active"
      /\ jobs'[k].attempts = jobs[k].attempts /\ jobs'[k].stalls = jobs[k].stalls
      /\ jobs'[k].run = jobs[k].run
  BY TakeKeeps
<1>2. exec'[w].pc = "answer"
  BY Busy DEF Take
<1>3. /\ Paid(Storing(TopicJob), jobs[TopicJob], topicSets)
      /\ Paid(Storing(RecJob), jobs[RecJob], actionSets)
  BY DEF SetsInv
<1>4. Paid(Storing(TopicJob)', jobs'[TopicJob], topicSets)
  <2>1. CASE k = TopicJob
    <3>1. Storing(TopicJob)' = Storing(TopicJob) \cup {w} /\ w \notin Storing(TopicJob)
      BY <1>1, <1>2, <2>1 DEF Storing, StorePc
    <3> QED BY <1>0, <1>1, <1>3, <2>1, <3>1, PaidTake
  <2>2. CASE k # TopicJob
    <3>1. Storing(TopicJob)' \subseteq Storing(TopicJob)
      BY <1>1, <2>2 DEF Storing
    <3>2. Keeps(jobs[TopicJob], jobs'[TopicJob])
      BY <1>0, <1>1, <2>2, KeepsSame
    <3> QED BY <1>0, <1>3, <3>1, <3>2, PaidKeeps
  <2> QED BY <2>1, <2>2
<1>5. Paid(Storing(RecJob)', jobs'[RecJob], actionSets)
  <2>1. CASE k = RecJob
    <3>1. Storing(RecJob)' = Storing(RecJob) \cup {w} /\ w \notin Storing(RecJob)
      BY <1>1, <1>2, <2>1 DEF Storing, StorePc
    <3> QED BY <1>0, <1>1, <1>3, <2>1, <3>1, PaidTake
  <2>2. CASE k # RecJob
    <3>1. Storing(RecJob)' \subseteq Storing(RecJob)
      BY <1>1, <2>2 DEF Storing
    <3>2. Keeps(jobs[RecJob], jobs'[RecJob])
      BY <1>0, <1>1, <2>2, KeepsSame
    <3> QED BY <1>0, <1>3, <3>1, <3>2, PaidKeeps
  <2> QED BY <2>1, <2>2
<1> QED BY <1>4, <1>5 DEF SetsInv

\* The other steps: requests, stalls, crashes, listeners and the marking.
LEMMA SetsOthers ==
  ASSUME TypesInv, TypesInv', SetsInv,
         \/ /\ \E h \in Caller : ConfirmRead(h) \/ CancelRead(h) \/ CallerProgress(h)
            /\ UNCHANGED laterVars
         \/ QueueSteps
         \/ RecMarkRead \/ RecMarkFlush \/ UNCHANGED pipelineVars
  PROVE  SetsInv'
<1>0. \A j \in JobId : jobs[j] \in JobRecord
  BY SetTypes
<1>1. UNCHANGED <<topicSets, actionSets>>
  BY DEF QueueSteps, PipelineTake, PipelineOnFailed, PipelineStall, PipelineCrash,
     RecMarkRead, RecMarkFlush, pipelineVars, laterVars, topicVars, recVars
<1>2. ASSUME /\ Storing(TopicJob)' \subseteq Storing(TopicJob)
             /\ Storing(RecJob)' \subseteq Storing(RecJob)
             /\ \A j \in JobId : Keeps(jobs[j], jobs'[j])
      PROVE  SetsInv'
  <2>1. /\ Keeps(jobs[TopicJob], jobs'[TopicJob]) /\ Keeps(jobs[RecJob], jobs'[RecJob])
    BY <1>2
  <2>2. Paid(Storing(TopicJob)', jobs'[TopicJob], topicSets')
    BY <1>1, <1>2, <2>1, SetsKeep
  <2>3. Paid(Storing(RecJob)', jobs'[RecJob], actionSets')
    BY <1>1, <1>2, <2>1, SetsKeep
  <2> QED BY <2>2, <2>3 DEF SetsInv
<1>3. CASE \E h \in Caller : ConfirmRead(h) \/ CancelRead(h) \/ CallerProgress(h)
  <2>1. exec' = exec
    BY <1>3, CallerJobs
  <2>2. \A j \in JobId : Keeps(jobs[j], jobs'[j])
    BY <1>0, <1>3, CallerJobs, KeepsSame, EnqueueKeeps DEF TypesInv, TypeInv, QueueInv
  <2> QED BY <1>2, <2>1, <2>2 DEF Storing
<1>4. ASSUME NEW k \in JobId, NEW w \in Worker, Take(w, k)
      PROVE  SetsInv'
  BY <1>1, <1>4, SetsTake
<1>5. CASE (\E k \in JobId : Stall(k)) /\ exec' = exec
  <2>1. \A j \in JobId : Keeps(jobs[j], jobs'[j])
    BY <1>5, StallKeeps
  <2> QED BY <1>2, <1>5, <2>1 DEF Storing
<1>6. CASE QueueCrash
  <2>1. \A j \in JobId : Keeps(jobs[j], jobs'[j])
    BY <1>6, CrashKeeps
  <2>2. \A v \in Worker : exec'[v].pc = "idle"
    BY <1>6 DEF QueueCrash, Idle
  <2> QED BY <1>2, <2>1, <2>2 DEF Storing, StorePc
<1>7. CASE UNCHANGED <<jobs, exec>>
  BY <1>0, <1>2, <1>7, KeepsSame DEF Storing
<1>8. ASSUME QueueSteps PROVE SetsInv'
  <2>1. CASE PipelineCrash
    BY <1>6, <2>1 DEF PipelineCrash, Crash
  <2>2. ASSUME NEW k \in JobId, PipelineTake(k) PROVE SetsInv'
    BY <1>4, <2>2 DEF PipelineTake, TakeJob
  <2>3. ASSUME NEW k \in JobId, PipelineStall(k) PROVE SetsInv'
    BY <1>5, <2>3 DEF PipelineStall, StallJob, Stall
  <2>4. ASSUME NEW k \in JobId, PipelineOnFailed(k) PROVE SetsInv'
    BY <1>7, <2>4 DEF PipelineOnFailed, OnFailedRead, OnFailedFlush, OnFailedLost
  <2> QED BY <1>8, <2>1, <2>2, <2>3, <2>4 DEF QueueSteps
<1>9. RecMarkRead \/ RecMarkFlush \/ UNCHANGED pipelineVars => UNCHANGED <<jobs, exec>>
  BY DEF RecMarkRead, RecMarkFlush, pipelineVars, vars, queueVars
<1> QED BY <1>3, <1>7, <1>8, <1>9

\* No record is taken before it is added.
LEMMA SetsInit == PipelineInit => SetsInv
<1> SUFFICES ASSUME PipelineInit PROVE SetsInv
  OBVIOUS
<1>1. /\ TopicJob \in JobId /\ RecJob \in JobId
      /\ jobs = [j \in JobId |-> NeverAdded] /\ exec = [w \in Worker |-> Idle]
      /\ topicSets = [r \in Run |-> 0] /\ actionSets = [r \in Run |-> 0]
  BY DEF PipelineInit, Init, QueueInit
<1>2. Storing(TopicJob) = {} /\ Storing(RecJob) = {}
  BY <1>1 DEF Storing, Idle, StorePc
<1>3. Takes(NeverAdded) = 0
  BY DEF Takes, NeverAdded
<1>4. Paid({}, NeverAdded, [r \in Run |-> 0])
  BY <1>3, FS_EmptySet DEF Paid
<1> QED BY <1>1, <1>2, <1>4 DEF SetsInv

\* Every step keeps what was paid, and the runs of the slots that are to store.
StoreInv == TypesInv /\ RunInv /\ SetsInv

LEMMA RunOthers ==
  ASSUME TypesInv, RunInv,
         \/ /\ \E h \in Caller : ConfirmRead(h) \/ CancelRead(h) \/ CallerProgress(h)
            /\ UNCHANGED laterVars
         \/ QueueSteps
         \/ RecMarkRead \/ RecMarkFlush \/ UNCHANGED pipelineVars
  PROVE  RunInv'
<1>0. \A w \in Worker :
        exec[w].pc # "idle" => exec[w].job \in JobId /\ jobs[exec[w].job].state # "absent"
  BY Busy DEF TypesInv, PlaceInv
<1>1. CASE \E h \in Caller : ConfirmRead(h) \/ CancelRead(h) \/ CallerProgress(h)
  <2>1. /\ exec' = exec
        /\ \A j \in JobId : jobs[j].state = "absent" \/ jobs'[j] = jobs[j]
    BY <1>1, CallerJobs, Enqueued DEF TypesInv, TypeInv, QueueInv
  <2> QED BY <1>0, <2>1 DEF RunInv
<1>2. CASE QueueSteps
  BY <1>0, <1>2, QueueStepsMove DEF RunInv
<1>3. CASE RecMarkRead \/ RecMarkFlush \/ UNCHANGED pipelineVars
  BY <1>3 DEF RecMarkRead, RecMarkFlush, pipelineVars, vars, queueVars, RunInv
<1> QED BY <1>1, <1>2, <1>3

LEMMA StoreStep == StoreInv /\ [PipelineNext]_pipelineVars => StoreInv'
<1> SUFFICES ASSUME StoreInv, [PipelineNext]_pipelineVars PROVE StoreInv'
  OBVIOUS
<1>1. TypesInv /\ TypesInv' /\ RunInv /\ SetsInv
  BY TypesStep DEF StoreInv
<1>2. CASE \E w \in Worker : WorkerStep(w)
  BY <1>1, <1>2, RunWorker, SetsWorker DEF StoreInv
<1>3. CASE ~(\E w \in Worker : WorkerStep(w))
  <2>1. \/ /\ \E h \in Caller : ConfirmRead(h) \/ CancelRead(h) \/ CallerProgress(h)
           /\ UNCHANGED laterVars
        \/ QueueSteps
        \/ RecMarkRead \/ RecMarkFlush \/ UNCHANGED pipelineVars
    BY <1>3 DEF PipelineNext, QueueSteps
  <2> QED BY <1>1, <2>1, RunOthers, SetsOthers DEF StoreInv
<1> QED BY <1>2, <1>3

\* The types of the whole pipeline, with the bound on the rows: a stage inserts
\* its rows at most once per attempt and per expired lock of its job, whatever
\* fails and however the handlers, the stalled ones included, interleave.
THEOREM PipelineTypeCorrect == PipelineSpec => []PipelineTypeOK
<1>1. PipelineInit => StoreInv
  <2>1. PipelineInit => RunInv
    BY DEF PipelineInit, Init, QueueInit, Idle, RunInv
  <2> QED BY <2>1, TypesInit, SetsInit DEF StoreInv
<1>2. StoreInv => PipelineTypeOK
  <2> SUFFICES ASSUME StoreInv PROVE PipelineTypeOK
    OBVIOUS
  <2>1. TypesInv /\ SetsInv
    BY DEF StoreInv
  <2>2. topicSets \in [Run -> 0..MaxSets] /\ actionSets \in [Run -> 0..MaxSets]
    BY <2>1, SetTypes, PaidBound DEF SetsInv
  <2>3. QueueTypeOK(PipelinePc)
    BY <2>1, QueueTyped DEF TypesInv, TypeInv
  <2> QED BY <2>1, <2>2, <2>3 DEF PipelineTypeOK, TypesInv, TypeInv, LaterTypes
<1> QED BY <1>1, <1>2, StoreStep, PTL DEF PipelineSpec

=============================================================================
