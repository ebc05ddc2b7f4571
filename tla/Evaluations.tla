---------------------------- MODULE Evaluations ----------------------------
(***************************************************************************)
(* The rows that the dashboards and reports about one teacher are read     *)
(* from: submissions with their answers, the label rows and topics of      *)
(* analysis pipelines, and WipeSubmissions, which takes both away.         *)
(*                                                                         *)
(* A pipeline is what its readers see of it: its rows and its status.  How *)
(* it gets there, attempt by attempt, is SentimentStage and                *)
(* AnalysisPipeline.  Labels and topics come from the workers, which are   *)
(* external.  Dashboards and FacultyReport add the readers.                *)
(***************************************************************************)
EXTENDS Ratings, FiniteSets, FiniteSetsExt, Functions

CONSTANTS
  Submission, Question,
  Sheet,      \* of a submission: its type, answers, score and comment
  Label,      \* sentiment labels
  Scopes,     \* of pipelines: of the teacher alone (TRUE) or wider
  Versioned,  \* the types that get a new version
  Wiped,      \* the types that get wiped
  MaxVersion, \* bound on the versions of a type
  MaxTerm,    \* bound on the semesters, numbered by their start
  MaxPipes,   \* bound on the pipelines, numbered by their creation
  MaxThemes,  \* bound on the topics of a run, the biggest first
  MaxFaults   \* bound on failures and crashes

Version == 1..MaxVersion
Term    == 1..MaxTerm
Pipe    == 1..MaxPipes
Theme   == 1..MaxThemes
Kind    == {"positive", "neutral", "negative"}
None    == "none"

ASSUME EvaluationsAssumption ==
  /\ IsFiniteSet(Submission) /\ IsFiniteSet(Question) /\ Question # {}
  /\ Label \subseteq Kind /\ Versioned \subseteq RatedType /\ Wiped \subseteq RatedType
  /\ Scopes \subseteq BOOLEAN
  /\ Sheet \in [Submission ->
       [type : RatedType, answers : [Question -> 1..5], score : 0..100,
        comment : {"none", "noise", "short", "long"}]]
  /\ MaxThemes \in {1, 2}
  /\ MaxVersion \in Nat \ {0} /\ MaxTerm \in Nat \ {0}
  /\ MaxPipes \in Nat /\ MaxFaults \in Nat

VARIABLES
  term,   \* the semester that is running
  active, \* the version of each type that is published
  rows,   \* submissions; a bare one has lost its answers
  pipes,  \* pipelines with their label rows and topics
  wipe,   \* WipeSubmissions, if it runs or ran
  faults

evaluations == <<term, active, rows, pipes, wipe, faults>>

NoPipe ==
  [status |-> "none", own |-> FALSE, term |-> 1, covers |-> {}, stamp |-> 0,
   label |-> [s \in Submission |-> None], theme |-> [s \in Submission |-> 0],
   topics |-> 0]

PipeRecord ==
  [status : {"none", "sentiment", "topics", "recommendations", "completed", "failed"},
   own : BOOLEAN,      \* of the teacher, not of a department or campus
   term : Term,
   covers : SUBSET Submission,
   stamp : 0..MaxPipes,                          \* order of processed_at
   label : [Submission -> Label \cup {None}],
   theme : [Submission -> Theme \cup {0}],       \* dominant topic
   topics : 0..MaxThemes]

EvaluationsTypeOK ==
  /\ term \in Term /\ active \in [RatedType -> Version]
  /\ rows \in [Submission -> [state : {"none", "in", "bare", "gone"}, term : Term,
                              version : Version]]
  /\ pipes \in [Pipe -> PipeRecord]
  /\ \A p \in Pipe : \A s \in Submission :
       pipes[p].label[s] # None => s \in pipes[p].covers /\ rows[s].state \in {"in", "bare"}
  /\ wipe \in [pc : {"idle", "assignments", "labels", "answers", "rows", "ended"},
               ids : SUBSET Submission]
  /\ faults \in 0..MaxFaults

EvaluationsInit ==
  /\ term = 1 /\ active = [t \in RatedType |-> 1]
  /\ rows = [s \in Submission |-> [state |-> "none", term |-> 1, version |-> 1]]
  /\ pipes = [p \in Pipe |-> NoPipe]
  /\ wipe = [pc |-> "idle", ids |-> {}]
  /\ faults = 0

Stored   == {s \in Submission : rows[s].state \in {"in", "bare"}}
Answered == {s \in Submission : rows[s].state = "in"}
Commented(S) == {s \in S : Sheet[s].comment # "none"}
Cleaned(S)   == {s \in S : Sheet[s].comment \in {"short", "long"}}

\* How many of the submissions S have which label.
Breakdown(label, S) == [k \in Kind |-> Cardinality({s \in S : label[s] = k})]
Total(split) == split["positive"] + split["neutral"] + split["negative"]

-----------------------------------------------------------------------------
(* Semesters, versions, submissions.                                       *)

NextTerm ==
  /\ term < MaxTerm /\ term' = term + 1
  /\ UNCHANGED <<active, rows, pipes, wipe, faults>>

Publish(t) ==
  /\ active[t] < MaxVersion /\ active' = [active EXCEPT ![t] = @ + 1]
  /\ UNCHANGED <<term, rows, pipes, wipe, faults>>

Post(s) ==
  /\ rows[s].state = "none"
  /\ rows' = [rows EXCEPT ![s] =
       [state |-> "in", term |-> term, version |-> active[Sheet[s].type]]]
  /\ UNCHANGED <<term, active, pipes, wipe, faults>>

-----------------------------------------------------------------------------
(* Pipelines.                                                              *)

Active(p) == pipes[p].status \in {"sentiment", "topics", "recommendations"}

\* A pipeline of the teacher (own) or of a wider scope, confirmed.
Dispatch(p) ==
  \E own \in Scopes, m \in 1..term :
    /\ pipes[p].status = "none" /\ \A q \in 1..(p - 1) : pipes[q].status # "none"
    /\ \A q \in Pipe : Active(q) => pipes[q].own # own \/ pipes[q].term # m
    /\ LET covers == {s \in Cleaned(Stored) : rows[s].term = m} IN
       /\ covers # {}
       /\ pipes' = [pipes EXCEPT ![p].status = "sentiment", ![p].own = own,
                                 ![p].term = m, ![p].covers = covers]
    /\ UNCHANGED <<term, active, rows, wipe, faults>>

\* A mutant of Analyse: nothing refuses the rows.
AnalyseAnyway(p) ==
  /\ pipes[p].status = "sentiment"
  /\ \E l \in [pipes[p].covers -> Label] :
       pipes' = [pipes EXCEPT
         ![p].status = "topics",
         ![p].label = [s \in Submission |->
                         IF s \in pipes[p].covers THEN l[s] ELSE None],
         ![p].stamp = 1 + Max({pipes[q].stamp : q \in Pipe})]
  /\ UNCHANGED <<term, active, rows, wipe, faults>>

\* All its chunks have landed.  A row for a submission that a wipe has taken
\* away is refused by the foreign key.
Analyse(p) ==
  /\ pipes[p].status = "sentiment" /\ pipes[p].covers \subseteq Stored
  /\ \E l \in [pipes[p].covers -> Label] :
       pipes' = [pipes EXCEPT
         ![p].status = "topics",
         ![p].label = [s \in Submission |->
                         IF s \in pipes[p].covers THEN l[s] ELSE None],
         ![p].stamp = 1 + Max({pipes[q].stamp : q \in Pipe})]
  /\ UNCHANGED <<term, active, rows, wipe, faults>>

\* The gate: everything but short praise.
Gated(p) ==
  {s \in Stored : /\ pipes[p].label[s] # None
                  /\ \/ pipes[p].label[s] # "positive"
                     \/ Sheet[s].comment = "long"}

\* The topics of what passed the gate, in one transaction, and their labels.
Topics(p) ==
  /\ pipes[p].status = "topics" /\ Gated(p) # {}
  /\ \E th \in [Gated(p) -> Theme] :
       LET size(t) == Cardinality({s \in Gated(p) : th[s] = t}) IN
       /\ size(1) >= size(2)
       /\ pipes' = [pipes EXCEPT
            ![p].status = "recommendations",
            ![p].theme = [s \in Submission |-> IF s \in Gated(p) THEN th[s] ELSE 0],
            ![p].topics = IF size(2) = 0 THEN 1 ELSE 2]
  /\ UNCHANGED <<term, active, rows, wipe, faults>>

\* The status is committed.
Complete(p) ==
  /\ pipes[p].status = "recommendations"
  /\ pipes' = [pipes EXCEPT ![p].status = "completed"]
  /\ UNCHANGED <<term, active, rows, wipe, faults>>

\* A stage fails: the workers or the model refuse, nothing passes the gate, or a
\* submission is gone.
PipeFails(p) ==
  /\ Active(p)
  /\ pipes' = [pipes EXCEPT ![p].status = "failed"]
  /\ UNCHANGED <<term, active, rows, wipe, faults>>

PipeStep(p) == Dispatch(p) \/ Analyse(p) \/ Topics(p) \/ PipeFails(p)

-----------------------------------------------------------------------------
(* WipeSubmissions of a version of a questionnaire: statement by statement. *)

WipeStart ==
  /\ wipe.pc = "idle"
  /\ \E t \in Wiped, v \in Version :
       LET ids == {s \in Stored : Sheet[s].type = t /\ rows[s].version = v} IN
       ids # {} /\ wipe' = [pc |-> "assignments", ids |-> ids]
  /\ UNCHANGED <<term, active, rows, pipes, faults>>

WipeAssignments ==
  /\ wipe.pc = "assignments" /\ wipe' = [wipe EXCEPT !.pc = "labels"]
  /\ pipes' = [p \in Pipe |-> [pipes[p] EXCEPT
       !.theme = [s \in Submission |-> IF s \in wipe.ids THEN 0 ELSE @[s]]]]
  /\ UNCHANGED <<term, active, rows, faults>>

WipeLabels ==
  /\ wipe.pc = "labels" /\ wipe' = [wipe EXCEPT !.pc = "answers"]
  /\ pipes' = [p \in Pipe |-> [pipes[p] EXCEPT
       !.label = [s \in Submission |-> IF s \in wipe.ids THEN None ELSE @[s]]]]
  /\ UNCHANGED <<term, active, rows, faults>>

WipeAnswers ==
  /\ wipe.pc = "answers" /\ wipe' = [wipe EXCEPT !.pc = "rows"]
  /\ rows' = [s \in Submission |->
       IF s \in wipe.ids THEN [rows[s] EXCEPT !.state = "bare"] ELSE rows[s]]
  /\ UNCHANGED <<term, active, pipes, faults>>

\* Refused if a pipeline has stored a label or a topic meanwhile.
WipeRows ==
  /\ wipe.pc = "rows" /\ wipe' = [pc |-> "ended", ids |-> {}]
  /\ IF \A p \in Pipe, s \in wipe.ids :
          pipes[p].label[s] = None /\ pipes[p].theme[s] = 0
     THEN rows' = [s \in Submission |->
            IF s \in wipe.ids THEN [rows[s] EXCEPT !.state = "gone"] ELSE rows[s]]
     ELSE UNCHANGED rows
  /\ UNCHANGED <<term, active, pipes, faults>>

\* A statement fails or the process ends; there is no transaction.
WipeStops ==
  /\ wipe.pc \in {"labels", "answers", "rows"}
  /\ faults < MaxFaults /\ faults' = faults + 1
  /\ wipe' = [pc |-> "ended", ids |-> {}]
  /\ UNCHANGED <<term, active, rows, pipes>>

WipeStep ==
  WipeStart \/ WipeAssignments \/ WipeLabels \/ WipeAnswers \/ WipeRows \/ WipeStops

EvaluationsStep ==
  \/ NextTerm \/ WipeStep
  \/ \E t \in Versioned : Publish(t)
  \/ \E s \in Submission : Post(s)
  \/ \E p \in Pipe : PipeStep(p)

=============================================================================
