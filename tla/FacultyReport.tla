--------------------------- MODULE FacultyReport ---------------------------
(***************************************************************************)
(* The report about a teacher and a semester as AnalyticsService computes  *)
(* it from the answers on every request, the themes and comments of the    *)
(* latest pipeline, and the evidence RecommendationGenerationService       *)
(* stores with what the model recommends.  A question stands for its       *)
(* dimension.                                                              *)
(***************************************************************************)
EXTENDS Evaluations

CONSTANTS
  Section,
  SectionOf,     \* of a version of the schema: where each question is
  SectionWeight,
  MinComments,   \* MEDIUM_CONFIDENCE_MIN_COMMENTS
  ManyComments   \* HIGH_CONFIDENCE_MIN_COMMENTS

ASSUME FacultyReportAssumption ==
  /\ IsFiniteSet(Section)
  /\ SectionOf \in [Version -> [Question -> Section]]
  /\ SectionWeight \in [Section -> 1..100]
  /\ MinComments \in Nat /\ ManyComments \in Nat

VARIABLES
  gen,   \* Generate, of each pipeline: what it has read and the evidence it stored
  reader \* somebody who opened a qualitative summary

vars == <<evaluations, gen, reader>>

-----------------------------------------------------------------------------
(* The faculty report of a type and a semester.                            *)

Filed(t, m) == {s \in Stored : Sheet[s].type = t /\ rows[s].term = m}

\* GetAvailableFacultyQuestionnaireTypes.
Offered(m) == {t \in RatedType : Filed(t, m) # {}}

\* A mutant of Canonical: versions in ascending order.
CanonicalOldest(filed) == Min({rows[s].version : s \in filed})

\* resolveVersionIds: the newest version that has submissions gives the schema.
Canonical(filed) == Max({rows[s].version : s \in filed})

\* The answers of a question that were given in a section.
Given(filed, q, sec) ==
  {s \in filed \cap Answered : SectionOf[rows[s].version][q] = sec}

\* The questions of a section of the canonical schema that have answers there.
Asked(filed, sec) ==
  LET v == Canonical(filed) IN
  {q \in Question : SectionOf[v][q] = sec /\ Given(filed, q, sec) # {}}

\* Of the answers to a question in a section: SUM by value, 1 to 5.
QuestionAverage(filed, q, sec) ==
  LET S == Given(filed, q, sec) IN
  Average(SumTo([x \in 1..5 |-> x * Cardinality({s \in S : Sheet[s].answers[q] = x})], 5),
          Cardinality(S))

SectionAverage(filed, asked, sec) ==
  RoundDiv(SumFunction([q \in asked |-> QuestionAverage(filed, q, sec)]),
           Cardinality(asked))

OverallRating(t, m) ==
  LET filed == Filed(t, m)
      Sections == {sec \in Section : Asked(filed, sec) # {}}
      weighed == [sec \in Sections |->
                    SectionWeight[sec] * SectionAverage(filed, Asked(filed, sec), sec)]
  IN  IF filed = {} \/ Sections = {} THEN NoRating
      ELSE RoundDiv(SumFunction(weighed), SumFunctionOnSet(SectionWeight, Sections))

\* The mean of a dimension, here of one question, adds up the averages of all
\* the sections the question was ever in, each by the number of its answers.
DimensionAverage(t, m, q) ==
  LET filed == Filed(t, m)
      in == {sec \in Section : Given(filed, q, sec) # {}}
      count == [sec \in in |-> Cardinality(Given(filed, q, sec))]
  IN  RoundDiv(
        SumFunction([sec \in in |-> QuestionAverage(filed, q, sec) * count[sec]]),
        SumFunction(count))

\* computeFacultyPerTypeRatings and GetFacultyOverview.
TypeRatings(m) == [t \in RatedType |-> OverallRating(t, m)]
CompositeRating(m) == Composite(TypeRatings(m))

-----------------------------------------------------------------------------
(* Comments and themes.                                                    *)

\* A mutant of LatestCompleted: the newest, completed or not.
LatestStarted(m) ==
  LET all == {p \in Pipe : /\ pipes[p].own /\ pipes[p].term = m
                           /\ pipes[p].status # "none"}
  IN  IF all = {} THEN 0 ELSE Max(all)

\* findLatestCompletedPipelineByScope: of the teacher alone; 0 if there is none.
LatestCompleted(m) ==
  LET done == {p \in Pipe : /\ pipes[p].own /\ pipes[p].term = m
                            /\ pipes[p].status = "completed"}
  IN  IF done = {} THEN 0 ELSE Max(done)

\* BuildQualitativeSummary, of all types.
ThemeCount(p, t) == Cardinality({s \in Submission : pipes[p].theme[s] = t})
Distribution(p) == Breakdown(pipes[p].label, Submission)

\* GetFacultyReportComments with a filter: of one type, and of the runs of the
\* pipeline that is the latest at that moment.
ThemeComments(t, m, th) ==
  LET p == LatestCompleted(m) IN
  {s \in Commented(Filed(t, m)) : p # 0 /\ pipes[p].theme[s] = th}
SentimentComments(t, m, l) ==
  LET p == LatestCompleted(m) IN
  {s \in Commented(Filed(t, m)) : p # 0 /\ pipes[p].label[s] = l}

-----------------------------------------------------------------------------
(* The evidence of a recommendation.                                       *)

Assigned(p, th) == {s \in Submission : pipes[p].theme[s] = th}

\* deriveFacetFromTypeCodeCounts: 60% of them are of one type.
Facet(S) ==
  LET of(t) == {s \in S : Sheet[s].type = t} IN
  IF \E t \in RatedType : S # {} /\ 10 * Cardinality(of(t)) >= 6 * Cardinality(S)
  THEN CHOOSE t \in RatedType : 10 * Cardinality(of(t)) >= 6 * Cardinality(S)
  ELSE "overall"

\* ComputeConfidence.
Confidence(count, split) ==
  CASE count < MinComments -> "LOW"
    [] count >= MinComments /\ Total(split) = 0 -> "MEDIUM"
    [] OTHER ->
       IF /\ count >= ManyComments
          /\ \E k \in DOMAIN split : 10 * split[k] >= 7 * Total(split)
       THEN "HIGH" ELSE "MEDIUM"

Entry(of, count, split, facet) ==
  [of |-> of, comments |-> count, split |-> split, facet |-> facet,
   confidence |-> Confidence(count, split)]

\* The evidence for a recommendation on a theme.
ThemeEntry(p, th) ==
  LET S == Assigned(p, th) \cap gen[p].ids
  IN  Entry(th, Cardinality(S), Breakdown(gen[p].seen, S), Facet(S))

\* And for one that is about no theme (0).
GeneralEntry(p) ==
  Entry(0, Cardinality(gen[p].ids), Breakdown(gen[p].seen, Submission), "overall")

Evidence(p) ==
  {GeneralEntry(p)} \cup
  {ThemeEntry(p, th) : th \in 1..pipes[p].topics}

-----------------------------------------------------------------------------
NoReader == [pipe |-> 0, counts |-> [th \in Theme |-> 0], split |-> [k \in Kind |-> 0],
             wiped |-> "idle"]

NoGen == [step |-> "ids", ids |-> {}, seen |-> [s \in Submission |-> None], told |-> {}]

Init ==
  /\ EvaluationsInit
  /\ gen = [p \in Pipe |-> NoGen] /\ reader = NoReader

(* Generate, of the recommendations stage.                                 *)

\* It reads the submissions of the scope first,
GenerateIds(p) ==
  /\ pipes[p].status = "recommendations" /\ gen[p].step = "ids"
  /\ gen' = [gen EXCEPT
       ![p].step = "labels",
       ![p].ids = {s \in Cleaned(Stored) : rows[s].term = pipes[p].term}]
  /\ UNCHANGED <<evaluations, reader>>

\* A mutant of GenerateLabels: the labels of all that the run covered are
\* remembered from the sentiment stage.
GenerateAll(p) ==
  /\ pipes[p].status = "recommendations" /\ gen[p].step = "labels"
  /\ gen' = [gen EXCEPT
       ![p].step = "evidence",
       ![p].seen = [s \in Submission |->
         IF s \in pipes[p].covers THEN CHOOSE l \in Label : TRUE ELSE None]]
  /\ UNCHANGED <<evaluations, reader>>

\* then the labels of the newest run,
GenerateLabels(p) ==
  /\ pipes[p].status = "recommendations" /\ gen[p].step = "labels"
  /\ gen' = [gen EXCEPT ![p].step = "evidence", ![p].seen = pipes[p].label]
  /\ UNCHANGED <<evaluations, reader>>

\* then the assignments; the evidence is stored with the recommendations.
GenerateEvidence(p) ==
  /\ pipes[p].status = "recommendations" /\ gen[p].step = "evidence"
  /\ gen' = [gen EXCEPT ![p].step = "done", ![p].told = Evidence(p)]
  /\ UNCHANGED <<evaluations, reader>>

Finish(p) ==
  /\ gen[p].step = "done" /\ Complete(p)
  /\ UNCHANGED <<gen, reader>>

(* GetQualitativeSummary: what a reader keeps on the screen.               *)

OpenSummary(m) ==
  LET p == LatestCompleted(m) IN
  /\ p # 0 /\ reader = NoReader
  /\ reader' = [pipe |-> p, counts |-> [th \in Theme |-> ThemeCount(p, th)],
                split |-> Distribution(p), wiped |-> wipe.pc]
  /\ UNCHANGED <<evaluations, gen>>

CloseSummary ==
  /\ reader # NoReader /\ reader' = NoReader
  /\ UNCHANGED <<evaluations, gen>>

-----------------------------------------------------------------------------
Next ==
  \/ EvaluationsStep /\ UNCHANGED <<gen, reader>>
  \/ \E p \in Pipe : \/ GenerateIds(p) \/ GenerateLabels(p) \/ GenerateEvidence(p)
                     \/ Finish(p)
  \/ \E m \in Term : OpenSummary(m)
  \/ CloseSummary

Spec == Init /\ [][Next]_vars

-----------------------------------------------------------------------------
(* Properties.                                                             *)

\* The report of a type that is offered has a rating between the lowest and the
\* highest answer, and shows every question where the newest version has it.
ReportHolds(t, m) ==
  LET filed == Filed(t, m)
      newest == Max({rows[s].version : s \in filed})
      given == {Sheet[s].answers[q] : s \in filed, q \in Question}
      range == 100 * Min(given) .. 100 * Max(given)
  IN  /\ OverallRating(t, m) \in range
      /\ \A q \in Question : DimensionAverage(t, m, q) \in range
      /\ \A q \in Question : q \in Asked(filed, SectionOf[newest][q])

\* Whatever versions the answers were given to, unless a wipe took some of them,
\* reports show what was answered, and the composite rating is there exactly
\* when the students' feedback is.  No report reads a pipeline: TLC looks at them
\* where there is none yet.
ReportMatchesAnswers ==
  \A m \in Term :
    /\ \A p \in Pipe : pipes[p].status = "none"
    /\ \A s \in Stored : rows[s].term = m => s \in Answered
    => /\ \A t \in Offered(m) : ReportHolds(t, m)
       /\ CompositeRating(m) # NoRating <=> "FEEDBACK" \in Offered(m)

\* No statement of a wipe has run since the summary was opened.
Intact == wipe.pc = reader.wiped \/ {wipe.pc, reader.wiped} \subseteq {"idle", "assignments"}

\* From the summary to the comments: as long as no newer pipeline completed and
\* nothing was wiped, the comments that the types list under a theme or a
\* sentiment are as many as the summary says.
DrillDownAgrees ==
  LET p == reader.pipe  m == pipes[p].term
      all(comments(_)) == Cardinality(UNION {comments(t) : t \in RatedType})
  IN  p # 0 /\ LatestCompleted(pipes[p].term) = p /\ Intact =>
        /\ \A th \in Theme :
             reader.counts[th] = all(LAMBDA t : ThemeComments(t, m, th))
        /\ \A l \in Label :
             reader.split[l] = all(LAMBDA t : SentimentComments(t, m, l))

\* The numbers of a recommendation's evidence add up whatever is posted or wiped
\* while Generate reads: no more labels than comments, and no theme with more
\* comments than the recommendation says it is based on.
EvidenceAddsUp ==
  \A p \in Pipe : \A e \in gen[p].told :
    /\ Total(e.split) <= e.comments
    /\ e.comments <= Cardinality(gen[p].ids)

=============================================================================
