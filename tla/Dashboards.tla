---------------------------- MODULE Dashboards -----------------------------
(***************************************************************************)
(* The dashboards of a department, for one of its teachers: the two        *)
(* materialized views, the job that refreshes them when a pipeline has     *)
(* completed (AnalyticsRefreshProcessor), and the overview, attention list *)
(* and trends that AnalyticsService reads from them.                       *)
(***************************************************************************)
EXTENDS Evaluations

CONSTANTS
  MinSemesters, \* MIN_SEMESTERS_FOR_TREND
  MinAnalyzed,  \* MIN_ANALYZED_FOR_GAP
  MaxAttempts   \* attempts of a refresh job

ASSUME DashboardsAssumption ==
  MinSemesters \in Nat /\ MinAnalyzed \in Nat /\ MaxAttempts \in Nat

VARIABLES
  stats,   \* mv_faculty_semester_stats
  trends,  \* mv_faculty_trends
  refresh  \* the refresh job of each pipeline

views == <<stats, trends, refresh>>
dashboardsVars == <<evaluations, views>>

-----------------------------------------------------------------------------
(* The views.                                                              *)

\* A mutant of Sources: a run counts as soon as it has its rows.
SourcesEarly(s) == {p \in Pipe : pipes[p].label[s] # None}

\* Pipelines with a label row of s, whose runs a view may count.
Sources(s) == {p \in Pipe : pipes[p].label[s] # None /\ pipes[p].status = "completed"}

\* The LATERAL join: the row processed last.
LatestLabel(s) ==
  IF Sources(s) = {} THEN None
  ELSE LET last == CHOOSE p \in Sources(s) :
                     \A q \in Sources(s) : pipes[q].stamp <= pipes[p].stamp
       IN  pipes[last].label[s]

\* The row of mv_faculty_semester_stats of a semester.
StatsOf(m) ==
  LET in == {s \in Stored : rows[s].term = m}
      latest == [s \in Submission |-> LatestLabel(s)]
      split == Breakdown(latest, in)
  IN  [submissions |-> Cardinality(in),
       comments |-> Cardinality(Commented(in)),
       score |-> IF in = {} THEN NoRating
                 ELSE Average(SumFunction([s \in in |-> Sheet[s].score]), Cardinality(in)),
       split |-> split,
       analyzed |-> Total(split),
       topics |-> Cardinality(
         {x \in Pipe \X Theme :
            /\ pipes[x[1]].status = "completed"
            /\ \E s \in in : pipes[x[1]].theme[s] = x[2]})]

EmptyStats == [submissions |-> 0, comments |-> 0, score |-> NoRating,
               split |-> [k \in Kind |-> 0],
               analyzed |-> 0, topics |-> 0]

\* regr_slope and regr_r2 over the semesters that have a point <<x[m], y[m]>>:
\* the sign and the size of the slope, and r2 as a fraction; no slope (den = 0)
\* with less than two.
Fit(points, x, y) ==
  LET total(f) == SumTo([m \in Term |-> IF m \in points THEN f[m] ELSE 0], MaxTerm)
      times(f, g) == [m \in points |-> f[m] * g[m]]
      n == Cardinality(points)
      X == total(x)
      Y == total(y)
      yy == n * total(times(y, y)) - Y * Y
      xx == n * total(times(x, x)) - X * X
      slope == n * total(times(x, y)) - X * Y
  IN  CASE n < 2 -> [slope |-> 0, num |-> 0, den |-> 0]
        [] n >= 2 /\ yy = 0 -> [slope |-> 0, num |-> 1, den |-> 1]
        [] OTHER -> [slope |-> slope, num |-> slope * slope, den |-> xx * yy]

\* r2 >= 0.5, and there is an r2.
Significant(fit) == fit.den > 0 /\ 2 * fit.num >= fit.den

\* A mutant of Ordinal: by the creation of the rows; the first was backfilled.
OrdinalByCreation(st, m) ==
  Cardinality({k \in m..MaxTerm : st[k].submissions > 0})

\* ROW_NUMBER() over the semesters that have a row, by their start.
Ordinal(st, m) == Cardinality({k \in 1..m : st[k].submissions > 0})

\* mv_faculty_trends, computed from the stats view.  The rate of positive labels
\* is in thousandths; a semester without labels has none.
TrendsOf(st) ==
  LET known == {m \in Term : st[m].submissions > 0}
      rated == {m \in known : st[m].analyzed > 0}
      ordinal == [m \in known |-> Ordinal(st, m)]
  IN  [semesters |-> Cardinality(known),
       score |-> Fit(known, ordinal, [m \in known |-> st[m].score]),
       sentiment |-> Fit(rated, ordinal, [m \in rated |->
                       RoundDiv(1000 * st[m].split["positive"], st[m].analyzed)])]

NoTrends == TrendsOf([m \in Term |-> EmptyStats])

DashboardsInit ==
  /\ EvaluationsInit
  /\ stats = [m \in Term |-> EmptyStats] /\ trends = NoTrends
  /\ refresh = [p \in Pipe |-> [state |-> "none", made |-> 0]]

-----------------------------------------------------------------------------
(* OnRecommendationsComplete.                                              *)

\* A mutant of Conclude: the refresh is on its way before the commit.
ConcludeAfterEnqueue(p) ==
  /\ IF refresh[p].state = "none"
     THEN /\ pipes[p].status = "recommendations"
          /\ refresh' = [refresh EXCEPT ![p].state = "queued"]
          /\ UNCHANGED evaluations
     ELSE Complete(p) /\ UNCHANGED refresh
  /\ UNCHANGED <<stats, trends>>

\* After the commit of the status the refresh is queued, once for a pipeline.
Conclude(p) ==
  /\ Complete(p)
  /\ refresh' = [refresh EXCEPT ![p].state = "unsent"]
  /\ UNCHANGED <<stats, trends>>

Moves(p, from, to) ==
  refresh[p].state = from /\ refresh' = [refresh EXCEPT ![p].state = to]

Enqueue(p) ==
  /\ Moves(p, "unsent", "queued")
  /\ UNCHANGED <<evaluations, stats, trends>>

\* Best effort: Redis is away, or the process ends in between.
EnqueueFails(p) ==
  /\ refresh[p].state = "unsent"
  /\ faults < MaxFaults /\ faults' = faults + 1
  /\ refresh' = [refresh EXCEPT ![p].state = "lost"]
  /\ UNCHANGED <<term, active, rows, pipes, wipe, stats, trends>>

-----------------------------------------------------------------------------
(* AnalyticsRefreshProcessor, concurrency 1.                               *)

Idle == \A p \in Pipe : refresh[p].state \notin {"stats", "trends"}

RefreshStats(p) ==
  /\ Idle /\ Moves(p, "queued", "stats")
  /\ stats' = [m \in Term |-> StatsOf(m)]
  /\ UNCHANGED <<evaluations, trends>>

RefreshTrends(p) ==
  /\ Moves(p, "stats", "trends")
  /\ trends' = TrendsOf(stats)
  /\ UNCHANGED <<evaluations, stats>>

\* analytics_last_refreshed_at is written.
Record(p) ==
  /\ Moves(p, "trends", "done")
  /\ UNCHANGED <<evaluations, stats, trends>>

RefreshStep(p) == RefreshStats(p) \/ RefreshTrends(p) \/ Record(p)

\* Any of its statements fails, or its process ends: the job starts again.
RefreshFails(p) ==
  /\ refresh[p].state \in {"stats", "trends"} \/ (refresh[p].state = "queued" /\ Idle)
  /\ faults < MaxFaults /\ faults' = faults + 1
  /\ refresh' = [refresh EXCEPT ![p] =
       [made |-> @.made + 1,
        state |-> IF @.made + 1 < MaxAttempts THEN "queued" ELSE "failed"]]
  /\ UNCHANGED <<term, active, rows, pipes, wipe, stats, trends>>

-----------------------------------------------------------------------------
DashboardsNext ==
  \/ EvaluationsStep /\ UNCHANGED views
  \/ \E p \in Pipe : \/ Conclude(p) \/ Enqueue(p) \/ EnqueueFails(p)
                     \/ RefreshStep(p) \/ RefreshFails(p)

\* The service that committed goes on to queue the refresh, and the worker of the
\* queue takes what is in it.  Only Enqueue makes the first of these moves, and
\* only the steps of RefreshStep the others.
Sends == \E p \in Pipe : Moves(p, "unsent", "queued")
Works ==
  \E p \in Pipe : \/ (Idle /\ Moves(p, "queued", "stats"))
                 \/ Moves(p, "stats", "trends")
                 \/ Moves(p, "trends", "done")

Fairness == WF_refresh(Sends) /\ WF_refresh(Works)

DashboardsSpec == DashboardsInit /\ [][DashboardsNext]_dashboardsVars /\ Fairness

-----------------------------------------------------------------------------
(* What is read from the views.                                            *)

\* GetDepartmentOverview: against the semester before, if both have a row.
HasDelta(m) == m > 1 /\ stats[m].submissions > 0 /\ stats[m - 1].submissions > 0
ScoreDelta(m) == stats[m].score - stats[m - 1].score

\* GetFacultyTrends; "hidden" when the teacher is not listed.
TrendDirection ==
  IF trends.semesters < MinSemesters \/ ~Significant(trends.score) THEN "hidden"
  ELSE CASE trends.score.slope > 0 -> "improving"
         [] trends.score.slope < 0 -> "declining"
         [] OTHER -> "stable"

\* GetAttentionList, its three queries.  The first does not ask for the semester.
Declining(fit) == trends.semesters >= MinSemesters /\ fit.slope < 0 /\ Significant(fit)

Gap(m) ==
  LET st == stats[m]
      \* score and rate of positive labels apart, in 1/10000 of a label
      apart == st.score * st.analyzed - 10000 * st.split["positive"]
  IN  /\ st.analyzed >= MinAnalyzed /\ st.analyzed > 0
      /\ (IF apart < 0 THEN -apart ELSE apart) > 2000 * st.analyzed

LowCoverage(m) ==
  stats[m].submissions > 0 /\ 2 * stats[m].analyzed < stats[m].submissions

Attention(m) ==
  {f \in {"declining_trend", "quant_qual_gap", "low_coverage"} :
     CASE f = "declining_trend" ->
            Declining(trends.score) \/ Declining(trends.sentiment)
       [] f = "quant_qual_gap" -> Gap(m)
       [] OTHER -> LowCoverage(m)}

-----------------------------------------------------------------------------
(* Properties.                                                             *)

\* A refresh is between its two statements, or was stopped there for the moment.
Between ==
  \E p \in Pipe : \/ refresh[p].state = "stats"
                 \/ (refresh[p].made > 0 /\ refresh[p].state \in {"queued", "failed"})

\* Every submission counts once, under one label, and only with the rows of a
\* pipeline that completed: results of a running or failed pipeline never show.
CountedOnce ==
  \A m \in Term :
    /\ stats[m].analyzed <= stats[m].comments
    /\ stats[m].comments <= stats[m].submissions
    /\ stats[m].analyzed <= Cardinality(
         UNION {pipes[p].covers : p \in {q \in Pipe : /\ pipes[q].status = "completed"
                                                      /\ pipes[q].term = m}})

\* The direction of a trend is never against what the overviews showed: scores
\* that only rose, or only fell, from one semester to the next.  The attention
\* list has whom the trends call declining.
SignsAgree ==
  LET last == Cardinality({m \in Term : stats[m].submissions > 0})
      whole == \A m \in 2..last : HasDelta(m)
  IN  whole =>
      /\ (\A m \in 2..last : ScoreDelta(m) >= 0) => TrendDirection # "declining"
      /\ (\A m \in 2..last : ScoreDelta(m) <= 0) => TrendDirection # "improving"
      /\ TrendDirection = "declining" =>
           \A m \in Term : "declining_trend" \in Attention(m)

\* The dashboards do not contradict each other, whatever is posted, wiped or
\* refreshed meanwhile: the counts of a semester are those of completed runs,
\* and unless a refresh is between its statements the trends are those of the
\* stats on the screen and have the sign of the changes the overviews show.
DashboardsAgree ==
  CountedOnce /\ (~Between => trends = TrendsOf(stats) /\ SignsAgree)

\* A semester that had labels when p completed shows them, unless the refresh
\* was never queued or gave up.
Shown(p) ==
  \/ refresh[p].state \in {"lost", "failed"}
  \/ /\ refresh[p].state \in {"trends", "done"}
     /\ stats[pipes[p].term].analyzed >=
          Cardinality({s \in Stored : pipes[p].label[s] # None})
     /\ trends = TrendsOf(stats)

\* A pipeline that completed reaches the dashboards.
CompletedIsShown ==
  \A p \in Pipe : pipes[p].status = "completed" ~> Shown(p)

=============================================================================
