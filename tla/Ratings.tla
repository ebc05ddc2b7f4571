------------------------------ MODULE Ratings -------------------------------
(***************************************************************************)
(* The arithmetic of the faculty report and of the composite rating.       *)
(* Ratings are in hundredths, as the code shows them: 449 is 4.49.  The    *)
(* code's halves are those of binary fractions; here they are exact.       *)
(***************************************************************************)
EXTENDS Integers

\* Half up, as Math.round, and as ROUND does for what is not negative.
RoundDiv(a, b) == (2 * a + b) \div (2 * b)

\* ROUND(AVG(numeric_value), 2) of `count' whole ratings.
Average(sum, count) == RoundDiv(100 * sum, count)

\* SUM of f over 1..n.
SumTo(f, n) ==
  LET sum[i \in 0..n] == IF i = 0 THEN 0 ELSE sum[i - 1] + f[i] IN sum[n]

\* No rating: a type without answers, or a composite that is withheld.
NoRating == -1

IsRating(r) == r \in 0..500

\* The tiers of INTERPRETATION_SCALE, from the best (5) down.
Interpretation(r) ==
  CASE r >= 450 -> 5
    [] r \in 350..449 -> 4
    [] r \in 250..349 -> 3
    [] r \in 150..249 -> 2
    [] OTHER -> 1

-----------------------------------------------------------------------------
(* The composite of the three faculty questionnaires.                      *)

RatedType == {"FEEDBACK", "OUT", "IN"}

\* In hundredths.
Weight(t) == IF t = "FEEDBACK" THEN 50 ELSE 25

Present(ratings) == {t \in RatedType : ratings[t] # NoRating}

WeightOf(ratings, t) == IF ratings[t] = NoRating THEN 0 ELSE Weight(t)

CoverageWeight(ratings) ==
  WeightOf(ratings, "FEEDBACK") + WeightOf(ratings, "OUT")
    + WeightOf(ratings, "IN")

CoverageStatus(ratings) ==
  LET has == ratings["FEEDBACK"] # NoRating
      others == {"OUT", "IN"} \cap Present(ratings)
  IN  CASE has /\ others = {"OUT", "IN"} -> "FULL"
        [] has /\ others = {} -> "FEEDBACK_ONLY"
        [] has /\ others \notin {{}, {"OUT", "IN"}} -> "PARTIAL"
        [] ~has /\ others = {"OUT", "IN"} -> "PARTIAL_NO_FEEDBACK"
        [] ~has /\ others = {} -> "NO_DATA"
        [] OTHER -> "INSUFFICIENT"

\* round2(rating * effectiveWeight): the weight as it is when all are present,
\* and its share of the present weights otherwise.
Contribution(ratings, t) ==
  IF ratings[t] = NoRating THEN 0
  ELSE RoundDiv(ratings[t] * Weight(t), CoverageWeight(ratings))

\* A mutant of Contribution: the weight is not shared out again.
ContributionUnshared(ratings, t) ==
  IF ratings[t] = NoRating THEN 0 ELSE RoundDiv(ratings[t] * Weight(t), 100)

\* The rounded contributions are added up, so that the shown parts make the
\* shown whole; without the students' feedback there is no composite.
Composite(ratings) ==
  IF CoverageStatus(ratings) \in {"FULL", "PARTIAL", "FEEDBACK_ONLY"}
  THEN Contribution(ratings, "FEEDBACK") + Contribution(ratings, "OUT")
         + Contribution(ratings, "IN")
  ELSE NoRating

=============================================================================
