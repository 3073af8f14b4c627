-------------------------------- MODULE Cohorts --------------------------------
(***************************************************************************)
(* The comparison of two variants of an experiment: which runs may be        *)
(* compared, whether their metric differs, and whether the difference may    *)
(* have another cause.  Of a run it matters whether it counts, what it was   *)
(* made of, what it measured on the path, and at which hour.                 *)
(*                                                                          *)
(* A definition marked "mutant" is not part of the model: it is the         *)
(* definition below it with a plausible mistake.                            *)
(***************************************************************************)
EXTENDS StageParameters, FiniteSets, FiniteSetsExt

VARIABLES
  runs,       \* for either cohort, how many runs it has of a kind
  conclusion  \* what was concluded of them, and about which metric

vars == <<runs, conclusion>>

-----------------------------------------------------------------------------
(* The runs.  Keys are the values of COMPATIBILITY_FIELDS: protocol, schema, *)
(* application and node versions, site and number of paths.  Of the runs     *)
(* that will not be compared a few stand for all.                            *)

Cohorts == {"baseline", "candidate"}
Keys == {"a key", "another key"}
Incomplete == "a field is missing"
NoMetric == -1

Row(eligible, key, metric, hour) ==
  [eligible |-> eligible, key |-> key, metric |-> metric, hour |-> hour]

Rows ==
  LET metric == Max(MetricValues)
      hour == Max(Hours)
  IN {Row(TRUE, key, m, h) :
        key \in Keys, m \in MetricValues \union {NoMetric}, h \in Hours}
     \union {Row(FALSE, key, metric, hour) : key \in Keys}
     \union {Row(TRUE, Incomplete, metric, hour)}

Made(cohort) == DOMAIN runs[cohort]
Times(cohort, row) == IF row \in Made(cohort) THEN runs[cohort][row] ELSE 0

(* How many runs there are of some kinds: the runs of a kind are numbered.   *)
Numbered(cohort, row) == {row} \X (1 .. Times(cohort, row))
HowMany(cohort, rows) == Cardinality(UNION {Numbered(cohort, row) : row \in rows})

(* Only runs that count are given to the comparison.                         *)
Given(cohort) == {row \in Made(cohort) : row.eligible}

AbsOf(n) == IF n < 0 THEN -n ELSE n

-----------------------------------------------------------------------------
(* Medians, doubled: the sum of the two values in the middle.                *)

DoubleMedian(cohort, rows, field) ==
  LET n == HowMany(cohort, rows)
      UpTo(v) == HowMany(cohort, {row \in rows : row[field] <= v})
      values == {row[field] : row \in rows}
  IN Min({v \in values : 2 * UpTo(v) >= n}) + Min({v \in values : 2 * UpTo(v) > n})

-----------------------------------------------------------------------------
(* compatible_comparison_rows: all complete runs that count must agree.      *)

Complete(row) == row.key # Incomplete

CompleteKeys ==
  {row.key : row \in {r \in UNION {Given(c) : c \in Cohorts} : Complete(r)}}

Compatible == Cardinality(CompleteKeys) = 1

Included(cohort) ==
  {row \in Given(cohort) :
     Complete(row) /\ Compatible /\ row.key \in CompleteKeys}

Measured(cohort) == {row \in Included(cohort) : row.metric # NoMetric}

-----------------------------------------------------------------------------
(* compare_cohorts.                                                         *)

(* The metrics that are compared: rates and successes, round trips, losses.  *)
(* Thresholds are absolute, in units, and of the baseline, in percent.       *)
Policy ==
  [rate |-> [higher |-> TRUE, absolute |-> 0, percent |-> 10],
   latency |-> [higher |-> FALSE, absolute |-> 10, percent |-> 15],
   loss |-> [higher |-> FALSE, absolute |-> 1, percent |-> 0]]

Metrics == DOMAIN Policy

Median(cohort) == DoubleMedian(cohort, Measured(cohort), "metric")

Delta == Median("candidate") - Median("baseline")

(* The medians a cohort drawn anew from its runs may have.                   *)
Resampled(cohort) ==
  LET values == {row.metric : row \in Measured(cohort)}
      n == HowMany(cohort, Measured(cohort))
  IN IF n % 2 = 1 THEN {2 * v : v \in values} ELSE {v + w : v, w \in values}

(* Any two differences may be the ends of the bootstrap's interval.          *)
Intervals ==
  LET deltas == {c - b : c \in Resampled("candidate"), b \in Resampled("baseline")}
  IN {i \in deltas \X deltas : i[1] <= i[2]}

Practical(metric, beneficial) ==
  100 * beneficial >= Max({200 * Policy[metric].absolute,
                           AbsOf(Median("baseline")) * Policy[metric].percent})

Clears(metric, interval, better) ==
  IF Policy[metric].higher = better THEN interval[1] > 0 ELSE interval[2] < 0

Status(metric, interval) ==
  LET beneficial == IF Policy[metric].higher THEN Delta ELSE -Delta IN
  IF Practical(metric, beneficial) /\ Clears(metric, interval, TRUE)
    THEN "LIKELY_IMPROVEMENT"
  ELSE IF Practical(metric, -beneficial) /\ Clears(metric, interval, FALSE)
    THEN "LIKELY_REGRESSION"
  ELSE "INCONCLUSIVE"

(* Hours are compared as numbers, on a clock that does not wrap at midnight. *)
HoursOf(cohort) == {row.hour : row \in Included(cohort)}

TimeOfNightWarning ==
  LET Hour(cohort) == DoubleMedian(cohort, Included(cohort), "hour") IN
  \/ AbsOf(Hour("baseline") - Hour("candidate")) >= 4
  \/ HoursOf("baseline") \intersect HoursOf("candidate") = {}

WithheldIfBetter(status) ==                                       \* mutant
  IF TimeOfNightWarning /\ status = "LIKELY_IMPROVEMENT" THEN "INCONCLUSIVE"
                                                         ELSE status
Controlled(status) == IF TimeOfNightWarning THEN "INCONCLUSIVE" ELSE status

Enough(cohort) ==
  HowMany(cohort, Measured(cohort)) >= MinRuns

Compare(metric) ==
  /\ conclusion.status = "open"
  /\ \E status \in
       IF \E c \in Cohorts : Included(c) = {} THEN {"NO_DATA"}
       ELSE IF \E c \in Cohorts : ~Enough(c) THEN {"INCONCLUSIVE"}
       ELSE {Controlled(Status(metric, interval)) : interval \in Intervals} :
         conclusion' = [status |-> status, metric |-> metric]
  /\ UNCHANGED runs

(* Runs of the two variants are added to what is compared.                   *)
Collect ==
  /\ conclusion.status = "open"
  /\ HowMany("baseline", Made("baseline")) + HowMany("candidate", Made("candidate")) < MaxRuns
  /\ \E cohort \in Cohorts, row \in Rows :
       runs' = [runs EXCEPT ![cohort] =
                  [kind \in Made(cohort) \union {row} |->
                     Times(cohort, kind) + IF kind = row THEN 1 ELSE 0]]
  /\ UNCHANGED conclusion

Init ==
  /\ runs = [cohort \in Cohorts |-> [row \in {} |-> 0]]
  /\ conclusion = [status |-> "open", metric |-> "none"]

Next ==
  \/ Collect
  \/ \E metric \in Metrics : Compare(metric)

-----------------------------------------------------------------------------
(* Properties.                                                              *)

Statuses ==
  {"open", "NO_DATA", "INCONCLUSIVE", "LIKELY_IMPROVEMENT", "LIKELY_REGRESSION"}

TypeOK ==
  /\ DOMAIN runs = Cohorts
  /\ \A cohort \in Cohorts :
       Made(cohort) \subseteq Rows /\ runs[cohort] \in [Made(cohort) -> Nat \ {0}]
  /\ conclusion.status \in Statuses
  /\ conclusion.metric \in Metrics \union {"none"}

Certain == conclusion.status \in {"LIKELY_IMPROVEMENT", "LIKELY_REGRESSION"}

(* Is it better if the metric's values are higher?                           *)
HigherIsBetter == conclusion.metric = "rate"

(* Of a difference it is said that it is likely one of the variants only if  *)
(* nothing else may be its cause: all runs that count and are described were *)
(* made under the same conditions; each cohort has runs enough that measured *)
(* something; some of both were made at the same hour; and the runs of the   *)
(* variant that is said to be the better one are not worse.                  *)
ConclusionsAreControlled ==
  Certain =>
    /\ \E key \in Keys : \A c \in Cohorts : \A row \in Made(c) :
         row.eligible /\ row.key # Incomplete => row.key = key
    /\ \A c \in Cohorts :
         HowMany(c, {row \in Made(c) : row.eligible /\ row.key # Incomplete
                                         /\ row.metric # NoMetric}) >= MinRuns
    /\ HoursOf("baseline") \intersect HoursOf("candidate") # {}
    /\ (conclusion.status = "LIKELY_IMPROVEMENT") = HigherIsBetter => Delta >= 0
    /\ (conclusion.status = "LIKELY_REGRESSION") = HigherIsBetter => Delta <= 0
=============================================================================
