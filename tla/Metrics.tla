------------------------------ MODULE Metrics ------------------------------
(***************************************************************************)
(* The analytics server (servers/analytics/): points of metrics are        *)
(* recorded, summed up, drawn, and searched for outliers.                  *)
(*                                                                         *)
(* Values are whole numbers.  A fraction is kept as <<above, below>>.      *)
(***************************************************************************)
EXTENDS Integers, FiniteSets, Sequences, SequencesExt, FiniteSetsExt

CONSTANTS
  MetricNames,  (* names of metrics; a metric may be called "labels"       *)
  Values,       (* the values of points                                    *)
  Thresholds,   (* z_threshold, positive                                   *)
  Limits,       (* limit of query_metrics; negative: all but the last ones *)
  ChartLimit,   (* the points that a chart shows                           *)
  MaxPoints     (* bound: points                                           *)

Aggregations == {"avg", "sum", "min", "max", "count", "other"}

VARIABLES
  points,    (* MetricsStore._metrics                                      *)
  answer     (* the last answer about these points, and its metric         *)

vars == <<points, answer>>

Answer(tool, metric, value) == answer' = [tool |-> tool, metric |-> metric, value |-> value]

NoAnswer == [tool |-> "none"]

Init == points = <<>> /\ answer = NoAnswer

\* The values of a metric, the oldest first.
ValuesOf(metric) ==
  FoldLeft(LAMBDA own, p : IF p.metric = metric THEN Append(own, p.value) ELSE own, <<>>, points)

\* A Python slice [:limit].
UpTo(s, limit) ==
  SubSeq(s, 1, IF limit < 0 THEN Max({0, Len(s) + limit}) ELSE Min({limit, Len(s)}))

Sum(s) == FoldLeft(LAMBDA sum, v : sum + v, 0, s)

\* configure(): another store.
Configure == points' = <<>> /\ answer' = NoAnswer

-----------------------------------------------------------------------------
(* The tools                                                               *)

\* record, record_metric.
RecordMetric(metric, value) ==
  /\ Len(points) < MaxPoints
  /\ points' = Append(points, [metric |-> metric, value |-> value])
  /\ answer' = NoAnswer

\* aggregate: 0 for no points and for an aggregation that is not known.
Aggregate(s, agg) ==
  CASE s = <<>> \/ agg = "other" -> <<0, 1>>
    [] agg = "avg" -> <<Sum(s), Len(s)>>
    [] agg = "sum" -> <<Sum(s), 1>>
    [] agg = "min" -> <<Min(ToSet(s)), 1>>
    [] agg = "max" -> <<Max(ToSet(s)), 1>>
    [] agg = "count" -> <<Len(s), 1>>

QueryAggregate(metric, agg) ==
  Answer(agg, metric, Aggregate(ValuesOf(metric), agg)) /\ UNCHANGED points

QueryRaw(metric, limit) ==
  Answer("raw", metric, UpTo(ValuesOf(metric), limit)) /\ UNCHANGED points

\* ChartGenerator.generate: the series that are drawn, of the entries of data;
\* none when the drawing fails, which is told in the answer.
Drawn(data, ok) == IF ok /\ data["labels"] # <<>> THEN DOMAIN data \ {"labels"} ELSE {}

\* generate_chart shows the oldest points.  The labels and the values are entries
\* of one dict: the values of a metric called "labels" replace the labels.
GenerateChart(metric, ok) ==
  LET shown == UpTo(ValuesOf(metric), ChartLimit)
      data == [k \in {"labels", metric} |-> shown]
  IN  /\ Answer("chart", metric, [k \in Drawn(data, ok) |-> data[k]])
      /\ UNCHANGED points

\* Mutant: a value as far off as z deviations is an outlier too.
OutlyingFrom(s, z, v) ==
  LET n == Len(s)
      off(w) == (n * w - Sum(s)) * (n * w - Sum(s))
  IN  n * off(v) >= z * z * Sum([i \in DOMAIN s |-> off(s[i])])

\* |v - mean| > z * std, both sides squared and times the square of the number
\* of values; nothing is an outlier when the deviation is 0.
Outlying(s, z, v) ==
  LET n == Len(s)
      off(w) == (n * w - Sum(s)) * (n * w - Sum(s))
  IN  n * off(v) > z * z * Sum([i \in DOMAIN s |-> off(s[i])])

\* detect_anomalies: the positions of the outliers; none among fewer than three.
DetectAnomalies(metric, z) ==
  LET own == ValuesOf(metric) IN
  /\ Answer("anomalies", metric,
            [z |-> z, of |-> own, found |-> IF Len(own) < 3 THEN {}
                      ELSE {i \in DOMAIN own : Outlying(own, z, own[i])}])
  /\ UNCHANGED points

Next == Configure \/ \E m \in MetricNames :
  \/ \E v \in Values : RecordMetric(m, v)
  \/ \E agg \in Aggregations : QueryAggregate(m, agg)
  \/ \E limit \in Limits : QueryRaw(m, limit)
  \/ \E ok \in BOOLEAN : GenerateChart(m, ok)
  \/ \E z \in Thresholds : DetectAnomalies(m, z)

Spec == Init /\ [][Next]_vars

-----------------------------------------------------------------------------
(* Properties                                                              *)

\* Outliers are rare: fewer than one in z squared of the points of the metric,
\* whatever other metrics the store holds.  (detect_anomalies)
AnomaliesAreRare ==
  LET a == answer.value IN
  answer.tool = "anomalies" /\ a.found # {} => Cardinality(a.found) * a.z * a.z < Len(a.of)
=============================================================================
