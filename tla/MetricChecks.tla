---------------------------- MODULE MetricChecks ----------------------------
(***************************************************************************)
(* The metric checks of an analysis (pkg/controller/scheduler_metrics.go): *)
(* which queries runBuiltinMetricChecks and runMetricChecks send for a     *)
(* canary, in which order, and when a value passes.                        *)
(*                                                                         *)
(* A metric is                                                             *)
(*   [name, query, template, range, min, max, threshold]                   *)
(* where name is "request-success-rate", "request-duration" or another,    *)
(* query tells if it has an in-line query, template is the provider of its *)
(* template, None without one, and min and max are sets with the bound, or *)
(* empty when it is not given.                                             *)
(***************************************************************************)
EXTENDS MetricProviders

None == "none"

\* A probe is one query and the rule its value is held against.
Probe(m, from, rule) == [from |-> from, rule |-> rule, metric |-> m]

When(c, s) == IF c THEN s ELSE <<>>

\* A metric can be a built-in one and have an in-line query: then both run.
BuiltinProbes(m) ==
  When(m.name = "request-success-rate", <<Probe(m, "observer", "floor")>>)
    \o When(m.name = "request-duration", <<Probe(m, "observer", "ceiling")>>)
    \o When(m.query, <<Probe(m, "prometheus", "ceiling")>>)

\* A metric that is nothing of the three has no way to be checked.
TemplateProbes(m) ==
  IF m.template # None THEN <<Probe(m, m.template, "ceiling")>>
  ELSE When(/\ m.name \notin {"request-success-rate", "request-duration"}
            /\ ~m.query, <<Probe(m, "unusable", "ceiling")>>)

\* runAnalysis: the built-in checks of all metrics, then those of the templates.
Probes(metrics) ==
  FlattenSeq([i \in DOMAIN metrics |-> BuiltinProbes(metrics[i])])
    \o FlattenSeq([i \in DOMAIN metrics |-> TemplateProbes(metrics[i])])

\* Comparisons with a NaN are false.
Less(v, w) == v # NaN /\ v < w
More(v, w) == v # NaN /\ v > w

\* A range, when there is one, hides the threshold; either end may be missing.
Passes(probe, v) ==
  LET m == probe.metric
  IN  IF m.range
      THEN (\A b \in m.min : ~Less(v, b)) /\ (\A b \in m.max : ~More(v, b))
      ELSE IF probe.rule = "floor" THEN ~Less(v, m.threshold)
      ELSE ~More(v, m.threshold)

\* The number a probe's answer stands for: observers query Prometheus.
Read(probe, answer) ==
  CASE probe.from = "unusable" -> Error
    [] probe.from = "observer" -> Prometheus(answer)
    [] OTHER                   -> RunQuery(probe.from, answer)

\* One check: a value, and one the rule accepts.
Accepts(probe, answer) ==
  LET r == Read(probe, answer) IN r.ok /\ Passes(probe, r.val)
=============================================================================
