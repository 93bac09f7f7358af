----------------------------- MODULE MCAnalysis -----------------------------
(***************************************************************************)
(* The analysis on small canaries: the built-in checks with an observer of *)
(* each kind, one template per provider, in-line queries, ranges, and      *)
(* hooks of each kind.                                                     *)
(***************************************************************************)
EXTENDS AnalysisProps, TLC

CONSTANTS load, w1, w2

LoadTests == {load}
Routines  == {w1, w2}

Metric ==
  [name |-> "custom", query |-> FALSE, template |-> None,
   range |-> FALSE, min |-> {}, max |-> {}, threshold |-> 50]

SuccessRate == [Metric EXCEPT !.name = "request-success-rate"]
Duration    == [Metric EXCEPT !.name = "request-duration"]
Inline      == [Metric EXCEPT !.query = TRUE]
Template(p) == [Metric EXCEPT !.template = p]
Ranged(m, lo, hi) == [m EXCEPT !.range = TRUE, !.min = lo, !.max = hi]

LoadTest   == [task |-> load, retries |-> 1]
Acceptance == [task |-> Blocking, retries |-> 1]
Mistyped   == [task |-> Unknown, retries |-> 0]

Plan(kind, mesh, hooks, metrics) ==
  [kind |-> kind, mesh |-> mesh, named |-> FALSE, hooks |-> hooks, metrics |-> metrics]

Meshes ==
  {"istio", "linkerd", "osm", "kubernetes", "appmesh", "contour", "kuma", "gloo", "traefik",
   "apisix", "nginx", "skipper"}

DaemonSets ==
  { Plan("DaemonSet", m, <<LoadTest>>, <<SuccessRate>>) : m \in {"istio", "linkerd", "kubernetes"} }

Observed ==
  { [Plan("Deployment", m, <<>>, <<SuccessRate>>) EXCEPT !.named = n] :
      m \in Meshes, n \in BOOLEAN }
    \cup DaemonSets
    \cup { Plan("Service", "knative", <<>>, <<SuccessRate>>) }

Templated ==
  { Plan("Deployment", "istio", <<LoadTest>>, <<Template(p)>>) :
      p \in {"prometheus", "datadog", "cloudwatch", "externalmetrics", "keptn",
             "dynatrace", "graphite", "influxdb", "newrelic", "splunk",
             "stackdriver"} }

Mixed ==
  { Plan("Deployment", "istio", <<Acceptance, LoadTest>>, <<Duration, Inline>>),
    Plan("Deployment", "istio", <<LoadTest>>,
         <<Template("graphite"), Ranged(SuccessRate, {90}, {100})>>),
    Plan("Deployment", "istio", <<>>, <<Ranged(Inline, {}, {})>>),
    Plan("Deployment", "istio", <<LoadTest>>, <<Ranged(SuccessRate, {90}, {})>>),
    Plan("Deployment", "istio", <<Mistyped>>, <<SuccessRate>>),
    Plan("Deployment", "istio", <<>>, <<Metric>>) }

AllCanaries == Observed \cup Templated \cup Mixed
=============================================================================
