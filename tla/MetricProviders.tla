-------------------------- MODULE MetricProviders --------------------------
(***************************************************************************)
(* What a metric query returns: which requests the built-in queries of     *)
(* each observer select (pkg/metrics/observers), and how each provider     *)
(* picks one number out of an answer (RunQuery in pkg/metrics/providers).  *)
(*                                                                         *)
(* An answer is a sequence of series, a series a sequence of points.  The  *)
(* answer of a request that failed is not represented: every provider      *)
(* returns the error.  The two kinds of error, no values and any other,    *)
(* differ only in the event they record, so there is one Error.            *)
(***************************************************************************)
EXTENDS Integers, SequencesExt

\* Points that are not numbers: a JSON null, Prometheus' NaN, and a value of
\* the int64 type of Stackdriver's typed points.
Null  == -1
NaN   == -2
Int64 == -3

Value(v) == [ok |-> TRUE, val |-> v]
Error    == [ok |-> FALSE, val |-> Null]

Given(found, v) == IF found THEN Value(v) ELSE Error

\* Decoding a null into a float64 leaves the zero value.
Decoded(p) == IF p = Null THEN 0 ELSE p

Points(r) == FlattenSeq(r)

\* Where an answer has a number: in which series, and at which point of it.
Numbers(r) ==
  {n \in UNION {{i} \X DOMAIN r[i] : i \in DOMAIN r} : r[n[1]][n[2]] # Null}

LastNumber(r) ==
  LET last == CHOOSE n \in Numbers(r) :
                \A m \in Numbers(r) : m[1] < n[1] \/ (m[1] = n[1] /\ m[2] <= n[2])
  IN  r[last[1]][last[2]]

HasFirst(r) == r # <<>> /\ r[1] # <<>>

-----------------------------------------------------------------------------
\* One operator per provider.

\* A change the properties must notice: a NaN taken for a value.
PrometheusOfNaN(r) ==
  Given((\A i \in DOMAIN r : Len(r[i]) <= 1) /\ Numbers(r) # {}, LastNumber(r))

\* Only instant vectors; of several results the last one counts.
Prometheus(r) ==
  Given(/\ \A i \in DOMAIN r : Len(r[i]) <= 1
        /\ Numbers(r) # {} /\ LastNumber(r) # NaN, LastNumber(r))

\* The oldest point of the first series: the newest bucket is incomplete.
Datadog(r) == Given(HasFirst(r), Decoded(r[1][1]))

CloudWatch(r) == Given(HasFirst(r), Decoded(r[1][1]))

ExternalMetrics(r) == Given(HasFirst(r), r[1][1])

Keptn(r) == Given(HasFirst(r) /\ r[1][1] # Null, r[1][1])

\* The last point of the first result.
Dynatrace(r) == Given(HasFirst(r), Decoded(Last(r[1])))

Graphite(r) == Given(Numbers(r) # {}, LastNumber(r))

\* An answer without a single row is the value 0.
Influxdb(r) ==
  IF Points(r) = <<>> THEN Value(0)
  ELSE Given(Head(Points(r)) # Null, Head(Points(r)))

NewRelic(r) ==
  Given(Len(r) = 1 /\ HasFirst(r) /\ r[1][1] # Null, r[1][1])

\* Nulls are dropped, then there must be one time series.
Splunk(r) ==
  Given(Cardinality({n[1] : n \in Numbers(r)}) = 1, LastNumber(r))

\* The double of the first point: 0 for a point of another type.
Stackdriver(r) ==
  Given(HasFirst(r), IF r[1][1] = Int64 THEN 0 ELSE r[1][1])

\* The provider of a metric template; an unknown type is queried as Prometheus.
RunQuery(provider, r) ==
  CASE provider = "datadog"         -> Datadog(r)
    [] provider = "cloudwatch"      -> CloudWatch(r)
    [] provider = "externalmetrics" -> ExternalMetrics(r)
    [] provider = "keptn"           -> Keptn(r)
    [] provider = "dynatrace"       -> Dynatrace(r)
    [] provider = "graphite"        -> Graphite(r)
    [] provider = "influxdb"        -> Influxdb(r)
    [] provider = "newrelic"        -> NewRelic(r)
    [] provider = "splunk"          -> Splunk(r)
    [] provider = "stackdriver"     -> Stackdriver(r)
    [] OTHER                        -> Prometheus(r)

-----------------------------------------------------------------------------
\* The observers: the workloads whose requests the queries count, for a target of
\* that kind whose services are named by spec.service.name, or after the target.

\* The workload, by its name.
Istio(kind, named) == {"canary"}

\* The Deployment, by its name: other kinds have none.
Linkerd(kind, named) == IF kind = "Deployment" THEN {"canary"} ELSE {}
Osm(kind, named) == IF kind = "Deployment" THEN {"canary"} ELSE {}

\* Pods with a name of the form <target>-x-y.  These are the target's if it is a
\* Deployment; the pods of a DaemonSet are <target>-x, its primary's
\* <target>-primary-x.
Http(kind, named) == IF kind = "DaemonSet" THEN {"primary"} ELSE {"canary"}
AppMesh(kind, named) == IF kind = "DaemonSet" THEN {"primary"} ELSE {"canary"}

\* The canary's service, by its name.
Contour(kind, named) == {"canary"}

\* The service or upstream <target>-canary, while the router's is <service>-canary.
Kuma(kind, named)    == IF named THEN {} ELSE {"canary"}
Gloo(kind, named)    == IF named THEN {} ELSE {"canary"}
Traefik(kind, named) == IF named THEN {} ELSE {"canary"}

\* The route <routeRef>-<target>-canary, with both services behind it, while the
\* router's is <routeRef>-<service>-canary.
Apisix(kind, named) == IF named THEN {} ELSE {"primary", "canary"}

\* The requests NGINX routed to a canary; Skipper's route to the canary service;
\* the newest revision of the Knative service.
Nginx(kind, named)   == {"canary"}
Skipper(kind, named) == {"canary"}
Knative(kind, named) == {"canary"}

\* Factory.Observer
Selects(provider, kind, named) ==
  CASE provider = "appmesh" -> AppMesh(kind, named)
    [] provider = "linkerd" -> Linkerd(kind, named)
    [] provider = "contour" -> Contour(kind, named)
    [] provider = "gloo"    -> Gloo(kind, named)
    [] provider = "nginx"   -> Nginx(kind, named)
    [] provider \in {"kubernetes", "gatewayapi"} -> Http(kind, named)
    [] provider = "skipper" -> Skipper(kind, named)
    [] provider = "traefik" -> Traefik(kind, named)
    [] provider = "osm"     -> Osm(kind, named)
    [] provider = "kuma"    -> Kuma(kind, named)
    [] provider = "apisix"  -> Apisix(kind, named)
    [] provider = "knative" -> Knative(kind, named)
    [] OTHER                -> Istio(kind, named)
=============================================================================
