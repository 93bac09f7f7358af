-------------------------------- MODULE Routers --------------------------------
(***************************************************************************)
(* The mesh routers of pkg/router: what each provider writes into its      *)
(* object (VirtualService, HTTPRoute, HTTPProxy, Ingress, ...) and what it *)
(* reads back from it.  One operator per function of the source; a twin    *)
(* for another API version is named as well, by what it does.              *)
(*                                                                         *)
(* An object is the list of its rules in the order the mesh tries them,    *)
(* the version of spec.service it was written from, what the mesh's own    *)
(* controller last reported of it, and, for Istio, the rules kept in the   *)
(* original-configuration annotation and whether kubectl keeps its own.    *)
(* A rule has the requests it is for, its backends with their weights,     *)
(* whether it mirrors to the canary, whether its backends set the cookie   *)
(* that makes their clients sticky, and the cookie it matches.             *)
(*                                                                         *)
(* service.match is empty, so that no rule but the first ones below has a  *)
(* match of its own, and session affinity goes without one.                *)
(***************************************************************************)
EXTENDS StepWeights

Lagging == {"gatewayapi:v1", "knative"}   \* providers whose status is read back
Gateways == {"gatewayapi:v1", "gatewayapi:v1beta1"}
AppMeshes == {"appmesh", "appmesh:v1beta2"}
SMIs == {"linkerd", "smi:v1alpha2", "smi:v1alpha3", "osm"}

Providers ==
  Lagging \cup Gateways \cup AppMeshes \cup SMIs
    \cup {"istio", "contour", "gloo", "kuma", "traefik", "apisix", "nginx", "skipper"}

\* Requests a rule is for: all, those spec.analysis.match selects, those with the
\* cookie of this rollout, of the primary, or of an earlier rollout, none.
Requests == {"all", "analysis", "canaryCookie", "primaryCookie", "oldCookie", "none"}

Rule(requests, p, c) ==
  [on |-> requests, to |-> {"primary", "canary"}, p |-> p, c |-> c,
   mirror |-> FALSE, marks |-> FALSE, cookie |-> 0]

PrimaryOnly(requests, p) == [Rule(requests, p, 0) EXCEPT !.to = {"primary"}]

\* What a user's own VirtualService routes to.
UserRules == <<[Rule("all", 0, 0) EXCEPT !.to = {"apex"}]>>

Object(rules, version, kubectl) ==
  [rules |-> rules, version |-> version, observed |-> <<>>, original |-> <<>>,
   kubectl |-> kubectl]

Absent    == Object(<<>>, 0, FALSE)
Exists(o) == o.rules # <<>>

\* What the mesh's controller has seen of an object.
Generation(o) == <<o.version, o.rules>>

CookieRules == {"canaryCookie", "primaryCookie", "oldCookie"}

\* cmp.Diff ignores weights, mirrors, headers and the rules that match a cookie.
Compared(rules) == {i \in DOMAIN rules : rules[i].on \notin CookieRules}

\* The other rules are the same in both lists, one by one and in the same order.
Alike(rules, others) ==
  \E f \in [Compared(rules) -> Compared(others)] :
    /\ \A j \in Compared(others) : \E i \in Compared(rules) : f[i] = j
    /\ \A i, j \in Compared(rules) : i < j => f[i] < f[j]
    /\ \A i \in Compared(rules) : rules[i].on = others[f[i]].on /\ rules[i].to = others[f[i]].to

Differs(o, version, rules) == o.version # version \/ ~Alike(o.rules, rules)

\* Most routers: create the object, rewrite it when it differs, leave its weights
\* alone otherwise.
Declare(o, version, rules) ==
  IF Exists(o) /\ ~Differs(o, version, rules) THEN o
  ELSE [o EXCEPT !.rules = rules, !.version = version]

\* Mutant: the first rule is taken for it.
FirstRule(rules) == rules[1]

\* The rule that does the weighted routing: the one whose backends set the cookie,
\* or the last one that has both backends.
WeightedRule(rules) ==
  LET both   == {i \in DOMAIN rules : rules[i].to = {"primary", "canary"}}
      marked == {i \in both : rules[i].marks}
      last(s) == CHOOSE i \in s : \A j \in s : j <= i
  IN  rules[last(IF marked # {} THEN marked ELSE both)]

\* The canary gets what the first rule leaves of 100.
Rest(o) == Split(o.rules[1].p, totalWeight - o.rules[1].p, FALSE)

------------------------------------------------------------------------------
\* Session affinity.  A canary's cookies are those of its status: cookie, of the
\* rollout, and previous, of an earlier one; 0 stands for the empty string.

\* Mutant: the cookie of the rollout is kept when the traffic goes back.
KeptCookies(cookies, c, fresh) ==
  IF c # 0 THEN [cookies EXCEPT !.cookie = IF cookies.cookie = 0 THEN fresh ELSE cookies.cookie]
  ELSE [cookies EXCEPT !.previous = IF cookies.cookie # 0 THEN cookies.cookie ELSE @]

\* The cookies of the tick's copy after getSessionAffinityRouteRules for canary
\* weight c; fresh is what randSeq makes.
Cookies(cookies, c, fresh) ==
  IF c # 0 THEN [cookies EXCEPT !.cookie = IF cookies.cookie = 0 THEN fresh ELSE cookies.cookie]
  ELSE [cookie |-> 0, previous |-> IF cookies.cookie # 0 THEN cookies.cookie ELSE cookies.previous]

\* Its rules: sticky ones before the weighted one, which hands out the cookies; with
\* no traffic on the canary one that takes the previous cookie back, or a copy of
\* the weighted one.
AffinityRules(affinity, cookies, weighted) ==
  LET sticky  == [Rule("canaryCookie", 0, totalWeight) EXCEPT !.cookie = cookies.cookie,
                                                              !.mirror = weighted.mirror]
      primary == [Rule("primaryCookie", totalWeight, 0) EXCEPT !.mirror = weighted.mirror]
      marking == [weighted EXCEPT !.marks = TRUE]
      back    == IF cookies.previous # 0
                   THEN [weighted EXCEPT !.on = "oldCookie", !.cookie = cookies.previous]
                   ELSE weighted
  IN  IF weighted.c = 0 THEN <<back, weighted>>
      ELSE IF affinity = "both" THEN <<sticky, primary, marking>>
      ELSE <<sticky, marking>>

GatewayAffinityRules(affinity, cookies, weighted) == AffinityRules(affinity, cookies, weighted)

\* v1beta1 has no primary cookie.
GatewayV1Beta1AffinityRules(cookies, weighted) == AffinityRules("canary", cookies, weighted)

------------------------------------------------------------------------------
\* Istio.

IstioRules(a, p, c) ==
  IF a.match THEN <<Rule("analysis", p, c), PrimaryOnly("all", p)>> ELSE <<Rule("all", p, c)>>

\* Mutant: the annotation is not written.
ForgetfulIstioReconcile(a, o, version) ==
  Declare(o, version, IstioRules(a, totalWeight, 0))

\* The rules an update replaces go to the original-configuration annotation,
\* unless kubectl's own annotation has the user's.
IstioReconcile(a, o, version) ==
  LET rules == IstioRules(a, totalWeight, 0)
      new   == Declare(o, version, rules)
  IN  IF Exists(o) /\ Differs(o, version, rules) /\ ~o.kubectl
        THEN [new EXCEPT !.original = o.rules]
        ELSE new

IstioGetRoutes(o) ==
  LET both == {i \in DOMAIN o.rules : "canary" \in o.rules[i].to}
      last == CHOOSE i \in both : \A j \in both : j <= i
      w    == WeightedRule(o.rules)
  IN  Split(w.p, w.c, o.rules[last].mirror)

\* The mirror goes to the first rule, which is a sticky one with affinity.
IstioSetRoutes(a, affinity, cookies, o, s) ==
  LET weighted == Rule("all", s.p, s.c)
      rules    == IF affinity = "none" THEN <<weighted>>
                  ELSE AffinityRules(affinity, cookies, weighted)
  IN  [o EXCEPT !.rules =
         IF a.match THEN IstioRules(a, s.p, s.c)
         ELSE [rules EXCEPT ![1].mirror = s.m]]

\* kubectl's annotation has the user's rules.  Without either annotation the object
\* stays as it is.
IstioFinalize(o) ==
  IF o.kubectl THEN [o EXCEPT !.rules = UserRules, !.version = 0]
  ELSE IF o.original # <<>> THEN [o EXCEPT !.rules = o.original, !.version = 0]
  ELSE o

------------------------------------------------------------------------------
\* Gateway API.

GatewayRules(a, p, c) ==
  IF a.match THEN <<Rule("analysis", p, c), PrimaryOnly("all", totalWeight)>>
  ELSE <<Rule("all", p, c)>>

\* Filters count in the comparison, except while a canary that mirrors is analysed.
GatewayReconcile(a, o, version, analysing) ==
  LET rules == GatewayRules(a, totalWeight, 0)
  IN  IF Exists(o) /\ ~(a.mirror /\ analysing) /\ \E i \in DOMAIN o.rules : o.rules[i].mirror
        THEN [o EXCEPT !.rules = rules, !.version = version]
        ELSE Declare(o, version, rules)

GatewayV1Beta1Reconcile(a, o, version, analysing) == GatewayReconcile(a, o, version, analysing)

GatewayV1Beta1GetRoutes(o) ==
  Split(WeightedRule(o.rules).p, WeightedRule(o.rules).c, \E i \in DOMAIN o.rules : o.rules[i].mirror)

\* v1 does not read a route that its gateway has not accepted as it is.
GatewayAccepted(o) == o.observed \in {<<>>, Generation(o)}

GatewayGetRoutes(o) == GatewayV1Beta1GetRoutes(o)

\* Only analyses that count iterations are mirrored.
GatewaySetRoutes(a, affinity, cookies, o, s) ==
  LET weighted == [Rule("all", s.p, s.c) EXCEPT !.mirror = s.m /\ a.iterations > 0]
  IN  [o EXCEPT !.rules =
         IF a.match
           THEN <<[weighted EXCEPT !.on = "analysis"], PrimaryOnly("all", totalWeight)>>
         ELSE IF affinity = "none" THEN <<weighted>>
         ELSE GatewayAffinityRules(affinity, cookies, weighted)]

GatewayV1Beta1SetRoutes(a, affinity, cookies, o, s) ==
  GatewaySetRoutes(a, IF affinity = "none" THEN "none" ELSE "canary", cookies, o, s)

------------------------------------------------------------------------------
\* App Mesh: both API versions.  Unlike the others it keeps the weights of the
\* first route when it rewrites the object.

AppMeshRules(a, p, c) ==
  IF a.match THEN <<Rule("analysis", p, c), PrimaryOnly("all", totalWeight)>>
  ELSE <<Rule("all", p, c)>>

AppMeshReconcile(a, o, version) ==
  IF Exists(o) THEN Declare(o, version, AppMeshRules(a, o.rules[1].p, o.rules[1].c))
  ELSE Declare(o, version, AppMeshRules(a, totalWeight, 0))

AppMeshV1Beta2Reconcile(a, o, version) == AppMeshReconcile(a, o, version)

AppMeshGetRoutes(o) == Split(o.rules[1].p, o.rules[1].c, FALSE)

AppMeshV1Beta2GetRoutes(o) == AppMeshGetRoutes(o)

AppMeshSetRoutes(o, s) == [o EXCEPT !.rules[1].p = s.p, !.rules[1].c = s.c]

AppMeshV1Beta2SetRoutes(o, s) == AppMeshSetRoutes(o, s)

------------------------------------------------------------------------------
\* Contour and Gloo: every write replaces the whole list of routes.

ContourRules(a, p, c) ==
  IF a.match THEN <<Rule("analysis", p, c), Rule("all", totalWeight, 0)>>
  ELSE <<Rule("all", p, c)>>

ContourReconcile(a, o, version) == Declare(o, version, ContourRules(a, totalWeight, 0))
ContourGetRoutes(o)             == Rest(o)
ContourSetRoutes(a, o, s)       == [o EXCEPT !.rules = ContourRules(a, s.p, s.c)]

\* The one route has the matchers of the analysis; the user's own route table has
\* the route for the other requests.
GlooRules(a, p, c) == <<Rule(IF a.match THEN "analysis" ELSE "all", p, c)>>

GlooReconcile(a, o, version) == Declare(o, version, GlooRules(a, totalWeight, 0))
GlooGetRoutes(o)             == Rest(o)
GlooSetRoutes(a, o, s)       == [o EXCEPT !.rules = GlooRules(a, s.p, s.c)]

------------------------------------------------------------------------------
\* SMI (Linkerd, OSM), Kuma, APISIX: one list of two backends.

SmiReconcile(o, version)         == Declare(o, version, <<Rule("all", totalWeight, 0)>>)
SmiV1Alpha2Reconcile(o, version) == SmiReconcile(o, version)
SmiV1Alpha3Reconcile(o, version) == SmiReconcile(o, version)
KumaReconcile(o, version)        == Declare(o, version, <<Rule("all", totalWeight, 0)>>)
ApisixReconcile(o, version)      == Declare(o, version, <<Rule("all", totalWeight, 0)>>)

SmiGetRoutes(o)         == Split(o.rules[1].p, o.rules[1].c, FALSE)
SmiV1Alpha2GetRoutes(o) == SmiGetRoutes(o)
SmiV1Alpha3GetRoutes(o) == SmiGetRoutes(o)
KumaGetRoutes(o)        == Rest(o)
ApisixGetRoutes(o)      == Rest(o)

SmiSetRoutes(o, s)         == [o EXCEPT !.rules = <<Rule("all", s.p, s.c)>>]
SmiV1Alpha2SetRoutes(o, s) == SmiSetRoutes(o, s)
SmiV1Alpha3SetRoutes(o, s) == SmiSetRoutes(o, s)
KumaSetRoutes(o, s)        == [o EXCEPT !.rules = <<Rule("all", s.p, s.c)>>]
ApisixSetRoutes(o, s)      == [o EXCEPT !.rules[1].p = s.p, !.rules[1].c = s.c]

------------------------------------------------------------------------------
\* Traefik: the canary is in the list only while it gets traffic.  Its Reconcile
\* adds a canary that is in the list, with the weight of the primary.

TraefikReconcile(o, version) ==
  LET listed == Exists(o) /\ o.rules[1].to = {"primary", "canary"}
  IN  Declare(o, version,
        <<IF listed THEN Rule("all", totalWeight, totalWeight) ELSE PrimaryOnly("all", totalWeight)>>)

TraefikGetRoutes(o) == Rest(o)

TraefikSetRoutes(o, s) ==
  [o EXCEPT !.rules = <<IF s.c > 0 THEN Rule("all", s.p, s.c) ELSE PrimaryOnly("all", s.p)>>]

------------------------------------------------------------------------------
\* NGINX: annotations of the canary Ingress, the weight of the canary and a header
\* or cookie that always selects it.

NginxReconcile(o, version) ==
  IF Exists(o) THEN [o EXCEPT !.version = version]
  ELSE Declare(o, version, <<Rule("all", totalWeight, 0)>>)

NginxGetRoutes(a, o) ==
  IF a.match /\ o.rules[1].on = "analysis" THEN AllCanary
  ELSE Split(totalWeight - o.rules[1].c, o.rules[1].c, FALSE)

\* Mutant: the header annotations outlive the rollout.
StickyNginxSetRoutes(a, o, s) ==
  [o EXCEPT !.rules =
     IF a.match THEN <<Rule("analysis", 0, totalWeight), Rule("all", totalWeight, 0)>>
     ELSE <<Rule("all", totalWeight - s.c, s.c)>>]

\* The header annotations come with any weight and go with weight 0.
NginxSetRoutes(a, o, s) ==
  [o EXCEPT !.rules =
     IF a.match /\ s.c > 0 THEN <<Rule("analysis", 0, totalWeight), Rule("all", totalWeight, 0)>>
     ELSE <<Rule("all", totalWeight - s.c, s.c)>>]

------------------------------------------------------------------------------
\* Skipper: the canary Ingress, shut off by a predicate when the canary gets no
\* traffic; requests then take the user's own Ingress, to the apex service.

\* The comparison leaves the annotations out, with the weights and the predicate.
SkipperReconcile(o, version) ==
  IF o.version = version THEN o ELSE Declare(o, version, <<Rule("all", totalWeight, 0)>>)

SkipperGetRoutes(o)          == Split(o.rules[1].p, o.rules[1].c, FALSE)
SkipperSetRoutes(o, s)       ==
  [o EXCEPT !.rules = <<Rule(IF s.c = 0 THEN "none" ELSE "all", s.p, s.c)>>]

\* It deletes the Ingress: an error when there is none.
SkipperFinalizes(o) == Exists(o)
SkipperFinalize(o)  == Absent

------------------------------------------------------------------------------
\* Knative: the traffic of the user's Service, read from its status.  The primary is
\* the revision an annotation names, the canary the latest one.

KnativeInitialize(o, version) == Declare(o, version, <<Rule("all", totalWeight, 0)>>)

\* Reconcile only sets a missing annotation.
KnativeReconcile(o, version) ==
  IF Exists(o) /\ o.version > 0 THEN o ELSE KnativeInitialize([o EXCEPT !.version = version], version)

\* Once Promote made the latest revision the primary, the first target, the
\* latest revision's, is taken for both.
KnativeGetRoutes(o, promoted) ==
  LET seen == o.observed[2][1] IN Split(IF promoted THEN seen.c ELSE seen.p, seen.c, FALSE)

KnativeSetRoutes(o, s) == [o EXCEPT !.rules = <<Rule("all", s.p, s.c)>>]

\* The annotation goes, the traffic stays.
KnativeFinalize(o) == [o EXCEPT !.version = 0]

------------------------------------------------------------------------------
\* router.Interface, of the router that Factory.MeshRouter returns.

Reconcile(provider, a, o, version, analysing) ==
  CASE provider = "istio"              -> IstioReconcile(a, o, version)
    [] provider = "gatewayapi:v1"      -> GatewayReconcile(a, o, version, analysing)
    [] provider = "gatewayapi:v1beta1" -> GatewayV1Beta1Reconcile(a, o, version, analysing)
    [] provider = "appmesh"            -> AppMeshReconcile(a, o, version)
    [] provider = "appmesh:v1beta2"    -> AppMeshV1Beta2Reconcile(a, o, version)
    [] provider = "contour"            -> ContourReconcile(a, o, version)
    [] provider = "gloo"               -> GlooReconcile(a, o, version)
    [] provider = "linkerd"            -> SmiReconcile(o, version)
    [] provider \in {"smi:v1alpha2", "osm"} -> SmiV1Alpha2Reconcile(o, version)
    [] provider = "smi:v1alpha3"       -> SmiV1Alpha3Reconcile(o, version)
    [] provider = "kuma"               -> KumaReconcile(o, version)
    [] provider = "apisix"             -> ApisixReconcile(o, version)
    [] provider = "traefik"            -> TraefikReconcile(o, version)
    [] provider = "nginx"              -> NginxReconcile(o, version)
    [] provider = "skipper"            -> SkipperReconcile(o, version)
    [] provider = "knative"            -> KnativeReconcile(o, version)

\* Whether GetRoutes returns, or an error.
Readable(provider, o) ==
  /\ Exists(o)
  /\ provider = "gatewayapi:v1" => GatewayAccepted(o)
  /\ provider = "knative" => o.observed # <<>>

GetRoutes(provider, a, o, promoted) ==
  CASE provider = "istio"              -> IstioGetRoutes(o)
    [] provider = "gatewayapi:v1"      -> GatewayGetRoutes(o)
    [] provider = "gatewayapi:v1beta1" -> GatewayV1Beta1GetRoutes(o)
    [] provider = "appmesh"            -> AppMeshGetRoutes(o)
    [] provider = "appmesh:v1beta2"    -> AppMeshV1Beta2GetRoutes(o)
    [] provider = "contour"            -> ContourGetRoutes(o)
    [] provider = "gloo"               -> GlooGetRoutes(o)
    [] provider = "linkerd"            -> SmiGetRoutes(o)
    [] provider \in {"smi:v1alpha2", "osm"} -> SmiV1Alpha2GetRoutes(o)
    [] provider = "smi:v1alpha3"       -> SmiV1Alpha3GetRoutes(o)
    [] provider = "kuma"               -> KumaGetRoutes(o)
    [] provider = "apisix"             -> ApisixGetRoutes(o)
    [] provider = "traefik"            -> TraefikGetRoutes(o)
    [] provider = "nginx"              -> NginxGetRoutes(a, o)
    [] provider = "skipper"            -> SkipperGetRoutes(o)
    [] provider = "knative"            -> KnativeGetRoutes(o, promoted)

\* Whether SetRoutes is accepted: Knative's own validation wants percentages that
\* add up to 100.
Accepts(provider, o, s) ==
  Exists(o) /\ (provider = "knative" => s.p + s.c = totalWeight)

SetRoutes(provider, a, affinity, cookies, o, s) ==
  CASE provider = "istio"              -> IstioSetRoutes(a, affinity, cookies, o, s)
    [] provider = "gatewayapi:v1"      -> GatewaySetRoutes(a, affinity, cookies, o, s)
    [] provider = "gatewayapi:v1beta1" -> GatewayV1Beta1SetRoutes(a, affinity, cookies, o, s)
    [] provider = "appmesh"            -> AppMeshSetRoutes(o, s)
    [] provider = "appmesh:v1beta2"    -> AppMeshV1Beta2SetRoutes(o, s)
    [] provider = "contour"            -> ContourSetRoutes(a, o, s)
    [] provider = "gloo"               -> GlooSetRoutes(a, o, s)
    [] provider = "linkerd"            -> SmiSetRoutes(o, s)
    [] provider \in {"smi:v1alpha2", "osm"} -> SmiV1Alpha2SetRoutes(o, s)
    [] provider = "smi:v1alpha3"       -> SmiV1Alpha3SetRoutes(o, s)
    [] provider = "kuma"               -> KumaSetRoutes(o, s)
    [] provider = "apisix"             -> ApisixSetRoutes(o, s)
    [] provider = "traefik"            -> TraefikSetRoutes(o, s)
    [] provider = "nginx"              -> NginxSetRoutes(a, o, s)
    [] provider = "skipper"            -> SkipperSetRoutes(o, s)
    [] provider = "knative"            -> KnativeSetRoutes(o, s)

\* Whether Finalize succeeds, and what it leaves.  The routers not named do nothing.
Finalizes(provider, o) ==
  provider \in {"istio", "skipper", "knative"} => Exists(o)

Finalize(provider, o) ==
  CASE provider = "istio"   -> IstioFinalize(o)
    [] provider = "skipper" -> SkipperFinalize(o)
    [] provider = "knative" -> KnativeFinalize(o)
    [] OTHER                -> o
================================================================================
