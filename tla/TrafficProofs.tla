----------------------------- MODULE TrafficProofs -----------------------------
(***************************************************************************)
(* Theorems about module Traffic, for every set of configurations.         *)
(***************************************************************************)
EXTENDS TrafficProps, StepWeightsProofs

------------------------------------------------------------------------------
\* Rules and objects.

Both == {"primary", "canary"}

RuleSet ==
  [on : Requests, to : SUBSET {"primary", "canary", "apex"}, p : Weights, c : Weights,
   mirror : BOOLEAN, marks : BOOLEAN, cookie : Nat]

Lists == Seq(RuleSet)

Objects ==
  [rules : Lists, version : Nat, observed : {<<>>} \cup (Nat \X Lists), original : Lists,
   kubectl : BOOLEAN]

LEMMA RuleTypes ==
  ASSUME NEW r \in Requests, NEW p \in Weights, NEW c \in Weights
  PROVE  /\ Rule(r, p, c) \in RuleSet
         /\ PrimaryOnly(r, p) \in RuleSet
         /\ \A m \in BOOLEAN : [Rule(r, p, c) EXCEPT !.mirror = m] \in RuleSet
<1>1. 0 \in Weights /\ totalWeight \in Weights
  BY DEF Weights, totalWeight
<1>2. Rule(r, p, c) \in RuleSet
  BY DEF Rule, RuleSet
<1>3. PrimaryOnly(r, p) \in RuleSet
  BY <1>1 DEF Rule, PrimaryOnly, RuleSet
<1>4. \A m \in BOOLEAN : [Rule(r, p, c) EXCEPT !.mirror = m] \in RuleSet
  BY DEF Rule, RuleSet
<1> QED BY <1>2, <1>3, <1>4

LEMMA Replaced ==
  ASSUME NEW o \in Objects, NEW rules \in Lists
  PROVE  LET new == [o EXCEPT !.rules = rules]
         IN  /\ new \in Objects
             /\ new.rules = rules
             /\ new.version = o.version /\ new.observed = o.observed
             /\ new.original = o.original /\ new.kubectl = o.kubectl
BY DEF Objects

\* Rule k of a list is the one whose weights are read: the last with the canary among
\* its backends, and it sets the cookie or none does.
Weighs(list, k) ==
  /\ list \in Lists /\ k \in DOMAIN list
  /\ list[k].to = Both
  /\ \A j \in DOMAIN list : "canary" \in list[j].to => j <= k
  /\ list[k].marks \/ \A j \in DOMAIN list : ~list[j].marks

LEMMA LastIs ==
  ASSUME NEW S, S \subseteq Int, NEW k \in S, \A j \in S : j <= k
  PROVE  (CHOOSE i \in S : \A j \in S : j <= i) = k
<1> DEFINE i == CHOOSE i \in S : \A j \in S : j <= i
<1>1. i \in S /\ \A j \in S : j <= i
  OBVIOUS
<1> HIDE DEF i
<1>2. i <= k /\ k <= i /\ i \in Int /\ k \in Int
  BY <1>1
<1>3. i = k
  BY <1>2
<1> QED BY <1>3 DEF i

LEMMA WeightedIs ==
  ASSUME NEW list, NEW k, Weighs(list, k)
  PROVE  /\ WeightedRule(list) = list[k]
         /\ LET both == {i \in DOMAIN list : "canary" \in list[i].to}
            IN  (CHOOSE i \in both : \A j \in both : j <= i) = k
<1> DEFINE both   == {i \in DOMAIN list : list[i].to = {"primary", "canary"}}
           marked == {i \in both : list[i].marks}
           last(s) == CHOOSE i \in s : \A j \in s : j <= i
           chosen == IF marked # {} THEN marked ELSE both
<1>1. k \in chosen /\ \A j \in chosen : j <= k
  BY DEF Both, Weighs
<1>2. DOMAIN list \subseteq Int
  BY DEF Lists, Weighs
<1>3. last(chosen) = k
  BY <1>1, <1>2
<1>4. WeightedRule(list) = list[last(chosen)]
  BY DEF WeightedRule
<1> DEFINE set == {i \in DOMAIN list : "canary" \in list[i].to}
<1>5. k \in set /\ (\A j \in set : j <= k) /\ set \subseteq Int
  BY <1>2 DEF Weighs, Both
<1>6. (CHOOSE i \in set : \A j \in set : j <= i) = k
  BY <1>5, LastIs
<1> QED BY <1>3, <1>4, <1>6

\* A weighted rule with nothing about cookies.
Weighted(w) == w \in RuleSet /\ w.to = Both /\ w.marks = FALSE

LEMMA RuleWeighted ==
  ASSUME NEW r \in Requests, NEW p \in Weights, NEW c \in Weights, NEW m \in BOOLEAN
  PROVE  LET w == [Rule(r, p, c) EXCEPT !.mirror = m]
         IN  Weighted(w) /\ w.p = p /\ w.c = c /\ w.mirror = m
<1>1. [Rule(r, p, c) EXCEPT !.mirror = m] \in RuleSet
  BY RuleTypes
<1> QED BY <1>1 DEF Weighted, Rule, Both

LEMMA PlainRuleWeighted ==
  ASSUME NEW r \in Requests, NEW p \in Weights, NEW c \in Weights
  PROVE  LET w == Rule(r, p, c)
         IN  Weighted(w) /\ w.p = p /\ w.c = c /\ w.mirror = FALSE
<1>1. Rule(r, p, c) \in RuleSet
  BY RuleTypes
<1> QED BY <1>1 DEF Weighted, Rule, Both

\* One rule; and one for the requests under analysis before one for the others.
LEMMA RulesAre ==
  ASSUME NEW w, Weighted(w), NEW q \in Weights
  PROVE  LET one == <<w>>
             two == <<w, PrimaryOnly("all", q)>>
         IN  /\ Weighs(one, 1) /\ one[1] = w
             /\ (\E i \in DOMAIN one : one[i].mirror) = w.mirror
             /\ Weighs(two, 1) /\ two[1] = w
             /\ (\E i \in DOMAIN two : two[i].mirror) = w.mirror
<1> DEFINE x == PrimaryOnly("all", q)
           Goal ==
             LET one == <<w>>
                 two == <<w, x>>
             IN  /\ Weighs(one, 1) /\ one[1] = w
                 /\ (\E i \in DOMAIN one : one[i].mirror) = w.mirror
                 /\ Weighs(two, 1) /\ two[1] = w
                 /\ (\E i \in DOMAIN two : two[i].mirror) = w.mirror
<1>1. w \in RuleSet /\ x \in RuleSet
  BY RuleTypes DEF Requests, Weighted
<1>2. w.to = Both /\ w.marks = FALSE /\ w.mirror \in BOOLEAN
  BY <1>1 DEF Weighted, RuleSet
<1>3. x.to = {"primary"} /\ x.mirror = FALSE /\ x.marks = FALSE
  BY DEF Rule, PrimaryOnly
<1>4. "canary" \notin {"primary"}
  OBVIOUS
<1> HIDE DEF x
<1>5. <<w>> \in Lists /\ DOMAIN <<w>> = {1} /\ <<w>>[1] = w
  BY <1>1 DEF Lists
<1>6. <<w, x>> \in Lists /\ DOMAIN <<w, x>> = {1, 2} /\ <<w, x>>[1] = w /\ <<w, x>>[2] = x
  BY <1>1 DEF Lists
<1>7. Weighs(<<w>>, 1)
  BY <1>2, <1>5 DEF Weighs
<1>8. Weighs(<<w, x>>, 1)
  BY <1>2, <1>3, <1>4, <1>6 DEF Weighs
<1>9. (\E i \in {1, 2} : <<w, x>>[i].mirror) = w.mirror
  BY <1>2, <1>3, <1>6
<1>10. (\E i \in {1} : <<w>>[i].mirror) = w.mirror
  BY <1>2, <1>5
<1>11. Goal
  BY <1>5, <1>6, <1>7, <1>8, <1>9, <1>10
<1> QED BY <1>11 DEF x

\* The rules of session affinity, for traffic on the canary and for none.
LEMMA AffinityRulesAre ==
  ASSUME NEW affinity \in {"canary", "both"}, NEW own \in [cookie : Nat, previous : Nat],
         NEW w, Weighted(w)
  PROVE  LET list == AffinityRules(affinity, own, w)
             n    == Len(list)
         IN  /\ n \in {2, 3} /\ Weighs(list, n)
             /\ list[n].p = w.p /\ list[n].c = w.c
             /\ \A j \in DOMAIN list : list[j].mirror = w.mirror
<1> DEFINE x == [Rule("canaryCookie", 0, totalWeight) EXCEPT !.cookie = own.cookie, !.mirror = w.mirror]
           y == [Rule("primaryCookie", totalWeight, 0) EXCEPT !.mirror = w.mirror]
           z == [w EXCEPT !.marks = TRUE]
           v == IF own.previous # 0
                  THEN [w EXCEPT !.on = "oldCookie", !.cookie = own.previous] ELSE w
           list == AffinityRules(affinity, own, w)
           n    == Len(list)
           Goal == /\ n \in {2, 3} /\ Weighs(list, n)
                   /\ list[n].p = w.p /\ list[n].c = w.c
                   /\ \A j \in DOMAIN list : list[j].mirror = w.mirror
<1>1. /\ w.to = Both /\ ~w.marks
      /\ x.to = Both /\ x.mirror = w.mirror
      /\ y.to = Both /\ y.mirror = w.mirror
      /\ z.to = Both /\ z.mirror = w.mirror /\ z.marks /\ z.p = w.p /\ z.c = w.c
      /\ v.to = Both /\ v.mirror = w.mirror /\ ~v.marks
  BY DEF Rule, Both, Weighted, RuleSet
<1>2. w \in RuleSet /\ x \in RuleSet /\ y \in RuleSet /\ z \in RuleSet /\ v \in RuleSet
  <2>1. 0 \in Weights /\ totalWeight \in Weights
    BY DEF Weights, totalWeight
  <2>2. own.cookie \in Nat /\ own.previous \in Nat
    OBVIOUS
  <2>3. w \in RuleSet
    BY DEF Weighted
  <2>4. x \in RuleSet
    BY <2>1, <2>2, <2>3 DEF Rule, RuleSet, Requests
  <2>5. y \in RuleSet
    BY <2>1, <2>3 DEF Rule, RuleSet, Requests
  <2>6. z \in RuleSet
    BY <2>3 DEF RuleSet
  <2>7. v \in RuleSet
    BY <2>2, <2>3 DEF RuleSet, Requests
  <2> QED BY <2>3, <2>4, <2>5, <2>6, <2>7
<1>3. list = IF w.c = 0 THEN <<v, w>> ELSE IF affinity = "both" THEN <<x, y, z>> ELSE <<x, z>>
  BY DEF AffinityRules
<1> HIDE DEF x, y, z, v
<1>4. ASSUME w.c # 0 /\ affinity = "both" PROVE Goal
  <2>1. list = <<x, y, z>>
    BY <1>3, <1>4
  <2>2. list \in Lists /\ n = 3 /\ DOMAIN list = {1, 2, 3}
    BY <1>2, <2>1 DEF Lists
  <2>3. list[1] = x /\ list[2] = y /\ list[3] = z
    BY <2>1
  <2> QED BY <1>1, <2>2, <2>3 DEF Weighs
<1>5. ASSUME w.c # 0 /\ affinity = "canary" PROVE Goal
  <2>1. list = <<x, z>>
    BY <1>3, <1>5
  <2>2. list \in Lists /\ n = 2 /\ DOMAIN list = {1, 2}
    BY <1>2, <2>1 DEF Lists
  <2>3. list[1] = x /\ list[2] = z
    BY <2>1
  <2> QED BY <1>1, <2>2, <2>3 DEF Weighs
<1>6. ASSUME w.c = 0 PROVE Goal
  <2>1. list = <<v, w>>
    BY <1>3, <1>6
  <2>2. list \in Lists /\ n = 2 /\ DOMAIN list = {1, 2}
    BY <1>2, <2>1 DEF Lists
  <2>3. list[1] = v /\ list[2] = w
    BY <2>1
  <2> QED BY <1>1, <2>2, <2>3 DEF Weighs
<1> QED BY <1>4, <1>5, <1>6

------------------------------------------------------------------------------
\* What is written and what is read.

LEMMA CfgFacts ==
  ASSUME cfg \in Configs
  PROVE  /\ cfg.provider \in Providers
         /\ a \in Analyses /\ a.stepWeight <= totalWeight
         /\ a.match \in BOOLEAN /\ a.mirror \in BOOLEAN /\ a.iterations \in Nat
         /\ a.stepWeightPromotion \in Nat
         /\ cfg.affinity \in {"none", "canary", "both"}
         /\ cfg.affinity # "none" => cfg.provider \in Gateways \cup {"istio"} /\ ~a.match
         /\ cfg.adopted \in BOOLEAN /\ (cfg.adopted => cfg.provider = "istio")
         /\ cfg.edits \in Nat /\ cfg.faults \in Nat /\ cfg.rollouts \in Nat
BY ConfigsAssumption DEF a, Analyses

\* What GetRoutes returns of an object whose status is up to date.
Now(o) ==
  IF cfg.provider = "knative" THEN SmiGetRoutes(o) ELSE GetRoutes(cfg.provider, a, o, FALSE)

\* What it returns after SetRoutes of split s.
Shown(s) ==
  IF cfg.provider = "nginx" /\ a.match /\ s.c > 0 THEN AllCanary
  ELSE Split(s.p, s.c, s.m /\ ~MirrorLost)

\* Object new is o with other rules.
Rewritten(o, new) ==
  /\ new \in Objects /\ Exists(new)
  /\ new.version = o.version /\ new.observed = o.observed
  /\ new.original = o.original /\ new.kubectl = o.kubectl

LEMMA IstioSet ==
  ASSUME cfg \in Configs, cfg.provider = "istio", NEW o \in Objects,
         NEW s \in Splits, NEW own \in [cookie : Nat, previous : Nat]
  PROVE  LET new == IstioSetRoutes(a, cfg.affinity, own, o, s)
         IN  Rewritten(o, new) /\ IstioGetRoutes(new) = Shown(s)
<1> DEFINE new == IstioSetRoutes(a, cfg.affinity, own, o, s)
           w == Rule("all", s.p, s.c)
<1>0. s.p \in Weights /\ s.c \in Weights /\ s.m \in BOOLEAN
  BY DEF Splits
<1>r. "all" \in Requests /\ "analysis" \in Requests
  BY DEF Requests
<1>1. ASSUME NEW list, NEW k, Weighs(list, k), new = [o EXCEPT !.rules = list],
             list[k].p = s.p, list[k].c = s.c, list[k].mirror = (s.m /\ ~MirrorLost)
      PROVE  Rewritten(o, new) /\ IstioGetRoutes(new) = Shown(s)
  <2>1. list \in Lists /\ list # <<>>
    BY <1>1 DEF Weighs, Lists
  <2>2. Rewritten(o, new) /\ new.rules = list
    BY <1>1, <2>1, Replaced DEF Rewritten, Exists
  <2>3. IstioGetRoutes(new) = Split(list[k].p, list[k].c, list[k].mirror)
    BY <1>1, <2>2, WeightedIs, ZenonT(30) DEF IstioGetRoutes
  <2> QED BY <1>1, <2>2, <2>3 DEF Shown
<1>2. CASE a.match
  <2> DEFINE v == Rule("analysis", s.p, s.c)
             list == <<v, PrimaryOnly("all", s.p)>>
  <2>1. new = [o EXCEPT !.rules = list]
    BY <1>2 DEF IstioSetRoutes, IstioRules
  <2>2. Weighted(v) /\ v.p = s.p /\ v.c = s.c /\ v.mirror = FALSE
    BY <1>0, <1>r, PlainRuleWeighted, ZenonT(30)
  <2> HIDE DEF v
  <2>3. Weighs(list, 1) /\ list[1] = v
    BY <1>0, <2>2, RulesAre
  <2>4. MirrorLost
    BY <1>2 DEF MirrorLost
  <2> HIDE DEF list
  <2> QED BY <1>1, <2>1, <2>2, <2>3, <2>4
<1>3. CASE ~a.match /\ cfg.affinity = "none"
  <2> DEFINE v == [w EXCEPT !.mirror = s.m]
             list == <<v>>
  <2>1. new = [o EXCEPT !.rules = list]
    <3>1. [<<w>> EXCEPT ![1].mirror = s.m] = <<v>>
      OBVIOUS
    <3> QED BY <1>3, <3>1 DEF IstioSetRoutes
  <2>2. Weighted(v) /\ v.p = s.p /\ v.c = s.c /\ v.mirror = s.m
    BY <1>0, <1>r, RuleWeighted
  <2> HIDE DEF v
  <2>3. Weighs(list, 1) /\ list[1] = v
    BY <1>0, <2>2, RulesAre
  <2>4. ~MirrorLost
    BY <1>3 DEF MirrorLost, Gateways
  <2> HIDE DEF list
  <2> QED BY <1>0, <1>1, <2>1, <2>2, <2>3, <2>4
<1>4. CASE ~a.match /\ cfg.affinity # "none"
  <2> DEFINE list == AffinityRules(cfg.affinity, own, w)
             n == Len(list)
             first == [list[1] EXCEPT !.mirror = s.m]
             last == [list EXCEPT ![1] = first]
  <2>1. new = [o EXCEPT !.rules = last]
    BY <1>4 DEF IstioSetRoutes
  <2>2. Weighted(w) /\ w.p = s.p /\ w.c = s.c /\ w.mirror = FALSE
    BY <1>0, <1>r, PlainRuleWeighted, ZenonT(30)
  <2> HIDE DEF w
  <2>3. /\ n \in {2, 3} /\ Weighs(list, n)
        /\ list[n].p = s.p /\ list[n].c = s.c
        /\ \A j \in DOMAIN list : list[j].mirror = FALSE
    <3>1. cfg.affinity \in {"canary", "both"}
      BY <1>4, CfgFacts
    <3> QED BY <2>2, <3>1, AffinityRulesAre
  <2>4. MirrorLost
    BY <1>4 DEF MirrorLost
  <2> HIDE DEF list
  <2>5. list \in Lists /\ DOMAIN list = 1 .. n /\ list[1] \in RuleSet
    BY <2>3 DEF Weighs, Lists
  <2>6. first \in RuleSet /\ first.to = list[1].to /\ first.marks = list[1].marks
    BY <1>0, <2>5 DEF RuleSet
  <2> HIDE DEF first
  <2>7. last \in Lists /\ DOMAIN last = DOMAIN list
    BY <2>3, <2>5, <2>6 DEF Lists
  <2>8. /\ last[1] = first /\ \A j \in DOMAIN list : j # 1 => last[j] = list[j]
        /\ 1 \in DOMAIN list /\ n \in DOMAIN list /\ n # 1
    <3>1. 1 \in 1 .. n /\ n \in 1 .. n /\ n # 1
      <4> HIDE DEF n
      <4> QED BY <2>3
    <3>2. DOMAIN list = 1 .. n
      BY <2>5
    <3> QED BY <2>5, <3>1, <3>2 DEF Lists
  <2>9. Weighs(last, n)
    BY <2>3, <2>6, <2>7, <2>8 DEF Weighs
  <2>10. last[n].p = s.p /\ last[n].c = s.c /\ last[n].mirror = (s.m /\ ~MirrorLost)
    BY <2>3, <2>4, <2>8
  <2> HIDE DEF last
  <2> QED BY <1>1, <2>1, <2>9, <2>10
<1> QED BY <1>2, <1>3, <1>4, CfgFacts

LEMMA GatewaySet ==
  ASSUME cfg \in Configs, cfg.provider \in Gateways, NEW o \in Objects, NEW s \in Splits,
         NEW affinity \in {"none", "canary", "both"}, NEW own \in [cookie : Nat, previous : Nat]
  PROVE  LET new == GatewaySetRoutes(a, affinity, own, o, s)
         IN  Rewritten(o, new) /\ GatewayV1Beta1GetRoutes(new) = Shown(s)
<1> DEFINE new == GatewaySetRoutes(a, affinity, own, o, s)
           m == s.m /\ a.iterations > 0
           w == [Rule("all", s.p, s.c) EXCEPT !.mirror = m]
<1>0. s.p \in Weights /\ s.c \in Weights /\ s.m \in BOOLEAN /\ m \in BOOLEAN
  BY DEF Splits
<1>r. "all" \in Requests /\ "analysis" \in Requests /\ totalWeight \in Weights
  BY DEF Requests, Weights, totalWeight
<1>l. (MirrorLost <=> a.iterations = 0) /\ a.iterations \in Nat
  BY CfgFacts DEF MirrorLost, Gateways
<1>m. m <=> (s.m /\ ~MirrorLost)
  BY <1>0, <1>l
<1> HIDE DEF m
<1>1. ASSUME NEW list, NEW k, Weighs(list, k), new = [o EXCEPT !.rules = list],
             list[k].p = s.p, list[k].c = s.c, (\E i \in DOMAIN list : list[i].mirror) = m
      PROVE  Rewritten(o, new) /\ GatewayV1Beta1GetRoutes(new) = Shown(s)
  <2>1. list \in Lists /\ list # <<>>
    BY <1>1 DEF Weighs, Lists
  <2>2. Rewritten(o, new) /\ new.rules = list
    BY <1>1, <2>1, Replaced DEF Rewritten, Exists
  <2>a. GatewayV1Beta1GetRoutes(new) =
           Split(WeightedRule(list).p, WeightedRule(list).c, \E i \in DOMAIN list : list[i].mirror)
    BY <2>2 DEF GatewayV1Beta1GetRoutes
  <2>b. WeightedRule(list) = list[k]
    BY <1>1, WeightedIs
  <2>3. GatewayV1Beta1GetRoutes(new) = Split(s.p, s.c, m)
    BY <1>1, <2>a, <2>b
  <2>4. cfg.provider # "nginx"
    BY DEF Gateways
  <2> QED BY <1>m, <2>2, <2>3, <2>4 DEF Shown
<1>2. Weighted(w) /\ w.p = s.p /\ w.c = s.c /\ w.mirror = m
  BY <1>0, <1>r, RuleWeighted
<1>3. CASE a.match
  <2> DEFINE v == [w EXCEPT !.on = "analysis"]
             list == <<v, PrimaryOnly("all", totalWeight)>>
  <2>1. new = [o EXCEPT !.rules = list]
    BY <1>3 DEF GatewaySetRoutes, m
  <2> HIDE DEF w
  <2>2. Weighted(v) /\ v.p = s.p /\ v.c = s.c /\ v.mirror = m
    BY <1>r, <1>2 DEF Weighted, RuleSet
  <2> HIDE DEF v
  <2>3. Weighs(list, 1) /\ list[1] = v /\ (\E i \in DOMAIN list : list[i].mirror) = v.mirror
    BY <1>r, <2>2, RulesAre
  <2> HIDE DEF list
  <2> QED BY <1>1, <2>1, <2>2, <2>3
<1>4. CASE ~a.match /\ affinity = "none"
  <2> DEFINE list == <<w>>
  <2>1. new = [o EXCEPT !.rules = list]
    BY <1>4 DEF GatewaySetRoutes, m
  <2> HIDE DEF w
  <2>2. Weighs(list, 1) /\ list[1] = w /\ (\E i \in DOMAIN list : list[i].mirror) = w.mirror
    BY <1>r, <1>2, RulesAre
  <2> HIDE DEF list
  <2> QED BY <1>1, <1>2, <2>1, <2>2
<1>5. CASE ~a.match /\ affinity # "none"
  <2> DEFINE list == AffinityRules(affinity, own, w)
             n == Len(list)
  <2>1. new = [o EXCEPT !.rules = list]
    BY <1>5 DEF GatewaySetRoutes, GatewayAffinityRules, m
  <2> HIDE DEF w
  <2>2. /\ Weighs(list, n) /\ list[n].p = w.p /\ list[n].c = w.c
        /\ \A j \in DOMAIN list : list[j].mirror = w.mirror
    <3>1. affinity \in {"canary", "both"}
      BY <1>5
    <3> QED BY <1>2, <3>1, AffinityRulesAre
  <2> HIDE DEF list
  <2>3. n \in DOMAIN list
    BY <2>2 DEF Weighs
  <2>4. (\E i \in DOMAIN list : list[i].mirror) = m
    BY <1>0, <1>2, <2>2, <2>3
  <2> QED BY <1>1, <1>2, <2>1, <2>2, <2>4
<1> QED BY <1>3, <1>4, <1>5, CfgFacts

\* The routers whose objects have the weights in the first rule.
LEMMA FirstOf ==
  ASSUME NEW o \in Objects, NEW first \in RuleSet, NEW list, NEW new,
         list = <<first>> \/ \E second \in RuleSet : list = <<first, second>>,
         new = [o EXCEPT !.rules = list]
  PROVE  Rewritten(o, new) /\ new.rules = list /\ new.rules[1] = first
<1>1. list \in Lists /\ list # <<>> /\ list[1] = first
  <2>1. CASE list = <<first>>
    BY <2>1 DEF Lists
  <2>2. ASSUME NEW second \in RuleSet, list = <<first, second>>
        PROVE  list \in Lists /\ list # <<>> /\ list[1] = first
    BY <2>2 DEF Lists
  <2> QED BY <2>1, <2>2
<1> QED BY <1>1, Replaced DEF Rewritten, Exists

LEMMA AppMeshSet ==
  ASSUME NEW o \in Objects, Exists(o), NEW s \in Splits
  PROVE  LET new == AppMeshSetRoutes(o, s)
         IN  Rewritten(o, new) /\ new.rules[1].p = s.p /\ new.rules[1].c = s.c
<1> DEFINE list  == o.rules
           first == [list[1] EXCEPT !.p = s.p, !.c = s.c]
           last  == [list EXCEPT ![1] = first]
<1>1. list \in Lists /\ 1 \in DOMAIN list
  BY DEF Exists, Objects, Lists
<1>2. list[1] \in RuleSet
  BY <1>1 DEF Lists
<1>3. first \in RuleSet /\ first.p = s.p /\ first.c = s.c
  BY <1>2 DEF RuleSet, Splits
<1>4. AppMeshSetRoutes(o, s) = [o EXCEPT !.rules = last]
  BY <1>1, <1>2 DEF AppMeshSetRoutes, Objects, RuleSet
<1> HIDE DEF list, first
<1>5. last \in Lists /\ last # <<>> /\ last[1] = first
  BY <1>1, <1>3 DEF Lists
<1> HIDE DEF last
<1> QED BY <1>3, <1>4, <1>5, Replaced DEF Rewritten, Exists

\* What SetRoutes writes GetRoutes reads back, but for the mirror, and the weights that
\* an NGINX match ignores.
LEMMA SetReads ==
  ASSUME cfg \in Configs, NEW o \in Objects, Exists(o), NEW s \in Splits,
         s.p + s.c = totalWeight, NEW own \in [cookie : Nat, previous : Nat]
  PROVE  LET new == SetRoutes(cfg.provider, a, cfg.affinity, own, o, s)
         IN  Rewritten(o, new) /\ Now(new) = Shown(s)
<1> DEFINE provider == cfg.provider
           new == SetRoutes(provider, a, cfg.affinity, own, o, s)
           Goal == Rewritten(o, new) /\ Now(new) = Shown(s)
           plain == Rule("all", s.p, s.c)
<1>0. s.p \in Weights /\ s.c \in Weights /\ s.m \in BOOLEAN
  BY DEF Splits
<1>r. /\ "all" \in Requests /\ "analysis" \in Requests /\ "none" \in Requests
      /\ 0 \in Weights /\ totalWeight \in Weights
      /\ totalWeight - s.p = s.c /\ totalWeight - s.c = s.p
  BY <1>0, SMTT(20) DEF Requests, Weights, totalWeight
<1>s. \A r \in Requests, p \in Weights, c \in Weights :
        Rule(r, p, c) \in RuleSet /\ Rule(r, p, c).p = p /\ Rule(r, p, c).c = c
  <2> SUFFICES ASSUME NEW r \in Requests, NEW p \in Weights, NEW c \in Weights
               PROVE  Rule(r, p, c) \in RuleSet /\ Rule(r, p, c).p = p /\ Rule(r, p, c).c = c
    OBVIOUS
  <2> QED BY RuleTypes DEF Rule
<1>n. provider \notin Gateways \cup {"istio", "nginx"} => Shown(s) = Split(s.p, s.c, FALSE)
  <2> SUFFICES ASSUME provider \notin Gateways \cup {"istio", "nginx"}
               PROVE  Shown(s) = Split(s.p, s.c, FALSE)
    OBVIOUS
  <2>1. MirrorLost
    BY DEF MirrorLost
  <2> QED BY <2>1 DEF Shown
<1>1. CASE provider = "istio"
  <2>1. new = IstioSetRoutes(a, cfg.affinity, own, o, s)
    BY <1>1 DEF SetRoutes
  <2>2. Now(new) = IstioGetRoutes(new)
    BY <1>1 DEF Now, GetRoutes
  <2> QED BY <1>1, <2>1, <2>2, IstioSet
<1>2. CASE provider \in Gateways
  <2>1. PICK affinity \in {"none", "canary", "both"} : new = GatewaySetRoutes(a, affinity, own, o, s)
    <3>1. cfg.affinity \in {"none", "canary", "both"}
      BY CfgFacts
    <3>2. CASE provider = "gatewayapi:v1"
      BY <3>1, <3>2 DEF SetRoutes
    <3>3. CASE provider = "gatewayapi:v1beta1"
      BY <3>1, <3>3 DEF SetRoutes, GatewayV1Beta1SetRoutes
    <3> QED BY <1>2, <3>2, <3>3 DEF Gateways
  <2>2. Now(new) = GatewayV1Beta1GetRoutes(new)
    BY <1>2 DEF Now, GetRoutes, GatewayGetRoutes, Gateways
  <2> QED BY <1>2, <2>1, <2>2, GatewaySet
<1>3. CASE provider \in AppMeshes \cup {"apisix"}
  <2>1. new = AppMeshSetRoutes(o, s)
    BY <1>3 DEF SetRoutes, AppMeshes, AppMeshV1Beta2SetRoutes, ApisixSetRoutes, AppMeshSetRoutes
  <2>2. Now(new) \in {Split(new.rules[1].p, new.rules[1].c, FALSE), Rest(new)}
    BY <1>3 DEF Now, GetRoutes, AppMeshes, AppMeshV1Beta2GetRoutes, AppMeshGetRoutes, ApisixGetRoutes
  <2>3. Rewritten(o, new) /\ new.rules[1].p = s.p /\ new.rules[1].c = s.c
    BY <2>1, AppMeshSet
  <2>4. provider \notin Gateways \cup {"istio", "nginx"}
    BY <1>3 DEF AppMeshes, Gateways
  <2> QED BY <1>n, <1>r, <2>2, <2>3, <2>4 DEF Rest
<1>4. CASE provider \in {"contour", "gloo"}
  <2> DEFINE first == Rule(IF a.match THEN "analysis" ELSE "all", s.p, s.c)
  <2>1. \/ new = [o EXCEPT !.rules = <<first>>]
        \/ new = [o EXCEPT !.rules = <<first, Rule("all", totalWeight, 0)>>]
    BY <1>4 DEF SetRoutes, ContourSetRoutes, ContourRules, GlooSetRoutes, GlooRules
  <2>2. first \in RuleSet /\ first.p = s.p /\ first.c = s.c /\ Rule("all", totalWeight, 0) \in RuleSet
    BY <1>0, <1>r, <1>s
  <2>3. Now(new) = Rest(new)
    BY <1>4 DEF Now, GetRoutes, ContourGetRoutes, GlooGetRoutes
  <2>4. provider \notin Gateways \cup {"istio", "nginx"}
    BY <1>4 DEF Gateways
  <2> HIDE DEF first
  <2>a. PICK list : /\ new = [o EXCEPT !.rules = list]
                    /\ list = <<first>> \/ \E y \in RuleSet : list = <<first, y>>
    BY <2>1, <2>2
  <2>5. Rewritten(o, new) /\ new.rules[1] = first
    BY <2>2, <2>a, FirstOf
  <2> QED BY <1>n, <1>r, <2>2, <2>3, <2>4, <2>5 DEF Rest
<1>5. CASE provider \in SMIs \cup {"kuma", "knative"}
  <2>1. new = [o EXCEPT !.rules = <<plain>>]
    BY <1>5 DEF SetRoutes, SMIs, SmiSetRoutes, SmiV1Alpha2SetRoutes, SmiV1Alpha3SetRoutes,
       KumaSetRoutes, KnativeSetRoutes
  <2>2. plain \in RuleSet /\ plain.p = s.p /\ plain.c = s.c
    BY <1>0, <1>r, <1>s
  <2>3. Now(new) \in {Split(new.rules[1].p, new.rules[1].c, FALSE), Rest(new)}
    BY <1>5 DEF Now, GetRoutes, SMIs, SmiGetRoutes, SmiV1Alpha2GetRoutes, SmiV1Alpha3GetRoutes,
       KumaGetRoutes
  <2>4. provider \notin Gateways \cup {"istio", "nginx"}
    BY <1>5 DEF Gateways, SMIs
  <2> HIDE DEF plain
  <2>a. PICK list : /\ new = [o EXCEPT !.rules = list]
                    /\ list = <<plain>> \/ \E y \in RuleSet : list = <<plain, y>>
    BY <2>1, <2>2
  <2>5. Rewritten(o, new) /\ new.rules[1] = plain
    BY <2>2, <2>a, FirstOf
  <2> QED BY <1>n, <1>r, <2>2, <2>3, <2>4, <2>5 DEF Rest
<1>6. CASE provider \in {"traefik", "skipper"}
  <2> DEFINE first == IF provider = "skipper" THEN Rule(IF s.c = 0 THEN "none" ELSE "all", s.p, s.c)
                      ELSE IF s.c > 0 THEN plain ELSE PrimaryOnly("all", s.p)
  <2>1. new = [o EXCEPT !.rules = <<first>>]
    BY <1>6 DEF SetRoutes, TraefikSetRoutes, SkipperSetRoutes
  <2>2. first \in RuleSet /\ first.p = s.p /\ (provider = "skipper" => first.c = s.c)
    <3>1. PrimaryOnly("all", s.p) \in RuleSet /\ PrimaryOnly("all", s.p).p = s.p
      BY <1>0, <1>r, RuleTypes DEF PrimaryOnly, Rule
    <3> QED BY <1>0, <1>r, <1>s, <1>6, <3>1
  <2>3. Now(new) = IF provider = "skipper" THEN Split(new.rules[1].p, new.rules[1].c, FALSE)
                   ELSE Rest(new)
    BY <1>6 DEF Now, GetRoutes, TraefikGetRoutes, SkipperGetRoutes
  <2>4. provider \notin Gateways \cup {"istio", "nginx"}
    BY <1>6 DEF Gateways
  <2> HIDE DEF first
  <2>a. PICK list : /\ new = [o EXCEPT !.rules = list]
                    /\ list = <<first>> \/ \E y \in RuleSet : list = <<first, y>>
    BY <2>1, <2>2
  <2>5. Rewritten(o, new) /\ new.rules[1] = first
    BY <2>2, <2>a, FirstOf
  <2> QED BY <1>n, <1>r, <2>2, <2>3, <2>4, <2>5 DEF Rest
<1>7. CASE provider = "nginx"
  <2> DEFINE always == Rule("analysis", 0, totalWeight)
             second == Rule("all", totalWeight, 0)
  <2>1. new = [o EXCEPT !.rules = IF a.match /\ s.c > 0 THEN <<always, second>> ELSE <<plain>>]
    BY <1>7, <1>r DEF SetRoutes, NginxSetRoutes
  <2>2. /\ always \in RuleSet /\ always.on = "analysis" /\ second \in RuleSet
        /\ plain \in RuleSet /\ plain.c = s.c /\ plain.on = "all"
    BY <1>0, <1>r, <1>s DEF Rule
  <2>3. Now(new) = NginxGetRoutes(a, new)
    BY <1>7 DEF Now, GetRoutes
  <2>4. MirrorLost
    BY <1>7 DEF MirrorLost, Gateways
  <2>5. Shown(s) = IF a.match /\ s.c > 0 THEN AllCanary ELSE Split(s.p, s.c, FALSE)
    BY <1>7, <2>4 DEF Shown
  <2> HIDE DEF always, second, plain
  <2>6. CASE a.match /\ s.c > 0
    <3> DEFINE list == <<always, second>>
    <3>a. new = [o EXCEPT !.rules = list] /\ \E x \in RuleSet : list = <<always, x>>
      BY <2>1, <2>2, <2>6
    <3> HIDE DEF list
    <3>1. Rewritten(o, new) /\ new.rules[1] = always
      BY <2>2, <3>a, FirstOf
    <3> QED BY <2>2, <2>3, <2>5, <2>6, <3>1 DEF NginxGetRoutes
  <2>7. CASE ~(a.match /\ s.c > 0)
    <3> DEFINE list == <<plain>>
    <3>a. new = [o EXCEPT !.rules = list] /\ list = <<plain>>
      BY <2>1, <2>2, <2>7
    <3> HIDE DEF list
    <3>1. Rewritten(o, new) /\ new.rules[1] = plain
      BY <2>2, <3>a, FirstOf
    <3> QED BY <1>r, <2>2, <2>3, <2>5, <2>7, <3>1 DEF NginxGetRoutes
  <2> QED BY <2>6, <2>7
<1>8. provider \in Providers
  BY CfgFacts
<1> QED BY <1>1, <1>2, <1>3, <1>4, <1>5, <1>6, <1>7, <1>8 DEF Providers, Lagging, Gateways, AppMeshes, SMIs

------------------------------------------------------------------------------
\* What Reconcile leaves.

LEMMA DeclareIs ==
  ASSUME NEW o \in Objects, NEW ver \in Nat, NEW rules \in Lists, rules # <<>>
  PROVE  LET new == Declare(o, ver, rules)
         IN  /\ new \in Objects /\ Exists(new) /\ new.version = ver
             /\ new.observed = o.observed /\ new.kubectl = o.kubectl
             /\ \/ new.rules = rules
                \/ new.rules = o.rules /\ Exists(o) /\ o.version = ver
<1> DEFINE written == [o EXCEPT !.rules = rules, !.version = ver]
<1>1. /\ written \in Objects /\ written.rules = rules /\ written.version = ver
      /\ written.observed = o.observed /\ written.kubectl = o.kubectl
  BY DEF Objects
<1>2. CASE Exists(o) /\ ~Differs(o, ver, rules)
  BY <1>2 DEF Declare, Differs
<1>3. CASE ~(Exists(o) /\ ~Differs(o, ver, rules))
  <2>1. Declare(o, ver, rules) = written
    BY <1>3 DEF Declare
  <2> HIDE DEF written
  <2> QED BY <1>1, <2>1 DEF Exists
<1> QED BY <1>2, <1>3

\* Object new is what Reconcile leaves of o: the same rules, rules that read as all
\* primary, or, with App Mesh, rules that read as the old ones.
Reconciled(o, new) ==
  /\ new \in Objects /\ Exists(new) /\ new.version > 0
  /\ new.observed = o.observed /\ new.kubectl = o.kubectl
  /\ cfg.provider = "knative" => new = o
  /\ \/ new.rules = o.rules /\ Exists(o) /\ o.version > 0
     \/ Now(new) = AllPrimary
     \/ cfg.provider \in AppMeshes /\ Exists(o) /\ Now(new) = Now(o)

\* What is read depends on the rules only.
LEMMA NowOfRules ==
  ASSUME cfg.provider \in Providers, NEW o, NEW new, new.rules = o.rules
  PROVE  Now(new) = Now(o)
<1>1. /\ SmiGetRoutes(new) = SmiGetRoutes(o)
      /\ Rest(new) = Rest(o)
      /\ IstioGetRoutes(new) = IstioGetRoutes(o)
      /\ GatewayV1Beta1GetRoutes(new) = GatewayV1Beta1GetRoutes(o)
      /\ NginxGetRoutes(a, new) = NginxGetRoutes(a, o)
      /\ AppMeshGetRoutes(new) = AppMeshGetRoutes(o)
      /\ SkipperGetRoutes(new) = SkipperGetRoutes(o)
  BY DEF SmiGetRoutes, Rest, IstioGetRoutes, GatewayV1Beta1GetRoutes, NginxGetRoutes,
     AppMeshGetRoutes, SkipperGetRoutes
<1>2. CASE cfg.provider \in Gateways \cup AppMeshes \cup {"knative", "istio", "nginx", "skipper"}
  BY <1>1, <1>2 DEF Now, GetRoutes, Gateways, AppMeshes, GatewayGetRoutes, AppMeshV1Beta2GetRoutes
<1>3. CASE cfg.provider \in SMIs
  BY <1>1, <1>3 DEF Now, GetRoutes, SMIs, SmiV1Alpha2GetRoutes, SmiV1Alpha3GetRoutes
<1>4. CASE cfg.provider \in {"contour", "gloo", "kuma", "apisix", "traefik"}
  BY <1>1, <1>4 DEF Now, GetRoutes, ContourGetRoutes, GlooGetRoutes, KumaGetRoutes,
     ApisixGetRoutes, TraefikGetRoutes
<1> QED BY <1>2, <1>3, <1>4 DEF Providers, Lagging, Gateways, AppMeshes, SMIs

\* A list of one or two rules whose first has the weights of all primary.
LEMMA PrimaryFirst ==
  ASSUME NEW rules,
         \E first \in RuleSet :
            /\ first.p = totalWeight
            /\ rules = <<first>> \/ \E second \in RuleSet : rules = <<first, second>>
  PROVE  rules \in Lists /\ rules # <<>> /\ rules[1].p = totalWeight
<1>1. PICK first \in RuleSet :
         /\ first.p = totalWeight
         /\ rules = <<first>> \/ \E second \in RuleSet : rules = <<first, second>>
  OBVIOUS
<1>2. CASE rules = <<first>>
  BY <1>1, <1>2 DEF Lists
<1>3. ASSUME NEW second \in RuleSet, rules = <<first, second>>
      PROVE  rules \in Lists /\ rules # <<>> /\ rules[1].p = totalWeight
  BY <1>1, <1>3 DEF Lists
<1> QED BY <1>1, <1>2, <1>3

LEMMA DeclareReads ==
  ASSUME NEW o \in Objects, NEW ver \in Nat, ver > 0, NEW rules \in Lists, rules # <<>>,
         \A new \in Objects : new.rules = rules => Now(new) = AllPrimary,
         cfg.provider # "knative"
  PROVE  Reconciled(o, Declare(o, ver, rules))
<1> DEFINE new == Declare(o, ver, rules)
<1>1. /\ new \in Objects /\ Exists(new) /\ new.version = ver
      /\ new.observed = o.observed /\ new.kubectl = o.kubectl
      /\ \/ new.rules = rules
         \/ new.rules = o.rules /\ Exists(o) /\ o.version = ver
  BY DeclareIs
<1> HIDE DEF new
<1>2. Reconciled(o, new)
  BY <1>1 DEF Reconciled
<1> QED BY <1>2 DEF new

\* Rules that read as all primary: with Istio and the Gateway API the weighted one
\* counts, with most of the others the first.
LEMMA WeighedPrimary ==
  ASSUME NEW w, Weighted(w), w.p = totalWeight, w.c = 0, w.mirror = FALSE, NEW q \in Weights,
         NEW list \in {<<w>>, <<w, PrimaryOnly("all", q)>>}
  PROVE  /\ list \in Lists /\ list # <<>>
         /\ \A new : new.rules = list =>
              /\ IstioGetRoutes(new) = AllPrimary
              /\ GatewayV1Beta1GetRoutes(new) = AllPrimary
              /\ AppMeshGetRoutes(new) = AllPrimary
              /\ Rest(new) = AllPrimary
<1>1. Weighs(list, 1) /\ list[1] = w /\ (\E i \in DOMAIN list : list[i].mirror) = w.mirror
  <2>1. CASE list = <<w>>
    BY <2>1, RulesAre
  <2>2. CASE list = <<w, PrimaryOnly("all", q)>>
    BY <2>2, RulesAre
  <2> QED BY <2>1, <2>2
<1>2. list \in Lists /\ list # <<>>
  BY <1>1 DEF Weighs, Lists
<1>3. WeightedRule(list) = w
  BY <1>1, WeightedIs
<1>4. LET both == {i \in DOMAIN list : "canary" \in list[i].to}
      IN  (CHOOSE i \in both : \A j \in both : j <= i) = 1
  BY <1>1, WeightedIs
<1>5. ASSUME NEW new, new.rules = list
      PROVE  IstioGetRoutes(new) = AllPrimary /\ GatewayV1Beta1GetRoutes(new) = AllPrimary
  BY <1>1, <1>3, <1>4, <1>5 DEF IstioGetRoutes, GatewayV1Beta1GetRoutes, AllPrimary
<1>6. ASSUME NEW new, new.rules = list
      PROVE  AppMeshGetRoutes(new) = AllPrimary /\ Rest(new) = AllPrimary
  <2>1. new.rules[1].p = totalWeight /\ new.rules[1].c = 0
    BY <1>1, <1>6
  <2> QED BY <2>1 DEF AppMeshGetRoutes, Rest, AllPrimary, totalWeight
<1> QED BY <1>2, <1>5, <1>6

\* Reconcile of an object of Flagger's, of none or of a user's.
LEMMA ReconcileReads ==
  ASSUME cfg \in Configs, NEW o \in Objects, NEW ver \in Nat, ver > 0, NEW analysing \in BOOLEAN,
         o.version > 0 => Exists(o),
         Exists(o) /\ o.version = 0 => cfg.provider = "istio",
         cfg.provider = "knative" => o.version > 0
  PROVE  Reconciled(o, Reconcile(cfg.provider, a, o, ver, analysing))
<1> DEFINE provider == cfg.provider
           new == Reconcile(provider, a, o, ver, analysing)
           plain == Rule("all", totalWeight, 0)
           analysed == Rule("analysis", totalWeight, 0)
<1>r. /\ "all" \in Requests /\ "analysis" \in Requests
      /\ 0 \in Weights /\ totalWeight \in Weights
  BY DEF Requests, Weights, totalWeight
<1>w. /\ Weighted(plain) /\ plain.p = totalWeight /\ plain.c = 0 /\ plain.mirror = FALSE
      /\ plain \in RuleSet /\ plain.on = "all"
      /\ Weighted(analysed) /\ analysed.p = totalWeight /\ analysed.c = 0 /\ analysed.mirror = FALSE
      /\ analysed \in RuleSet
  BY <1>r, PlainRuleWeighted DEF Weighted, Rule
<1>p. \A q \in Weights : PrimaryOnly("all", q) \in RuleSet /\ PrimaryOnly("all", q).p = q
  BY <1>r, RuleTypes DEF PrimaryOnly, Rule
<1>k. CASE provider = "knative"
  <2>1. Reconcile(provider, a, o, ver, analysing) = KnativeReconcile(o, ver)
    BY <1>k DEF Reconcile
  <2>2. KnativeReconcile(o, ver) = o
    BY <1>k DEF KnativeReconcile
  <2> QED BY <1>k, <2>1, <2>2 DEF Reconciled
<1>1. CASE provider = "istio"
  <2> DEFINE rules == IstioRules(a, totalWeight, 0)
             declared == Declare(o, ver, rules)
  <2>1. rules = <<plain>> \/ rules = <<analysed, PrimaryOnly("all", totalWeight)>>
    BY DEF IstioRules
  <2>2. Reconcile(provider, a, o, ver, analysing) = IstioReconcile(a, o, ver)
    BY <1>1 DEF Reconcile
  <2>3. IstioReconcile(a, o, ver) \in {declared, [declared EXCEPT !.original = o.rules]}
    BY DEF IstioReconcile
  <2> HIDE DEF plain, analysed, rules
  <2>4. rules \in Lists /\ rules # <<>> /\ \A x : x.rules = rules => IstioGetRoutes(x) = AllPrimary
    BY <1>r, <1>w, <2>1, WeighedPrimary
  <2>5. \A x \in Objects : x.rules = rules => Now(x) = AllPrimary
    BY <1>1, <2>4 DEF Now, GetRoutes
  <2>6. Reconciled(o, declared)
    BY <1>1, <2>4, <2>5, DeclareReads
  <2> HIDE DEF declared
  <2> DEFINE kept == [declared EXCEPT !.original = o.rules]
  <2>7. /\ kept \in Objects /\ kept.rules = declared.rules /\ kept.version = declared.version
        /\ kept.observed = declared.observed /\ kept.kubectl = declared.kubectl
    BY <2>6 DEF Reconciled, Objects
  <2> HIDE DEF kept
  <2>8. Now(kept) = Now(declared)
    BY <2>7, CfgFacts, NowOfRules
  <2>9. Reconciled(o, kept)
    BY <1>1, <2>6, <2>7, <2>8 DEF Reconciled, Exists
  <2> QED BY <2>2, <2>3, <2>6, <2>9 DEF kept
<1>2. CASE provider \in Gateways
  <2> DEFINE rules == GatewayRules(a, totalWeight, 0)
             forced == [o EXCEPT !.rules = rules, !.version = ver]
  <2>1. rules = <<plain>> \/ rules = <<analysed, PrimaryOnly("all", totalWeight)>>
    BY DEF GatewayRules
  <2>2. new \in {forced, Declare(o, ver, rules)}
    BY <1>2 DEF Reconcile, Gateways, GatewayReconcile, GatewayV1Beta1Reconcile
  <2> HIDE DEF plain, analysed, rules, new
  <2>4. rules \in Lists /\ rules # <<>> /\ \A x : x.rules = rules => GatewayV1Beta1GetRoutes(x) = AllPrimary
    BY <1>r, <1>w, <2>1, WeighedPrimary
  <2>5. \A x \in Objects : x.rules = rules => Now(x) = AllPrimary
    BY <1>2, <2>4 DEF Now, GetRoutes, Gateways, GatewayGetRoutes
  <2>6. Reconciled(o, Declare(o, ver, rules))
    BY <1>2, <2>4, <2>5, DeclareReads DEF Gateways
  <2>7. /\ forced \in Objects /\ forced.rules = rules /\ forced.version = ver
        /\ forced.observed = o.observed /\ forced.kubectl = o.kubectl
    BY <2>4 DEF Objects
  <2> HIDE DEF forced
  <2>8. Reconciled(o, forced)
    BY <1>2, <2>4, <2>5, <2>7 DEF Reconciled, Exists, Gateways
  <2> QED BY <2>2, <2>6, <2>8 DEF new
<1>3. CASE provider \in AppMeshes /\ Exists(o)
  <2> DEFINE p == o.rules[1].p
             c == o.rules[1].c
             first == Rule(IF a.match THEN "analysis" ELSE "all", p, c)
             rules == AppMeshRules(a, p, c)
             declared == Declare(o, ver, rules)
  <2>1. p \in Weights /\ c \in Weights
    <3>1. o.rules \in Lists /\ 1 \in DOMAIN o.rules
      BY <1>3 DEF Exists, Objects, Lists
    <3>2. o.rules[1] \in RuleSet
      BY <3>1 DEF Lists
    <3> QED BY <3>2 DEF RuleSet
  <2>2. rules = <<first>> \/ rules = <<first, PrimaryOnly("all", totalWeight)>>
    BY DEF AppMeshRules
  <2>3. first \in RuleSet /\ first.p = p /\ first.c = c
    <3> HIDE DEF p, c
    <3>1. \A x \in Requests :
            Rule(x, p, c) \in RuleSet /\ Rule(x, p, c).p = p /\ Rule(x, p, c).c = c
      <4> SUFFICES ASSUME NEW x \in Requests
                   PROVE  Rule(x, p, c) \in RuleSet /\ Rule(x, p, c).p = p /\ Rule(x, p, c).c = c
        OBVIOUS
      <4> QED BY <2>1, PlainRuleWeighted DEF Weighted
    <3> QED BY <1>r, <3>1
  <2>4. new = declared
    BY <1>3 DEF Reconcile, AppMeshes, AppMeshV1Beta2Reconcile, AppMeshReconcile
  <2> HIDE DEF first, rules, new
  <2>5. rules \in Lists /\ rules # <<>> /\ rules[1] = first
    <3>1. PrimaryOnly("all", totalWeight) \in RuleSet
      BY <1>r, <1>p
    <3>2. CASE rules = <<first>>
      BY <2>3, <3>2 DEF Lists
    <3>3. CASE rules = <<first, PrimaryOnly("all", totalWeight)>>
      <4> DEFINE second == PrimaryOnly("all", totalWeight)
      <4> HIDE DEF second
      <4> QED BY <2>3, <3>1, <3>3 DEF Lists, second
    <3> QED BY <2>2, <3>2, <3>3
  <2>6. /\ declared \in Objects /\ Exists(declared) /\ declared.version = ver
        /\ declared.observed = o.observed /\ declared.kubectl = o.kubectl
        /\ \/ declared.rules = rules
           \/ declared.rules = o.rules /\ Exists(o) /\ o.version = ver
    BY <2>5, DeclareIs
  <2> HIDE DEF declared
  <2>7. declared.rules[1].p = p /\ declared.rules[1].c = c
    BY <2>3, <2>5, <2>6
  <2>8. Now(declared) = Now(o)
    BY <1>3, <2>7 DEF Now, GetRoutes, AppMeshes, AppMeshV1Beta2GetRoutes, AppMeshGetRoutes
  <2>9. Reconciled(o, declared)
    BY <1>3, <2>6, <2>8 DEF Reconciled, AppMeshes
  <2> QED BY <2>4, <2>9 DEF new
<1>4. CASE provider \in AppMeshes /\ ~Exists(o)
  <2> DEFINE rules == AppMeshRules(a, totalWeight, 0)
  <2>1. rules = <<plain>> \/ rules = <<analysed, PrimaryOnly("all", totalWeight)>>
    BY DEF AppMeshRules
  <2>2. new = Declare(o, ver, rules)
    BY <1>4 DEF Reconcile, AppMeshes, AppMeshV1Beta2Reconcile, AppMeshReconcile
  <2> HIDE DEF plain, analysed, rules, new
  <2>4. rules \in Lists /\ rules # <<>> /\ \A x : x.rules = rules => AppMeshGetRoutes(x) = AllPrimary
    BY <1>r, <1>w, <2>1, WeighedPrimary
  <2>5. \A x \in Objects : x.rules = rules => Now(x) = AllPrimary
    BY <1>4, <2>4 DEF Now, GetRoutes, AppMeshes, AppMeshV1Beta2GetRoutes
  <2> QED BY <1>4, <2>2, <2>4, <2>5, DeclareReads DEF new, AppMeshes
<1>5. CASE provider \in {"contour", "gloo", "kuma", "apisix"}
  <2> DEFINE rules == CASE provider = "contour" -> ContourRules(a, totalWeight, 0)
                        [] provider = "gloo"    -> GlooRules(a, totalWeight, 0)
                        [] OTHER                -> <<plain>>
  <2>1. rules \in {<<plain>>, <<analysed>>, <<analysed, plain>>}
    BY DEF ContourRules, GlooRules
  <2>2. new = Declare(o, ver, rules)
    BY <1>5 DEF Reconcile, ContourReconcile, GlooReconcile, KumaReconcile, ApisixReconcile
  <2> HIDE DEF plain, analysed, rules, new
  <2>4. rules \in Lists /\ rules # <<>> /\ rules[1].p = totalWeight
    BY <1>w, <2>1, PrimaryFirst
  <2>5. \A x \in Objects : x.rules = rules => Now(x) = AllPrimary
    <3>1. ASSUME NEW x \in Objects, x.rules = rules PROVE Rest(x) = AllPrimary
      <4>1. x.rules[1].p = totalWeight
        BY <2>4, <3>1
      <4> QED BY <4>1 DEF Rest, AllPrimary, totalWeight
    <3> QED BY <1>5, <3>1 DEF Now, GetRoutes, ContourGetRoutes, GlooGetRoutes, KumaGetRoutes,
         ApisixGetRoutes
  <2> QED BY <1>5, <2>2, <2>4, <2>5, DeclareReads DEF new
<1>6. CASE provider = "traefik"
  <2> DEFINE listed == Exists(o) /\ o.rules[1].to = {"primary", "canary"}
             first == IF listed THEN Rule("all", totalWeight, totalWeight)
                      ELSE PrimaryOnly("all", totalWeight)
             rules == <<first>>
  <2>1. new = Declare(o, ver, rules)
    BY <1>6 DEF Reconcile, TraefikReconcile
  <2>2. first \in RuleSet /\ first.p = totalWeight
    BY <1>r, <1>p, PlainRuleWeighted, ZenonT(30) DEF Weighted
  <2> HIDE DEF first, new
  <2>4. rules \in Lists /\ rules # <<>> /\ rules[1].p = totalWeight
    BY <2>2, PrimaryFirst
  <2> HIDE DEF rules
  <2>5. \A x \in Objects : x.rules = rules => Now(x) = AllPrimary
    <3>1. ASSUME NEW x \in Objects, x.rules = rules PROVE Rest(x) = AllPrimary
      <4>1. x.rules[1].p = totalWeight
        BY <2>4, <3>1
      <4> QED BY <4>1 DEF Rest, AllPrimary, totalWeight
    <3> QED BY <1>6, <3>1 DEF Now, GetRoutes, TraefikGetRoutes
  <2> QED BY <1>6, <2>1, <2>4, <2>5, DeclareReads DEF new
<1>7. CASE provider \in SMIs \cup {"nginx", "skipper"}
  <2> DEFINE rules == <<plain>>
             same == [o EXCEPT !.version = ver]
  <2>1. \/ new = Declare(o, ver, rules)
        \/ new = same /\ Exists(o) /\ o.version > 0
        \/ new = o /\ Exists(o) /\ o.version > 0
    <3>1. CASE provider \in SMIs
      BY <3>1 DEF Reconcile, SMIs, SmiReconcile, SmiV1Alpha2Reconcile, SmiV1Alpha3Reconcile
    <3>2. CASE provider = "nginx"
      <4>1. new = NginxReconcile(o, ver)
        BY <3>2 DEF Reconcile
      <4>2. Exists(o) => o.version > 0
        BY <3>2 DEF Objects
      <4> QED BY <4>1, <4>2 DEF NginxReconcile
    <3>3. CASE provider = "skipper"
      <4>1. new = SkipperReconcile(o, ver)
        BY <3>3 DEF Reconcile
      <4> QED BY <4>1 DEF SkipperReconcile
    <3> QED BY <1>7, <3>1, <3>2, <3>3
  <2>0. provider # "knative"
    BY <1>7 DEF SMIs
  <2>4. /\ rules \in Lists /\ rules # <<>>
        /\ rules[1].p = totalWeight /\ rules[1].c = 0 /\ rules[1].on = "all"
    <3> HIDE DEF plain
    <3> QED BY <1>w DEF Lists
  <2> HIDE DEF plain, rules, new
  <2>5. \A x \in Objects : x.rules = rules => Now(x) = AllPrimary
    <3>1. ASSUME NEW x \in Objects, x.rules = rules
          PROVE  /\ SmiGetRoutes(x) = AllPrimary
                 /\ SkipperGetRoutes(x) = AllPrimary
                 /\ NginxGetRoutes(a, x) = AllPrimary
      <4>1. x.rules[1].p = totalWeight /\ x.rules[1].c = 0 /\ x.rules[1].on = "all"
        BY <2>4, <3>1
      <4> QED BY <4>1 DEF SmiGetRoutes, NginxGetRoutes, SkipperGetRoutes, AllPrimary, totalWeight
    <3> QED BY <1>7, <3>1 DEF Now, GetRoutes, SMIs, SmiV1Alpha2GetRoutes, SmiV1Alpha3GetRoutes
  <2>6. /\ same \in Objects /\ same.rules = o.rules /\ same.version = ver
        /\ same.observed = o.observed /\ same.kubectl = o.kubectl
    BY DEF Objects
  <2> HIDE DEF same
  <2>7. CASE new = same /\ Exists(o) /\ o.version > 0
    <3>1. Reconciled(o, same)
      BY <2>0, <2>6, <2>7 DEF Reconciled, Exists
    <3> QED BY <2>7, <3>1 DEF new
  <2>8. CASE new = o /\ Exists(o) /\ o.version > 0
    <3>1. Reconciled(o, o)
      BY <2>8 DEF Reconciled
    <3> QED BY <2>8, <3>1 DEF new
  <2>9. CASE new = Declare(o, ver, rules)
    BY <2>0, <2>4, <2>5, <2>9, DeclareReads DEF new
  <2> QED BY <2>1, <2>7, <2>8, <2>9
<1> QED
  BY <1>k, <1>1, <1>2, <1>3, <1>4, <1>5, <1>6, <1>7, CfgFacts
  DEF Providers, Lagging, Gateways, AppMeshes, SMIs

------------------------------------------------------------------------------
\* The inductive invariant.

Live == stage \in {"analysis", "promotion", "done"}

Typed ==
  /\ cfg \in Configs /\ object \in Objects
  /\ version \in 1 .. 1 + edits
  /\ pc \in {"reconcile", "step"}
  /\ stage \in {"analysis", "promotion", "done", "finalizing", "finalized"}
  /\ iterations \in 0 .. a.iterations + 1
  /\ cookies \in [cookie : 0 .. minted, previous : 0 .. minted]
  /\ edits \in 0 .. cfg.edits /\ faults \in 0 .. cfg.faults /\ rollouts \in 0 .. cfg.rollouts
  /\ asked \in Splits /\ reset \in BOOLEAN
  /\ minted \in Nat /\ past \in 0 .. minted

\* All requests go somewhere, and a mirror is for a canary that gets none of them.
Whole(s) == s \in Splits /\ s.p + s.c = totalWeight /\ (s.m => s.c = 0 /\ a.mirror)

Asked == Whole(asked) /\ (stage = "done" => asked = AllPrimary)

\* An object that Flagger wrote reads as what was asked; one that it did not write is
\* a user's VirtualService before the first tick; a Knative Service has a status.
Read ==
  Live =>
    /\ object.version > 0 => Exists(object) /\ Now(object) = Shown(asked)
    /\ Exists(object) /\ object.version = 0 =>
         /\ cfg.provider = "istio" /\ object.rules = UserRules
         /\ pc = "reconcile" /\ asked = AllPrimary
    /\ cfg.provider = "knative" =>
         /\ object.version > 0 /\ object.observed # <<>>
         /\ object.observed[2] # <<>>
         /\ object.observed[2][1].p + object.observed[2][1].c = totalWeight

\* The iterations that count were the canary's, unless the routes were taken back.
Counted ==
  stage = "analysis" =>
    /\ Strategy = "A/B" /\ iterations > 0 => asked = AllCanary \/ reset
    /\ Strategy = "Blue/Green" /\ iterations > a.iterations => asked = AllCanary \/ reset

\* A tick mints a cookie only where the status has none, that is, at the start of a
\* rollout or after a lost write; Blue/Green does not while the iterations count.  A
\* canary analysis that mirrors has traffic on the canary with a router that remembers
\* the mirror only, and those do not know session affinity.
Minting ==
  /\ minted <= past + faults + 1
  /\ cfg.affinity # "none" =>
       /\ Running /\ cookies.cookie = 0 => minted <= past + faults
       /\ stage = "analysis" /\ Strategy = "Blue/Green" /\ iterations <= a.iterations =>
            minted <= past + faults
       /\ a.mirror /\ Strategy = "Canary" => asked.c = 0 /\ minted = 0

IInv == Typed /\ Asked /\ Read /\ Counted /\ Minting

------------------------------------------------------------------------------
\* What a tick reads and asks for.

LEMMA NowPrimed ==
  ASSUME cfg' = cfg, NEW o, object' = o, NEW s, asked' = s
  PROVE  Now(object)' = Now(o) /\ Shown(asked)' = Shown(s)
BY DEF Now, GetRoutes, Shown, MirrorLost, a

LEMMA PresetSplits ==
  /\ AllPrimary \in Splits /\ AllCanary \in Splits
  /\ Whole(AllPrimary) /\ Whole(AllCanary)
  /\ Split(totalWeight, 0, TRUE) \in Splits
  /\ (a.mirror => Whole(Split(totalWeight, 0, TRUE)))
  /\ Shown(AllPrimary) = AllPrimary /\ Shown(AllCanary) = AllCanary
  /\ AllPrimary.p = totalWeight /\ AllPrimary.c = 0 /\ ~AllPrimary.m
  /\ AllCanary.p = 0 /\ AllCanary.c = totalWeight
<1>1. /\ AllPrimary \in Splits /\ AllCanary \in Splits
      /\ Split(totalWeight, 0, TRUE) \in Splits
      /\ AllPrimary.p = totalWeight /\ AllPrimary.c = 0 /\ ~AllPrimary.m
      /\ AllCanary.p = 0 /\ AllCanary.c = totalWeight /\ ~AllCanary.m
  BY DEF AllPrimary, AllCanary, Split, Splits, Weights, totalWeight
<1>2. /\ Split(totalWeight, 0, TRUE).p = totalWeight
      /\ Split(totalWeight, 0, TRUE).c = 0
  BY DEF Split
<1>3. /\ Whole(AllPrimary) /\ Whole(AllCanary)
      /\ a.mirror => Whole(Split(totalWeight, 0, TRUE))
  <2>1. Whole(AllPrimary)
    <3> DEFINE s == AllPrimary
    <3>1. s \in Splits /\ s.p + s.c = totalWeight /\ ~s.m
      BY <1>1 DEF totalWeight
    <3> QED BY <3>1 DEF Whole
  <2>2. Whole(AllCanary)
    <3> DEFINE s == AllCanary
    <3>1. s \in Splits /\ s.p + s.c = totalWeight /\ ~s.m
      BY <1>1 DEF totalWeight
    <3> QED BY <3>1 DEF Whole
  <2>3. a.mirror => Whole(Split(totalWeight, 0, TRUE))
    <3> DEFINE s == Split(totalWeight, 0, TRUE)
    <3>1. s \in Splits
      BY <1>1
    <3>2. s.p = totalWeight /\ s.c = 0
      BY <1>2
    <3> HIDE DEF s
    <3>3. s.p + s.c = totalWeight
      BY <3>2 DEF totalWeight
    <3>4. a.mirror => Whole(s)
      BY <3>1, <3>2, <3>3 DEF Whole
    <3> QED BY <3>4 DEF s
  <2> QED BY <2>1, <2>2, <2>3
<1>5. Shown(AllPrimary) = Split(totalWeight, 0, FALSE) /\ Shown(AllCanary) = Split(0, totalWeight, FALSE)
  <2>1. Shown(AllPrimary) = Split(totalWeight, 0, AllPrimary.m /\ ~MirrorLost)
    BY <1>1 DEF Shown
  <2>2. Shown(AllCanary) \in {Split(0, totalWeight, AllCanary.m /\ ~MirrorLost), AllCanary}
    BY <1>1 DEF Shown
  <2>3. (AllCanary.m /\ ~MirrorLost) = FALSE /\ (AllPrimary.m /\ ~MirrorLost) = FALSE
    BY <1>1
  <2> QED BY <2>1, <2>2, <2>3 DEF AllCanary
<1> QED BY <1>1, <1>3, <1>5 DEF AllPrimary, AllCanary

LEMMA ShownType ==
  ASSUME NEW s, Whole(s)
  PROVE  /\ Whole(Shown(s))
         /\ Shown(s) = AllCanary \/ (Shown(s).p = s.p /\ Shown(s).c = s.c)
         /\ Shown(s).m => s.m
BY DEF Shown, Whole, Splits, Split, AllCanary, Weights, totalWeight

\* Whether Promote was there matters to Knative only.
LEMMA NotPromoted ==
  ASSUME NEW provider \in Providers \ {"knative"}, NEW x, NEW o, NEW promoted
  PROVE  GetRoutes(provider, x, o, promoted) = GetRoutes(provider, x, o, FALSE)
BY DEF GetRoutes, Providers, Lagging, Gateways, AppMeshes, SMIs

\* With Knative the weights come from a status, and those of the promotion from the
\* canary's share of it alone.
LEMMA SeenIs ==
  ASSUME IInv, Running, Exists(object), object.version > 0
  PROVE  /\ Seen \in Splits /\ (Seen.m => Seen.c = 0 /\ a.mirror)
         /\ cfg.provider # "knative" => Seen = Shown(asked)
         /\ stage = "analysis" => Seen.p + Seen.c = totalWeight
         /\ stage = "analysis" /\ ~Stale => Seen = Shown(asked)
         /\ stage = "promotion" /\ cfg.provider = "knative" =>
              /\ Seen.p = Seen.c /\ Seen.m = FALSE
              /\ ~Stale => Seen.c = asked.c
<1>1. Typed /\ Asked /\ Read /\ Live
  BY DEF IInv, Running, Live
<1>2. CASE cfg.provider # "knative"
  <2>1. Seen = Now(object)
    <3> DEFINE promoted == stage = "promotion"
    <3> HIDE DEF promoted
    <3>1. GetRoutes(cfg.provider, a, object, promoted) = GetRoutes(cfg.provider, a, object, FALSE)
      BY <1>1, <1>2, CfgFacts, NotPromoted DEF Typed
    <3> QED BY <1>2, <3>1 DEF Seen, Now, promoted
  <2>2. Seen = Shown(asked)
    BY <1>1, <2>1 DEF Read
  <2>3. Whole(Shown(asked))
    BY <1>1, ShownType DEF Asked
  <2> QED BY <1>2, <2>2, <2>3 DEF Whole
<1>3. CASE cfg.provider = "knative"
  <2> DEFINE list == object.observed[2]
             r == list[1]
  <2>1. list \in Lists /\ list # <<>> /\ r.p + r.c = totalWeight
    BY <1>1, <1>3 DEF Read, Typed, Objects
  <2>2. r \in RuleSet
    BY <2>1 DEF Lists
  <2>3. r.p \in Weights /\ r.c \in Weights
    BY <2>2 DEF RuleSet
  <2>4. Seen = Split(IF stage = "promotion" THEN r.c ELSE r.p, r.c, FALSE)
    BY <1>3 DEF Seen, GetRoutes, KnativeGetRoutes
  <2>5. Seen \in Splits /\ Seen.m = FALSE /\ Seen.c = r.c
        /\ Seen.p = IF stage = "promotion" THEN r.c ELSE r.p
    BY <2>3, <2>4 DEF Split, Splits
  <2>6. ASSUME ~Stale PROVE r.p = asked.p /\ r.c = asked.c /\ Shown(asked) = Split(r.p, r.c, FALSE)
    <3>1. list = object.rules
      BY <1>3, <2>6 DEF Stale, Generation
    <3>2. Now(object) = Split(r.p, r.c, FALSE)
      BY <1>3, <3>1 DEF Now, SmiGetRoutes
    <3>3. Now(object) = Shown(asked)
      BY <1>1 DEF Read
    <3>4. Shown(asked) = Split(asked.p, asked.c, asked.m /\ ~MirrorLost)
      BY <1>3 DEF Shown
    <3> HIDE DEF r
    <3>5. Shown(asked).p = asked.p /\ Shown(asked).c = asked.c
      BY <3>4 DEF Split
    <3>6. Shown(asked).p = r.p /\ Shown(asked).c = r.c
      BY <3>2, <3>3 DEF Split
    <3>7. r.p = asked.p /\ r.c = asked.c
      BY <3>5, <3>6
    <3> QED BY <3>2, <3>3, <3>7
  <2> HIDE DEF r
  <2>7. stage = "analysis" => stage # "promotion"
    OBVIOUS
  <2> QED BY <1>3, <2>1, <2>4, <2>5, <2>6, <2>7
<1> QED BY <1>2, <1>3

\* What SetRoutes leaves.
LEMMA RouteIs ==
  ASSUME IInv, cfg' = cfg, NEW s, Whole(s), Route(s)
  PROVE  /\ Rewritten(object, object') /\ Now(object') = Shown(s)
         /\ asked' = s /\ reset' = FALSE
         /\ minted' = IF cfg.affinity # "none" /\ s.c # 0 /\ cookies.cookie = 0
                        THEN minted + 1 ELSE minted
<1> DEFINE own == Cookies(cookies, s.c, minted + 1)
           new == SetRoutes(cfg.provider, a, cfg.affinity, own, object, s)
<1>1. Typed /\ s \in Splits /\ s.p + s.c = totalWeight /\ Exists(object)
  BY DEF IInv, Whole, Route, Accepts
<1>2. cookies \in [cookie : 0 .. minted, previous : 0 .. minted] /\ minted \in Nat
      /\ object \in Objects /\ cfg \in Configs
  BY <1>1 DEF Typed
<1>3. own \in [cookie : Nat, previous : Nat]
      /\ (own.cookie = minted + 1 <=> s.c # 0 /\ cookies.cookie = 0)
  BY <1>2 DEF Cookies
<1>4. object' = new /\ asked' = s /\ reset' = FALSE
      /\ minted' = IF cfg.affinity # "none" /\ own.cookie = minted + 1 THEN minted + 1 ELSE minted
  BY DEF Route
<1> HIDE DEF own
<1>5. Rewritten(object, new) /\ Now(new) = Shown(s)
  BY <1>1, <1>2, <1>3, SetReads
<1> HIDE DEF new
<1> QED BY <1>3, <1>4, <1>5

\* A tick at the strategy that has read the routes.
LEMMA Reads ==
  ASSUME IInv, Running, pc = "step", Readable(cfg.provider, object)
  PROVE  Exists(object) /\ object.version > 0
<1>1. Exists(object) /\ Live /\ object \in Objects
  BY DEF Readable, Running, Live, IInv, Typed
<1>2. object.version # 0
  BY <1>1 DEF IInv, Read
<1> QED BY <1>1, <1>2 DEF Objects

LEMMA AskedIncrease ==
  ASSUME IInv, IncreaseWeight
  PROVE  LET s == IncreasedSplit(a, Seen)
         IN  /\ Whole(s)
             /\ s.c = 0 => a.mirror
             /\ cfg.affinity # "none" /\ a.mirror => s.c = 0
<1>s. Strategy = "Canary"
  BY DEF IncreaseWeight
<1> DEFINE step == nextStepWeight(a, Seen.c)
           s == IncreasedSplit(a, Seen)
<1>1. /\ Typed /\ Running /\ pc = "step" /\ Readable(cfg.provider, object)
      /\ stage = "analysis" /\ step > 0
  BY DEF IInv, IncreaseWeight, At, Running
<1>2. /\ Seen \in Splits /\ (Seen.m => Seen.c = 0 /\ a.mirror)
      /\ Seen.p + Seen.c = totalWeight
      /\ cfg.provider # "knative" => Seen = Shown(asked)
  BY <1>1, Reads, SeenIs
<1>3. /\ a \in Analyses /\ a.stepWeight <= totalWeight /\ a.mirror \in BOOLEAN
      /\ a.iterations = 0
      /\ cfg.affinity # "none" => cfg.provider \in Gateways \cup {"istio"} /\ ~a.match
  BY <1>s, <1>1, CfgFacts DEF Typed, Strategy
<1>4. s \in Splits /\ s.p + s.c = totalWeight /\ s.c >= Seen.c
  BY <1>1, <1>2, <1>3, IncreasedSplitType, IncreasedSplitForward
<1>5. Seen.p \in Weights /\ Seen.c \in Weights /\ Seen.m \in BOOLEAN /\ step \in Int
  BY <1>2, <1>3, StepType DEF Splits
<1>6. s = IF a.mirror /\ Seen.c = 0
            THEN IF Seen.m THEN Split(totalWeight - step, step, FALSE) ELSE Split(totalWeight, 0, TRUE)
            ELSE Split(Decrease(Seen.p, step), Increase(Seen.c, step), Seen.m)
  BY DEF IncreasedSplit
<1> HIDE DEF s, step
<1>7. s.m => s.c = 0 /\ a.mirror
  BY <1>2, <1>6 DEF Split
<1>8. s.c = 0 => a.mirror
  BY <1>1, <1>5, <1>6 DEF Split, Increase, Weights, totalWeight
<1>9. ASSUME cfg.affinity # "none", a.mirror PROVE s.c = 0
  <2>1. MirrorLost /\ cfg.provider # "nginx" /\ cfg.provider # "knative"
    BY <1>3, <1>9 DEF MirrorLost, Gateways
  <2>2. Seen = Split(asked.p, asked.c, asked.m /\ ~MirrorLost)
    BY <1>2, <2>1 DEF Shown
  <2>3. asked.c = 0
    BY <1>s, <1>9 DEF IInv, Minting
  <2>4. Seen.c = 0 /\ ~Seen.m
    BY <2>1, <2>2, <2>3 DEF Split
  <2> QED BY <1>6, <1>9, <2>4 DEF Split
<1> QED BY <1>4, <1>7, <1>8, <1>9 DEF Whole, s

LEMMA AskedShift ==
  ASSUME IInv, ShiftStep
  PROVE  LET s == PromotedSplit(a, Seen)
         IN  /\ Whole(s) /\ ~s.m
             /\ s.c = 0 => s = AllPrimary
             /\ s.p = totalWeight => s = AllPrimary
             /\ ~(cfg.affinity # "none" /\ a.mirror /\ Strategy = "Canary")
<1> DEFINE s == PromotedSplit(a, Seen)
<1>1. /\ Typed /\ Asked /\ Running /\ pc = "step" /\ Readable(cfg.provider, object)
      /\ stage = "promotion" /\ Seen.c > 0 /\ Accepts(cfg.provider, object, s)
  BY DEF IInv, ShiftStep, At, Running, RouteAndSave, Route
<1>2. Seen \in Splits /\ (cfg.provider # "knative" => Seen = Shown(asked))
  BY <1>1, Reads, SeenIs
<1>3. a \in Analyses /\ (cfg.affinity # "none" => cfg.provider \in Gateways \cup {"istio"})
  BY <1>1, CfgFacts DEF Typed
<1>4. s \in Splits /\ s.p + s.c = totalWeight
  <2>1. CASE cfg.provider = "knative"
    BY <1>1, <1>2, <1>3, <2>1, PromotedSplitType DEF Accepts
  <2>2. CASE cfg.provider # "knative"
    <3>1. Seen.p + Seen.c = totalWeight
      BY <1>1, <1>2, <2>2, ShownType DEF Asked, Whole
    <3> QED BY <1>2, <1>3, <3>1, PromotedSplitType
  <2> QED BY <2>1, <2>2
<1>5. s = Split(s.p, s.c, FALSE) /\ ~s.m
  BY DEF PromotedSplit, Split
<1> HIDE DEF s
<1>6. s.p \in Weights /\ s.c \in Weights
  BY <1>4 DEF Splits
<1>7. s.c = 0 <=> s.p = totalWeight
  BY <1>4, <1>6 DEF Weights, totalWeight
<1>8. s.c = 0 /\ s.p = totalWeight => s = AllPrimary
  BY <1>5 DEF AllPrimary
<1>9. ASSUME cfg.affinity # "none", a.mirror, Strategy = "Canary" PROVE FALSE
  <2>1. cfg.provider # "nginx" /\ cfg.provider # "knative"
    BY <1>3, <1>9 DEF Gateways
  <2>2. asked.c = 0
    BY <1>9 DEF IInv, Minting
  <2>3. Seen.c = 0
    BY <1>2, <2>1, <2>2 DEF Shown, Split
  <2> QED BY <1>1, <2>3
<1> QED BY <1>4, <1>5, <1>7, <1>8, <1>9 DEF Whole, s

------------------------------------------------------------------------------
\* The steps.

\* A tick, or a rollback, that asks for s.
Routing(s) ==
  /\ Whole(s) /\ Route(s)
  /\ Running /\ pc = "step" /\ Exists(object) /\ object.version > 0
  /\ pc' = "reconcile"
  /\ stage' \in {"analysis", "promotion", "done"} /\ (stage' = "done" => s = AllPrimary)
  /\ UNCHANGED <<cfg, version, edits>>

\* One that ends with Save of stage st and iteration it.
Turn(s, st, it) ==
  /\ Routing(s) /\ Save(s.c, st, it)
  /\ st \in {"analysis", "promotion", "done"} /\ it \in 0 .. a.iterations + 1
  /\ stage = "analysis" =>
       /\ st = "analysis"
       /\ \/ Strategy = "Canary" /\ it = iterations
          \/ Strategy # "Canary" /\ s = AllCanary /\ it > iterations
       /\ Strategy = "Blue/Green" => it > a.iterations
  /\ stage = "promotion" => st # "analysis"
  /\ s.c = 0 => st = "done" \/ (a.mirror /\ Strategy = "Canary")
  /\ cfg.affinity # "none" /\ a.mirror /\ Strategy = "Canary" => s.c = 0
  /\ UNCHANGED <<rollouts, past>>

LEMMA Turns ==
  ASSUME IInv, IncreaseWeight \/ RouteMatches \/ RouteAll \/ ShiftAtOnce \/ ShiftStep
  PROVE  \E s, st, it : Turn(s, st, it)
<1>0. Typed /\ a.iterations \in Nat /\ iterations \in 0 .. a.iterations + 1
  BY CfgFacts DEF IInv, Typed
<1>1. ASSUME At("analysis") \/ At("promotion"), NEW s, Whole(s), NEW st, NEW it, RouteAndSave(s, st, it),
             st \in {"analysis", "promotion", "done"}, st = "done" => s = AllPrimary
      PROVE  Routing(s) /\ Save(s.c, st, it) /\ UNCHANGED <<rollouts, past>>
  <2>1. Running /\ pc = "step" /\ Readable(cfg.provider, object) /\ pc' = "reconcile"
    BY <1>1 DEF At, Running, EndTick
  <2>2. Exists(object) /\ object.version > 0
    BY <2>1, Reads
  <2>3. /\ Route(s) /\ Save(s.c, st, it)
        /\ UNCHANGED <<cfg, version, edits, rollouts, past>>
    BY <1>1 DEF RouteAndSave
  <2>4. stage' = st \/ stage' = stage
    BY <2>3 DEF Save, Saved
  <2> QED BY <1>1, <2>1, <2>2, <2>3, <2>4 DEF Routing, Running
<1>2. CASE IncreaseWeight
  <2> DEFINE s == IncreasedSplit(a, Seen)
  <2>1. /\ At("analysis") /\ Strategy = "Canary" /\ stage = "analysis"
        /\ RouteAndSave(s, "analysis", iterations)
    BY <1>2 DEF IncreaseWeight, At
  <2>2. Whole(s) /\ (s.c = 0 => a.mirror) /\ (cfg.affinity # "none" /\ a.mirror => s.c = 0)
    BY <1>2, AskedIncrease
  <2> HIDE DEF s
  <2>3. Routing(s) /\ Save(s.c, "analysis", iterations) /\ UNCHANGED <<rollouts, past>>
    BY <1>1, <2>1, <2>2
  <2>4. Turn(s, "analysis", iterations)
    BY <1>0, <2>1, <2>2, <2>3 DEF Turn
  <2> QED BY <2>4
<1>3. CASE RouteMatches \/ RouteAll
  <2>1. /\ At("analysis") /\ Strategy # "Canary" /\ stage = "analysis" /\ a.iterations # 0
        /\ iterations <= a.iterations
        /\ Strategy = "Blue/Green" => iterations = a.iterations
        /\ RouteAndSave(AllCanary, "analysis", iterations + 1)
    BY <1>0, <1>3 DEF RouteMatches, RouteAll, At, Strategy
  <2>2. Whole(AllCanary) /\ AllCanary.c # 0
    BY PresetSplits DEF totalWeight
  <2>3. Routing(AllCanary) /\ Save(AllCanary.c, "analysis", iterations + 1) /\ UNCHANGED <<rollouts, past>>
    BY <1>1, <2>1, <2>2
  <2>4. Turn(AllCanary, "analysis", iterations + 1)
    BY <1>0, <2>1, <2>2, <2>3 DEF Turn
  <2> QED BY <2>4
<1>4. CASE ShiftAtOnce
  <2>1. /\ At("promotion") /\ stage = "promotion" /\ RouteAndSave(AllPrimary, "done", 0)
    BY <1>4 DEF ShiftAtOnce, At
  <2>2. Whole(AllPrimary) /\ AllPrimary.c = 0
    BY PresetSplits
  <2>3. Routing(AllPrimary) /\ Save(AllPrimary.c, "done", 0) /\ UNCHANGED <<rollouts, past>>
    BY <1>1, <2>1, <2>2
  <2>4. Turn(AllPrimary, "done", 0)
    BY <1>0, <2>1, <2>2, <2>3 DEF Turn
  <2> QED BY <2>4
<1>5. CASE ShiftStep
  <2> DEFINE s == PromotedSplit(a, Seen)
  <2>1. /\ At("promotion") /\ stage = "promotion"
        /\ IF s.p = totalWeight THEN RouteAndSave(s, "done", 0)
           ELSE RouteAndSave(s, "promotion", iterations)
    BY <1>5 DEF ShiftStep, At
  <2>2. /\ Whole(s)
        /\ s.c = 0 => s = AllPrimary
        /\ s.p = totalWeight => s = AllPrimary
        /\ ~(cfg.affinity # "none" /\ a.mirror /\ Strategy = "Canary")
    BY <1>5, AskedShift
  <2>3. AllPrimary.p = totalWeight
    BY PresetSplits
  <2> HIDE DEF s
  <2>4. CASE s.p = totalWeight
    <3>1. Routing(s) /\ Save(s.c, "done", 0) /\ UNCHANGED <<rollouts, past>>
      BY <1>1, <2>1, <2>2, <2>4
    <3>2. Turn(s, "done", 0)
      BY <1>0, <2>1, <2>2, <2>4, <3>1 DEF Turn
    <3> QED BY <3>2
  <2>5. CASE s.p # totalWeight
    <3>1. Routing(s) /\ Save(s.c, "promotion", iterations) /\ UNCHANGED <<rollouts, past>>
      BY <1>1, <2>1, <2>2, <2>5
    <3>2. Turn(s, "promotion", iterations)
      BY <1>0, <2>1, <2>2, <2>3, <2>5, <3>1 DEF Turn
    <3> QED BY <3>2
  <2> QED BY <2>4, <2>5
<1> QED BY <1>2, <1>3, <1>4, <1>5

\* An iteration of Blue/Green.
Counting ==
  /\ stage = "analysis" /\ Strategy = "Blue/Green" /\ iterations < a.iterations
  /\ \/ Routing(Split(totalWeight, 0, TRUE)) /\ a.mirror
     \/ UNCHANGED <<object, asked, reset, minted>>
  /\ \E c \in {-1, 0} : Save(c, "analysis", iterations + 1)
  /\ pc = "step" /\ pc' = "reconcile"
  /\ UNCHANGED <<cfg, version, edits, rollouts, past>>

\* A rollback, and a restart.
Returning ==
  /\ Routing(AllPrimary) /\ stage = "analysis"
  /\ \/ Saved(0, "done", 0) /\ UNCHANGED <<rollouts, past>>
     \/ /\ Saved(0, "analysis", 0)
        /\ rollouts < cfg.rollouts /\ rollouts' = rollouts + 1 /\ past' = minted

LEMMA Countings ==
  ASSUME IInv, CountIteration PROVE Counting
<1>1. /\ At("analysis") /\ stage = "analysis" /\ pc = "step" /\ pc' = "reconcile" /\ Running
      /\ Readable(cfg.provider, object)
      /\ \E c \in {-1, 0} : Save(c, "analysis", iterations + 1)
      /\ UNCHANGED <<cfg, version, edits, rollouts, past>>
      /\ Strategy = "Blue/Green" /\ iterations < a.iterations
      /\ \/ a.mirror /\ Route(Split(totalWeight, 0, TRUE))
         \/ UNCHANGED <<object, asked, reset, minted>>
  BY DEF CountIteration, At, EndTick, Running
<1>2. Exists(object) /\ object.version > 0
  BY <1>1, Reads
<1>3. stage' = "analysis"
  BY <1>1 DEF Save, Saved
<1>4. a.mirror => Whole(Split(totalWeight, 0, TRUE))
  BY PresetSplits
<1> QED BY <1>1, <1>2, <1>3, <1>4 DEF Counting, Routing

LEMMA Returnings ==
  ASSUME IInv, Rollback \/ Restart PROVE Returning
<1>1. /\ stage = "analysis" /\ pc = "step" /\ pc' = "reconcile" /\ Running
      /\ Readable(cfg.provider, object) /\ Route(AllPrimary)
      /\ UNCHANGED <<cfg, version, edits>>
      /\ \/ Saved(0, "done", 0) /\ UNCHANGED <<rollouts, past>>
         \/ /\ Saved(0, "analysis", 0)
            /\ rollouts < cfg.rollouts /\ rollouts' = rollouts + 1 /\ past' = minted
  BY DEF Rollback, Restart, At, EndTick, Running
<1>2. Exists(object) /\ object.version > 0
  BY <1>1, Reads
<1>3. stage' \in {"analysis", "done"}
  BY <1>1 DEF Saved
<1>4. Whole(AllPrimary)
  BY PresetSplits
<1> QED BY <1>1, <1>2, <1>3, <1>4 DEF Returning, Routing

LEMMA Kinds ==
  ASSUME IInv, [Next]_vars
  PROVE  \/ \E s, st, it : Turn(s, st, it)
         \/ Counting \/ Returning \/ Promote \/ NextRollout
         \/ EditService \/ Remove \/ Observe \/ ReconcileRoutes \/ Delete \/ Revert
         \/ /\ UNCHANGED <<cfg, version, object, stage, iterations, cookies, limits, history>>
            /\ pc' \in {pc, "reconcile"}
<1>1. CASE IncreaseWeight \/ RouteMatches \/ RouteAll \/ ShiftAtOnce \/ ShiftStep
  BY <1>1, Turns
<1>2. CASE CountIteration
  BY <1>2, Countings
<1>3. CASE Rollback \/ Restart
  BY <1>3, Returnings
<1>4. CASE EndsEarly \/ NothingToShift
  BY <1>4 DEF EndsEarly, NothingToShift, At, EndTick
<1>5. CASE CannotRevert \/ UNCHANGED vars
  BY <1>5 DEF CannotRevert, vars, limits, history
<1> QED BY <1>1, <1>2, <1>3, <1>4, <1>5 DEF Next, Tick, User

\* A reconciliation leaves what was asked, or takes the routes back.
LEMMA ReconcileStep ==
  ASSUME IInv, ReconcileRoutes
  PROVE  /\ Reconciled(object, object')
         /\ asked' \in {asked, AllPrimary}
         /\ reset' \in BOOLEAN /\ (reset' \/ (asked' = asked /\ (reset' <=> reset)))
         /\ Now(object') = Shown(asked')
<1> DEFINE analysing == stage = "analysis"
           new == Reconcile(cfg.provider, a, object, version, analysing)
<1>1. /\ Typed /\ Asked /\ Read /\ Live /\ cfg \in Configs /\ object \in Objects
      /\ version \in Nat /\ version > 0 /\ analysing \in BOOLEAN /\ reset \in BOOLEAN
  BY CfgFacts DEF IInv, Typed, ReconcileRoutes, Running, Live
<1>2. /\ object' = new
      /\ reset' = (reset \/ object'.rules # object.rules)
      /\ asked' = IF object'.rules # object.rules THEN GetRoutes(cfg.provider, a, object', FALSE) ELSE asked
  BY DEF ReconcileRoutes
<1>3. /\ object.version > 0 => Exists(object)
      /\ Exists(object) /\ object.version = 0 => cfg.provider = "istio" /\ asked = AllPrimary
      /\ cfg.provider = "knative" => object.version > 0
      /\ object.version > 0 => Now(object) = Shown(asked)
  BY <1>1 DEF Read
<1> HIDE DEF analysing
<1>4. Reconciled(object, new)
  BY <1>1, <1>3, ReconcileReads
<1> HIDE DEF new
<1>5. /\ object' \in Objects /\ Exists(object')
      /\ \/ object'.rules = object.rules /\ object.version > 0
         \/ Now(object') = AllPrimary
         \/ cfg.provider \in AppMeshes /\ Exists(object) /\ Now(object') = Now(object)
      /\ cfg.provider = "knative" => object' = object
  BY <1>2, <1>4 DEF Reconciled
<1>6. Shown(AllPrimary) = AllPrimary
  BY PresetSplits
<1>7. CASE object'.rules = object.rules
  <2>1. Now(object') = Now(object)
    BY <1>1, <1>7, NowOfRules, CfgFacts
  <2>2. object.version = 0 \/ object.version > 0
    BY <1>1 DEF Objects
  <2>3. CASE object.version > 0
    BY <1>1, <1>2, <1>3, <1>4, <1>7, <2>1, <2>3
  <2>4. CASE object.version = 0
    <3>1. Exists(object) /\ object.version # 0 => FALSE
      BY <2>4
    <3>2. Exists(object)
      BY <1>5, <1>7 DEF Exists
    <3>3. cfg.provider = "istio" /\ asked = AllPrimary
      BY <1>3, <2>4, <3>2
    <3>4. Now(object') = AllPrimary
      BY <1>5, <2>4, <3>3 DEF AppMeshes
    <3> QED BY <1>1, <1>2, <1>4, <1>6, <1>7, <3>3, <3>4
  <2> QED BY <2>2, <2>3, <2>4
<1>8. CASE object'.rules # object.rules
  <2>1. cfg.provider # "knative" /\ asked' = Now(object') /\ reset' = TRUE
    BY <1>2, <1>5, <1>8 DEF Now
  <2>2. CASE Now(object') = AllPrimary
    BY <1>2, <1>4, <1>6, <2>1, <2>2
  <2>3. CASE cfg.provider \in AppMeshes /\ Exists(object) /\ Now(object') = Now(object)
    <3>1. cfg.provider # "nginx" /\ cfg.provider # "istio" /\ MirrorLost
      BY <2>3 DEF AppMeshes, MirrorLost, Gateways
    <3>2. object.version > 0
      BY <1>1, <1>3, <2>3, <3>1 DEF Objects
    <3>3. Now(object') = Split(asked.p, asked.c, asked.m /\ ~MirrorLost)
      BY <1>3, <2>3, <3>1, <3>2 DEF Shown
    <3>4. (asked.m /\ ~MirrorLost) = FALSE
      BY <3>1
    <3>5. asked' = Split(asked.p, asked.c, FALSE)
      BY <2>1, <3>3, <3>4
    <3>6. asked'.p = asked.p /\ asked'.c = asked.c /\ ~asked'.m
      BY <3>5 DEF Split
    <3>7. Shown(asked') = Split(asked'.p, asked'.c, asked'.m /\ ~MirrorLost)
      BY <3>1 DEF Shown
    <3>8. Shown(asked') = Now(object')
      BY <2>1, <3>1, <3>5, <3>6, <3>7
    <3>9. asked' \in {asked, AllPrimary}
      <4>1. asked \in Splits /\ asked.p + asked.c = totalWeight /\ (asked.m => asked.c = 0)
        BY <1>1 DEF Asked, Whole
      <4>2. CASE asked.m
        <5>1. asked.p = totalWeight /\ asked.c = 0
          BY <4>1, <4>2 DEF Splits, Weights, totalWeight
        <5> QED BY <3>5, <5>1 DEF AllPrimary
      <4>3. CASE ~asked.m
        <5>1. asked = Split(asked.p, asked.c, FALSE)
          BY <4>1, <4>3 DEF Splits, Split
        <5> QED BY <3>5, <5>1
      <4> QED BY <4>2, <4>3
    <3> QED BY <1>2, <1>4, <2>1, <3>8, <3>9
  <2> QED BY <1>5, <1>8, <2>2, <2>3
<1> QED BY <1>7, <1>8

\* The history variables, the object and the version: what a step of any kind does to them.
LEMMA RoutingIs ==
  ASSUME IInv, NEW s, Routing(s)
  PROVE  /\ Rewritten(object, object') /\ Now(object') = Shown(s)
         /\ asked' = s /\ reset' = FALSE /\ cfg' = cfg /\ Whole(s)
         /\ minted' = IF cfg.affinity # "none" /\ s.c # 0 /\ cookies.cookie = 0
                        THEN minted + 1 ELSE minted
BY RouteIs DEF Routing

LEMMA NextAsked ==
  ASSUME IInv, [Next]_vars PROVE Asked'
<1>1. Whole(asked) /\ asked \in Splits /\ a.mirror \in BOOLEAN
  BY CfgFacts DEF IInv, Asked, Typed
<1>2. ASSUME cfg' = cfg, Whole(asked') PROVE Whole(asked)'
  BY <1>2 DEF Whole, a
<1>3. ASSUME NEW s, Routing(s) PROVE Asked'
  <2>1. cfg' = cfg /\ asked' = s /\ Whole(s) /\ (stage' = "done" => s = AllPrimary)
    BY <1>3, RoutingIs DEF Routing
  <2> QED BY <1>2, <2>1 DEF Asked
<1>4. ASSUME NEW s, NEW st, NEW it, Turn(s, st, it) PROVE Asked'
  BY <1>3, <1>4 DEF Turn
<1>5. CASE Counting
  <2>1. stage' = "analysis" /\ cfg' = cfg
    BY <1>5 DEF Counting, Save, Saved
  <2> QED BY <1>1, <1>2, <1>3, <1>5, <2>1 DEF Counting, Asked
<1>6. CASE Returning
  BY <1>3, <1>6 DEF Returning
<1>7. ASSUME cfg' = cfg, asked' = asked, stage' = "done" => stage = "done" PROVE Asked'
  BY <1>1, <1>2, <1>7 DEF Asked, IInv
<1>8. CASE Promote
  <2>1. cfg' = cfg /\ asked' = asked /\ stage' # "done"
    BY <1>8 DEF Promote, At, Save, Saved, history
  <2> QED BY <1>7, <2>1
<1>9. CASE NextRollout \/ EditService \/ Remove \/ Observe \/ Delete \/ Revert
  <2>1. cfg' = cfg /\ asked' = asked /\ (stage' = "done" => stage = "done")
    BY <1>9 DEF NextRollout, EditService, Remove, Observe, Delete, Revert, history, limits
  <2> QED BY <1>7, <2>1
<1>10. CASE ReconcileRoutes
  <2>1. cfg' = cfg /\ asked' \in {asked, AllPrimary} /\ stage' = stage /\ stage # "done"
    BY <1>10, ReconcileStep DEF ReconcileRoutes, Running
  <2>2. Whole(AllPrimary)
    BY PresetSplits
  <2> QED BY <1>1, <1>2, <2>1, <2>2 DEF Asked
<1>11. CASE UNCHANGED <<cfg, version, object, stage, iterations, cookies, limits, history>>
  BY <1>7, <1>11 DEF history
<1> QED BY <1>4, <1>5, <1>6, <1>8, <1>9, <1>10, <1>11, Kinds

LEMMA NextRead ==
  ASSUME IInv, [Next]_vars PROVE Read'
<1> DEFINE Status(o) ==
             cfg.provider = "knative" =>
               /\ o.version > 0 /\ o.observed # <<>>
               /\ o.observed[2] # <<>>
               /\ o.observed[2][1].p + o.observed[2][1].c = totalWeight
<1>0. object \in Objects /\ cfg \in Configs /\ (Live => Status(object))
  BY DEF IInv, Typed, Read
<1>1. ASSUME cfg' = cfg, Exists(object'), object'.version > 0, Now(object') = Shown(asked'),
             Status(object')
      PROVE  Read'
  <2>1. Now(object)' = Now(object') /\ Shown(asked)' = Shown(asked')
    BY <1>1, NowPrimed
  <2>2. object'.version # 0
    BY <1>1
  <2> QED BY <1>1, <2>1, <2>2 DEF Read, Exists
<1>2. ASSUME cfg' = cfg, object' = object, asked' = asked, pc' \in {pc, "reconcile"}, Live' => Live
      PROVE  Read'
  <2>1. Now(object)' = Now(object) /\ Shown(asked)' = Shown(asked)
    BY <1>2, NowPrimed
  <2>2. Live' => Read
    BY DEF IInv
  <2> QED BY <1>2, <2>1, <2>2 DEF Read, Exists
<1>3. ASSUME NEW s, Routing(s) PROVE Read'
  <2>1. /\ Rewritten(object, object') /\ Now(object') = Shown(s) /\ asked' = s /\ cfg' = cfg
    BY <1>3, RoutingIs
  <2>2. Live /\ object.version > 0
    BY <1>3 DEF Routing, Live, Running
  <2>3. object'.version = object.version /\ object'.observed = object.observed /\ Exists(object')
    BY <2>1 DEF Rewritten
  <2>4. Status(object')
    BY <1>0, <2>2, <2>3
  <2> HIDE DEF Status
  <2> QED BY <1>1, <2>1, <2>2, <2>3, <2>4
<1>4. ASSUME NEW s, NEW st, NEW it, Turn(s, st, it) PROVE Read'
  BY <1>3, <1>4 DEF Turn
<1>5. CASE Counting
  <2>1. cfg' = cfg /\ pc' = "reconcile" /\ Live
    BY <1>5 DEF Counting, Live
  <2> QED BY <1>2, <1>3, <1>5, <2>1 DEF Counting
<1>6. CASE Returning
  BY <1>3, <1>6 DEF Returning
<1>7. CASE Promote
  <2>1. cfg' = cfg /\ object' = object /\ asked' = asked /\ pc' = "reconcile" /\ Live
    BY <1>7 DEF Promote, At, EndTick, history, Live
  <2> QED BY <1>2, <2>1
<1>8. CASE NextRollout \/ EditService \/ Delete
  <2>1. cfg' = cfg /\ object' = object /\ asked' = asked /\ pc' = pc /\ (Live' => Live)
    BY <1>8 DEF NextRollout, EditService, Delete, history, Live
  <2> QED BY <1>2, <2>1
<1>9. CASE Remove
  <2>1. cfg' = cfg /\ object' = Absent /\ cfg.provider # "knative"
    BY <1>9 DEF Remove
  <2>2. ~Exists(Absent) /\ ~(Absent.version > 0)
    BY DEF Exists, Absent, Object
  <2>3. ~Exists(object)' /\ ~(object.version > 0)'
    BY <2>1, <2>2 DEF Exists
  <2> QED BY <2>1, <2>3 DEF Read
<1>10. CASE Observe
  <2>1. /\ cfg' = cfg /\ object' = [object EXCEPT !.observed = Generation(object)]
        /\ asked' = asked /\ pc' = pc /\ stage' = stage /\ cfg.provider \in Lagging
        /\ Exists(object)
    BY <1>10 DEF Observe, history
  <2>2. /\ object'.version = object.version /\ object'.rules = object.rules
        /\ object'.observed = <<object.version, object.rules>>
    BY <1>0, <2>1 DEF Objects, Generation
  <2>3. Now(object') = Now(object)
    BY <1>0, <2>2, CfgFacts, NowOfRules
  <2>4. Live' <=> Live
    BY <2>1 DEF Live
  <2>5. CASE Live /\ object.version > 0
    <3>1. Now(object) = Shown(asked) /\ Whole(asked)
      BY <2>5 DEF IInv, Read, Asked
    <3>2. ASSUME cfg.provider = "knative"
          PROVE  object.rules[1].p + object.rules[1].c = totalWeight
      <4>1. Shown(asked).p + Shown(asked).c = totalWeight
        BY <3>1, ShownType DEF Whole
      <4>2. Now(object) = Split(object.rules[1].p, object.rules[1].c, FALSE)
        BY <3>2 DEF Now, SmiGetRoutes
      <4> QED BY <3>1, <4>1, <4>2 DEF Split
    <3>3. object'.observed # <<>> /\ object'.observed[2] = object.rules /\ object.rules # <<>>
      BY <2>1, <2>2 DEF Exists
    <3>4. Status(object')
      BY <2>2, <2>5, <3>2, <3>3
    <3>5. Exists(object') /\ object'.version > 0 /\ Now(object') = Shown(asked')
      BY <2>1, <2>2, <2>3, <2>5, <3>1 DEF Exists
    <3> HIDE DEF Status
    <3> QED BY <1>1, <2>1, <3>4, <3>5
  <2>6. CASE ~Live
    BY <2>4, <2>6 DEF Read
  <2>7. CASE Live /\ ~(object.version > 0)
    <3>1. object.version = 0
      BY <1>0, <2>7 DEF Objects
    <3>2. cfg.provider = "istio"
      BY <2>1, <2>7, <3>1 DEF IInv, Read
    <3> QED BY <2>1, <3>2 DEF Lagging
  <2> QED BY <2>5, <2>6, <2>7
<1>11. CASE ReconcileRoutes
  <2>1. cfg' = cfg /\ Live
    BY <1>11 DEF ReconcileRoutes, Live, Running
  <2>2. Reconciled(object, object') /\ Now(object') = Shown(asked')
    BY <1>11, ReconcileStep
  <2>3. Exists(object') /\ object'.version > 0 /\ (cfg.provider = "knative" => object' = object)
    BY <2>2 DEF Reconciled
  <2>4. Status(object')
    BY <1>0, <2>1, <2>3
  <2> HIDE DEF Status
  <2> QED BY <1>1, <2>1, <2>2, <2>3, <2>4
<1>12. CASE Revert
  <2>1. ~Live'
    BY <1>12 DEF Revert, Live
  <2> QED BY <2>1 DEF Read
<1>13. CASE /\ UNCHANGED <<cfg, version, object, stage, iterations, cookies, limits, history>>
            /\ pc' \in {pc, "reconcile"}
  <2>1. Live' <=> Live
    BY <1>13 DEF Live
  <2> QED BY <1>2, <1>13, <2>1 DEF history
<1> QED BY <1>4, <1>5, <1>6, <1>7, <1>8, <1>9, <1>10, <1>11, <1>12, <1>13, Kinds

LEMMA NextCounted ==
  ASSUME IInv, [Next]_vars PROVE Counted'
<1>0. Counted /\ a.iterations \in Nat /\ iterations \in 0 .. a.iterations + 1
  BY CfgFacts DEF IInv, Typed
<1>1. ASSUME cfg' = cfg,
             stage' = "analysis" =>
               /\ Strategy = "A/B" /\ iterations' > 0 => asked' = AllCanary \/ reset'
               /\ Strategy = "Blue/Green" /\ iterations' > a.iterations => asked' = AllCanary \/ reset'
      PROVE  Counted'
  BY <1>1 DEF Counted, Strategy, a
<1>2. ASSUME cfg' = cfg, iterations' = iterations, asked' = asked, reset' = reset,
             stage' = "analysis" => stage = "analysis"
      PROVE  Counted'
  BY <1>0, <1>1, <1>2 DEF Counted
<1>3. ASSUME cfg' = cfg, iterations' = 0 PROVE Counted'
  BY <1>0, <1>1, <1>3
<1>4. ASSUME NEW s, NEW st, NEW it, Turn(s, st, it) PROVE Counted'
  <2>1. asked' = s /\ cfg' = cfg
    BY <1>4, RoutingIs DEF Turn
  <2>2. \/ stage' = st /\ iterations' = it
        \/ stage' = stage /\ iterations' = iterations
    BY <1>4 DEF Turn, Save, Saved
  <2>3. stage \in {"analysis", "promotion"}
    BY <1>4 DEF Turn, Routing, Running
  <2>4. CASE stage = "analysis"
    BY <1>1, <1>4, <2>1, <2>4 DEF Turn, Strategy
  <2>5. CASE stage = "promotion"
    <3>1. stage' # "analysis"
      BY <1>4, <2>2, <2>5 DEF Turn
    <3> QED BY <1>1, <2>1, <3>1
  <2> QED BY <2>3, <2>4, <2>5
<1>5. CASE Counting
  <2>1. /\ cfg' = cfg /\ Strategy = "Blue/Green" /\ iterations < a.iterations
        /\ iterations' \in {iterations, iterations + 1}
    BY <1>5 DEF Counting, Save, Saved
  <2>2. ~(iterations' > a.iterations)
    BY <1>0, <2>1
  <2> QED BY <1>1, <2>1, <2>2
<1>6. CASE Returning
  <2>1. cfg' = cfg /\ iterations' = 0
    BY <1>6 DEF Returning, Routing, Saved
  <2> QED BY <1>3, <2>1
<1>7. CASE Promote
  <2>1. /\ cfg' = cfg /\ iterations' = iterations /\ asked' = asked /\ reset' = reset
        /\ stage = "analysis"
    BY <1>7 DEF Promote, At, Save, Saved, history
  <2> QED BY <1>2, <2>1
<1>8. CASE NextRollout
  BY <1>3, <1>8 DEF NextRollout
<1>9. CASE EditService \/ Remove \/ Observe \/ Delete \/ Revert
  <2>1. /\ cfg' = cfg /\ iterations' = iterations /\ asked' = asked /\ reset' = reset
        /\ stage' = "analysis" => stage = "analysis"
    BY <1>9 DEF EditService, Remove, Observe, Delete, Revert, history
  <2> QED BY <1>2, <2>1
<1>10. CASE ReconcileRoutes
  <2>1. /\ cfg' = cfg /\ iterations' = iterations /\ stage' = stage
    BY <1>10 DEF ReconcileRoutes
  <2>2. reset' \/ (asked' = asked /\ (reset' <=> reset))
    BY <1>10, ReconcileStep
  <2> QED BY <1>0, <1>1, <2>1, <2>2 DEF Counted
<1>11. CASE UNCHANGED <<cfg, version, object, stage, iterations, cookies, limits, history>>
  BY <1>2, <1>11 DEF history
<1> QED BY <1>4, <1>5, <1>6, <1>7, <1>8, <1>9, <1>10, <1>11, Kinds

\* What a status write may leave of the cookies and of the bound on faults.
LEMMA SavedIs ==
  ASSUME IInv, NEW c, NEW st, NEW it, Save(c, st, it) \/ Saved(c, st, it)
  PROVE  /\ faults' \in 0 .. cfg.faults
         /\ \/ /\ cookies' = IF cfg.affinity = "none" \/ c < 0 THEN cookies
                              ELSE Cookies(cookies, c, minted + 1)
               /\ faults' = faults /\ stage' = st /\ iterations' = it
            \/ /\ cookies' = cookies /\ faults' = faults + 1
               /\ \/ stage' = st /\ iterations' = it
                  \/ stage' = stage /\ iterations' = iterations
BY CfgFacts DEF IInv, Typed, Save, Saved

LEMMA NextMinting ==
  ASSUME IInv, [Next]_vars PROVE Minting'
<1>0. /\ Minting /\ minted \in Nat /\ past \in 0 .. minted /\ faults \in Nat
      /\ cookies \in [cookie : 0 .. minted, previous : 0 .. minted]
      /\ cfg.affinity \in {"none", "canary", "both"} /\ a.mirror \in BOOLEAN
      /\ a.iterations \in Nat /\ iterations \in Int
  BY CfgFacts DEF IInv, Typed
<1>n. minted \in Int /\ past \in Nat /\ faults \in Int /\ minted <= past + faults + 1
  BY <1>0 DEF Minting
<1>1. ASSUME cfg' = cfg,
             minted' <= past' + faults' + 1,
             Running' /\ cfg.affinity # "none" /\ cookies'.cookie = 0 => minted' <= past' + faults',
             cfg.affinity # "none" /\ stage' = "analysis" /\ Strategy = "Blue/Green"
               /\ iterations' <= a.iterations => minted' <= past' + faults',
             cfg.affinity # "none" /\ a.mirror /\ Strategy = "Canary" => asked'.c = 0 /\ minted' = 0
      PROVE  Minting'
  BY <1>1 DEF Minting, Strategy, a
<1>2. ASSUME cfg' = cfg, minted' = minted, past' = past, NEW f \in Nat, faults' = f, f >= faults,
             asked'.c = asked.c \/ asked'.c = 0,
             Running' => Running /\ cookies' = cookies,
             stage' = "analysis" => stage = "analysis" /\ iterations' = iterations
      PROVE  Minting'
  <2>1. minted' <= past' + f + 1
    BY <1>n, <1>2
  <2>2. ASSUME Running', cfg.affinity # "none", cookies'.cookie = 0 PROVE minted' <= past' + f
    <3>1. minted <= past + faults
      BY <1>0, <1>2, <2>2 DEF Minting
    <3> QED BY <1>n, <1>2, <3>1
  <2>3. cfg.affinity # "none" /\ a.mirror /\ Strategy = "Canary" => asked'.c = 0 /\ minted' = 0
    BY <1>0, <1>2 DEF Minting
  <2>4. ASSUME cfg.affinity # "none", stage' = "analysis", Strategy = "Blue/Green", iterations' <= a.iterations
        PROVE  minted' <= past' + f
    <3>1. minted <= past + faults
      BY <1>0, <1>2, <2>4 DEF Minting
    <3> QED BY <1>n, <1>2, <3>1
  <2> QED BY <1>1, <1>2, <2>1, <2>2, <2>3, <2>4
<1>3. ASSUME NEW s, NEW st, NEW it, Turn(s, st, it) PROVE Minting'
  <2> DEFINE fresh == cfg.affinity # "none" /\ s.c # 0 /\ cookies.cookie = 0
  <2>1. /\ cfg' = cfg /\ asked' = s /\ Whole(s)
        /\ minted' = IF fresh THEN minted + 1 ELSE minted
    <3>1. Routing(s)
      BY <1>3 DEF Turn
    <3> QED BY <3>1, RoutingIs
  <2>2. /\ Running /\ past' = past /\ Save(s.c, st, it)
        /\ s.c = 0 => st = "done" \/ (a.mirror /\ Strategy = "Canary")
        /\ cfg.affinity # "none" /\ a.mirror /\ Strategy = "Canary" => s.c = 0
    BY <1>3 DEF Turn, Routing
  <2>3. PICK f \in Nat :
          /\ faults' = f /\ f >= faults
          /\ \/ /\ cookies' = IF cfg.affinity = "none" \/ s.c < 0 THEN cookies
                               ELSE Cookies(cookies, s.c, minted + 1)
                /\ f = faults /\ stage' = st /\ iterations' = it
             \/ /\ cookies' = cookies /\ f = faults + 1
                /\ \/ stage' = st /\ iterations' = it
                   \/ stage' = stage /\ iterations' = iterations
    BY <1>n, <2>2, SavedIs
  <2>4. s.c \in Nat
    BY <2>1 DEF Whole, Splits, Weights
  <2>5. fresh => minted <= past + faults
    BY <1>0, <2>2 DEF Minting
  <2>6. minted' <= past' + f + 1
    <3>1. past' = past /\ f >= faults
      BY <2>2, <2>3
    <3>2. CASE fresh
      BY <1>n, <2>1, <2>5, <3>1, <3>2
    <3>3. CASE ~fresh
      BY <1>n, <2>1, <3>1, <3>3
    <3> QED BY <3>2, <3>3
  <2>7. cfg.affinity # "none" /\ a.mirror /\ Strategy = "Canary" => asked'.c = 0 /\ minted' = 0
    BY <1>0, <2>1, <2>2 DEF Minting
  <2>8. ASSUME Running', cfg.affinity # "none", cookies'.cookie = 0
        PROVE  minted' <= past' + f
    <3>1. CASE cookies' = cookies /\ f = faults + 1
      <4>1. cookies.cookie = 0 /\ minted <= past + faults
        BY <1>0, <2>2, <2>8, <3>1 DEF Minting
      <4> QED BY <1>0, <2>1, <2>2, <3>1, <4>1
    <3>2. CASE cookies' = Cookies(cookies, s.c, minted + 1) /\ stage' = st
      <4>1. s.c = 0
        BY <1>0, <2>8, <3>2 DEF Cookies
      <4>2. a.mirror /\ Strategy = "Canary"
        BY <2>2, <2>8, <3>2, <4>1 DEF Running
      <4>3. minted' = 0
        BY <2>7, <2>8, <4>2
      <4> QED BY <1>n, <2>2, <4>3
    <3> HIDE DEF fresh
    <3> QED BY <2>3, <2>4, <2>8, <3>1, <3>2
  <2>9. ASSUME cfg.affinity # "none", stage' = "analysis", Strategy = "Blue/Green", iterations' <= a.iterations
        PROVE  minted' <= past' + f
    <3>1. stage = "analysis" => it > a.iterations
      BY <1>3, <2>9 DEF Turn
    <3>2. stage = "analysis" /\ it \in Int
      BY <1>0, <1>3, <2>3, <2>9 DEF Turn, Routing, Running
    <3>3. iterations' = iterations /\ f = faults + 1
      BY <1>0, <2>3, <2>9, <3>1, <3>2
    <3>4. minted <= past + faults
      BY <1>0, <2>9, <3>2, <3>3 DEF Minting
    <3>5. minted' \in {minted, minted + 1}
      BY <2>1
    <3> QED BY <1>n, <2>2, <3>3, <3>4, <3>5
  <2> QED BY <1>1, <2>1, <2>3, <2>6, <2>7, <2>8, <2>9
<1>4. CASE Counting
  <2>1. /\ cfg' = cfg /\ past' = past /\ stage = "analysis"
        /\ \E c \in {-1, 0} : Save(c, "analysis", iterations + 1)
        /\ Strategy = "Blue/Green" /\ iterations < a.iterations
    BY <1>4 DEF Counting
  <2>2. minted' = minted
    <3>1. CASE Routing(Split(totalWeight, 0, TRUE))
      <4>1. Split(totalWeight, 0, TRUE).c = 0
        BY DEF Split
      <4> QED BY <3>1, <4>1, RoutingIs
    <3> QED BY <1>4, <3>1 DEF Counting
  <2>3. PICK f \in Nat : faults' = f /\ f >= faults
    BY <1>n, <2>1, SavedIs
  <2>4. minted' <= past' + f + 1
    BY <1>n, <2>1, <2>2, <2>3
  <2>5. cfg.affinity # "none" => minted <= past + faults
    BY <1>0, <2>1 DEF Minting
  <2>6. cfg.affinity # "none" => minted' <= past' + f
    BY <1>n, <2>1, <2>2, <2>3, <2>5
  <2> QED BY <1>1, <2>1, <2>3, <2>4, <2>6
<1>5. CASE Returning
  <2>1. cfg' = cfg /\ asked' = AllPrimary /\ minted' = minted /\ AllPrimary.c = 0
    BY <1>5, RoutingIs, PresetSplits DEF Returning
  <2>2. CASE Saved(0, "done", 0) /\ UNCHANGED <<rollouts, past>>
    <3>1. PICK f \in Nat : faults' = f /\ f >= faults /\ stage' = "done"
      BY <1>n, <1>0, <2>2 DEF Saved
    <3> QED BY <1>2, <2>1, <2>2, <3>1 DEF Running
  <2>3. CASE Saved(0, "analysis", 0) /\ past' = minted
    <3>1. PICK f \in Nat : faults' = f
      BY <1>0, <2>3 DEF Saved
    <3>2. minted' = past' /\ past' = minted
      BY <2>1, <2>3
    <3>3. minted' <= past' + f + 1 /\ minted' <= past' + f
      BY <1>n, <3>2
    <3>4. cfg.affinity # "none" /\ a.mirror /\ Strategy = "Canary" => minted' = 0
      BY <1>0, <2>1 DEF Minting
    <3> QED BY <1>1, <2>1, <3>1, <3>3, <3>4
  <2> QED BY <1>5, <2>2, <2>3 DEF Returning
<1>6. CASE Promote
  <2>1. /\ cfg' = cfg /\ minted' = minted /\ past' = past /\ asked' = asked
        /\ Save(-1, "promotion", iterations) /\ Running /\ stage = "analysis"
    BY <1>6 DEF Promote, At, Running, history
  <2>2. PICK f \in Nat :
          cookies' = cookies /\ faults' = f /\ f >= faults /\ iterations' = iterations
    BY <1>n, <1>0, <2>1, SavedIs
  <2> QED BY <1>2, <2>1, <2>2
<1>7. CASE NextRollout
  <2>1. cfg' = cfg /\ minted' = minted /\ past' = minted /\ asked' = asked /\ faults' = faults
    BY <1>7 DEF NextRollout
  <2> QED BY <1>0, <1>1, <2>1 DEF Minting
<1>8. CASE EditService \/ Remove \/ Observe \/ Delete \/ Revert
  <2>1. /\ cfg' = cfg /\ minted' = minted /\ past' = past /\ asked' = asked /\ cookies' = cookies
        /\ faults' \in {faults, faults + 1}
        /\ Running' => Running
        /\ stage' = "analysis" => stage = "analysis" /\ iterations' = iterations
    BY <1>8 DEF EditService, Remove, Observe, Delete, Revert, history, limits, Running
  <2>2. PICK f \in Nat : faults' = f /\ f >= faults
    BY <1>0, <2>1
  <2> QED BY <1>2, <2>1, <2>2
<1>9. CASE ReconcileRoutes
  <2>1. /\ cfg' = cfg /\ minted' = minted /\ past' = past /\ cookies' = cookies /\ faults' = faults
        /\ Running /\ stage' = stage /\ iterations' = iterations
    BY <1>9 DEF ReconcileRoutes, limits
  <2>2. asked' \in {asked, AllPrimary} /\ AllPrimary.c = 0
    BY <1>9, ReconcileStep, PresetSplits
  <2> QED BY <1>0, <1>2, <2>1, <2>2
<1>10. CASE UNCHANGED <<cfg, version, object, stage, iterations, cookies, limits, history>>
  <2>1. Running' => Running
    BY <1>10 DEF Running
  <2> QED BY <1>0, <1>2, <1>10, <2>1 DEF history, limits
<1> QED BY <1>3, <1>4, <1>5, <1>6, <1>7, <1>8, <1>9, <1>10, Kinds

LEMMA CookieTypes ==
  ASSUME NEW n \in Nat, NEW x \in [cookie : 0 .. n, previous : 0 .. n], NEW c \in Int,
         NEW m \in Nat, m >= n, c # 0 /\ x.cookie = 0 => m = n + 1
  PROVE  /\ Cookies(x, c, n + 1) \in [cookie : 0 .. m, previous : 0 .. m]
         /\ x \in [cookie : 0 .. m, previous : 0 .. m]
BY DEF Cookies

LEMMA NextTyped ==
  ASSUME IInv, [Next]_vars PROVE Typed'
<1> DEFINE Scalars ==
             /\ version' \in 1 .. 1 + edits' /\ pc' \in {"reconcile", "step"}
             /\ stage' \in {"analysis", "promotion", "done", "finalizing", "finalized"}
             /\ iterations' \in 0 .. a.iterations + 1
             /\ edits' \in 0 .. cfg.edits /\ faults' \in 0 .. cfg.faults
             /\ rollouts' \in 0 .. cfg.rollouts
           Minted ==
             /\ cookies' \in [cookie : 0 .. minted', previous : 0 .. minted']
             /\ minted' \in Nat /\ past' \in 0 .. minted'
           Objective == object' \in Objects /\ asked' \in Splits /\ reset' \in BOOLEAN
<1>0. /\ Typed /\ a.iterations \in Nat
      /\ cfg.edits \in Nat /\ cfg.faults \in Nat /\ cfg.rollouts \in Nat
      /\ minted \in Nat
  BY CfgFacts DEF IInv, Typed
<1>1. ASSUME cfg' = cfg, Scalars, Minted, Objective PROVE Typed'
  BY <1>0, <1>1 DEF Typed, a
<1>2. ASSUME NEW s, Routing(s)
      PROVE  /\ Objective /\ cfg' = cfg /\ version' = version /\ edits' = edits
             /\ pc' = "reconcile"
             /\ minted' = IF cfg.affinity # "none" /\ s.c # 0 /\ cookies.cookie = 0
                            THEN minted + 1 ELSE minted
             /\ s.c \in Nat
  <2>1. Rewritten(object, object') /\ asked' = s /\ reset' = FALSE /\ Whole(s)
        /\ minted' = IF cfg.affinity # "none" /\ s.c # 0 /\ cookies.cookie = 0
                       THEN minted + 1 ELSE minted
    BY <1>2, RoutingIs
  <2>2. s \in Splits /\ s.c \in Nat
    BY <2>1 DEF Whole, Splits, Weights
  <2> QED BY <1>2, <2>1, <2>2 DEF Routing, Rewritten
<1>3. ASSUME NEW s, NEW st, NEW it, Turn(s, st, it) PROVE Typed'
  <2>1. /\ Routing(s) /\ Save(s.c, st, it)
        /\ st \in {"analysis", "promotion", "done"} /\ it \in 0 .. a.iterations + 1
        /\ rollouts' = rollouts /\ past' = past
    BY <1>3 DEF Turn
  <2>2. /\ Objective /\ cfg' = cfg /\ version' = version /\ edits' = edits /\ pc' = "reconcile"
        /\ minted' = IF cfg.affinity # "none" /\ s.c # 0 /\ cookies.cookie = 0
                       THEN minted + 1 ELSE minted
        /\ s.c \in Nat
    BY <1>2, <2>1
  <2>3. /\ faults' \in 0 .. cfg.faults
        /\ stage' \in {st, stage} /\ iterations' \in {it, iterations}
        /\ \/ cookies' = cookies
           \/ cfg.affinity # "none" /\ cookies' = Cookies(cookies, s.c, minted + 1)
    <3> HIDE DEF Objective
    <3> QED BY <2>1, SavedIs
  <2>4. Scalars
    <3> HIDE DEF Objective
    <3> QED BY <1>0, <2>1, <2>2, <2>3 DEF Typed
  <2>5. minted' \in Nat /\ minted' >= minted /\ past' \in 0 .. minted'
    <3> HIDE DEF Objective
    <3> QED BY <1>0, <2>1, <2>2 DEF Typed
  <2>6. cookies' \in [cookie : 0 .. minted', previous : 0 .. minted']
    <3> HIDE DEF Objective, Scalars
    <3>1. cookies \in [cookie : 0 .. minted, previous : 0 .. minted]
      BY <1>0 DEF Typed
    <3>2. cookies \in [cookie : 0 .. minted', previous : 0 .. minted']
      BY <1>0, <2>5, <3>1
    <3>3. cfg.affinity # "none" => Cookies(cookies, s.c, minted + 1) \in [cookie : 0 .. minted', previous : 0 .. minted']
      <4> SUFFICES ASSUME cfg.affinity # "none"
                   PROVE  Cookies(cookies, s.c, minted + 1) \in [cookie : 0 .. minted', previous : 0 .. minted']
        OBVIOUS
      <4> DEFINE m == minted'
      <4>1. m \in Nat /\ m >= minted /\ s.c \in Int /\ minted \in Nat
            /\ (s.c # 0 /\ cookies.cookie = 0 => m = minted + 1)
        BY <1>0, <2>2, <2>5
      <4> HIDE DEF m
      <4>2. Cookies(cookies, s.c, minted + 1) \in [cookie : 0 .. m, previous : 0 .. m]
        BY <3>1, <4>1, CookieTypes
      <4> QED BY <4>2 DEF m
    <3> QED BY <2>3, <3>2, <3>3
  <2> HIDE DEF Objective, Scalars
  <2> QED BY <1>1, <2>2, <2>4, <2>5, <2>6
<1>4. CASE Counting
  <2>1. /\ \E c \in {-1, 0} : Save(c, "analysis", iterations + 1)
        /\ stage = "analysis" /\ iterations < a.iterations
        /\ UNCHANGED <<cfg, version, edits, rollouts, past>> /\ pc' = "reconcile"
    BY <1>4 DEF Counting
  <2>2. Objective /\ minted' = minted
    <3>1. CASE Routing(Split(totalWeight, 0, TRUE))
      <4>1. Split(totalWeight, 0, TRUE).c = 0
        BY DEF Split
      <4> QED BY <1>2, <3>1, <4>1
    <3>2. CASE UNCHANGED <<object, asked, reset, minted>>
      BY <1>0, <3>2 DEF Typed
    <3> QED BY <1>4, <3>1, <3>2 DEF Counting
  <2>3. /\ cookies' \in {cookies, Cookies(cookies, 0, minted + 1)} /\ faults' \in 0 .. cfg.faults
        /\ stage' = "analysis" /\ iterations' \in {iterations, iterations + 1}
    <3> HIDE DEF Objective
    <3> QED BY <2>1, SavedIs
  <2> HIDE DEF Objective
  <2>4. cookies' \in [cookie : 0 .. minted, previous : 0 .. minted]
    <3>1. cookies \in [cookie : 0 .. minted, previous : 0 .. minted]
      BY <1>0 DEF Typed
    <3> QED BY <1>0, <2>3, <3>1 DEF Cookies
  <2>5. Scalars /\ Minted
    BY <1>0, <2>1, <2>2, <2>3, <2>4 DEF Typed
  <2> HIDE DEF Scalars, Minted
  <2> QED BY <1>1, <2>1, <2>2, <2>5
<1>5. CASE Returning
  <2>1. /\ Routing(AllPrimary) /\ AllPrimary.c = 0 /\ stage = "analysis"
    BY <1>5, PresetSplits DEF Returning
  <2>2. /\ Objective /\ cfg' = cfg /\ version' = version /\ edits' = edits /\ pc' = "reconcile"
        /\ minted' = minted
    BY <1>2, <2>1
  <2>3. /\ Saved(0, "done", 0) \/ Saved(0, "analysis", 0)
        /\ rollouts' \in 0 .. cfg.rollouts /\ past' \in 0 .. minted
    <3> HIDE DEF Objective
    <3> QED BY <1>0, <1>5 DEF Returning, Typed
  <2>4. /\ faults' \in 0 .. cfg.faults
        /\ stage' \in {"done", "analysis"} /\ iterations' = 0
        /\ cookies' \in {cookies, Cookies(cookies, 0, minted + 1)}
    <3> HIDE DEF Objective
    <3> QED BY <1>0, <2>3 DEF Saved, Typed
  <2>5. {cookies, Cookies(cookies, 0, minted + 1)} \subseteq [cookie : 0 .. minted, previous : 0 .. minted]
    <3>1. cookies \in [cookie : 0 .. minted, previous : 0 .. minted]
      BY <1>0 DEF Typed
    <3> QED BY <1>0, <3>1 DEF Cookies
  <2> HIDE DEF Objective
  <2>6. Minted
    BY <1>0, <2>2, <2>3, <2>4, <2>5
  <2>7. Scalars
    BY <1>0, <2>2, <2>3, <2>4 DEF Typed
  <2> HIDE DEF Scalars, Minted
  <2> QED BY <1>1, <2>2, <2>6, <2>7
<1>6. CASE Promote
  <2>1. /\ Save(-1, "promotion", iterations) /\ stage = "analysis" /\ pc' = "reconcile"
        /\ UNCHANGED <<cfg, version, object, edits, rollouts, asked, reset, minted, past>>
    BY <1>6 DEF Promote, At, EndTick, history
  <2>2. /\ cookies' = cookies /\ faults' \in 0 .. cfg.faults
        /\ stage' \in {"promotion", "analysis"} /\ iterations' = iterations
    BY <2>1, SavedIs
  <2>3. Scalars /\ Minted /\ Objective
    BY <1>0, <2>1, <2>2 DEF Typed
  <2> HIDE DEF Scalars, Minted, Objective
  <2> QED BY <1>1, <2>1, <2>3
<1>7. CASE NextRollout
  <2>1. cfg' = cfg /\ Scalars /\ Minted /\ Objective
    BY <1>0, <1>7 DEF NextRollout, Typed
  <2> HIDE DEF Scalars, Minted, Objective
  <2> QED BY <1>1, <2>1
<1>8. CASE EditService \/ Delete
  <2>1. cfg' = cfg /\ Scalars
    BY <1>0, <1>8 DEF EditService, Delete, Typed
  <2>2. Minted /\ Objective
    BY <1>0, <1>8 DEF EditService, Delete, Typed, history
  <2> HIDE DEF Scalars, Minted, Objective
  <2> QED BY <1>1, <2>1, <2>2
<1>9. CASE Remove \/ Observe \/ Revert
  <2>1. cfg' = cfg /\ Scalars
    BY <1>0, <1>9 DEF Remove, Observe, Revert, Typed, limits
  <2>2. Minted
    BY <1>0, <1>9 DEF Remove, Observe, Revert, Typed, history
  <2>3. object' \in Objects
    <3>1. Absent \in Objects /\ UserRules \in Lists /\ <<>> \in Lists
      <4>1. [Rule("all", 0, 0) EXCEPT !.to = {"apex"}] \in RuleSet
        <5>1. "all" \in Requests /\ 0 \in Weights
          BY DEF Requests, Weights, totalWeight
        <5>2. Rule("all", 0, 0) \in RuleSet
          BY <5>1, RuleTypes
        <5>3. {"apex"} \in SUBSET {"primary", "canary", "apex"}
          OBVIOUS
        <5> HIDE DEF Scalars, Minted, Objective
        <5> QED BY <5>2, <5>3 DEF RuleSet
      <4> HIDE DEF Scalars, Minted, Objective
      <4> QED BY <4>1 DEF Absent, Object, Objects, Lists, UserRules
    <3>2. object \in Objects
      BY <1>0 DEF Typed
    <3>3. CASE Remove
      BY <3>1, <3>3 DEF Remove
    <3>4. CASE Observe
      BY <3>2, <3>4 DEF Observe, Generation, Objects
    <3>5. CASE Revert
      <4>1. object' = Finalize(cfg.provider, object)
        BY <3>5 DEF Revert
      <4>2. IstioFinalize(object) \in Objects /\ SkipperFinalize(object) \in Objects
            /\ KnativeFinalize(object) \in Objects
        BY <3>1, <3>2 DEF IstioFinalize, SkipperFinalize, KnativeFinalize, Objects
      <4> QED BY <3>2, <4>1, <4>2 DEF Finalize
    <3> QED BY <1>9, <3>3, <3>4, <3>5
  <2>4. asked' \in Splits /\ reset' \in BOOLEAN
    BY <1>0, <1>9 DEF Remove, Observe, Revert, Typed, history
  <2> HIDE DEF Scalars, Minted
  <2> QED BY <1>1, <2>1, <2>2, <2>3, <2>4
<1>10. CASE ReconcileRoutes
  <2>1. cfg' = cfg /\ Scalars /\ Minted
    BY <1>0, <1>10 DEF ReconcileRoutes, Typed, limits
  <2>2. Objective
    <3>1. Reconciled(object, object') /\ asked' \in {asked, AllPrimary} /\ reset' \in BOOLEAN
      BY <1>10, ReconcileStep
    <3> QED BY <1>0, <3>1, PresetSplits DEF Typed, Reconciled
  <2> HIDE DEF Scalars, Minted, Objective
  <2> QED BY <1>1, <2>1, <2>2
<1>11. CASE /\ UNCHANGED <<cfg, version, object, stage, iterations, cookies, limits, history>>
            /\ pc' \in {pc, "reconcile"}
  <2>1. Scalars /\ Minted /\ Objective
    BY <1>0, <1>11 DEF Typed, limits, history
  <2> HIDE DEF Scalars, Minted, Objective
  <2> QED BY <1>1, <1>11, <2>1
<1> QED BY <1>3, <1>4, <1>5, <1>6, <1>7, <1>8, <1>9, <1>10, <1>11, Kinds

------------------------------------------------------------------------------
\* The theorems.

LEMMA InitInv == ASSUME Init PROVE IInv
<1> DEFINE plain == Rule("all", totalWeight, 0)
           knative == [KnativeInitialize(Absent, 1) EXCEPT !.observed = <<1, <<Rule("all", 100, 0)>>>>]
           adopted == Object(UserRules, 0, cfg.kubectl)
<1>0. /\ cfg \in Configs /\ version = 1 /\ pc = "reconcile" /\ stage = "analysis" /\ iterations = 0
      /\ cookies = [cookie |-> 0, previous |-> 0]
      /\ edits = 0 /\ faults = 0 /\ rollouts = 0
      /\ asked = AllPrimary /\ reset = FALSE /\ minted = 0 /\ past = 0
      /\ object = IF cfg.provider = "knative" THEN knative
                  ELSE IF cfg.adopted THEN adopted ELSE Absent
  BY DEF Init
<1>1. cfg.edits \in Nat /\ cfg.faults \in Nat /\ cfg.rollouts \in Nat /\ a.iterations \in Nat
      /\ cfg.kubectl \in BOOLEAN /\ (cfg.adopted => cfg.provider = "istio")
  BY <1>0, CfgFacts, ConfigsAssumption
<1>2. Whole(AllPrimary) /\ Shown(AllPrimary) = AllPrimary /\ AllPrimary \in Splits /\ AllPrimary.c = 0
  BY PresetSplits
<1> HIDE DEF knative, adopted
<1>3. /\ <<plain>> \in Lists /\ <<plain>> # <<>> /\ <<plain>>[1].p = totalWeight /\ <<plain>>[1].c = 0
      /\ <<>> \in Lists /\ UserRules \in Lists /\ UserRules # <<>>
  <2>1. "all" \in Requests /\ 0 \in Weights /\ totalWeight \in Weights
    BY DEF Requests, Weights, totalWeight
  <2>2. Rule("all", 0, 0) \in RuleSet /\ plain \in RuleSet /\ plain.p = totalWeight /\ plain.c = 0
    BY <2>1, RuleTypes DEF Rule
  <2>3. {"apex"} \in SUBSET {"primary", "canary", "apex"}
    OBVIOUS
  <2>4. [Rule("all", 0, 0) EXCEPT !.to = {"apex"}] \in RuleSet
    BY <2>2, <2>3 DEF RuleSet
  <2> HIDE DEF plain
  <2> QED BY <2>2, <2>4 DEF Lists, UserRules
<1>4. /\ knative \in Objects /\ knative.version = 1 /\ knative.rules = <<plain>>
      /\ knative.observed = <<1, <<plain>>>>
  <2>1. ~Exists(Absent) /\ Absent \in Objects
    BY <1>3 DEF Exists, Absent, Object, Objects
  <2>2. KnativeInitialize(Absent, 1) = [Absent EXCEPT !.rules = <<plain>>, !.version = 1]
    BY <2>1 DEF KnativeInitialize, Declare
  <2>3. knative = [[Absent EXCEPT !.rules = <<plain>>, !.version = 1] EXCEPT !.observed = <<1, <<plain>>>>]
    BY <2>2 DEF knative, totalWeight
  <2> HIDE DEF plain
  <2> QED BY <1>3, <2>1, <2>3 DEF Objects
<1>5. adopted \in Objects /\ adopted.version = 0 /\ adopted.rules = UserRules /\ adopted.observed = <<>>
  BY <1>1, <1>3 DEF adopted, Object, Objects
<1>6. Absent \in Objects /\ Absent.version = 0 /\ Absent.rules = <<>>
  BY <1>3 DEF Absent, Object, Objects
<1> HIDE DEF plain
<1>7. Typed
  <2>1. object \in Objects
    BY <1>0, <1>4, <1>5, <1>6
  <2>2. cookies \in [cookie : 0 .. minted, previous : 0 .. minted]
    BY <1>0
  <2>3. version \in 1 .. 1 + edits /\ iterations \in 0 .. a.iterations + 1 /\ past \in 0 .. minted
    BY <1>0, <1>1
  <2>4. edits \in 0 .. cfg.edits /\ faults \in 0 .. cfg.faults /\ rollouts \in 0 .. cfg.rollouts
    BY <1>0, <1>1
  <2> QED BY <1>0, <1>2, <2>1, <2>2, <2>3, <2>4 DEF Typed
<1>8. Asked
  BY <1>0, <1>2 DEF Asked
<1>9. Read
  <2>1. CASE cfg.provider = "knative"
    <3>1. /\ object.version = 1 /\ object.rules = <<plain>> /\ object.observed = <<1, <<plain>>>>
          /\ object.observed # <<>> /\ object.observed[2] = <<plain>>
      BY <1>0, <1>4, <2>1
    <3>2. Now(object) = AllPrimary
      BY <1>3, <2>1, <3>1 DEF Now, SmiGetRoutes, AllPrimary
    <3>3. object.observed[2][1].p + object.observed[2][1].c = totalWeight
      BY <1>3, <3>1 DEF totalWeight
    <3> QED BY <1>0, <1>2, <1>3, <3>1, <3>2, <3>3 DEF Read, Exists
  <2>2. CASE cfg.provider # "knative"
    <3>1. object.version = 0 /\ (Exists(object) => cfg.provider = "istio" /\ object.rules = UserRules)
      BY <1>0, <1>1, <1>5, <1>6, <2>2 DEF Exists
    <3> QED BY <1>0, <2>2, <3>1 DEF Read
  <2> QED BY <2>1, <2>2
<1>10. Counted
  BY <1>0, <1>1 DEF Counted
<1>11. Minting
  BY <1>0, <1>2 DEF Minting
<1> QED BY <1>7, <1>8, <1>9, <1>10, <1>11 DEF IInv

LEMMA NextInv == ASSUME IInv, [Next]_vars PROVE IInv'
BY NextTyped, NextAsked, NextRead, NextCounted, NextMinting DEF IInv

LEMMA InvHolds == Spec => []IInv
<1>1. Init => IInv
  BY InitInv
<1>2. IInv /\ [Next]_vars => IInv'
  BY NextInv
<1> QED BY <1>1, <1>2, PTL DEF Spec

\* The variables keep their types.
THEOREM TypesHold == Spec => []TypeOK
<1>1. IInv => TypeOK
  <2> SUFFICES ASSUME Typed PROVE TypeOK
    BY DEF IInv
  <2>1. version \in 1 .. 1 + cfg.edits
    BY CfgFacts DEF Typed
  <2>2. cookies.cookie \in 0 .. minted /\ cookies.previous \in 0 .. minted
    BY DEF Typed
  <2> QED BY <2>1, <2>2 DEF Typed, TypeOK
<1> QED BY <1>1, InvHolds, PTL

\* What a router reads is what it was asked to write, for each of them.
THEOREM WeightsReadBack == Spec => []ReadBack
<1>1. IInv => ReadBack
  <2> SUFFICES ASSUME IInv, Running, Settled
               PROVE  LET s == GetRoutes(cfg.provider, a, object, FALSE)
                      IN  \/ s = asked
                          \/ MirrorUnseen /\ s.p = asked.p /\ s.c = asked.c
                          \/ WeightIgnored /\ s = AllCanary
    BY DEF ReadBack
  <2> DEFINE s == GetRoutes(cfg.provider, a, object, FALSE)
  <2>1. Live /\ Exists(object) /\ object.version > 0 /\ asked \in Splits
    BY DEF Settled, Running, Live, IInv, Typed
  <2>2. Now(object) = Shown(asked)
    BY <2>1 DEF IInv, Read
  <2>3. s = Now(object)
    <3>1. CASE cfg.provider # "knative"
      BY <3>1 DEF Now
    <3>2. CASE cfg.provider = "knative"
      <4>1. object.observed[2] = object.rules
        BY <3>2 DEF Settled, Lagging, Generation
      <4>2. s = Split(object.rules[1].p, object.rules[1].c, FALSE)
        BY <3>2, <4>1 DEF GetRoutes, KnativeGetRoutes
      <4> QED BY <3>2, <4>2 DEF Now, SmiGetRoutes
    <3> QED BY <3>1, <3>2
  <2> HIDE DEF s
  <2>4. CASE cfg.provider = "nginx" /\ a.match /\ asked.c > 0
    <3>1. s = AllCanary
      BY <2>2, <2>3, <2>4 DEF Shown
    <3> QED BY <2>4, <3>1 DEF WeightIgnored, s
  <2>5. CASE ~(cfg.provider = "nginx" /\ a.match /\ asked.c > 0)
    <3>1. s = Split(asked.p, asked.c, asked.m /\ ~MirrorLost)
      BY <2>2, <2>3, <2>5 DEF Shown
    <3>2. s.p = asked.p /\ s.c = asked.c
      BY <3>1 DEF Split
    <3>3. CASE asked.m /\ MirrorLost
      BY <3>2, <3>3 DEF MirrorUnseen, s
    <3>4. CASE ~(asked.m /\ MirrorLost)
      <4>1. asked.m = (asked.m /\ ~MirrorLost)
        BY <2>1, <3>4 DEF Splits
      <4>2. s = Split(asked.p, asked.c, asked.m)
        BY <3>1, <4>1
      <4>3. s = asked
        BY <2>1, <4>2 DEF Split, Splits
      <4> QED BY <4>3 DEF s
    <3> QED BY <3>3, <3>4
  <2> QED BY <2>4, <2>5
<1> QED BY <1>1, InvHolds, PTL

\* A rollout makes one cookie, and one more for each status write it loses.
THEOREM CookiesAreFew == Spec => []OneCookie
<1>1. IInv => OneCookie
  <2> SUFFICES ASSUME IInv PROVE OneCookie
    OBVIOUS
  <2>1. minted \in Int /\ past \in Int /\ faults \in Int /\ minted <= past + faults + 1
    BY CfgFacts DEF IInv, Typed, Minting
  <2>2. \A x, y, z \in Int : x <= y + z + 1 => x - y <= 1 + z
    OBVIOUS
  <2> QED BY <2>1, <2>2 DEF OneCookie
<1> QED BY <1>1, InvHolds, PTL

\* A promotion follows traffic on the canary: the maximum weight of it, or all of it
\* while the iterations were counted.
THEOREM PromotionsFollowTraffic == Spec => PromotedOnCanary
<1>1. ASSUME IInv, [Next]_vars, stage = "analysis", stage' = "promotion", ~Stale
      PROVE  IF Strategy = "Canary" THEN asked.c >= maxWeight(a) \/ WeightIgnored
             ELSE asked = AllCanary \/ reset
  <2>1. CASE Promote
    <3>1. /\ Running /\ pc = "step" /\ Readable(cfg.provider, object) /\ Analysed
      BY <2>1 DEF Promote, At, Running
    <3>2. Seen = Shown(asked)
      BY <1>1, <3>1, Reads, SeenIs
    <3>3. ASSUME Strategy = "Canary" PROVE asked.c >= maxWeight(a) \/ WeightIgnored
      <4>1. Seen.c >= maxWeight(a)
        BY <3>1, <3>3 DEF Analysed
      <4>2. ~WeightIgnored => Shown(asked).c = asked.c
        BY DEF WeightIgnored, Shown, Split
      <4> QED BY <3>2, <4>1, <4>2
    <3>4. ASSUME Strategy # "Canary" PROVE asked = AllCanary \/ reset
      <4>1. a.iterations # 0 /\ a.iterations \in Nat /\ Strategy \in {"A/B", "Blue/Green"}
            /\ iterations \in Int
        BY <1>1, <3>4, CfgFacts DEF Strategy, IInv, Typed
      <4>2. Strategy = "A/B" => iterations > 0
        BY <3>1, <4>1 DEF Analysed
      <4>3. Strategy = "Blue/Green" => iterations > a.iterations
        BY <3>1, <4>1 DEF Analysed
      <4> QED BY <1>1, <4>1, <4>2, <4>3 DEF IInv, Counted
    <3> QED BY <3>3, <3>4
  <2>2. ASSUME NEW s, NEW st, NEW it, Turn(s, st, it) PROVE FALSE
    <3>1. stage' \in {st, stage} /\ st = "analysis"
      BY <1>1, <2>2 DEF Turn, Save, Saved
    <3> QED BY <1>1, <3>1
  <2>3. CASE Counting \/ Returning
    <3>1. stage' \in {"analysis", "done"}
      BY <1>1, <2>3 DEF Counting, Returning, Save, Saved
    <3> QED BY <1>1, <3>1
  <2>4. CASE \/ NextRollout \/ EditService \/ Remove \/ Observe \/ ReconcileRoutes \/ Delete \/ Revert
             \/ UNCHANGED stage
    <3>1. stage' \in {stage, "analysis", "finalizing", "finalized"}
      BY <2>4 DEF NextRollout, EditService, Remove, Observe, ReconcileRoutes, Delete, Revert
    <3> QED BY <1>1, <3>1
  <2> QED BY <1>1, <2>1, <2>2, <2>3, <2>4, Kinds
<1>2. IInv /\ [Next]_vars =>
        [ stage = "analysis" /\ stage' = "promotion" /\ ~Stale =>
            IF Strategy = "Canary" THEN asked.c >= maxWeight(a) \/ WeightIgnored
            ELSE asked = AllCanary \/ reset ]_stage
  BY <1>1
<1> QED BY <1>2, InvHolds, PTL DEF Spec, PromotedOnCanary

\* The walk's operators are those of StepWeights, and its variables what the canary's
\* service is asked for and the stage.
LEMMA WalkWeight ==
  ASSUME NEW b PROVE Walk!maxWeight(b) = maxWeight(b)
BY DEF Walk!maxWeight, maxWeight, Walk!min, min, Walk!totalWeight, totalWeight

LEMMA WalkStep ==
  ASSUME NEW b, NEW w PROVE Walk!nextStepWeight(b, w) = nextStepWeight(b, w)
<1>1. Walk!StepIndex(b, w) = StepIndex(b, w)
  BY DEF Walk!StepIndex, StepIndex
<1> QED BY <1>1 DEF Walk!nextStepWeight, nextStepWeight, Walk!min, min, Walk!totalWeight, totalWeight

LEMMA WalkSplit ==
  ASSUME NEW b, NEW s
  PROVE  /\ Walk!IncreasedSplit(b, s) = IncreasedSplit(b, s)
         /\ Walk!PromotedSplit(b, s) = PromotedSplit(b, s)
<1>1. Walk!nextStepWeight(b, s.c) = nextStepWeight(b, s.c)
  BY WalkStep
<1>2. Walk!IncreasedSplit(b, s) = IncreasedSplit(b, s)
  BY <1>1 DEF Walk!IncreasedSplit, IncreasedSplit, Walk!Split, Split, Walk!totalWeight, totalWeight,
              Walk!Decrease, Decrease, Walk!Increase, Increase
<1>3. Walk!PromotedSplit(b, s) = PromotedSplit(b, s)
  BY DEF Walk!PromotedSplit, PromotedSplit, Walk!Split, Split, Walk!Decrease, Decrease,
         Walk!Increase, Increase, Walk!totalWeight, totalWeight
<1> QED BY <1>2, <1>3

\* A step of the canary strategy is one of the walk's, leads to the primary, or is one
\* of the exceptions.
StepOfWalk ==
  Strategy = "Canary"
    => Walk!Next \/ asked' = AllPrimary \/ Stale \/ WeightIgnored
         \/ stage' \in {"finalizing", "finalized"}

LEMMA StepImplements ==
  ASSUME IInv, [Next]_vars, Strategy = "Canary", ~Stale, ~WeightIgnored,
         asked' # AllPrimary, stage' \notin {"finalizing", "finalized"},
         asked' # asked \/ stage' # stage
  PROVE  Walk!Next
<1>0. Typed /\ Asked /\ a \in Analyses
  BY CfgFacts DEF IInv, Typed
<1>1. ASSUME stage \in {"analysis", "promotion"}, pc = "step", Readable(cfg.provider, object)
      PROVE  /\ Seen.c = asked.c
             /\ cfg.provider # "knative" => Seen.p = asked.p
             /\ stage = "analysis" => Seen.p = asked.p /\ (Seen.m <=> asked.m /\ ~MirrorLost)
             /\ stage = "promotion" /\ cfg.provider = "knative" => Seen.p = Seen.c
  <2>1. Running
    BY <1>1 DEF Running
  <2>2. /\ cfg.provider # "knative" => Seen = Shown(asked)
        /\ stage = "analysis" => Seen = Shown(asked)
        /\ stage = "promotion" /\ cfg.provider = "knative" => Seen.p = Seen.c /\ Seen.c = asked.c
    BY <1>1, <2>1, Reads, SeenIs
  <2>3. /\ Shown(asked).p = asked.p /\ Shown(asked).c = asked.c
        /\ (Shown(asked).m <=> asked.m /\ ~MirrorLost)
    BY DEF WeightIgnored, Shown, Split
  <2> QED BY <1>1, <2>2, <2>3
<1>2. CASE IncreaseWeight
  <2>1. /\ stage = "analysis" /\ pc = "step" /\ Readable(cfg.provider, object)
        /\ nextStepWeight(a, Seen.c) > 0 /\ Seen.c < maxWeight(a)
        /\ asked' = IncreasedSplit(a, Seen) /\ stage' = "analysis" /\ cfg' = cfg
    BY <1>2 DEF IncreaseWeight, At, RouteAndSave, Route, Save, Saved
  <2>2. /\ Seen.c = asked.c /\ Seen.p = asked.p /\ (Seen.m <=> asked.m /\ ~MirrorLost)
    BY <1>1, <2>1
  <2>3. asked' = IncreasedSplit(a, asked)
    <3>1. CASE asked.m /\ MirrorLost
      <4>1. asked.c = 0 /\ a.mirror /\ asked \in Splits /\ asked.p + asked.c = totalWeight
        BY <1>0, <3>1 DEF Asked, Whole
      <4>2. asked = Split(totalWeight, 0, TRUE)
        BY <3>1, <4>1 DEF Splits, Split, Weights, totalWeight
      <4>3. asked' = Split(totalWeight, 0, TRUE)
        BY <2>1, <2>2, <3>1, <4>1 DEF IncreasedSplit
      <4> QED BY <2>1, <4>2, <4>3
    <3>2. CASE ~(asked.m /\ MirrorLost)
      <4>1. asked \in Splits /\ Seen \in Splits
        BY <1>0, <2>1, Reads, SeenIs DEF Typed, Running
      <4>2. Seen = asked
        BY <2>2, <3>2, <4>1 DEF Splits
      <4> QED BY <2>1, <4>2
    <3> QED BY <3>1, <3>2
  <2>4. (IF Running THEN stage ELSE "done") = "analysis" /\ (IF Running THEN stage ELSE "done")' = "analysis"
    BY <2>1 DEF Running
  <2>5. a' = a
    BY <2>1 DEF a
  <2>6. asked' = Walk!IncreasedSplit(a, asked) /\ Walk!nextStepWeight(a, asked.c) > 0 /\ asked.c < Walk!maxWeight(a)
    BY <2>1, <2>2, <2>3, WalkSplit, WalkStep, WalkWeight
  <2>7. Walk!Advance
    BY <2>4, <2>5, <2>6 DEF Walk!Advance
  <2> QED BY <2>7 DEF Walk!Next
<1>3. CASE Promote
  <2>1. /\ stage = "analysis" /\ pc = "step" /\ Readable(cfg.provider, object)
        /\ Analysed /\ asked' = asked /\ stage' \in {"promotion", "analysis"} /\ cfg' = cfg
    BY <1>3 DEF Promote, At, Save, Saved, history
  <2>2. Seen.c = asked.c
    BY <1>1, <2>1
  <2>3. nextStepWeight(a, asked.c) > 0 /\ asked.c >= maxWeight(a)
    BY <2>1, <2>2 DEF Analysed
  <2>4. stage' = "promotion" /\ (IF Running THEN stage ELSE "done") = "analysis"
        /\ (IF Running THEN stage ELSE "done")' = "promotion"
    BY <2>1 DEF Running
  <2>5. a' = a
    BY <2>1 DEF a
  <2>6. Walk!nextStepWeight(a, asked.c) > 0 /\ asked.c >= Walk!maxWeight(a)
    BY <2>3, WalkStep, WalkWeight
  <2>7. Walk!Promote
    BY <2>1, <2>4, <2>5, <2>6 DEF Walk!Promote
  <2> QED BY <2>7 DEF Walk!Next
<1>4. CASE ShiftStep
  <2> DEFINE s == PromotedSplit(a, Seen)
  <2>1. /\ stage = "promotion" /\ pc = "step" /\ Readable(cfg.provider, object)
        /\ a.stepWeightPromotion > 0 /\ Seen.c > 0 /\ cfg' = cfg /\ asked' = s
        /\ stage' \in {"promotion", "done"}
        /\ stage' = "done" => s.p = totalWeight
    BY <1>4 DEF ShiftStep, At, RouteAndSave, Route, Save, Saved
  <2>2. Whole(s) /\ ~s.m /\ s.p # totalWeight /\ s.c # 0
    BY <1>4, <2>1, AskedShift
  <2>3. Seen.c = asked.c
    BY <1>1, <2>1
  <2>4. a.stepWeightPromotion \in Nat /\ Seen.p \in Weights /\ Seen.c \in Weights
        /\ asked.p \in Weights /\ asked.p + asked.c = totalWeight
    <3>1. Seen \in Splits /\ asked \in Splits
      BY <1>0, <2>1, Reads, SeenIs DEF Typed, Running
    <3> QED BY <1>0, <3>1 DEF Splits, Asked, Whole, Analyses
  <2>5. asked.p = Seen.p
    <3>1. CASE cfg.provider # "knative"
      BY <1>1, <2>1, <3>1
    <3>2. CASE cfg.provider = "knative"
      <4> DEFINE n == a.stepWeightPromotion
      <4>1. Seen.p = Seen.c
        BY <1>1, <2>1, <3>2
      <4>2. s.p = Increase(Seen.p, n) /\ s.c = Decrease(Seen.c, n) /\ s.p + s.c = totalWeight
        BY <2>2 DEF Whole, PromotedSplit, Split
      <4> HIDE DEF n, s
      <4>3. Seen.p = Seen.c + 0 /\ Seen.p + Seen.c = totalWeight
        BY <2>2, <2>4, <4>1, <4>2 DEF n, Increase, Decrease, Weights, totalWeight
      <4> QED BY <2>3, <2>4, <4>1, <4>3 DEF Weights, totalWeight
    <3> QED BY <3>1, <3>2
  <2>6. asked' = PromotedSplit(a, asked)
    BY <2>1, <2>3, <2>5 DEF PromotedSplit
  <2>7. stage' = "promotion" /\ asked'.p # totalWeight
    BY <2>1, <2>2
  <2> HIDE DEF s
  <2>8. (IF Running THEN stage ELSE "done") = "promotion"
        /\ (IF Running THEN stage ELSE "done")' = "promotion"
    BY <2>1, <2>7 DEF Running
  <2>9. a' = a
    BY <2>1 DEF a
  <2>10. asked' = Walk!PromotedSplit(a, asked) /\ asked'.p # Walk!totalWeight
    BY <2>6, <2>7, WalkSplit DEF Walk!totalWeight, totalWeight
  <2>11. a.stepWeightPromotion # 0 /\ asked.c > 0
    BY <2>1, <2>3, <2>4
  <2>12. Walk!Shift
    BY <2>8, <2>9, <2>10, <2>11 DEF Walk!Shift
  <2> QED BY <2>12 DEF Walk!Next
<1>5. CASE RouteMatches \/ RouteAll \/ CountIteration
  BY <1>5 DEF RouteMatches, RouteAll, CountIteration
<1>6. CASE ShiftAtOnce \/ Rollback \/ Restart
  <2>1. asked' = AllPrimary
    BY <1>6 DEF ShiftAtOnce, Rollback, Restart, RouteAndSave, Route
  <2> QED BY <2>1
<1>7. CASE EndsEarly \/ NothingToShift \/ CannotRevert \/ EditService \/ Remove \/ Observe \/ UNCHANGED vars
  <2>1. asked' = asked /\ stage' = stage
    BY <1>7 DEF EndsEarly, NothingToShift, CannotRevert, EditService, Remove, Observe, vars, history
  <2> QED BY <2>1
<1>8. CASE NextRollout
  <2>1. asked' = asked /\ asked = AllPrimary
    BY <1>0, <1>8 DEF NextRollout, Asked
  <2> QED BY <2>1
<1>9. CASE Delete \/ Revert
  <2>1. stage' \in {"finalizing", "finalized"}
    BY <1>9 DEF Delete, Revert
  <2> QED BY <2>1
<1>10. CASE ReconcileRoutes
  <2>1. asked' \in {asked, AllPrimary} /\ stage' = stage
    BY <1>10, ReconcileStep DEF ReconcileRoutes
  <2> QED BY <2>1
<1> QED BY <1>2, <1>3, <1>4, <1>5, <1>6, <1>7, <1>8, <1>9, <1>10 DEF Next, Tick, User

\* With every router the split goes the way of the walk of StepWeights.
THEOREM TrafficWalks == Spec => Implements
<1>1. Init => asked = AllPrimary /\ stage = "analysis"
  BY DEF Init
<1>2. IInv /\ [Next]_vars => [StepOfWalk]_<<asked, stage>>
  BY StepImplements DEF StepOfWalk
<1>3. Spec => [][StepOfWalk]_<<asked, stage>>
  BY <1>2, InvHolds, PTL DEF Spec
<1> QED BY <1>1, <1>3, PTL DEF Spec, Implements, StepOfWalk

------------------------------------------------------------------------------
\* Session affinity: what the clients of the rollout and of the primary take.

\* A client with the rollout's cookie meets its own rule first, one with the primary's
\* cookie the rule after that; least is what the cookie is later than.
StickyRules(list, both, least) ==
  /\ {1, 2} \subseteq DOMAIN list
  /\ list[1].on = "canaryCookie" /\ list[1].p = 0 /\ list[1].c = totalWeight
  /\ list[1].cookie > least
  /\ both => list[2].on = "primaryCookie" /\ list[2].p = totalWeight /\ list[2].c = 0

\* v1beta1 of the Gateway API has no cookie of the primary.
BothCookies == cfg.affinity = "both" /\ cfg.provider # "gatewayapi:v1beta1"

\* The cookies of earlier rollouts, which count as long as no status write was lost.
Earlier == IF faults = 0 THEN past ELSE 0

\* The status has no cookie, or one of this rollout, and none between two rollouts.
Staying ==
  Live /\ cfg.affinity # "none" =>
    /\ faults = 0 /\ cookies.cookie # 0 => cookies.cookie > past /\ stage # "done"
    /\ Exists(object) /\ asked.c > 0 /\ ~reset => StickyRules(object.rules, BothCookies, Earlier)

LEMMA AffinityRulesStick ==
  ASSUME cfg \in Configs, NEW affinity \in {"canary", "both"},
         affinity = "both" <=> BothCookies,
         NEW own \in [cookie : Nat, previous : Nat], NEW w, w.c # 0,
         NEW least \in Nat, own.cookie > least
  PROVE  StickyRules(AffinityRules(affinity, own, w), BothCookies, least)
<1> DEFINE x == [Rule("canaryCookie", 0, totalWeight) EXCEPT !.cookie = own.cookie, !.mirror = w.mirror]
           y == [Rule("primaryCookie", totalWeight, 0) EXCEPT !.mirror = w.mirror]
           z == [w EXCEPT !.marks = TRUE]
           list == AffinityRules(affinity, own, w)
<1>1. /\ x.on = "canaryCookie" /\ x.p = 0 /\ x.c = totalWeight /\ x.cookie = own.cookie
      /\ y.on = "primaryCookie" /\ y.p = totalWeight /\ y.c = 0
  BY DEF Rule
<1>2. list = IF affinity = "both" THEN <<x, y, z>> ELSE <<x, z>>
  BY DEF AffinityRules
<1> HIDE DEF x, y, z
<1>3. /\ {1, 2} \subseteq DOMAIN list /\ list[1] = x
      /\ affinity = "both" => list[2] = y
  BY <1>2
<1> HIDE DEF list
<1>4. StickyRules(list, BothCookies, least)
  BY <1>1, <1>3 DEF StickyRules
<1> QED BY <1>4 DEF list

\* SetRoutes with traffic for the canary puts those rules first.
LEMMA SetSticks ==
  ASSUME cfg \in Configs, cfg.affinity # "none", NEW o \in Objects, NEW s \in Splits, s.c # 0,
         NEW own \in [cookie : Nat, previous : Nat], NEW least \in Nat, own.cookie > least
  PROVE  StickyRules(SetRoutes(cfg.provider, a, cfg.affinity, own, o, s).rules, BothCookies, least)
<1> DEFINE new == SetRoutes(cfg.provider, a, cfg.affinity, own, o, s)
<1>1. /\ cfg.affinity \in {"canary", "both"} /\ ~a.match
      /\ cfg.provider \in {"istio", "gatewayapi:v1", "gatewayapi:v1beta1"}
  BY CfgFacts DEF Gateways
<1>2. CASE cfg.provider = "istio"
  <2> DEFINE w == Rule("all", s.p, s.c)
             list == AffinityRules(cfg.affinity, own, w)
             last == [list EXCEPT ![1].mirror = s.m]
  <2>1. new = [o EXCEPT !.rules = last]
    BY <1>1, <1>2 DEF SetRoutes, IstioSetRoutes
  <2>2. StickyRules(list, BothCookies, least)
    <3>1. w.c # 0
      BY DEF Rule
    <3> HIDE DEF w
    <3>2. cfg.affinity = "both" <=> BothCookies
      BY <1>2 DEF BothCookies
    <3> QED BY <1>1, <3>1, <3>2, AffinityRulesStick
  <2>t. list[1].mirror = FALSE /\ list \in Lists
    <3>0. Weighted(w) /\ w.mirror = FALSE
      <4>1. s.p \in Weights /\ s.c \in Weights /\ "all" \in Requests
        BY DEF Splits, Requests
      <4> QED BY <4>1, PlainRuleWeighted
    <3> HIDE DEF w
    <3>1. list \in Lists /\ (\A j \in DOMAIN list : list[j].mirror = w.mirror)
      BY <1>1, <3>0, AffinityRulesAre DEF Weighs
    <3> HIDE DEF list
    <3> QED BY <2>2, <3>0, <3>1 DEF StickyRules
  <2> HIDE DEF w, list
  <2>3. StickyRules(last, BothCookies, least)
    <3>1. 1 \in DOMAIN list /\ 2 \in DOMAIN list /\ list[1] \in RuleSet
      BY <2>2, <2>t DEF StickyRules, Lists
    <3>2. /\ DOMAIN last = DOMAIN list /\ last[2] = list[2]
          /\ last[1] = [list[1] EXCEPT !.mirror = s.m]
      BY <2>t, <3>1 DEF Lists
    <3>3. last[1].on = list[1].on /\ last[1].p = list[1].p /\ last[1].c = list[1].c
          /\ last[1].cookie = list[1].cookie
      BY <3>1, <3>2 DEF RuleSet
    <3> HIDE DEF last
    <3> QED BY <2>2, <3>2, <3>3 DEF StickyRules
  <2>4. new.rules = last
    BY <2>1 DEF Objects
  <2> QED BY <2>3, <2>4
<1>3. CASE cfg.provider \in Gateways
  <2> DEFINE w == [Rule("all", s.p, s.c) EXCEPT !.mirror = s.m /\ a.iterations > 0]
             affinity == IF cfg.provider = "gatewayapi:v1" THEN cfg.affinity ELSE "canary"
             list == AffinityRules(affinity, own, w)
  <2>1. new = [o EXCEPT !.rules = list]
    <3>1. CASE cfg.provider = "gatewayapi:v1"
      BY <1>1, <3>1 DEF SetRoutes, GatewaySetRoutes, GatewayAffinityRules
    <3>2. CASE cfg.provider = "gatewayapi:v1beta1"
      BY <1>1, <3>2 DEF SetRoutes, GatewayV1Beta1SetRoutes, GatewaySetRoutes, GatewayAffinityRules
    <3> QED BY <1>3, <3>1, <3>2 DEF Gateways
  <2>2. w.c # 0
    BY DEF Rule
  <2>3. affinity \in {"canary", "both"}
        /\ (affinity = "both" <=> BothCookies)
    BY <1>1, <1>3 DEF Gateways, BothCookies
  <2> HIDE DEF w, affinity
  <2>4. StickyRules(list, BothCookies, least)
    BY <2>2, <2>3, AffinityRulesStick
  <2> HIDE DEF list
  <2>5. new.rules = list
    BY <2>1 DEF Objects
  <2> QED BY <2>4, <2>5
<1> QED BY <1>1, <1>2, <1>3 DEF Gateways

\* What a tick that moves the traffic leaves.
LEMMA RoutingSticks ==
  ASSUME IInv, NEW s, Routing(s), cfg.affinity # "none", s.c > 0,
         NEW least \in Nat, least = 0 \/ least = past,
         cookies.cookie # 0 => cookies.cookie > least
  PROVE  StickyRules(object'.rules, BothCookies, least)
<1> DEFINE own == Cookies(cookies, s.c, minted + 1)
<1>1. /\ cfg \in Configs /\ object \in Objects /\ s \in Splits /\ s.c # 0
      /\ cookies \in [cookie : 0 .. minted, previous : 0 .. minted]
      /\ minted \in Nat /\ past \in 0 .. minted
  BY DEF IInv, Typed, Routing, Whole
<1>2. own.cookie = IF cookies.cookie = 0 THEN minted + 1 ELSE cookies.cookie
  BY <1>1 DEF Cookies
<1>3. own \in [cookie : Nat, previous : Nat]
  BY <1>1 DEF Cookies
<1>4. own.cookie > least
  BY <1>1, <1>2
<1>5. object' = SetRoutes(cfg.provider, a, cfg.affinity, own, object, s)
  BY DEF Routing, Route
<1> HIDE DEF own
<1> QED BY <1>1, <1>3, <1>4, <1>5, SetSticks

LEMMA InitStaying == ASSUME Init PROVE Staying
BY DEF Init, Staying, AllPrimary, Split

LEMMA NextStaying ==
  ASSUME IInv, Staying, [Next]_vars PROVE Staying'
<1>0. /\ minted \in Nat /\ past \in 0 .. minted /\ faults \in Nat /\ past \in Nat
      /\ cookies \in [cookie : 0 .. minted, previous : 0 .. minted]
      /\ Earlier \in Nat
      /\ Live <=> stage \in {"analysis", "promotion", "done"}
  BY CfgFacts DEF IInv, Typed, Earlier, Live

\* A step that leaves the rules or the split alone.
<1>1. ASSUME cfg' = cfg, Live' => Live, cookies' = cookies \/ cookies'.cookie = 0, past' = past,
             faults' = faults \/ faults' = faults + 1, stage' = "done" => stage = "done",
             \/ object'.rules = object.rules /\ asked' = asked /\ (reset' <=> reset)
             \/ object'.rules = <<>>
             \/ reset' \/ asked'.c = 0
      PROVE  Staying'
  <2>1. /\ Earlier' \in Nat /\ Earlier' <= Earlier /\ BothCookies' = BothCookies
        /\ faults' = 0 => faults = 0
    BY <1>0, <1>1 DEF Earlier, BothCookies
  <2>2. ASSUME Live', cfg'.affinity # "none", Exists(object'), asked'.c > 0, ~reset'
        PROVE  StickyRules(object'.rules, BothCookies', Earlier')
    <3>1. object'.rules = object.rules /\ asked' = asked /\ ~reset /\ Live /\ Exists(object)
      BY <1>1, <2>2 DEF Exists
    <3>2. StickyRules(object.rules, BothCookies, Earlier)
      BY <1>1, <2>2, <3>1 DEF Staying
    <3>3. object.rules[1] \in RuleSet /\ object.rules[1].cookie \in Nat
      <4>1. object.rules \in Lists /\ 1 \in DOMAIN object.rules
        BY <3>2 DEF IInv, Typed, Objects, StickyRules
      <4>2. object.rules[1] \in RuleSet
        BY <4>1 DEF Lists
      <4> QED BY <4>2 DEF RuleSet
    <3>4. object.rules[1].cookie > Earlier'
      BY <1>0, <2>1, <3>2, <3>3 DEF StickyRules
    <3> QED BY <2>1, <3>1, <3>2, <3>4 DEF StickyRules
  <2> QED BY <1>1, <2>1, <2>2 DEF Staying, Exists
<1>2. ASSUME NEW s, Routing(s), past' = past,
             \/ /\ cookies' = Cookies(cookies, s.c, minted + 1)
                /\ faults' = faults /\ (stage' = "done" => s = AllPrimary)
             \/ cookies' = cookies /\ faults' = faults + 1
      PROVE  Staying'
  <2>1. /\ cfg' = cfg /\ asked' = s /\ s.c \in Nat /\ AllPrimary.c = 0
        /\ Live /\ BothCookies' = BothCookies
    <3>1. s.c \in Nat
      BY <1>2 DEF Routing, Whole, Splits, Weights
    <3> QED BY <1>2, <3>1, RoutingIs, PresetSplits DEF Routing, Live, Running, BothCookies
  <2>2. ASSUME cfg.affinity # "none", s.c > 0
        PROVE  StickyRules(object'.rules, BothCookies, Earlier')
    <3>1. /\ Earlier' \in Nat /\ (Earlier' = 0 \/ Earlier' = past)
          /\ cookies.cookie # 0 => cookies.cookie > Earlier'
      BY <1>0, <1>2, <2>1, <2>2 DEF Earlier, Staying
    <3> QED BY <1>2, <2>2, <3>1, RoutingSticks
  <2>3. ASSUME cfg.affinity # "none", faults' = 0, cookies'.cookie # 0
        PROVE  cookies'.cookie > past' /\ stage' # "done"
    <3>1. cookies' = Cookies(cookies, s.c, minted + 1) /\ faults = 0
          /\ (stage' = "done" => s = AllPrimary)
      BY <1>0, <1>2, <2>3
    <3>2. s.c # 0
      BY <2>3, <3>1 DEF Cookies
    <3>3. cookies'.cookie = IF cookies.cookie = 0 THEN minted + 1 ELSE cookies.cookie
      BY <1>0, <3>1, <3>2 DEF Cookies
    <3>4. cookies.cookie # 0 => cookies.cookie > past
      BY <2>1, <2>3, <3>1 DEF Staying
    <3> QED BY <1>0, <1>2, <2>1, <3>1, <3>2, <3>3, <3>4
  <2> QED BY <2>1, <2>2, <2>3 DEF Staying, Exists
<1>3. ASSUME NEW s, NEW st, NEW it, Turn(s, st, it) PROVE Staying'
  <2>1. Routing(s) /\ Save(s.c, st, it) /\ past' = past /\ s.c \in Nat
    BY <1>3 DEF Turn, Routing, Whole, Splits, Weights
  <2>2. \/ /\ cookies' = IF cfg.affinity = "none" THEN cookies ELSE Cookies(cookies, s.c, minted + 1)
           /\ faults' = faults
        \/ cookies' = cookies /\ faults' = faults + 1
    BY <2>1, SavedIs
  <2>3. stage' = "done" => s = AllPrimary
    BY <2>1 DEF Routing
  <2>4. CASE cfg.affinity # "none"
    BY <1>2, <2>1, <2>2, <2>3, <2>4
  <2>5. CASE cfg.affinity = "none"
    BY <2>1, <2>5 DEF Staying, Routing
  <2> QED BY <2>4, <2>5
<1>4. CASE Counting
  <2> DEFINE s == Split(totalWeight, 0, TRUE)
  <2>1. PICK c \in {-1, 0} : Save(c, "analysis", iterations + 1)
    BY <1>4 DEF Counting
  <2>2. /\ cfg' = cfg /\ Live /\ past' = past /\ stage' = "analysis" /\ s.c = 0
        /\ Routing(s) \/ UNCHANGED <<object, asked, reset>>
    BY <1>4, <2>1 DEF Counting, Live, Save, Saved, Split
  <2>3. cookies' = cookies \/ cookies' = Cookies(cookies, 0, minted + 1)
    BY <2>1, SavedIs
  <2>4. faults' = faults \/ faults' = faults + 1
    BY <2>1, SavedIs
  <2>5. Cookies(cookies, 0, minted + 1).cookie = 0
    BY DEF Cookies
  <2>6. asked'.c = 0 \/ UNCHANGED <<object, asked, reset>>
    BY <2>2, RoutingIs
  <2> QED BY <1>1, <2>2, <2>3, <2>4, <2>5, <2>6
<1>5. CASE Returning
  <2>1. /\ Routing(AllPrimary) /\ (Saved(0, "done", 0) \/ Saved(0, "analysis", 0))
        /\ asked' = AllPrimary /\ AllPrimary.c = 0 /\ cfg' = cfg
    BY <1>5, RoutingIs, PresetSplits DEF Returning
  <2>2. \/ /\ cookies' = IF cfg.affinity = "none" THEN cookies ELSE Cookies(cookies, 0, minted + 1)
           /\ faults' = faults
        \/ cookies' = cookies /\ faults' = faults + 1
    BY <2>1, SavedIs
  <2>3. cfg.affinity # "none" /\ faults' = 0 => cookies'.cookie = 0
    BY <1>0, <2>2 DEF Cookies
  <2> QED BY <2>1, <2>3 DEF Staying
<1>6. CASE Promote
  <2>1. /\ cfg' = cfg /\ object' = object /\ asked' = asked /\ reset' = reset /\ past' = past
        /\ stage = "analysis" /\ Save(-1, "promotion", iterations)
    BY <1>6 DEF Promote, At, history
  <2>2. cookies' = cookies /\ (faults' = faults \/ faults' = faults + 1)
        /\ stage' \in {"analysis", "promotion"}
    BY <2>1 DEF Save, Saved
  <2>3. Live
    BY <2>1 DEF Live
  <2> QED BY <1>1, <2>1, <2>2, <2>3
<1>7. CASE NextRollout
  <2>1. cfg' = cfg /\ asked' = asked /\ stage = "done" /\ cookies' = cookies /\ faults' = faults
    BY <1>7 DEF NextRollout
  <2>2. asked = AllPrimary /\ AllPrimary.c = 0 /\ Live
    BY <2>1, PresetSplits DEF IInv, Asked, Live
  <2>3. cfg.affinity # "none" => ~(faults = 0 /\ cookies.cookie # 0)
    BY <2>1, <2>2 DEF Staying
  <2> QED BY <2>1, <2>2, <2>3 DEF Staying
<1>8. CASE EditService \/ Observe \/ Remove
  <2>1. /\ cfg' = cfg /\ asked' = asked /\ reset' = reset /\ past' = past /\ cookies' = cookies
        /\ faults' = faults /\ stage' = stage
        /\ object'.rules \in {object.rules, <<>>}
    BY <1>8 DEF EditService, Observe, Remove, history, limits, Absent, Object, IInv, Typed, Objects
  <2>2. Live' => Live
    BY <2>1 DEF Live
  <2> QED BY <1>1, <2>1, <2>2
<1>9. CASE ReconcileRoutes
  <2>1. /\ cfg' = cfg /\ past' = past /\ cookies' = cookies /\ faults' = faults /\ stage' = stage
        /\ (reset' <=> (reset \/ object'.rules # object.rules))
        /\ object'.rules = object.rules => asked' = asked
    BY <1>9 DEF ReconcileRoutes, IInv, Typed, limits
  <2>2. Live' => Live
    BY <2>1 DEF Live
  <2> QED BY <1>1, <2>1, <2>2
<1>10. CASE Delete \/ Revert
  <2>1. ~Live'
    BY <1>10 DEF Delete, Revert, Live
  <2> QED BY <2>1 DEF Staying
<1>11. CASE UNCHANGED <<cfg, version, object, stage, iterations, cookies, limits, history>>
  <2>1. Live' => Live
    BY <1>11 DEF Live
  <2> QED BY <1>1, <1>11, <2>1 DEF history, limits
<1> QED BY <1>3, <1>4, <1>5, <1>6, <1>7, <1>8, <1>9, <1>10, <1>11, Kinds

LEMMA FirstIs ==
  ASSUME NEW S, S \subseteq Int, NEW k \in S, \A j \in S : k <= j
  PROVE  (CHOOSE i \in S : \A j \in S : i <= j) = k
<1> DEFINE i == CHOOSE i \in S : \A j \in S : i <= j
<1>1. i \in S /\ \A j \in S : i <= j
  OBVIOUS
<1> HIDE DEF i
<1>2. i <= k /\ k <= i /\ i \in Int /\ k \in Int
  BY <1>1
<1>3. i = k
  BY <1>2
<1> QED BY <1>3 DEF i

\* The first rule that fits a request takes it.
LEMMA TakenIs ==
  ASSUME NEW kind, NEW k, object.rules \in Lists, k \in DOMAIN object.rules,
         object.rules[k].on \in {"all", kind},
         \A j \in DOMAIN object.rules : j < k => object.rules[j].on \notin {"all", kind}
  PROVE  Taken(kind) = object.rules[k]
<1> DEFINE fits == {i \in DOMAIN object.rules : object.rules[i].on \in {"all", kind}}
<1>1. DOMAIN object.rules \subseteq Int /\ k \in Int
  BY DEF Lists
<1>2. k \in fits /\ fits \subseteq Int
  BY <1>1
<1>3. \A j \in fits : k <= j
  BY <1>1
<1> HIDE DEF fits
<1>4. (CHOOSE i \in fits : \A j \in fits : i <= j) = k
  BY <1>2, <1>3, FirstIs
<1> QED BY <1>2, <1>4 DEF Taken, fits

\* The clients of a rollout stay where their cookie says.
THEOREM AffinityHolds == Spec => []ClientsStay
<1>1. IInv /\ Staying => ClientsStay
  <2> SUFFICES ASSUME IInv, Staying, Running, Exists(object), cfg.affinity # "none", asked.c > 0, ~reset
               PROVE  /\ Gets(Taken("canaryCookie"), totalWeight)
                      /\ Taken("canaryCookie").cookie > (IF faults = 0 THEN past ELSE 0)
                      /\ cfg.affinity = "both" /\ cfg.provider # "gatewayapi:v1beta1" =>
                           Gets(Taken("primaryCookie"), 0)
    BY DEF ClientsStay
  <2> DEFINE list == object.rules
  <2>1. StickyRules(list, BothCookies, Earlier)
    BY DEF Staying, Live, Running
  <2>2. list \in Lists /\ 1 \in DOMAIN list /\ 2 \in DOMAIN list
        /\ \A j \in DOMAIN list : j \in Nat /\ ~(j < 1) /\ (j < 2 => j = 1)
    BY <2>1 DEF IInv, Typed, Objects, StickyRules, Lists
  <2>3. Taken("canaryCookie") = list[1]
    BY <2>1, <2>2, TakenIs DEF StickyRules
  <2>4. BothCookies => Taken("primaryCookie") = list[2]
    BY <2>1, <2>2, TakenIs DEF StickyRules
  <2> QED BY <2>1, <2>3, <2>4 DEF StickyRules, Gets, BothCookies, Earlier, totalWeight
<1>2. Init => Staying
  BY InitStaying
<1>3. IInv /\ Staying /\ [Next]_vars => Staying'
  BY NextStaying
<1>4. Spec => []Staying
  BY <1>2, <1>3, InvHolds, PTL DEF Spec
<1> QED BY <1>1, <1>4, InvHolds, PTL

------------------------------------------------------------------------------
\* Which rule takes the requests under analysis, and which the others.

\* The canary gets w percent of what takes the first rule for everybody or for this kind.
Share(list, kind, w) ==
  \/ \E k \in DOMAIN list :
       /\ list[k].on \in {"all", kind}
       /\ \A j \in DOMAIN list : j < k => list[j].on \notin {"all", kind}
       /\ list[k].c * totalWeight = w * (list[k].p + list[k].c)
  \/ w = 0 /\ \A j \in DOMAIN list : list[j].on \notin {"all", kind}

\* With most providers the first rule, which is the one that is read, takes the requests
\* under analysis; Skipper's takes none when the canary is shut off.
FirstTakes(provider, match, list) ==
  \/ /\ list[1].on \in {"all", "analysis"}
     /\ list[1].p + list[1].c = totalWeight
     /\ match /\ provider \in AppMeshes => list[1].on = "analysis"
  \/ /\ provider = "skipper" /\ DOMAIN list = {1}
     /\ list[1].on = "none" /\ list[1].c = 0

\* With Istio and the Gateway API it is the weighted one, or one with its weights.
WeightedTakes(list) ==
  \E k \in DOMAIN list : Weighs(list, k) /\ Share(list, "analysis", list[k].c)

ShapedRules(provider, match, list, halved) ==
  /\ IF provider \in Gateways \cup {"istio"} THEN WeightedTakes(list)
     ELSE FirstTakes(provider, match, list) \/ (provider = "traefik" /\ halved)
  /\ match /\ provider \in Matching => Share(list, "others", 0)

\* The rules of an object that Flagger wrote, whatever they weigh.
Shaped ==
  Live /\ Exists(object) /\ object.version > 0 =>
    ShapedRules(cfg.provider, a.match, object.rules, reset)

LEMMA FirstShares ==
  ASSUME NEW f \in RuleSet, NEW g, NEW list, list = <<f>> \/ list = <<f, g>>,
         NEW kind, f.on \in {"all", kind}, f.p + f.c = totalWeight \/ f.c = 0
  PROVE  Share(list, kind, f.c)
<1>1. 1 \in DOMAIN list /\ list[1] = f /\ \A j \in DOMAIN list : ~(j < 1)
  OBVIOUS
<1>2. f.c * totalWeight = f.c * (f.p + f.c)
  BY DEF totalWeight, RuleSet, Weights
<1> HIDE DEF Share
<1> QED BY <1>1, <1>2 DEF Share

LEMMA SecondShares ==
  ASSUME NEW f, NEW g \in RuleSet, NEW kind, f.on \notin {"all", kind}, g.on \in {"all", kind},
         NEW w, g.c = w, g.p + g.c = totalWeight \/ w = 0
  PROVE  Share(<<f, g>>, kind, w)
<1> DEFINE list == <<f, g>>
<1>1. 2 \in DOMAIN list /\ list[2] = g /\ list[1] = f /\ \A j \in DOMAIN list : j < 2 => j = 1
  OBVIOUS
<1>2. g.c * totalWeight = w * (g.p + g.c)
  BY DEF totalWeight, RuleSet, Weights
<1> HIDE DEF list
<1>3. Share(list, kind, w)
  BY <1>1, <1>2 DEF Share
<1> QED BY <1>3 DEF list

LEMMA NoneShares ==
  ASSUME NEW f, NEW kind, f.on \notin {"all", kind}
  PROVE  Share(<<f>>, kind, 0)
BY DEF Share

\* The two lists that most routers write: f for all requests, or for those under analysis
\* before one for the others.
LEMMA PairShares ==
  ASSUME NEW f \in RuleSet, NEW g \in RuleSet, NEW match \in BOOLEAN, NEW list,
         list = (IF match THEN <<f, g>> ELSE <<f>>),
         f.on = (IF match THEN "analysis" ELSE "all"), f.p + f.c = totalWeight,
         g.on = "all", g.c = 0
  PROVE  /\ Share(list, "analysis", f.c)
         /\ match => Share(list, "others", 0)
<1>1. Share(list, "analysis", f.c)
  BY FirstShares
<1>2. ASSUME match PROVE Share(list, "others", 0)
  BY <1>2, SecondShares
<1> QED BY <1>1, <1>2

\* The canary's share is a matter of the requests and the weights alone.
LEMMA SharesAlike ==
  ASSUME NEW list, NEW other, DOMAIN other = DOMAIN list,
         \A j \in DOMAIN list : /\ other[j].on = list[j].on
                                /\ other[j].p = list[j].p /\ other[j].c = list[j].c,
         NEW kind, NEW w, Share(list, kind, w)
  PROVE  Share(other, kind, w)
BY DEF Share

LEMMA AffinityRulesShare ==
  ASSUME NEW affinity \in {"canary", "both"}, NEW own \in [cookie : Nat, previous : Nat],
         NEW w \in RuleSet, w.on = "all", w.p + w.c = totalWeight
  PROVE  Share(AffinityRules(affinity, own, w), "analysis", w.c)
<1> DEFINE x == [Rule("canaryCookie", 0, totalWeight) EXCEPT !.cookie = own.cookie, !.mirror = w.mirror]
           y == [Rule("primaryCookie", totalWeight, 0) EXCEPT !.mirror = w.mirror]
           z == [w EXCEPT !.marks = TRUE]
           v == IF own.previous # 0
                  THEN [w EXCEPT !.on = "oldCookie", !.cookie = own.previous] ELSE w
           list == AffinityRules(affinity, own, w)
<1>1. /\ x.on = "canaryCookie" /\ y.on = "primaryCookie"
      /\ z.on = "all" /\ z.p = w.p /\ z.c = w.c
      /\ v.on \in {"all", "oldCookie"} /\ v.p = w.p /\ v.c = w.c
      /\ z \in RuleSet /\ v \in RuleSet
  BY DEF Rule, RuleSet, Requests
<1>2. list = IF w.c = 0 THEN <<v, w>> ELSE IF affinity = "both" THEN <<x, y, z>> ELSE <<x, z>>
  BY DEF AffinityRules
<1> HIDE DEF x, y, z, v, list
<1>3. ASSUME w.c = 0 PROVE Share(list, "analysis", w.c)
  <2>1. list = <<v, w>>
    BY <1>2, <1>3
  <2>2. CASE v.on = "all"
    <3>1. v.on \in {"all", "analysis"} /\ v.p + v.c = totalWeight
      BY <1>1, <2>1, <2>2
    <3>2. Share(list, "analysis", v.c)
      BY <1>1, <2>1, <3>1, FirstShares
    <3> QED BY <1>1, <3>2
  <2>3. CASE v.on = "oldCookie"
    BY <1>1, <2>1, <2>3, SecondShares
  <2> QED BY <1>1, <2>2, <2>3
<1>4. ASSUME w.c # 0 /\ affinity = "canary" PROVE Share(list, "analysis", w.c)
  <2>1. list = <<x, z>>
    BY <1>2, <1>4
  <2> QED BY <1>1, <2>1, SecondShares
<1>5. ASSUME w.c # 0 /\ affinity = "both" PROVE Share(list, "analysis", w.c)
  <2>1. list = <<x, y, z>>
    BY <1>2, <1>5
  <2>2. /\ 3 \in DOMAIN list /\ list[1] = x /\ list[2] = y /\ list[3] = z
        /\ \A j \in DOMAIN list : j < 3 => j \in {1, 2}
    BY <2>1
  <2>3. z.c * totalWeight = w.c * (z.p + z.c)
    BY <1>1 DEF totalWeight, RuleSet, Weights
  <2> QED BY <1>1, <2>2, <2>3 DEF Share
<1> QED BY <1>3, <1>4, <1>5 DEF list

\* A list whose first rule mirrors routes the same.
LEMMA MirrorsFirst ==
  ASSUME NEW list, NEW k, Weighs(list, k), NEW m \in BOOLEAN,
         NEW kind, NEW w, Share(list, kind, w)
  PROVE  LET last == [list EXCEPT ![1].mirror = m]
         IN  /\ Weighs(last, k) /\ last[k].c = list[k].c
             /\ Share(last, kind, w)
<1> DEFINE last == [list EXCEPT ![1].mirror = m]
<1>1. list \in Lists /\ 1 \in DOMAIN list /\ list[1] \in RuleSet /\ k \in DOMAIN list
  <2>1. list \in Lists /\ k \in DOMAIN list
    BY DEF Weighs
  <2>2. 1 \in DOMAIN list
    BY <2>1 DEF Lists
  <2> QED BY <2>1, <2>2 DEF Lists
<1>2. /\ DOMAIN last = DOMAIN list /\ last \in Lists
      /\ \A j \in DOMAIN list :
           /\ last[j].on = list[j].on /\ last[j].to = list[j].to
           /\ last[j].p = list[j].p /\ last[j].c = list[j].c /\ last[j].marks = list[j].marks
  <2> DEFINE first == [list[1] EXCEPT !.mirror = m]
  <2>1. /\ first \in RuleSet
        /\ first.on = list[1].on /\ first.to = list[1].to
        /\ first.p = list[1].p /\ first.c = list[1].c /\ first.marks = list[1].marks
    BY <1>1 DEF RuleSet
  <2>2. last = [list EXCEPT ![1] = first]
    BY <1>1
  <2> HIDE DEF first, last
  <2>3. /\ DOMAIN last = DOMAIN list /\ last \in Lists /\ last[1] = first
        /\ \A j \in DOMAIN list : j # 1 => last[j] = list[j]
    BY <1>1, <2>1, <2>2 DEF Lists
  <2> QED BY <2>1, <2>3
<1> HIDE DEF last
<1>3. Weighs(last, k)
  BY <1>2 DEF Weighs
<1>4. Share(last, kind, w)
  BY <1>2, SharesAlike
<1> QED BY <1>1, <1>2, <1>3, <1>4 DEF last

\* Istio and the Gateway API.
LEMMA WeighedShapes ==
  ASSUME NEW w, Weighted(w), w.p + w.c = totalWeight, NEW q \in Weights,
         NEW list, NEW match \in BOOLEAN,
         \/ /\ match /\ w.on = "analysis" /\ list = <<w, PrimaryOnly("all", q)>>
         \/ /\ ~match /\ w.on = "all"
            /\ \/ list = <<w>>
               \/ \E affinity \in {"canary", "both"}, own \in [cookie : Nat, previous : Nat] :
                    list = AffinityRules(affinity, own, w)
  PROVE  /\ \E k \in DOMAIN list : Weighs(list, k) /\ Share(list, "analysis", list[k].c)
         /\ match => Share(list, "others", 0)
<1> DEFINE g == PrimaryOnly("all", q)
<1>1. w \in RuleSet /\ g \in RuleSet /\ g.on = "all" /\ g.c = 0
  <2>1. "all" \in Requests
    BY DEF Requests
  <2> QED BY <2>1, RuleTypes DEF Weighted, PrimaryOnly, Rule
<1> HIDE DEF g
<1>2. CASE match
  <2>1. list = <<w, g>> /\ w.on = "analysis"
    BY <1>2 DEF g
  <2>2. Weighs(list, 1) /\ list[1] = w
    BY <2>1, RulesAre DEF g
  <2>3. Share(list, "analysis", w.c) /\ Share(list, "others", 0)
    BY <1>1, <1>2, <2>1, PairShares
  <2>4. 1 \in DOMAIN list
    BY <2>2 DEF Weighs
  <2> QED BY <2>2, <2>3, <2>4
<1>3. CASE ~match /\ list = <<w>>
  <2>2. Weighs(list, 1) /\ list[1] = w
    BY <1>3, RulesAre
  <2>3. Share(list, "analysis", w.c)
    BY <1>1, <1>3, PairShares
  <2>4. 1 \in DOMAIN list
    BY <2>2 DEF Weighs
  <2> QED BY <1>3, <2>2, <2>3, <2>4
<1>4. ASSUME ~match, NEW affinity \in {"canary", "both"}, NEW own \in [cookie : Nat, previous : Nat],
             list = AffinityRules(affinity, own, w)
      PROVE  \E k \in DOMAIN list : Weighs(list, k) /\ Share(list, "analysis", list[k].c)
  <2> DEFINE n == Len(list)
  <2>1. Weighs(list, n) /\ list[n].c = w.c
    BY <1>4, AffinityRulesAre
  <2>2. Share(list, "analysis", w.c)
    <3>1. w.on = "all"
      BY <1>4
    <3> QED BY <1>1, <1>4, <3>1, AffinityRulesShare
  <2>3. n \in DOMAIN list
    BY <2>1 DEF Weighs
  <2> QED BY <2>1, <2>2, <2>3
<1> QED BY <1>2, <1>3, <1>4

\* The other routers write one rule, or two.
LEMMA FirstShapes ==
  ASSUME NEW f \in RuleSet, NEW g \in RuleSet, g.on = "all", g.c = 0,
         NEW list, list = <<f>> \/ list = <<f, g>>,
         NEW provider, provider \notin Gateways \cup {"istio"}, NEW match, NEW halved,
         \/ f.on \in {"all", "analysis"} /\ f.p + f.c = totalWeight
         \/ provider = "skipper" /\ list = <<f>> /\ f.on = "none" /\ f.c = 0,
         match /\ provider \in Matching => f.on # "all" \/ f.c = 0,
         match /\ provider \in AppMeshes => f.on = "analysis"
  PROVE  ShapedRules(provider, match, list, halved)
<1>1. list[1] = f /\ (list = <<f>> => DOMAIN list = {1})
  OBVIOUS
<1>2. FirstTakes(provider, match, list)
  BY <1>1 DEF FirstTakes
<1>3. ASSUME match, provider \in Matching PROVE Share(list, "others", 0)
  <2>1. provider # "skipper"
    BY <1>3 DEF Matching, Gateways, AppMeshes
  <2>2. CASE f.on = "all"
    <3>1. f.c = 0
      BY <1>3, <2>2
    <3>2. Share(list, "others", f.c)
      BY <2>2, <3>1, FirstShares
    <3> QED BY <3>1, <3>2
  <2>3. CASE f.on = "analysis" /\ list = <<f>>
    BY <2>3, NoneShares
  <2>4. CASE f.on = "analysis" /\ list = <<f, g>>
    BY <2>4, SecondShares
  <2> QED BY <2>1, <2>2, <2>3, <2>4
<1> QED BY <1>2, <1>3 DEF ShapedRules

\* SetRoutes keeps the shape.
LEMMA SetShapes ==
  ASSUME cfg \in Configs, NEW o \in Objects, Exists(o), NEW s \in Splits,
         s.p + s.c = totalWeight, NEW own \in [cookie : Nat, previous : Nat],
         NEW halved, ShapedRules(cfg.provider, a.match, o.rules, halved)
  PROVE  ShapedRules(cfg.provider, a.match, SetRoutes(cfg.provider, a, cfg.affinity, own, o, s).rules, FALSE)
<1> DEFINE provider == cfg.provider
           match == a.match
           new == SetRoutes(provider, a, cfg.affinity, own, o, s)
           plain == Rule("all", s.p, s.c)
           rest == Rule("all", totalWeight, 0)
           Goal == ShapedRules(provider, match, new.rules, FALSE)
<1>0. /\ s.p \in Weights /\ s.c \in Weights /\ s.m \in BOOLEAN /\ match \in BOOLEAN
      /\ "all" \in Requests /\ "analysis" \in Requests /\ "none" \in Requests
      /\ 0 \in Weights /\ totalWeight \in Weights
      /\ totalWeight - s.c = s.p
  BY CfgFacts DEF Splits, Requests, Weights, totalWeight
<1>w. \A r \in Requests :
        LET x == Rule(r, s.p, s.c)
        IN  Weighted(x) /\ x \in RuleSet /\ x.on = r /\ x.p = s.p /\ x.c = s.c
  <2> SUFFICES ASSUME NEW r \in Requests
               PROVE  LET x == Rule(r, s.p, s.c)
                      IN  Weighted(x) /\ x \in RuleSet /\ x.on = r /\ x.p = s.p /\ x.c = s.c
    OBVIOUS
  <2>1. Weighted(Rule(r, s.p, s.c))
    BY <1>0, PlainRuleWeighted
  <2> QED BY <2>1 DEF Weighted, Rule
<1>g. rest \in RuleSet /\ rest.on = "all" /\ rest.p = totalWeight /\ rest.c = 0
  BY <1>0, PlainRuleWeighted DEF Rule, Weighted
<1>r. \A rules : new = [o EXCEPT !.rules = rules] => new.rules = rules
  BY DEF Objects
<1>1. ASSUME provider = "istio" PROVE Goal
  <2> DEFINE Good(list) == /\ \E k \in DOMAIN list : Weighs(list, k) /\ Share(list, "analysis", list[k].c)
                           /\ match => Share(list, "others", 0)
  <2>1. ASSUME match PROVE Goal
    <3> DEFINE w == Rule("analysis", s.p, s.c)
               list == <<w, PrimaryOnly("all", s.p)>>
    <3>1. new = [o EXCEPT !.rules = list]
      BY <1>1, <2>1 DEF SetRoutes, IstioSetRoutes, IstioRules
    <3>2. Weighted(w) /\ w.on = "analysis" /\ w.p = s.p /\ w.c = s.c
      BY <1>0, <1>w
    <3> HIDE DEF w
    <3>3. Good(list)
      BY <1>0, <2>1, <3>2, WeighedShapes
    <3> HIDE DEF list, new
    <3>4. new.rules = list
      BY <1>r, <3>1
    <3> HIDE DEF Good
    <3> QED BY <1>1, <3>3, <3>4 DEF ShapedRules, WeightedTakes, Good
  <2>2. ASSUME ~match PROVE Goal
    <3> DEFINE list == IF cfg.affinity = "none" THEN <<plain>> ELSE AffinityRules(cfg.affinity, own, plain)
               last == [list EXCEPT ![1].mirror = s.m]
    <3>1. new = [o EXCEPT !.rules = last]
      BY <1>1, <2>2 DEF SetRoutes, IstioSetRoutes
    <3>2. Weighted(plain) /\ plain.on = "all" /\ plain.p = s.p /\ plain.c = s.c
      BY <1>0, <1>w
    <3>3. cfg.affinity \in {"none", "canary", "both"}
      BY CfgFacts
    <3> HIDE DEF plain
    <3>4. \/ list = <<plain>>
          \/ \E affinity \in {"canary", "both"}, x \in [cookie : Nat, previous : Nat] :
               list = AffinityRules(affinity, x, plain)
      BY <3>3
    <3> HIDE DEF list
    <3>5. \E k \in DOMAIN list : Weighs(list, k) /\ Share(list, "analysis", list[k].c)
      BY <1>0, <2>2, <3>2, <3>4, WeighedShapes
    <3>6. PICK k \in DOMAIN list : Weighs(list, k) /\ Share(list, "analysis", list[k].c)
      BY <3>5
    <3>7. Weighs(last, k) /\ last[k].c = list[k].c /\ Share(last, "analysis", list[k].c)
      BY <1>0, <3>6, MirrorsFirst
    <3> HIDE DEF last, new
    <3>8. new.rules = last /\ k \in DOMAIN last
      BY <1>r, <3>1, <3>7 DEF Weighs
    <3> QED BY <1>1, <2>2, <3>7, <3>8 DEF ShapedRules, WeightedTakes
  <2> QED BY <1>0, <2>1, <2>2
<1>2. ASSUME provider \in Gateways PROVE Goal
  <2> DEFINE m == s.m /\ a.iterations > 0
             w == [plain EXCEPT !.mirror = m]
             v == IF match THEN [w EXCEPT !.on = "analysis"] ELSE w
  <2>1. PICK affinity \in {"none", "canary", "both"} : new = GatewaySetRoutes(a, affinity, own, o, s)
    <3>1. cfg.affinity \in {"none", "canary", "both"}
      BY CfgFacts
    <3>2. CASE provider = "gatewayapi:v1"
      BY <3>1, <3>2 DEF SetRoutes
    <3>3. CASE provider = "gatewayapi:v1beta1"
      BY <3>1, <3>3 DEF SetRoutes, GatewayV1Beta1SetRoutes
    <3> QED BY <1>2, <3>2, <3>3 DEF Gateways
  <2> DEFINE list == IF match THEN <<v, PrimaryOnly("all", totalWeight)>>
                     ELSE IF affinity = "none" THEN <<v>> ELSE AffinityRules(affinity, own, v)
  <2>2. new = [o EXCEPT !.rules = list]
    BY <2>1 DEF GatewaySetRoutes, GatewayAffinityRules
  <2>3. Weighted(v) /\ v.on = (IF match THEN "analysis" ELSE "all") /\ v.p = s.p /\ v.c = s.c
    <3>1. Weighted(plain) /\ plain.on = "all" /\ plain.p = s.p /\ plain.c = s.c /\ m \in BOOLEAN
      BY <1>0, <1>w
    <3> HIDE DEF m, plain
    <3>2. Weighted(w) /\ w.on = "all" /\ w.p = s.p /\ w.c = s.c
      BY <3>1 DEF Weighted, RuleSet
    <3> HIDE DEF w
    <3> QED BY <1>0, <3>2 DEF Weighted, RuleSet
  <2> HIDE DEF v
  <2>4. \/ match /\ list = <<v, PrimaryOnly("all", totalWeight)>>
        \/ ~match /\ \/ list = <<v>>
                     \/ \E f \in {"canary", "both"}, x \in [cookie : Nat, previous : Nat] :
                          list = AffinityRules(f, x, v)
    BY <1>0, <2>1
  <2> HIDE DEF list, new
  <2>5. /\ \E k \in DOMAIN list : Weighs(list, k) /\ Share(list, "analysis", list[k].c)
        /\ match => Share(list, "others", 0)
    <3>1. v.p + v.c = totalWeight
      BY <2>3
    <3> QED BY <1>0, <2>3, <2>4, <3>1, WeighedShapes
  <2>6. new.rules = list
    BY <1>r, <2>2
  <2> QED BY <1>2, <2>5, <2>6 DEF ShapedRules, WeightedTakes

\* The others write one rule, or two.
<1>3. ASSUME provider \in AppMeshes \cup {"apisix"} PROVE Goal
  <2> DEFINE old == o.rules
             first == [old[1] EXCEPT !.p = s.p, !.c = s.c]
             list == [old EXCEPT ![1] = first]
  <2>1. old \in Lists /\ 1 \in DOMAIN old
    BY DEF Exists, Objects, Lists
  <2>2. old[1] \in RuleSet
    BY <2>1 DEF Lists
  <2>3. first.on = old[1].on /\ first.p = s.p /\ first.c = s.c
    BY <2>2 DEF RuleSet
  <2>4. new = [o EXCEPT !.rules = list]
    BY <1>3, <2>1, <2>2 DEF SetRoutes, AppMeshes, AppMeshV1Beta2SetRoutes, ApisixSetRoutes,
       AppMeshSetRoutes, Objects, RuleSet
  <2> HIDE DEF first
  <2>5. /\ DOMAIN list = DOMAIN old /\ list[1] = first
        /\ \A j \in DOMAIN old : j # 1 => list[j] = old[j]
    BY <2>1 DEF Lists
  <2>6. FirstTakes(provider, match, old) /\ (match /\ provider \in Matching => Share(old, "others", 0))
        /\ provider \notin Gateways \cup {"istio", "skipper", "traefik"}
    BY <1>3 DEF ShapedRules, Gateways, AppMeshes
  <2> HIDE DEF old, list, new
  <2>7. FirstTakes(provider, match, list)
    BY <2>3, <2>5, <2>6 DEF FirstTakes
  <2>8. ASSUME match, provider \in Matching PROVE Share(list, "others", 0)
    <3>1. provider \in AppMeshes
      BY <1>3, <2>8 DEF Matching, Gateways
    <3>2. old[1].on = "analysis"
      BY <2>6, <2>8, <3>1 DEF FirstTakes
    <3> QED BY <2>3, <2>5, <2>6, <2>8, <3>2 DEF Share
  <2>9. new.rules = list
    BY <1>r, <2>4
  <2> QED BY <2>6, <2>7, <2>8, <2>9 DEF ShapedRules
<1>s. ASSUME NEW f \in RuleSet, NEW list, list = <<f>> \/ list = <<f, rest>>, new = [o EXCEPT !.rules = list],
             provider \notin AppMeshes \cup Gateways \cup {"istio"},
             \/ f.on \in {"all", "analysis"} /\ f.p + f.c = totalWeight
             \/ provider = "skipper" /\ list = <<f>> /\ f.on = "none" /\ f.c = 0,
             match /\ provider \in Matching => f.on # "all" \/ f.c = 0
      PROVE  Goal
  <2>1. new.rules = list
    BY <1>r, <1>s
  <2> HIDE DEF new, rest
  <2>2. ShapedRules(provider, match, list, FALSE)
    BY <1>g, <1>s, FirstShapes
  <2> QED BY <2>1, <2>2
<1>4. ASSUME provider \in {"contour", "gloo"} PROVE Goal
  <2> DEFINE f == Rule(IF match THEN "analysis" ELSE "all", s.p, s.c)
  <2>1. PICK list : (list = <<f>> \/ list = <<f, rest>>) /\ new = [o EXCEPT !.rules = list]
    BY <1>0, <1>4 DEF SetRoutes, ContourSetRoutes, ContourRules, GlooSetRoutes, GlooRules
  <2>2. f \in RuleSet /\ f.on = (IF match THEN "analysis" ELSE "all") /\ f.p + f.c = totalWeight
    BY <1>0, <1>w
  <2> HIDE DEF f, new, rest, Goal
  <2>3. provider \notin AppMeshes \cup Gateways \cup {"istio"}
    BY <1>4 DEF AppMeshes, Gateways
  <2> QED BY <1>0, <1>s, <2>1, <2>2, <2>3 DEF new
<1>5. ASSUME provider \in SMIs \cup {"kuma", "knative"} PROVE Goal
  <2>1. new = [o EXCEPT !.rules = <<plain>>]
    BY <1>5 DEF SetRoutes, SMIs, SmiSetRoutes, SmiV1Alpha2SetRoutes, SmiV1Alpha3SetRoutes,
       KumaSetRoutes, KnativeSetRoutes
  <2>2. plain \in RuleSet /\ plain.on = "all" /\ plain.p + plain.c = totalWeight
    BY <1>0, <1>w
  <2>3. provider \notin AppMeshes \cup Gateways \cup {"istio"} /\ provider \notin Matching
    BY <1>5 DEF AppMeshes, Gateways, SMIs, Matching
  <2> HIDE DEF plain, rest, Goal
  <2> QED BY <1>s, <2>1, <2>2, <2>3
<1>6. ASSUME provider \in {"traefik", "skipper"} PROVE Goal
  <2> DEFINE off == Rule("none", s.p, s.c)
             alone == PrimaryOnly("all", s.p)
             f == IF provider = "skipper" THEN IF s.c = 0 THEN off ELSE plain
                  ELSE IF s.c > 0 THEN plain ELSE alone
  <2>1. new = [o EXCEPT !.rules = <<f>>]
    BY <1>6 DEF SetRoutes, TraefikSetRoutes, SkipperSetRoutes
  <2>2. /\ off \in RuleSet /\ off.on = "none" /\ off.c = s.c
        /\ plain \in RuleSet /\ plain.on = "all" /\ plain.p + plain.c = totalWeight
        /\ alone \in RuleSet /\ alone.on = "all" /\ alone.p = s.p /\ alone.c = 0
    <3>1. alone \in RuleSet /\ alone.on = "all" /\ alone.p = s.p /\ alone.c = 0
      BY <1>0, RuleTypes DEF PrimaryOnly, Rule
    <3> QED BY <1>0, <1>w, <3>1
  <2>3. provider \notin AppMeshes \cup Gateways \cup {"istio"} /\ provider \notin Matching
    BY <1>6 DEF AppMeshes, Gateways, Matching
  <2> HIDE DEF plain, off, alone, rest, Goal
  <2>4. f \in RuleSet
    BY <2>2
  <2>5. \/ f.on \in {"all", "analysis"} /\ f.p + f.c = totalWeight
        \/ provider = "skipper" /\ f.on = "none" /\ f.c = 0
    BY <1>0, <1>6, <2>2 DEF Weights, totalWeight
  <2> HIDE DEF f
  <2> QED BY <1>s, <2>1, <2>3, <2>4, <2>5
<1>7. ASSUME provider = "nginx" PROVE Goal
  <2> DEFINE always == Rule("analysis", 0, totalWeight)
             f == IF match /\ s.c > 0 THEN always ELSE plain
             list == IF match /\ s.c > 0 THEN <<always, rest>> ELSE <<plain>>
  <2>1. new = [o EXCEPT !.rules = list]
    BY <1>0, <1>7 DEF SetRoutes, NginxSetRoutes
  <2>2. /\ always \in RuleSet /\ always.on = "analysis" /\ always.p + always.c = totalWeight
        /\ plain \in RuleSet /\ plain.on = "all" /\ plain.p + plain.c = totalWeight /\ plain.c = s.c
    <3>1. always \in RuleSet /\ always.on = "analysis" /\ always.p + always.c = totalWeight
      BY <1>0, RuleTypes DEF Rule, totalWeight
    <3> QED BY <1>0, <1>w, <3>1
  <2>3. provider \notin AppMeshes \cup Gateways \cup {"istio"}
    BY <1>7 DEF AppMeshes, Gateways
  <2> HIDE DEF plain, always, rest, Goal
  <2>4. f \in RuleSet /\ f.on \in {"all", "analysis"} /\ f.p + f.c = totalWeight
        /\ (list = <<f>> \/ list = <<f, rest>>)
        /\ (match => f.on # "all" \/ f.c = 0)
    BY <1>0, <2>2 DEF Weights
  <2> HIDE DEF f, list
  <2> QED BY <1>s, <2>1, <2>3, <2>4
<1> HIDE DEF Goal
<1>8. Goal
  BY <1>1, <1>2, <1>3, <1>4, <1>5, <1>6, <1>7, CfgFacts DEF Providers, Lagging, Gateways, AppMeshes, SMIs
<1> QED BY <1>8 DEF Goal

\* Reconcile leaves the rules, or writes others of the same shape.
LEMMA ReconcileShapes ==
  ASSUME cfg \in Configs, NEW o \in Objects, NEW ver \in Nat, ver > 0, NEW analysing \in BOOLEAN,
         o.version > 0 => Exists(o),
         Exists(o) /\ o.version = 0 => cfg.provider = "istio",
         cfg.provider = "knative" => o.version > 0,
         NEW halved, o.version > 0 => ShapedRules(cfg.provider, a.match, o.rules, halved)
  PROVE  LET new == Reconcile(cfg.provider, a, o, ver, analysing)
         IN  \/ new.rules = o.rules /\ o.version > 0
             \/ ShapedRules(cfg.provider, a.match, new.rules, TRUE)
<1> DEFINE provider == cfg.provider
           match == a.match
           new == Reconcile(provider, a, o, ver, analysing)
           plain == Rule("all", totalWeight, 0)
           analysed == Rule("analysis", totalWeight, 0)
           others == PrimaryOnly("all", totalWeight)
           Goal == \/ new.rules = o.rules /\ o.version > 0
                   \/ ShapedRules(provider, match, new.rules, TRUE)
<1>0. /\ "all" \in Requests /\ "analysis" \in Requests /\ match \in BOOLEAN
      /\ 0 \in Weights /\ totalWeight \in Weights
  BY CfgFacts DEF Requests, Weights, totalWeight
<1>w. /\ Weighted(plain) /\ plain.p = totalWeight /\ plain.c = 0 /\ plain.p + plain.c = totalWeight
      /\ plain \in RuleSet /\ plain.on = "all"
      /\ Weighted(analysed) /\ analysed.p + analysed.c = totalWeight
      /\ analysed \in RuleSet /\ analysed.on = "analysis"
      /\ others \in RuleSet /\ others.on = "all" /\ others.c = 0 /\ others.p + others.c = totalWeight
  BY <1>0, PlainRuleWeighted, RuleTypes DEF Weighted, Rule, PrimaryOnly, totalWeight

\* A declaration of rules of that shape.
<1>d. ASSUME NEW rules \in Lists, rules # <<>>, ShapedRules(provider, match, rules, TRUE),
             \/ new = Declare(o, ver, rules) \/ new.rules = Declare(o, ver, rules).rules
             \/ new = [o EXCEPT !.rules = rules, !.version = ver]
      PROVE  Goal
  <2>1. \/ Declare(o, ver, rules).rules = rules
        \/ Declare(o, ver, rules).rules = o.rules /\ o.version = ver
    BY <1>d, DeclareIs
  <2>2. [o EXCEPT !.rules = rules, !.version = ver].rules = rules
    BY DEF Objects
  <2> HIDE DEF new
  <2>3. new.rules = rules \/ (new.rules = o.rules /\ o.version = ver)
    BY <1>d, <2>1, <2>2
  <2> QED BY <1>d, <2>3
<1>l. \A f \in RuleSet, g \in RuleSet :
        LET one == <<f>>
            two == <<f, g>>
        IN  one \in Lists /\ one # <<>> /\ two \in Lists /\ two # <<>>
  BY DEF Lists
<1>1. ASSUME provider \in Gateways \cup {"istio"} PROVE Goal
  <2> DEFINE w == IF match THEN analysed ELSE plain
             rules == IF match THEN <<w, others>> ELSE <<w>>
  <2>1. \/ new = Declare(o, ver, rules) \/ new.rules = Declare(o, ver, rules).rules
        \/ new = [o EXCEPT !.rules = rules, !.version = ver]
    <3>1. CASE provider = "istio"
      <4>1. new = IstioReconcile(a, o, ver)
        BY <3>1 DEF Reconcile
      <4>2. IstioRules(a, totalWeight, 0) = rules
        BY DEF IstioRules
      <4> DEFINE declared == Declare(o, ver, rules)
      <4>3. new = declared \/ new = [declared EXCEPT !.original = o.rules]
        BY <4>1, <4>2 DEF IstioReconcile
      <4>4. [declared EXCEPT !.original = o.rules].rules = declared.rules
        <5>1. rules \in Lists /\ rules # <<>>
          BY <1>w, <1>l
        <5> HIDE DEF rules
        <5>2. declared \in Objects
          BY <5>1, DeclareIs
        <5> QED BY <5>2 DEF Objects
      <4> HIDE DEF declared, new
      <4> QED BY <4>3, <4>4 DEF declared
    <3>2. CASE provider \in Gateways
      <4>1. GatewayRules(a, totalWeight, 0) = rules
        BY DEF GatewayRules
      <4> QED BY <3>2, <4>1 DEF Reconcile, Gateways, GatewayReconcile, GatewayV1Beta1Reconcile
    <3> QED BY <1>1, <3>1, <3>2
  <2>2. rules \in Lists /\ rules # <<>>
    BY <1>w, <1>l
  <2>3. Weighted(w) /\ w.p + w.c = totalWeight /\ w.on = (IF match THEN "analysis" ELSE "all")
    BY <1>w
  <2> HIDE DEF w, new
  <2>4. /\ \E k \in DOMAIN rules : Weighs(rules, k) /\ Share(rules, "analysis", rules[k].c)
        /\ match => Share(rules, "others", 0)
    <3>1. \/ match /\ w.on = "analysis" /\ rules = <<w, PrimaryOnly("all", totalWeight)>>
          \/ ~match /\ w.on = "all" /\ rules = <<w>>
      BY <1>0, <2>3
    <3> HIDE DEF rules
    <3> QED BY <1>0, <2>3, <3>1, WeighedShapes
  <2> HIDE DEF rules
  <2>5. ShapedRules(provider, match, rules, TRUE)
    BY <1>1, <2>4 DEF ShapedRules, WeightedTakes
  <2> HIDE DEF Goal
  <2> QED BY <1>d, <2>1, <2>2, <2>5 DEF new
<1>s. ASSUME provider \notin Gateways \cup {"istio"}, NEW f \in RuleSet, NEW g \in {plain, others},
             NEW rules, rules = <<f>> \/ rules = <<f, g>>, new = Declare(o, ver, rules),
             f.on \in {"all", "analysis"} /\ (f.p + f.c = totalWeight \/ provider = "traefik"),
             match /\ provider \in Matching => f.on # "all" \/ f.c = 0,
             match /\ provider \in AppMeshes => f.on = "analysis"
      PROVE  Goal
  <2>1. rules \in Lists /\ rules # <<>> /\ g \in RuleSet /\ g.on = "all" /\ g.c = 0
    BY <1>l, <1>s, <1>w
  <2>2. ShapedRules(provider, match, rules, TRUE)
    <3>1. CASE provider = "traefik"
      BY <1>s, <3>1 DEF ShapedRules, Matching, AppMeshes, Gateways
    <3>2. CASE provider # "traefik"
      <4> HIDE DEF plain, others, new
      <4> QED BY <1>s, <2>1, <3>2, FirstShapes
    <3> QED BY <3>1, <3>2
  <2> HIDE DEF Goal
  <2> QED BY <1>d, <1>s, <2>1, <2>2
<1>2. ASSUME provider \in AppMeshes PROVE Goal
  <2> DEFINE p == IF Exists(o) THEN o.rules[1].p ELSE totalWeight
             c == IF Exists(o) THEN o.rules[1].c ELSE 0
             f == Rule(IF match THEN "analysis" ELSE "all", p, c)
             rules == AppMeshRules(a, p, c)
  <2>1. new = Declare(o, ver, rules)
    BY <1>2 DEF Reconcile, AppMeshes, AppMeshV1Beta2Reconcile, AppMeshReconcile
  <2>2. p \in Weights /\ c \in Weights /\ p + c = totalWeight
    <3>1. CASE Exists(o)
      <4>1. provider # "istio" /\ provider # "skipper" /\ provider # "traefik" /\ provider \notin Gateways
        BY <1>2 DEF AppMeshes, Gateways
      <4>2. o.version > 0
        BY <3>1, <4>1 DEF Objects
      <4>3. o.rules[1].p + o.rules[1].c = totalWeight
        BY <4>1, <4>2 DEF ShapedRules, FirstTakes
      <4>4. o.rules \in Lists /\ 1 \in DOMAIN o.rules
        BY <3>1 DEF Exists, Objects, Lists
      <4>5. o.rules[1] \in RuleSet
        BY <4>4 DEF Lists
      <4> QED BY <3>1, <4>3, <4>5 DEF RuleSet
    <3>2. CASE ~Exists(o)
      BY <1>0, <3>2 DEF totalWeight
    <3> QED BY <3>1, <3>2
  <2> HIDE DEF p, c
  <2>3. f \in RuleSet /\ f.on = (IF match THEN "analysis" ELSE "all") /\ f.p + f.c = totalWeight
    BY <1>0, <2>2, RuleTypes DEF Rule
  <2>4. rules = <<f>> \/ rules = <<f, others>>
    BY DEF AppMeshRules
  <2>5. provider \notin Gateways \cup {"istio"}
    BY <1>2 DEF AppMeshes, Gateways
  <2> HIDE DEF f, rules, plain, others, Goal, new
  <2> QED BY <1>s, <2>1, <2>3, <2>4, <2>5
<1>3. ASSUME provider \in {"contour", "gloo"} PROVE Goal
  <2> DEFINE f == IF match THEN analysed ELSE plain
             rules == IF provider = "contour" THEN ContourRules(a, totalWeight, 0)
                      ELSE GlooRules(a, totalWeight, 0)
  <2>1. new = Declare(o, ver, rules)
    BY <1>3 DEF Reconcile, ContourReconcile, GlooReconcile
  <2>2. rules = <<f>> \/ rules = <<f, plain>>
    BY DEF ContourRules, GlooRules
  <2>3. f \in RuleSet /\ f.on \in {"all", "analysis"} /\ f.p + f.c = totalWeight
        /\ (match => f.on = "analysis")
    BY <1>w
  <2>4. provider \notin Gateways \cup {"istio"}
    BY <1>3 DEF Gateways
  <2> HIDE DEF f, rules, plain, others, analysed, Goal, new
  <2> QED BY <1>s, <2>1, <2>2, <2>3, <2>4
<1>4. ASSUME provider \in SMIs \cup {"kuma", "apisix", "nginx", "skipper"} PROVE Goal
  <2> DEFINE rules == <<plain>>
  <2>1. new = Declare(o, ver, rules) \/ (new.rules = o.rules /\ o.version > 0)
    <3>1. CASE provider \in SMIs \cup {"kuma", "apisix"}
      BY <3>1 DEF Reconcile, SMIs, SmiReconcile, SmiV1Alpha2Reconcile, SmiV1Alpha3Reconcile,
         KumaReconcile, ApisixReconcile
    <3>2. CASE provider = "nginx"
      <4>1. new = NginxReconcile(o, ver)
        BY <3>2 DEF Reconcile
      <4>2. Exists(o) => o.version > 0
        BY <3>2 DEF Objects
      <4>3. [o EXCEPT !.version = ver].rules = o.rules
        BY DEF Objects
      <4> QED BY <4>1, <4>2, <4>3 DEF NginxReconcile
    <3>3. CASE provider = "skipper"
      <4>1. new = SkipperReconcile(o, ver)
        BY <3>3 DEF Reconcile
      <4> QED BY <4>1 DEF SkipperReconcile
    <3> QED BY <1>4, <3>1, <3>2, <3>3
  <2>2. provider \notin Gateways \cup AppMeshes \cup {"istio"}
    BY <1>4 DEF Gateways, AppMeshes, SMIs
  <2>3. CASE new = Declare(o, ver, rules)
    <3> HIDE DEF plain, others, Goal, new
    <3> QED BY <1>s, <1>w, <2>2, <2>3
  <2> HIDE DEF new
  <2> QED BY <2>1, <2>3
<1>5. ASSUME provider = "traefik" PROVE Goal
  <2> DEFINE f == IF Exists(o) /\ o.rules[1].to = {"primary", "canary"}
                    THEN Rule("all", totalWeight, totalWeight) ELSE PrimaryOnly("all", totalWeight)
  <2>1. new = Declare(o, ver, <<f>>)
    BY <1>5 DEF Reconcile, TraefikReconcile
  <2>2. f \in RuleSet /\ f.on = "all"
    BY <1>0, RuleTypes DEF Rule, PrimaryOnly
  <2>3. provider \notin Gateways \cup AppMeshes \cup Matching \cup {"istio"}
    BY <1>5 DEF Gateways, AppMeshes, Matching
  <2> HIDE DEF f, plain, others, Goal, new
  <2> QED BY <1>5, <1>s, <2>1, <2>2, <2>3
<1>6. ASSUME provider = "knative" PROVE Goal
  <2>1. new = KnativeReconcile(o, ver)
    BY <1>6 DEF Reconcile
  <2>2. new = o
    BY <1>6, <2>1 DEF KnativeReconcile
  <2> HIDE DEF new
  <2> QED BY <1>6, <2>2
<1> HIDE DEF Goal
<1>7. Goal
  BY <1>1, <1>2, <1>3, <1>4, <1>5, <1>6, CfgFacts DEF Providers, Lagging, Gateways, AppMeshes, SMIs
<1> QED BY <1>7 DEF Goal

LEMMA InitShaped == ASSUME Init, IInv PROVE Shaped
<1>1. CASE cfg.provider = "knative"
  <2> DEFINE f == Rule("all", totalWeight, 0)
  <2>1. object.rules = <<f>>
    <3>1. object = [KnativeInitialize(Absent, 1) EXCEPT !.observed = <<1, <<Rule("all", 100, 0)>>>>]
      BY <1>1 DEF Init
    <3>2. KnativeInitialize(Absent, 1) = [Absent EXCEPT !.rules = <<f>>, !.version = 1]
      BY DEF KnativeInitialize, Declare, Exists, Absent, Object
    <3> QED BY <3>1, <3>2 DEF Absent, Object
  <2>2. f \in RuleSet /\ f.on = "all" /\ f.p + f.c = totalWeight /\ f.c = 0
    <3>1. "all" \in Requests /\ 0 \in Weights /\ totalWeight \in Weights
      BY DEF Requests, Weights, totalWeight
    <3> QED BY <3>1, RuleTypes DEF Rule, totalWeight
  <2>3. cfg.provider \notin Gateways \cup AppMeshes \cup Matching \cup {"istio"}
    BY <1>1 DEF Gateways, AppMeshes, Matching
  <2> HIDE DEF f
  <2>4. ShapedRules(cfg.provider, a.match, object.rules, reset)
    BY <2>1, <2>2, <2>3, FirstShapes
  <2> QED BY <2>4 DEF Shaped
<1>2. CASE cfg.provider # "knative"
  <2>1. object.version = 0
    BY <1>2 DEF Init, Absent, Object
  <2> QED BY <2>1 DEF Shaped
<1> QED BY <1>1, <1>2

LEMMA NextShaped ==
  ASSUME IInv, Shaped, [Next]_vars PROVE Shaped'
<1>0. cfg \in Configs /\ object \in Objects /\ reset \in BOOLEAN
  BY DEF IInv, Typed
<1>1. ASSUME cfg' = cfg, object'.rules = object.rules, reset' = reset, Live' => Live,
             object'.version > 0 => object.version > 0
      PROVE  Shaped'
  BY <1>1 DEF Shaped, Exists, a
<1>2. ASSUME NEW s, Routing(s) PROVE Shaped'
  <2> DEFINE own == Cookies(cookies, s.c, minted + 1)
             new == SetRoutes(cfg.provider, a, cfg.affinity, own, object, s)
  <2>1. /\ Live /\ Exists(object) /\ object.version > 0 /\ cfg' = cfg /\ reset' = FALSE
        /\ s \in Splits /\ s.p + s.c = totalWeight /\ object' = new
    BY <1>2, RoutingIs DEF Routing, Live, Running, Whole, Route
  <2>2. own \in [cookie : Nat, previous : Nat]
    BY DEF IInv, Typed, Cookies
  <2>3. ShapedRules(cfg.provider, a.match, object.rules, reset)
    BY <2>1 DEF Shaped
  <2> HIDE DEF own
  <2>4. ShapedRules(cfg.provider, a.match, new.rules, FALSE)
    BY <1>0, <2>1, <2>2, <2>3, SetShapes
  <2> HIDE DEF new
  <2> QED BY <2>1, <2>4 DEF Shaped, a
<1>3. ASSUME NEW s, NEW st, NEW it, Turn(s, st, it) PROVE Shaped'
  BY <1>2, <1>3 DEF Turn
<1>4. CASE Counting
  <2>1. cfg' = cfg /\ Live
    BY <1>4 DEF Counting, Live
  <2> QED BY <1>1, <1>2, <1>4, <2>1 DEF Counting
<1>5. CASE Returning
  BY <1>2, <1>5 DEF Returning
<1>6. CASE Promote
  <2>1. cfg' = cfg /\ object' = object /\ reset' = reset /\ Live
    BY <1>6 DEF Promote, At, history, Live
  <2> QED BY <1>1, <2>1
<1>7. CASE NextRollout \/ EditService
  <2>1. cfg' = cfg /\ object' = object /\ reset' = reset /\ (Live' => Live)
    BY <1>7 DEF NextRollout, EditService, history, Live
  <2> QED BY <1>1, <2>1
<1>8. CASE Remove
  <2>1. ~Exists(object)'
    BY <1>8 DEF Remove, Exists, Absent, Object
  <2> QED BY <2>1 DEF Shaped
<1>9. CASE Observe
  <2>1. cfg' = cfg /\ object' = [object EXCEPT !.observed = Generation(object)] /\ reset' = reset
        /\ stage' = stage
    BY <1>9 DEF Observe, history
  <2>2. object'.rules = object.rules /\ object'.version = object.version
    BY <1>0, <2>1 DEF Objects
  <2> QED BY <1>1, <2>1, <2>2 DEF Live
<1>10. CASE ReconcileRoutes
  <2> DEFINE analysing == stage = "analysis"
             new == Reconcile(cfg.provider, a, object, version, analysing)
  <2>0. version \in Nat /\ version > 0
    BY CfgFacts DEF IInv, Typed
  <2>1. /\ cfg' = cfg /\ Live /\ object' = new
        /\ reset' = (reset \/ object'.rules # object.rules)
    BY <1>10 DEF ReconcileRoutes, Live, Running
  <2>2. /\ object.version > 0 => Exists(object)
        /\ Exists(object) /\ object.version = 0 => cfg.provider = "istio"
        /\ cfg.provider = "knative" => object.version > 0
    BY <2>1 DEF IInv, Read
  <2>3. object.version > 0 => ShapedRules(cfg.provider, a.match, object.rules, reset)
    BY <2>1, <2>2 DEF Shaped
  <2>4. analysing \in BOOLEAN
    OBVIOUS
  <2> HIDE DEF analysing
  <2>5. \/ new.rules = object.rules /\ object.version > 0
        \/ ShapedRules(cfg.provider, a.match, new.rules, TRUE)
    BY <1>0, <2>0, <2>2, <2>3, <2>4, ReconcileShapes
  <2> HIDE DEF new
  <2>6. CASE object'.rules = object.rules /\ object.version > 0
    <3>1. reset' = reset
      BY <1>0, <2>1, <2>6
    <3> QED BY <1>1, <2>1, <2>6, <3>1
  <2>7. CASE object'.rules # object.rules /\ ShapedRules(cfg.provider, a.match, object'.rules, TRUE)
    <3>1. reset' = TRUE
      BY <2>1, <2>7
    <3> QED BY <2>1, <2>7, <3>1 DEF Shaped, a
  <2>8. CASE object'.rules = object.rules /\ ~(object.version > 0)
             /\ ShapedRules(cfg.provider, a.match, object'.rules, TRUE)
    <3>1. object.version = 0
      BY <1>0, <2>8 DEF Objects
    <3>2. Exists(object') => cfg.provider = "istio"
      BY <2>2, <2>8, <3>1 DEF Exists
    <3>3. cfg.provider = "istio" => ShapedRules(cfg.provider, a.match, object'.rules, reset')
      BY <2>8 DEF ShapedRules
    <3> QED BY <2>1, <3>2, <3>3 DEF Shaped, Exists, a
  <2> QED BY <2>1, <2>5, <2>6, <2>7, <2>8
<1>11. CASE Delete \/ Revert
  <2>1. ~Live'
    BY <1>11 DEF Delete, Revert, Live
  <2> QED BY <2>1 DEF Shaped
<1>12. CASE UNCHANGED <<cfg, version, object, stage, iterations, cookies, limits, history>>
  <2>1. Live' => Live
    BY <1>12 DEF Live
  <2> QED BY <1>1, <1>12, <2>1 DEF history
<1> QED BY <1>3, <1>4, <1>5, <1>6, <1>7, <1>8, <1>9, <1>10, <1>11, <1>12, Kinds

\* What takes a request gets its share.
LEMMA TakenShares ==
  ASSUME object.rules \in Lists, NEW kind, NEW w, Share(object.rules, kind, w)
  PROVE  Gets(Taken(kind), w)
<1> DEFINE list == object.rules
<1>1. ASSUME NEW k \in DOMAIN list, list[k].on \in {"all", kind},
             \A j \in DOMAIN list : j < k => list[j].on \notin {"all", kind},
             list[k].c * totalWeight = w * (list[k].p + list[k].c)
      PROVE  Gets(Taken(kind), w)
  <2>1. Taken(kind) = list[k]
    BY <1>1, TakenIs
  <2> QED BY <1>1, <2>1 DEF Gets
<1>2. ASSUME w = 0, \A j \in DOMAIN list : list[j].on \notin {"all", kind}
      PROVE  Gets(Taken(kind), w)
  <2> DEFINE r == PrimaryOnly("all", totalWeight)
  <2>1. Taken(kind) = r
    BY <1>2 DEF Taken
  <2>2. r.c = 0 /\ r.p = totalWeight
    BY DEF PrimaryOnly, Rule
  <2> HIDE DEF r
  <2>3. r.c * totalWeight = w * (r.p + r.c)
    BY <1>2, <2>2 DEF totalWeight
  <2> QED BY <2>1, <2>3 DEF Gets
<1> QED BY <1>1, <1>2 DEF Share

\* What is read is what the rule weighs that takes the requests under analysis.
LEMMA ReadShares ==
  ASSUME IInv, Shaped, Live, Exists(object), object.version > 0,
         ~HalfAndHalf, ~WeightIgnored
  PROVE  Share(object.rules, "analysis", asked.c)
<1> DEFINE list == object.rules
<1>0. /\ cfg \in Configs /\ cfg.provider \in Providers
      /\ object \in Objects /\ list \in Lists /\ 1 \in DOMAIN list
      /\ asked \in Splits
  BY CfgFacts DEF IInv, Typed, Objects, Exists, Lists
<1>1. ShapedRules(cfg.provider, a.match, list, reset)
  BY DEF Shaped
<1>2. /\ Now(object) = Shown(asked)
      /\ Shown(asked) = Split(asked.p, asked.c, asked.m /\ ~MirrorLost)
      /\ Shown(asked).c = asked.c /\ Shown(asked).p = asked.p
  BY DEF IInv, Read, Shown, WeightIgnored, Split
<1>3. CASE cfg.provider \in Gateways \cup {"istio"}
  <2>1. PICK k \in DOMAIN list : Weighs(list, k) /\ Share(list, "analysis", list[k].c)
    BY <1>1, <1>3 DEF ShapedRules, WeightedTakes
  <2>2. WeightedRule(list) = list[k]
    BY <2>1, WeightedIs
  <2>3. Now(object).c = list[k].c
    BY <1>3, <2>2 DEF Now, GetRoutes, Gateways, IstioGetRoutes, GatewayGetRoutes,
       GatewayV1Beta1GetRoutes, Split
  <2> QED BY <1>2, <2>1, <2>3
<1>4. CASE cfg.provider \notin Gateways \cup {"istio"}
  <2> DEFINE f == list[1]
  <2>1. /\ f \in RuleSet /\ f.p \in Weights /\ f.c \in Weights
    <3>1. f \in RuleSet
      BY <1>0 DEF Lists
    <3> QED BY <3>1 DEF RuleSet
  <2>2. FirstTakes(cfg.provider, a.match, list)
    BY <1>1, <1>4 DEF ShapedRules, HalfAndHalf
  <2>3. CASE f.on \in {"all", "analysis"} /\ f.p + f.c = totalWeight
    <3> HIDE DEF f
    <3>1. f.c = asked.c
      <4>1. totalWeight - f.p = f.c
        BY <2>1, <2>3, SMTT(20) DEF Weights, totalWeight
      <4>2. CASE cfg.provider \in AppMeshes \cup SMIs \cup {"skipper", "knative"}
        <5>1. Now(object) = Split(f.p, f.c, FALSE)
          BY <4>2 DEF Now, GetRoutes, AppMeshes, SMIs, AppMeshV1Beta2GetRoutes, AppMeshGetRoutes,
             SmiGetRoutes, SmiV1Alpha2GetRoutes, SmiV1Alpha3GetRoutes, SkipperGetRoutes, f
        <5> QED BY <1>2, <5>1 DEF Split
      <4>3. CASE cfg.provider \in {"contour", "gloo", "kuma", "apisix", "traefik"}
        <5>1. Now(object) = Split(f.p, totalWeight - f.p, FALSE)
          BY <4>3 DEF Now, GetRoutes, ContourGetRoutes, GlooGetRoutes, KumaGetRoutes,
             ApisixGetRoutes, TraefikGetRoutes, Rest, f
        <5> QED BY <1>2, <4>1, <5>1 DEF Split
      <4>4. CASE cfg.provider = "nginx"
        <5>1. Now(object) = IF a.match /\ f.on = "analysis" THEN AllCanary
                            ELSE Split(totalWeight - f.c, f.c, FALSE)
          BY <4>4 DEF Now, GetRoutes, NginxGetRoutes, f
        <5>2. asked.c \in Weights /\ (a.match => ~(asked.c > 0))
          BY <1>0, <4>4 DEF WeightIgnored, Splits
        <5>3. asked.c = 0 => Now(object) # AllCanary
          BY <1>2 DEF AllCanary, Split, totalWeight
        <5> QED BY <1>2, <5>1, <5>2, <5>3 DEF Split, Weights
      <4> QED BY <1>0, <1>4, <4>2, <4>3, <4>4 DEF Providers, Lagging, Gateways, AppMeshes, SMIs
    <3>2. f.c * totalWeight = f.c * (f.p + f.c)
      BY <2>3
    <3>3. \A j \in DOMAIN list : ~(j < 1)
      BY <1>0 DEF Lists
    <3>4. list[1] = f
      BY DEF f
    <3> HIDE DEF list
    <3>5. Share(list, "analysis", f.c)
      BY <1>0, <2>3, <3>2, <3>3, <3>4 DEF Share
    <3> QED BY <3>1, <3>5 DEF list
  <2>4. CASE /\ cfg.provider = "skipper" /\ DOMAIN list = {1} /\ f.on = "none" /\ f.c = 0
    <3>1. Now(object) = Split(f.p, f.c, FALSE)
      BY <2>4 DEF Now, GetRoutes, SkipperGetRoutes
    <3>2. asked.c = 0
      BY <1>2, <2>4, <3>1 DEF Split
    <3> QED BY <2>4, <3>2 DEF Share
  <2> QED BY <2>2, <2>3, <2>4 DEF FirstTakes
<1> QED BY <1>3, <1>4

\* Requests under analysis take the canary in the share asked for, the others take the
\* primary.
THEOREM TrafficGoesAsAsked == Spec => []TrafficAsAsked
<1>1. IInv /\ Shaped => TrafficAsAsked
  <2> SUFFICES ASSUME IInv, Shaped, Running, Exists(object), object.version > 0
               PROVE  /\ Gets(Taken("analysis"), asked.c) \/ HalfAndHalf \/ WeightIgnored
                      /\ a.match /\ cfg.provider \in Matching => Gets(Taken("others"), 0)
    BY DEF TrafficAsAsked
  <2>1. Live /\ object.rules \in Lists
    BY DEF Live, Running, IInv, Typed, Objects
  <2>2. Gets(Taken("analysis"), asked.c) \/ HalfAndHalf \/ WeightIgnored
    BY <2>1, ReadShares, TakenShares
  <2>3. a.match /\ cfg.provider \in Matching => Share(object.rules, "others", 0)
    BY <2>1 DEF Shaped, ShapedRules
  <2> QED BY <2>1, <2>2, <2>3, TakenShares
<1>2. Init => Shaped
  BY InitInv, InitShaped
<1>3. IInv /\ Shaped /\ [Next]_vars => Shaped'
  BY NextShaped
<1>4. Spec => []Shaped
  BY <1>2, <1>3, InvHolds, PTL DEF Spec
<1> QED BY <1>1, <1>4, InvHolds, PTL

------------------------------------------------------------------------------
\* What a finalized canary leaves of a user's VirtualService.

\* Weights and mirrors aside, the rules that Istio's router writes without affinity.
OwnRules(list) ==
  IF a.match
    THEN /\ DOMAIN list = {1, 2}
         /\ list[1].on = "analysis" /\ list[1].to = Both
         /\ list[2].on = "all" /\ list[2].to = {"primary"}
    ELSE DOMAIN list = {1} /\ list[1].on = "all" /\ list[1].to = Both

\* The user's rules, before the first tick or as they were put back, or Flagger's with
\* the user's in the annotation.
Found ==
  object.version = 0 /\ object.rules = UserRules /\ object.original \in {<<>>, UserRules}

Annotated == object.version = 1 /\ object.original = UserRules /\ OwnRules(object.rules)

Restorable ==
  cfg.adopted =>
    /\ Exists(object) /\ object.kubectl = cfg.kubectl
    /\ stage = "finalized" /\ cfg.kubectl => object.rules = UserRules
    /\ ~cfg.kubectl /\ version = 1 /\ cfg.affinity = "none" =>
         Found \/ (Annotated /\ stage # "finalized")

LEMMA OwnRulesAre ==
  ASSUME cfg \in Configs, NEW p \in Weights, NEW c \in Weights, NEW m \in BOOLEAN
  PROVE  /\ OwnRules(IstioRules(a, p, c))
         /\ ~a.match => OwnRules([<<Rule("all", p, c)>> EXCEPT ![1].mirror = m])
<1> DEFINE x == Rule("analysis", p, c)
           y == PrimaryOnly("all", p)
           z == Rule("all", p, c)
           v == [z EXCEPT !.mirror = m]
<1>1. /\ x.on = "analysis" /\ x.to = Both /\ y.on = "all" /\ y.to = {"primary"}
      /\ z.on = "all" /\ z.to = Both /\ z \in RuleSet
      /\ v.on = "all" /\ v.to = Both
  BY RuleTypes DEF Rule, PrimaryOnly, Both, Requests
<1>2. IstioRules(a, p, c) = IF a.match THEN <<x, y>> ELSE <<z>>
  BY DEF IstioRules
<1>3. [<<z>> EXCEPT ![1].mirror = m] = <<v>>
  OBVIOUS
<1> HIDE DEF v
<1> HIDE DEF x, y, z
<1>4. a.match => OwnRules(<<x, y>>)
  BY <1>1 DEF OwnRules
<1>5. ~a.match => OwnRules(<<z>>)
  BY <1>1 DEF OwnRules
<1>6. ~a.match => OwnRules(<<v>>)
  BY <1>1 DEF OwnRules
<1>7. OwnRules(IstioRules(a, p, c))
  BY <1>2, <1>4, <1>5
<1> QED BY <1>3, <1>6, <1>7 DEF z

\* Two such lists are the same to cmp.Diff.
LEMMA OwnAlike ==
  ASSUME NEW list, OwnRules(list), NEW other, OwnRules(other)
  PROVE  Alike(list, other)
<1>1. Compared(list) = DOMAIN list /\ Compared(other) = DOMAIN other /\ DOMAIN other = DOMAIN list
  BY DEF OwnRules, Compared, CookieRules
<1>2. \A i \in DOMAIN list : list[i].on = other[i].on /\ list[i].to = other[i].to
  BY DEF OwnRules
<1> DEFINE f == [i \in DOMAIN list |-> i]
<1>3. f \in [Compared(list) -> Compared(other)]
  BY <1>1
<1>4. \A i \in DOMAIN list : f[i] = i
  OBVIOUS
<1> HIDE DEF f
<1> QED BY <1>1, <1>2, <1>3, <1>4 DEF Alike

LEMMA InitRestorable == ASSUME Init PROVE Restorable
<1> SUFFICES ASSUME cfg.adopted PROVE Restorable
  BY DEF Restorable
<1>1. cfg.provider = "istio"
  BY CfgFacts DEF Init
<1>2. object = Object(UserRules, 0, cfg.kubectl)
  BY <1>1 DEF Init
<1>3. object.rules = UserRules /\ object.version = 0 /\ object.original = <<>>
      /\ object.kubectl = cfg.kubectl
  BY <1>2 DEF Object
<1>4. UserRules # <<>>
  BY DEF UserRules
<1> QED BY <1>3, <1>4 DEF Restorable, Found, Init, Exists

\* Reconcile keeps the user's rules when it replaces them, and rewrites its own only
\* when spec.service has changed.
LEMMA ReconcileRestorable ==
  ASSUME IInv, Restorable, ReconcileRoutes PROVE Restorable'
<1> SUFFICES ASSUME cfg.adopted PROVE Restorable'
  BY DEF Restorable, ReconcileRoutes
<1> DEFINE rules == IstioRules(a, totalWeight, 0)
           new   == Declare(object, version, rules)
<1>1. /\ cfg \in Configs /\ object \in Objects /\ cfg.provider = "istio" /\ version \in Nat
  BY CfgFacts DEF IInv, Typed
<1>2. /\ cfg' = cfg /\ version' = version /\ stage' = stage /\ stage # "finalized"
      /\ object' = IstioReconcile(a, object, version)
  BY <1>1 DEF ReconcileRoutes, Reconcile, Running
<1>3. Exists(object) /\ object.kubectl = cfg.kubectl
  BY DEF Restorable
<1>4. OwnRules(rules) /\ rules \in Lists /\ rules # <<>>
  <2>1. totalWeight \in Weights /\ 0 \in Weights
    BY DEF Weights, totalWeight
  <2>2. OwnRules(rules)
    BY <1>1, <2>1, OwnRulesAre
  <2>3. rules \in Lists
    <3>1. Rule("analysis", totalWeight, 0) \in RuleSet /\ PrimaryOnly("all", totalWeight) \in RuleSet
          /\ Rule("all", totalWeight, 0) \in RuleSet
      BY <2>1, RuleTypes DEF Requests
    <3> QED BY <3>1 DEF IstioRules, Lists
  <2> HIDE DEF rules
  <2> QED BY <2>2, <2>3 DEF OwnRules
<1>5. object' = IF Differs(object, version, rules) /\ ~object.kubectl
                  THEN [new EXCEPT !.original = object.rules] ELSE new
  BY <1>2, <1>3 DEF IstioReconcile
<1> HIDE DEF rules
<1>6. new \in Objects /\ Exists(new) /\ new.kubectl = object.kubectl
  BY <1>1, <1>4, DeclareIs
<1>7. Exists(object') /\ object'.kubectl = object.kubectl
  <2> HIDE DEF new
  <2> QED BY <1>5, <1>6 DEF Objects, Exists
<1>8. ASSUME ~cfg.kubectl, version = 1, cfg.affinity = "none" PROVE Annotated'
  <2>1. CASE Found
    <3>1. Differs(object, version, rules)
      BY <1>8, <2>1 DEF Found, Differs
    <3>2. /\ new = [object EXCEPT !.rules = rules, !.version = version]
          /\ object' = [new EXCEPT !.original = object.rules]
      BY <1>3, <1>5, <1>8, <3>1 DEF Declare
    <3>3. object'.version = 1 /\ object'.original = UserRules /\ object'.rules = rules
      BY <1>1, <1>8, <2>1, <3>2 DEF Objects, Found
    <3> QED BY <1>2, <1>4, <3>3 DEF Annotated, OwnRules, a
  <2>2. CASE Annotated
    <3>1. ~Differs(object, version, rules)
      BY <1>4, <1>8, <2>2, OwnAlike DEF Annotated, Differs
    <3>2. object' = object
      BY <1>3, <1>5, <3>1 DEF Declare
    <3> QED BY <1>2, <2>2, <3>2 DEF Annotated, OwnRules, a
  <2> QED BY <1>8, <2>1, <2>2 DEF Restorable
<1> QED BY <1>2, <1>3, <1>7, <1>8 DEF Restorable

\* SetRoutes leaves the annotation alone.
LEMMA RoutingRestorable ==
  ASSUME IInv, Restorable, NEW s, Routing(s) PROVE Restorable'
<1> SUFFICES ASSUME cfg.adopted PROVE Restorable'
  BY DEF Restorable, Routing
<1> DEFINE own == Cookies(cookies, s.c, minted + 1)
           new == IstioSetRoutes(a, cfg.affinity, own, object, s)
<1>1. /\ cfg \in Configs /\ object \in Objects /\ cfg.provider = "istio"
  BY CfgFacts DEF IInv, Typed
<1>2. /\ cfg' = cfg /\ version' = version /\ object' = new
      /\ stage' # "finalized" /\ object.version > 0
      /\ s.p \in Weights /\ s.c \in Weights /\ s.m \in BOOLEAN
  BY <1>1 DEF Routing, Route, SetRoutes, Whole, Splits
<1>3. Rewritten(object, object')
  BY RoutingIs
<1>4. ASSUME Annotated, cfg.affinity = "none" PROVE Annotated'
  <2>1. OwnRules(object'.rules)
    <3>1. object'.rules = IF a.match THEN IstioRules(a, s.p, s.c)
                          ELSE [<<Rule("all", s.p, s.c)>> EXCEPT ![1].mirror = s.m]
      BY <1>1, <1>2, <1>4 DEF IstioSetRoutes, Objects
    <3> QED BY <1>1, <1>2, <3>1, OwnRulesAre, SMTT(20)
  <2>2. object'.version = 1 /\ object'.original = UserRules
    BY <1>3, <1>4 DEF Rewritten, Annotated
  <2> QED BY <1>2, <2>1, <2>2 DEF Annotated, OwnRules, a
<1>5. ~Found
  BY <1>2 DEF Found
<1> HIDE DEF new
<1> QED BY <1>2, <1>3, <1>4, <1>5 DEF Restorable, Rewritten

\* Finalize puts the user's rules back from either annotation.
LEMMA RevertRestorable ==
  ASSUME IInv, Restorable, Revert PROVE Restorable'
<1> SUFFICES ASSUME cfg.adopted PROVE Restorable'
  BY DEF Restorable, Revert
<1>1. /\ cfg \in Configs /\ object \in Objects /\ cfg.provider = "istio"
  BY CfgFacts DEF IInv, Typed
<1>2. /\ cfg' = cfg /\ version' = version /\ stage = "finalizing"
      /\ object' = IstioFinalize(object)
  BY <1>1 DEF Revert, Finalize
<1>3. Exists(object) /\ object.kubectl = cfg.kubectl /\ UserRules # <<>>
  BY DEF Restorable, UserRules
<1>4. Exists(object') /\ object'.kubectl = object.kubectl
  BY <1>1, <1>2, <1>3 DEF IstioFinalize, Objects, Exists
<1>5. cfg.kubectl => object'.rules = UserRules
  BY <1>1, <1>2, <1>3 DEF IstioFinalize, Objects
<1>6. ASSUME ~cfg.kubectl, version = 1, cfg.affinity = "none" PROVE Found'
  <2>1. Found \/ Annotated
    BY <1>6 DEF Restorable
  <2>2. object'.rules = UserRules /\ object'.version = 0 /\ object'.original \in {<<>>, UserRules}
    BY <1>1, <1>2, <1>3, <1>6, <2>1 DEF IstioFinalize, Objects, Found, Annotated
  <2> QED BY <2>2 DEF Found
<1> QED BY <1>2, <1>3, <1>4, <1>5, <1>6 DEF Restorable

LEMMA NextRestorable ==
  ASSUME IInv, Restorable, [Next]_vars PROVE Restorable'
<1>1. ASSUME cfg' = cfg, version' = version, object' = object,
             stage' = stage \/ (stage' # "finalized" /\ stage # "finalized")
      PROVE  Restorable'
  BY <1>1 DEF Restorable, Found, Annotated, OwnRules, a, Exists
<1>2. ASSUME NEW s, NEW st, NEW it, Turn(s, st, it) PROVE Restorable'
  BY <1>2, RoutingRestorable DEF Turn
<1>3. CASE Counting
  <2>1. cfg' = cfg /\ version' = version /\ stage = "analysis"
        /\ stage' \in {"analysis", stage}
    BY <1>3 DEF Counting, Save, Saved
  <2> QED BY <1>1, <1>3, <2>1, RoutingRestorable DEF Counting
<1>4. CASE Returning
  BY <1>4, RoutingRestorable DEF Returning
<1>5. CASE Promote
  <2>1. /\ cfg' = cfg /\ version' = version /\ object' = object /\ stage = "analysis"
        /\ stage' \in {"promotion", stage}
    BY <1>5 DEF Promote, At, Save, Saved
  <2> QED BY <1>1, <2>1
<1>6. CASE NextRollout \/ Delete
  <2>1. /\ cfg' = cfg /\ version' = version /\ object' = object
        /\ stage # "finalized" /\ stage' # "finalized"
    BY <1>6 DEF NextRollout, Delete
  <2> QED BY <1>1, <2>1
<1>7. CASE EditService
  <2>1. /\ cfg' = cfg /\ version' = version + 1 /\ object' = object /\ stage' = stage
        /\ version \in 1 .. 1 + edits /\ edits \in Nat
    BY <1>7, CfgFacts DEF EditService, IInv, Typed
  <2>2. version' # 1
    BY <2>1
  <2> QED BY <2>1, <2>2 DEF Restorable, Exists
<1>8. CASE Remove
  BY <1>8 DEF Remove, Restorable
<1>9. CASE Observe
  <2>1. cfg' = cfg /\ ~cfg.adopted
    BY <1>9, CfgFacts DEF Observe, Lagging, IInv, Typed
  <2> QED BY <2>1 DEF Restorable
<1>10. CASE ReconcileRoutes
  BY <1>10, ReconcileRestorable
<1>11. CASE Revert
  BY <1>11, RevertRestorable
<1>12. CASE UNCHANGED <<cfg, version, object, stage, iterations, cookies, limits, history>>
  BY <1>1, <1>12
<1> QED BY <1>2, <1>3, <1>4, <1>5, <1>6, <1>7, <1>8, <1>9, <1>10, <1>11, <1>12, Kinds

\* A deleted canary leaves the user's VirtualService as it was found.
THEOREM DeletionRestores == Spec => []RestoresOriginal
<1>1. IInv /\ Restorable => RestoresOriginal
  <2> SUFFICES ASSUME IInv, Restorable, stage = "finalized", cfg.adopted
               PROVE  \/ object.rules = UserRules
                      \/ ~object.kubectl /\ (version > 1 \/ cfg.affinity # "none")
    BY DEF RestoresOriginal
  <2>1. version \in Nat /\ version >= 1 /\ object.kubectl = cfg.kubectl
    BY CfgFacts DEF IInv, Typed, Restorable
  <2>2. CASE cfg.kubectl
    BY <2>2 DEF Restorable
  <2>3. CASE ~cfg.kubectl /\ version = 1 /\ cfg.affinity = "none"
    BY <2>3 DEF Restorable, Found
  <2> QED BY <2>1, <2>2, <2>3
<1>2. Init => Restorable
  BY InitRestorable
<1>3. IInv /\ Restorable /\ [Next]_vars => Restorable'
  BY NextRestorable
<1>4. Spec => []Restorable
  BY <1>2, <1>3, InvHolds, PTL DEF Spec
<1> QED BY <1>1, <1>4, InvHolds, PTL
================================================================================
