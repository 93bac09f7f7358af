----------------------------- MODULE TrafficProps -----------------------------
(***************************************************************************)
(* What the routers and the strategies together promise of the traffic.    *)
(* Where the code falls short of a promise, the exception is a definition  *)
(* of its own, named for what goes wrong.                                  *)
(***************************************************************************)
EXTENDS Traffic

\* The types of the variables that change (an object and its rules aside).
TypeOK ==
  /\ version \in 1 .. 1 + cfg.edits
  /\ pc \in {"reconcile", "step"}
  /\ stage \in {"analysis", "promotion", "done", "finalizing", "finalized"}
  /\ iterations \in 0 .. a.iterations + 1
  /\ cookies.cookie \in 0 .. minted /\ cookies.previous \in 0 .. minted
  /\ edits \in 0 .. cfg.edits /\ faults \in 0 .. cfg.faults /\ rollouts \in 0 .. cfg.rollouts
  /\ asked \in Splits
  /\ reset \in BOOLEAN
  /\ minted \in Nat /\ past \in 0 .. minted

------------------------------------------------------------------------------
\* The router and its object.

\* Flagger wrote the object, and the mesh's own controller has seen that.
Settled ==
  /\ Exists(object) /\ object.version > 0
  /\ cfg.provider \in Lagging => object.observed = Generation(object)

\* Istio's mirror goes to the first rule and is read from the last one, and it is gone
\* when the analysis has a match; the Gateway routers mirror only analyses that count
\* iterations; the other routers do not mirror.
MirrorLost ==
  \/ cfg.provider = "istio" /\ (cfg.affinity # "none" \/ a.match)
  \/ cfg.provider \in Gateways /\ a.iterations = 0
  \/ cfg.provider \notin Gateways \cup {"istio"}

MirrorUnseen == asked.m /\ MirrorLost

\* NGINX matches select the canary whatever the weight.
WeightIgnored == cfg.provider = "nginx" /\ a.match /\ asked.c > 0

\* GetRoutes reads back what SetRoutes wrote, or Reconcile.  The scheduler keeps no
\* weights of its own: the next step starts from what is read here.
ReadBack ==
  Running /\ Settled =>
    LET s == GetRoutes(cfg.provider, a, object, FALSE)
    IN  \/ s = asked
        \/ MirrorUnseen /\ s.p = asked.p /\ s.c = asked.c
        \/ WeightIgnored /\ s = AllCanary

\* The rule a request takes that only rules for everybody and rules for its kind fit.
Taken(kind) ==
  LET fits == {i \in DOMAIN object.rules : object.rules[i].on \in {"all", kind}}
  IN  IF fits = {} THEN PrimaryOnly("all", totalWeight)   \* the user's own route
      ELSE object.rules[CHOOSE i \in fits : \A j \in fits : i <= j]

\* The providers whose routers look at spec.analysis.match.
Matching == Gateways \cup AppMeshes \cup {"istio", "contour", "gloo", "nginx"}

\* The canary gets w percent of what takes rule r.
Gets(r, w) == r.c * totalWeight = w * (r.p + r.c)

\* Traefik's Reconcile gives the canary the weight of the primary in a list that it
\* rewrites; it then reads its own weights as all primary.
HalfAndHalf == cfg.provider = "traefik" /\ reset

\* The mesh routes as the scheduler believes: requests under analysis take the
\* canary in the share asked for, when there is a match all the others the primary,
\* and without one everybody is under analysis.
TrafficAsAsked ==
  Running /\ Exists(object) /\ object.version > 0 =>
    /\ Gets(Taken("analysis"), asked.c) \/ HalfAndHalf \/ WeightIgnored
    /\ a.match /\ cfg.provider \in Matching => Gets(Taken("others"), 0)

------------------------------------------------------------------------------
\* Session affinity.

\* While the canary has traffic a client with the rollout's cookie stays on it, one
\* with the primary's cookie stays there, and the cookie is one of this rollout,
\* unless a status write lost the end of the earlier one.
ClientsStay ==
  Running /\ Exists(object) /\ cfg.affinity # "none" /\ asked.c > 0 /\ ~reset =>
    /\ Gets(Taken("canaryCookie"), totalWeight)
    /\ Taken("canaryCookie").cookie > (IF faults = 0 THEN past ELSE 0)
    /\ cfg.affinity = "both" /\ cfg.provider # "gatewayapi:v1beta1" => Gets(Taken("primaryCookie"), 0)

\* A rollout makes one cookie: it is written into the tick's copy of the canary and
\* only a lost status write makes the next tick mint another.
OneCookie == minted - past <= 1 + faults

------------------------------------------------------------------------------
\* The strategies.

\* Knative's weights are read from a status that nobody compares with the generation:
\* after a restart the analysis may go on from where it was.
Stale == cfg.provider = "knative" /\ object.observed # Generation(object)

\* The weights of a canary analysis go the way of StepWeightsWalk, and every other
\* change of them leads to the primary.
Walk == INSTANCE StepWeightsWalk
          WITH analysis <- a, split <- asked, Configs <- {c.analysis : c \in Configs},
               stage <- IF Running THEN stage ELSE "done"

Implements ==
  /\ asked = AllPrimary /\ stage = "analysis"
  /\ [][ Strategy = "Canary"
           => Walk!Next \/ asked' = AllPrimary \/ Stale \/ WeightIgnored
                \/ stage' \in {"finalizing", "finalized"} ]_<<asked, stage>>

\* What is promoted has served all the traffic of the analysis until then: the
\* maximum weight, or all of it, unless Reconcile took the routes back and the
\* iterations were counted already.
PromotedOnCanary ==
  [][ stage = "analysis" /\ stage' = "promotion" /\ ~Stale =>
        IF Strategy = "Canary" THEN asked.c >= maxWeight(a) \/ WeightIgnored
        ELSE asked = AllCanary \/ reset ]_stage

\* A mirror that is not seen is asked for again at every tick, a match that ignores
\* weights never lets a promotion in steps reach the primary, one with no
\* traffic to move, or whose split Knative rejects, does nothing, and a Finalize
\* that fails does so again.
Stuck ==
  \/ Strategy = "Canary" /\ MirrorUnseen
  \/ stage = "promotion" /\ a.stepWeightPromotion > 0
       /\ (asked = AllPrimary \/ cfg.provider = "knative" \/ WeightIgnored)
  \/ stage = "finalizing" /\ ~Finalizes(cfg.provider, object)

\* Every rollout ends, and every finalization, whatever routes are reset, status
\* writes lost or reports late.
Completes == []<>(stage \in {"done", "finalized"} \/ Stuck)

\* A deleted canary leaves the user's VirtualService as it found it, unless Flagger
\* kept the rules itself and rewrote them later: then it has its own for original.
RestoresOriginal ==
  stage = "finalized" /\ cfg.provider = "istio" /\ cfg.adopted =>
    \/ object.rules = UserRules
    \/ ~object.kubectl /\ (version > 1 \/ cfg.affinity # "none")
==============================================================================
