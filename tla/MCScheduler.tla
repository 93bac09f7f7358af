------------------------------ MODULE MCScheduler ------------------------------
(***************************************************************************)
(* Instances of Scheduler for the model checker: one analysis per          *)
(* deployment strategy, small enough that every rollout of two or three    *)
(* revisions with their failures is explored.  A run takes a set of specs, *)
(* and every behaviour one of them.                                        *)
(***************************************************************************)
EXTENDS DocumentedBehaviour, TLC

Base ==
  [match |-> FALSE, iterations |-> 0, threshold |-> 2, mirror |-> FALSE,
   stepWeight |-> 0, stepWeights |-> <<>>, maxWeight |-> 0, stepWeightPromotion |-> 0]

\* Progressive traffic in two steps, 60 and, clamped, 100.
Canary == [Base EXCEPT !.stepWeight = 60]

\* A list that descends from its first weight: the walk stops at 60.
Unordered == [Base EXCEPT !.stepWeights = <<60, 20, 80>>, !.threshold = 1]

\* A mirror step, listed weights, and a promotion in three steps.
Mirror ==
  [Base EXCEPT !.mirror = TRUE, !.stepWeights = <<20, 60>>, !.stepWeightPromotion = 40,
               !.threshold = 1]

AB == [Base EXCEPT !.match = TRUE, !.iterations = 2, !.threshold = 1]

BlueGreen == [Base EXCEPT !.iterations = 1, !.mirror = TRUE, !.threshold = 1]

\* With the kubernetes provider, whatever else is set.
Kubernetes == [Base EXCEPT !.iterations = 2, !.threshold = 1]

Mesh(analyses, webhooks) ==
  [provider : {"mesh"}, adopts : {FALSE}, analysis : analyses, skipAnalysis : {FALSE},
   webhooks : {webhooks}]

Gates == {"confirm-rollout", "confirm-promotion", "confirm-traffic-increase"}

\* Every strategy, with the webhooks that can change its course.
RolloutSpecs ==
  Mesh({Canary, Mirror, AB, BlueGreen}, WebhookTypes)
    \cup Mesh({Unordered}, {})
    \cup [provider : {"mesh"}, adopts : {FALSE}, analysis : {Canary}, skipAnalysis : {TRUE},
          webhooks : {{"confirm-rollout"}}]
    \cup {[s EXCEPT !.provider = "appmesh"] : s \in Mesh({Canary}, {})}
    \cup {[s EXCEPT !.adopts = TRUE] : s \in Mesh({Canary}, {})}
    \cup [provider : {"kubernetes"}, adopts : {FALSE}, analysis : {Kubernetes},
          skipAnalysis : BOOLEAN, webhooks : {{"confirm-rollout", "confirm-promotion", "rollback"}}]

\* Every strategy; no gate holds a rollout, and checks fail as they like.
UngatedSpecs ==
  Mesh({Canary, AB, BlueGreen}, {"rollback"})
    \cup Mesh({Mirror}, {})
    \cup [provider : {"kubernetes"}, adopts : {FALSE}, analysis : {Kubernetes},
          skipAnalysis : BOOLEAN, webhooks : {{}}]

\* Every gate of every strategy.
GatedSpecs == Mesh({Canary, Mirror, AB, BlueGreen}, Gates)

\* The plainest rollout, and a promotion in steps.
PlainSpecs   == Mesh({Canary}, {})
SteppedSpecs == Mesh({Mirror}, {})

\* Nothing compares revisions but for equality.
Symmetry == Permutations(Revs)
================================================================================
