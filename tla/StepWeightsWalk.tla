--------------------------- MODULE StepWeightsWalk ---------------------------
(***************************************************************************)
(* The walk that StepWeights defines: a rollout whose checks all pass,     *)
(* reduced to the traffic split.  Each Advance is a tick that reaches      *)
(* runCanary, each Shift a tick that reaches runPromotionTrafficShift.     *)
(* The configuration is one of Configs, chosen once, so that one run of    *)
(* the model checker covers every configuration of a set.                  *)
(***************************************************************************)
EXTENDS StepWeights

CONSTANT Configs   \* the values spec.analysis may have

VARIABLES
  analysis,   \* the configuration of this rollout
  split,      \* the routes as the mesh holds them
  stage       \* "analysis", "promotion" or "done"

vars == <<analysis, split, stage>>

Init ==
  /\ analysis \in Configs
  /\ split = AllPrimary
  /\ stage = "analysis"

\* Weight step of the canary strategy (scheduler.go: nextStepWeight > 0 and
\* runCanary below the maximum weight).
Advance ==
  /\ stage = "analysis"
  /\ nextStepWeight(analysis, split.c) > 0
  /\ split.c < maxWeight(analysis)
  /\ split' = IncreasedSplit(analysis, split)
  /\ UNCHANGED <<analysis, stage>>

\* The maximum weight is reached: the primary's spec is updated.
Promote ==
  /\ stage = "analysis"
  /\ nextStepWeight(analysis, split.c) > 0
  /\ split.c >= maxWeight(analysis)
  /\ stage' = "promotion"
  /\ UNCHANGED <<analysis, split>>

\* runPromotionTrafficShift: all at once, or a step at a time.
Shift ==
  /\ stage = "promotion"
  /\ IF analysis.stepWeightPromotion = 0
       THEN split' = AllPrimary
       ELSE split.c > 0 /\ split' = PromotedSplit(analysis, split)
  /\ stage' = IF split'.p = totalWeight THEN "done" ELSE "promotion"
  /\ UNCHANGED analysis

Next == Advance \/ Promote \/ Shift

Spec == Init /\ [][Next]_vars /\ WF_vars(Next)
==============================================================================
