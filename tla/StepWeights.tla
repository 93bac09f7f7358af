----------------------------- MODULE StepWeights -----------------------------
(***************************************************************************)
(* The traffic-weight arithmetic of pkg/controller/scheduler.go: how far   *)
(* one tick of the canary strategy moves traffic to the canary, when the   *)
(* maximum weight is reached, and how a promotion moves it back.           *)
(*                                                                         *)
(* An analysis is spec.analysis, of which those functions read stepWeight, *)
(* stepWeights (a sequence, empty when unset), maxWeight (0 when unset),   *)
(* mirror and stepWeightPromotion.  A split is what router.GetRoutes       *)
(* returns and router.SetRoutes takes: the weights p of the primary and c  *)
(* of the canary, and m, whether requests are mirrored to the canary.      *)
(***************************************************************************)
EXTENDS Integers, Sequences

totalWeight == 100

min(a, b) == IF a < b THEN a ELSE b

Weights == 0 .. totalWeight

Split(p, c, m) == [p |-> p, c |-> c, m |-> m]

Splits == [p : Weights, c : Weights, m : BOOLEAN]

\* All traffic to the primary; all traffic to the canary.
AllPrimary == Split(totalWeight, 0, FALSE)
AllCanary  == Split(0, totalWeight, FALSE)

\* spec.analysis; match tells whether it has HTTP match conditions.
Analyses ==
  [match : BOOLEAN, iterations : Nat, threshold : Int, mirror : BOOLEAN,
   stepWeight : Nat, stepWeights : Seq(Nat), maxWeight : Nat, stepWeightPromotion : Nat]

\* The canary weight at which the analysis is over.
maxWeight(a) ==
  IF a.stepWeights # <<>> THEN min(totalWeight, a.stepWeights[Len(a.stepWeights)])
  ELSE IF a.maxWeight > 0 THEN a.maxWeight
  ELSE totalWeight

\* The index of the first step, the last one excluded, that equals weight w;
\* 0 when there is none.
StepIndex(a, w) ==
  LET steps == a.stepWeights
      first == {i \in 1 .. Len(steps) - 1 :
                  steps[i] = w /\ \A j \in 1 .. i - 1 : steps[j] # w}
  IN  IF first = {} THEN 0 ELSE CHOOSE i \in first : TRUE

\* How far the next tick may go: a fixed step, or the distance to the next listed
\* weight, or what is left.
nextStepWeight(a, w) ==
  LET maxStep == totalWeight - w
      i == StepIndex(a, w)
  IN  IF a.stepWeight > 0 \/ a.stepWeights = <<>> THEN a.stepWeight
      ELSE IF maxStep = 0 THEN 1
      ELSE IF w = 0 THEN min(maxStep, a.stepWeights[1])
      ELSE IF i > 0 THEN min(maxStep, a.stepWeights[i + 1] - w)
      ELSE maxStep

\* Mutants: one of the two clamps missing.
DecreaseUnclamped(w, step) == w - step
IncreaseUnclamped(w, step) == w + step

\* Subtract or add a step without leaving 0 .. totalWeight on that side.
Decrease(w, step) == IF w - step < 0 THEN 0 ELSE w - step
Increase(w, step) == IF w + step > totalWeight THEN totalWeight ELSE w + step

\* runCanary below the maximum weight: one step of mirroring before the first
\* weight when spec.analysis.mirror is set, a weight step otherwise.
IncreasedSplit(a, s) ==
  LET step == nextStepWeight(a, s.c)
  IN  IF a.mirror /\ s.c = 0
        THEN IF s.m THEN Split(totalWeight - step, step, FALSE)
                    ELSE Split(totalWeight, 0, TRUE)
        ELSE Split(Decrease(s.p, step), Increase(s.c, step), s.m)

\* runPromotionTrafficShift with a stepWeightPromotion: one step back to the
\* primary.
PromotedSplit(a, s) ==
  Split(Increase(s.p, a.stepWeightPromotion), Decrease(s.c, a.stepWeightPromotion), FALSE)
==============================================================================
