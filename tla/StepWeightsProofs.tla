-------------------------- MODULE StepWeightsProofs --------------------------
(***************************************************************************)
(* What the weight arithmetic of StepWeights returns, for every analysis   *)
(* whose stepWeight is a percentage.                                       *)
(***************************************************************************)
EXTENDS StepWeights, TLAPS

\* A weight moved by any step stays a weight.
LEMMA ClampsStay ==
  ASSUME NEW w \in Weights, NEW step \in Nat
  PROVE  Decrease(w, step) \in Weights /\ Increase(w, step) \in Weights
BY DEF Weights, totalWeight, Decrease, Increase

\* The two clamps act together: what one side loses the other side gains.
LEMMA ClampsMatch ==
  ASSUME NEW p \in Weights, NEW c \in Weights, NEW step \in Nat, p + c = totalWeight
  PROVE  /\ Decrease(p, step) + Increase(c, step) = totalWeight
         /\ Increase(p, step) + Decrease(c, step) = totalWeight
BY DEF Weights, totalWeight, Decrease, Increase

\* The next step is a number, and a percentage for the first step.
LEMMA StepType ==
  ASSUME NEW a \in Analyses, a.stepWeight <= totalWeight, NEW w \in Weights
  PROVE  /\ nextStepWeight(a, w) \in Int
         /\ w = 0 => nextStepWeight(a, w) \in Weights
<1> DEFINE steps == a.stepWeights
           i == StepIndex(a, w)
<1>1. a.stepWeight \in Weights /\ w \in Weights
  BY DEF Analyses, Weights
<1>0. steps \in Seq(Nat)
  BY DEF Analyses
<1>2. i > 0 => i \in 1 .. Len(steps) - 1
  BY SMTT(60) DEF StepIndex
<1>3. i > 0 => steps[i + 1] \in Nat
  BY <1>0, <1>2
<1>4. steps # <<>> => steps[1] \in Nat
  BY <1>0
<1>5. i \in Int
  BY <1>2 DEF StepIndex
<1>6. CASE a.stepWeight > 0 \/ steps = <<>>
  <2>1. nextStepWeight(a, w) = a.stepWeight
    BY <1>6 DEF nextStepWeight
  <2> QED
    BY <2>1, <1>1 DEF Weights, totalWeight
<1>7. CASE ~(a.stepWeight > 0 \/ steps = <<>>)
  <2> DEFINE one == steps[1]
             two == steps[i + 1]
  <2>1. nextStepWeight(a, w) =
          IF totalWeight - w = 0 THEN 1
          ELSE IF w = 0 THEN min(totalWeight - w, one)
          ELSE IF i > 0 THEN min(totalWeight - w, two - w)
          ELSE totalWeight - w
    BY <1>7 DEF nextStepWeight
  <2>2. one \in Nat /\ (i > 0 => two \in Nat)
    BY <1>3, <1>4, <1>7
  <2> HIDE DEF one, two, i, steps
  <2> QED
    BY <2>1, <2>2, <1>1, <1>5 DEF min, Weights, totalWeight
<1> QED
  BY <1>6, <1>7

\* A step forward yields a split, and a whole one from a whole one.
LEMMA IncreasedSplitType ==
  ASSUME NEW a \in Analyses, a.stepWeight <= totalWeight,
         NEW s \in Splits, nextStepWeight(a, s.c) > 0
  PROVE  /\ IncreasedSplit(a, s) \in Splits
         /\ s.p + s.c = totalWeight =>
              IncreasedSplit(a, s).p + IncreasedSplit(a, s).c = totalWeight
<1> DEFINE step == nextStepWeight(a, s.c)
<1>0. s.p \in Weights /\ s.c \in Weights /\ s.m \in BOOLEAN
  BY DEF Splits
<1>1. step \in Nat /\ (s.c = 0 => step \in Weights)
  BY <1>0, StepType
<1>2. CASE a.mirror /\ s.c = 0
  BY <1>0, <1>1, <1>2 DEF IncreasedSplit, Split, Splits, Weights, totalWeight
<1>3. CASE ~(a.mirror /\ s.c = 0)
  BY <1>0, <1>1, <1>3, ClampsStay, ClampsMatch DEF IncreasedSplit, Split, Splits
<1> QED
  BY <1>2, <1>3

\* A step forward takes nothing from the canary.
LEMMA IncreasedSplitForward ==
  ASSUME NEW a \in Analyses, a.stepWeight <= totalWeight,
         NEW s \in Splits, nextStepWeight(a, s.c) > 0
  PROVE  IncreasedSplit(a, s).c >= s.c
<1> DEFINE step == nextStepWeight(a, s.c)
<1>0. s.p \in Weights /\ s.c \in Weights
  BY DEF Splits
<1>1. step \in Nat /\ step > 0
  BY <1>0, StepType
<1> HIDE DEF step
<1>2. Increase(s.c, step) >= s.c
  BY <1>0, <1>1 DEF Increase, Weights, totalWeight
<1>3. IncreasedSplit(a, s).c \in {step, 0, Increase(s.c, step)} /\
        (IncreasedSplit(a, s).c # Increase(s.c, step) => s.c = 0)
  BY DEF IncreasedSplit, Split, step
<1> QED
  BY <1>0, <1>1, <1>2, <1>3 DEF Weights

\* A step of the promotion yields a split, and a whole one from a whole one.
LEMMA PromotedSplitType ==
  ASSUME NEW a \in Analyses, NEW s \in Splits
  PROVE  /\ PromotedSplit(a, s) \in Splits
         /\ s.p + s.c = totalWeight =>
              PromotedSplit(a, s).p + PromotedSplit(a, s).c = totalWeight
<1>1. s.p \in Weights /\ s.c \in Weights /\ a.stepWeightPromotion \in Nat
  BY DEF Splits, Analyses
<1> QED
  BY <1>1, ClampsStay, ClampsMatch DEF PromotedSplit, Split, Splits
==============================================================================
