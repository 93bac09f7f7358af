---------------------------- MODULE SchedulerProps ----------------------------
(***************************************************************************)
(* What advanceCanary promises, stated over the state of Scheduler.        *)
(***************************************************************************)
EXTENDS Scheduler

\* All weights, in the routes and in the status, are within 0 .. 100: the steps
\* of runCanary and runPromotionTrafficShift are clamped on both sides.
TypeOK ==
  /\ spec \in Specs
  /\ status \in Statuses
  /\ target \in [rev : Revs, up : BOOLEAN]
  /\ primary \in [rev : Hashes, up : BOOLEAN]
  /\ apex \in {"target", "primary"}
  /\ routes \in Splits
  /\ drift \in BOOLEAN
  /\ pc \in Labels
  /\ cd \in Statuses
  /\ view \in Splits
  /\ userOps \in 0 .. MaxUserOps
  /\ faults \in 0 .. MaxFaults
  /\ tried \subseteq Revs
  /\ pushed \subseteq Revs
  /\ unrecorded \subseteq Changes

\* A handler lost its last call, the status write: after the first calls of
\* rollback, handleFailedPromotion or the end of a promotion the phase does not
\* tell what they did, and the next tick goes on from a cluster it does not
\* expect.
Interrupted == unrecorded \cap {"rollback", "halt", "finalise"} # {}

------------------------------------------------------------------------------
\* Traffic.

\* The weights the mesh holds add up to 100, whatever sequence of steps,
\* restarts, shifts, rollbacks, rewrites and cut ticks led there: each tick
\* computes both from the pair it read, so one clamp without the other, or a
\* pair read in one tick and completed in another, would break it.
SplitIsWhole == routes # NoRoutes => routes.p + routes.c = totalWeight

\* Traffic the mesh sends or mirrors to the canary finds pods there: the target
\* is scaled to zero only after the routes are back on the primary, and gets
\* traffic only after it was scaled up.  The exception is an interrupted handler.
TrafficHasBackends ==
  (routes.c > 0 \/ routes.m) => target.up \/ Interrupted

\* SetRoutes succeeds before the apex service is moved: with the NopRouter, with
\* AppMesh, whose routes come first, and with an object of the users that the router
\* is to take over.
RoutedEarly == Provider # "mesh" \/ spec.adopts

\* Users of the apex service are served: the target is at zero replicas only
\* once the apex service selects the primary.  The exception is a first primary that
\* is stuck and rolled back before the apex service was moved, where SetRoutes lets
\* rollback reach its ScaleToZero.
ApexHasBackends ==
  apex = "target" =>
    \/ target.up
    \/ /\ RoutedEarly
       /\ primary # NoPrimary
       /\ status.phase = "Failed" \/ "rollback" \in unrecorded

\* Outside a rollout the canary gets no traffic, and a failed rollout leaves
\* all of it on one side.  Finalising "means the canary promotion is finished
\* and traffic has been routed back to primary" (status.go:54).
CanaryTrafficOnlyDuringRollout ==
  /\ status.phase \in {"Initialized", "Finalising", "Succeeded"} =>
       (routes.c = 0 /\ ~routes.m) \/ Interrupted
  /\ status.phase = "Failed" => routes \in {NoRoutes, AllPrimary, AllCanary}

------------------------------------------------------------------------------
\* The analysis.

\* An analysis starts, and starts over, with all traffic on the primary, so that
\* the pre-rollout webhooks run first and the first step is a first step.  The
\* exception is the analysis that follows a halted promotion, which left all
\* traffic on the canary: nothing routes it back, so that analysis starts at its
\* maximum weight, without its pre-rollout webhooks.
AnalysisStartsOnPrimary ==
  [][ (pc \in {"syncProgressing", "syncRestart"}) =>
        \/ ~routes.m /\ routes.c = 0
        \/ cd.phase \in {"Failed", "Waiting"} /\ routes = AllCanary
        \/ Interrupted ]_status

\* A weight step never takes traffic away from the canary: lists of stepWeights
\* that do not ascend stop the walk instead of turning it back.
WeightStepsForward == [][ pc = "increase" => routes'.c >= routes.c ]_routes

\* No analysis goes past the threshold: each tick adds at most one failure to
\* the counter it read, and at the threshold the rollout ends.
FailuresWithinThreshold == status.failed <= Threshold

------------------------------------------------------------------------------
\* Revisions.

\* After a rollout that succeeded, and whenever the target is the promoted revision,
\* the primary runs it too: that is why a manual rollback of the target to the
\* promoted revision needs no rollout.  The exception is a promotion that was
\* overtaken by a push: Promote reads the target again, after the last revision
\* check, so that a push in between reaches the primary unanalysed.
SucceededMeansPromoted ==
  status.phase = "Succeeded" /\ target.rev = status.promoted =>
    primary.rev = target.rev \/ "overtaken" \in unrecorded

------------------------------------------------------------------------------
\* Steps.

\* The traffic was taken away from the canary while the counters of the analysis
\* were kept: a restart or a rollback that was cut short between its calls, or an
\* edit of spec.service.
RoutesLost == unrecorded \cap {"restart", "rollback", "rewrite"} # {}

\* The primary is replaced only by a tick whose own view of the rollout was
\* complete: the canary at its maximum weight, or the iterations done and the
\* last analysis run with all traffic on the canary (unless RoutesLost); the
\* failures below the threshold; or the analysis skipped.
PromotionGate ==
  [][ primary # NoPrimary =>
        \/ SkipAnalysis
        \/ /\ cd.phase \in {"Progressing", "WaitingPromotion"}
           /\ cd.failed < Threshold
           /\ Strategy = "Canary"    => view.c >= maxWeight(Analysis)
           /\ Strategy = "ABTesting" => cd.iter = Iterations
           /\ Strategy = "BlueGreen" => cd.iter > Iterations
           /\ Strategy # "Canary"    => view = AllCanary \/ RoutesLost ]_primary

\* Promote copies the target's replicas, so only a target that is scaled to zero
\* empties the primary, and a promotion finds it so only when a handler that
\* scaled it was cut short before it wrote the status.
PrimaryEmptiedOnlyAfterCut ==
  [][ primary.up /\ ~primary'.up => Interrupted ]_primary

------------------------------------------------------------------------------
\* Refinement.

Abstract == INSTANCE Lifecycle WITH
  phase     <- status.phase,
  live      <- primary.rev,
  committed <- IF pc = "setPromoting" THEN "analysed"
               ELSE IF SkipAnalysis /\ pc \in {"finalise", "setSucceeded"} THEN "skipped"
               ELSE "no"

\* Every tick, cut short or not, is a step of the lifecycle or none: no
\* sequence of stale copies, crashes and pushes takes the phase and the primary
\* along a way the lifecycle does not have.
Implements == Abstract!Spec

------------------------------------------------------------------------------
\* Liveness.

\* Gates that are asked again and again are approved some day.
Approve(label) == (RunCanary \/ RunAB \/ RunBlueGreen) /\ pc' = label
ApprovedSpec ==
  /\ FairSpec
  /\ SF_vars(ConfirmRollout)
  /\ SF_vars(Approve("increase"))
  /\ SF_vars(Approve("bgRoutes"))
  /\ SF_vars(Approve("promote"))

\* A promotion in steps whose last status write was lost does not go on: it
\* finds no canary weight left to shift (DocumentedBehaviour!PromotionEnds).
PromotionLost ==
  /\ faults > 0
  /\ status.phase = "Promoting" /\ Analysis.stepWeightPromotion > 0 /\ routes.c = 0

Ended == status.phase \in {"Succeeded", "Failed"} \/ PromotionLost

\* Under ApprovedSpec: a rollout that waits at a gate keeps asking it, at every
\* tick or, while its counters lead it through another round of the analysis,
\* every few ticks, and comes to an end once the gates open.
GatesOpen == status.phase \in {"Waiting", "WaitingPromotion"} ~> Ended

\* A rollout that was started ends, as long as no gate holds it and its weights
\* ascend: analyses that keep failing reach the threshold, analyses that pass reach
\* the promotion, and a promotion completes, whatever ticks were cut short on the
\* way.  A list of stepWeights that descends, or none at all, ends nothing: the
\* analysis goes on as long as it passes.
RolloutEnds == status.phase = "Progressing" ~> Ended

\* After the initialization, a revision that stays in the target and is not the
\* promoted one does not stay undecided: a rollout of it starts, the primary
\* already runs it, or the canary has failed and waits for the next one.  Not behind
\* a promotion that was lost.
RevisionDecided ==
  \A r \in Revs :
    (~Initialising(status) /\ target.rev = r /\ status.promoted # r)
      ~> (target.rev # r \/ primary.rev = r \/ r \in tried \/ status.phase = "Failed"
             \/ PromotionLost)
==============================================================================
