----------------------------- MODULE WorkloadsProps -----------------------------
(***************************************************************************)
(* What users may rely on of the workloads of a rollout (module Workloads). *)
(***************************************************************************)
EXTENDS Workloads

Phases == {"", "Initialized", "Progressing", "Promoting", "Finalising", "Succeeded", "Failed"}

Calls ==
  {"idle", "initialize", "copyConfigs", "writePrimary", "scaler", "apex", "scaleDown",
   "sync", "write", "decide", "compare", "resume", "scaleUp", "go", "analyse", "promote",
   "setPromoting", "setFinalising", "pause", "setSucceeded"}

Statuses ==
  [phase : Phases, applied : Revisions \cup {0}, promoted : Revisions \cup {0},
   tracked : Contents \cup {0}]

\* The variables' values; a canary that has a phase has an applied spec and one at rest
\* after its initialization or a promotion a promoted one (syncCanaryStatus), without
\* which hasSpecChanged would take it for changed.
TypeOK ==
  /\ case \in Cases
  /\ target \in [rev : Revisions, up : BOOLEAN]
  /\ primary \in [rev : Revisions \cup {0}, up : BOOLEAN, copied : BOOLEAN]
  /\ config \in Contents \cup {0} /\ copy \in Contents \cup {0}
  /\ apex \in {"target", "primary"} /\ paused \in BOOLEAN
  /\ status \in Statuses /\ cd \in Statuses
  /\ ~Initialising(status) => status.applied # 0
  /\ status.phase \in {"Initialized", "Succeeded"} => status.promoted # 0
  /\ pc \in Calls /\ goal \in Phases \cup {"Same"}
  /\ read \in [rev : Revisions \cup {0}, found : BOOLEAN]
  /\ changes \in 0..case.changes /\ faults \in 0..case.faults
  /\ raced \in BOOLEAN /\ touched \in BOOLEAN /\ left \in BOOLEAN /\ cut \in BOOLEAN
  /\ base \in [rev : Revisions \cup {0}, config : Contents \cup {0}]

\* A rollback that scaled the target down and could not write its status is tried
\* again by an analysis, which may succeed: Promote then copies replicas: 0.
ScaledDownPromoted == cut /\ case.kind = "Deployment" /\ case.scaler = "none"

\* The first primary missed its deadline, and SetRoutes did not fail: rollback scales
\* the target down and writes Failed, or fails to, before kubeRouter.Reconcile has
\* switched the apex service, which the next tick does.
RolledBackFirst ==
  /\ case.routed /\ primary # NoPrimary
  /\ status.phase = "Failed" \/ cut \/ goal = "Failed"

\* Zero downtime: what the apex service selects has pods, from before the canary is
\* initialised on, over the creation of the primary, the switch of the service, the
\* scaling down of the target, promotions, halted ones and rollbacks.  Not with KEDA
\* until the service is switched, since advanceCanary pauses the target's ScaledObject
\* before that, and not after a rollback of the initialization.
NoGap ==
  case.up =>
    IF apex = "primary"
      THEN primary.up \/ ScaledDownPromoted
      ELSE target.up \/ case.scaler = "KEDA" \/ RolledBackFirst

\* The configs were missing when the primary was last written: its pods refer to the
\* target's own, which may appear or change.  That a promotion which failed found them
\* and copied them does not help: the primary was not written to refer to the copy.
SharesConfig == Pods /\ ~primary.copied

\* A rollout that failed leaves the primary with the template and the configs it had
\* when the rollout began, whatever users push meanwhile: the pods of the primary
\* refer to a copy of the configs that only Promote writes.  Not when a promotion had
\* left: CreatePrimaryConfigs and the primary's update are separate calls, and what
\* they wrote stays when a later one fails and then the analysis does.
FailureKeepsPrimary ==
  status.phase = "Failed" => Runs = base \/ touched \/ SharesConfig

\* Between ticks a canary that is not rolling out wants no pods of its target and
\* keeps the target's ScaledObject from wanting them (PauseTargetScaler before
\* ScaleToZero, ResumeTargetScaler before ScaleFromZero).  A rollout that could not
\* write its first status leaves the target scaled up, and so does a promotion halted
\* by a stuck primary, whose pods are then the only ones that work: until the next
\* rollout, or the rollback to that primary, ends.
IdleWhenSettled ==
  (Pods /\ pc = "idle" /\ status.phase \in {"Initialized", "Succeeded", "Failed"} /\ ~left)
    => (~target.up /\ (case.scaler = "KEDA" => paused))

\* When users have done, the canary comes to rest: the primary runs the target's
\* template with the configs the target has, or the rollout of them failed.  Not after
\* a change that was recorded as applied, or promoted, before it was looked at, nor
\* with a config missing that the pods need.
Decided ==
  <>[](\/ /\ status.phase \in {"Initialized", "Succeeded"}
          /\ Runs = [rev |-> target.rev, config |-> config]
       \/ status.phase = "Failed"
       \/ raced
       \/ ~Readable)
================================================================================
