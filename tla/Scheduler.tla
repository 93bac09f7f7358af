------------------------------ MODULE Scheduler ------------------------------
(***************************************************************************)
(* advanceCanary of pkg/controller/scheduler.go for one Canary whose       *)
(* target is a Deployment without an autoscaler: the function the canary's *)
(* job runs at every tick of spec.analysis.interval.                       *)
(*                                                                         *)
(* A tick is not atomic.  It reads the Canary once (cd), works through a   *)
(* list of calls to the API server, the mesh and the webhooks, and returns *)
(* at the first error.  Every call that reads or writes state other actors *)
(* can see is an action here, pc says which call comes next, and between   *)
(* two calls users push revisions and edit the service.  Abort ends a tick *)
(* at any point: an error of the next call, a workload that is not ready   *)
(* yet, or a crash of the controller, which loses the tick's local state   *)
(* (cd, view) and nothing else.                                            *)
(*                                                                         *)
(* Readiness is not state: a check of a workload may find it ready, not    *)
(* ready yet (Abort) or stuck past its progress deadline, at any time.     *)
(* Webhooks and metric checks may pass or fail at every call.              *)
(***************************************************************************)
EXTENDS Integers, Sequences, CanaryStatus

CONSTANTS
  Specs,           \* the values the Canary's spec may have, see SpecsAssumption
  ServiceEdits,    \* whether users edit spec.service, which the mesh router then rewrites
  Reverts,         \* whether users push a revision that was pushed before
  MaxUserOps,      \* bound on the pushes and edits of a behaviour
  MaxFaults        \* bound on the ticks of a behaviour that Abort ends

WebhookTypes == {"confirm-rollout", "confirm-traffic-increase", "confirm-promotion",
                 "pre-rollout", "rollback"}

\* The fields of spec the scheduler reads.  provider is "kubernetes" for the NopRouter,
\* "appmesh" for the routers of AppMesh and "mesh" for the others, which move traffic
\* too; adopts says that users have an object of the name the router looks for, which
\* it will take over; webhooks are the types of those in spec.analysis.webhooks.
CanarySpecs ==
  [provider : {"mesh", "appmesh", "kubernetes"}, adopts : BOOLEAN, analysis : Analyses,
   skipAnalysis : BOOLEAN, webhooks : SUBSET WebhookTypes]

ASSUME SpecsAssumption ==
  \A s \in Specs : s \in CanarySpecs /\ s.analysis.stepWeight <= totalWeight

ASSUME FlagsAssumption == ServiceEdits \in BOOLEAN /\ Reverts \in BOOLEAN

ASSUME BoundsAssumption == MaxUserOps \in Nat /\ MaxFaults \in Nat

VARIABLES
  spec,       \* the Canary's spec; it does not change
  status,     \* the Canary's status, as the API server holds it
  target,     \* the target Deployment: its revision, and whether replicas > 0
  primary,    \* the -primary Deployment, likewise; NoPrimary before it exists
  apex,       \* what the apex Service selects: "target" or "primary"
  routes,     \* the split the mesh serves, NoRoutes before the router first wrote it
  drift,      \* spec.service was edited since the mesh router last reconciled it
  pc,         \* the next call of the tick, "idle" between ticks
  cd,         \* the tick's copy of the status
  view,       \* the tick's copy of the split, from GetRoutes
  userOps,    \* pushes and edits so far
  faults,     \* aborted ticks so far
  tried,      \* history: revisions an analysis was started for
  pushed,     \* history: revisions that were ever in the target
  unrecorded  \* history: what changed the cluster and the status does not tell, a
              \*          member of Changes

\* The handlers "restart", "rollback", "halt" and "finalise" end with a status write,
\* which may not happen (yet); "rewrite" is the reset of the routes by
\* meshRouter.Reconcile; "overtaken" is a promotion of another revision than the one
\* in the status.
Changes == {"restart", "rollback", "halt", "finalise", "rewrite", "overtaken"}

locals    == <<pc, cd, view>>
workloads == <<target, primary>>
routing   == <<apex, routes, drift>>
budgets   == <<userOps, faults>>
ghosts    == <<tried, pushed, unrecorded>>
vars      == <<spec, status, workloads, routing, locals, budgets, ghosts>>

------------------------------------------------------------------------------
\* Configuration read through methods of the Canary.

Provider     == spec.provider
Analysis     == spec.analysis
SkipAnalysis == spec.skipAnalysis
Webhooks     == spec.webhooks

\* The router moves traffic.
Meshed == Provider # "kubernetes"

\* The mesh router is reconciled before the primary is created: the pods of AppMesh
\* get no sidecar otherwise.
MeshFirst == Provider = "appmesh"

Strategy ==
  IF Provider = "kubernetes" THEN "BlueGreen"
  ELSE IF Analysis.iterations > 0 THEN IF Analysis.match THEN "ABTesting" ELSE "BlueGreen"
  ELSE "Canary"

Iterations == IF Provider = "kubernetes" /\ Analysis.iterations < 1 THEN 10 ELSE Analysis.iterations

Threshold == IF Analysis.threshold > 0 THEN Analysis.threshold ELSE 1

\* The outcome ok of the webhooks of a type: without such a webhook they pass.
Hook(type, ok) == ok \in BOOLEAN /\ (type \notin Webhooks => ok)

Labels == {"idle", "initialize", "reconcile", "scaleDown", "mesh", "initialized", "shouldAdvance",
           "targetChanged", "primaryReady", "confirmRollout", "scaleUp", "syncProgressing",
           "revisionChanged", "restart", "syncRestart", "canaryReady", "failedCheck", "increase",
           "setWeight", "abRoutes", "bgMirror", "bgRoutes", "setIterations", "promote",
           "setPromoting", "shift", "setFinalising", "finalise", "setSucceeded", "skipRoutes",
           "skipPromote", "rollback", "rollbackScale", "syncFailed", "haltPromotion", "syncHalted"}

------------------------------------------------------------------------------
\* Pieces the actions share.

NoRoutes == Split(0, 0, FALSE)

Deployment(rev, up) == [rev |-> rev, up |-> up]
NoPrimary == Deployment(NoRev, FALSE)

Call(label, next) == pc = label /\ pc' = next

\* The tick returns: its copies are gone.
Return == pc' = "idle" /\ cd' = EmptyStatus /\ view' = AllPrimary

\* router.SetRoutes finds the object it rewrites: one that Reconcile created, or one
\* of the users that Reconcile will take over.  The NopRouter needs none.
Routable == Meshed => routes # NoRoutes \/ spec.adopts

\* router.SetRoutes: the mesh routers rewrite the object, the NopRouter of the
\* kubernetes provider does nothing.
SetRoutes(split) ==
  /\ Routable
  /\ routes' = IF Meshed THEN split ELSE routes
  /\ UNCHANGED <<apex, drift>>

\* router.GetRoutes: NopRouter derives the split from the iterations.
GetRoutes(s) ==
  IF Meshed THEN routes
  ELSE IF s.iter > 0 THEN AllCanary ELSE AllPrimary

Write(s) == status' = s

------------------------------------------------------------------------------
\* The environment.

Init ==
  /\ spec \in Specs
  /\ status = EmptyStatus
  /\ \E r \in Revs : target = Deployment(r, TRUE) /\ pushed = {r}
  /\ primary = NoPrimary
  /\ apex = "target"
  /\ routes = NoRoutes
  /\ drift = FALSE
  /\ pc = "idle" /\ cd = EmptyStatus /\ view = AllPrimary
  /\ userOps = 0 /\ faults = 0
  /\ tried = {}
  /\ unrecorded = {}

\* A user applies another revision of the target, with or without replicas in
\* the manifest.
PushRevision ==
  /\ userOps < MaxUserOps
  /\ \E r \in Revs \ {target.rev}, up \in {target.up, TRUE} :
       /\ r \in pushed => Reverts
       /\ target' = Deployment(r, up)
       /\ pushed' = pushed \cup {r}
  /\ userOps' = userOps + 1
  /\ UNCHANGED <<spec, status, primary, routing, locals, faults, tried, unrecorded>>

\* A user edits spec.service: hosts, timeouts, match conditions.
EditService ==
  /\ ServiceEdits
  /\ userOps < MaxUserOps
  /\ routes # NoRoutes
  /\ ~drift
  /\ drift' = TRUE
  /\ userOps' = userOps + 1
  /\ UNCHANGED <<spec, status, workloads, apex, routes, locals, faults, ghosts>>

\* syncHandler sees a canary without conditions; its job starts after this.
SetPhaseInitializing ==
  /\ status.phase = "None"
  /\ Write([status EXCEPT !.phase = "Initializing"])
  /\ UNCHANGED <<spec, workloads, routing, locals, budgets, ghosts>>

\* The next call fails or finds a workload not ready yet, or the controller dies.
Abort ==
  /\ pc # "idle"
  /\ faults < MaxFaults
  /\ Return
  /\ faults' = faults + 1
  /\ UNCHANGED <<spec, status, workloads, routing, userOps, ghosts>>

------------------------------------------------------------------------------
\* The beginning of every tick: bootstrap and reconciliation.

GetCanary ==
  /\ status.phase # "None"
  /\ Call("idle", IF MeshFirst THEN "mesh" ELSE "initialize")
  /\ cd' = status
  /\ UNCHANGED <<spec, status, workloads, routing, view, budgets, ghosts>>

\* DeploymentController.Initialize: create a missing primary from the target,
\* with at least one replica, and, while initializing, wait for it.  A primary
\* created by this call is not yet observed, so it cannot be found stuck; one that
\* is stuck is rolled back, before the apex Service is moved to it.
Initialize ==
  /\ pc = "initialize"
  /\ primary' = IF primary = NoPrimary THEN Deployment(target.rev, TRUE) ELSE primary
  /\ \/ pc' = "reconcile"
     \/ Initialising(cd) /\ ~SkipAnalysis /\ primary # NoPrimary /\ pc' = "rollback"
  /\ UNCHANGED <<spec, status, target, routing, cd, view, budgets, ghosts>>

\* What the bootstrap goes on with when the apex Service is right, and the target,
\* while initializing, scaled down.
AfterReconciled == IF Initialising(cd) THEN "initialized" ELSE "shouldAdvance"
AfterServices   == IF MeshFirst THEN AfterReconciled ELSE "mesh"

\* Mutant: the apex Service follows only once the canary is initialized.
ReconcileApexLate ==
  /\ Call("reconcile", IF Initialising(cd) THEN "scaleDown" ELSE AfterServices)
  /\ apex' = IF Initialising(cd) THEN apex ELSE "primary"
  /\ UNCHANGED <<spec, status, workloads, routes, drift, cd, view, budgets, ghosts>>

\* kubeRouter.Reconcile: the apex Service selects the primary.
ReconcileApex ==
  /\ Call("reconcile", IF Initialising(cd) THEN "scaleDown" ELSE AfterServices)
  /\ apex' = "primary"
  /\ UNCHANGED <<spec, status, workloads, routes, drift, cd, view, budgets, ghosts>>

ScaleDownTarget ==
  /\ Call("scaleDown", AfterServices)
  /\ target' = [target EXCEPT !.up = FALSE]
  /\ UNCHANGED <<spec, status, primary, routing, cd, view, budgets, ghosts>>

\* meshRouter.Reconcile: create the routes, or take over the users' object, or rewrite
\* the whole object, routes included, when it no longer matches spec.service.
ReconcileMesh ==
  /\ Call("mesh", IF MeshFirst THEN "initialize" ELSE AfterReconciled)
  /\ IF Meshed /\ (routes = NoRoutes \/ drift)
       THEN routes' = AllPrimary /\ drift' = FALSE
       ELSE UNCHANGED <<routes, drift>>
  /\ unrecorded' = IF drift THEN unrecorded \cup {"rewrite"} ELSE unrecorded
  /\ UNCHANGED <<spec, status, workloads, apex, cd, view, budgets, tried, pushed>>

\* setPhaseInitialized: the tick's copy takes the phase and the applied hash,
\* and keeps its old promoted hash.
SetPhaseInitialized ==
  /\ Call("initialized", "shouldAdvance")
  /\ Write(Reset(status, "Initialized", 0, target.rev))
  /\ cd' = [cd EXCEPT !.phase = "Initialized", !.applied = target.rev]
  /\ UNCHANGED <<spec, workloads, routing, view, budgets, ghosts>>

\* Mutant: the phase added for the promotion gate is forgotten.
AdvancingWithoutGate(s) == s.phase \in {"Progressing", "Waiting", "Promoting", "Finalising"}

\* shouldAdvance: a rollout under way always advances; a failed one first
\* records the target it now has, then all others look for a new revision.
Advancing(s) ==
  s.phase \in {"Progressing", "Waiting", "WaitingPromotion", "Promoting", "Finalising"}

\* Mutant: the target is recorded as applied in every settled phase.
ShouldAdvanceSyncsAlways ==
  /\ Call("shouldAdvance", IF Advancing(cd) THEN "primaryReady" ELSE "targetChanged")
  /\ IF Advancing(cd) THEN UNCHANGED status
       ELSE Write(SyncStatus(status, cd.phase, cd.weight, cd.failed, cd.iter, target.rev))
  /\ UNCHANGED <<spec, workloads, routing, cd, view, budgets, ghosts>>

ShouldAdvance ==
  /\ Call("shouldAdvance", IF Advancing(cd) THEN "primaryReady" ELSE "targetChanged")
  /\ IF cd.phase = "Failed"
       THEN Write(SyncStatus(status, cd.phase, cd.weight, cd.failed, cd.iter, target.rev))
       ELSE UNCHANGED status
  /\ UNCHANGED <<spec, workloads, routing, cd, view, budgets, ghosts>>

HasTargetChanged ==
  /\ pc = "targetChanged"
  /\ IF HasSpecChanged(cd, target.rev) THEN pc' = "primaryReady" /\ UNCHANGED <<cd, view>>
                                       ELSE Return
  /\ UNCHANGED <<spec, status, workloads, routing, budgets, ghosts>>

\* A primary that is ready lets the tick read the routes and go on; a stuck one
\* rolls back, or halts a promotion that already updated it.
PrimaryReady ==
  /\ Call("primaryReady",
          IF cd.phase \in {"Progressing", "WaitingPromotion", "Promoting", "Finalising"}
            THEN "revisionChanged" ELSE "confirmRollout")
  /\ view' = GetRoutes(cd)
  /\ UNCHANGED <<spec, status, workloads, routing, cd, budgets, ghosts>>

PrimaryStuck ==
  /\ ~SkipAnalysis
  /\ Call("primaryReady",
          IF cd.phase \in {"Promoting", "Finalising"} THEN "haltPromotion" ELSE "rollback")
  /\ UNCHANGED <<spec, status, workloads, routing, cd, view, budgets, ghosts>>

------------------------------------------------------------------------------
\* checkCanaryStatus: start an analysis.

\* The Canary is read again, then the confirm-rollout gate is asked.
ConfirmRollout ==
  /\ Call("confirmRollout", "scaleUp")
  /\ cd' = status
  /\ UNCHANGED <<spec, status, workloads, routing, view, budgets, ghosts>>

RolloutHalted ==
  /\ pc = "confirmRollout"
  /\ Hook("confirm-rollout", FALSE)
  /\ Write(SetStatusPhase(status, "Waiting", Iterations))
  /\ Return
  /\ UNCHANGED <<spec, workloads, routing, budgets, ghosts>>

\* Mutant: a canary that was waiting is taken to be scaled up already.
ScaleFromZeroUnlessWaiting ==
  /\ Call("scaleUp", "syncProgressing")
  /\ target' = [target EXCEPT !.up = @ \/ cd.phase # "Waiting"]
  /\ UNCHANGED <<spec, status, primary, routing, cd, view, budgets, ghosts>>

ScaleFromZero ==
  /\ Call("scaleUp", "syncProgressing")
  /\ target' = [target EXCEPT !.up = TRUE]
  /\ UNCHANGED <<spec, status, primary, routing, cd, view, budgets, ghosts>>

SyncProgressing ==
  /\ pc = "syncProgressing"
  /\ Write(Reset(status, "Progressing", 0, target.rev))
  /\ tried' = tried \cup {target.rev}
  /\ unrecorded' = {}
  /\ Return
  /\ UNCHANGED <<spec, workloads, routing, budgets, pushed>>

------------------------------------------------------------------------------
\* hasCanaryRevisionChanged: restart an analysis whose target changed.

HasCanaryRevisionChanged ==
  /\ Call("revisionChanged",
          IF /\ cd.phase \in {"Progressing", "WaitingPromotion"}
             /\ HasSpecChanged(cd, target.rev)
            THEN "restart" ELSE "canaryReady")
  /\ UNCHANGED <<spec, status, workloads, routing, cd, view, budgets, ghosts>>

\* Mutant: the new revision inherits the traffic of the old one.
RestartRoutesKept ==
  /\ Call("restart", "syncRestart")
  /\ unrecorded' = unrecorded \cup {"restart"}
  /\ UNCHANGED <<spec, status, workloads, routing, cd, view, budgets, tried, pushed>>

RestartRoutes ==
  /\ Call("restart", "syncRestart")
  /\ SetRoutes(AllPrimary)
  /\ unrecorded' = unrecorded \cup {"restart"}
  /\ UNCHANGED <<spec, status, workloads, cd, view, budgets, tried, pushed>>

SyncRestart ==
  /\ pc = "syncRestart"
  /\ Write(Reset(status, "Progressing", 0, target.rev))
  /\ tried' = tried \cup {target.rev}
  /\ unrecorded' = unrecorded \ {"restart"}
  /\ Return
  /\ UNCHANGED <<spec, workloads, routing, budgets, pushed>>

------------------------------------------------------------------------------
\* The canary is checked, then the phase, the hooks and the counters choose
\* one way on.

Analysing == cd.phase \notin {"Promoting", "Finalising"}

CanaryStuck ==
  /\ Call("canaryReady", "rollback")
  /\ UNCHANGED <<spec, status, workloads, routing, cd, view, budgets, ghosts>>

ShouldSkipAnalysis ==
  /\ SkipAnalysis
  /\ Call("canaryReady", "skipRoutes")
  /\ UNCHANGED <<spec, status, workloads, routing, cd, view, budgets, ghosts>>

RollbackHook ==
  /\ ~SkipAnalysis
  /\ cd.phase \in {"Progressing", "Waiting", "WaitingPromotion"}
  /\ "rollback" \in Webhooks
  /\ Call("canaryReady", "rollback")
  /\ UNCHANGED <<spec, status, workloads, routing, cd, view, budgets, ghosts>>

\* Mutant: a promotion is finalised before the traffic was shifted.
ContinuePromotionAtOnce ==
  /\ ~SkipAnalysis
  /\ ~Analysing
  /\ Call("canaryReady", "finalise")
  /\ UNCHANGED <<spec, status, workloads, routing, cd, view, budgets, ghosts>>

ContinuePromotion ==
  /\ ~SkipAnalysis
  /\ ~Analysing
  /\ Call("canaryReady", IF cd.phase = "Promoting" THEN "shift" ELSE "finalise")
  /\ UNCHANGED <<spec, status, workloads, routing, cd, view, budgets, ghosts>>

ThresholdReached ==
  /\ ~SkipAnalysis
  /\ cd.phase \in {"Progressing", "WaitingPromotion"}
  /\ cd.failed >= Threshold
  /\ Call("canaryReady", "rollback")
  /\ UNCHANGED <<spec, status, workloads, routing, cd, view, budgets, ghosts>>

\* Before any traffic reaches the canary the pre-rollout webhooks are run
\* instead of the analysis.
BeforeTraffic ==
  /\ view.c = 0
  /\ cd.iter = 0
  /\ ~(Analysis.mirror /\ view.m)

\* Mutant: the threshold itself still passes.
MayAnalyseAtThreshold ==
  /\ pc = "canaryReady"
  /\ ~SkipAnalysis
  /\ Analysing
  /\ cd.failed <= Threshold

MayAnalyse ==
  /\ pc = "canaryReady"
  /\ ~SkipAnalysis
  /\ Analysing
  /\ cd.failed < Threshold

\* The metric checks of runAnalysis may fail whatever the webhooks are.
ChecksFail ==
  /\ MayAnalyse
  /\ BeforeTraffic => Hook("pre-rollout", FALSE)
  /\ pc' = "failedCheck"
  /\ UNCHANGED <<spec, status, workloads, routing, cd, view, budgets, ghosts>>

\* Mutant: the failure is not counted.
FailedCheckNotCounted ==
  /\ pc = "failedCheck"
  /\ Write(SetStatusFailedChecks(status, cd.failed))
  /\ Return
  /\ UNCHANGED <<spec, workloads, routing, budgets, ghosts>>

FailedCheck ==
  /\ pc = "failedCheck"
  /\ Write(SetStatusFailedChecks(status, cd.failed + 1))
  /\ Return
  /\ UNCHANGED <<spec, workloads, routing, budgets, ghosts>>

------------------------------------------------------------------------------
\* The strategies.  Each action is a passed analysis and the way it goes on.

\* runConfirmPromotionHooks rejecting: wait, or stay one iteration before the end.
PromotionHalted ==
  /\ Hook("confirm-promotion", FALSE)
  /\ Write(IF cd.phase # "WaitingPromotion"
             THEN SetStatusPhase(status, "WaitingPromotion", Iterations)
             ELSE SetStatusIterations(status, Iterations - 1))
  /\ Return
  /\ UNCHANGED <<spec, workloads, routing, budgets, ghosts>>

GoTo(label) ==
  /\ pc' = label
  /\ UNCHANGED <<spec, status, workloads, routing, cd, view, budgets, ghosts>>

NothingToDo ==
  /\ Return
  /\ UNCHANGED <<spec, status, workloads, routing, budgets, ghosts>>

\* Mutant: the step's sign unchecked.
RunCanaryUnchecked ==
  /\ MayAnalyse
  /\ Strategy = "Canary"
  /\ \/ view.c <= maxWeight(Analysis) /\ GoTo("increase")
     \/ view.c > maxWeight(Analysis) /\ (GoTo("promote") \/ PromotionHalted)

RunCanary ==
  /\ MayAnalyse
  /\ Strategy = "Canary"
  /\ \/ nextStepWeight(Analysis, view.c) <= 0 /\ NothingToDo
     \/ /\ nextStepWeight(Analysis, view.c) > 0
        /\ \/ /\ ~view.m /\ cd.phase # "WaitingPromotion"
              /\ Hook("confirm-traffic-increase", FALSE)
              /\ NothingToDo
           \/ view.c < maxWeight(Analysis) /\ GoTo("increase")
           \/ view.c >= maxWeight(Analysis) /\ (GoTo("promote") \/ PromotionHalted)

RunAB ==
  /\ MayAnalyse
  /\ Strategy = "ABTesting"
  /\ \/ Iterations > cd.iter /\ GoTo("abRoutes")
     \/ Iterations <= cd.iter /\ PromotionHalted
     \/ Iterations <= cd.iter /\ IF Iterations = cd.iter THEN GoTo("promote") ELSE NothingToDo

\* Mutant: promoted without the round that has all traffic on the canary.
RunBlueGreenShort ==
  /\ MayAnalyse
  /\ Strategy = "BlueGreen"
  /\ GoTo(IF Iterations > cd.iter THEN "setIterations" ELSE "promote")

RunBlueGreen ==
  /\ MayAnalyse
  /\ Strategy = "BlueGreen"
  /\ \/ /\ Iterations > cd.iter
        /\ GoTo(IF Meshed /\ Analysis.mirror /\ ~view.m THEN "bgMirror"
                                                                  ELSE "setIterations")
     \/ Iterations <= cd.iter /\ PromotionHalted
     \/ Iterations = cd.iter /\ GoTo("bgRoutes")
     \/ Iterations < cd.iter /\ GoTo("promote")

\* runCanary: move the next weight, then record it.
IncreaseWeight ==
  /\ Call("increase", "setWeight")
  /\ view' = IncreasedSplit(Analysis, view)
  /\ SetRoutes(view')
  /\ UNCHANGED <<spec, status, workloads, cd, budgets, ghosts>>

SetWeight ==
  /\ pc = "setWeight"
  /\ Write(SetStatusWeight(status, view.c))
  /\ Return
  /\ UNCHANGED <<spec, workloads, routing, budgets, ghosts>>

\* runAB and runBlueGreen at the end of the iterations: all traffic to the canary.
RouteToCanary ==
  /\ pc \in {"abRoutes", "bgRoutes"}
  /\ pc' = "setIterations"
  /\ SetRoutes(AllCanary)
  /\ UNCHANGED <<spec, status, workloads, cd, view, budgets, ghosts>>

\* runBlueGreen logs an error of this call and goes on.
MirrorTraffic ==
  /\ Call("bgMirror", "setIterations")
  /\ \/ SetRoutes(Split(totalWeight, 0, TRUE)) /\ UNCHANGED faults
     \/ faults < MaxFaults /\ faults' = faults + 1 /\ UNCHANGED routing
  /\ UNCHANGED <<spec, status, workloads, cd, view, userOps, ghosts>>

SetIterations ==
  /\ pc = "setIterations"
  /\ Write(SetStatusIterations(status, cd.iter + 1))
  /\ Return
  /\ UNCHANGED <<spec, workloads, routing, budgets, ghosts>>

------------------------------------------------------------------------------
\* Promotion.

\* Promote copies the target as it is now, not as it was analysed, and with its
\* replicas.
Promote ==
  /\ \/ Call("promote", "setPromoting")
     \/ Call("skipPromote", "finalise")
  /\ primary' = target
  /\ unrecorded' = IF target.rev = status.applied THEN unrecorded \ {"overtaken"}
                                                 ELSE unrecorded \cup {"overtaken"}
  /\ UNCHANGED <<spec, status, target, routing, cd, view, budgets, tried, pushed>>

SetPromoting ==
  /\ pc = "setPromoting"
  /\ Write(SetStatusPhase(status, "Promoting", Iterations))
  /\ Return
  /\ UNCHANGED <<spec, workloads, routing, budgets, ghosts>>

\* runPromotionTrafficShift.
ShiftAtOnce ==
  /\ Meshed /\ Analysis.stepWeightPromotion = 0
  /\ Call("shift", "setFinalising")
  /\ SetRoutes(AllPrimary)
  /\ UNCHANGED <<spec, status, workloads, cd, view, budgets, ghosts>>

\* Mutant: finalised after the first step.
ShiftStepOnce ==
  /\ Meshed /\ Analysis.stepWeightPromotion > 0
  /\ view.c > 0
  /\ Call("shift", "setFinalising")
  /\ view' = PromotedSplit(Analysis, view)
  /\ SetRoutes(view')
  /\ UNCHANGED <<spec, status, workloads, cd, budgets, ghosts>>

ShiftStep ==
  /\ Meshed /\ Analysis.stepWeightPromotion > 0
  /\ view.c > 0
  /\ pc = "shift"
  /\ view' = PromotedSplit(Analysis, view)
  /\ SetRoutes(view')
  /\ pc' = IF view'.p = totalWeight THEN "setFinalising" ELSE "setWeight"
  /\ UNCHANGED <<spec, status, workloads, cd, budgets, ghosts>>

NothingToShift ==
  /\ pc = "shift"
  /\ IF ~Meshed
       THEN GoTo("setFinalising")
       ELSE Analysis.stepWeightPromotion > 0 /\ view.c = 0 /\ NothingToDo

SetFinalising ==
  /\ pc = "setFinalising"
  /\ Write(SetStatusPhase(status, "Finalising", Iterations))
  /\ Return
  /\ UNCHANGED <<spec, workloads, routing, budgets, ghosts>>

\* The end of a promotion, and of a skipped analysis: the canary is shut down.
Finalise ==
  /\ Call("finalise", "setSucceeded")
  /\ target' = [target EXCEPT !.up = FALSE]
  /\ unrecorded' = unrecorded \cup {"finalise"}
  /\ UNCHANGED <<spec, status, primary, routing, cd, view, budgets, tried, pushed>>

\* Mutant: the target's hash is recorded as promoted, not the analysed one.
SetSucceededTarget ==
  /\ pc = "setSucceeded"
  /\ Write([Reset(status, "Succeeded", 0, target.rev) EXCEPT !.promoted = target.rev])
  /\ unrecorded' = unrecorded \ {"finalise"}
  /\ Return
  /\ UNCHANGED <<spec, workloads, routing, budgets, tried, pushed>>

SetSucceeded ==
  /\ pc = "setSucceeded"
  /\ Write(SetStatusPhase(status, "Succeeded", Iterations))
  /\ unrecorded' = unrecorded \ {"finalise"}
  /\ Return
  /\ UNCHANGED <<spec, workloads, routing, budgets, tried, pushed>>

\* shouldSkipAnalysis: all traffic to the primary, then promote and finish.
SkipRoutes ==
  /\ Call("skipRoutes", "skipPromote")
  /\ SetRoutes(AllPrimary)
  /\ UNCHANGED <<spec, status, workloads, cd, view, budgets, ghosts>>

------------------------------------------------------------------------------
\* rollback and handleFailedPromotion.

RollbackRoutes ==
  /\ Call("rollback", "rollbackScale")
  /\ SetRoutes(AllPrimary)
  /\ unrecorded' = unrecorded \cup {"rollback"}
  /\ UNCHANGED <<spec, status, workloads, cd, view, budgets, tried, pushed>>

\* A first primary that is stuck is rolled back before a mesh router other than
\* AppMesh's is reconciled: unless users have the object already, SetRoutes fails.
RollbackWithoutRoutes ==
  /\ pc = "rollback"
  /\ ~Routable
  /\ NothingToDo

RollbackScale ==
  /\ Call("rollbackScale", "syncFailed")
  /\ target' = [target EXCEPT !.up = FALSE]
  /\ UNCHANGED <<spec, status, primary, routing, cd, view, budgets, ghosts>>

SyncFailed ==
  /\ pc = "syncFailed"
  /\ Write(Reset(status, "Failed", 0, target.rev))
  /\ unrecorded' = {}
  /\ Return
  /\ UNCHANGED <<spec, workloads, routing, budgets, tried, pushed>>

HaltPromotion ==
  /\ Call("haltPromotion", "syncHalted")
  /\ SetRoutes(AllCanary)
  /\ unrecorded' = unrecorded \cup {"halt"}
  /\ UNCHANGED <<spec, status, workloads, cd, view, budgets, tried, pushed>>

SyncHalted ==
  /\ pc = "syncHalted"
  /\ Write(Reset(status, "Failed", totalWeight, target.rev))
  /\ unrecorded' = unrecorded \ {"halt"}
  /\ Return
  /\ UNCHANGED <<spec, workloads, routing, budgets, tried, pushed>>

------------------------------------------------------------------------------
Bootstrap ==
  \/ GetCanary \/ Initialize \/ ReconcileApex \/ ScaleDownTarget \/ ReconcileMesh
  \/ SetPhaseInitialized \/ ShouldAdvance \/ HasTargetChanged
  \/ PrimaryReady \/ PrimaryStuck

Start ==
  \/ ConfirmRollout \/ RolloutHalted \/ ScaleFromZero \/ SyncProgressing
  \/ HasCanaryRevisionChanged \/ RestartRoutes \/ SyncRestart

Decide ==
  \/ CanaryStuck \/ ShouldSkipAnalysis \/ RollbackHook \/ ContinuePromotion
  \/ ThresholdReached \/ ChecksFail \/ FailedCheck

Analyse ==
  \/ RunCanary \/ RunAB \/ RunBlueGreen
  \/ IncreaseWeight \/ SetWeight \/ RouteToCanary \/ MirrorTraffic \/ SetIterations

Conclude ==
  \/ Promote \/ SetPromoting \/ ShiftAtOnce \/ ShiftStep \/ NothingToShift \/ SetFinalising
  \/ Finalise \/ SetSucceeded \/ SkipRoutes
  \/ RollbackRoutes \/ RollbackWithoutRoutes \/ RollbackScale \/ SyncFailed
  \/ HaltPromotion \/ SyncHalted

\* The job's goroutine.
Tick == Bootstrap \/ Start \/ Decide \/ Analyse \/ Conclude

User == PushRevision \/ EditService

Next == Tick \/ Abort \/ User \/ SetPhaseInitializing

Spec == Init /\ [][Next]_vars

\* The ticker never stops, so a tick's next call is made sooner or later, and
\* the informer delivers the new canary.
FairSpec == Spec /\ WF_vars(Tick) /\ WF_vars(SetPhaseInitializing)
==============================================================================
