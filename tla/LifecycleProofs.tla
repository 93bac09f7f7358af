--------------------------- MODULE LifecycleProofs ---------------------------
(***************************************************************************)
(* Scheduler implements Lifecycle, for every instance of Scheduler: each   *)
(* call of a tick, each cut tick and each act of a user is a step of the   *)
(* lifecycle or leaves it where it is.  Then the safety of the traffic and *)
(* of the failure counter, each with an inductive invariant of its own.    *)
(***************************************************************************)
EXTENDS SchedulerProofs

USE DEF locals, workloads, routing, budgets, ghosts, AfterServices, AfterReconciled

------------------------------------------------------------------------------
\* What the writes of the status make of its phase.

LEMMA PhaseWritten ==
  ASSUME NEW s \in Statuses, NEW p, NEW w, NEW f, NEW n, NEW h
  PROVE  /\ SetStatusPhase(s, p, n).phase = p
         /\ SyncStatus(s, p, w, f, n, h).phase = p
         /\ Reset(s, p, w, h).phase = p
         /\ SetStatusFailedChecks(s, n).phase = s.phase
         /\ SetStatusWeight(s, n).phase = s.phase
         /\ SetStatusIterations(s, n).phase = s.phase
         /\ [s EXCEPT !.phase = p].phase = p
         /\ [s EXCEPT !.phase = p, !.applied = h].phase = p
BY DEF Statuses, SetStatusPhase, SyncStatus, Reset, SetStatusFailedChecks, SetStatusWeight,
       SetStatusIterations

------------------------------------------------------------------------------
\* Where a tick is in the lifecycle.

Resting  == {"Initialized", "Succeeded", "Failed", "Waiting"}
Analysed == {"Progressing", "WaitingPromotion"}
Advanced == Analysed \cup {"Promoting", "Finalising"}

\* The calls by which a tick has updated the primary and not the phase.
Committing == {"setPromoting", "finalise", "setSucceeded"}

\* The phase that each call of a tick is made in; it is the one the tick read.
CallPhases ==
  /\ pc # "idle" => status.phase # "None" /\ cd.phase = status.phase
  /\ pc \in {"scaleDown", "initialized"} => status.phase = "Initializing"
  /\ pc \in {"shouldAdvance", "targetChanged", "primaryReady"} => status.phase # "Initializing"
  /\ pc \in {"confirmRollout", "scaleUp", "syncProgressing"} => status.phase \in Resting
  /\ pc \in {"revisionChanged", "canaryReady"} => status.phase \in Advanced
  /\ pc \in {"restart", "syncRestart", "failedCheck", "increase", "abRoutes", "bgRoutes", "bgMirror",
             "setIterations", "promote", "setPromoting", "skipRoutes", "skipPromote"} =>
       status.phase \in Analysed
  /\ pc \in {"shift", "setFinalising"} => status.phase = "Promoting"
  /\ pc \in {"haltPromotion", "syncHalted"} => status.phase \in {"Promoting", "Finalising"}
  /\ pc \in {"finalise", "setSucceeded"} =>
       status.phase \in IF SkipAnalysis THEN Analysed ELSE {"Finalising"}

\* A canary that skips the analysis knows no promotion, and nothing else skips it.
SkipPhases ==
  /\ SkipAnalysis => status.phase \notin {"Promoting", "Finalising"}
  /\ pc \in {"promote", "setPromoting", "shift", "setFinalising"} => ~SkipAnalysis
  /\ pc \in {"skipRoutes", "skipPromote"} => SkipAnalysis

\* The primary is created before the tick goes on, and is never without a revision.
PrimaryExists ==
  primary.rev = NoRev =>
    /\ primary = NoPrimary
    /\ status.phase \in {"None", "Initializing"}
    /\ pc \in {"idle", "initialize"} \/ (MeshFirst /\ pc = "mesh")

LifeInv == CallPhases /\ SkipPhases /\ PrimaryExists

AbstractStep == [Abstract!Next]_(Abstract!vars)

\* The lifecycle's view of committed.
Committed ==
  IF pc = "setPromoting" THEN "analysed"
  ELSE IF SkipAnalysis /\ pc \in {"finalise", "setSucceeded"} THEN "skipped"
  ELSE "no"

LEMMA Stutters ==
  ASSUME status'.phase = status.phase, primary'.rev = primary.rev, Committed' = Committed
  PROVE  AbstractStep
BY DEF AbstractStep, Abstract!vars, Committed

\* A call that commits nothing, writes no phase and leaves the primary alone.
LEMMA Quiet ==
  ASSUME spec' = spec, primary' = primary, status'.phase = status.phase,
         pc \notin Committing, pc' \notin Committing
  PROVE  AbstractStep
BY Stutters DEF Committed, Committing

\* A write of a phase is the lifecycle's step to it.
LEMMA Becomes ==
  ASSUME NEW p, status'.phase = p, primary' = primary, pc' \notin Committing,
         \/ status.phase = "None" /\ p = "Initializing"
         \/ status.phase = "Initializing" /\ primary.rev # NoRev /\ p = "Initialized"
         \/ status.phase \in Resting /\ p \in {"Waiting", "Progressing"}
         \/ status.phase \in Analysed /\ p \in {"Progressing", "WaitingPromotion"}
         \/ status.phase \in Analysed /\ Committed = "analysed" /\ p = "Promoting"
         \/ status.phase = "Promoting" /\ p = "Finalising"
         \/ (status.phase = "Finalising" \/ Committed = "skipped") /\ p = "Succeeded"
         \/ status.phase # "None" /\ primary.rev # NoRev /\ Committed = "no" /\ p = "Failed"
  PROVE  AbstractStep
<1>1. Committed' = "no"
  BY DEF Committed, Committing
<1> QED
  BY <1>1 DEF AbstractStep, Committed, Resting, Analysed, Abstract!Next, Abstract!Register,
     Abstract!Ready, Abstract!Wait, Abstract!Begin, Abstract!Again, Abstract!Gate,
     Abstract!Promote, Abstract!Finalise, Abstract!Succeed, Abstract!Fail, Abstract!Become,
     Abstract!Settled, Abstract!Analysing

\* A tick that ends.
LEMMA Returned ==
  ASSUME LifeInv, Return, spec' = spec, primary' = primary,
         SkipAnalysis => status'.phase \notin {"Promoting", "Finalising"},
         primary.rev = NoRev => status'.phase \in {"None", "Initializing"}
  PROVE  LifeInv'
BY DEF Return, LifeInv, CallPhases, SkipPhases, PrimaryExists, SkipAnalysis, MeshFirst

\* A tick that ends and writes no phase.
LEMMA ReturnedQuiet ==
  ASSUME LifeInv, Return, spec' = spec, primary' = primary, status'.phase = status.phase,
         pc \notin Committing
  PROVE  LifeInv' /\ AbstractStep
<1>1. LifeInv'
  BY Returned DEF LifeInv, SkipPhases, PrimaryExists
<1>2. AbstractStep
  BY Quiet DEF Return, Committing
<1> QED BY <1>1, <1>2

\* A tick that goes on with the status and the primary as they are.
LEMMA WentOn ==
  ASSUME LifeInv, UNCHANGED <<spec, primary>>, status'.phase = status.phase,
         pc \notin Committing \cup {"idle", "initialize", "mesh"},
         pc' \notin Committing \cup {"idle", "initialize"},
         cd'.phase = status.phase, CallPhases', SkipPhases'
  PROVE  LifeInv' /\ AbstractStep
<1>1. PrimaryExists'
  BY DEF LifeInv, PrimaryExists
<1> QED BY <1>1, Quiet DEF LifeInv

------------------------------------------------------------------------------
LEMMA BootstrapSteps ==
  ASSUME TypeInv, LifeInv, Bootstrap
  PROVE  LifeInv' /\ AbstractStep
<1> USE DEF Call, SkipAnalysis
<1>0. status \in Statuses /\ cd \in Statuses /\ target.rev \in Revs
  BY TypeFacts
<1>1. CASE GetCanary
  <2>1. LifeInv'
    BY <1>1 DEF GetCanary, LifeInv, CallPhases, SkipPhases, PrimaryExists, MeshFirst, Provider
  <2>2. AbstractStep
    BY <1>1, Quiet DEF GetCanary, Committing
  <2> QED BY <2>1, <2>2
<1>2. CASE Initialize
  <2>0. target.rev # NoRev
    BY <1>0, NoRevAssumption
  <2>1. pc' \in {"reconcile", "rollback"} /\ UNCHANGED <<spec, status, cd>> /\ pc = "initialize"
    BY <1>2 DEF Initialize
  <2>2. CASE primary = NoPrimary
    <3>1. primary'.rev = target.rev
      BY <1>2, <2>2 DEF Initialize, Deployment
    <3>2. status.phase = "Initializing" /\ primary.rev = NoRev
      BY <2>1, <2>2 DEF LifeInv, CallPhases, PrimaryExists, NoPrimary, Deployment
    <3>3. LifeInv'
      BY <2>0, <2>1, <3>1, <3>2 DEF LifeInv, CallPhases, SkipPhases, PrimaryExists
    <3>4. Committed = "no" /\ Committed' = "no"
      BY <2>1 DEF Committed
    <3>5. AbstractStep
      BY <1>0, <2>1, <3>1, <3>2, <3>4
         DEF AbstractStep, Committed, Abstract!Next, Abstract!Create
    <3> QED BY <3>3, <3>5
  <2>3. CASE primary # NoPrimary
    <3>1. primary' = primary
      BY <1>2, <2>3 DEF Initialize
    <3>2. LifeInv'
      BY <2>1, <2>3, <3>1 DEF LifeInv, CallPhases, SkipPhases, PrimaryExists
    <3> QED BY <2>1, <3>1, <3>2, Quiet DEF Committing
  <2> QED BY <2>2, <2>3
<1>3. CASE ReconcileApex
  BY <1>3, WentOn DEF ReconcileApex, LifeInv, CallPhases, SkipPhases, Committing, Initialising
<1>4. CASE ScaleDownTarget
  BY <1>4, WentOn
     DEF ScaleDownTarget, LifeInv, CallPhases, SkipPhases, Committing, Initialising
<1>5. CASE ReconcileMesh
  <2>1. /\ pc = "mesh" /\ UNCHANGED <<spec, status, cd, primary>>
        /\ pc' = IF MeshFirst THEN "initialize" ELSE AfterReconciled
    BY <1>5 DEF ReconcileMesh
  <2>2. LifeInv'
    BY <2>1 DEF LifeInv, CallPhases, SkipPhases, PrimaryExists, Initialising
  <2> QED BY <2>1, <2>2, Quiet DEF Committing
<1>6. CASE SetPhaseInitialized
  <2>1. status'.phase = "Initialized" /\ cd'.phase = "Initialized"
    BY <1>0, <1>6, PhaseWritten DEF SetPhaseInitialized, Write
  <2>2. LifeInv'
    BY <1>6, <2>1 DEF SetPhaseInitialized, LifeInv, CallPhases, SkipPhases, PrimaryExists
  <2>3. status.phase = "Initializing" /\ primary.rev # NoRev
    BY <1>6 DEF SetPhaseInitialized, LifeInv, CallPhases, PrimaryExists
  <2>4. AbstractStep
    BY <1>6, <2>1, <2>3, Becomes DEF SetPhaseInitialized, Committing
  <2> QED BY <2>2, <2>4
<1>7. CASE ShouldAdvance
  <2>1. status'.phase = status.phase
    BY <1>0, <1>7, PhaseWritten DEF ShouldAdvance, Write, LifeInv, CallPhases
  <2> QED
    BY <1>7, <2>1, WentOn DEF ShouldAdvance, LifeInv, CallPhases, SkipPhases, Committing
<1>8. CASE HasTargetChanged
  <2>1. CASE Return
    BY <1>8, <2>1, ReturnedQuiet DEF HasTargetChanged, Committing
  <2>2. CASE pc' = "primaryReady" /\ cd' = cd
    BY <1>8, <2>2, WentOn DEF HasTargetChanged, LifeInv, CallPhases, SkipPhases, Committing
  <2> QED BY <1>8, <2>1, <2>2 DEF HasTargetChanged
<1>9. CASE PrimaryReady
  <2>1. status.phase \in Phases \ {"None", "Initializing"} /\ cd.phase = status.phase
    BY <1>0, <1>9, StatusFields DEF PrimaryReady, LifeInv, CallPhases
  <2> QED
    BY <1>9, <2>1, WentOn
       DEF PrimaryReady, LifeInv, CallPhases, SkipPhases, Committing, Phases, Resting, Advanced,
           Analysed
<1>10. CASE PrimaryStuck
  BY <1>10, WentOn DEF PrimaryStuck, LifeInv, CallPhases, SkipPhases, Committing
<1> QED
  BY <1>1, <1>2, <1>3, <1>4, <1>5, <1>6, <1>7, <1>8, <1>9, <1>10 DEF Bootstrap

LEMMA StartSteps ==
  ASSUME TypeInv, LifeInv, Start
  PROVE  LifeInv' /\ AbstractStep
<1> USE DEF Call, SkipAnalysis
<1>0. status \in Statuses
  BY TypeFacts
<1>1. CASE ConfirmRollout
  BY <1>1, WentOn DEF ConfirmRollout, LifeInv, CallPhases, SkipPhases, Committing
<1>2. CASE RolloutHalted
  <2>1. status'.phase = "Waiting"
    BY <1>0, <1>2, PhaseWritten DEF RolloutHalted, Write
  <2>2. status.phase \in Resting /\ primary.rev # NoRev
    BY <1>2 DEF RolloutHalted, LifeInv, CallPhases, PrimaryExists
  <2>3. LifeInv'
    BY <1>2, <2>1, <2>2, Returned DEF RolloutHalted
  <2>4. AbstractStep
    BY <1>2, <2>1, <2>2, Becomes DEF RolloutHalted, Return, Committing
  <2> QED BY <2>3, <2>4
<1>3. CASE ScaleFromZero
  BY <1>3, WentOn DEF ScaleFromZero, LifeInv, CallPhases, SkipPhases, Committing
<1>4. CASE SyncProgressing
  <2>1. status'.phase = "Progressing"
    BY <1>0, <1>4, PhaseWritten DEF SyncProgressing, Write
  <2>2. status.phase \in Resting /\ primary.rev # NoRev
    BY <1>4 DEF SyncProgressing, LifeInv, CallPhases, PrimaryExists
  <2>3. LifeInv'
    BY <1>4, <2>1, <2>2, Returned DEF SyncProgressing
  <2>4. AbstractStep
    BY <1>4, <2>1, <2>2, Becomes DEF SyncProgressing, Return, Committing
  <2> QED BY <2>3, <2>4
<1>5. CASE HasCanaryRevisionChanged
  BY <1>5, WentOn
     DEF HasCanaryRevisionChanged, LifeInv, CallPhases, SkipPhases, Committing, Analysed
<1>6. CASE RestartRoutes
  BY <1>6, WentOn DEF RestartRoutes, LifeInv, CallPhases, SkipPhases, Committing
<1>7. CASE SyncRestart
  <2>1. status'.phase = "Progressing"
    BY <1>0, <1>7, PhaseWritten DEF SyncRestart, Write
  <2>2. status.phase \in Analysed /\ primary.rev # NoRev
    BY <1>7 DEF SyncRestart, LifeInv, CallPhases, PrimaryExists
  <2>3. LifeInv'
    BY <1>7, <2>1, <2>2, Returned DEF SyncRestart
  <2>4. AbstractStep
    BY <1>7, <2>1, <2>2, Becomes DEF SyncRestart, Return, Committing
  <2> QED BY <2>3, <2>4
<1> QED
  BY <1>1, <1>2, <1>3, <1>4, <1>5, <1>6, <1>7 DEF Start

LEMMA DecideSteps ==
  ASSUME TypeInv, LifeInv, Decide
  PROVE  LifeInv' /\ AbstractStep
<1> USE DEF Call, SkipAnalysis
<1>1. CASE CanaryStuck \/ RollbackHook \/ ThresholdReached
  BY <1>1, WentOn
     DEF CanaryStuck, RollbackHook, ThresholdReached, LifeInv, CallPhases, SkipPhases, Committing
<1>2. CASE ShouldSkipAnalysis
  <2>1. status.phase \in Analysed
    BY <1>2 DEF ShouldSkipAnalysis, LifeInv, CallPhases, SkipPhases, Advanced
  <2> QED
    BY <1>2, <2>1, WentOn DEF ShouldSkipAnalysis, LifeInv, CallPhases, SkipPhases, Committing
<1>3. CASE ContinuePromotion
  <2>1. /\ status.phase \in {"Promoting", "Finalising"} /\ ~spec.skipAnalysis /\ pc = "canaryReady"
        /\ pc' = IF status.phase = "Promoting" THEN "shift" ELSE "finalise"
        /\ UNCHANGED <<spec, status, primary, cd>>
    BY <1>3 DEF ContinuePromotion, Analysing, LifeInv, CallPhases
  <2>2. LifeInv'
    BY <2>1 DEF LifeInv, CallPhases, SkipPhases, PrimaryExists
  <2>3. AbstractStep
    BY <2>1, Stutters DEF Committed
  <2> QED BY <2>2, <2>3
<1>4. CASE ChecksFail
  <2>1. status.phase \in Analysed
    BY <1>4 DEF ChecksFail, MayAnalyse, Analysing, LifeInv, CallPhases, Advanced
  <2> QED
    BY <1>4, <2>1, WentOn DEF ChecksFail, MayAnalyse, LifeInv, CallPhases, SkipPhases, Committing
<1>5. CASE FailedCheck
  <2>1. status'.phase = status.phase
    BY <1>5, TypeFacts, PhaseWritten DEF FailedCheck, Write
  <2> QED BY <1>5, <2>1, ReturnedQuiet DEF FailedCheck, Committing
<1> QED BY <1>1, <1>2, <1>3, <1>4, <1>5 DEF Decide

LEMMA AnalyseSteps ==
  ASSUME TypeInv, LifeInv, Analyse
  PROVE  LifeInv' /\ AbstractStep
<1> USE DEF Call, SkipAnalysis
<1>0. status \in Statuses
  BY TypeFacts
<1>1. ASSUME MayAnalyse
      PROVE  status.phase \in Analysed /\ cd.phase = status.phase /\ primary.rev # NoRev
             /\ pc = "canaryReady" /\ ~spec.skipAnalysis
  BY <1>1 DEF MayAnalyse, Analysing, Advanced, LifeInv, CallPhases, PrimaryExists
<1>2. ASSUME NEW label \in {"increase", "promote", "abRoutes", "bgRoutes", "bgMirror",
                            "setIterations"}, MayAnalyse, GoTo(label)
      PROVE  LifeInv' /\ AbstractStep
  BY <1>1, <1>2, WentOn DEF GoTo, LifeInv, CallPhases, SkipPhases, Committing
<1>3. ASSUME MayAnalyse, NothingToDo
      PROVE  LifeInv' /\ AbstractStep
  BY <1>1, <1>3, ReturnedQuiet DEF NothingToDo, Committing
<1>4. ASSUME MayAnalyse, PromotionHalted
      PROVE  LifeInv' /\ AbstractStep
  <2>1. status'.phase \in {"WaitingPromotion", status.phase}
    BY <1>0, <1>4, PhaseWritten DEF PromotionHalted, Write
  <2>2. LifeInv'
    BY <1>1, <1>4, <2>1, Returned DEF PromotionHalted, Analysed
  <2>3. CASE status'.phase = "WaitingPromotion"
    BY <1>1, <1>4, <2>2, <2>3, Becomes DEF PromotionHalted, Return, Committing
  <2>4. CASE status'.phase = status.phase
    BY <1>1, <1>4, <2>4, ReturnedQuiet DEF PromotionHalted, Committing
  <2> QED BY <2>1, <2>3, <2>4
<1>5. CASE RunCanary
  BY <1>2, <1>3, <1>4, <1>5 DEF RunCanary
<1>6. CASE RunAB
  BY <1>2, <1>3, <1>4, <1>6 DEF RunAB
<1>7. CASE RunBlueGreen
  BY <1>2, <1>4, <1>7 DEF RunBlueGreen
<1>8. CASE IncreaseWeight \/ RouteToCanary \/ MirrorTraffic
  BY <1>8, WentOn
     DEF IncreaseWeight, RouteToCanary, MirrorTraffic, LifeInv, CallPhases, SkipPhases, Committing
<1>9. CASE SetWeight
  <2>1. status'.phase = status.phase
    BY <1>0, <1>9, PhaseWritten DEF SetWeight, Write
  <2> QED BY <1>9, <2>1, ReturnedQuiet DEF SetWeight, Committing
<1>10. CASE SetIterations
  <2>1. status'.phase = status.phase
    BY <1>0, <1>10, PhaseWritten DEF SetIterations, Write
  <2> QED BY <1>10, <2>1, ReturnedQuiet DEF SetIterations, Committing
<1> QED BY <1>5, <1>6, <1>7, <1>8, <1>9, <1>10 DEF Analyse

LEMMA ConcludeSteps ==
  ASSUME TypeInv, LifeInv, Conclude
  PROVE  LifeInv' /\ AbstractStep
<1> USE DEF Call, SkipAnalysis
<1>0. status \in Statuses /\ target.rev \in Revs /\ target.rev # NoRev
  BY TypeFacts, NoRevAssumption
<1>1. CASE Promote
  <2>1. /\ UNCHANGED <<spec, status, cd>> /\ primary' = target
        /\ status.phase \in Analysed /\ cd.phase = status.phase
        /\ \/ pc = "promote" /\ pc' = "setPromoting" /\ ~spec.skipAnalysis
           \/ pc = "skipPromote" /\ pc' = "finalise" /\ spec.skipAnalysis
    BY <1>1 DEF Promote, LifeInv, CallPhases, SkipPhases
  <2>2. LifeInv'
    BY <1>0, <2>1 DEF LifeInv, CallPhases, SkipPhases, PrimaryExists, Analysed
  <2>3. Committed' \in {"analysed", "skipped"}
    BY <2>1 DEF Committed
  <2>4. AbstractStep
    BY <1>0, <2>1, <2>3
       DEF AbstractStep, Committed, Analysed, Abstract!Next, Abstract!Commit, Abstract!Analysing
  <2> QED BY <2>2, <2>4
<1>2. CASE SetPromoting
  <2>1. status'.phase = "Promoting"
    BY <1>0, <1>2, PhaseWritten DEF SetPromoting, Write
  <2>2. status.phase \in Analysed /\ primary.rev # NoRev /\ ~spec.skipAnalysis
    BY <1>2 DEF SetPromoting, LifeInv, CallPhases, SkipPhases, PrimaryExists
  <2>3. LifeInv'
    BY <1>2, <2>1, <2>2, Returned DEF SetPromoting
  <2>4. AbstractStep
    BY <1>2, <2>1, <2>2, Becomes DEF SetPromoting, Return, Committing, Committed
  <2> QED BY <2>3, <2>4
<1>3. CASE ShiftAtOnce
  BY <1>3, WentOn DEF ShiftAtOnce, LifeInv, CallPhases, SkipPhases, Committing
<1>4. CASE ShiftStep
  BY <1>4, WentOn DEF ShiftStep, LifeInv, CallPhases, SkipPhases, Committing
<1>5. CASE NothingToShift
  <2>1. CASE GoTo("setFinalising")
    BY <1>5, <2>1, WentOn DEF NothingToShift, GoTo, LifeInv, CallPhases, SkipPhases, Committing
  <2>2. CASE NothingToDo
    BY <1>5, <2>2, ReturnedQuiet DEF NothingToShift, NothingToDo, Committing
  <2> QED BY <1>5, <2>1, <2>2 DEF NothingToShift
<1>6. CASE SetFinalising
  <2>1. status'.phase = "Finalising"
    BY <1>0, <1>6, PhaseWritten DEF SetFinalising, Write
  <2>2. status.phase = "Promoting" /\ primary.rev # NoRev /\ ~spec.skipAnalysis
    BY <1>6 DEF SetFinalising, LifeInv, CallPhases, SkipPhases, PrimaryExists
  <2>3. LifeInv'
    BY <1>6, <2>1, <2>2, Returned DEF SetFinalising
  <2>4. AbstractStep
    BY <1>6, <2>1, <2>2, Becomes DEF SetFinalising, Return, Committing
  <2> QED BY <2>3, <2>4
<1>7. CASE Finalise
  <2>1. LifeInv'
    BY <1>7 DEF Finalise, LifeInv, CallPhases, SkipPhases, PrimaryExists
  <2>2. AbstractStep
    BY <1>7, Stutters DEF Finalise, Committed
  <2> QED BY <2>1, <2>2
<1>8. CASE SetSucceeded
  <2>1. status'.phase = "Succeeded"
    BY <1>0, <1>8, PhaseWritten DEF SetSucceeded, Write
  <2>2. (status.phase = "Finalising" \/ Committed = "skipped") /\ primary.rev # NoRev
    BY <1>8 DEF SetSucceeded, LifeInv, CallPhases, PrimaryExists, Committed
  <2>3. LifeInv'
    BY <1>8, <2>1, <2>2, Returned DEF SetSucceeded
  <2>4. AbstractStep
    BY <1>8, <2>1, <2>2, Becomes DEF SetSucceeded, Return, Committing
  <2> QED BY <2>3, <2>4
<1>9. CASE SkipRoutes \/ RollbackRoutes \/ RollbackScale \/ HaltPromotion
  BY <1>9, WentOn
     DEF SkipRoutes, RollbackRoutes, RollbackScale, HaltPromotion, LifeInv, CallPhases,
         SkipPhases, Committing
<1>10. CASE RollbackWithoutRoutes
  BY <1>10, ReturnedQuiet DEF RollbackWithoutRoutes, NothingToDo, Committing
<1>11. CASE SyncFailed \/ SyncHalted
  <2>1. status'.phase = "Failed"
    BY <1>0, <1>11, PhaseWritten DEF SyncFailed, SyncHalted, Write
  <2>2. status.phase # "None" /\ primary.rev # NoRev /\ Committed = "no"
    BY <1>11 DEF SyncFailed, SyncHalted, LifeInv, CallPhases, PrimaryExists, Committed
  <2>3. LifeInv'
    BY <1>11, <2>1, <2>2, Returned DEF SyncFailed, SyncHalted
  <2>4. AbstractStep
    BY <1>11, <2>1, <2>2, Becomes DEF SyncFailed, SyncHalted, Return, Committing
  <2> QED BY <2>3, <2>4
<1> QED
  BY <1>1, <1>2, <1>3, <1>4, <1>5, <1>6, <1>7, <1>8, <1>9, <1>10, <1>11 DEF Conclude

\* A cut tick forgets that it has updated the primary; users are not seen.
LEMMA EnvironmentSteps ==
  ASSUME TypeInv, LifeInv, Abort \/ User \/ SetPhaseInitializing
  PROVE  LifeInv' /\ AbstractStep
<1>1. CASE Abort
  <2>1. LifeInv'
    BY <1>1, Returned DEF Abort, LifeInv, SkipPhases, PrimaryExists
  <2>2. Committed' = "no"
    BY <1>1 DEF Abort, Return, Committed
  <2>3. AbstractStep
    BY <1>1, <2>2
       DEF Abort, AbstractStep, Committed, Abstract!Next, Abstract!Forget, Abstract!vars
  <2> QED BY <2>1, <2>3
<1>2. CASE User
  <2>1. UNCHANGED <<spec, status, primary, pc, cd>>
    BY <1>2 DEF User, PushRevision, EditService
  <2>2. LifeInv'
    BY <2>1
       DEF LifeInv, CallPhases, SkipPhases, PrimaryExists, SkipAnalysis, MeshFirst, Provider
  <2>3. AbstractStep
    BY <2>1, Stutters DEF Committed, SkipAnalysis
  <2> QED BY <2>2, <2>3
<1>3. CASE SetPhaseInitializing
  <2>1. status'.phase = "Initializing" /\ status.phase = "None"
    BY <1>3, TypeFacts, PhaseWritten DEF SetPhaseInitializing, Write
  <2>2. pc = "idle"
    BY <2>1 DEF LifeInv, CallPhases
  <2>3. LifeInv'
    BY <1>3, <2>1, <2>2
       DEF SetPhaseInitializing, LifeInv, CallPhases, SkipPhases, PrimaryExists, SkipAnalysis
  <2>4. AbstractStep
    BY <1>3, <2>1, <2>2, Becomes DEF SetPhaseInitializing, Committing
  <2> QED BY <2>3, <2>4
<1> QED BY <1>1, <1>2, <1>3

LEMMA NextSteps == TypeInv /\ LifeInv /\ [Next]_vars => LifeInv' /\ AbstractStep
<1> SUFFICES ASSUME TypeInv, LifeInv, [Next]_vars PROVE LifeInv' /\ AbstractStep
  OBVIOUS
<1>1. CASE Next
  BY <1>1, BootstrapSteps, StartSteps, DecideSteps, AnalyseSteps, ConcludeSteps,
     EnvironmentSteps DEF Next, Tick
<1>2. CASE UNCHANGED vars
  <2>1. LifeInv'
    BY <1>2
       DEF vars, LifeInv, CallPhases, SkipPhases, PrimaryExists, SkipAnalysis, MeshFirst, Provider
  <2>2. AbstractStep
    BY <1>2, Stutters DEF vars, Committed, SkipAnalysis
  <2> QED BY <2>1, <2>2
<1> QED BY <1>1, <1>2

LEMMA InitIsInit == Init => LifeInv /\ Abstract!Init
BY DEF Init, EmptyStatus, NoPrimary, Deployment, LifeInv, CallPhases, SkipPhases,
       PrimaryExists, Abstract!Init

\* Scheduler implements Lifecycle: the phase users are told, and the revision the primary
\* runs, change in the order of the lifecycle only, whatever ticks are cut and pushed into.
THEOREM ImplementsLifecycle == Spec => Implements
<1>1. TypeInv /\ LifeInv /\ [Next]_vars => [Abstract!Next]_(Abstract!vars)
  BY NextSteps DEF AbstractStep
<1> QED
  BY <1>1, TypeInvInductive, InitIsInit, NextSteps, PTL DEF Spec, Implements, Abstract!Spec

------------------------------------------------------------------------------
\* The split.

Whole(s) == s.p + s.c = totalWeight

\* The tick's copy of the split is whole as well: it was read from routes that
\* exist, since the mesh router was reconciled before it in the same tick, and
\* the routes are never removed.
AfterMesh ==
  {"initialized", "shouldAdvance", "targetChanged", "primaryReady"}
    \cup IF MeshFirst THEN {"initialize", "reconcile", "scaleDown"} ELSE {}

RoutesExist == Meshed /\ pc \in AfterMesh => routes # NoRoutes

ViewIsWhole == Whole(view)

\* Until it moves the traffic, a tick's copy is what the mesh serves: only the
\* tick itself changes the routes.
Viewing == {"confirmRollout", "scaleUp", "syncProgressing", "revisionChanged", "restart",
            "canaryReady", "increase", "shift"}

ViewIsCurrent == Meshed /\ pc \in Viewing => view = routes

TrafficInv == SplitIsWhole /\ ViewIsWhole /\ RoutesExist /\ ViewIsCurrent

\* The splits the scheduler sets without computing them are whole.
LEMMA NamedSplitsWhole ==
  /\ Whole(AllPrimary) /\ Whole(AllCanary) /\ Whole(Split(totalWeight, 0, TRUE))
  /\ AllPrimary # NoRoutes
BY DEF Whole, AllPrimary, AllCanary, NoRoutes, Split, totalWeight

\* A step that leaves the routes and the copy alone, and does not enter the part of
\* the tick that relies on them.
LEMMA TrafficUntouched ==
  ASSUME TrafficInv, UNCHANGED <<spec, routes, view>>,
         pc' \in AfterMesh => pc \in AfterMesh,
         pc' \in Viewing => pc \in Viewing
  PROVE  TrafficInv'
BY DEF TrafficInv, SplitIsWhole, ViewIsWhole, Whole, RoutesExist, ViewIsCurrent, Provider, Meshed,
       AfterMesh, MeshFirst

\* A tick that returns.
LEMMA TrafficReturned ==
  ASSUME TrafficInv, Return, UNCHANGED <<spec, routes>>
  PROVE  TrafficInv'
BY NamedSplitsWhole
   DEF Return, TrafficInv, SplitIsWhole, ViewIsWhole, Whole, RoutesExist, ViewIsCurrent,
       AfterMesh, Viewing, Provider, Meshed, MeshFirst

\* A call of SetRoutes with a whole split ends the part of the tick that relies on
\* its copy.
LEMMA TrafficMoved ==
  ASSUME TrafficInv, NEW split, Whole(split), SetRoutes(split), spec' = spec, Whole(view'),
         pc' \notin AfterMesh, pc' \notin Viewing
  PROVE  TrafficInv'
BY DEF TrafficInv, SplitIsWhole, ViewIsWhole, Whole, RoutesExist, ViewIsCurrent, Provider, Meshed,
       SetRoutes, AfterMesh, MeshFirst

\* A tick that goes on to a label outside those parts, or stays inside.
LEMMA TrafficGoTo ==
  ASSUME TrafficInv, NEW label, GoTo(label), label \notin AfterMesh,
         label \in Viewing => pc \in Viewing
  PROVE  TrafficInv'
BY TrafficUntouched DEF GoTo

\* The split during bootstrap and reconciliation.
LEMMA BootstrapTraffic ==
  ASSUME TypeInv, TrafficInv, Bootstrap
  PROVE  TrafficInv'
<1>1. CASE GetCanary
  BY <1>1, TrafficUntouched DEF GetCanary, Call, AfterMesh, Viewing
<1>2. CASE Initialize
  BY <1>2, TrafficUntouched DEF Initialize, AfterMesh, Viewing
<1>3. CASE ReconcileApex
  BY <1>3, TrafficUntouched DEF ReconcileApex, Call, AfterMesh, Viewing
<1>4. CASE ScaleDownTarget
  BY <1>4, TrafficUntouched DEF ScaleDownTarget, Call, AfterMesh, Viewing
<1>5. CASE ReconcileMesh
  <2>1. pc' \notin Viewing
    BY <1>5 DEF ReconcileMesh, Call, Viewing
  <2>2. SplitIsWhole' /\ RoutesExist'
    BY <1>5, NamedSplitsWhole
       DEF ReconcileMesh, TrafficInv, SplitIsWhole, Whole, RoutesExist, Provider, Meshed,
           AfterMesh, MeshFirst
  <2> QED
    BY <1>5, <2>1, <2>2 DEF ReconcileMesh, TrafficInv, ViewIsWhole, Whole, ViewIsCurrent
<1>6. CASE SetPhaseInitialized
  BY <1>6, TrafficUntouched DEF SetPhaseInitialized, Call, AfterMesh, Viewing
<1>7. CASE ShouldAdvance
  BY <1>7, TrafficUntouched DEF ShouldAdvance, Call, AfterMesh, Viewing
<1>8. CASE HasTargetChanged
  <2>1. CASE Return
    BY <1>8, <2>1, TrafficReturned DEF HasTargetChanged
  <2>2. CASE pc' = "primaryReady" /\ view' = view
    BY <1>8, <2>2, TrafficUntouched DEF HasTargetChanged, AfterMesh, Viewing
  <2> QED
    BY <1>8, <2>1, <2>2 DEF HasTargetChanged
<1>9. CASE PrimaryReady
  <2>1. pc = "primaryReady" /\ pc' \notin AfterMesh /\ UNCHANGED <<spec, routes>>
    BY <1>9 DEF PrimaryReady, Call, AfterMesh
  <2>2. Meshed => view' = routes /\ routes # NoRoutes
    BY <1>9, <2>1 DEF PrimaryReady, GetRoutes, TrafficInv, RoutesExist, AfterMesh
  <2>3. ~Meshed => Whole(view')
    BY <1>9, NamedSplitsWhole DEF PrimaryReady, GetRoutes
  <2>4. Whole(view')
    BY <2>2, <2>3 DEF TrafficInv, SplitIsWhole, Whole
  <2> QED
    BY <2>1, <2>2, <2>4
       DEF TrafficInv, SplitIsWhole, ViewIsWhole, Whole, RoutesExist, ViewIsCurrent, Provider,
           Meshed,
           AfterMesh, MeshFirst
<1>10. CASE PrimaryStuck
  BY <1>10, TrafficUntouched DEF PrimaryStuck, Call, AfterMesh, Viewing
<1> QED
  BY <1>1, <1>2, <1>3, <1>4, <1>5, <1>6, <1>7, <1>8, <1>9, <1>10 DEF Bootstrap

\* The split while an analysis starts or starts over.
LEMMA StartTraffic ==
  ASSUME TypeInv, TrafficInv, Start
  PROVE  TrafficInv'
<1>1. CASE ConfirmRollout
  BY <1>1, TrafficUntouched DEF ConfirmRollout, Call, AfterMesh, Viewing
<1>2. CASE RolloutHalted
  BY <1>2, TrafficReturned DEF RolloutHalted
<1>3. CASE ScaleFromZero
  BY <1>3, TrafficUntouched DEF ScaleFromZero, Call, AfterMesh, Viewing
<1>4. CASE SyncProgressing
  BY <1>4, TrafficReturned DEF SyncProgressing
<1>5. CASE HasCanaryRevisionChanged
  BY <1>5, TrafficUntouched DEF HasCanaryRevisionChanged, Call, AfterMesh, Viewing
<1>6. CASE RestartRoutes
  BY <1>6, NamedSplitsWhole, TrafficMoved
     DEF RestartRoutes, Call, AfterMesh, Viewing, TrafficInv, ViewIsWhole, Whole
<1>7. CASE SyncRestart
  BY <1>7, TrafficReturned DEF SyncRestart
<1> QED
  BY <1>1, <1>2, <1>3, <1>4, <1>5, <1>6, <1>7 DEF Start

\* The split while the tick decides how to go on.
LEMMA DecideTraffic ==
  ASSUME TypeInv, TrafficInv, Decide
  PROVE  TrafficInv'
<1>1. CASE CanaryStuck
  BY <1>1, TrafficUntouched DEF CanaryStuck, Call, AfterMesh, Viewing
<1>2. CASE ShouldSkipAnalysis
  BY <1>2, TrafficUntouched DEF ShouldSkipAnalysis, Call, AfterMesh, Viewing
<1>3. CASE RollbackHook
  BY <1>3, TrafficUntouched DEF RollbackHook, Call, AfterMesh, Viewing
<1>4. CASE ContinuePromotion
  BY <1>4, TrafficUntouched DEF ContinuePromotion, Call, AfterMesh, Viewing
<1>5. CASE ThresholdReached
  BY <1>5, TrafficUntouched DEF ThresholdReached, Call, AfterMesh, Viewing
<1>6. CASE ChecksFail
  BY <1>6, TrafficUntouched DEF ChecksFail, AfterMesh, Viewing
<1>7. CASE FailedCheck
  BY <1>7, TrafficReturned DEF FailedCheck
<1> QED
  BY <1>1, <1>2, <1>3, <1>4, <1>5, <1>6, <1>7 DEF Decide

\* The split while the strategies move the traffic.
LEMMA AnalyseTraffic ==
  ASSUME TypeInv, TrafficInv, Analyse
  PROVE  TrafficInv'
<1>1. ASSUME NEW label \in {"increase", "promote", "abRoutes", "bgRoutes", "bgMirror",
                            "setIterations"}, pc = "canaryReady", GoTo(label)
      PROVE  TrafficInv'
  BY <1>1, TrafficGoTo DEF AfterMesh, Viewing
<1>2. ASSUME NothingToDo
      PROVE  TrafficInv'
  BY <1>2, TrafficReturned DEF NothingToDo
<1>3. ASSUME PromotionHalted
      PROVE  TrafficInv'
  BY <1>3, TrafficReturned DEF PromotionHalted
<1>4. CASE RunCanary
  BY <1>1, <1>2, <1>3, <1>4 DEF RunCanary, MayAnalyse
<1>5. CASE RunAB
  BY <1>1, <1>2, <1>3, <1>5 DEF RunAB, MayAnalyse
<1>6. CASE RunBlueGreen
  BY <1>1, <1>3, <1>6 DEF RunBlueGreen, MayAnalyse
<1>7. CASE IncreaseWeight
  <2>1. Analysis \in Analyses /\ Analysis.stepWeight <= totalWeight /\ view \in Splits
    BY TypeFacts, SpecType
  <2>2. nextStepWeight(Analysis, view.c) > 0
    BY <1>7 DEF IncreaseWeight, Call, TypeInv, StepIsForward
  <2>3. Whole(view')
    BY <1>7, <2>1, <2>2, IncreasedSplitType DEF IncreaseWeight, TrafficInv, ViewIsWhole, Whole
  <2> QED
    BY <1>7, <2>3, TrafficMoved DEF IncreaseWeight, Call, AfterMesh, Viewing
<1>8. CASE SetWeight
  BY <1>8, TrafficReturned DEF SetWeight
<1>9. CASE RouteToCanary
  BY <1>9, NamedSplitsWhole, TrafficMoved
     DEF RouteToCanary, AfterMesh, Viewing, TrafficInv, ViewIsWhole, Whole
<1>10. CASE MirrorTraffic
  <2>1. CASE SetRoutes(Split(totalWeight, 0, TRUE))
    BY <1>10, <2>1, NamedSplitsWhole, TrafficMoved
       DEF MirrorTraffic, Call, AfterMesh, Viewing, TrafficInv, ViewIsWhole, Whole
  <2>2. CASE UNCHANGED routing
    BY <1>10, <2>2, TrafficUntouched DEF MirrorTraffic, Call, AfterMesh, Viewing
  <2> QED
    BY <1>10, <2>1, <2>2 DEF MirrorTraffic
<1>11. CASE SetIterations
  BY <1>11, TrafficReturned DEF SetIterations
<1> QED
  BY <1>4, <1>5, <1>6, <1>7, <1>8, <1>9, <1>10, <1>11 DEF Analyse

\* The split during promotion, rollback and a halted promotion.
LEMMA ConcludeTraffic ==
  ASSUME TypeInv, TrafficInv, Conclude
  PROVE  TrafficInv'
<1>1. CASE Promote
  BY <1>1, TrafficUntouched DEF Promote, Call, AfterMesh, Viewing
<1>2. CASE SetPromoting
  BY <1>2, TrafficReturned DEF SetPromoting
<1>3. CASE ShiftAtOnce
  BY <1>3, NamedSplitsWhole, TrafficMoved
     DEF ShiftAtOnce, Call, AfterMesh, Viewing, TrafficInv, ViewIsWhole, Whole
<1>4. CASE ShiftStep
  <2>1. Analysis \in Analyses /\ view \in Splits
    BY TypeFacts, SpecType
  <2>2. Whole(view')
    BY <1>4, <2>1, PromotedSplitType DEF ShiftStep, TrafficInv, ViewIsWhole, Whole
  <2> QED
    BY <1>4, <2>2, TrafficMoved DEF ShiftStep, AfterMesh, Viewing
<1>5. CASE NothingToShift
  <2>1. CASE GoTo("setFinalising")
    BY <2>1, TrafficGoTo DEF AfterMesh, Viewing
  <2>2. CASE NothingToDo
    BY <2>2, TrafficReturned DEF NothingToDo
  <2> QED
    BY <1>5, <2>1, <2>2 DEF NothingToShift
<1>6. CASE SetFinalising
  BY <1>6, TrafficReturned DEF SetFinalising
<1>7. CASE Finalise
  BY <1>7, TrafficUntouched DEF Finalise, Call, AfterMesh, Viewing
<1>8. CASE SetSucceeded
  BY <1>8, TrafficReturned DEF SetSucceeded
<1>9. CASE SkipRoutes
  BY <1>9, NamedSplitsWhole, TrafficMoved
     DEF SkipRoutes, Call, AfterMesh, Viewing, TrafficInv, ViewIsWhole, Whole
<1>10. CASE RollbackRoutes
  BY <1>10, NamedSplitsWhole, TrafficMoved
     DEF RollbackRoutes, Call, AfterMesh, Viewing, TrafficInv, ViewIsWhole, Whole
<1>11. CASE RollbackWithoutRoutes
  BY <1>11, TrafficReturned DEF RollbackWithoutRoutes, NothingToDo
<1>12. CASE RollbackScale
  BY <1>12, TrafficUntouched DEF RollbackScale, Call, AfterMesh, Viewing
<1>13. CASE SyncFailed
  BY <1>13, TrafficReturned DEF SyncFailed
<1>14. CASE HaltPromotion
  BY <1>14, NamedSplitsWhole, TrafficMoved
     DEF HaltPromotion, Call, AfterMesh, Viewing, TrafficInv, ViewIsWhole, Whole
<1>15. CASE SyncHalted
  BY <1>15, TrafficReturned DEF SyncHalted
<1> QED
  BY <1>1, <1>2, <1>3, <1>4, <1>5, <1>6, <1>7, <1>8, <1>9, <1>10, <1>11, <1>12, <1>13,
     <1>14, <1>15 DEF Conclude

\* The split while ticks are cut and users act.
LEMMA EnvironmentTraffic ==
  ASSUME TypeInv, TrafficInv, Abort \/ User \/ SetPhaseInitializing
  PROVE  TrafficInv'
<1>1. CASE Abort
  BY <1>1, TrafficReturned DEF Abort
<1>2. CASE PushRevision
  BY <1>2, TrafficUntouched DEF PushRevision
<1>3. CASE EditService
  BY <1>3, TrafficUntouched DEF EditService
<1>4. CASE SetPhaseInitializing
  BY <1>4, TrafficUntouched DEF SetPhaseInitializing
<1> QED
  BY <1>1, <1>2, <1>3, <1>4 DEF User

\* The invariant holds from the start and is kept by every step.
LEMMA TrafficInvInductive ==
  /\ Init => TrafficInv
  /\ TypeInv /\ TrafficInv /\ [Next]_vars => TrafficInv'
<1>1. Init => TrafficInv
  BY NamedSplitsWhole
     DEF Init, TrafficInv, SplitIsWhole, ViewIsWhole, Whole, RoutesExist, ViewIsCurrent,
         AfterMesh, Viewing
<1>2. TypeInv /\ TrafficInv /\ [Next]_vars => TrafficInv'
  <2> SUFFICES ASSUME TypeInv, TrafficInv, [Next]_vars PROVE TrafficInv'
    OBVIOUS
  <2>1. CASE Next
    BY <2>1, BootstrapTraffic, StartTraffic, DecideTraffic, AnalyseTraffic, ConcludeTraffic,
       EnvironmentTraffic DEF Next, Tick
  <2>2. CASE UNCHANGED vars
    BY <2>2, TrafficUntouched DEF vars
  <2> QED
    BY <2>1, <2>2
<1> QED
  BY <1>1, <1>2

\* In every reachable state the weights of existing routes add up to 100.
THEOREM SplitAlwaysWhole == Spec => []SplitIsWhole
<1>1. TrafficInv => SplitIsWhole
  BY DEF TrafficInv
<1> QED
  BY <1>1, TypeInvInductive, TrafficInvInductive, PTL DEF Spec

\* A weight step takes nothing from the canary in the routes, since the copy it
\* starts from is what the mesh serves.
THEOREM StepsGoForward == Spec => WeightStepsForward
<1>1. TypeInv /\ TrafficInv /\ [Next]_vars =>
        [pc = "increase" => routes'.c >= routes.c]_routes
  <2> SUFFICES ASSUME TypeInv, TrafficInv, [Next]_vars, pc = "increase", routes' # routes
               PROVE  routes'.c >= routes.c
    OBVIOUS
  <2>1. IncreaseWeight
    BY DEF Next, Tick, Bootstrap, Start, Decide, Analyse, Conclude, User, Abort, vars,
           GetCanary, Initialize, ReconcileApex, ScaleDownTarget, ReconcileMesh,
           SetPhaseInitialized, ShouldAdvance, HasTargetChanged, PrimaryReady, PrimaryStuck,
           ConfirmRollout, RolloutHalted, ScaleFromZero, SyncProgressing,
           HasCanaryRevisionChanged, RestartRoutes, SyncRestart,
           CanaryStuck, ShouldSkipAnalysis, RollbackHook, ContinuePromotion, ThresholdReached,
           ChecksFail, FailedCheck, RunCanary, RunAB, RunBlueGreen, MayAnalyse, SetWeight,
           RouteToCanary, MirrorTraffic, SetIterations, Promote, SetPromoting, ShiftAtOnce,
           ShiftStep, NothingToShift, SetFinalising, Finalise, SetSucceeded, SkipRoutes,
           RollbackRoutes, RollbackWithoutRoutes, RollbackScale, SyncFailed, HaltPromotion,
           SyncHalted, PushRevision, EditService, SetPhaseInitializing, Call
  <2>2. Meshed /\ routes' = IncreasedSplit(Analysis, view)
    BY <2>1 DEF IncreaseWeight, SetRoutes
  <2>3. view = routes
    BY <2>2 DEF TrafficInv, ViewIsCurrent, Viewing
  <2>4. Analysis \in Analyses /\ Analysis.stepWeight <= totalWeight /\ view \in Splits
    BY TypeFacts, SpecType
  <2>5. nextStepWeight(Analysis, view.c) > 0
    BY DEF TypeInv, StepIsForward
  <2> QED
    BY <2>2, <2>3, <2>4, <2>5, IncreasedSplitForward
<1> QED
  BY <1>1, TypeInvInductive, TrafficInvInductive, PTL DEF Spec, WeightStepsForward

------------------------------------------------------------------------------
\* The failure counter.

\* A tick that counts a failure read a counter below the threshold.
CopyWithinThreshold ==
  /\ cd.failed <= Threshold
  /\ pc = "failedCheck" => cd.failed < Threshold

FailureInv == FailuresWithinThreshold /\ CopyWithinThreshold

\* A step that writes no status and takes no other copy.
LEMMA FailuresUntouched ==
  ASSUME FailureInv, UNCHANGED <<spec, status, cd>>, pc' # "failedCheck"
  PROVE  FailureInv'
BY DEF FailureInv, FailuresWithinThreshold, CopyWithinThreshold, Threshold, Analysis

\* A tick that returns after writing a status whose counter is in bounds.
LEMMA FailuresReturned ==
  ASSUME TypeInv, FailureInv, Return, spec' = spec,
         status'.failed = status.failed \/ status'.failed = 0
  PROVE  FailureInv'
<1>1. Threshold \in Nat \ {0} /\ Threshold' = Threshold
  BY TypeFacts, SpecType DEF Threshold, Analysis
<1> QED
  BY <1>1 DEF Return, EmptyStatus, FailureInv, FailuresWithinThreshold, CopyWithinThreshold

\* The counter the writers of a status leave in it.
LEMMA CounterWritten ==
  ASSUME NEW s \in Statuses, NEW phase, NEW w, NEW h, NEW f, NEW n
  PROVE  /\ Reset(s, phase, w, h).failed = 0
         /\ SyncStatus(s, phase, w, f, n, h).failed = f
         /\ SetStatusPhase(s, phase, n).failed = s.failed
         /\ SetStatusWeight(s, n).failed = s.failed
         /\ SetStatusIterations(s, n).failed = s.failed
         /\ SetStatusFailedChecks(s, n).failed = n
         /\ [s EXCEPT !.phase = phase].failed = s.failed
         /\ [s EXCEPT !.phase = phase, !.applied = h].failed = s.failed
BY DEF Statuses, Reset, SyncStatus, SetStatusPhase, SetStatusWeight, SetStatusIterations,
       SetStatusFailedChecks

\* The counter during bootstrap and reconciliation.
LEMMA BootstrapFailures ==
  ASSUME TypeInv, FailureInv, Bootstrap
  PROVE  FailureInv'
<1>0. /\ status \in Statuses /\ cd \in Statuses
      /\ Threshold \in Nat \ {0} /\ (spec' = spec => Threshold' = Threshold)
  BY TypeFacts, SpecType DEF Threshold, Analysis
<1>1. CASE GetCanary
  BY <1>0, <1>1
     DEF GetCanary, Call, FailureInv, FailuresWithinThreshold, CopyWithinThreshold
<1>2. CASE Initialize
  BY <1>2, FailuresUntouched DEF Initialize
<1>3. CASE ReconcileApex
  BY <1>3, FailuresUntouched DEF ReconcileApex, Call
<1>4. CASE ScaleDownTarget
  BY <1>4, FailuresUntouched DEF ScaleDownTarget, Call
<1>5. CASE ReconcileMesh
  BY <1>5, FailuresUntouched DEF ReconcileMesh, Call
<1>6. CASE SetPhaseInitialized
  <2>1. status'.failed = 0 /\ cd'.failed = cd.failed
    BY <1>0, <1>6, CounterWritten DEF SetPhaseInitialized, Write
  <2> QED
    BY <1>0, <1>6, <2>1
       DEF SetPhaseInitialized, Call, FailureInv, FailuresWithinThreshold, CopyWithinThreshold
<1>7. CASE ShouldAdvance
  <2>1. status'.failed \in {cd.failed, status.failed}
    BY <1>0, <1>7, CounterWritten DEF ShouldAdvance, Write
  <2> QED
    BY <1>0, <1>7, <2>1
       DEF ShouldAdvance, Call, FailureInv, FailuresWithinThreshold, CopyWithinThreshold
<1>8. CASE HasTargetChanged
  <2>1. CASE Return
    BY <1>8, <2>1, FailuresReturned DEF HasTargetChanged
  <2>2. CASE pc' = "primaryReady" /\ cd' = cd
    BY <1>8, <2>2, FailuresUntouched DEF HasTargetChanged
  <2> QED
    BY <1>8, <2>1, <2>2 DEF HasTargetChanged
<1>9. CASE PrimaryReady
  BY <1>9, FailuresUntouched DEF PrimaryReady, Call
<1>10. CASE PrimaryStuck
  BY <1>10, FailuresUntouched DEF PrimaryStuck, Call
<1> QED
  BY <1>1, <1>2, <1>3, <1>4, <1>5, <1>6, <1>7, <1>8, <1>9, <1>10 DEF Bootstrap

\* The counter while an analysis starts or starts over.
LEMMA StartFailures ==
  ASSUME TypeInv, FailureInv, Start
  PROVE  FailureInv'
<1>0. /\ status \in Statuses /\ cd \in Statuses
      /\ Threshold \in Nat \ {0} /\ (spec' = spec => Threshold' = Threshold)
  BY TypeFacts, SpecType DEF Threshold, Analysis
<1>1. CASE ConfirmRollout
  BY <1>0, <1>1
     DEF ConfirmRollout, Call, FailureInv, FailuresWithinThreshold, CopyWithinThreshold
<1>2. CASE RolloutHalted
  BY <1>0, <1>2, CounterWritten, FailuresReturned DEF RolloutHalted, Write
<1>3. CASE ScaleFromZero
  BY <1>3, FailuresUntouched DEF ScaleFromZero, Call
<1>4. CASE SyncProgressing
  BY <1>0, <1>4, CounterWritten, FailuresReturned DEF SyncProgressing, Write
<1>5. CASE HasCanaryRevisionChanged
  BY <1>5, FailuresUntouched DEF HasCanaryRevisionChanged, Call
<1>6. CASE RestartRoutes
  BY <1>6, FailuresUntouched DEF RestartRoutes, Call
<1>7. CASE SyncRestart
  BY <1>0, <1>7, CounterWritten, FailuresReturned DEF SyncRestart, Write
<1> QED
  BY <1>1, <1>2, <1>3, <1>4, <1>5, <1>6, <1>7 DEF Start

\* The counter while the tick decides how to go on: the one place that counts.
LEMMA DecideFailures ==
  ASSUME TypeInv, FailureInv, Decide
  PROVE  FailureInv'
<1>0. /\ status \in Statuses /\ cd \in Statuses
      /\ Threshold \in Nat \ {0} /\ (spec' = spec => Threshold' = Threshold)
  BY TypeFacts, SpecType DEF Threshold, Analysis
<1>1. CASE CanaryStuck
  BY <1>1, FailuresUntouched DEF CanaryStuck, Call
<1>2. CASE ShouldSkipAnalysis
  BY <1>2, FailuresUntouched DEF ShouldSkipAnalysis, Call
<1>3. CASE RollbackHook
  BY <1>3, FailuresUntouched DEF RollbackHook, Call
<1>4. CASE ContinuePromotion
  BY <1>4, FailuresUntouched DEF ContinuePromotion, Call
<1>5. CASE ThresholdReached
  BY <1>5, FailuresUntouched DEF ThresholdReached, Call
<1>6. CASE ChecksFail
  BY <1>0, <1>6
     DEF ChecksFail, MayAnalyse, FailureInv, FailuresWithinThreshold, CopyWithinThreshold
<1>7. CASE FailedCheck
  <2>1. status'.failed = cd.failed + 1 /\ cd.failed \in Nat
    BY <1>0, <1>7, CounterWritten, StatusFields DEF FailedCheck, Write
  <2>2. cd.failed < Threshold
    BY <1>7 DEF FailedCheck, FailureInv, CopyWithinThreshold
  <2> QED
    BY <1>0, <1>7, <2>1, <2>2
       DEF FailedCheck, Return, EmptyStatus, FailureInv, FailuresWithinThreshold,
           CopyWithinThreshold
<1> QED
  BY <1>1, <1>2, <1>3, <1>4, <1>5, <1>6, <1>7 DEF Decide

\* The counter while the strategies move the traffic.
LEMMA AnalyseFailures ==
  ASSUME TypeInv, FailureInv, Analyse
  PROVE  FailureInv'
<1>0. status \in Statuses
  BY TypeFacts
<1>1. ASSUME NEW label \in {"increase", "promote", "abRoutes", "bgRoutes", "bgMirror",
                            "setIterations"}, GoTo(label)
      PROVE  FailureInv'
  BY <1>1, FailuresUntouched DEF GoTo
<1>2. ASSUME NothingToDo
      PROVE  FailureInv'
  BY <1>2, FailuresReturned DEF NothingToDo
<1>3. ASSUME PromotionHalted
      PROVE  FailureInv'
  BY <1>0, <1>3, CounterWritten, FailuresReturned DEF PromotionHalted, Write
<1>4. CASE RunCanary
  BY <1>1, <1>2, <1>3, <1>4 DEF RunCanary
<1>5. CASE RunAB
  BY <1>1, <1>2, <1>3, <1>5 DEF RunAB
<1>6. CASE RunBlueGreen
  BY <1>1, <1>3, <1>6 DEF RunBlueGreen
<1>7. CASE IncreaseWeight
  BY <1>7, FailuresUntouched DEF IncreaseWeight, Call
<1>8. CASE SetWeight
  BY <1>0, <1>8, CounterWritten, FailuresReturned DEF SetWeight, Write
<1>9. CASE RouteToCanary
  BY <1>9, FailuresUntouched DEF RouteToCanary
<1>10. CASE MirrorTraffic
  BY <1>10, FailuresUntouched DEF MirrorTraffic, Call
<1>11. CASE SetIterations
  BY <1>0, <1>11, CounterWritten, FailuresReturned DEF SetIterations, Write
<1> QED
  BY <1>4, <1>5, <1>6, <1>7, <1>8, <1>9, <1>10, <1>11 DEF Analyse

\* The counter during promotion, rollback and a halted promotion.
LEMMA ConcludeFailures ==
  ASSUME TypeInv, FailureInv, Conclude
  PROVE  FailureInv'
<1>0. status \in Statuses
  BY TypeFacts
<1>1. CASE Promote
  BY <1>1, FailuresUntouched DEF Promote, Call
<1>2. CASE SetPromoting
  BY <1>0, <1>2, CounterWritten, FailuresReturned DEF SetPromoting, Write
<1>3. CASE ShiftAtOnce
  BY <1>3, FailuresUntouched DEF ShiftAtOnce, Call
<1>4. CASE ShiftStep
  BY <1>4, FailuresUntouched DEF ShiftStep
<1>5. CASE NothingToShift
  <2>1. CASE GoTo("setFinalising")
    BY <2>1, FailuresUntouched DEF GoTo
  <2>2. CASE NothingToDo
    BY <2>2, FailuresReturned DEF NothingToDo
  <2> QED
    BY <1>5, <2>1, <2>2 DEF NothingToShift
<1>6. CASE SetFinalising
  BY <1>0, <1>6, CounterWritten, FailuresReturned DEF SetFinalising, Write
<1>7. CASE Finalise
  BY <1>7, FailuresUntouched DEF Finalise, Call
<1>8. CASE SetSucceeded
  BY <1>0, <1>8, CounterWritten, FailuresReturned DEF SetSucceeded, Write
<1>9. CASE SkipRoutes
  BY <1>9, FailuresUntouched DEF SkipRoutes, Call
<1>10. CASE RollbackRoutes
  BY <1>10, FailuresUntouched DEF RollbackRoutes, Call
<1>11. CASE RollbackWithoutRoutes
  BY <1>11, FailuresReturned DEF RollbackWithoutRoutes, NothingToDo
<1>12. CASE RollbackScale
  BY <1>12, FailuresUntouched DEF RollbackScale, Call
<1>13. CASE SyncFailed
  BY <1>0, <1>13, CounterWritten, FailuresReturned DEF SyncFailed, Write
<1>14. CASE HaltPromotion
  BY <1>14, FailuresUntouched DEF HaltPromotion, Call
<1>15. CASE SyncHalted
  BY <1>0, <1>15, CounterWritten, FailuresReturned DEF SyncHalted, Write
<1> QED
  BY <1>1, <1>2, <1>3, <1>4, <1>5, <1>6, <1>7, <1>8, <1>9, <1>10, <1>11, <1>12, <1>13,
     <1>14, <1>15 DEF Conclude

\* The counter while ticks are cut and users act.
LEMMA EnvironmentFailures ==
  ASSUME TypeInv, FailureInv, Abort \/ User \/ SetPhaseInitializing
  PROVE  FailureInv'
<1>0. status \in Statuses /\ (spec' = spec => Threshold' = Threshold)
  BY TypeFacts DEF Threshold, Analysis
<1>1. CASE Abort
  BY <1>1, FailuresReturned DEF Abort
<1>2. CASE User
  BY <1>0, <1>2
     DEF User, PushRevision, EditService, FailureInv, FailuresWithinThreshold,
         CopyWithinThreshold
<1>3. CASE SetPhaseInitializing
  <2>1. status'.failed = status.failed
    BY <1>0, <1>3, CounterWritten DEF SetPhaseInitializing, Write
  <2> QED
    BY <1>0, <1>3, <2>1
       DEF SetPhaseInitializing, FailureInv, FailuresWithinThreshold, CopyWithinThreshold
<1> QED
  BY <1>1, <1>2, <1>3

\* The invariant holds from the start and is kept by every step.
LEMMA FailureInvInductive ==
  /\ Init => FailureInv
  /\ TypeInv /\ FailureInv /\ [Next]_vars => FailureInv'
<1>1. Init => FailureInv
  <2> SUFFICES ASSUME Init PROVE FailureInv
    OBVIOUS
  <2>1. Threshold \in Nat \ {0}
    BY SpecType DEF Init
  <2> QED
    BY <2>1
       DEF Init, EmptyStatus, FailureInv, FailuresWithinThreshold, CopyWithinThreshold
<1>2. TypeInv /\ FailureInv /\ [Next]_vars => FailureInv'
  <2> SUFFICES ASSUME TypeInv, FailureInv, [Next]_vars PROVE FailureInv'
    OBVIOUS
  <2>1. CASE Next
    BY <2>1, BootstrapFailures, StartFailures, DecideFailures, AnalyseFailures,
       ConcludeFailures, EnvironmentFailures DEF Next, Tick
  <2>2. CASE UNCHANGED vars
    BY <2>2
       DEF vars, FailureInv, FailuresWithinThreshold, CopyWithinThreshold, Threshold, Analysis
  <2> QED
    BY <2>1, <2>2
<1> QED
  BY <1>1, <1>2

\* No analysis ever counts more failures than spec.analysis.threshold.
THEOREM FailuresAlwaysWithinThreshold == Spec => []FailuresWithinThreshold
<1>1. FailureInv => FailuresWithinThreshold
  BY DEF FailureInv
<1> QED
  BY <1>1, TypeInvInductive, FailureInvInductive, PTL DEF Spec
==============================================================================
