---------------------------- MODULE SchedulerProofs ----------------------------
(***************************************************************************)
(* Theorems about every instance of Scheduler: any set of specs, any       *)
(* number of revisions, pushes, edits and cut ticks.                       *)
(***************************************************************************)
EXTENDS SchedulerProps, StepWeightsProofs

USE DEF workloads, routing, budgets, ghosts, AfterServices, AfterReconciled

------------------------------------------------------------------------------
\* Every function of CanaryStatus that writes a status returns one.

\* The status of a canary no handler has seen is one.
LEMMA EmptyStatusType == EmptyStatus \in Statuses
BY DEF Statuses, EmptyStatus, Phases, Weights, totalWeight, Hashes

\* The fields of a status have their types.
LEMMA StatusFields ==
  ASSUME NEW s \in Statuses
  PROVE  /\ s.phase \in Phases /\ s.weight \in Weights /\ s.failed \in Nat /\ s.iter \in Int
         /\ s.applied \in Hashes /\ s.promoted \in Hashes
BY DEF Statuses

\* syncCanaryStatus writes a status, whatever counters and hash it is given.
LEMMA SyncStatusType ==
  ASSUME NEW s \in Statuses, NEW phase \in Phases, NEW w \in Weights, NEW f \in Nat,
         NEW n \in Int, NEW h \in Hashes
  PROVE  SyncStatus(s, phase, w, f, n, h) \in Statuses
BY DEF Statuses, SyncStatus

\* So does a start, restart or end of an analysis.
LEMMA ResetType ==
  ASSUME NEW s \in Statuses, NEW phase \in Phases, NEW w \in Weights, NEW h \in Hashes
  PROVE  Reset(s, phase, w, h) \in Statuses
BY SyncStatusType DEF Reset

\* setStatusFailedChecks writes a status.
LEMMA SetStatusFailedChecksType ==
  ASSUME NEW s \in Statuses, NEW n \in Nat
  PROVE  SetStatusFailedChecks(s, n) \in Statuses
BY DEF Statuses, SetStatusFailedChecks

\* setStatusWeight writes a status when it is given a weight within 0 .. 100.
LEMMA SetStatusWeightType ==
  ASSUME NEW s \in Statuses, NEW n \in Weights
  PROVE  SetStatusWeight(s, n) \in Statuses
BY DEF Statuses, SetStatusWeight

\* setStatusIterations writes a status.
LEMMA SetStatusIterationsType ==
  ASSUME NEW s \in Statuses, NEW n \in Int
  PROVE  SetStatusIterations(s, n) \in Statuses
BY DEF Statuses, SetStatusIterations

\* setStatusPhase writes a status, for every phase and number of iterations.
LEMMA SetStatusPhaseType ==
  ASSUME NEW s \in Statuses, NEW phase \in Phases, NEW n \in Int
  PROVE  SetStatusPhase(s, phase, n) \in Statuses
<1>1. 0 \in Weights /\ 0 \in Int /\ n - 1 \in Int
  BY DEF Weights, totalWeight
<1> QED
  BY <1>1 DEF Statuses, SetStatusPhase

\* setPhaseInitializing and setPhaseInitialized set fields directly.
LEMMA PhaseFieldType ==
  ASSUME NEW s \in Statuses, NEW phase \in Phases, NEW h \in Hashes
  PROVE  /\ [s EXCEPT !.phase = phase] \in Statuses
         /\ [s EXCEPT !.phase = phase, !.applied = h] \in Statuses
BY DEF Statuses

------------------------------------------------------------------------------
\* What the actions read and write is of its type.

\* The spec's parts as the scheduler reads them.
LEMMA SpecType ==
  ASSUME spec \in Specs
  PROVE  /\ Analysis \in Analyses /\ Analysis.stepWeight <= totalWeight
         /\ Threshold \in Nat \ {0} /\ Iterations \in Nat
<1>1. spec \in CanarySpecs /\ Analysis \in Analyses /\ Analysis.stepWeight <= totalWeight
  BY SpecsAssumption DEF CanarySpecs, Analysis
<1>2. Analysis.threshold \in Int /\ Analysis.iterations \in Nat
  BY <1>1 DEF Analyses
<1> QED
  BY <1>1, <1>2 DEF Threshold, Iterations

\* The splits the scheduler sets without computing them.
LEMMA NamedSplits ==
  /\ AllPrimary \in Splits /\ AllCanary \in Splits /\ NoRoutes \in Splits
  /\ Split(totalWeight, 0, TRUE) \in Splits
BY DEF AllPrimary, AllCanary, NoRoutes, Split, Splits, Weights, totalWeight

\* SetRoutes changes the routes and nothing else of the routing.
LEMMA SetRoutesType ==
  ASSUME routes \in Splits, NEW split \in Splits, SetRoutes(split)
  PROVE  routes' \in Splits /\ apex' = apex /\ drift' = drift
BY DEF SetRoutes

\* GetRoutes returns a split for every router.
LEMMA GetRoutesType ==
  ASSUME routes \in Splits, NEW s
  PROVE  GetRoutes(s) \in Splits
BY NamedSplits DEF GetRoutes

\* A tick that returns leaves no copies.
LEMMA ReturnType ==
  ASSUME Return
  PROVE  pc' = "idle" /\ cd' \in Statuses /\ view' \in Splits
BY NamedSplits, EmptyStatusType DEF Return

------------------------------------------------------------------------------
\* Type correctness.

\* The strengthening: only a step forward is ever applied, so the weights it
\* leads to are clamped on the right side.
StepIsForward == pc = "increase" => nextStepWeight(Analysis, view.c) > 0

TypeInv == TypeOK /\ StepIsForward

\* The parts of the invariant the steps below use.
LEMMA TypeFacts ==
  ASSUME TypeInv
  PROVE  /\ spec \in Specs
         /\ status \in Statuses /\ cd \in Statuses
         /\ view \in Splits /\ routes \in Splits
         /\ target \in [rev : Revs, up : BOOLEAN] /\ target.rev \in Revs /\ target.rev \in Hashes
         /\ tried \in SUBSET Revs /\ unrecorded \in SUBSET Changes
BY DEF TypeInv, TypeOK, Hashes

\* A tick that writes a status and returns.
LEMMA WriteAndReturnType ==
  ASSUME TypeInv, Return, status' \in Statuses,
         UNCHANGED <<spec, workloads, routing, budgets, pushed>>,
         tried' \in SUBSET Revs, unrecorded' \in SUBSET Changes
  PROVE  TypeInv'
<1>1. pc' \in Labels
  BY ReturnType DEF Labels
<1> QED
  BY <1>1, ReturnType DEF TypeInv, TypeOK, StepIsForward

\* A tick that goes on and changes nothing else.
LEMMA GoToType ==
  ASSUME TypeInv, NEW label \in Labels, GoTo(label),
         label = "increase" => nextStepWeight(Analysis, view.c) > 0
  PROVE  TypeInv'
BY DEF GoTo, TypeInv, TypeOK, StepIsForward, Analysis

\* A tick that returns and changes nothing else.
LEMMA NothingToDoType ==
  ASSUME TypeInv, NothingToDo
  PROVE  TypeInv'
BY TypeFacts, WriteAndReturnType DEF NothingToDo

\* A tick that the promotion gate ends.
LEMMA PromotionHaltedType ==
  ASSUME TypeInv, PromotionHalted
  PROVE  TypeInv'
<1>1. "WaitingPromotion" \in Phases
  BY DEF Phases
<1>2. status \in Statuses /\ Iterations \in Int /\ Iterations - 1 \in Int
  BY TypeFacts, SpecType
<1>3. status' \in Statuses
  BY <1>1, <1>2, SetStatusPhaseType, SetStatusIterationsType DEF PromotionHalted, Write
<1> QED
  BY <1>3, TypeFacts, WriteAndReturnType DEF PromotionHalted

\* Type correctness of bootstrap and reconciliation.
LEMMA BootstrapType ==
  ASSUME TypeInv, Bootstrap
  PROVE  TypeInv'
<1>1. CASE GetCanary
  BY <1>1
     DEF GetCanary, TypeInv, TypeOK, StepIsForward, Call, Labels
<1>2. CASE Initialize
  BY <1>2
     DEF Initialize, Deployment, Hashes, TypeInv, TypeOK, StepIsForward, Call, Labels
<1>3. CASE ReconcileApex
  BY <1>3
     DEF ReconcileApex, TypeInv, TypeOK, StepIsForward, Call, Labels
<1>4. CASE ScaleDownTarget
  BY <1>4
     DEF ScaleDownTarget, TypeInv, TypeOK, StepIsForward, Call, Labels
<1>5. CASE ReconcileMesh
  BY <1>5, NamedSplits
     DEF ReconcileMesh, Changes, TypeInv, TypeOK, StepIsForward, Call, Labels
<1>6. CASE SetPhaseInitialized
  <2>1. "Initialized" \in Phases /\ 0 \in Weights
    BY DEF Phases, Weights, totalWeight
  <2>2. status' \in Statuses
    BY <1>6, <2>1, TypeFacts, ResetType DEF SetPhaseInitialized, Write
  <2>3. cd' \in Statuses
    BY <1>6, <2>1, TypeFacts, PhaseFieldType DEF SetPhaseInitialized
  <2> QED
    BY <1>6, <2>2, <2>3 DEF SetPhaseInitialized, TypeInv, TypeOK, StepIsForward, Call, Labels
<1>7. CASE ShouldAdvance
  <2>1. status' \in Statuses
    BY <1>7, TypeFacts, StatusFields, SyncStatusType DEF ShouldAdvance, Write
  <2> QED
    BY <1>7, <2>1 DEF ShouldAdvance, TypeInv, TypeOK, StepIsForward, Call, Labels
<1>8. CASE HasTargetChanged
  BY <1>8, ReturnType
     DEF HasTargetChanged, TypeInv, TypeOK, StepIsForward, Call, Labels
<1>9. CASE PrimaryReady
  BY <1>9, GetRoutesType
     DEF PrimaryReady, TypeInv, TypeOK, StepIsForward, Call, Labels
<1>10. CASE PrimaryStuck
  BY <1>10
     DEF PrimaryStuck, TypeInv, TypeOK, StepIsForward, Call, Labels
<1> QED
  BY <1>1, <1>2, <1>3, <1>4, <1>5, <1>6, <1>7, <1>8, <1>9, <1>10 DEF Bootstrap

\* Type correctness of the start of an analysis.
LEMMA StartType ==
  ASSUME TypeInv, Start
  PROVE  TypeInv'
<1>1. CASE ConfirmRollout
  BY <1>1
     DEF ConfirmRollout, TypeInv, TypeOK, StepIsForward, Call, Labels
<1>2. CASE RolloutHalted
  <2>1. "Waiting" \in Phases /\ Iterations \in Int
    BY TypeFacts, SpecType DEF Phases
  <2>2. status' \in Statuses
    BY <1>2, <2>1, TypeFacts, SetStatusPhaseType DEF RolloutHalted, Write
  <2>3. unrecorded' \in SUBSET Changes /\ tried' \in SUBSET Revs
    BY <1>2, TypeFacts DEF RolloutHalted
  <2> QED
    BY <1>2, <2>2, <2>3, WriteAndReturnType DEF RolloutHalted
<1>3. CASE ScaleFromZero
  BY <1>3
     DEF ScaleFromZero, TypeInv, TypeOK, StepIsForward, Call, Labels
<1>4. CASE SyncProgressing
  <2>1. "Progressing" \in Phases /\ 0 \in Weights
    BY DEF Phases, Weights, totalWeight
  <2>2. status' \in Statuses
    BY <1>4, <2>1, TypeFacts, ResetType DEF SyncProgressing, Write
  <2>3. tried' \in SUBSET Revs /\ unrecorded' \in SUBSET Changes
    BY <1>4, TypeFacts DEF SyncProgressing
  <2> QED
    BY <1>4, <2>2, <2>3, WriteAndReturnType DEF SyncProgressing
<1>5. CASE HasCanaryRevisionChanged
  BY <1>5
     DEF HasCanaryRevisionChanged, TypeInv, TypeOK, StepIsForward, Call, Labels
<1>6. CASE RestartRoutes
  BY <1>6, NamedSplits, SetRoutesType
     DEF RestartRoutes, Changes, TypeInv, TypeOK, StepIsForward, Call, Labels
<1>7. CASE SyncRestart
  <2>1. "Progressing" \in Phases /\ 0 \in Weights
    BY DEF Phases, Weights, totalWeight
  <2>2. status' \in Statuses
    BY <1>7, <2>1, TypeFacts, ResetType DEF SyncRestart, Write
  <2>3. tried' \in SUBSET Revs /\ unrecorded' \in SUBSET Changes
    BY <1>7, TypeFacts DEF SyncRestart
  <2> QED
    BY <1>7, <2>2, <2>3, WriteAndReturnType DEF SyncRestart
<1> QED
  BY <1>1, <1>2, <1>3, <1>4, <1>5, <1>6, <1>7 DEF Start

\* Type correctness of the decision what to do.
LEMMA DecideType ==
  ASSUME TypeInv, Decide
  PROVE  TypeInv'
<1>1. CASE CanaryStuck
  BY <1>1
     DEF CanaryStuck, TypeInv, TypeOK, StepIsForward, Call, Labels
<1>2. CASE ShouldSkipAnalysis
  BY <1>2
     DEF ShouldSkipAnalysis, TypeInv, TypeOK, StepIsForward, Call, Labels
<1>3. CASE RollbackHook
  BY <1>3
     DEF RollbackHook, TypeInv, TypeOK, StepIsForward, Call, Labels
<1>4. CASE ContinuePromotion
  BY <1>4
     DEF ContinuePromotion, TypeInv, TypeOK, StepIsForward, Call, Labels
<1>5. CASE ThresholdReached
  BY <1>5
     DEF ThresholdReached, TypeInv, TypeOK, StepIsForward, Call, Labels
<1>6. CASE ChecksFail
  BY <1>6
     DEF ChecksFail, MayAnalyse, TypeInv, TypeOK, StepIsForward, Call, Labels
<1>7. CASE FailedCheck
  <2>1. status' \in Statuses
    BY <1>7, TypeFacts, StatusFields, SetStatusFailedChecksType DEF FailedCheck, Write
  <2> QED
    BY <1>7, <2>1, TypeFacts, WriteAndReturnType DEF FailedCheck
<1> QED
  BY <1>1, <1>2, <1>3, <1>4, <1>5, <1>6, <1>7 DEF Decide

\* Type correctness of the strategies.
LEMMA AnalyseType ==
  ASSUME TypeInv, Analyse
  PROVE  TypeInv'
<1>1. CASE RunCanary
  <2>1. {"increase", "promote"} \subseteq Labels
    BY DEF Labels
  <2> QED
    BY <1>1, <2>1, GoToType, NothingToDoType, PromotionHaltedType DEF RunCanary
<1>2. CASE RunAB
  <2>1. {"abRoutes", "promote"} \subseteq Labels
    BY DEF Labels
  <2> QED
    BY <1>2, <2>1, GoToType, NothingToDoType, PromotionHaltedType DEF RunAB
<1>3. CASE RunBlueGreen
  <2>1. {"bgMirror", "setIterations", "bgRoutes", "promote"} \subseteq Labels
    BY DEF Labels
  <2> QED
    BY <1>3, <2>1, GoToType, NothingToDoType, PromotionHaltedType DEF RunBlueGreen
<1>4. CASE IncreaseWeight
  BY <1>4, SpecType, IncreasedSplitType, SetRoutesType
     DEF IncreaseWeight, TypeInv, TypeOK, StepIsForward, Call, Labels
<1>5. CASE SetWeight
  <2>1. status' \in Statuses
    BY <1>5, TypeFacts, SetStatusWeightType DEF SetWeight, Write, Splits
  <2> QED
    BY <1>5, <2>1, TypeFacts, WriteAndReturnType DEF SetWeight
<1>6. CASE RouteToCanary
  BY <1>6, NamedSplits, SetRoutesType
     DEF RouteToCanary, TypeInv, TypeOK, StepIsForward, Call, Labels
<1>7. CASE MirrorTraffic
  <2>1. routes' \in Splits /\ apex' = apex /\ drift' = drift
    BY <1>7, TypeFacts, NamedSplits, SetRoutesType DEF MirrorTraffic
  <2>2. faults' = faults \/ (faults < MaxFaults /\ faults' = faults + 1)
    BY <1>7 DEF MirrorTraffic
  <2>3. faults' \in 0 .. MaxFaults
    BY <2>2, BoundsAssumption DEF TypeInv, TypeOK
  <2> QED
    BY <1>7, <2>1, <2>3 DEF MirrorTraffic, TypeInv, TypeOK, StepIsForward, Call, Labels
<1>8. CASE SetIterations
  <2>1. status' \in Statuses
    BY <1>8, TypeFacts, StatusFields, SetStatusIterationsType DEF SetIterations, Write
  <2> QED
    BY <1>8, <2>1, TypeFacts, WriteAndReturnType DEF SetIterations
<1> QED
  BY <1>1, <1>2, <1>3, <1>4, <1>5, <1>6, <1>7, <1>8 DEF Analyse

\* Type correctness of promotion and rollback.
LEMMA ConcludeType ==
  ASSUME TypeInv, Conclude
  PROVE  TypeInv'
<1>1. CASE Promote
  BY <1>1
     DEF Promote, Hashes, Changes, TypeInv, TypeOK, StepIsForward, Call, Labels
<1>2. CASE SetPromoting
  <2>1. "Promoting" \in Phases /\ Iterations \in Int
    BY TypeFacts, SpecType DEF Phases
  <2>2. status' \in Statuses
    BY <1>2, <2>1, TypeFacts, SetStatusPhaseType DEF SetPromoting, Write
  <2>3. unrecorded' \in SUBSET Changes /\ tried' \in SUBSET Revs
    BY <1>2, TypeFacts DEF SetPromoting
  <2> QED
    BY <1>2, <2>2, <2>3, WriteAndReturnType DEF SetPromoting
<1>3. CASE ShiftAtOnce
  BY <1>3, NamedSplits, SetRoutesType
     DEF ShiftAtOnce, TypeInv, TypeOK, StepIsForward, Call, Labels
<1>4. CASE ShiftStep
  BY <1>4, SpecType, PromotedSplitType, SetRoutesType
     DEF ShiftStep, TypeInv, TypeOK, StepIsForward, Call, Labels
<1>5. CASE NothingToShift
  <2>1. "setFinalising" \in Labels
    BY DEF Labels
  <2> QED
    BY <1>5, <2>1, GoToType, NothingToDoType DEF NothingToShift
<1>6. CASE SetFinalising
  <2>1. "Finalising" \in Phases /\ Iterations \in Int
    BY TypeFacts, SpecType DEF Phases
  <2>2. status' \in Statuses
    BY <1>6, <2>1, TypeFacts, SetStatusPhaseType DEF SetFinalising, Write
  <2>3. unrecorded' \in SUBSET Changes /\ tried' \in SUBSET Revs
    BY <1>6, TypeFacts DEF SetFinalising
  <2> QED
    BY <1>6, <2>2, <2>3, WriteAndReturnType DEF SetFinalising
<1>7. CASE Finalise
  BY <1>7
     DEF Finalise, Changes, TypeInv, TypeOK, StepIsForward, Call, Labels
<1>8. CASE SetSucceeded
  <2>1. "Succeeded" \in Phases /\ Iterations \in Int
    BY TypeFacts, SpecType DEF Phases
  <2>2. status' \in Statuses
    BY <1>8, <2>1, TypeFacts, SetStatusPhaseType DEF SetSucceeded, Write
  <2>3. unrecorded' \in SUBSET Changes /\ tried' \in SUBSET Revs
    BY <1>8, TypeFacts DEF SetSucceeded
  <2> QED
    BY <1>8, <2>2, <2>3, WriteAndReturnType DEF SetSucceeded
<1>9. CASE SkipRoutes
  BY <1>9, NamedSplits, SetRoutesType
     DEF SkipRoutes, TypeInv, TypeOK, StepIsForward, Call, Labels
<1>10. CASE RollbackRoutes
  BY <1>10, NamedSplits, SetRoutesType
     DEF RollbackRoutes, Changes, TypeInv, TypeOK, StepIsForward, Call, Labels
<1>11. CASE RollbackWithoutRoutes
  BY <1>11, NothingToDoType DEF RollbackWithoutRoutes
<1>12. CASE RollbackScale
  BY <1>12
     DEF RollbackScale, TypeInv, TypeOK, StepIsForward, Call, Labels
<1>13. CASE SyncFailed
  <2>1. "Failed" \in Phases /\ 0 \in Weights
    BY DEF Phases, Weights, totalWeight
  <2>2. status' \in Statuses
    BY <1>13, <2>1, TypeFacts, ResetType DEF SyncFailed, Write
  <2>3. tried' \in SUBSET Revs /\ unrecorded' \in SUBSET Changes
    BY <1>13, TypeFacts DEF SyncFailed
  <2> QED
    BY <1>13, <2>2, <2>3, WriteAndReturnType DEF SyncFailed
<1>14. CASE HaltPromotion
  BY <1>14, NamedSplits, SetRoutesType
     DEF HaltPromotion, Changes, TypeInv, TypeOK, StepIsForward, Call, Labels
<1>15. CASE SyncHalted
  <2>1. "Failed" \in Phases /\ totalWeight \in Weights
    BY DEF Phases, Weights, totalWeight
  <2>2. status' \in Statuses
    BY <1>15, <2>1, TypeFacts, ResetType DEF SyncHalted, Write
  <2>3. tried' \in SUBSET Revs /\ unrecorded' \in SUBSET Changes
    BY <1>15, TypeFacts DEF SyncHalted
  <2> QED
    BY <1>15, <2>2, <2>3, WriteAndReturnType DEF SyncHalted
<1> QED
  BY <1>1, <1>2, <1>3, <1>4, <1>5, <1>6, <1>7, <1>8, <1>9, <1>10, <1>11, <1>12, <1>13, <1>14, <1>15 DEF Conclude

\* Type correctness of the users, the informer and the end of a tick.
LEMMA EnvironmentType ==
  ASSUME TypeInv, Abort \/ User \/ SetPhaseInitializing
  PROVE  TypeInv'
<1>1. CASE Abort
  <2>1. faults' \in 0 .. MaxFaults
    BY <1>1, BoundsAssumption DEF TypeInv, TypeOK, Abort
  <2> QED
    BY <1>1, <2>1, ReturnType DEF Abort, TypeInv, TypeOK, StepIsForward, Labels
<1>2. CASE PushRevision
  <2>1. userOps' \in 0 .. MaxUserOps
    BY <1>2, BoundsAssumption DEF TypeInv, TypeOK, PushRevision
  <2>2. target' \in [rev : Revs, up : BOOLEAN] /\ pushed' \in SUBSET Revs
    <3>1. PICK r \in Revs, up \in {target.up, TRUE} :
            target' = Deployment(r, up) /\ pushed' = pushed \cup {r}
      BY <1>2 DEF PushRevision
    <3>2. up \in BOOLEAN /\ pushed \in SUBSET Revs
      BY DEF TypeInv, TypeOK
    <3> QED
      BY <3>1, <3>2 DEF Deployment
  <2> QED
    BY <1>2, <2>1, <2>2 DEF PushRevision, TypeInv, TypeOK, StepIsForward, locals, Analysis
<1>3. CASE EditService
  <2>1. userOps' \in 0 .. MaxUserOps
    BY <1>3, BoundsAssumption DEF TypeInv, TypeOK, EditService
  <2> QED
    BY <1>3, <2>1 DEF EditService, TypeInv, TypeOK, StepIsForward, locals, Analysis
<1>4. CASE SetPhaseInitializing
  <2>1. "Initializing" \in Phases
    BY DEF Phases
  <2>2. status' \in Statuses
    BY <1>4, <2>1, TypeFacts, PhaseFieldType DEF SetPhaseInitializing, Write
  <2> QED
    BY <1>4, <2>2 DEF SetPhaseInitializing, TypeInv, TypeOK, StepIsForward, locals, Analysis
<1> QED
  BY <1>1, <1>2, <1>3, <1>4 DEF User

\* The invariant holds from the start and is kept by every step.
LEMMA TypeInvInductive ==
  /\ Init => TypeInv
  /\ TypeInv /\ [Next]_vars => TypeInv'
<1>1. Init => TypeInv
  <2> SUFFICES ASSUME Init PROVE TypeInv
    OBVIOUS
  <2>1. target \in [rev : Revs, up : BOOLEAN] /\ pushed \in SUBSET Revs
    BY DEF Init, Deployment
  <2>2. primary \in [rev : Hashes, up : BOOLEAN]
    BY DEF Init, NoPrimary, Deployment, Hashes
  <2>3. userOps \in 0 .. MaxUserOps /\ faults \in 0 .. MaxFaults
    BY BoundsAssumption DEF Init
  <2>4. pc \in Labels /\ pc # "increase" /\ apex \in {"target", "primary"} /\ drift \in BOOLEAN
    BY DEF Init, Labels
  <2> QED
    BY <2>1, <2>2, <2>3, <2>4, NamedSplits, EmptyStatusType
       DEF Init, TypeInv, TypeOK, StepIsForward
<1>2. TypeInv /\ [Next]_vars => TypeInv'
  <2> SUFFICES ASSUME TypeInv, [Next]_vars PROVE TypeInv'
    OBVIOUS
  <2>1. CASE Next
    BY <2>1, BootstrapType, StartType, DecideType, AnalyseType, ConcludeType, EnvironmentType
       DEF Next, Tick
  <2>2. CASE UNCHANGED vars
    BY <2>2 DEF vars, locals, TypeInv, TypeOK, StepIsForward, Analysis
  <2> QED
    BY <2>1, <2>2
<1> QED
  BY <1>1, <1>2

\* The weights, counters, hashes and labels of every reachable state are of
\* their type; above all, the weights in the routes, in the status and in the
\* tick's copy never leave 0 .. 100.
THEOREM TypeCorrect == Spec => []TypeOK
<1>1. TypeInv => TypeOK
  BY DEF TypeInv
<1> QED
  BY <1>1, TypeInvInductive, PTL DEF Spec
================================================================================
