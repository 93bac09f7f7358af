----------------------------- MODULE RolloutProofs -----------------------------
(***************************************************************************)
(* What a rollout does to its users, for every instance of Scheduler: that *)
(* traffic finds pods, that the primary changes at the end of an analysis  *)
(* only, and that success means the primary runs the promoted revision.    *)
(* The invariants here stand on what the phase tells of a tick (LifeInv)   *)
(* and on the tick's copy of the split being current (TrafficInv).         *)
(***************************************************************************)
EXTENDS LifecycleProofs

USE DEF locals, workloads, routing, budgets, ghosts, AfterServices, AfterReconciled

------------------------------------------------------------------------------
\* Traffic and the pods behind it.

\* The canary gets neither traffic nor a copy of it.
Bare == routes.c = 0 /\ ~routes.m

\* handleFailedPromotion was cut short after it sent the traffic to the canary.
HaltCut == "halt" \in unrecorded

\* Each handler has left its mark by the time it writes the status.
Marked ==
  /\ pc \in {"rollbackScale", "syncFailed"} => "rollback" \in unrecorded
  /\ pc = "setSucceeded" => "finalise" \in unrecorded
  /\ pc = "syncHalted" => "halt" \in unrecorded

\* Where the traffic is in each phase, and at the calls that follow one that moved it.
BareRoutes ==
  /\ ~Meshed => routes = NoRoutes
  /\ status.phase \in {"None", "Initializing"} => Bare
  /\ status.phase \in {"Initialized", "Finalising", "Succeeded"} => Bare \/ HaltCut
  /\ status.phase = "Waiting" => Bare \/ routes = AllCanary \/ HaltCut
  /\ status.phase = "Failed" => Bare \/ routes = AllCanary
  /\ pc \in {"rollbackScale", "syncFailed", "syncRestart", "setFinalising", "skipPromote"} => Bare
  /\ SkipAnalysis /\ pc \in {"finalise", "setSucceeded"} => Bare
  /\ pc = "syncHalted" => Bare \/ routes = AllCanary

RoutesInv == Marked /\ BareRoutes

\* The calls that rely on the traffic or on a mark.
Relying == {"rollbackScale", "syncFailed", "syncRestart", "setFinalising", "skipPromote",
            "finalise", "setSucceeded", "syncHalted"}

\* The splits that leave the canary alone.
LEMMA NamedSplitsBare ==
  /\ AllPrimary.c = 0 /\ ~AllPrimary.m /\ NoRoutes.c = 0 /\ ~NoRoutes.m
BY DEF AllPrimary, NoRoutes, Split

\* A step that leaves the routes alone and enters no call that relies on them.
LEMMA RoutesUntouched ==
  ASSUME RoutesInv, UNCHANGED <<spec, routes>>, unrecorded \subseteq unrecorded',
         status'.phase = status.phase, pc' \notin Relying
  PROVE  RoutesInv'
BY DEF RoutesInv, Marked, BareRoutes, Bare, HaltCut, Relying, Provider, Meshed, SkipAnalysis

\* A tick that returns and leaves the routes alone.
LEMMA RoutesReturned ==
  ASSUME RoutesInv, Return, UNCHANGED <<spec, routes, unrecorded>>,
         status'.phase = status.phase
  PROVE  RoutesInv'
BY RoutesUntouched DEF Return, Relying

\* The routes during bootstrap and reconciliation.
LEMMA BootstrapRoutes ==
  ASSUME TypeInv, LifeInv, RoutesInv, Bootstrap
  PROVE  RoutesInv'
<1> USE DEF Call
<1>0. status \in Statuses
  BY TypeFacts
<1>1. CASE GetCanary \/ Initialize \/ ReconcileApex \/ ScaleDownTarget \/ PrimaryReady
           \/ PrimaryStuck
  BY <1>1, RoutesUntouched
     DEF GetCanary, Initialize, ReconcileApex, ScaleDownTarget, PrimaryReady, PrimaryStuck, Relying
<1>2. CASE ReconcileMesh
  <2>1. pc' \notin Relying /\ status' = status /\ spec' = spec /\ unrecorded \subseteq unrecorded'
    BY <1>2 DEF ReconcileMesh, Relying
  <2>2. CASE routes' = routes
    BY <2>1, <2>2, RoutesUntouched
  <2>3. CASE Meshed /\ routes' = AllPrimary
    BY <2>1, <2>3, NamedSplitsBare
       DEF RoutesInv, Marked, BareRoutes, Bare, HaltCut, Relying, Provider, Meshed, SkipAnalysis
  <2> QED BY <1>2, <2>2, <2>3 DEF ReconcileMesh
<1>3. CASE SetPhaseInitialized
  <2>1. status'.phase = "Initialized" /\ status.phase = "Initializing"
    BY <1>0, <1>3, PhaseWritten DEF SetPhaseInitialized, Write, LifeInv, CallPhases
  <2> QED
    BY <1>3, <2>1
       DEF SetPhaseInitialized, RoutesInv, Marked, BareRoutes, Bare, HaltCut, Provider, Meshed,
           SkipAnalysis
<1>4. CASE ShouldAdvance
  <2>1. status'.phase = status.phase
    BY <1>0, <1>4, PhaseWritten DEF ShouldAdvance, Write, LifeInv, CallPhases
  <2> QED BY <1>4, <2>1, RoutesUntouched DEF ShouldAdvance, Relying
<1>5. CASE HasTargetChanged
  BY <1>5, RoutesUntouched, RoutesReturned DEF HasTargetChanged, Relying
<1> QED BY <1>1, <1>2, <1>3, <1>4, <1>5 DEF Bootstrap

\* The routes while an analysis starts or starts over.
LEMMA StartRoutes ==
  ASSUME TypeInv, LifeInv, RoutesInv, Start
  PROVE  RoutesInv'
<1> USE DEF Call
<1>0. status \in Statuses
  BY TypeFacts
<1>1. CASE ConfirmRollout \/ ScaleFromZero \/ HasCanaryRevisionChanged
  BY <1>1, RoutesUntouched DEF ConfirmRollout, ScaleFromZero, HasCanaryRevisionChanged, Relying
<1>2. CASE RolloutHalted
  <2>1. status'.phase = "Waiting" /\ status.phase \in Resting
    BY <1>0, <1>2, PhaseWritten DEF RolloutHalted, Write, LifeInv, CallPhases
  <2> QED
    BY <1>2, <2>1
       DEF RolloutHalted, Return, Resting, RoutesInv, Marked, BareRoutes, Bare, HaltCut, Provider,
           Meshed,
           SkipAnalysis
<1>3. CASE SyncProgressing \/ SyncRestart
  <2>1. status'.phase = "Progressing"
    BY <1>0, <1>3, PhaseWritten DEF SyncProgressing, SyncRestart, Write
  <2> QED
    BY <1>3, <2>1
       DEF SyncProgressing, SyncRestart, Return, RoutesInv, Marked, BareRoutes, Bare, Provider,
           Meshed,
           SkipAnalysis
<1>4. CASE RestartRoutes
  <2>1. status' = status /\ status.phase \in Analysed /\ spec' = spec /\ pc' = "syncRestart"
    BY <1>4 DEF RestartRoutes, LifeInv, CallPhases
  <2>2. Bare' /\ (~Meshed => routes' = NoRoutes)
    BY <1>4, NamedSplitsBare DEF RestartRoutes, SetRoutes, Bare, RoutesInv, BareRoutes, Provider,
                                 Meshed
  <2> QED
    BY <2>1, <2>2 DEF Analysed, RoutesInv, Marked, BareRoutes, Provider, Meshed, SkipAnalysis
<1> QED BY <1>1, <1>2, <1>3, <1>4 DEF Start

\* The routes while the tick decides how to go on.
LEMMA DecideRoutes ==
  ASSUME TypeInv, LifeInv, RoutesInv, Decide
  PROVE  RoutesInv'
<1> USE DEF Call
<1>1. CASE CanaryStuck \/ ShouldSkipAnalysis \/ RollbackHook \/ ThresholdReached \/ ChecksFail
  BY <1>1, RoutesUntouched
     DEF CanaryStuck, ShouldSkipAnalysis, RollbackHook, ThresholdReached, ChecksFail, Relying
<1>2. CASE ContinuePromotion
  BY <1>2
     DEF ContinuePromotion, RoutesInv, Marked, BareRoutes, Bare, HaltCut, Provider, Meshed,
         SkipAnalysis
<1>3. CASE FailedCheck
  <2>1. status'.phase = status.phase
    BY <1>3, TypeFacts, PhaseWritten DEF FailedCheck, Write
  <2> QED BY <1>3, <2>1, RoutesReturned DEF FailedCheck
<1> QED BY <1>1, <1>2, <1>3 DEF Decide

\* The routes while the strategies move the traffic.
LEMMA AnalyseRoutes ==
  ASSUME TypeInv, LifeInv, RoutesInv, Analyse
  PROVE  RoutesInv'
<1> USE DEF Call
<1>0. status \in Statuses
  BY TypeFacts
<1>1. ASSUME NEW label \in {"increase", "promote", "abRoutes", "bgRoutes", "bgMirror",
                            "setIterations"}, GoTo(label)
      PROVE  RoutesInv'
  BY <1>1, RoutesUntouched DEF GoTo, Relying
<1>2. ASSUME NothingToDo
      PROVE  RoutesInv'
  BY <1>2, RoutesReturned DEF NothingToDo
<1>3. ASSUME MayAnalyse, PromotionHalted
      PROVE  RoutesInv'
  <2>1. status'.phase \in {"WaitingPromotion", status.phase}
    BY <1>0, <1>3, PhaseWritten DEF PromotionHalted, Write
  <2> QED
    BY <1>3, <2>1
       DEF PromotionHalted, Return, RoutesInv, Marked, BareRoutes, Bare, HaltCut, Provider, Meshed,
           SkipAnalysis
<1>4. CASE RunCanary
  BY <1>1, <1>2, <1>3, <1>4 DEF RunCanary
<1>5. CASE RunAB
  BY <1>1, <1>2, <1>3, <1>5 DEF RunAB
<1>6. CASE RunBlueGreen
  BY <1>1, <1>3, <1>6 DEF RunBlueGreen
<1>7. CASE IncreaseWeight \/ RouteToCanary \/ MirrorTraffic
  <2>1. status.phase \in Analysed
    BY <1>7 DEF IncreaseWeight, RouteToCanary, MirrorTraffic, LifeInv, CallPhases
  <2>2. ~Meshed => routes' = routes
    BY <1>7 DEF IncreaseWeight, RouteToCanary, MirrorTraffic, SetRoutes, Provider, Meshed
  <2> QED
    BY <1>7, <2>1, <2>2
       DEF IncreaseWeight, RouteToCanary, MirrorTraffic, Analysed, RoutesInv, Marked, BareRoutes,
           Provider, Meshed, SkipAnalysis
<1>8. CASE SetWeight \/ SetIterations
  <2>1. status'.phase = status.phase
    BY <1>0, <1>8, PhaseWritten DEF SetWeight, SetIterations, Write
  <2> QED BY <1>8, <2>1, RoutesReturned DEF SetWeight, SetIterations
<1> QED BY <1>4, <1>5, <1>6, <1>7, <1>8 DEF Analyse

\* The routes during promotion, rollback and a halted promotion.
LEMMA ConcludeRoutes ==
  ASSUME TypeInv, LifeInv, TrafficInv, RoutesInv, Conclude
  PROVE  RoutesInv'
<1> USE DEF Call
<1>0. status \in Statuses
  BY TypeFacts
<1>1. CASE Promote
  BY <1>1 DEF Promote, RoutesInv, Marked, BareRoutes, Bare, HaltCut, Provider, Meshed, SkipAnalysis,
              LifeInv, SkipPhases
<1>2. CASE SetPromoting
  <2>1. status'.phase = "Promoting"
    BY <1>0, <1>2, PhaseWritten DEF SetPromoting, Write
  <2> QED
    BY <1>2, <2>1
       DEF SetPromoting, Return, RoutesInv, Marked, BareRoutes, Provider, Meshed, SkipAnalysis
<1>3. CASE ShiftAtOnce \/ SkipRoutes \/ RollbackRoutes
  <2>1. Bare' /\ (~Meshed => routes' = NoRoutes)
    BY <1>3, NamedSplitsBare
       DEF ShiftAtOnce, SkipRoutes, RollbackRoutes, SetRoutes, Bare, RoutesInv, BareRoutes,
           Provider, Meshed
  <2> QED
    BY <1>3, <2>1
       DEF ShiftAtOnce, SkipRoutes, RollbackRoutes, RoutesInv, Marked, BareRoutes, Provider, Meshed,
           SkipAnalysis
<1>4. CASE ShiftStep
  <2>1. status.phase = "Promoting" /\ status' = status /\ spec' = spec /\ Meshed
        /\ unrecorded' = unrecorded /\ pc' \in {"setFinalising", "setWeight"}
    BY <1>4 DEF ShiftStep, LifeInv, CallPhases
  <2>2. ~routes'.m /\ routes' = view' /\ (pc' = "setFinalising" => view'.p = totalWeight)
    BY <1>4 DEF ShiftStep, SetRoutes, PromotedSplit, Split
  <2>3. routes'.p + routes'.c = totalWeight /\ routes'.c \in Weights
    BY <1>4, <2>2, TypeFacts, SpecType, PromotedSplitType
       DEF ShiftStep, TrafficInv, ViewIsWhole, Whole, Splits
  <2>4. pc' = "setFinalising" => Bare'
    BY <2>2, <2>3 DEF Bare, Weights, totalWeight
  <2> QED
    BY <2>1, <2>4 DEF RoutesInv, Marked, BareRoutes, Provider, Meshed, SkipAnalysis
<1>5. CASE NothingToShift
  <2>1. CASE GoTo("setFinalising") /\ ~Meshed
    BY <1>5, <2>1, NamedSplitsBare
       DEF GoTo, RoutesInv, Marked, BareRoutes, Bare, HaltCut, Provider, Meshed, SkipAnalysis
  <2>2. CASE NothingToDo
    BY <2>2, RoutesReturned DEF NothingToDo
  <2> QED BY <1>5, <2>1, <2>2 DEF NothingToShift
<1>6. CASE SetFinalising
  <2>1. status'.phase = "Finalising"
    BY <1>0, <1>6, PhaseWritten DEF SetFinalising, Write
  <2> QED
    BY <1>6, <2>1
       DEF SetFinalising, Return, RoutesInv, Marked, BareRoutes, Bare, Provider, Meshed,
           SkipAnalysis
<1>7. CASE Finalise
  BY <1>7 DEF Finalise, RoutesInv, Marked, BareRoutes, Bare, HaltCut, Provider, Meshed, SkipAnalysis
<1>8. CASE SetSucceeded
  <2>1. status'.phase = "Succeeded"
    BY <1>0, <1>8, PhaseWritten DEF SetSucceeded, Write
  <2>2. Bare \/ HaltCut
    BY <1>8 DEF SetSucceeded, RoutesInv, BareRoutes, LifeInv, CallPhases
  <2> QED
    BY <1>8, <2>1, <2>2
       DEF SetSucceeded, Return, RoutesInv, Marked, BareRoutes, Bare, HaltCut, Provider, Meshed,
           SkipAnalysis
<1>9. CASE RollbackWithoutRoutes
  BY <1>9, RoutesReturned DEF RollbackWithoutRoutes, NothingToDo
<1>10. CASE RollbackScale
  BY <1>10 DEF RollbackScale, RoutesInv, Marked, BareRoutes, Bare, HaltCut, Provider, Meshed,
               SkipAnalysis
<1>11. CASE SyncFailed \/ SyncHalted
  <2>1. status'.phase = "Failed"
    BY <1>0, <1>11, PhaseWritten DEF SyncFailed, SyncHalted, Write
  <2> QED
    BY <1>11, <2>1
       DEF SyncFailed, SyncHalted, Return, RoutesInv, Marked, BareRoutes, Bare, Provider, Meshed,
           SkipAnalysis
<1>12. CASE HaltPromotion
  <2>1. status.phase \in {"Promoting", "Finalising"} /\ status' = status /\ spec' = spec
    BY <1>12 DEF HaltPromotion, LifeInv, CallPhases
  <2>2. IF Meshed THEN routes' = AllCanary ELSE routes' = NoRoutes /\ Bare'
    BY <1>12, NamedSplitsBare
       DEF HaltPromotion, SetRoutes, Bare, RoutesInv, BareRoutes, Provider, Meshed
  <2> QED
    BY <1>12, <2>1, <2>2
       DEF HaltPromotion, RoutesInv, Marked, BareRoutes, HaltCut, Provider, Meshed, SkipAnalysis
<1> QED
  BY <1>1, <1>2, <1>3, <1>4, <1>5, <1>6, <1>7, <1>8, <1>9, <1>10, <1>11, <1>12 DEF Conclude

\* The routes while ticks are cut and users act.
LEMMA EnvironmentRoutes ==
  ASSUME TypeInv, LifeInv, RoutesInv, Abort \/ User \/ SetPhaseInitializing
  PROVE  RoutesInv'
<1>1. CASE Abort
  BY <1>1, RoutesReturned DEF Abort
<1>2. CASE User
  <2>1. UNCHANGED <<spec, status, routes, pc, unrecorded>>
    BY <1>2 DEF User, PushRevision, EditService
  <2> QED
    BY <2>1 DEF RoutesInv, Marked, BareRoutes, Bare, HaltCut, Provider, Meshed, SkipAnalysis
<1>3. CASE SetPhaseInitializing
  <2>1. status'.phase = "Initializing" /\ status.phase = "None"
    BY <1>3, TypeFacts, PhaseWritten DEF SetPhaseInitializing, Write
  <2> QED
    BY <1>3, <2>1
       DEF SetPhaseInitializing, RoutesInv, Marked, BareRoutes, Bare, Provider, Meshed, SkipAnalysis
<1> QED BY <1>1, <1>2, <1>3

\* The invariant holds from the start and is kept by every step.
LEMMA RoutesInvInductive ==
  /\ Init => RoutesInv
  /\ TypeInv /\ LifeInv /\ TrafficInv /\ RoutesInv /\ [Next]_vars => RoutesInv'
<1>1. Init => RoutesInv
  BY NamedSplitsBare DEF Init, EmptyStatus, RoutesInv, Marked, BareRoutes, Bare, HaltCut
<1>2. TypeInv /\ LifeInv /\ TrafficInv /\ RoutesInv /\ [Next]_vars => RoutesInv'
  <2> SUFFICES ASSUME TypeInv, LifeInv, TrafficInv, RoutesInv, [Next]_vars PROVE RoutesInv'
    OBVIOUS
  <2>1. CASE Next
    BY <2>1, BootstrapRoutes, StartRoutes, DecideRoutes, AnalyseRoutes, ConcludeRoutes,
       EnvironmentRoutes DEF Next, Tick
  <2>2. CASE UNCHANGED vars
    BY <2>2 DEF vars, RoutesInv, Marked, BareRoutes, Bare, HaltCut, Provider, Meshed, SkipAnalysis
  <2> QED BY <2>1, <2>2
<1> QED BY <1>1, <1>2

\* The target has pods for the whole of a rollout, unless a handler that scaled it to
\* zero was cut short; and for as long as a failed rollout leaves traffic on it.
PodsInv ==
  /\ status.phase \in Advanced => target.up \/ unrecorded \cap {"rollback", "finalise"} # {}
  /\ pc = "syncProgressing" => target.up
  /\ status.phase \in {"Failed", "Waiting"} => Bare \/ target.up \/ Interrupted

\* A step that writes no phase, takes no pods away and sends no traffic in a phase
\* that rests.
LEMMA PodsUntouched ==
  ASSUME PodsInv, target.up => target'.up, status'.phase = status.phase,
         unrecorded \cap {"rollback", "halt", "finalise"} \subseteq unrecorded',
         pc' # "syncProgressing",
         status.phase \in {"Failed", "Waiting"} /\ Bare => Bare'
  PROVE  PodsInv'
BY DEF PodsInv, Interrupted

\* A push never takes the target's pods away.
LEMMA PushKeepsPods ==
  ASSUME PushRevision
  PROVE  target.up => target'.up
<1>1. PICK r \in Revs, up \in {target.up, TRUE} : target' = Deployment(r, up)
  BY DEF PushRevision
<1> QED BY <1>1 DEF Deployment

\* A tick that returns and leaves the workloads and the routes alone.
LEMMA PodsReturned ==
  ASSUME PodsInv, Return, UNCHANGED <<target, routes, unrecorded>>, status'.phase = status.phase
  PROVE  PodsInv'
BY PodsUntouched DEF Return, Bare

\* The pods during bootstrap and reconciliation.
LEMMA BootstrapPods ==
  ASSUME TypeInv, LifeInv, RoutesInv, PodsInv, Bootstrap
  PROVE  PodsInv'
<1> USE DEF Call
<1>0. status \in Statuses
  BY TypeFacts
<1>1. CASE GetCanary \/ Initialize \/ ReconcileApex \/ PrimaryReady \/ PrimaryStuck
  BY <1>1, PodsUntouched
     DEF GetCanary, Initialize, ReconcileApex, PrimaryReady, PrimaryStuck, Bare
<1>2. CASE ScaleDownTarget
  <2>1. status.phase = "Initializing" /\ status' = status /\ pc' # "syncProgressing"
    BY <1>2 DEF ScaleDownTarget, LifeInv, CallPhases
  <2> QED BY <2>1 DEF PodsInv, Advanced, Analysed
<1>3. CASE ReconcileMesh
  <2>1. Bare => Bare'
    BY <1>3, NamedSplitsBare DEF ReconcileMesh, Bare
  <2> QED BY <1>3, <2>1, PodsUntouched DEF ReconcileMesh
<1>4. CASE SetPhaseInitialized
  <2>1. status'.phase = "Initialized" /\ pc' = "shouldAdvance"
    BY <1>0, <1>4, PhaseWritten DEF SetPhaseInitialized, Write
  <2> QED BY <2>1 DEF PodsInv, Advanced, Analysed
<1>5. CASE ShouldAdvance
  <2>1. status'.phase = status.phase
    BY <1>0, <1>5, PhaseWritten DEF ShouldAdvance, Write, LifeInv, CallPhases
  <2> QED BY <1>5, <2>1, PodsUntouched DEF ShouldAdvance, Bare
<1>6. CASE HasTargetChanged
  BY <1>6, PodsUntouched, PodsReturned DEF HasTargetChanged, Bare
<1> QED BY <1>1, <1>2, <1>3, <1>4, <1>5, <1>6 DEF Bootstrap

\* The pods while an analysis starts or starts over.
LEMMA StartPods ==
  ASSUME TypeInv, LifeInv, RoutesInv, PodsInv, Start
  PROVE  PodsInv'
<1> USE DEF Call
<1>0. status \in Statuses
  BY TypeFacts
<1>1. CASE ConfirmRollout \/ HasCanaryRevisionChanged
  BY <1>1, PodsUntouched DEF ConfirmRollout, HasCanaryRevisionChanged, Bare
<1>2. CASE RolloutHalted
  <2>1. status'.phase = "Waiting" /\ status.phase \in Resting
    BY <1>0, <1>2, PhaseWritten DEF RolloutHalted, Write, LifeInv, CallPhases
  <2>2. Bare \/ target.up \/ Interrupted
    BY <2>1 DEF Resting, PodsInv, RoutesInv, BareRoutes, HaltCut, Interrupted
  <2> QED
    BY <1>2, <2>1, <2>2
       DEF RolloutHalted, Return, PodsInv, Advanced, Analysed, Bare, Interrupted
<1>3. CASE ScaleFromZero
  <2>1. target'.up /\ UNCHANGED <<status, unrecorded>>
    BY <1>3, TypeFacts DEF ScaleFromZero
  <2> QED BY <2>1 DEF PodsInv
<1>4. CASE SyncProgressing
  <2>1. status'.phase = "Progressing" /\ target' = target /\ target.up /\ pc' = "idle"
    BY <1>0, <1>4, PhaseWritten DEF SyncProgressing, Write, Return, PodsInv
  <2> QED BY <2>1 DEF PodsInv
<1>5. CASE RestartRoutes
  <2>1. status.phase \in Analysed /\ status' = status
    BY <1>5 DEF RestartRoutes, LifeInv, CallPhases
  <2> QED BY <1>5, <2>1, PodsUntouched DEF RestartRoutes, Analysed
<1>6. CASE SyncRestart
  <2>1. status'.phase = "Progressing" /\ status.phase \in Advanced
    BY <1>0, <1>6, PhaseWritten DEF SyncRestart, Write, LifeInv, CallPhases, Advanced
  <2> QED
    BY <1>6, <2>1 DEF SyncRestart, Return, PodsInv, Advanced, Analysed
<1> QED BY <1>1, <1>2, <1>3, <1>4, <1>5, <1>6 DEF Start

\* The pods while the tick decides how to go on.
LEMMA DecidePods ==
  ASSUME TypeInv, LifeInv, PodsInv, Decide
  PROVE  PodsInv'
<1> USE DEF Call
<1>1. CASE CanaryStuck \/ ShouldSkipAnalysis \/ RollbackHook \/ ContinuePromotion
           \/ ThresholdReached \/ ChecksFail
  BY <1>1, PodsUntouched
     DEF CanaryStuck, ShouldSkipAnalysis, RollbackHook, ContinuePromotion, ThresholdReached,
         ChecksFail, Bare
<1>2. CASE FailedCheck
  <2>1. status'.phase = status.phase
    BY <1>2, TypeFacts, PhaseWritten DEF FailedCheck, Write
  <2> QED BY <1>2, <2>1, PodsReturned DEF FailedCheck
<1> QED BY <1>1, <1>2 DEF Decide

\* The pods while the strategies move the traffic.
LEMMA AnalysePods ==
  ASSUME TypeInv, LifeInv, PodsInv, Analyse
  PROVE  PodsInv'
<1> USE DEF Call
<1>0. status \in Statuses
  BY TypeFacts
<1>1. ASSUME NEW label, label # "syncProgressing", GoTo(label)
      PROVE  PodsInv'
  BY <1>1, PodsUntouched DEF GoTo, Bare
<1>2. ASSUME NothingToDo
      PROVE  PodsInv'
  BY <1>2, PodsReturned DEF NothingToDo
<1>3. ASSUME MayAnalyse, PromotionHalted
      PROVE  PodsInv'
  <2>1. status'.phase \in {"WaitingPromotion", status.phase} /\ status.phase \in Advanced
    BY <1>0, <1>3, PhaseWritten
       DEF PromotionHalted, Write, MayAnalyse, Analysing, LifeInv, CallPhases, Advanced
  <2> QED
    BY <1>3, <2>1 DEF PromotionHalted, Return, PodsInv, Advanced, Analysed, Bare, Interrupted
<1>4. CASE RunCanary
  BY <1>1, <1>2, <1>3, <1>4 DEF RunCanary
<1>5. CASE RunAB
  BY <1>1, <1>2, <1>3, <1>5 DEF RunAB
<1>6. CASE RunBlueGreen
  BY <1>1, <1>3, <1>6 DEF RunBlueGreen
<1>7. CASE IncreaseWeight \/ RouteToCanary \/ MirrorTraffic
  <2>1. status.phase \in Analysed /\ status' = status
    BY <1>7 DEF IncreaseWeight, RouteToCanary, MirrorTraffic, LifeInv, CallPhases
  <2> QED
    BY <1>7, <2>1, PodsUntouched
       DEF IncreaseWeight, RouteToCanary, MirrorTraffic, Analysed
<1>8. CASE SetWeight \/ SetIterations
  <2>1. status'.phase = status.phase
    BY <1>0, <1>8, PhaseWritten DEF SetWeight, SetIterations, Write
  <2> QED BY <1>8, <2>1, PodsReturned DEF SetWeight, SetIterations
<1> QED BY <1>4, <1>5, <1>6, <1>7, <1>8 DEF Analyse

\* The pods during promotion, rollback and a halted promotion.
LEMMA ConcludePods ==
  ASSUME TypeInv, LifeInv, RoutesInv, PodsInv, Conclude
  PROVE  PodsInv'
<1> USE DEF Call
<1>0. status \in Statuses
  BY TypeFacts
<1>1. CASE Promote
  BY <1>1, PodsUntouched DEF Promote, Bare
<1>2. CASE SetPromoting \/ SetFinalising
  <2>1. status'.phase \in {"Promoting", "Finalising"} /\ status.phase \in Advanced
    BY <1>0, <1>2, PhaseWritten
       DEF SetPromoting, SetFinalising, Write, LifeInv, CallPhases, Advanced
  <2> QED
    BY <1>2, <2>1 DEF SetPromoting, SetFinalising, Return, PodsInv, Advanced, Analysed
<1>3. CASE ShiftAtOnce \/ ShiftStep \/ SkipRoutes
  <2>1. status.phase \in Advanced /\ status' = status
    BY <1>3 DEF ShiftAtOnce, ShiftStep, SkipRoutes, LifeInv, CallPhases, Advanced
  <2> QED
    BY <1>3, <2>1, PodsUntouched DEF ShiftAtOnce, ShiftStep, SkipRoutes, Advanced, Analysed
<1>4. CASE NothingToShift
  BY <1>4, PodsUntouched, PodsReturned DEF NothingToShift, NothingToDo, GoTo, Bare
<1>5. CASE Finalise
  <2>1. status.phase \in Advanced /\ status' = status /\ "finalise" \in unrecorded'
    BY <1>5 DEF Finalise, LifeInv, CallPhases, Advanced
  <2> QED BY <1>5, <2>1 DEF Finalise, PodsInv, Advanced, Analysed
<1>6. CASE SetSucceeded
  <2>1. status'.phase = "Succeeded" /\ pc' = "idle"
    BY <1>0, <1>6, PhaseWritten DEF SetSucceeded, Write, Return
  <2> QED BY <2>1 DEF PodsInv, Advanced, Analysed
<1>7. CASE RollbackRoutes
  <2>1. Bare => Bare'
    BY <1>7, NamedSplitsBare DEF RollbackRoutes, SetRoutes, Bare
  <2> QED BY <1>7, <2>1, PodsUntouched DEF RollbackRoutes
<1>8. CASE RollbackWithoutRoutes
  BY <1>8, PodsReturned DEF RollbackWithoutRoutes, NothingToDo
<1>9. CASE RollbackScale
  <2>1. "rollback" \in unrecorded' /\ UNCHANGED <<status, unrecorded>> /\ pc' = "syncFailed"
    BY <1>9 DEF RollbackScale, RoutesInv, Marked
  <2> QED BY <2>1 DEF PodsInv, Interrupted
<1>10. CASE SyncFailed
  <2>1. status'.phase = "Failed" /\ Bare' /\ pc' = "idle"
    BY <1>0, <1>10, PhaseWritten DEF SyncFailed, Write, Return, RoutesInv, BareRoutes, Bare
  <2> QED BY <2>1 DEF PodsInv, Advanced, Analysed
<1>11. CASE HaltPromotion
  <2>1. status.phase \in Advanced \ {"Failed", "Waiting"} /\ status' = status
    BY <1>11 DEF HaltPromotion, LifeInv, CallPhases, Advanced
  <2> QED BY <1>11, <2>1, PodsUntouched DEF HaltPromotion
<1>12. CASE SyncHalted
  <2>1. status'.phase = "Failed" /\ status.phase \in Advanced /\ pc' = "idle"
    BY <1>0, <1>12, PhaseWritten DEF SyncHalted, Write, Return, LifeInv, CallPhases, Advanced
  <2>2. target.up \/ unrecorded' \cap {"rollback", "finalise"} # {}
    BY <1>12, <2>1 DEF SyncHalted, PodsInv
  <2> QED BY <1>12, <2>1, <2>2 DEF SyncHalted, PodsInv, Advanced, Analysed, Interrupted
<1> QED
  BY <1>1, <1>2, <1>3, <1>4, <1>5, <1>6, <1>7, <1>8, <1>9, <1>10, <1>11, <1>12 DEF Conclude

\* The pods while ticks are cut and users act.
LEMMA EnvironmentPods ==
  ASSUME TypeInv, LifeInv, PodsInv, Abort \/ User \/ SetPhaseInitializing
  PROVE  PodsInv'
<1>1. CASE Abort
  BY <1>1, PodsReturned DEF Abort
<1>2. CASE PushRevision
  BY <1>2, PushKeepsPods DEF PushRevision, PodsInv, Bare, Interrupted
<1>3. CASE EditService
  BY <1>3 DEF EditService, PodsInv, Bare, Interrupted
<1>4. CASE SetPhaseInitializing
  <2>1. status'.phase = "Initializing" /\ UNCHANGED <<pc, target>>
    BY <1>4, TypeFacts, PhaseWritten DEF SetPhaseInitializing, Write
  <2> QED BY <2>1 DEF PodsInv, Advanced, Analysed
<1> QED BY <1>1, <1>2, <1>3, <1>4 DEF User

\* The invariant holds from the start and is kept by every step.
LEMMA PodsInvInductive ==
  /\ Init => PodsInv
  /\ TypeInv /\ LifeInv /\ RoutesInv /\ PodsInv /\ [Next]_vars => PodsInv'
<1>1. Init => PodsInv
  BY DEF Init, EmptyStatus, PodsInv, Advanced, Analysed
<1>2. TypeInv /\ LifeInv /\ RoutesInv /\ PodsInv /\ [Next]_vars => PodsInv'
  <2> SUFFICES ASSUME TypeInv, LifeInv, RoutesInv, PodsInv, [Next]_vars PROVE PodsInv'
    OBVIOUS
  <2>1. CASE Next
    BY <2>1, BootstrapPods, StartPods, DecidePods, AnalysePods, ConcludePods, EnvironmentPods
       DEF Next, Tick
  <2>2. CASE UNCHANGED vars
    BY <2>2 DEF vars, PodsInv, Bare, Interrupted
  <2> QED BY <2>1, <2>2
<1> QED BY <1>1, <1>2

\* What is known of the traffic and the pods in every state.
ServingInv == TypeInv /\ LifeInv /\ TrafficInv /\ RoutesInv /\ PodsInv

\* It holds in every reachable state.
LEMMA AlwaysServing == Spec => []ServingInv
<1>1. Init => ServingInv
  BY TypeInvInductive, InitIsInit, TrafficInvInductive, RoutesInvInductive, PodsInvInductive
     DEF ServingInv
<1>2. ServingInv /\ [Next]_vars => ServingInv'
  BY TypeInvInductive, NextSteps, TrafficInvInductive, RoutesInvInductive, PodsInvInductive
     DEF ServingInv
<1> QED BY <1>1, <1>2, PTL DEF Spec

\* In every reachable state the canary's traffic finds pods, unless a handler was
\* cut short.
THEOREM TrafficAlwaysHasBackends == Spec => []TrafficHasBackends
<1>1. ServingInv => TrafficHasBackends
  <2> SUFFICES ASSUME ServingInv, ~Bare PROVE target.up \/ Interrupted
    BY TypeFacts DEF TrafficHasBackends, Bare, ServingInv, Splits, Weights
  <2>1. status.phase \in Phases
    BY TypeFacts, StatusFields DEF ServingInv
  <2> QED
    BY <2>1
       DEF ServingInv, RoutesInv, BareRoutes, HaltCut, PodsInv, Interrupted, Phases, Advanced,
           Analysed
<1> QED BY <1>1, AlwaysServing, PTL

\* In every reachable state outside a rollout the canary gets no traffic, unless a
\* handler was cut short, and a failed one leaves all of it on one side.
THEOREM CanaryTrafficAlwaysInRollout == Spec => []CanaryTrafficOnlyDuringRollout
<1>1. ServingInv => CanaryTrafficOnlyDuringRollout
  <2> SUFFICES ASSUME ServingInv PROVE CanaryTrafficOnlyDuringRollout
    OBVIOUS
  <2>1. status.phase \in {"Initialized", "Finalising", "Succeeded"} => Bare \/ Interrupted
    BY DEF ServingInv, RoutesInv, BareRoutes, HaltCut, Interrupted
  <2>2. Bare => routes \in {NoRoutes, AllPrimary}
    <3> SUFFICES ASSUME Bare, routes # NoRoutes PROVE routes = AllPrimary
      OBVIOUS
    <3>1. routes \in Splits /\ routes.p + routes.c = totalWeight
      BY TypeFacts DEF ServingInv, TrafficInv, SplitIsWhole
    <3>2. routes.p = totalWeight
      BY <3>1 DEF Bare, Splits, Weights, totalWeight
    <3> QED BY <3>1, <3>2 DEF Bare, Splits, AllPrimary, Split
  <2>3. status.phase = "Failed" => routes \in {NoRoutes, AllPrimary, AllCanary}
    BY <2>2 DEF ServingInv, RoutesInv, BareRoutes
  <2> QED BY <2>1, <2>3 DEF CanaryTrafficOnlyDuringRollout, Bare
<1> QED BY <1>1, AlwaysServing, PTL

\* Every analysis starts, and starts over, with the traffic where the property says.
THEOREM AnalysesStartOnPrimary == Spec => AnalysisStartsOnPrimary
<1>1. ServingInv /\ [Next]_vars =>
        [ (pc \in {"syncProgressing", "syncRestart"}) =>
            \/ ~routes.m /\ routes.c = 0
            \/ cd.phase \in {"Failed", "Waiting"} /\ routes = AllCanary
            \/ Interrupted ]_status
  <2> SUFFICES ASSUME ServingInv, pc \in {"syncProgressing", "syncRestart"}, ~Bare, ~Interrupted
               PROVE  cd.phase \in {"Failed", "Waiting"} /\ routes = AllCanary
    BY DEF Bare
  <2>1. pc = "syncProgressing" /\ status.phase \in Resting /\ cd.phase = status.phase
    BY DEF ServingInv, RoutesInv, BareRoutes, LifeInv, CallPhases
  <2> QED
    BY <2>1 DEF Resting, ServingInv, RoutesInv, BareRoutes, HaltCut, Interrupted
<1> QED BY <1>1, AlwaysServing, PTL DEF Spec, AnalysisStartsOnPrimary

\* Only Initialize and Promote write the primary.
LEMMA PrimaryWriters ==
  ASSUME [Next]_vars, primary' # primary
  PROVE  Initialize \/ Promote
BY DEF Next, Tick, Bootstrap, Start, Decide, Analyse, Conclude, User, Abort, vars,
       GetCanary, ReconcileApex, ScaleDownTarget, ReconcileMesh,
       SetPhaseInitialized, ShouldAdvance, HasTargetChanged, PrimaryReady, PrimaryStuck,
       ConfirmRollout, RolloutHalted, ScaleFromZero, SyncProgressing,
       HasCanaryRevisionChanged, RestartRoutes, SyncRestart,
       CanaryStuck, ShouldSkipAnalysis, RollbackHook, ContinuePromotion, ThresholdReached,
       ChecksFail, FailedCheck, RunCanary, RunAB, RunBlueGreen, GoTo, NothingToDo,
       PromotionHalted, IncreaseWeight, SetWeight,
       RouteToCanary, MirrorTraffic, SetIterations, SetPromoting, ShiftAtOnce,
       ShiftStep, NothingToShift, SetFinalising, Finalise, SetSucceeded, SkipRoutes,
       RollbackRoutes, RollbackWithoutRoutes, RollbackScale, SyncFailed, HaltPromotion,
       SyncHalted, PushRevision, EditService, SetPhaseInitializing

\* A promotion empties the primary only if a handler was cut short before it.
THEOREM PrimaryKeepsItsPods == Spec => PrimaryEmptiedOnlyAfterCut
<1>1. ServingInv /\ [Next]_vars => [primary.up /\ ~primary'.up => Interrupted]_primary
  <2> SUFFICES ASSUME ServingInv, [Next]_vars, primary' # primary, primary.up, ~primary'.up
               PROVE  Interrupted
    OBVIOUS
  <2>1. CASE Initialize
    BY <2>1 DEF Initialize, Deployment, NoPrimary
  <2>2. CASE Promote
    <3>1. status.phase \in Advanced /\ ~target.up
      BY <2>2 DEF Promote, Call, ServingInv, LifeInv, CallPhases, Advanced
    <3> QED BY <3>1 DEF ServingInv, PodsInv, Interrupted
  <2> QED BY <2>1, <2>2, PrimaryWriters
<1> QED BY <1>1, AlwaysServing, PTL DEF Spec, PrimaryEmptiedOnlyAfterCut

------------------------------------------------------------------------------
\* The apex service.

\* How far a tick gets while the apex service still selects the target: a rollback ends
\* before it scales the target, except where SetRoutes succeeds early.
BeforeApex ==
  /\ routes = NoRoutes \/ RoutedEarly
  /\ status.phase \in {"None", "Initializing", "Failed"}
  /\ pc \in {"idle", "mesh", "initialize", "reconcile", "rollback", "rollbackScale", "syncFailed"}
  /\ pc = "mesh" => MeshFirst
  /\ pc \in {"rollback", "rollbackScale", "syncFailed"} =>
       status.phase = "Initializing" /\ primary # NoPrimary
  /\ pc \in {"rollbackScale", "syncFailed"} => RoutedEarly /\ "rollback" \in unrecorded

ApexInv == (apex = "target" => BeforeApex) /\ ApexHasBackends

\* The steps that may find the apex service on the target and leave it there.
LEMMA ApexSteps ==
  ASSUME ApexInv, Next, apex' = "target"
  PROVE  /\ apex = "target" /\ BeforeApex
         /\ \/ GetCanary \/ Initialize \/ ReconcileMesh \/ RollbackRoutes
            \/ RollbackWithoutRoutes \/ RollbackScale \/ SyncFailed \/ Abort \/ User
            \/ SetPhaseInitializing
<1>1. apex = "target"
  BY DEF Next, Tick, Bootstrap, Start, Decide, Analyse, Conclude, User, Abort,
         GetCanary, Initialize, ReconcileApex, ScaleDownTarget, ReconcileMesh,
         SetPhaseInitialized, ShouldAdvance, HasTargetChanged, PrimaryReady, PrimaryStuck,
         ConfirmRollout, RolloutHalted, ScaleFromZero, SyncProgressing,
         HasCanaryRevisionChanged, RestartRoutes, SyncRestart, SetRoutes,
         CanaryStuck, ShouldSkipAnalysis, RollbackHook, ContinuePromotion, ThresholdReached,
         ChecksFail, FailedCheck, RunCanary, RunAB, RunBlueGreen, GoTo, NothingToDo,
         PromotionHalted, IncreaseWeight, SetWeight, Promote,
         RouteToCanary, MirrorTraffic, SetIterations, SetPromoting, ShiftAtOnce,
         ShiftStep, NothingToShift, SetFinalising, Finalise, SetSucceeded, SkipRoutes,
         RollbackRoutes, RollbackWithoutRoutes, RollbackScale, SyncFailed, HaltPromotion,
         SyncHalted, PushRevision, EditService, SetPhaseInitializing
<1>2. BeforeApex
  BY <1>1 DEF ApexInv
<1> QED
  BY <1>1, <1>2
     DEF BeforeApex, Next, Tick, Bootstrap, Start, Decide, Analyse, Conclude,
         ReconcileApex, ScaleDownTarget,
         SetPhaseInitialized, ShouldAdvance, HasTargetChanged, PrimaryReady, PrimaryStuck,
         ConfirmRollout, RolloutHalted, ScaleFromZero, SyncProgressing, Call, MayAnalyse,
         HasCanaryRevisionChanged, RestartRoutes, SyncRestart,
         CanaryStuck, ShouldSkipAnalysis, RollbackHook, ContinuePromotion, ThresholdReached,
         ChecksFail, FailedCheck, RunCanary, RunAB, RunBlueGreen, IncreaseWeight, SetWeight,
         Promote, RouteToCanary, MirrorTraffic, SetIterations, SetPromoting, ShiftAtOnce,
         ShiftStep, NothingToShift, SetFinalising, Finalise, SetSucceeded, SkipRoutes,
         HaltPromotion, SyncHalted

\* The invariant holds from the start and is kept by every step.
LEMMA ApexInvInductive ==
  /\ Init => ApexInv
  /\ TypeInv /\ LifeInv /\ ApexInv /\ [Next]_vars => ApexInv'
<1>1. Init => ApexInv
  BY DEF Init, EmptyStatus, Deployment, ApexInv, BeforeApex, ApexHasBackends
<1>2. TypeInv /\ LifeInv /\ ApexInv /\ Next => ApexInv'
  <2> SUFFICES ASSUME TypeInv, LifeInv, ApexInv, Next, apex' = "target"
               PROVE  BeforeApex' /\ ApexHasBackends'
    BY DEF ApexInv, ApexHasBackends
  <2> USE DEF Call, Provider, Meshed, MeshFirst, RoutedEarly
  <2>0. apex = "target" /\ BeforeApex /\ ApexHasBackends /\ status \in Statuses
    BY ApexSteps, TypeFacts DEF ApexInv
  <2>1. CASE GetCanary
    BY <2>0, <2>1 DEF GetCanary, BeforeApex, ApexHasBackends
  <2>2. CASE Initialize
    <3>1. primary' # NoPrimary
      BY <2>2, TypeFacts, NoRevAssumption DEF Initialize, Deployment, NoPrimary
    <3>2. pc' = "rollback" => status.phase = "Initializing"
      BY <2>2 DEF Initialize, Initialising, LifeInv, CallPhases
    <3> QED BY <2>0, <2>2, <3>1, <3>2 DEF Initialize, BeforeApex, ApexHasBackends
  <2>3. CASE RollbackRoutes
    <3>1. RoutedEarly
      BY <2>0, <2>3 DEF RollbackRoutes, SetRoutes, Routable, BeforeApex
    <3> QED
      BY <2>0, <2>3, <3>1 DEF RollbackRoutes, SetRoutes, BeforeApex, ApexHasBackends
  <2>4. CASE RollbackWithoutRoutes
    BY <2>0, <2>4
       DEF RollbackWithoutRoutes, NothingToDo, Return, BeforeApex, ApexHasBackends
  <2>5. CASE RollbackScale
    BY <2>0, <2>5 DEF RollbackScale, BeforeApex, ApexHasBackends
  <2>6. CASE SyncFailed
    <3>1. status'.phase = "Failed"
      BY <2>0, <2>6, PhaseWritten DEF SyncFailed, Write
    <3> QED BY <2>0, <2>6, <3>1 DEF SyncFailed, Return, BeforeApex, ApexHasBackends
  <2>7. CASE Abort
    BY <2>0, <2>7 DEF Abort, Return, BeforeApex, ApexHasBackends
  <2>8. CASE User
    <3>1. target.up => target'.up
      BY <2>8, PushKeepsPods DEF User, EditService
    <3> QED BY <2>0, <2>8, <3>1 DEF User, PushRevision, EditService, BeforeApex, ApexHasBackends
  <2>9. CASE SetPhaseInitializing
    <3>1. status'.phase = "Initializing" /\ status.phase = "None"
      BY <2>0, <2>9, PhaseWritten DEF SetPhaseInitializing, Write
    <3>2. pc = "idle"
      BY <3>1 DEF LifeInv, CallPhases
    <3> QED BY <2>0, <2>9, <3>1, <3>2 DEF SetPhaseInitializing, BeforeApex, ApexHasBackends
  <2>10. CASE ReconcileMesh
    <3>1. MeshFirst /\ pc' = "initialize" /\ unrecorded \subseteq unrecorded'
      BY <2>0, <2>10 DEF ReconcileMesh, BeforeApex
    <3> QED BY <2>0, <2>10, <3>1 DEF ReconcileMesh, BeforeApex, ApexHasBackends
  <2> QED
    BY <2>1, <2>2, <2>3, <2>4, <2>5, <2>6, <2>7, <2>8, <2>9, <2>10, ApexSteps
<1>3. ApexInv /\ UNCHANGED vars => ApexInv'
  BY DEF vars, ApexInv, BeforeApex, ApexHasBackends, Provider, MeshFirst, RoutedEarly
<1> QED BY <1>1, <1>2, <1>3

\* In every reachable state the apex service selects pods that exist, but for the
\* rollback of a first primary where SetRoutes succeeds early: with the kubernetes
\* provider, with AppMesh and with an object the router takes over.
THEOREM ApexAlwaysHasBackends == Spec => []ApexHasBackends
<1>1. ApexInv => ApexHasBackends
  BY DEF ApexInv
<1> QED BY <1>1, TypeInvInductive, InitIsInit, NextSteps, ApexInvInductive, PTL DEF Spec

------------------------------------------------------------------------------
\* The promoted revision.

Overtaken == "overtaken" \in unrecorded

\* What Promote left in the primary is the applied revision until the status says so,
\* and the promoted one from then on.
PromotedInv ==
  /\ status.phase \in {"Promoting", "Finalising"} \/ pc \in Committing =>
       primary.rev = status.applied \/ Overtaken
  /\ status.phase = "Succeeded" => primary.rev = status.promoted \/ Overtaken

\* The hashes the writers of a status leave in it.
LEMMA HashesWritten ==
  ASSUME NEW s \in Statuses, NEW p, NEW n
  PROVE  /\ SetStatusFailedChecks(s, n).applied = s.applied
         /\ SetStatusFailedChecks(s, n).promoted = s.promoted
         /\ SetStatusWeight(s, n).applied = s.applied
         /\ SetStatusWeight(s, n).promoted = s.promoted
         /\ SetStatusIterations(s, n).applied = s.applied
         /\ SetStatusIterations(s, n).promoted = s.promoted
         /\ SetStatusPhase(s, p, n).applied = s.applied
         /\ p = "Succeeded" => SetStatusPhase(s, p, n).promoted = s.applied
BY DEF Statuses, SetStatusFailedChecks, SetStatusWeight, SetStatusIterations, SetStatusPhase

\* A step that writes neither a phase, a hash nor the primary, and begins no commit.
LEMMA PromotedUntouched ==
  ASSUME PromotedInv, primary' = primary, Overtaken => Overtaken',
         status'.phase = status.phase, status'.applied = status.applied,
         status'.promoted = status.promoted,
         pc' \in Committing => pc \in Committing \/ status.phase = "Finalising"
  PROVE  PromotedInv'
BY DEF PromotedInv

\* A step to a phase without a promotion.
LEMMA PromotedElsewhere ==
  ASSUME status'.phase \notin {"Promoting", "Finalising", "Succeeded"}, pc' \notin Committing
  PROVE  PromotedInv'
BY DEF PromotedInv

\* The promoted revision during bootstrap and reconciliation.
LEMMA BootstrapPromoted ==
  ASSUME TypeInv, LifeInv, PromotedInv, Bootstrap
  PROVE  PromotedInv'
<1> USE DEF Call, Committing, Overtaken
<1>0. status \in Statuses
  BY TypeFacts
<1>1. CASE GetCanary \/ ReconcileApex \/ ScaleDownTarget \/ ReconcileMesh \/ HasTargetChanged
           \/ PrimaryReady \/ PrimaryStuck
  BY <1>1, PromotedUntouched
     DEF GetCanary, ReconcileApex, ScaleDownTarget, ReconcileMesh, HasTargetChanged, Return,
         PrimaryReady, PrimaryStuck
<1>2. CASE Initialize
  <2>1. CASE primary' = primary
    BY <1>2, <2>1, PromotedUntouched DEF Initialize
  <2>2. CASE primary' # primary
    <3>1. primary.rev = NoRev /\ status' = status /\ pc' \in {"reconcile", "rollback"}
      BY <1>2, <2>2 DEF Initialize, NoPrimary, Deployment
    <3> QED BY <3>1, PromotedElsewhere DEF LifeInv, PrimaryExists
  <2> QED BY <2>1, <2>2
<1>3. CASE SetPhaseInitialized
  <2>1. status'.phase = "Initialized"
    BY <1>0, <1>3, PhaseWritten DEF SetPhaseInitialized, Write
  <2> QED BY <1>3, <2>1, PromotedElsewhere DEF SetPhaseInitialized
<1>4. CASE ShouldAdvance
  <2>1. CASE cd.phase = "Failed"
    <3>1. status'.phase = "Failed"
      BY <1>0, <1>4, <2>1, PhaseWritten DEF ShouldAdvance, Write
    <3> QED BY <1>4, <3>1, PromotedElsewhere DEF ShouldAdvance
  <2>2. CASE cd.phase # "Failed"
    BY <1>4, <2>2, PromotedUntouched DEF ShouldAdvance
  <2> QED BY <2>1, <2>2
<1> QED BY <1>1, <1>2, <1>3, <1>4 DEF Bootstrap

\* The promoted revision while an analysis starts or starts over.
LEMMA StartPromoted ==
  ASSUME TypeInv, PromotedInv, Start
  PROVE  PromotedInv'
<1> USE DEF Call, Committing, Overtaken
<1>0. status \in Statuses
  BY TypeFacts
<1>1. CASE ConfirmRollout \/ ScaleFromZero \/ HasCanaryRevisionChanged \/ RestartRoutes
  BY <1>1, PromotedUntouched
     DEF ConfirmRollout, ScaleFromZero, HasCanaryRevisionChanged, RestartRoutes
<1>2. CASE RolloutHalted \/ SyncProgressing \/ SyncRestart
  <2>1. status'.phase \in {"Waiting", "Progressing"}
    <3>1. CASE RolloutHalted
      BY <1>0, <3>1, PhaseWritten DEF RolloutHalted, Write
    <3>2. CASE SyncProgressing \/ SyncRestart
      BY <1>0, <3>2, PhaseWritten DEF SyncProgressing, SyncRestart, Write
    <3> QED BY <1>2, <3>1, <3>2
  <2> QED
    BY <1>2, <2>1, PromotedElsewhere DEF RolloutHalted, SyncProgressing, SyncRestart, Return
<1> QED BY <1>1, <1>2 DEF Start

\* The promoted revision while the tick decides how to go on.
LEMMA DecidePromoted ==
  ASSUME TypeInv, LifeInv, PromotedInv, Decide
  PROVE  PromotedInv'
<1> USE DEF Call, Committing, Overtaken
<1>1. CASE CanaryStuck \/ ShouldSkipAnalysis \/ RollbackHook \/ ContinuePromotion
           \/ ThresholdReached \/ ChecksFail
  <2>1. CASE pc' = "finalise"
    BY <1>1, <2>1, PromotedUntouched
       DEF CanaryStuck, ShouldSkipAnalysis, RollbackHook, ContinuePromotion, ThresholdReached,
           ChecksFail, Analysing, LifeInv, CallPhases
  <2>2. CASE pc' # "finalise"
    BY <1>1, <2>2, PromotedUntouched
       DEF CanaryStuck, ShouldSkipAnalysis, RollbackHook, ContinuePromotion, ThresholdReached,
           ChecksFail
  <2> QED BY <2>1, <2>2
<1>2. CASE FailedCheck
  BY <1>2, TypeFacts, PhaseWritten, HashesWritten, PromotedUntouched
     DEF FailedCheck, Write, Return
<1> QED BY <1>1, <1>2 DEF Decide

\* The promoted revision while the strategies move the traffic.
LEMMA AnalysePromoted ==
  ASSUME TypeInv, LifeInv, PromotedInv, Analyse
  PROVE  PromotedInv'
<1> USE DEF Call, Committing, Overtaken
<1>0. status \in Statuses
  BY TypeFacts
<1>1. ASSUME NEW label \in {"increase", "promote", "abRoutes", "bgRoutes", "bgMirror",
                            "setIterations"}, GoTo(label)
      PROVE  PromotedInv'
  BY <1>1, PromotedUntouched DEF GoTo
<1>2. ASSUME NothingToDo
      PROVE  PromotedInv'
  BY <1>2, PromotedUntouched DEF NothingToDo, Return
<1>3. ASSUME MayAnalyse, PromotionHalted
      PROVE  PromotedInv'
  <2>1. status'.phase \in Analysed
    BY <1>0, <1>3, PhaseWritten
       DEF PromotionHalted, Write, MayAnalyse, Analysing, LifeInv, CallPhases, Advanced, Analysed
  <2> QED BY <1>3, <2>1, PromotedElsewhere DEF PromotionHalted, Return, Analysed
<1>4. CASE RunCanary
  BY <1>1, <1>2, <1>3, <1>4 DEF RunCanary
<1>5. CASE RunAB
  BY <1>1, <1>2, <1>3, <1>5 DEF RunAB
<1>6. CASE RunBlueGreen
  BY <1>1, <1>3, <1>6 DEF RunBlueGreen
<1>7. CASE IncreaseWeight \/ RouteToCanary \/ MirrorTraffic
  BY <1>7, PromotedUntouched DEF IncreaseWeight, RouteToCanary, MirrorTraffic
<1>8. CASE SetWeight \/ SetIterations
  BY <1>0, <1>8, PhaseWritten, HashesWritten, PromotedUntouched
     DEF SetWeight, SetIterations, Write, Return
<1> QED BY <1>4, <1>5, <1>6, <1>7, <1>8 DEF Analyse

\* The promoted revision during promotion, rollback and a halted promotion.
LEMMA ConcludePromoted ==
  ASSUME TypeInv, LifeInv, PromotedInv, Conclude
  PROVE  PromotedInv'
<1> USE DEF Call, Committing, Overtaken
<1>0. status \in Statuses
  BY TypeFacts
<1>1. CASE Promote
  <2>1. status.phase \in Analysed /\ status' = status /\ primary' = target
    BY <1>1 DEF Promote, LifeInv, CallPhases
  <2>2. primary'.rev = status.applied \/ Overtaken'
    BY <1>1, <2>1 DEF Promote
  <2> QED BY <2>1, <2>2 DEF PromotedInv, Analysed
<1>2. CASE SetPromoting \/ SetFinalising
  <2>1. status'.phase \in {"Promoting", "Finalising"} /\ status'.applied = status.applied
    BY <1>0, <1>2, PhaseWritten, HashesWritten DEF SetPromoting, SetFinalising, Write
  <2>2. primary.rev = status.applied \/ Overtaken
    BY <1>2 DEF SetPromoting, SetFinalising, PromotedInv, LifeInv, CallPhases
  <2> QED BY <1>2, <2>1, <2>2 DEF SetPromoting, SetFinalising, PromotedInv
<1>3. CASE ShiftAtOnce \/ ShiftStep \/ SkipRoutes \/ RollbackRoutes \/ RollbackWithoutRoutes
           \/ RollbackScale \/ HaltPromotion \/ Finalise
  BY <1>3, PromotedUntouched
     DEF ShiftAtOnce, ShiftStep, SkipRoutes, RollbackRoutes, RollbackWithoutRoutes, NothingToDo,
         Return, RollbackScale, HaltPromotion, Finalise
<1>4. CASE NothingToShift
  BY <1>4, PromotedUntouched DEF NothingToShift, NothingToDo, GoTo, Return
<1>5. CASE SetSucceeded
  <2>1. status'.phase = "Succeeded" /\ status'.promoted = status.applied
    BY <1>0, <1>5, PhaseWritten, HashesWritten DEF SetSucceeded, Write
  <2>2. primary.rev = status.applied \/ Overtaken
    BY <1>5 DEF SetSucceeded, PromotedInv
  <2> QED BY <1>5, <2>1, <2>2 DEF SetSucceeded, Return, PromotedInv
<1>6. CASE SyncFailed \/ SyncHalted
  <2>1. status'.phase = "Failed"
    BY <1>0, <1>6, PhaseWritten DEF SyncFailed, SyncHalted, Write
  <2> QED BY <1>6, <2>1, PromotedElsewhere DEF SyncFailed, SyncHalted, Return
<1> QED BY <1>1, <1>2, <1>3, <1>4, <1>5, <1>6 DEF Conclude

\* The promoted revision while ticks are cut and users act.
LEMMA EnvironmentPromoted ==
  ASSUME TypeInv, LifeInv, PromotedInv, Abort \/ User \/ SetPhaseInitializing
  PROVE  PromotedInv'
<1>1. CASE Abort \/ User
  BY <1>1, PromotedUntouched
     DEF Abort, User, PushRevision, EditService, Return, Committing, Overtaken
<1>2. CASE SetPhaseInitializing
  <2>1. status'.phase = "Initializing" /\ status.phase = "None"
    BY <1>2, TypeFacts, PhaseWritten DEF SetPhaseInitializing, Write
  <2> QED
    BY <1>2, <2>1, PromotedElsewhere
       DEF SetPhaseInitializing, Committing, LifeInv, CallPhases
<1> QED BY <1>1, <1>2

\* The invariant holds from the start and is kept by every step.
LEMMA PromotedInvInductive ==
  /\ Init => PromotedInv
  /\ TypeInv /\ LifeInv /\ PromotedInv /\ [Next]_vars => PromotedInv'
<1>1. Init => PromotedInv
  BY DEF Init, EmptyStatus, PromotedInv, Committing
<1>2. TypeInv /\ LifeInv /\ PromotedInv /\ [Next]_vars => PromotedInv'
  <2> SUFFICES ASSUME TypeInv, LifeInv, PromotedInv, [Next]_vars PROVE PromotedInv'
    OBVIOUS
  <2>1. CASE Next
    BY <2>1, BootstrapPromoted, StartPromoted, DecidePromoted, AnalysePromoted,
       ConcludePromoted, EnvironmentPromoted DEF Next, Tick
  <2>2. CASE UNCHANGED vars
    BY <2>2, PromotedUntouched DEF vars, Overtaken
  <2> QED BY <2>1, <2>2
<1> QED BY <1>1, <1>2

\* In every reachable state after a success, a target that is at the promoted revision
\* is what the primary runs, unless a push overtook the promotion.
THEOREM SuccessAlwaysMeansPromoted == Spec => []SucceededMeansPromoted
<1>1. PromotedInv => SucceededMeansPromoted
  BY DEF PromotedInv, Overtaken, SucceededMeansPromoted
<1> QED BY <1>1, TypeInvInductive, InitIsInit, NextSteps, PromotedInvInductive, PTL DEF Spec

------------------------------------------------------------------------------
\* The gate before a promotion.

\* The iterations after which the strategy has moved all traffic to the canary.
Moved(n) ==
  /\ ~SkipAnalysis
  /\ \/ Strategy = "ABTesting" /\ n > 0
     \/ Strategy = "BlueGreen" /\ n > Iterations

\* The traffic is where the strategy moved it, or was taken away without the counters
\* being reset.  NopRouter moves nothing.
CanaryServes == Meshed => routes = AllCanary \/ RoutesLost

\* The counter in the status, and in the copy of a tick that is about to write it, tells
\* where the traffic is.
CounterTells ==
  /\ status.phase \in Analysed /\ Moved(status.iter) => CanaryServes
  /\ pc = "setIterations" /\ Moved(cd.iter + 1) => CanaryServes

\* What a tick's copies tell at the calls of the analysis.
CopiesTell ==
  /\ pc # "idle" /\ status.phase \in Advanced => cd.iter = status.iter
  /\ pc = "increase" => Strategy = "Canary"
  /\ pc = "bgMirror" => Strategy = "BlueGreen" /\ cd.iter < Iterations
  /\ ~Meshed /\ pc \in {"revisionChanged", "canaryReady"} => view = GetRoutes(cd)

\* A tick that is about to promote has seen the whole analysis.
AnalysisComplete ==
  /\ cd.phase \in {"Progressing", "WaitingPromotion"}
  /\ cd.failed < Threshold
  /\ Strategy = "Canary"    => view.c >= maxWeight(Analysis)
  /\ Strategy = "ABTesting" => cd.iter = Iterations
  /\ Strategy = "BlueGreen" => cd.iter > Iterations
  /\ Strategy # "Canary"    => view = AllCanary \/ RoutesLost

GateInv == CounterTells /\ CopiesTell /\ (pc = "promote" => AnalysisComplete)

\* The calls of the analysis that GateInv speaks of.
Counting == {"revisionChanged", "canaryReady", "increase", "bgMirror", "setIterations", "promote"}

\* The parts of the spec do not change.
LEMMA SpecUnchanged ==
  ASSUME spec' = spec
  PROVE  /\ Provider' = Provider /\ Meshed' = Meshed /\ SkipAnalysis' = SkipAnalysis
         /\ Analysis' = Analysis
         /\ Strategy' = Strategy /\ Iterations' = Iterations /\ Threshold' = Threshold
BY DEF Provider, Meshed, SkipAnalysis, Analysis, Strategy, Iterations, Threshold

\* Strategies and iterations go together.
LEMMA StrategyFacts ==
  ASSUME TypeInv
  PROVE  /\ Iterations \in Nat /\ cd.iter \in Int /\ status.iter \in Int
         /\ Strategy = "ABTesting" => Iterations > 0 /\ Meshed
         /\ ~Meshed => Strategy = "BlueGreen"
<1>1. spec \in CanarySpecs /\ Analysis \in Analyses /\ Iterations \in Nat
  BY TypeFacts, SpecType, SpecsAssumption
<1>2. Analysis.iterations \in Nat
  BY <1>1 DEF Analyses
<1> QED
  BY <1>1, <1>2, TypeFacts, StatusFields DEF Strategy, Iterations, Meshed

\* The iterations the writers of a status leave in it.
LEMMA CountersWritten ==
  ASSUME NEW s \in Statuses, NEW p, NEW w, NEW h, NEW n
  PROVE  /\ Reset(s, p, w, h).iter = 0
         /\ SetStatusFailedChecks(s, n).iter = s.iter
         /\ SetStatusWeight(s, n).iter = s.iter
         /\ SetStatusIterations(s, n).iter = n
         /\ SetStatusPhase(s, "WaitingPromotion", n).iter = n - 1
BY DEF Statuses, Reset, SyncStatus, SetStatusFailedChecks, SetStatusWeight, SetStatusIterations,
       SetStatusPhase

\* A step that nothing of this depends on.
LEMMA GateUnchanged ==
  ASSUME GateInv, UNCHANGED <<spec, status, routes, pc, cd, view, unrecorded>>
  PROVE  GateInv'
BY SpecUnchanged
   DEF GateInv, CounterTells, CopiesTell, AnalysisComplete, CanaryServes, Moved, RoutesLost,
       GetRoutes

\* A step that leaves the routes, the phase and the counters alone, and does not go on
\* with the analysis.
LEMMA GateUntouched ==
  ASSUME GateInv, UNCHANGED <<spec, routes>>, RoutesLost => RoutesLost',
         status'.phase = status.phase, status'.iter = status.iter,
         pc' # "idle" => pc # "idle" /\ cd'.iter = cd.iter, pc' \notin Counting
  PROVE  GateInv'
BY SpecUnchanged DEF GateInv, CounterTells, CopiesTell, CanaryServes, Moved, Counting

\* A tick that returns and leaves all that alone.
LEMMA GateReturned ==
  ASSUME GateInv, Return, UNCHANGED <<spec, routes, unrecorded>>,
         status'.phase = status.phase, status'.iter = status.iter
  PROVE  GateInv'
BY GateUntouched DEF Return, Counting, RoutesLost

\* A step to a phase that analyses nothing.
LEMMA GateElsewhere ==
  ASSUME spec' = spec, status'.phase \notin Analysed, pc' \notin Counting,
         pc' # "idle" => status'.phase \notin Advanced
  PROVE  GateInv'
BY DEF GateInv, CounterTells, CopiesTell, Counting

\* A step that takes the traffic away and says so in the history.
LEMMA GateLost ==
  ASSUME GateInv, spec' = spec, RoutesLost', UNCHANGED <<status, cd>>, pc # "idle",
         pc' \notin Counting
  PROVE  GateInv'
BY SpecUnchanged DEF GateInv, CounterTells, CopiesTell, CanaryServes, Counting

\* The gate during bootstrap and reconciliation.
LEMMA BootstrapGate ==
  ASSUME TypeInv, LifeInv, GateInv, Bootstrap
  PROVE  GateInv'
<1> USE DEF Call
<1>0. status \in Statuses
  BY TypeFacts
<1>1. CASE GetCanary
  BY <1>1, SpecUnchanged
     DEF GetCanary, GateInv, CounterTells, CopiesTell, CanaryServes, Moved, RoutesLost
<1>2. CASE Initialize \/ ReconcileApex \/ ScaleDownTarget \/ PrimaryStuck
  BY <1>2, GateUntouched
     DEF Initialize, ReconcileApex, ScaleDownTarget, PrimaryStuck, Counting, RoutesLost
<1>3. CASE ReconcileMesh
  <2>1. CASE drift
    <3>1. RoutesLost'
      BY <1>3, <2>1 DEF ReconcileMesh, RoutesLost
    <3> QED BY <1>3, <3>1, GateLost DEF ReconcileMesh, Counting
  <2>2. CASE ~drift /\ routes = NoRoutes
    <3>1. CanaryServes => CanaryServes'
      BY <1>3, <2>2
         DEF ReconcileMesh, CanaryServes, RoutesLost, Provider, Meshed, NoRoutes, AllCanary, Split,
             totalWeight
    <3> QED
      BY <1>3, <3>1, SpecUnchanged
         DEF ReconcileMesh, GateInv, CounterTells, CopiesTell, Moved
  <2>3. CASE ~drift /\ routes # NoRoutes
    BY <1>3, <2>3, GateUntouched DEF ReconcileMesh, Counting, RoutesLost
  <2> QED BY <2>1, <2>2, <2>3
<1>4. CASE SetPhaseInitialized
  <2>1. status'.phase = "Initialized"
    BY <1>0, <1>4, PhaseWritten DEF SetPhaseInitialized, Write
  <2> QED
    BY <1>4, <2>1, GateElsewhere DEF SetPhaseInitialized, Counting, Analysed, Advanced
<1>5. CASE ShouldAdvance
  <2>1. CASE cd.phase = "Failed"
    <3>1. status'.phase = "Failed"
      BY <1>0, <1>5, <2>1, PhaseWritten DEF ShouldAdvance, Write
    <3> QED BY <1>5, <3>1, GateElsewhere DEF ShouldAdvance, Counting, Analysed, Advanced
  <2>2. CASE cd.phase # "Failed"
    BY <1>5, <2>2, GateUntouched DEF ShouldAdvance, Counting, RoutesLost
  <2> QED BY <2>1, <2>2
<1>6. CASE HasTargetChanged
  BY <1>6, GateUntouched, GateReturned DEF HasTargetChanged, Counting, RoutesLost
<1>7. CASE PrimaryReady
  <2>1. ~Meshed => view' = GetRoutes(cd)'
    BY <1>7 DEF PrimaryReady, GetRoutes, Provider, Meshed
  <2> QED
    BY <1>7, <2>1, SpecUnchanged
       DEF PrimaryReady, GateInv, CounterTells, CopiesTell, CanaryServes, Moved, RoutesLost
<1> QED BY <1>1, <1>2, <1>3, <1>4, <1>5, <1>6, <1>7 DEF Bootstrap

\* The gate while an analysis starts or starts over.
LEMMA StartGate ==
  ASSUME TypeInv, LifeInv, GateInv, Start
  PROVE  GateInv'
<1> USE DEF Call
<1>0. status \in Statuses
  BY TypeFacts
<1>1. CASE ConfirmRollout
  <2>1. status'.phase \in Resting
    BY <1>1 DEF ConfirmRollout, LifeInv, CallPhases
  <2> QED
    BY <1>1, <2>1, GateElsewhere DEF ConfirmRollout, Resting, Analysed, Advanced, Counting
<1>2. CASE RolloutHalted
  <2>1. status'.phase = "Waiting"
    BY <1>0, <1>2, PhaseWritten DEF RolloutHalted, Write
  <2> QED BY <1>2, <2>1, GateElsewhere DEF RolloutHalted, Return, Analysed, Counting
<1>3. CASE ScaleFromZero
  BY <1>3, GateUntouched DEF ScaleFromZero, Counting, RoutesLost
<1>4. CASE SyncProgressing \/ SyncRestart
  <2>1. status'.iter = 0 /\ pc' = "idle" /\ spec' = spec
    BY <1>0, <1>4, CountersWritten DEF SyncProgressing, SyncRestart, Write, Return
  <2>2. ~Moved(status.iter)'
    BY <2>1, StrategyFacts, SpecUnchanged DEF Moved
  <2> QED BY <2>1, <2>2 DEF GateInv, CounterTells, CopiesTell
<1>5. CASE HasCanaryRevisionChanged
  BY <1>5, SpecUnchanged
     DEF HasCanaryRevisionChanged, GateInv, CounterTells, CopiesTell, CanaryServes, Moved,
         RoutesLost, GetRoutes
<1>6. CASE RestartRoutes
  <2>1. RoutesLost'
    BY <1>6 DEF RestartRoutes, RoutesLost
  <2> QED BY <1>6, <2>1, GateLost DEF RestartRoutes, Counting
<1> QED BY <1>1, <1>2, <1>3, <1>4, <1>5, <1>6 DEF Start

\* The gate while the tick decides how to go on.
LEMMA DecideGate ==
  ASSUME TypeInv, LifeInv, GateInv, Decide
  PROVE  GateInv'
<1> USE DEF Call
<1>1. CASE CanaryStuck \/ ShouldSkipAnalysis \/ RollbackHook \/ ContinuePromotion
           \/ ThresholdReached \/ ChecksFail
  BY <1>1, GateUntouched
     DEF CanaryStuck, ShouldSkipAnalysis, RollbackHook, ContinuePromotion, ThresholdReached,
         ChecksFail, MayAnalyse, Counting, RoutesLost
<1>2. CASE FailedCheck
  <2>1. status'.phase = status.phase /\ status'.iter = status.iter
    BY <1>2, TypeFacts, PhaseWritten, CountersWritten DEF FailedCheck, Write
  <2> QED BY <1>2, <2>1, GateReturned DEF FailedCheck
<1> QED BY <1>1, <1>2 DEF Decide

\* The gate while the strategies move the traffic.
LEMMA AnalyseGate ==
  ASSUME TypeInv, LifeInv, TrafficInv, GateInv, Analyse
  PROVE  GateInv'
<1> USE DEF Call
<1>0. status \in Statuses
  BY TypeFacts
<1>1. ASSUME MayAnalyse
      PROVE  /\ pc = "canaryReady" /\ ~SkipAnalysis /\ cd.failed < Threshold
             /\ status.phase \in Analysed /\ cd.phase = status.phase /\ cd.iter = status.iter
  BY <1>1
     DEF MayAnalyse, Analysing, LifeInv, CallPhases, Advanced, Analysed, GateInv, CopiesTell
<1>2. ASSUME NEW label \in {"increase", "abRoutes", "bgRoutes"}, MayAnalyse, GoTo(label),
             label = "increase" => Strategy = "Canary"
      PROVE  GateInv'
  BY <1>1, <1>2, SpecUnchanged
     DEF GoTo, GateInv, CounterTells, CopiesTell, CanaryServes, Moved, RoutesLost
<1>3. ASSUME NothingToDo
      PROVE  GateInv'
  BY <1>3, GateReturned DEF NothingToDo
<1>4. ASSUME MayAnalyse, PromotionHalted, Strategy # "Canary" => Iterations <= cd.iter
      PROVE  GateInv'
  <2>1. status'.iter = Iterations - 1 /\ pc' = "idle" /\ UNCHANGED <<spec, routes, unrecorded>>
    BY <1>0, <1>4, CountersWritten DEF PromotionHalted, Write, Return
  <2>2. Moved(status.iter)' => Moved(status.iter)
    BY <1>1, <1>4, <2>1, StrategyFacts, SpecUnchanged DEF Moved
  <2> QED
    BY <1>1, <1>4, <2>1, <2>2, SpecUnchanged
       DEF GateInv, CounterTells, CopiesTell, CanaryServes, RoutesLost
<1>5. ASSUME MayAnalyse, Moved(cd.iter)
      PROVE  view = AllCanary \/ RoutesLost
  <2>1. CASE Meshed
    <3>1. view = routes
      BY <1>1, <1>5, <2>1 DEF TrafficInv, ViewIsCurrent, Viewing
    <3> QED
      BY <1>1, <1>5, <2>1, <3>1 DEF GateInv, CounterTells, CanaryServes
  <2>2. CASE ~Meshed
    <3>1. view = GetRoutes(cd) /\ cd.iter > 0
      BY <1>1, <1>5, <2>2, StrategyFacts DEF GateInv, CopiesTell, Moved
    <3> QED BY <2>2, <3>1 DEF GetRoutes
  <2> QED BY <2>1, <2>2
<1>6. ASSUME MayAnalyse, GoTo("promote"),
             Strategy = "Canary"    => view.c >= maxWeight(Analysis),
             Strategy = "ABTesting" => cd.iter = Iterations,
             Strategy = "BlueGreen" => cd.iter > Iterations,
             Strategy # "Canary"    => view = AllCanary \/ RoutesLost
      PROVE  GateInv'
  <2>1. AnalysisComplete'
    BY <1>1, <1>6, SpecUnchanged DEF GoTo, AnalysisComplete, Analysed, RoutesLost
  <2> QED
    BY <1>6, <2>1, SpecUnchanged
       DEF GoTo, GateInv, CounterTells, CopiesTell, CanaryServes, Moved, RoutesLost, MayAnalyse
<1>7. CASE RunCanary
  BY <1>2, <1>3, <1>4, <1>6, <1>7 DEF RunCanary
<1>8. CASE RunAB
  <2>1. Iterations = cd.iter => view = AllCanary \/ RoutesLost
    <3> SUFFICES ASSUME Iterations = cd.iter PROVE view = AllCanary \/ RoutesLost
      OBVIOUS
    <3>1. MayAnalyse /\ Strategy = "ABTesting"
      BY <1>8 DEF RunAB
    <3>2. Moved(cd.iter)
      BY <1>1, <3>1, StrategyFacts DEF Moved
    <3> QED BY <1>5, <3>1, <3>2
  <2> QED BY <1>2, <1>3, <1>4, <1>6, <1>8, <2>1 DEF RunAB
<1>9. CASE RunBlueGreen
  <2>1. Iterations < cd.iter => view = AllCanary \/ RoutesLost
    BY <1>1, <1>5, <1>9, StrategyFacts DEF RunBlueGreen, Moved
  <2>2. ASSUME NEW label \in {"bgMirror", "setIterations"}, GoTo(label), Iterations > cd.iter
        PROVE  GateInv'
    <3>1. ~Moved(cd.iter + 1)'
      BY <1>9, <2>2, StrategyFacts, SpecUnchanged DEF RunBlueGreen, GoTo, Moved
    <3> QED
      BY <1>1, <1>9, <2>2, <3>1, StrategyFacts, SpecUnchanged
         DEF RunBlueGreen, GoTo, GateInv, CounterTells, CopiesTell, CanaryServes, Moved, RoutesLost
  <2>3. CASE Iterations > cd.iter
    BY <1>9, <2>2, <2>3, StrategyFacts DEF RunBlueGreen
  <2>4. CASE Iterations <= cd.iter
    BY <1>2, <1>4, <1>6, <1>9, <2>1, <2>4, StrategyFacts DEF RunBlueGreen
  <2> QED BY <2>3, <2>4, StrategyFacts
<1>10. CASE IncreaseWeight
  <2>1. Strategy = "Canary" /\ UNCHANGED <<spec, status, cd>> /\ pc' = "setWeight"
        /\ pc = "increase"
    BY <1>10 DEF IncreaseWeight, GateInv, CopiesTell
  <2> QED
    BY <2>1, SpecUnchanged DEF GateInv, CounterTells, CopiesTell, Moved
<1>11. CASE RouteToCanary
  <2>1. CanaryServes'
    BY <1>11, SpecUnchanged DEF RouteToCanary, SetRoutes, CanaryServes
  <2> QED
    BY <1>11, <2>1 DEF RouteToCanary, GateInv, CounterTells, CopiesTell
<1>12. CASE MirrorTraffic
  <2>1. /\ UNCHANGED <<spec, status, cd>> /\ pc' = "setIterations" /\ cd.iter = status.iter
        /\ Strategy = "BlueGreen" /\ cd.iter < Iterations
    BY <1>12 DEF MirrorTraffic, LifeInv, CallPhases, Advanced, GateInv, CopiesTell
  <2>2. ~Moved(status.iter)' /\ ~Moved(cd.iter + 1)'
    BY <2>1, StrategyFacts, SpecUnchanged DEF Moved
  <2> QED BY <2>1, <2>2 DEF GateInv, CounterTells, CopiesTell
<1>13. CASE SetWeight
  <2>1. status'.phase = status.phase /\ status'.iter = status.iter
    BY <1>0, <1>13, PhaseWritten, CountersWritten DEF SetWeight, Write
  <2> QED BY <1>13, <2>1, GateReturned DEF SetWeight
<1>14. CASE SetIterations
  <2>1. /\ status'.iter = cd.iter + 1 /\ pc' = "idle" /\ UNCHANGED <<spec, routes, unrecorded>>
        /\ pc = "setIterations"
    BY <1>0, <1>14, CountersWritten DEF SetIterations, Write, Return
  <2>2. Moved(status.iter)' => Moved(cd.iter + 1)
    BY <2>1, SpecUnchanged DEF Moved
  <2> QED
    BY <2>1, <2>2, SpecUnchanged
       DEF GateInv, CounterTells, CopiesTell, CanaryServes, RoutesLost
<1> QED BY <1>7, <1>8, <1>9, <1>10, <1>11, <1>12, <1>13, <1>14 DEF Analyse

\* The gate during promotion, rollback and a halted promotion.
LEMMA ConcludeGate ==
  ASSUME TypeInv, LifeInv, GateInv, Conclude
  PROVE  GateInv'
<1> USE DEF Call
<1>0. status \in Statuses
  BY TypeFacts
<1>1. CASE Promote
  <2>1. RoutesLost => RoutesLost'
    BY <1>1 DEF Promote, RoutesLost
  <2> QED BY <1>1, <2>1, GateUntouched DEF Promote, Counting
<1>2. CASE SetPromoting \/ SetFinalising \/ SetSucceeded \/ SyncFailed \/ SyncHalted
  <2>1. status'.phase \in {"Promoting", "Finalising", "Succeeded", "Failed"}
    BY <1>0, <1>2, PhaseWritten
       DEF SetPromoting, SetFinalising, SetSucceeded, SyncFailed, SyncHalted, Write
  <2> QED
    BY <1>2, <2>1, GateElsewhere
       DEF SetPromoting, SetFinalising, SetSucceeded, SyncFailed, SyncHalted, Return, Analysed,
           Counting
<1>3. CASE ShiftAtOnce \/ ShiftStep \/ HaltPromotion
  <2>1. /\ status.phase \in {"Promoting", "Finalising"} /\ UNCHANGED <<spec, status, cd>>
        /\ pc # "idle" /\ pc' \notin Counting
    BY <1>3 DEF ShiftAtOnce, ShiftStep, HaltPromotion, LifeInv, CallPhases, Counting
  <2> QED
    BY <2>1 DEF GateInv, CounterTells, CopiesTell, Counting, Analysed
<1>4. CASE NothingToShift
  BY <1>4, GateUntouched, GateReturned DEF NothingToShift, NothingToDo, GoTo, Counting, RoutesLost
<1>5. CASE Finalise \/ RollbackScale
  BY <1>5, GateUntouched DEF Finalise, RollbackScale, Counting, RoutesLost
<1>6. CASE SkipRoutes
  <2>1. SkipAnalysis /\ UNCHANGED <<spec, status, cd>> /\ pc = "skipRoutes" /\ pc' = "skipPromote"
    BY <1>6 DEF SkipRoutes, LifeInv, SkipPhases
  <2> QED
    BY <2>1, SpecUnchanged DEF GateInv, CounterTells, CopiesTell, Moved
<1>7. CASE RollbackRoutes
  <2>1. RoutesLost'
    BY <1>7 DEF RollbackRoutes, RoutesLost
  <2> QED BY <1>7, <2>1, GateLost DEF RollbackRoutes, Counting
<1>8. CASE RollbackWithoutRoutes
  BY <1>8, GateReturned DEF RollbackWithoutRoutes, NothingToDo
<1> QED BY <1>1, <1>2, <1>3, <1>4, <1>5, <1>6, <1>7, <1>8 DEF Conclude

\* The gate while ticks are cut and users act.
LEMMA EnvironmentGate ==
  ASSUME TypeInv, LifeInv, GateInv, Abort \/ User \/ SetPhaseInitializing
  PROVE  GateInv'
<1>1. CASE Abort
  BY <1>1, GateReturned DEF Abort
<1>2. CASE User
  <2>1. UNCHANGED <<spec, status, routes, pc, cd, view, unrecorded>>
    BY <1>2 DEF User, PushRevision, EditService
  <2> QED BY <2>1, GateUnchanged
<1>3. CASE SetPhaseInitializing
  <2>1. status'.phase = "Initializing" /\ status.phase = "None"
    BY <1>3, TypeFacts, PhaseWritten DEF SetPhaseInitializing, Write
  <2>2. pc = "idle"
    BY <2>1 DEF LifeInv, CallPhases
  <2> QED
    BY <1>3, <2>1, <2>2, GateElsewhere DEF SetPhaseInitializing, Analysed, Counting
<1> QED BY <1>1, <1>2, <1>3

\* The invariant holds from the start and is kept by every step.
LEMMA GateInvInductive ==
  /\ Init => GateInv
  /\ TypeInv /\ LifeInv /\ TrafficInv /\ GateInv /\ [Next]_vars => GateInv'
<1>1. Init => GateInv
  BY DEF Init, EmptyStatus, GateInv, CounterTells, CopiesTell, Analysed
<1>2. TypeInv /\ LifeInv /\ TrafficInv /\ GateInv /\ [Next]_vars => GateInv'
  <2> SUFFICES ASSUME TypeInv, LifeInv, TrafficInv, GateInv, [Next]_vars PROVE GateInv'
    OBVIOUS
  <2>1. CASE Next
    BY <2>1, BootstrapGate, StartGate, DecideGate, AnalyseGate, ConcludeGate, EnvironmentGate
       DEF Next, Tick
  <2>2. CASE UNCHANGED vars
    BY <2>2, GateUnchanged DEF vars
  <2> QED BY <2>1, <2>2
<1> QED BY <1>1, <1>2

\* Whatever ticks are cut, restarted and pushed into, the primary is replaced only by a
\* tick that has seen the whole analysis, or by one that is to skip it.
THEOREM PromotionsAreGated == Spec => PromotionGate
<1>1. TypeInv /\ LifeInv /\ GateInv /\ [Next]_vars =>
        [ primary # NoPrimary =>
            \/ SkipAnalysis
            \/ /\ cd.phase \in {"Progressing", "WaitingPromotion"}
               /\ cd.failed < Threshold
               /\ Strategy = "Canary"    => view.c >= maxWeight(Analysis)
               /\ Strategy = "ABTesting" => cd.iter = Iterations
               /\ Strategy = "BlueGreen" => cd.iter > Iterations
               /\ Strategy # "Canary"    => view = AllCanary \/ RoutesLost ]_primary
  <2> SUFFICES ASSUME TypeInv, LifeInv, GateInv, [Next]_vars, primary' # primary,
                      primary # NoPrimary, ~SkipAnalysis
               PROVE  AnalysisComplete
    BY DEF AnalysisComplete
  <2>1. Promote
    BY PrimaryWriters DEF Initialize
  <2>2. pc = "promote"
    BY <2>1 DEF Promote, Call, LifeInv, SkipPhases
  <2> QED BY <2>2 DEF GateInv
<1> QED
  BY <1>1, TypeInvInductive, InitIsInit, NextSteps, TrafficInvInductive, GateInvInductive, PTL
     DEF Spec, PromotionGate
==============================================================================
