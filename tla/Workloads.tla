------------------------------- MODULE Workloads -------------------------------
(***************************************************************************)
(* The workloads of a rollout and what comes with them: the target and its *)
(* primary, Deployments, DaemonSets or Services; the ConfigMap or Secret   *)
(* the pods refer to and its copy for the primary (config_tracker.go); and *)
(* the target's autoscaler, which a KEDA ScaledObject may pause.           *)
(*                                                                         *)
(* A tick is advanceCanary with its reads and writes of those objects, one *)
(* action per call: users and KEDA act in between.  Traffic is left to     *)
(* modules Scheduler and Traffic, so is the course of an analysis, which   *)
(* here passes or fails in one tick.  A workload that is looked at may be  *)
(* ready, or past its progress deadline; a tick that finds one not ready   *)
(* yet does nothing more, as Abort.  The pods of a Service are its users'  *)
(* own: they are there, refer to no config here, and have no autoscaler,   *)
(* and the canary Service that Initialize makes equal to the target at     *)
(* every tick is left out.                                                 *)
(***************************************************************************)
EXTENDS Integers

CONSTANTS
  Cases,       \* the canaries and what becomes of them, see CasesAssumption
  Revisions,   \* pod templates
  Contents     \* of the config; 0 stands for a config that does not exist

\* The kind of the target, its autoscaler, skipAnalysis, whether the pods need the
\* config, whether SetRoutes succeeds before the first Reconcile of the mesh router
\* (kubernetes, AppMesh, an object of the users that Istio adopts), whether the target
\* has pods at first (an earlier canary, deleted without a revert, leaves it without),
\* and bounds on the users' changes and failed calls.
ASSUME CasesAssumption ==
  \A c \in Cases :
    /\ c.kind \in {"Deployment", "DaemonSet", "Service"}
    /\ c.scaler \in {"none", "HPA", "KEDA"}
    /\ c.kind # "Deployment" => c.scaler = "none"
    /\ c.kind = "Service" => c.up /\ ~c.required
    /\ c.skip \in BOOLEAN /\ c.required \in BOOLEAN
    /\ c.routed \in BOOLEAN /\ c.up \in BOOLEAN
    /\ c.changes \in Nat /\ c.faults \in Nat

ASSUME ContentsAssumption == Revisions \subseteq Nat \ {0} /\ Contents \subseteq Nat \ {0}

VARIABLES
  case,      \* the case of this behaviour
  target,    \* the target: its template, and whether pods are wanted of it
  config,    \* what the config holds
  primary,   \* the same of the primary, and whether it refers to the copy
  copy,      \* what the primary's copy of the config holds
  apex,      \* what the apex service selects: "target" or "primary"
  paused,    \* whether the ScaledObject is paused at 0 replicas
  status,    \* status.phase, lastAppliedSpec, lastPromotedSpec, trackedConfigs
  pc,        \* the next call of the tick, "idle" between ticks
  cd,        \* the tick's copy of the status
  read,      \* the template it read last, and whether it found the config
  goal,      \* the phase the tick is to write; "Same" for the one it read
  changes, faults,   \* what became of the bounds so far
  raced,     \* history: a change fell between its last check and its use
  touched,   \* history: this rollout has left to promote
  left,      \* history: the target was left scaled up, for a rollout whose phase is
             \* not yet written or by a promotion that was halted
  cut,       \* history: a rollout's end scaled the target down and wrote no phase
  base       \* history: what the primary ran when it was created or a rollout began

workloads == <<target, primary, copy, apex, paused>>
tick      == <<pc, cd, read, goal>>
limits    == <<case, changes, faults>>
history   == <<raced, touched, left, cut, base>>
vars      == <<workloads, config, status, tick, limits, history>>

------------------------------------------------------------------------------
NoPrimary == [rev |-> 0, up |-> FALSE, copied |-> FALSE]
NoStatus  == [phase |-> "", applied |-> 0, promoted |-> 0, tracked |-> 0]
Nothing   == [rev |-> 0, config |-> 0]

Initialising(s) == s.phase = ""

\* What the primary's pods get, should they start now.
Effective == IF primary.copied THEN copy ELSE config

Runs == [rev |-> primary.rev, config |-> Effective]

\* GetTargetConfigs skips a missing config that is optional, or returns an error.
Readable == config # 0 \/ ~case.required

\* hasSpecChanged of the target's template.
HasTargetChanged(s) ==
  s.applied = 0 \/ (s.promoted # target.rev /\ s.applied # target.rev)

\* ServiceController has no configs and nothing to scale.
Pods == case.kind # "Service"

\* With one config, its checksum and its being there are the comparison.
HasConfigChanged(s) == Pods /\ Readable /\ s.tracked # config

Init ==
  /\ case \in Cases
  /\ config \in Contents
  /\ \E r \in Revisions : target = [rev |-> r, up |-> case.up]
  /\ paused = (case.scaler = "KEDA" /\ ~case.up)
  /\ primary = NoPrimary /\ copy = 0 /\ apex = "target"
  /\ status = NoStatus /\ cd = NoStatus
  /\ pc = "idle" /\ goal = "" /\ read = [rev |-> 0, found |-> FALSE]
  /\ changes = 0 /\ faults = 0
  /\ raced = FALSE /\ touched = FALSE /\ left = FALSE /\ cut = FALSE /\ base = Nothing

------------------------------------------------------------------------------
\* Users and KEDA.

\* The tick has compared the template with the status and will read it again, or the
\* primary has it and the status has not: the change is compared with the wrong one.
TemplateWindow ==
  \/ pc \in {"analyse", "promote"}
  \/ Initialising(status) /\ (primary # NoPrimary \/ pc \in {"copyConfigs", "writePrimary"})

ConfigWindow == TemplateWindow \/ pc = "copyConfigs"

\* hasSpecChanged takes a revert to the promoted template for no change: the analysis
\* of another one goes on with it.
Unnoticed(rev) == status.phase = "Progressing" /\ rev = status.promoted

Push ==
  /\ changes < case.changes
  /\ changes' = changes + 1
  /\ \E r \in Revisions \ {target.rev} :
       /\ target' = [target EXCEPT !.rev = r]
       /\ raced' = (raced \/ TemplateWindow \/ Unnoticed(r))
  /\ UNCHANGED <<config, primary, copy, apex, paused, status, tick, case, faults,
                 touched, left, cut, base>>

EditConfig ==
  /\ Pods
  /\ changes < case.changes
  /\ changes' = changes + 1
  /\ config' \in (Contents \cup {0}) \ {config}
  /\ raced' = (raced \/ ConfigWindow)
  /\ UNCHANGED <<workloads, status, tick, case, faults, touched, left, cut, base>>

\* KEDA scales a paused target to 0 and another one to its minimum.
Scale ==
  /\ case.scaler = "KEDA"
  /\ target.up = paused
  /\ target' = [target EXCEPT !.up = ~paused]
  /\ UNCHANGED <<config, primary, copy, apex, paused, status, tick, limits, history>>

------------------------------------------------------------------------------
\* The tick: from one call to the next.

Call(from, to) == pc = from /\ pc' = to

\* A tick of a canary that is not initialised is to initialise it.
GetCanary ==
  /\ Call("idle", "initialize")
  /\ cd' = status
  /\ goal' = IF Initialising(status) THEN "Initialized" ELSE ""
  /\ UNCHANGED <<workloads, config, status, read, limits, history>>

\* The call before was the last one but a status write.
ScaledDown ==
  /\ pc \in {"sync", "write", "setSucceeded"} /\ goal \in {"Failed", "Succeeded"}
  /\ ~target.up

\* The tick ends early.
Return ==
  /\ pc' = "idle"
  /\ cut' = (cut \/ ScaledDown)
  /\ UNCHANGED <<workloads, config, status, cd, read, goal, case, changes, raced, touched,
                 left, base>>

\* Any call may fail.
Abort ==
  /\ pc # "idle"
  /\ faults < case.faults
  /\ faults' = faults + 1
  /\ Return

\* A call that needs a config that is missing fails.
MissingConfig ==
  /\ ~Readable
  /\ \/ pc \in {"copyConfigs", "write"}
     \/ pc = "compare" /\ ~HasTargetChanged(cd)
  /\ UNCHANGED faults
  /\ Return

\* Initialize finds a primary.  While the canary is initialised one that is past its
\* deadline makes the tick roll back, which does nothing where SetRoutes fails.
Initialized ==
  /\ primary # NoPrimary
  /\ \/ Call("initialize", "scaler") /\ UNCHANGED goal
     \/ /\ Pods /\ goal = "Initialized" /\ ~case.skip /\ case.routed
        /\ Call("initialize", "pause") /\ goal' = "Failed"
  /\ UNCHANGED <<workloads, config, status, cd, read, limits, history>>

\* Mutant: Initialize brings a primary that exists up to date.
RefreshPrimary ==
  /\ pc \in {"initialize", "promote"}
  /\ pc' = IF Pods THEN "copyConfigs" ELSE "writePrimary"
  /\ read' = [read EXCEPT !.rev = target.rev]
  /\ touched' = (touched \/ pc = "promote")
  /\ UNCHANGED <<workloads, config, status, cd, goal, limits, raced, left, cut, base>>

\* Initialize without a primary, and Promote, read the target first.
ReadTarget ==
  /\ pc = "promote" \/ (pc = "initialize" /\ primary = NoPrimary)
  /\ pc' = IF Pods THEN "copyConfigs" ELSE "writePrimary"
  /\ read' = [read EXCEPT !.rev = target.rev]
  /\ touched' = (touched \/ pc = "promote")
  /\ UNCHANGED <<workloads, config, status, cd, goal, limits, raced, left, cut, base>>

\* CreatePrimaryConfigs writes what the config holds now over the primary's copy.
CopyConfigs ==
  /\ Call("copyConfigs", "writePrimary")
  /\ Readable
  /\ copy' = IF config # 0 THEN config ELSE copy
  /\ read' = [read EXCEPT !.found = (config # 0)]
  /\ UNCHANGED <<target, config, primary, apex, paused, status, cd, goal, limits, history>>

\* createPrimaryDeployment asks for at least one replica; createPrimaryDaemonSet
\* copies the selector that keeps the target's pods away, if it is there.
CreatePrimary ==
  /\ Call("writePrimary", "scaler")
  /\ primary = NoPrimary
  /\ primary' = [rev |-> read.rev, copied |-> read.found,
                 up |-> target.up \/ case.kind = "Deployment"]
  /\ UNCHANGED <<target, config, copy, apex, paused, status, cd, read, goal, limits, history>>

\* Promote copies the replicas of a Deployment that has no autoscaler, and removes
\* that selector from a DaemonSet.
UpdatePrimary ==
  /\ Call("writePrimary", IF case.skip THEN "pause" ELSE "setPromoting")
  /\ primary # NoPrimary
  /\ goal' = IF case.skip THEN "Succeeded" ELSE goal
  /\ primary' = [rev |-> read.rev, copied |-> read.found,
                 up |-> \/ case.kind = "DaemonSet"
                        \/ IF case.scaler = "none" THEN target.up ELSE primary.up]
  /\ UNCHANGED <<target, config, copy, apex, paused, status, cd, read, limits, history>>

\* Mutant: the target's ScaledObject goes on.
UnpausedScaler ==
  /\ Call("scaler", "apex") \/ Call("pause", "scaleDown")
  /\ UNCHANGED <<workloads, config, status, cd, read, goal, limits, history>>

\* ReconcilePrimaryScaler, then PauseTargetScaler when the canary is initialised, and
\* PauseTargetScaler when a rollout ends.  Only a ScaledObject can be paused.
PauseScaler ==
  /\ Call("scaler", "apex") \/ Call("pause", "scaleDown")
  /\ paused' = (paused \/ (case.scaler = "KEDA" /\ (pc = "pause" \/ goal = "Initialized")))
  /\ UNCHANGED <<target, config, primary, copy, apex, status, cd, read, goal, limits, history>>

\* Mutant: the apex service follows when the target has been scaled down.
ReconcileApexLate ==
  /\ Call("apex", IF goal = "Initialized" THEN "scaleDown" ELSE "decide")
  /\ apex' = IF goal = "Initialized" \/ ~Pods THEN apex ELSE "primary"
  /\ UNCHANGED <<target, config, primary, copy, paused, status, cd, read, goal, limits, history>>

\* kubeRouter.Reconcile, which for Services is KubernetesNoopRouter's.
ReconcileApex ==
  /\ Call("apex", IF goal = "Initialized" THEN "scaleDown" ELSE "decide")
  /\ apex' = IF Pods THEN "primary" ELSE apex
  /\ UNCHANGED <<target, config, primary, copy, paused, status, cd, read, goal, limits, history>>

ScaleToZero ==
  /\ Call("scaleDown", IF goal = "Succeeded" THEN "setSucceeded" ELSE "sync")
  /\ target' = [target EXCEPT !.up = target.up /\ ~Pods]
  /\ left' = FALSE
  /\ UNCHANGED <<config, primary, copy, apex, paused, status, cd, read, goal, limits,
                 raced, touched, cut, base>>

------------------------------------------------------------------------------
\* SyncStatus reads the template, then the configs, then writes the status.

ReadHash ==
  /\ Call("sync", "write")
  /\ read' = [read EXCEPT !.rev = target.rev]
  /\ UNCHANGED <<workloads, config, status, cd, goal, limits, history>>

Written == IF goal = "Same" THEN cd.phase ELSE goal

\* Mutant: the spec the primary was created from is not recorded as promoted.
UnpromotedSynced ==
  [phase |-> Written, applied |-> read.rev, promoted |-> status.promoted,
   tracked |-> IF Pods THEN config ELSE status.tracked]

\* Mutant: once there are configs in the status, they stay.
StaleSynced ==
  [phase |-> Written, applied |-> read.rev,
   tracked |-> IF Pods /\ goal = "Initialized" THEN config ELSE status.tracked,
   promoted |-> IF goal = "Initialized" THEN read.rev ELSE status.promoted]

Synced ==
  [phase |-> Written, applied |-> read.rev,
   tracked |-> IF Pods THEN config ELSE status.tracked,
   promoted |-> IF goal = "Initialized" THEN read.rev ELSE status.promoted]

\* After Initialized the tick goes on with what was written, the promoted spec
\* excepted; after the sync of a failed canary it goes on with what it had.
SyncStatus ==
  /\ Call("write", IF goal = "Initialized" THEN "decide"
                   ELSE IF goal = "Same" THEN "compare"
                   ELSE "idle")
  /\ Readable
  /\ status' = Synced
  /\ cd' = IF goal = "Initialized" THEN [Synced EXCEPT !.promoted = cd.promoted] ELSE cd
  /\ IF Initialising(cd) \/ (goal = "Progressing" /\ cd.phase # "Progressing")
       THEN base' = Runs /\ touched' = FALSE
       ELSE UNCHANGED <<base, touched>>
  /\ raced' = IF goal = "Progressing" THEN read.rev # target.rev ELSE raced
  /\ left' = (left /\ goal # "Progressing")
  /\ UNCHANGED <<workloads, config, read, goal, limits, cut>>

\* SetStatusPhase: a success makes the applied spec the promoted one.
SetPhase ==
  /\ \/ Call("setPromoting", "idle") /\ status' = [status EXCEPT !.phase = "Promoting"]
     \/ Call("setFinalising", "idle") /\ status' = [status EXCEPT !.phase = "Finalising"]
     \/ /\ Call("setSucceeded", "idle")
        /\ status' = [status EXCEPT !.phase = "Succeeded", !.promoted = status.applied]
  /\ UNCHANGED <<workloads, config, cd, read, goal, limits, history>>

------------------------------------------------------------------------------
\* The decisions.

\* shouldAdvance: a rollout goes on, a failed canary is synced before it is compared.
Decide ==
  /\ \/ /\ Call("decide", "go")
        /\ cd.phase \in {"Progressing", "Promoting", "Finalising"}
        /\ UNCHANGED goal
     \/ Call("decide", "sync") /\ cd.phase = "Failed" /\ goal' = "Same"
     \/ Call("decide", "compare") /\ cd.phase \in {"Initialized", "Succeeded"} /\ UNCHANGED goal
  /\ UNCHANGED <<workloads, config, status, cd, read, limits, history>>

Compare ==
  /\ Call("compare", IF HasTargetChanged(cd) \/ HasConfigChanged(cd) THEN "resume" ELSE "idle")
  /\ Readable \/ HasTargetChanged(cd)
  /\ UNCHANGED <<workloads, config, status, cd, read, goal, limits, history>>

\* The tick is to advance and finds the primary past its deadline: handleFailedPromotion
\* leaves the target up and its scaler active, any other phase rolls back.
PrimaryStuck ==
  /\ Pods /\ ~case.skip
  /\ goal' = "Failed"
  /\ LET halted == cd.phase \in {"Promoting", "Finalising"} IN
       /\ Call("go", IF halted THEN "sync" ELSE "pause") \/ Call("resume", "pause")
       /\ left' = (left \/ halted)
  /\ UNCHANGED <<workloads, config, status, cd, read, limits, raced, touched, cut, base>>

\* checkCanaryStatus: ResumeTargetScaler, ScaleFromZero, SyncStatus.
ResumeScaler ==
  /\ Call("resume", "scaleUp")
  /\ paused' = FALSE
  /\ left' = TRUE
  /\ UNCHANGED <<target, config, primary, copy, apex, status, cd, read, goal, limits,
                 raced, touched, cut, base>>

ScaleFromZero ==
  /\ Call("scaleUp", "sync")
  /\ goal' = "Progressing"
  /\ target' = [target EXCEPT !.up = TRUE]
  /\ UNCHANGED <<config, primary, copy, apex, paused, status, cd, read, limits, history>>

\* hasCanaryRevisionChanged: the analysis, or what replaces it, starts again or goes on.
CheckRevision ==
  /\ pc = "go" /\ cd.phase = "Progressing"
  /\ \/ /\ HasTargetChanged(cd) \/ HasConfigChanged(cd)
        /\ pc' = "sync" /\ goal' = "Progressing"
     \/ /\ ~HasTargetChanged(cd) /\ ~HasConfigChanged(cd)
        /\ pc' = "analyse" /\ UNCHANGED goal
  /\ UNCHANGED <<workloads, config, status, cd, read, limits, history>>

\* Without an analysis the rollout fails if the canary is past its deadline.
Analyse ==
  /\ \/ Call("analyse", "promote") /\ UNCHANGED goal
     \/ (Pods \/ ~case.skip) /\ Call("analyse", "pause") /\ goal' = "Failed"
  /\ UNCHANGED <<workloads, config, status, cd, read, limits, history>>

\* The traffic goes to the primary; when it is there the canary can go.  A canary past
\* its deadline makes the tick roll back even now.
FinishPromotion ==
  /\ \/ Call("go", "setFinalising") /\ cd.phase = "Promoting" /\ UNCHANGED goal
     \/ Call("go", "pause") /\ cd.phase = "Finalising" /\ goal' = "Succeeded"
     \/ /\ Call("go", "pause") /\ cd.phase \in {"Promoting", "Finalising"}
        /\ Pods /\ goal' = "Failed"
  /\ UNCHANGED <<workloads, config, status, cd, read, limits, history>>

------------------------------------------------------------------------------
Tick ==
  \/ GetCanary \/ MissingConfig \/ Initialized \/ ReadTarget \/ CopyConfigs \/ CreatePrimary
  \/ UpdatePrimary \/ PauseScaler \/ ReconcileApex \/ ScaleToZero \/ ReadHash \/ SyncStatus
  \/ SetPhase \/ Decide \/ Compare \/ PrimaryStuck \/ ResumeScaler \/ ScaleFromZero
  \/ CheckRevision \/ Analyse \/ FinishPromotion

Next == Tick \/ Abort \/ Scale \/ Push \/ EditConfig

\* A canary's job ticks for ever, and KEDA acts on its objects.
Spec == Init /\ [][Next]_vars /\ WF_vars(Tick) /\ WF_vars(Scale)
================================================================================
