---------------------------- MODULE WorkloadsProofs ----------------------------
(***************************************************************************)
(* Theorems about module Workloads, for every set of cases, templates and  *)
(* config contents: its types, that users are served throughout (NoGap),   *)
(* and that a canary at rest keeps no pods of its target (IdleWhenSettled).*)
(***************************************************************************)
EXTENDS WorkloadsProps, TLAPS

Targets   == [rev : Revisions, up : BOOLEAN]
Primaries == [rev : Revisions \cup {0}, up : BOOLEAN, copied : BOOLEAN]
Reads     == [rev : Revisions \cup {0}, found : BOOLEAN]
Bases     == [rev : Revisions \cup {0}, config : Contents \cup {0}]

\* TypeOK without what it says of the specs a status records.
Typed ==
  /\ case \in Cases
  /\ target \in Targets
  /\ primary \in Primaries
  /\ config \in Contents \cup {0} /\ copy \in Contents \cup {0}
  /\ apex \in {"target", "primary"} /\ paused \in BOOLEAN
  /\ status \in Statuses /\ cd \in Statuses
  /\ pc \in Calls /\ goal \in Phases \cup {"Same"}
  /\ read \in Reads
  /\ changes \in 0..case.changes /\ faults \in 0..case.faults
  /\ raced \in BOOLEAN /\ touched \in BOOLEAN /\ left \in BOOLEAN /\ cut \in BOOLEAN
  /\ base \in Bases

Recorded ==
  /\ ~Initialising(status) => status.applied # 0
  /\ status.phase \in {"Initialized", "Succeeded"} => status.promoted # 0

\* The calls of a tick that come after the switch of the apex service, or in a rollback
\* of the initialization; and those of them that a canary with a phase alone reaches.
Deciding ==
  {"decide", "compare", "resume", "scaleUp", "go", "analyse", "promote",
   "setPromoting", "setFinalising", "setSucceeded"}
Switched == Deciding \cup {"pause", "scaleDown", "sync", "write"}

\* The tick rolls back an initialization.
RollsBackFirst == status.phase = "" /\ goal = "Failed"

\* Where a tick is, what it is to write, and what the cluster has by then.
Control ==
  /\ pc # "idle" => cd.phase = status.phase
  /\ primary = NoPrimary => apex = "target"
  /\ pc \in {"copyConfigs", "writePrimary", "write"} => read.rev # 0
  /\ pc \in Switched \cup {"scaler", "apex"} \/ status.phase # "" => primary # NoPrimary
  /\ pc \in Switched => apex = "primary" \/ ~Pods \/ RollsBackFirst
  /\ pc \in {"copyConfigs", "writePrimary"} /\ primary # NoPrimary =>
       (apex = "primary" \/ ~Pods) /\ status.phase = "Progressing"
  /\ pc \in {"analyse", "promote"} => status.phase = "Progressing"
  /\ pc \in Deciding => status.phase # ""
  /\ pc # "idle" /\ goal = "Initialized" => status.phase \in {"", "Initialized"}
  /\ pc = "initialize" /\ goal = "Initialized" => status.phase = ""
  /\ pc # "idle" /\ status.phase = "" => goal \in {"Initialized", "Failed"}
  /\ pc # "idle" /\ RollsBackFirst =>
       pc \in {"pause", "scaleDown", "sync", "write"} /\ case.routed
  /\ pc = "pause" => goal \in {"Failed", "Succeeded"}
  /\ pc = "setSucceeded" => goal = "Succeeded"
  /\ pc = "scaleDown" => goal \in {"Initialized", "Failed", "Succeeded"}
  /\ pc \in {"sync", "write"} => goal \in {"Initialized", "Failed", "Progressing", "Same"}
  /\ pc \in {"sync", "write"} /\ goal = "Same" => status.phase = "Failed"

IndInv == Typed /\ Recorded /\ Control

------------------------------------------------------------------------------
USE DEF vars, workloads, tick, limits, history, Pods

LEMMA CaseFacts ==
  ASSUME Typed
  PROVE  /\ case.kind \in {"Deployment", "DaemonSet", "Service"}
         /\ case.scaler \in {"none", "HPA", "KEDA"}
         /\ case.kind # "Deployment" => case.scaler = "none"
         /\ case.kind = "Service" => case.up
         /\ case.skip \in BOOLEAN /\ case.required \in BOOLEAN
         /\ case.routed \in BOOLEAN /\ case.up \in BOOLEAN
         /\ case.changes \in Nat /\ case.faults \in Nat
BY CasesAssumption DEF Typed

LEMMA InitHolds == Init => IndInv
<1> SUFFICES ASSUME Init PROVE IndInv
  OBVIOUS
<1>1. case.changes \in Nat /\ case.faults \in Nat /\ case.up \in BOOLEAN
  BY CasesAssumption DEF Init
<1>4. paused \in BOOLEAN
  BY DEF Init
<1>5. target \in Targets
  <2>1. PICK r \in Revisions : target = [rev |-> r, up |-> case.up]
    BY DEF Init
  <2> QED BY <1>1, <2>1 DEF Targets
<1>6. primary \in Primaries /\ read \in Reads /\ base \in Bases
  BY DEF Init, Primaries, Reads, Bases, NoPrimary, Nothing
<1>7. status \in Statuses /\ cd \in Statuses
  BY DEF Init, Statuses, NoStatus, Phases
<1>8. changes \in 0..case.changes /\ faults \in 0..case.faults
  <2>1. changes = 0 /\ faults = 0
    BY DEF Init
  <2> QED BY <1>1, <2>1
<1>2. Typed
  BY <1>4, <1>5, <1>6, <1>7, <1>8 DEF Init, Typed, Phases, Calls
<1>3. Recorded /\ Control
  BY DEF Init, Recorded, Control, RollsBackFirst, NoStatus, NoPrimary, Initialising,
         Deciding, Switched
<1> QED BY <1>2, <1>3 DEF IndInv

------------------------------------------------------------------------------
\* Types.

LEMMA TickTyped ==
  ASSUME Typed, Tick \/ Abort
  PROVE  Typed'
<1> USE CaseFacts DEF Typed, Call
<1>1. CASE GetCanary
  BY <1>1 DEF GetCanary, Calls, Phases
<1>2. CASE MissingConfig \/ Abort
  <2>1. cut' \in BOOLEAN
    BY <1>2 DEF MissingConfig, Abort, Return
  <2>2. faults' \in 0..case.faults
    BY <1>2 DEF MissingConfig, Abort, Return
  <2> QED BY <1>2, <2>1, <2>2 DEF MissingConfig, Abort, Return, Calls
<1>3. CASE Initialized \/ Compare
  <2>1. pc' \in Calls /\ goal' \in Phases \cup {"Same"}
    BY <1>3 DEF Initialized, Compare, Calls, Phases
  <2>2. UNCHANGED <<workloads, config, status, cd, read, limits, history>>
    BY <1>3 DEF Initialized, Compare
  <2> QED BY <2>1, <2>2
<1>4. CASE ReadTarget
  BY <1>4 DEF ReadTarget, Calls, Reads, Targets
<1>5. CASE CopyConfigs
  <2>1. pc' \in Calls
    BY <1>5 DEF CopyConfigs, Calls
  <2>2. read' \in Reads /\ copy' \in Contents \cup {0}
    BY <1>5 DEF CopyConfigs, Reads
  <2> QED BY <1>5, <2>1, <2>2 DEF CopyConfigs
<1>6. CASE CreatePrimary
  BY <1>6 DEF CreatePrimary, Calls, Reads, Targets, Primaries
<1>7. CASE UpdatePrimary
  <2> DEFINE up == \/ case.kind = "DaemonSet"
                   \/ IF case.scaler = "none" THEN target.up ELSE primary.up
  <2>1. target.up \in BOOLEAN /\ primary.up \in BOOLEAN
    BY DEF Targets, Primaries
  <2>2. up \in BOOLEAN
    BY <2>1
  <2>3. primary' = [rev |-> read.rev, copied |-> read.found, up |-> up]
    BY <1>7 DEF UpdatePrimary
  <2> HIDE DEF up
  <2>4. primary' \in Primaries
    BY <2>2, <2>3 DEF Reads, Primaries
  <2>5. pc' \in Calls /\ goal' \in Phases \cup {"Same"}
    BY <1>7 DEF UpdatePrimary, Calls, Phases
  <2> QED BY <1>7, <2>4, <2>5 DEF UpdatePrimary
<1>8. CASE PauseScaler \/ ReconcileApex
  <2>1. pc' \in Calls
    BY <1>8 DEF PauseScaler, ReconcileApex, Calls
  <2>2. paused' \in BOOLEAN /\ apex' \in {"target", "primary"}
    BY <1>8 DEF PauseScaler, ReconcileApex
  <2> QED BY <1>8, <2>1, <2>2 DEF PauseScaler, ReconcileApex
<1>9. CASE ScaleToZero \/ ReadHash
  <2>1. pc' \in Calls
    BY <1>9 DEF ScaleToZero, ReadHash, Calls
  <2>2. target' \in Targets /\ read' \in Reads /\ left' \in BOOLEAN
    BY <1>9 DEF ScaleToZero, ReadHash, Targets, Reads
  <2> QED BY <1>9, <2>1, <2>2 DEF ScaleToZero, ReadHash
<1>10. CASE SyncStatus
  <2>0. Written \in Phases
    BY DEF Written, Statuses
  <2>1. Synced \in Statuses
    BY <2>0 DEF Synced, Statuses, Reads
  <2>2. status' \in Statuses /\ cd' \in Statuses
    BY <1>10, <2>1 DEF SyncStatus, Statuses
  <2>3. Runs \in Bases
    BY DEF Runs, Effective, Bases, Primaries
  <2>4. base' \in Bases /\ touched' \in BOOLEAN
    BY <1>10, <2>3 DEF SyncStatus
  <2>5. pc' \in Calls /\ raced' \in BOOLEAN /\ left' \in BOOLEAN
    BY <1>10 DEF SyncStatus, Calls
  <2> QED BY <1>10, <2>2, <2>4, <2>5 DEF SyncStatus
<1>11. CASE SetPhase
  <2>1. status' \in Statuses
    BY <1>11 DEF SetPhase, Statuses, Phases
  <2>2. pc' \in Calls
    BY <1>11 DEF SetPhase, Calls
  <2> QED BY <1>11, <2>1, <2>2 DEF SetPhase
<1>12. CASE Decide \/ FinishPromotion \/ Analyse \/ CheckRevision
  <2>1. pc' \in Calls
    BY <1>12 DEF Decide, FinishPromotion, Analyse, CheckRevision, Calls
  <2>2. goal' \in Phases \cup {"Same"}
    BY <1>12 DEF Decide, FinishPromotion, Analyse, CheckRevision, Phases
  <2>3. UNCHANGED <<workloads, config, status, cd, read, limits, history>>
    BY <1>12 DEF Decide, FinishPromotion, Analyse, CheckRevision
  <2> QED BY <2>1, <2>2, <2>3
<1>13. CASE ResumeScaler \/ PrimaryStuck
  BY <1>13 DEF ResumeScaler, PrimaryStuck, Calls, Phases
<1>14. CASE ScaleFromZero
  <2>1. pc' \in Calls /\ goal' \in Phases \cup {"Same"}
    BY <1>14 DEF ScaleFromZero, Calls, Phases
  <2>2. target' \in Targets
    BY <1>14 DEF ScaleFromZero, Targets
  <2> QED BY <1>14, <2>1, <2>2 DEF ScaleFromZero
<1> QED
  BY <1>1, <1>2, <1>3, <1>4, <1>5, <1>6, <1>7, <1>8, <1>9, <1>10, <1>11, <1>12, <1>13, <1>14
     DEF Tick

LEMMA EnvironmentTyped ==
  ASSUME Typed, Push \/ EditConfig \/ Scale
  PROVE  Typed'
<1> USE CaseFacts DEF Typed
<1>1. CASE Push
  <2>1. changes' \in 0..case.changes /\ raced' \in BOOLEAN
    BY <1>1 DEF Push, TemplateWindow, Unnoticed
  <2> QED BY <1>1, <2>1 DEF Push, Targets
<1>2. CASE EditConfig
  <2>1. changes' \in 0..case.changes /\ raced' \in BOOLEAN
    BY <1>2 DEF EditConfig, ConfigWindow, TemplateWindow
  <2> QED BY <1>2, <2>1 DEF EditConfig
<1>3. CASE Scale
  BY <1>3 DEF Scale, Targets
<1> QED BY <1>1, <1>2, <1>3

------------------------------------------------------------------------------
\* Control.

LEMMA TickControl ==
  ASSUME IndInv, Tick \/ Abort, Typed'
  PROVE  Recorded' /\ Control'
<1> USE CaseFacts DEF IndInv, Call, Deciding, Switched, Initialising, RollsBackFirst
<1>0. \A r \in Revisions : r # 0
  BY ContentsAssumption
<1>1. CASE GetCanary
  BY <1>1 DEF GetCanary, Recorded, Control
<1>2. CASE MissingConfig \/ Abort
  BY <1>2 DEF MissingConfig, Abort, Return, Recorded, Control
<1>3. CASE Initialized
  BY <1>3 DEF Initialized, Recorded, Control
<1>16. CASE Compare
  BY <1>16 DEF Compare, Recorded, Control
<1>4. CASE ReadTarget
  BY <1>0, <1>4 DEF ReadTarget, Recorded, Control, Typed, Reads, Targets
<1>5. CASE CopyConfigs
  BY <1>5 DEF CopyConfigs, Recorded, Control, Typed, Reads
<1>6. CASE CreatePrimary
  BY <1>6 DEF CreatePrimary, Recorded, Control, NoPrimary
<1>7. CASE UpdatePrimary
  BY <1>7 DEF UpdatePrimary, Recorded, Control, NoPrimary
<1>8. CASE PauseScaler \/ ReconcileApex
  BY <1>8 DEF PauseScaler, ReconcileApex, Recorded, Control
<1>9. CASE ScaleToZero \/ ReadHash
  BY <1>0, <1>9 DEF ScaleToZero, ReadHash, Recorded, Control, Typed, Reads, Targets
<1>10. CASE SyncStatus
  <2>1. /\ status'.phase = IF goal = "Same" THEN cd.phase ELSE goal
        /\ status'.applied = read.rev
        /\ status'.promoted = IF goal = "Initialized" THEN read.rev ELSE status.promoted
    BY <1>10 DEF SyncStatus, Synced, Written
  <2>2. /\ pc' \in {"idle", "compare", "decide"}
        /\ cd'.phase = IF goal = "Initialized" THEN goal ELSE cd.phase
    BY <1>10 DEF SyncStatus, Synced, Written
  <2>3. UNCHANGED <<primary, apex, read, goal, case>>
    BY <1>10 DEF SyncStatus
  <2>4. pc' = "compare" => goal = "Same"
    BY <1>10 DEF SyncStatus
  <2>5. pc = "write" /\ (pc' = "decide" => goal = "Initialized")
    BY <1>10 DEF SyncStatus
  <2> QED BY <2>1, <2>2, <2>3, <2>4, <2>5 DEF Recorded, Control
<1>11. CASE SetPhase
  BY <1>11 DEF SetPhase, Recorded, Control, Typed, Statuses
<1>12. CASE Decide \/ FinishPromotion \/ Analyse
  BY <1>12 DEF Decide, FinishPromotion, Analyse, Recorded, Control
<1>13. CASE CheckRevision
  BY <1>13 DEF CheckRevision, Recorded, Control
<1>14. CASE ResumeScaler \/ ScaleFromZero
  BY <1>14 DEF ResumeScaler, ScaleFromZero, Recorded, Control
<1>15. CASE PrimaryStuck
  BY <1>15 DEF PrimaryStuck, Recorded, Control
<1> QED
  BY <1>1, <1>2, <1>3, <1>4, <1>5, <1>6, <1>7, <1>8, <1>9, <1>10, <1>11, <1>12, <1>13, <1>14,
     <1>15, <1>16 DEF Tick

LEMMA ControlStays ==
  ASSUME Control, UNCHANGED <<primary, apex, status, pc, cd, read, goal, case>>
  PROVE  Control'
BY DEF Control, RollsBackFirst, Deciding, Switched

LEMMA IndInvKept == IndInv /\ [Next]_vars => IndInv'
<1> SUFFICES ASSUME IndInv, [Next]_vars PROVE IndInv'
  OBVIOUS
<1>1. CASE Tick \/ Abort
  BY <1>1, TickTyped, TickControl DEF IndInv
<1>2. CASE Push \/ EditConfig \/ Scale
  <2>1. UNCHANGED <<primary, apex, status, pc, cd, read, goal, case>>
    BY <1>2 DEF Push, EditConfig, Scale
  <2>2. Recorded'
    BY <2>1 DEF IndInv, Recorded, Initialising
  <2>3. Control'
    BY <2>1, ControlStays DEF IndInv
  <2> QED BY <1>2, <2>2, <2>3, EnvironmentTyped DEF IndInv
<1>3. CASE UNCHANGED vars
  <2>1. Typed'
    BY <1>3 DEF IndInv, Typed
  <2>2. Recorded'
    BY <1>3 DEF IndInv, Recorded, Initialising
  <2>3. Control'
    BY <1>3, ControlStays DEF IndInv
  <2> QED BY <2>1, <2>2, <2>3 DEF IndInv
<1> QED BY <1>1, <1>2, <1>3 DEF Next

\* Every variable keeps its type, and the status has the template it applied last and,
\* after the initialization or a promotion, the one it promoted.
THEOREM TypeCorrect == Spec => []TypeOK
<1>1. IndInv => TypeOK
  BY DEF IndInv, Typed, Recorded, TypeOK, Targets, Primaries, Reads, Bases
<1> QED BY <1>1, InitHolds, IndInvKept, PTL DEF Spec

------------------------------------------------------------------------------
\* Zero downtime.

\* An analysis without an autoscaler has pods of its target, which Promote copies the
\* number of: from the first status of the rollout to the call that scales them down
\* at its end, whose status write is the next one.
Ending == pc \in {"sync", "write", "setSucceeded"} /\ goal \in {"Failed", "Succeeded"}

TargetServes ==
  (case.kind = "Deployment" /\ case.scaler = "none") =>
    /\ status.phase = "Progressing" => target.up \/ cut \/ Ending
    /\ pc \in {"sync", "write"} /\ goal = "Progressing" => target.up \/ cut

PrimaryServes ==
  case.up /\ primary # NoPrimary => primary.up \/ ScaledDownPromoted

\* The pods behind an apex service that is not switched go only in the rollback of an
\* initialization, whose status write is the next one.
FirstRollback ==
  /\ case.routed /\ primary # NoPrimary
  /\ status.phase = "Failed" \/ cut \/ (goal = "Failed" /\ pc \in {"sync", "write"})

ApexServes ==
  case.up /\ apex = "target" => target.up \/ case.scaler = "KEDA" \/ FirstRollback

\* Nothing takes the pods behind a Service.
ServiceServes == ~Pods => target.up /\ (primary # NoPrimary => primary.up)

GapInv == TargetServes /\ PrimaryServes /\ ApexServes /\ ServiceServes

LEMMA ServesNoGap == IndInv /\ GapInv => NoGap
BY DEF GapInv, PrimaryServes, ApexServes, FirstRollback, RolledBackFirst, NoGap, IndInv,
       Control, Typed

LEMMA NextServes == IndInv /\ IndInv' /\ GapInv /\ [Next]_vars => GapInv'
<1> SUFFICES ASSUME IndInv, IndInv', GapInv, [Next]_vars PROVE GapInv'
  OBVIOUS
<1> USE DEF Call, GapInv, TargetServes, PrimaryServes, ServiceServes, ApexServes,
            FirstRollback, ScaledDownPromoted, Ending
<1>0. Typed
  BY DEF IndInv
<1>1. CASE GetCanary \/ Initialized \/ ReadTarget \/ CopyConfigs \/ PauseScaler
  BY <1>1 DEF GetCanary, Initialized, ReadTarget, CopyConfigs, PauseScaler
<1>2. CASE MissingConfig \/ Abort
  BY <1>2 DEF MissingConfig, Abort, Return, ScaledDown
<1>3. CASE CreatePrimary
  <2>1. primary'.up = (target.up \/ case.kind = "Deployment")
    BY <1>3 DEF CreatePrimary
  <2>2. apex = "target"
    BY <1>3 DEF CreatePrimary, IndInv, Control
  <2>3. case.kind # "Deployment" => case.scaler = "none"
    BY <1>0, CaseFacts
  <2>4. case.kind \in {"Deployment", "DaemonSet", "Service"}
    BY <1>0, CaseFacts
  <2> QED BY <1>3, <2>1, <2>2, <2>3, <2>4 DEF CreatePrimary
<1>4. CASE UpdatePrimary
  <2>1. primary'.up = \/ case.kind = "DaemonSet"
                      \/ IF case.scaler = "none" THEN target.up ELSE primary.up
    BY <1>4 DEF UpdatePrimary
  <2>2. status.phase = "Progressing"
    BY <1>4 DEF UpdatePrimary, IndInv, Control
  <2>3. /\ case.kind \in {"Deployment", "DaemonSet", "Service"}
        /\ case.kind # "Deployment" => case.scaler = "none"
    BY <1>0, CaseFacts
  <2>4. apex = "primary" \/ ~Pods
    BY <1>4 DEF UpdatePrimary, IndInv, Control
  <2> QED BY <1>4, <2>1, <2>2, <2>3, <2>4 DEF UpdatePrimary
<1>5. CASE ReconcileApex
  BY <1>5 DEF ReconcileApex, IndInv, Control
<1>6. CASE ScaleToZero
  BY <1>0, <1>6
     DEF ScaleToZero, IndInv, Typed, Targets, Control, Deciding, Switched, RollsBackFirst
<1>7. CASE ReadHash
  BY <1>7 DEF ReadHash
<1>8. CASE SyncStatus
  <2>1. /\ status'.phase = IF goal = "Same" THEN cd.phase ELSE goal
        /\ pc' \in {"decide", "compare", "idle"}
    BY <1>8 DEF SyncStatus, Synced, Written
  <2>2. pc = "write" /\ cd.phase = status.phase
    BY <1>8 DEF SyncStatus, IndInv, Control
  <2>3. goal = "Same" => status.phase = "Failed"
    BY <2>2 DEF IndInv, Control
  <2>4. Pods /\ apex = "target" => status'.phase = "Failed"
    BY <2>1, <2>2 DEF IndInv, Control, Switched, Deciding, RollsBackFirst
  <2>5. UNCHANGED <<target, primary, apex, case, cut, goal>>
    BY <1>8 DEF SyncStatus
  <2> QED BY <1>0, <2>1, <2>2, <2>3, <2>4, <2>5
<1>9. CASE SetPhase
  <2>1. status'.phase # "Progressing" /\ pc' = "idle"
    <3>1. /\ pc' = "idle"
          /\ status' \in {[status EXCEPT !.phase = "Promoting"],
                          [status EXCEPT !.phase = "Finalising"],
                          [status EXCEPT !.phase = "Succeeded", !.promoted = status.applied]}
      BY <1>9 DEF SetPhase
    <3>2. status \in Statuses
      BY <1>0 DEF Typed
    <3> QED BY <3>1, <3>2 DEF Statuses
  <2>2. apex = "primary" \/ ~Pods
    BY <1>9 DEF SetPhase, IndInv, Control, Switched, Deciding, RollsBackFirst
  <2> QED BY <1>9, <2>1, <2>2 DEF SetPhase
<1>10. CASE Decide \/ Compare \/ PrimaryStuck \/ ResumeScaler \/ Analyse \/ FinishPromotion
  BY <1>10 DEF Decide, Compare, PrimaryStuck, ResumeScaler, Analyse, FinishPromotion
<1>11. CASE ScaleFromZero
  BY <1>0, <1>11 DEF ScaleFromZero, Typed, Targets
<1>12. CASE CheckRevision
  BY <1>12 DEF CheckRevision, IndInv, Control
<1>13. CASE Push
  BY <1>0, <1>13 DEF Push, Typed, Targets
<1>14. CASE EditConfig
  BY <1>14 DEF EditConfig
<1>15. CASE Scale
  BY <1>0, <1>15, CaseFacts DEF Scale
<1>16. CASE UNCHANGED vars
  BY <1>16
<1> QED
  BY <1>1, <1>2, <1>3, <1>4, <1>5, <1>6, <1>7, <1>8, <1>9, <1>10, <1>11, <1>12, <1>13, <1>14,
     <1>15, <1>16 DEF Next, Tick

\* Zero downtime: what the apex service selects has pods, through the creation of the
\* primary, promotions and rollbacks, with the exceptions NoGap names.
THEOREM ServedThroughout == Spec => []NoGap
<1>1. Init => GapInv
  <2> SUFFICES ASSUME Init PROVE GapInv
    OBVIOUS
  <2>1. PICK r \in Revisions : target = [rev |-> r, up |-> case.up]
    BY DEF Init
  <2>2. status = NoStatus /\ pc = "idle" /\ primary = NoPrimary /\ apex = "target"
    BY DEF Init
  <2>3. case.kind = "Service" => case.up
    BY CasesAssumption DEF Init
  <2> QED BY <2>1, <2>2, <2>3
          DEF GapInv, TargetServes, PrimaryServes, ApexServes, ServiceServes, NoStatus
<1> QED BY <1>1, ServesNoGap, InitHolds, IndInvKept, NextServes, PTL DEF Spec

------------------------------------------------------------------------------
\* At rest.

Off == (Pods => ~target.up) /\ (case.scaler = "KEDA" => paused)

Settled == {"Initialized", "Succeeded", "Failed"}

\* The target is off from the call that scales it down to the one that ends a rest,
\* also while a tick runs; its scaler is paused first, and resumed before it goes up.
RestInv ==
  /\ pc = "apex" /\ goal = "Initialized" => (case.scaler = "KEDA" => paused)
  /\ pc = "scaleDown" => (case.scaler = "KEDA" => paused)
  /\ pc = "setSucceeded" => Off
  /\ pc \in {"sync", "write"} /\ goal \in Settled => Off \/ left
  /\ pc = "scaleUp" => left
  /\ status.phase \in Settled => Off \/ left

LEMMA NextRests == IndInv /\ RestInv /\ [Next]_vars => RestInv'
<1> SUFFICES ASSUME IndInv, RestInv, [Next]_vars PROVE RestInv'
  OBVIOUS
<1> USE DEF Call, RestInv, Off, Settled
<1>0. Typed /\ Control
  BY DEF IndInv
<1>1. CASE GetCanary \/ Initialized \/ ReadTarget \/ CopyConfigs \/ CreatePrimary
  BY <1>0, <1>1 DEF GetCanary, Initialized, ReadTarget, CopyConfigs, CreatePrimary
<1>2. CASE MissingConfig \/ Abort
  BY <1>2 DEF MissingConfig, Abort, Return
<1>3. CASE UpdatePrimary
  BY <1>3 DEF UpdatePrimary
<1>4. CASE PauseScaler
  BY <1>0, <1>4 DEF PauseScaler, Typed
<1>5. CASE ReconcileApex
  BY <1>5 DEF ReconcileApex
<1>6. CASE ScaleToZero
  BY <1>0, <1>6 DEF ScaleToZero, Typed, Targets
<1>7. CASE ReadHash
  BY <1>7 DEF ReadHash
<1>8. CASE SyncStatus
  <2>1. /\ status'.phase = IF goal = "Same" THEN cd.phase ELSE goal
        /\ pc' \in {"decide", "compare", "idle"}
    BY <1>8 DEF SyncStatus, Synced, Written
  <2>3. goal = "Same" => status.phase = "Failed" /\ cd.phase = "Failed"
    BY <1>0, <1>8 DEF SyncStatus, Control
  <2>2. goal \in Settled \cup {"Same"} => left' = left
    BY <1>0, <1>8 DEF SyncStatus, Typed
  <2> QED BY <1>8, <2>1, <2>2, <2>3 DEF SyncStatus
<1>9. CASE SetPhase
  <2>1. pc' = "idle" /\ (status'.phase \in Settled => pc = "setSucceeded")
    <3>1. \/ status' = [status EXCEPT !.phase = "Promoting"]
          \/ status' = [status EXCEPT !.phase = "Finalising"]
          \/ pc = "setSucceeded"
      BY <1>9 DEF SetPhase
    <3>2. status \in Statuses
      BY <1>0 DEF Typed
    <3> QED BY <1>9, <3>1, <3>2 DEF Statuses, SetPhase
  <2> QED BY <1>9, <2>1 DEF SetPhase
<1>10. CASE Decide
  BY <1>0, <1>10 DEF Decide, Control
<1>11. CASE ResumeScaler \/ PrimaryStuck
  BY <1>11 DEF ResumeScaler, PrimaryStuck
<1>12. CASE ScaleFromZero
  BY <1>12 DEF ScaleFromZero
<1>13. CASE Compare \/ CheckRevision \/ Analyse \/ FinishPromotion
  BY <1>13 DEF Compare, CheckRevision, Analyse, FinishPromotion
<1>14. CASE Push
  BY <1>0, <1>14 DEF Push, Typed, Targets
<1>15. CASE EditConfig
  BY <1>15 DEF EditConfig
<1>16. CASE Scale
  BY <1>0, <1>16 DEF Scale, Typed, Targets
<1>17. CASE UNCHANGED vars
  BY <1>17
<1> QED
  BY <1>1, <1>2, <1>3, <1>4, <1>5, <1>6, <1>7, <1>8, <1>9, <1>10, <1>11, <1>12, <1>13, <1>14,
     <1>15, <1>16, <1>17 DEF Next, Tick

\* A canary at rest wants no pods of its target, and its ScaledObject is paused so that
\* KEDA does not want them either, whatever KEDA does between the calls of a tick.
THEOREM AtRest == Spec => []IdleWhenSettled
<1>1. Init => RestInv
  <2> SUFFICES ASSUME Init PROVE RestInv
    OBVIOUS
  <2>1. status = NoStatus /\ pc = "idle"
    BY DEF Init
  <2> QED BY <2>1 DEF RestInv, NoStatus, Settled
<1>2. RestInv => IdleWhenSettled
  BY DEF RestInv, IdleWhenSettled, Off, Settled
<1> QED BY <1>1, <1>2, InitHolds, IndInvKept, NextRests, PTL DEF Spec
------------------------------------------------------------------------------
\* Failed rollouts.

\* Once the canary has a phase the primary, and its copy of the config, is written only
\* by a promotion.
KeepInv ==
  /\ pc \in {"copyConfigs", "writePrimary"} /\ primary # NoPrimary => touched
  /\ status.phase # "" => Runs = base \/ touched \/ SharesConfig

LEMMA NextKeeps == IndInv /\ IndInv' /\ KeepInv /\ [Next]_vars => KeepInv'
<1> SUFFICES ASSUME IndInv, IndInv', KeepInv, [Next]_vars PROVE KeepInv'
  OBVIOUS
<1> USE DEF Call, KeepInv, SharesConfig
<1>0. Typed /\ Control
  BY DEF IndInv
<1>a. ASSUME UNCHANGED <<primary, copy, config>>
      PROVE  UNCHANGED Runs
  BY <1>a DEF Runs, Effective
<1>1. CASE GetCanary
  BY <1>1, <1>a DEF GetCanary
<1>2. CASE MissingConfig \/ Abort
  BY <1>2, <1>a DEF MissingConfig, Abort, Return
<1>3. CASE Initialized \/ PauseScaler \/ ReconcileApex
  BY <1>3, <1>a DEF Initialized, PauseScaler, ReconcileApex
<1>4. CASE ReadTarget
  BY <1>4, <1>a DEF ReadTarget
<1>5. CASE CopyConfigs
  BY <1>0, <1>5 DEF CopyConfigs, Control
<1>6. CASE CreatePrimary
  BY <1>0, <1>6 DEF CreatePrimary, Control
<1>7. CASE UpdatePrimary
  <2>1. touched' /\ primary'.rev = read.rev /\ read.rev # 0
    BY <1>0, <1>7 DEF UpdatePrimary, Control
  <2> QED BY <1>7, <2>1 DEF UpdatePrimary, NoPrimary
<1>8. CASE ScaleToZero \/ ReadHash
  BY <1>8, <1>a DEF ScaleToZero, ReadHash
<1>9. CASE SyncStatus
  <2> DEFINE begins == Initialising(cd) \/ (goal = "Progressing" /\ cd.phase # "Progressing")
  <2>1. pc = "write" /\ UNCHANGED Runs
    BY <1>9, <1>a DEF SyncStatus
  <2>2. pc' \in {"idle", "compare", "decide"} /\ UNCHANGED <<primary, case, goal>>
    BY <1>9 DEF SyncStatus
  <2>3. CASE begins
    BY <1>9, <2>1, <2>2, <2>3 DEF SyncStatus
  <2>4. CASE ~begins
    <3>1. UNCHANGED <<base, touched>>
      BY <1>9, <2>4 DEF SyncStatus
    <3>2. status.phase # ""
      BY <1>0, <2>1, <2>4 DEF Control, Initialising
    <3> QED BY <2>1, <2>2, <3>1, <3>2
  <2> QED BY <2>3, <2>4
<1>10. CASE SetPhase
  <2>1. pc' = "idle" /\ status.phase # ""
    BY <1>0, <1>10 DEF SetPhase, Control, Deciding
  <2>2. UNCHANGED <<primary, base, touched, case>> /\ UNCHANGED Runs
    BY <1>10, <1>a DEF SetPhase
  <2> QED BY <2>1, <2>2
<1>11. CASE Decide \/ Compare \/ FinishPromotion
  BY <1>11, <1>a DEF Decide, Compare, FinishPromotion
<1>12. CASE ResumeScaler \/ ScaleFromZero \/ PrimaryStuck
  BY <1>12, <1>a DEF ResumeScaler, ScaleFromZero, PrimaryStuck
<1>13. CASE CheckRevision
  BY <1>13, <1>a DEF CheckRevision
<1>14. CASE Analyse
  BY <1>14, <1>a DEF Analyse
<1>15. CASE Push \/ Scale
  BY <1>15, <1>a DEF Push, Scale
<1>16. CASE EditConfig
  <2>1. UNCHANGED <<primary, copy, status, pc, goal, touched, base, case>> /\ Pods
    BY <1>16 DEF EditConfig
  <2>2. primary.copied => UNCHANGED Runs
    BY <2>1 DEF Runs, Effective
  <2>3. primary.copied \/ ~primary.copied
    OBVIOUS
  <2> QED BY <2>1, <2>2, <2>3
<1>17. CASE UNCHANGED vars
  BY <1>17, <1>a
<1> QED
  BY <1>1, <1>2, <1>3, <1>4, <1>5, <1>6, <1>7, <1>8, <1>9, <1>10, <1>11, <1>12, <1>13, <1>14,
     <1>15, <1>16, <1>17 DEF Next, Tick

\* A rollout that failed leaves the primary with the template and the configs it had
\* when the rollout began, unless a promotion had left or it shares the target's.
THEOREM FailuresKeepThePrimary == Spec => []FailureKeepsPrimary
<1>1. Init => KeepInv
  <2> SUFFICES ASSUME Init PROVE KeepInv
    OBVIOUS
  <2>1. status = NoStatus /\ pc = "idle"
    BY DEF Init
  <2> QED BY <2>1 DEF KeepInv, NoStatus
<1>2. KeepInv => FailureKeepsPrimary
  BY DEF KeepInv, FailureKeepsPrimary
<1> QED BY <1>1, <1>2, InitHolds, IndInvKept, NextKeeps, PTL DEF Spec
================================================================================
