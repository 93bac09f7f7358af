--------------------------- MODULE ControllerProofs ---------------------------
(***************************************************************************)
(* Type correctness of module Controller, that a canary has one job, and   *)
(* that a finalized canary leaves the target serving: for every set of     *)
(* plans and every number of goroutines.                                   *)
(***************************************************************************)
EXTENDS ControllerProps, TLAPS

USE DEF informer, sync, jobs, cluster, limits, ghosts

------------------------------------------------------------------------------
\* Types.

ObjectType ==
  [uid : 0 .. plan.creates, spec : plan.specs \cup {NoSpec}, phase : Phases, fin : BOOLEAN,
   deleting : BOOLEAN]

RunType ==
  [pc : {"off", "wait", "start", "initialize", "reconcile", "scaleDown", "takeOver", "mesh",
         "scaleToZero", "setRunning"},
   stopped : BOOLEAN, ticked : BOOLEAN]

\* The intervals of the specs in use are numbers.
LEMMA SpecType ==
  ASSUME plan \in Plans, NEW s \in plan.specs \cup {NoSpec}
  PROVE  s \in [revert : BOOLEAN, interval : Nat, valid : BOOLEAN]
<1>1. CASE s = NoSpec
  BY <1>1 DEF NoSpec
<1>2. CASE s \in plan.specs
  <2>1. s \in CanarySpecs BY <1>2, PlansAssumption
  <2> QED BY <2>1 DEF CanarySpecs
<1> QED BY <1>1, <1>2

LEMMA InitType == Init => TypeOK
<1> SUFFICES ASSUME Init PROVE TypeOK OBVIOUS
<1>1. plan.creates \in Nat /\ plan.edits \in Nat /\ plan.faults \in Nat /\ plan.up \in BOOLEAN
  BY PlansAssumption DEF Init
<1>2. Absent \in ObjectType
  BY <1>1 DEF Absent, Object, ObjectType, Phases
<1>3. NoWork \in [interval : Nat, adds : BOOLEAN]
  BY DEF NoWork
<1>4. NoJob \in [run : Runs \cup {0}, interval : Nat]
  BY DEF NoJob
<1>5. runs \in [Runs -> RunType]
  BY DEF Init, Idle, RunType
<1>6. {api, lister} \subseteq ObjectType
  BY <1>2 DEF Init
<1>7. /\ creates \in 0 .. plan.creates /\ edits \in 0 .. plan.edits /\ faults \in 0 .. plan.faults
      /\ entry \in Nat
  BY <1>1 DEF Init
<1>8. worker \in Finalization \cup {"idle", "initializing", "store", "addFinalizer"}
  BY DEF Init
<1>9. /\ plan \in Plans /\ optOut \in BOOLEAN /\ queued \in BOOLEAN
      /\ wcd = NoWork /\ job = NoJob
      /\ target \in BOOLEAN /\ primary \in BOOLEAN /\ apex = "target" /\ mesh = "target"
      /\ undone = {} /\ lost = {}
  BY <1>1 DEF Init
<1> HIDE DEF Init
<1> QED BY <1>3, <1>4, <1>5, <1>6, <1>7, <1>8, <1>9 DEF TypeOK, ObjectType, RunType

LEMMA WithoutFinalizerType ==
  ASSUME TypeOK
  PROVE  WithoutFinalizer \in ObjectType
<1>1. Absent \in ObjectType
  BY PlansAssumption DEF Absent, Object, ObjectType, Phases, TypeOK
<1>2. api \in ObjectType
  BY DEF TypeOK, ObjectType
<1> QED BY <1>1, <1>2 DEF WithoutFinalizer, ObjectType

LEMMA UserType ==
  ASSUME TypeOK, User \/ CollectGarbage
  PROVE  TypeOK'
<1>1. plan.creates \in Nat /\ plan.edits \in Nat
  BY PlansAssumption DEF TypeOK
<1>2. CASE Create
  BY <1>1, <1>2 DEF Create, TypeOK, Object, Phases
<1>3. CASE EditSpec
  BY <1>1, <1>3 DEF EditSpec, TypeOK
<1>4. CASE Delete
  <2>1. Absent \in ObjectType BY <1>1 DEF Absent, Object, ObjectType, Phases
  <2>2. api' \in ObjectType
    BY <1>4, <2>1 DEF Delete, TypeOK, ObjectType
  <2>3. edits' \in 0 .. plan.edits
    BY <1>1, <1>4 DEF Delete, TypeOK
  <2> QED BY <1>4, <2>2, <2>3 DEF Delete, TypeOK, ObjectType
<1>5. CASE CollectGarbage
  BY <1>5 DEF CollectGarbage, TypeOK
<1> QED BY <1>2, <1>3, <1>4, <1>5 DEF User

LEMMA InformerType ==
  ASSUME TypeOK, Informer \/ DeliverTombstone \/ OptOutFails \/ Resync
  PROVE  TypeOK'
<1>1. plan.creates \in Nat /\ plan.faults \in Nat
  BY PlansAssumption DEF TypeOK
<1>2. Absent \in ObjectType
  BY <1>1 DEF Absent, Object, ObjectType, Phases
<1>3. CASE Deliver
  <2>1. Copy(api) \in ObjectType
    BY DEF Copy, TypeOK, ObjectType, Phases
  <2>2. Enqueues(lister, api) \in BOOLEAN /\ OptsOut(lister, api) \in BOOLEAN
    BY DEF Enqueues, OptsOut
  <2> QED BY <1>3, <2>1, <2>2 DEF Deliver, TypeOK, ObjectType
<1>4. CASE DeliverDelete
  BY <1>2, <1>4 DEF DeliverDelete, TypeOK, ObjectType
<1>5. CASE RemoveFinalizer
  <2>1. api' \in {api, WithoutFinalizer} /\ optOut' = FALSE
    BY <1>5 DEF RemoveFinalizer
  <2>2. UNCHANGED <<lister, sync, jobs, cluster, limits, ghosts>>
    BY <1>5 DEF RemoveFinalizer
  <2>3. {api', lister'} \subseteq ObjectType
    BY <2>1, <2>2, WithoutFinalizerType DEF TypeOK, ObjectType
  <2> QED BY <2>1, <2>2, <2>3 DEF TypeOK, ObjectType
<1>6. CASE DeliverTombstone
  BY <1>1, <1>2, <1>6 DEF DeliverTombstone, TypeOK, ObjectType, Losses
<1>7. CASE OptOutFails
  <2>1. faults' \in 0 .. plan.faults
    BY <1>1, <1>7 DEF OptOutFails, TypeOK
  <2> QED BY <1>7, <2>1 DEF OptOutFails, TypeOK
<1>8. CASE Resync
  BY <1>8 DEF Resync, TypeOK
<1> QED BY <1>3, <1>4, <1>5, <1>6, <1>7, <1>8 DEF Informer

LEMMA SyncType ==
  ASSUME TypeOK, GetKey \/ NotFound \/ CallFails \/ SetPhaseInitializing \/ Store \/ AddFinalizer
  PROVE  TypeOK'
<1>1. plan.faults \in Nat
  BY PlansAssumption DEF TypeOK
<1>2. NoWork \in [interval : Nat, adds : BOOLEAN]
  BY DEF NoWork
<1>3. ASSUME SyncFails, faults' \in 0 .. plan.faults PROVE TypeOK'
  BY <1>2, <1>3 DEF SyncFails, Done, TypeOK, Losses
<1>4. CASE GetKey
  <2>1. lister.spec.interval \in Nat /\ lister.spec.revert \in BOOLEAN
    BY SpecType DEF TypeOK
  <2>2. /\ wcd' \in [interval : Nat, adds : BOOLEAN]
        /\ worker' \in Finalization \cup {"idle", "initializing", "store", "addFinalizer"}
        /\ lost' \subseteq Losses
    BY <1>2, <1>4, <2>1 DEF GetKey, Done, TypeOK, Losses, Finalization
  <2> QED BY <1>4, <2>2 DEF GetKey, TypeOK
<1>5. CASE NotFound
  BY <1>3, <1>5 DEF NotFound, TypeOK
<1>6. CASE CallFails
  BY <1>1, <1>3, <1>6 DEF CallFails, TypeOK
<1>7. CASE SetPhaseInitializing
  BY <1>7 DEF SetPhaseInitializing, Step, TypeOK, Phases
<1>8. CASE Store
  BY <1>2, <1>8 DEF Store, Done, TypeOK, Losses
<1>9. CASE AddFinalizer
  <2>4. api \in ObjectType /\ lister \in ObjectType
    BY DEF TypeOK, ObjectType
  <2>5. (api.fin \/ ~api.deleting) \in BOOLEAN
    BY <2>4 DEF ObjectType
  <2>6. api' \in ObjectType
    BY <1>9, <2>4, <2>5 DEF AddFinalizer, ObjectType
  <2>1. {api', lister'} \subseteq ObjectType /\ plan' = plan
    BY <1>9, <2>4, <2>6 DEF AddFinalizer, ObjectType
  <2>2. worker' = "idle" /\ wcd' = NoWork
    BY <1>9 DEF AddFinalizer, Done
  <2>3. UNCHANGED <<optOut, queued, jobs, cluster, limits, ghosts>> /\ entry' = entry
    BY <1>9 DEF AddFinalizer
  <2> QED BY <1>2, <2>1, <2>2, <2>3 DEF TypeOK, ObjectType
<1> QED BY <1>4, <1>5, <1>6, <1>7, <1>8, <1>9

LEMMA FinalizeType ==
  ASSUME TypeOK,
         \/ FinalizeGet \/ SetPhaseTerminating \/ FinalizeTarget \/ FinalizeApex
         \/ FinalizeMesh \/ FinalizeRemove
  PROVE  TypeOK'
<1>1. NoWork \in [interval : Nat, adds : BOOLEAN]
  BY DEF NoWork
<1>2. CASE FinalizeGet
  BY <1>2 DEF FinalizeGet, Step, TypeOK, Finalization
<1>3. CASE SetPhaseTerminating
  BY <1>3 DEF SetPhaseTerminating, Step, TypeOK, Finalization, Phases
<1>4. CASE FinalizeTarget
  BY <1>1, <1>4 DEF FinalizeTarget, Done, TypeOK, Finalization
<1>5. CASE FinalizeApex
  BY <1>5 DEF FinalizeApex, Step, TypeOK, Finalization
<1>6. CASE FinalizeMesh
  BY <1>6 DEF FinalizeMesh, Step, TypeOK, Finalization
<1>7. CASE FinalizeRemove
  <2>4. {api', lister'} \subseteq ObjectType /\ plan' = plan
    BY <1>7, WithoutFinalizerType DEF FinalizeRemove, TypeOK, ObjectType
  <2>5. undone' = {} /\ worker' = "idle" /\ wcd' = NoWork
    BY <1>7 DEF FinalizeRemove, Done
  <2>6. UNCHANGED <<optOut, queued, entry, jobs, cluster, creates, edits, faults, lost>>
    BY <1>7 DEF FinalizeRemove
  <2> QED BY <1>1, <2>4, <2>5, <2>6 DEF TypeOK, ObjectType
<1> QED BY <1>2, <1>3, <1>4, <1>5, <1>6, <1>7

LEMMA ScheduleType ==
  ASSUME TypeOK, Schedule
  PROVE  TypeOK'
<1>1. PICK ticked \in BOOLEAN :
        LET rs == StopJob(runs, job.run, ticked)
        IN IF entry # 0 THEN StartJob(rs) ELSE job' = NoJob /\ runs' = rs
  BY DEF Schedule
<1> DEFINE rs == StopJob(runs, job.run, ticked)
<1>2. rs \in [Runs -> RunType]
  <2>1. runs \in [Runs -> RunType]
    BY DEF TypeOK, RunType
  <2>2. ASSUME NEW x \in RunType PROVE [[x EXCEPT !.stopped = TRUE] EXCEPT !.ticked = ticked] \in RunType
    BY DEF RunType
  <2>3. CASE job.run = 0
    BY <2>1, <2>3 DEF StopJob
  <2>4. CASE job.run # 0
    <3>1. rs = [[runs EXCEPT ![job.run].stopped = TRUE] EXCEPT ![job.run].ticked = ticked]
      BY <2>4 DEF StopJob
    <3>2. [runs EXCEPT ![job.run].stopped = TRUE] \in [Runs -> RunType]
      BY <2>1 DEF RunType
    <3>3. PICK f \in [Runs -> RunType] : rs = [f EXCEPT ![job.run].ticked = ticked]
      BY <3>1, <3>2
    <3> HIDE DEF rs
    <3> QED BY <3>3 DEF RunType
  <2> QED BY <2>3, <2>4
<1>3. runs' \in [Runs -> RunType] /\ job' \in [run : Runs \cup {0}, interval : Nat]
  <2>1. CASE entry # 0
    <3>1. StartJob(rs) BY <1>1, <2>1
    <3>2. PICK r \in Runs : /\ runs' = [rs EXCEPT ![r] = [Idle EXCEPT !.pc = "start"]]
                            /\ job' = [run |-> r, interval |-> entry]
      BY <3>1 DEF StartJob
    <3> HIDE DEF rs
    <3>3. [Idle EXCEPT !.pc = "start"] \in RunType
      BY DEF Idle, RunType
    <3> QED BY <1>2, <3>2, <3>3 DEF TypeOK
  <2>2. CASE entry = 0
    <3>1. job' = NoJob /\ runs' = rs BY <1>1, <2>2
    <3> QED BY <1>2, <3>1 DEF NoJob
  <2> QED BY <2>1, <2>2
<1> QED BY <1>3 DEF Schedule, TypeOK, RunType

\* A goroutine goes on to another call of its tick.
LEMMA SetType ==
  ASSUME runs \in [Runs -> RunType], NEW r \in Runs,
         NEW pc \in {"off", "wait", "start", "initialize", "reconcile", "scaleDown", "takeOver",
                     "mesh", "scaleToZero", "setRunning"},
         Set(r, pc)
  PROVE  runs' \in [Runs -> RunType]
BY DEF Set, RunType

LEMMA RunTypeKept ==
  ASSUME TypeOK, NEW r \in Runs, Run(r) \/ Abort(r)
  PROVE  TypeOK'
<1>1. plan.faults \in Nat
  BY PlansAssumption DEF TypeOK
<1>2. ASSUME NEW resource \in {"target", "apex", "mesh"}, Undo(resource)
      PROVE  undone' \subseteq {"target", "apex", "mesh"}
  BY <1>2 DEF Undo, TypeOK
<1>3. runs \in [Runs -> RunType]
  BY DEF TypeOK, RunType
<1> DEFINE Kept ==
  /\ plan' = plan /\ lister' = lister /\ wcd' = wcd /\ optOut' = optOut /\ queued' = queued
  /\ worker' = worker /\ entry' = entry /\ job' = job /\ creates' = creates /\ edits' = edits
  /\ lost' = lost
<1>4. ASSUME Kept, runs' \in [Runs -> RunType], api' = api \/ api' = [api EXCEPT !.phase = "Running"],
             target' \in BOOLEAN, primary' \in BOOLEAN, {apex', mesh'} \subseteq {"target", "primary"},
             undone' \subseteq {"target", "apex", "mesh"}, faults' \in 0 .. plan.faults
      PROVE  TypeOK'
  <2>1. {api', lister'} \subseteq ObjectType
    BY <1>4 DEF TypeOK, ObjectType, Phases
  <2>2. runs' \in [Runs -> RunType] /\ plan' = plan
    BY <1>4
  <2> QED BY <1>4, <2>1, <2>2 DEF TypeOK, ObjectType, RunType
<1>5. CASE GetCanary(r)
  <2>1. PICK pc \in {"wait", "initialize", "reconcile"}, ticked \in BOOLEAN :
          runs' = [runs EXCEPT ![r].pc = pc, ![r].ticked = ticked]
    <3>1. runs[r].ticked \in BOOLEAN
      BY <1>3 DEF RunType
    <3>2. (runs[r].ticked /\ Tick(r, "start")) \in BOOLEAN
      BY <3>1
    <3> QED BY <1>5, <3>2 DEF GetCanary
  <2>2. PICK f \in [Runs -> RunType] : f = [runs EXCEPT ![r].pc = pc]
    BY <1>3 DEF RunType
  <2>3. runs' = [f EXCEPT ![r].ticked = ticked]
    BY <1>3, <2>1, <2>2 DEF RunType
  <2>4. runs' \in [Runs -> RunType]
    BY <2>3 DEF RunType
  <2> QED BY <1>4, <1>5, <2>4 DEF GetCanary, TypeOK
<1>6. CASE EndJob(r)
  <2>1. runs' \in [Runs -> RunType]
    BY <1>3, <1>6 DEF EndJob, Idle, RunType
  <2> QED BY <1>4, <1>6, <2>1 DEF EndJob, TypeOK
<1>7. CASE Bootstrap(r)
  <2>1. runs' \in [Runs -> RunType]
    BY <1>3, <1>7, SetType DEF Bootstrap
  <2> QED BY <1>2, <1>4, <1>7, <2>1 DEF Bootstrap, TypeOK
<1>8. CASE ScaleDown(r)
  <2>1. runs' \in [Runs -> RunType]
    BY <1>3, <1>8, SetType DEF ScaleDown
  <2> QED BY <1>2, <1>4, <1>8, <2>1 DEF ScaleDown, TypeOK
<1>9. CASE ReconcileMesh(r)
  <2>1. runs' \in [Runs -> RunType]
    BY <1>3, <1>9, SetType DEF ReconcileMesh, Return
  <2> QED BY <1>2, <1>4, <1>9, <2>1 DEF ReconcileMesh, TypeOK
<1>10. CASE ScaleToZero(r)
  <2>1. runs' \in [Runs -> RunType]
    BY <1>3, <1>10, SetType DEF ScaleToZero
  <2> QED BY <1>2, <1>4, <1>10, <2>1 DEF ScaleToZero, TypeOK
<1>11. CASE SetPhase(r)
  <2>1. runs' \in [Runs -> RunType]
    BY <1>3, <1>11, SetType DEF SetPhase, Return
  <2> QED BY <1>4, <1>11, <2>1 DEF SetPhase, TypeOK
<1>12. CASE Abort(r)
  <2>1. runs' \in [Runs -> RunType]
    BY <1>3, <1>12, SetType DEF Abort, Return
  <2>2. faults' \in 0 .. plan.faults
    BY <1>1, <1>12 DEF Abort, TypeOK
  <2> QED BY <1>4, <1>12, <2>1, <2>2 DEF Abort, TypeOK
<1> QED BY <1>5, <1>6, <1>7, <1>8, <1>9, <1>10, <1>11, <1>12 DEF Run

LEMMA RestartType ==
  ASSUME TypeOK, Restart
  PROVE  TypeOK'
<1>1. plan.creates \in Nat /\ plan.faults \in Nat
  BY PlansAssumption DEF TypeOK
<1>2. Absent \in ObjectType
  BY <1>1 DEF Absent, Object, ObjectType, Phases
<1>3. runs' \in [Runs -> RunType]
  BY DEF Restart, Idle, RunType
<1>4. {api', lister'} \subseteq ObjectType
  BY <1>2 DEF Restart, TypeOK, ObjectType
<1>5. faults' \in 0 .. plan.faults
  BY <1>1 DEF Restart, TypeOK
<1>6. wcd' \in [interval : Nat, adds : BOOLEAN] /\ job' \in [run : Runs \cup {0}, interval : Nat]
  BY DEF Restart, NoWork, NoJob
<1> QED BY <1>3, <1>4, <1>5, <1>6 DEF Restart, TypeOK, ObjectType, RunType

LEMMA NextType == TypeOK /\ [Next]_vars => TypeOK'
<1> SUFFICES ASSUME TypeOK, [Next]_vars PROVE TypeOK' OBVIOUS
<1>1. CASE UNCHANGED vars
  BY <1>1 DEF vars, TypeOK
<1>2. CASE Next
  BY <1>2, UserType, InformerType, SyncType, FinalizeType, ScheduleType, RunTypeKept, RestartType
     DEF Next, Fault, Worker
<1> QED BY <1>1, <1>2

\* Every variable of the controller keeps its type; in particular a canary's phase is
\* one of the CanaryPhase constants, whoever writes it last.
THEOREM TypeCorrect == Spec => []TypeOK
BY InitType, NextType, PTL DEF Spec

------------------------------------------------------------------------------
\* One job.

Live(r) == runs[r].pc # "off" /\ ~runs[r].stopped

JobsType == runs \in [Runs -> RunType] /\ job \in [run : Runs \cup {0}, interval : Nat]

LEMMA TypeGivesJobs == TypeOK => JobsType
BY DEF TypeOK, JobsType, RunType

LEMMA OneJobIs ==
  ASSUME JobsType
  PROVE  OneJob <=> \A r \in Runs : Live(r) <=> r = job.run
BY RunsAssumption DEF OneJob, Live, JobsType

LEMMA OneJobIsAfter ==
  ASSUME JobsType', \A r \in Runs : Live(r)' <=> r = job'.run
  PROVE  OneJob'
BY RunsAssumption DEF OneJob, Live, JobsType

\* A tick of a job, its start or its end: whoever was live still is.
LEMMA TickKeepsOneJob ==
  ASSUME JobsType, OneJob, NEW r \in Runs, Run(r) \/ Abort(r), JobsType'
  PROVE  OneJob'
<1>1. job' = job
  BY DEF Run, GetCanary, EndJob, Bootstrap, ScaleDown, ReconcileMesh, ScaleToZero, SetPhase, Abort
<1>2. ASSUME NEW pc \in {"wait", "scaleDown", "mesh", "takeOver", "setRunning", "scaleToZero"},
             Set(r, pc), runs[r].pc # "off"
      PROVE  \A q \in Runs : Live(q)' <=> Live(q)
  BY <1>2 DEF Set, Live, JobsType, RunType
<1>3. \A q \in Runs : Live(q)' <=> Live(q)
  <2>1. CASE GetCanary(r)
    BY <2>1 DEF GetCanary, Tick, Live, JobsType, RunType
  <2>2. CASE EndJob(r)
    BY <2>2 DEF EndJob, Tick, Idle, Live, JobsType, RunType
  <2>3. CASE Bootstrap(r)
    BY <1>2, <2>3 DEF Bootstrap, Tick
  <2>4. CASE ScaleDown(r)
    BY <1>2, <2>4 DEF ScaleDown, Tick
  <2>5. CASE ReconcileMesh(r)
    BY <1>2, <2>5 DEF ReconcileMesh, Tick, Return
  <2>6. CASE ScaleToZero(r)
    BY <1>2, <2>6 DEF ScaleToZero, Tick
  <2>7. CASE SetPhase(r)
    BY <1>2, <2>7 DEF SetPhase, Tick, Return
  <2>8. CASE Abort(r)
    BY <1>2, <2>8 DEF Abort, Return, Ticking
  <2> QED BY <2>1, <2>2, <2>3, <2>4, <2>5, <2>6, <2>7, <2>8 DEF Run
<1>4. \A q \in Runs : Live(q) <=> q = job.run
  BY OneJobIs
<1>5. \A q \in Runs : Live(q)' <=> q = job'.run
  BY <1>1, <1>3, <1>4
<1> QED BY <1>5, OneJobIsAfter

\* scheduleCanaries: the job it replaces is stopped, the one it starts is not.
LEMMA ScheduleKeepsOneJob ==
  ASSUME JobsType, OneJob, Schedule, JobsType'
  PROVE  OneJob'
<1>1. PICK ticked \in BOOLEAN :
        LET rs == StopJob(runs, job.run, ticked)
        IN IF entry # 0 THEN StartJob(rs) ELSE job' = NoJob /\ runs' = rs
  BY DEF Schedule
<1> DEFINE rs == StopJob(runs, job.run, ticked)
<1>2. rs \in [Runs -> RunType] /\ \A q \in Runs : rs[q].pc = runs[q].pc
  <2>1. CASE job.run = 0
    BY <2>1 DEF StopJob, JobsType
  <2>2. CASE job.run # 0
    <3>3. rs = [[runs EXCEPT ![job.run].stopped = TRUE] EXCEPT ![job.run].ticked = ticked]
      BY <2>2 DEF StopJob
    <3>4. [runs EXCEPT ![job.run].stopped = TRUE] \in [Runs -> RunType]
      BY DEF JobsType, RunType
    <3>1. PICK f \in [Runs -> RunType] : /\ f = [runs EXCEPT ![job.run].stopped = TRUE]
                                         /\ rs = [f EXCEPT ![job.run].ticked = ticked]
      BY <3>3, <3>4
    <3>2. \A q \in Runs : f[q].pc = runs[q].pc
      BY <3>1 DEF JobsType, RunType
    <3> HIDE DEF rs
    <3> QED BY <3>1, <3>2 DEF RunType
  <2> QED BY <2>1, <2>2
<1>3. \A q \in Runs : rs[q].pc = "off" \/ rs[q].stopped
  <2>1. CASE job.run = 0
    BY <2>1, OneJobIs, RunsAssumption DEF StopJob, Live
  <2>2. CASE job.run # 0
    <3>1. rs = [[runs EXCEPT ![job.run].stopped = TRUE] EXCEPT ![job.run].ticked = ticked]
      BY <2>2 DEF StopJob
    <3>4. [runs EXCEPT ![job.run].stopped = TRUE] \in [Runs -> RunType]
      BY DEF JobsType, RunType
    <3>2. PICK f \in [Runs -> RunType] : /\ f = [runs EXCEPT ![job.run].stopped = TRUE]
                                         /\ rs = [f EXCEPT ![job.run].ticked = ticked]
      BY <3>1, <3>4
    <3>3. \A q \in Runs : f[q].pc = "off" \/ f[q].stopped
      BY <3>2, OneJobIs DEF Live, JobsType, RunType
    <3> HIDE DEF rs
    <3> QED BY <3>2, <3>3 DEF RunType
  <2> QED BY <2>1, <2>2
<1>4. CASE entry = 0
  <2>1. job'.run = 0 /\ runs' = rs BY <1>1, <1>4 DEF NoJob
  <2>2. \A q \in Runs : ~Live(q)' BY <1>3, <2>1 DEF Live
  <2>3. \A q \in Runs : Live(q)' <=> q = job'.run BY <2>1, <2>2, RunsAssumption
  <2> QED BY <2>3, OneJobIsAfter
<1>5. CASE entry # 0
  <2>1. PICK r \in Runs : /\ rs[r].pc = "off"
                          /\ runs' = [rs EXCEPT ![r] = [Idle EXCEPT !.pc = "start"]]
                          /\ job' = [run |-> r, interval |-> entry]
    BY <1>1, <1>5 DEF StartJob
  <2> HIDE DEF rs
  <2>2. \A q \in Runs : Live(q)' <=> q = r
    BY <1>2, <1>3, <2>1 DEF Live, Idle
  <2>3. \A q \in Runs : Live(q)' <=> q = job'.run BY <2>1, <2>2
  <2> QED BY <2>3, OneJobIsAfter
<1> QED BY <1>4, <1>5

LEMMA NextOneJob ==
  ASSUME TypeOK, TypeOK', OneJob, [Next]_vars
  PROVE  OneJob'
<1> USE TypeGivesJobs
<1>1. JobsType'
  BY DEF TypeOK, JobsType, RunType
<1>2. CASE UNCHANGED jobs
  BY <1>2 DEF OneJob
<1>3. CASE Schedule
  BY <1>1, <1>3, ScheduleKeepsOneJob
<1>4. ASSUME NEW r \in Runs, Run(r) \/ Abort(r) PROVE OneJob'
  BY <1>1, <1>4, TickKeepsOneJob
<1>5. CASE Restart
  BY <1>5, RunsAssumption DEF Restart, OneJob, Idle, NoJob
<1>6. CASE DeliverDelete \/ Store
  BY <1>6 DEF DeliverDelete, Store, OneJob
<1>7. ASSUME User \/ Deliver \/ RemoveFinalizer \/ Resync \/ CollectGarbage \/ DeliverTombstone
             \/ OptOutFails
      PROVE  UNCHANGED jobs
  BY <1>7 DEF User, Create, EditSpec, Delete, Deliver, RemoveFinalizer, Resync, CollectGarbage,
              DeliverTombstone, OptOutFails
<1>8. ASSUME CallFails \/ GetKey \/ NotFound \/ SetPhaseInitializing \/ AddFinalizer
             \/ FinalizeGet \/ SetPhaseTerminating \/ FinalizeTarget \/ FinalizeApex \/ FinalizeMesh
             \/ FinalizeRemove
      PROVE  UNCHANGED jobs
  BY <1>8 DEF CallFails, SyncFails, GetKey, NotFound, SetPhaseInitializing, AddFinalizer,
              FinalizeGet, SetPhaseTerminating, FinalizeTarget, FinalizeApex, FinalizeMesh, FinalizeRemove
<1>9. CASE UNCHANGED vars
  BY <1>2, <1>9 DEF vars
<1> QED BY <1>2, <1>3, <1>4, <1>5, <1>6, <1>7, <1>8, <1>9 DEF Next, Informer, Fault, Worker

\* However often the interval changes and the canary comes and goes, and whatever the
\* stopped goroutines still do, the job in the jobs map is the only one that goes on.
THEOREM OneJobAtATime == Spec => []OneJob
<1>1. Init => OneJob
  BY RunsAssumption DEF Init, OneJob, Idle, NoJob
<1>2. TypeOK /\ TypeOK' /\ OneJob /\ [Next]_vars => OneJob'
  BY NextOneJob
<1> QED BY <1>1, <1>2, TypeCorrect, PTL DEF Spec

------------------------------------------------------------------------------
\* Finalization.

\* What the worker has reverted by the time of its next call, ticks aside.
RevertInv ==
  /\ worker \in {"apex", "mesh", "removeFinalizer"} => target \/ "target" \in undone
  /\ worker \in {"mesh", "removeFinalizer"} => apex = "target" \/ "apex" \in undone
  /\ worker = "removeFinalizer" => mesh = "target" \/ "mesh" \in undone

LEMMA NextRevert ==
  ASSUME RevertInv, [Next]_vars
  PROVE  RevertInv'
<1>1. ASSUME UNCHANGED <<worker, target, apex, mesh, undone>> PROVE RevertInv'
  BY <1>1 DEF RevertInv
<1>2. CASE User \/ Informer \/ DeliverTombstone \/ OptOutFails \/ Resync \/ CollectGarbage \/ Schedule
           \/ UNCHANGED vars
  BY <1>1, <1>2 DEF User, Create, EditSpec, Delete, Informer, Deliver, DeliverDelete, RemoveFinalizer,
                    Resync, CollectGarbage, DeliverTombstone, OptOutFails, Schedule, vars
<1>3. CASE CallFails \/ NotFound \/ GetKey \/ SetPhaseInitializing \/ Store \/ AddFinalizer \/ Restart
  BY <1>3 DEF CallFails, NotFound, SyncFails, GetKey, SetPhaseInitializing, Store, AddFinalizer,
              Restart, Done, Step, RevertInv
<1>4. CASE FinalizeGet \/ SetPhaseTerminating \/ FinalizeTarget \/ FinalizeRemove
  BY <1>4 DEF FinalizeGet, SetPhaseTerminating, FinalizeTarget, FinalizeRemove, Done, Step, RevertInv
<1>5. CASE FinalizeApex \/ FinalizeMesh
  BY <1>5 DEF FinalizeApex, FinalizeMesh, Step, RevertInv
<1>6. ASSUME NEW r \in Runs, Bootstrap(r) PROVE RevertInv'
  BY <1>6 DEF Bootstrap, Undo, Finalization, RevertInv
<1>7. ASSUME NEW r \in Runs, ScaleDown(r) \/ ScaleToZero(r) PROVE RevertInv'
  BY <1>7 DEF ScaleDown, ScaleToZero, Undo, Finalization, RevertInv
<1>8. ASSUME NEW r \in Runs, ReconcileMesh(r) PROVE RevertInv'
  BY <1>8 DEF ReconcileMesh, Undo, Finalization, RevertInv
<1>9. ASSUME NEW r \in Runs, GetCanary(r) \/ EndJob(r) \/ SetPhase(r) \/ Abort(r) PROVE RevertInv'
  BY <1>1, <1>9 DEF GetCanary, EndJob, SetPhase, Abort
<1> QED BY <1>2, <1>3, <1>4, <1>5, <1>6, <1>7, <1>8, <1>9 DEF Next, Fault, Worker, Run

\* A canary that goes at the end of its finalization leaves the target with replicas,
\* selected by the apex service and routed to by the mesh, wherever its own job's
\* ticks did not write over that.
THEOREM FinalizedIsReverted == Spec => Reverted
<1>1. Init => RevertInv
  BY DEF Init, RevertInv
<1>2. RevertInv /\ [Next]_vars => RevertInv'
  BY NextRevert
<1>3. RevertInv => (worker = "removeFinalizer" /\ Present /\ api' = Absent =>
                     /\ target \/ "target" \in undone
                     /\ apex = "target" \/ "apex" \in undone
                     /\ mesh = "target" \/ "mesh" \in undone)
  BY DEF RevertInv
<1> QED BY <1>1, <1>2, <1>3, PTL DEF Spec, Reverted
================================================================================
