------------------------------ MODULE Controller ------------------------------
(***************************************************************************)
(* The controller around advanceCanary, for one Canary name: the informer  *)
(* and its handlers, the work queue and syncHandler (controller.go), the   *)
(* finalizer (finalizer.go), the map of canaries with the jobs made from   *)
(* it (scheduleCanaries, job.go), and the ticks those jobs run.            *)
(*                                                                         *)
(* Four kinds of actor work on the canary at once and share nothing but    *)
(* the API server, the map and the cluster: the informer's goroutine, the  *)
(* one worker that holds the canary's key, the scheduler's loop, and the   *)
(* goroutine of every job that has not ended.  Each call to the API server *)
(* is an action.  The worker acts on the copy it got from the lister (wcd),*)
(* which may be older than the object, a tick on the phase it read.        *)
(*                                                                         *)
(* A tick is the one of module Scheduler reduced to what it does to the    *)
(* resources finalize reverts: it creates the primary, points the apex     *)
(* service and the mesh to it, scales the target to zero, and writes the   *)
(* phase; the course of a rollout in between is left out.  All status and  *)
(* finalizer writes retry a conflict on a fresh copy, so they land on the  *)
(* object there is, whatever copy they started from.                       *)
(***************************************************************************)
EXTENDS Integers, FiniteSets

CONSTANTS
  Plans,         \* what users and faults do in a behaviour, see PlansAssumption
  Runs           \* goroutines of jobs that may exist at the same time

\* What the controller reads of a Canary's spec: revertOnDeletion, the analysis
\* interval, and whether verifyCanary accepts it.
CanarySpecs == [revert : BOOLEAN, interval : Nat \ {0}, valid : BOOLEAN]

\* The specs users write, whether the target has replicas before the first canary
\* (an earlier one, deleted without a revert, leaves it without), how often a canary
\* of this name is created, and bounds on the edits and deletions and on failed
\* calls, restarts and watch gaps.
ASSUME PlansAssumption ==
  \A p \in Plans :
    /\ p.specs \subseteq CanarySpecs
    /\ p.up \in BOOLEAN
    /\ p.creates \in Nat /\ p.edits \in Nat /\ p.faults \in Nat

ASSUME RunsAssumption == IsFiniteSet(Runs) /\ 0 \notin Runs

VARIABLES
  plan,      \* the plan of this behaviour
  api,       \* the Canary at the API server, Absent when there is none
  lister,    \* the informer's copy of it
  optOut,    \* UpdateFunc is about to remove the finalizer of a canary that opted out
  queued,    \* whether the work queue holds the canary's key
  worker,    \* the next call of syncHandler, "idle" between keys
  wcd,       \* what syncHandler still needs of the copy it got from the lister
  entry,     \* Controller.canaries: the stored copy's interval, 0 without an entry
  job,       \* Controller.jobs: the goroutine and its interval, NoJob without one
  runs,      \* the goroutines, see Idle
  target,    \* whether the target has replicas
  primary,   \* whether the -primary workload exists
  apex,      \* what the apex Service selects: "target" or "primary"
  mesh,      \* where the mesh routes: "target" or "primary"
  creates, edits, faults,    \* what became of the plan so far
  undone,    \* history: what ticks wrote since the running finalization wrote it
  lost       \* history: ways the controller lost track of the canary, of Losses

\* "dropped": syncHandler failed before it stored the canary; "tombstone":
\* DeleteFunc got a cache.DeletedFinalStateUnknown, which it ignores; "late":
\* syncHandler stored a canary that DeleteFunc had removed.
Losses == {"dropped", "tombstone", "late"}

informer == <<lister, optOut>>
sync     == <<queued, worker, wcd>>
jobs     == <<entry, job, runs>>
cluster  == <<target, primary, apex, mesh>>
limits   == <<plan, creates, edits, faults>>
ghosts   == <<undone, lost>>
vars     == <<api, informer, sync, jobs, cluster, limits, ghosts>>

------------------------------------------------------------------------------
\* "Running" stands for every phase from Initialized to Failed.
Phases == {"None", "Initializing", "Running", "Terminating"}

Initialising(phase) == phase \in {"None", "Initializing"}

NoSpec == [revert |-> FALSE, interval |-> 0, valid |-> TRUE]

Object(uid, spec) ==
  [uid |-> uid, spec |-> spec, phase |-> "None", fin |-> FALSE, deleting |-> FALSE]

Absent  == Object(0, NoSpec)
Present == api # Absent

NoJob == [run |-> 0, interval |-> 0]

\* What the handlers and syncHandler tell apart of a Canary they got from the
\* informer: phases other than None (no conditions yet) and Terminating do not matter.
Copy(c) ==
  [c EXCEPT !.phase = IF c.phase \in {"None", "Terminating"} THEN c.phase ELSE "Running"]

\* What is left to do with the copy: the entry to store, and whether to add a finalizer.
NoWork == [interval |-> 0, adds |-> FALSE]

\* A goroutine: the next call of its tick ("wait": in the select of Start, "off":
\* ended), whether Stop was called, and whether its ticker's channel held a tick then.
Idle == [pc |-> "off", stopped |-> FALSE, ticked |-> FALSE]

Ticking == {r \in Runs : runs[r].pc \notin {"off", "wait"}}

------------------------------------------------------------------------------
\* Users, and the API server's own part.

Init ==
  /\ plan \in Plans
  /\ api = Absent /\ lister = Absent /\ wcd = NoWork
  /\ optOut = FALSE /\ queued = FALSE /\ worker = "idle"
  /\ entry = 0 /\ job = NoJob /\ runs = [r \in Runs |-> Idle]
  /\ target = plan.up /\ primary = FALSE /\ apex = "target" /\ mesh = "target"
  /\ creates = 0 /\ edits = 0 /\ faults = 0
  /\ undone = {} /\ lost = {}

\* The apex service and the mesh object are the user's own: they exist before
\* the canary and outlive it.
Create ==
  /\ ~Present
  /\ creates < plan.creates
  /\ creates' = creates + 1
  /\ \E s \in plan.specs : s.valid /\ api' = Object(creates + 1, s)
  /\ UNCHANGED <<informer, sync, jobs, cluster, plan, edits, faults, ghosts>>

EditSpec ==
  /\ Present
  /\ edits < plan.edits
  /\ \E s \in plan.specs \ {api.spec} : api' = [api EXCEPT !.spec = s]
  /\ edits' = edits + 1
  /\ UNCHANGED <<informer, sync, jobs, cluster, plan, creates, faults, ghosts>>

\* Without finalizers the object goes at once.
Delete ==
  /\ Present
  /\ ~api.deleting
  /\ edits < plan.edits
  /\ api' = IF api.fin THEN [api EXCEPT !.deleting = TRUE] ELSE Absent
  /\ edits' = edits + 1
  /\ UNCHANGED <<informer, sync, jobs, cluster, plan, creates, faults, ghosts>>

\* The canary owns the primary, which the garbage collector removes after it.
CollectGarbage ==
  /\ ~Present
  /\ primary
  /\ primary' = FALSE
  /\ UNCHANGED <<api, informer, sync, jobs, target, apex, mesh, limits, ghosts>>

------------------------------------------------------------------------------
\* The informer and its handlers.

Fetched(c) == c # Absent

\* Mutant: the resync passes a canary by that is being deleted.
DeafToDeletion(old, new) ==
  \/ ~Fetched(old)
  \/ old.spec # new.spec
  \/ ~new.fin /\ new.spec.revert

\* Mutant: the resync passes a canary by that opted in.
DeafToOptIn(old, new) ==
  \/ ~Fetched(old)
  \/ old.spec # new.spec
  \/ new.deleting /\ new.fin

\* AddFunc enqueues every canary, UpdateFunc one whose spec changed, one to
\* finalize, and one that opted in and has no finalizer yet.
Enqueues(old, new) ==
  \/ ~Fetched(old)
  \/ old.spec # new.spec
  \/ new.deleting /\ new.fin
  \/ ~new.fin /\ new.spec.revert

OptsOut(old, new) == Fetched(old) /\ old.spec.revert /\ ~new.spec.revert

\* The watch brings the lister up to date; events in between have been delivered
\* earlier or are skipped by a relist.
Deliver ==
  /\ Present
  /\ lister # Copy(api)
  /\ ~Fetched(lister) \/ lister.uid = api.uid
  /\ ~optOut
  /\ lister' = Copy(api)
  /\ queued' = (queued \/ Enqueues(lister, api))
  /\ optOut' = OptsOut(lister, api)
  /\ UNCHANGED <<api, worker, wcd, jobs, cluster, limits, ghosts>>

\* Mutant: DeleteFunc leaves the canary in the map.
ForgetfulDeliverDelete ==
  /\ Fetched(lister)
  /\ lister.uid # api.uid
  /\ ~optOut
  /\ lister' = Absent
  /\ lost' = lost \ {"late"}
  /\ UNCHANGED <<api, optOut, sync, jobs, cluster, limits, undone>>

\* DeleteFunc takes the canary out of the map, which ends its job at the next
\* round of the scheduler.
DeliverDelete ==
  /\ Fetched(lister)
  /\ lister.uid # api.uid
  /\ ~optOut
  /\ lister' = Absent
  /\ entry' = 0
  /\ lost' = {}
  /\ UNCHANGED <<api, optOut, sync, job, runs, cluster, limits, undone>>

\* A deletion the watch missed: the relist hands DeleteFunc a tombstone, which is
\* not a *Canary.
DeliverTombstone ==
  /\ Fetched(lister)
  /\ ~Present
  /\ ~optOut
  /\ faults < plan.faults
  /\ lister' = Absent
  /\ lost' = lost \cup {"tombstone"}
  /\ faults' = faults + 1
  /\ UNCHANGED <<api, optOut, sync, jobs, cluster, plan, creates, edits, undone>>

\* The informer's resync, every 30 seconds: UpdateFunc with twice the same object.
Resync ==
  /\ Fetched(lister)
  /\ ~optOut
  /\ ~queued
  /\ Enqueues(lister, lister)
  /\ queued' = TRUE
  /\ UNCHANGED <<api, informer, worker, wcd, jobs, cluster, limits, ghosts>>

\* removeFinalizer, called by UpdateFunc or at the end of a finalization.  Only
\* this finalizer holds a deleted canary back.
WithoutFinalizer ==
  IF api.deleting THEN Absent ELSE [api EXCEPT !.fin = FALSE]

\* UpdateFunc of a canary that opted out.  A failure is only logged.
RemoveFinalizer ==
  /\ optOut
  /\ optOut' = FALSE
  /\ api' = IF Present THEN WithoutFinalizer ELSE api
  /\ UNCHANGED <<lister, sync, jobs, cluster, limits, ghosts>>

OptOutFails ==
  /\ optOut
  /\ faults < plan.faults
  /\ optOut' = FALSE
  /\ faults' = faults + 1
  /\ UNCHANGED <<api, lister, sync, jobs, cluster, plan, creates, edits, ghosts>>

------------------------------------------------------------------------------
\* syncHandler.

Finalization == {"get", "getAgain", "terminating", "target", "apex", "mesh", "removeFinalizer"}

Step(label, next) == worker = label /\ worker' = next

\* The key is done: it is not queued again, whatever came of it.
Done == worker' = "idle" /\ wcd' = NoWork

\* The worker takes the key; a canary the lister lost meanwhile, or one whose
\* finalizer is gone already, is done with at once.
GetKey ==
  /\ queued
  /\ worker = "idle"
  /\ queued' = FALSE
  /\ \/ /\ lister.spec.valid
        /\ Fetched(lister) => lister.spec.revert /\ lister.deleting /\ ~lister.fin
        /\ Done
        /\ UNCHANGED lost
     \/ /\ Fetched(lister)
        /\ ~lister.spec.valid
        /\ Done
        /\ lost' = lost \cup {"dropped"}
     \/ /\ Fetched(lister)
        /\ lister.spec.valid
        /\ IF lister.spec.revert /\ lister.deleting
             THEN /\ lister.fin
                  /\ worker' = IF lister.phase = "Terminating" THEN "getAgain" ELSE "get"
                  /\ UNCHANGED wcd
             ELSE /\ worker' = IF lister.phase = "None" THEN "initializing" ELSE "store"
                  /\ wcd' = [interval |-> lister.spec.interval,
                             adds     |-> lister.spec.revert /\ ~lister.fin]
        /\ UNCHANGED lost
  /\ UNCHANGED <<api, informer, jobs, cluster, limits, undone>>

\* A call of the worker fails.  The key is not queued again: only another event
\* or, for some canaries, the resync brings it back.
SyncFails ==
  /\ worker # "idle"
  /\ Done
  /\ lost' = IF worker = "initializing" THEN lost \cup {"dropped"} ELSE lost
  /\ undone' = {}
  /\ UNCHANGED <<api, informer, queued, jobs, cluster, plan, creates, edits>>

CallFails ==
  /\ worker # "store"
  /\ faults < plan.faults
  /\ faults' = faults + 1
  /\ SyncFails

\* The object the call needs is gone.
NotFound ==
  /\ ~Present
  /\ worker \in {"initializing", "addFinalizer", "get", "getAgain", "terminating", "removeFinalizer"}
  /\ SyncFails
  /\ UNCHANGED faults

\* setPhaseInitializing: the copy has no conditions, the object may have: then a
\* conflict makes it look again, and only an object that is Initializing stays.
SetPhaseInitializing ==
  /\ Step("initializing", "store")
  /\ Present
  /\ api' = [api EXCEPT !.phase = "Initializing"]
  /\ UNCHANGED <<informer, queued, wcd, jobs, cluster, limits, ghosts>>

\* canaries.Store, even if DeleteFunc ran since the copy was taken.
Store ==
  /\ worker = "store"
  /\ entry' = wcd.interval
  /\ lost' = IF Fetched(lister) THEN {} ELSE {"late"}
  /\ IF wcd.adds THEN worker' = "addFinalizer" /\ wcd' = NoWork ELSE Done
  /\ UNCHANGED <<api, informer, queued, job, runs, cluster, limits, undone>>

\* addFinalizer asks only whether the finalizer is there, not whether the object
\* still wants to be reverted.  The API server adds none to a deleted object.
AddFinalizer ==
  /\ worker = "addFinalizer"
  /\ Present
  /\ api' = [api EXCEPT !.fin = api.fin \/ ~api.deleting]
  /\ Done
  /\ UNCHANGED <<informer, queued, jobs, cluster, limits, ghosts>>

------------------------------------------------------------------------------
\* finalize, and the removal of the finalizer that follows it.

FinalizeGet ==
  /\ Step("get", "terminating") \/ Step("getAgain", "target")
  /\ Present
  /\ undone' = {}
  /\ UNCHANGED <<api, informer, queued, wcd, jobs, cluster, limits, lost>>

\* Mutant: the phase that nothing in the controller expects.
SetPhaseTerminated ==
  /\ Step("terminating", "target")
  /\ Present
  /\ api' = [api EXCEPT !.phase = "Terminated"]
  /\ UNCHANGED <<informer, queued, wcd, jobs, cluster, limits, ghosts>>

SetPhaseTerminating ==
  /\ Step("terminating", "target")
  /\ Present
  /\ api' = [api EXCEPT !.phase = "Terminating"]
  /\ UNCHANGED <<informer, queued, wcd, jobs, cluster, limits, ghosts>>

\* canaryController.Finalize is ScaleFromZero: a target without replicas gets as
\* many as the primary has, and an error if there is no primary.  What follows,
\* the wait for the target to be ready and the selectors, reads only: CallFails.
FinalizeTarget ==
  /\ worker = "target"
  /\ IF target \/ primary
       THEN worker' = "apex" /\ target' = TRUE /\ undone' = undone \ {"target"}
            /\ UNCHANGED <<wcd, lost>>
       ELSE Done /\ undone' = {} /\ UNCHANGED <<target, lost>>
  /\ UNCHANGED <<api, informer, queued, jobs, primary, apex, mesh, limits>>

FinalizeApex ==
  /\ Step("apex", "mesh")
  /\ apex' = "target"
  /\ undone' = undone \ {"apex"}
  /\ UNCHANGED <<api, informer, queued, wcd, jobs, target, primary, mesh, limits, lost>>

\* Mutant: the mesh is left to the garbage collector.
ForgetfulMesh ==
  /\ Step("mesh", "removeFinalizer")
  /\ undone' = undone \ {"mesh"}
  /\ UNCHANGED <<api, informer, queued, wcd, jobs, cluster, limits, lost>>

FinalizeMesh ==
  /\ Step("mesh", "removeFinalizer")
  /\ mesh' = "target"
  /\ undone' = undone \ {"mesh"}
  /\ UNCHANGED <<api, informer, queued, wcd, jobs, target, primary, apex, limits, lost>>

FinalizeRemove ==
  /\ worker = "removeFinalizer"
  /\ Present
  /\ api' = WithoutFinalizer
  /\ Done
  /\ undone' = {}
  /\ UNCHANGED <<informer, queued, jobs, cluster, limits, lost>>

------------------------------------------------------------------------------
\* scheduleCanaries, every flaggerWindow (10 seconds by default).

\* CanaryJob.Stop: what the goroutine does at its next select is its own affair.
\* A tick that waits in the ticker's channel may still be taken.
StopJob(rs, r, ticked) ==
  IF r = 0 THEN rs ELSE [rs EXCEPT ![r].stopped = TRUE, ![r].ticked = ticked]

\* CanaryJob.Start: the first tick runs at once.
StartJob(rs) ==
  \E r \in Runs :
    /\ rs[r].pc = "off"
    /\ runs' = [rs EXCEPT ![r] = [Idle EXCEPT !.pc = "start"]]
    /\ job' = [run |-> r, interval |-> entry]

\* Mutant: the job with the old interval is left running.
UnstoppedSchedule ==
  /\ entry # job.interval
  /\ \E ticked \in BOOLEAN :
       IF entry # 0 THEN StartJob(runs)
       ELSE job' = NoJob /\ runs' = StopJob(runs, job.run, ticked)
  /\ UNCHANGED <<api, informer, sync, entry, cluster, limits, ghosts>>

\* Mutant: only canaries without a job get one.
DeafSchedule ==
  /\ entry # job.interval
  /\ entry = 0 \/ job = NoJob
  /\ \E ticked \in BOOLEAN :
       IF entry # 0 THEN StartJob(runs)
       ELSE job' = NoJob /\ runs' = StopJob(runs, job.run, ticked)
  /\ UNCHANGED <<api, informer, sync, entry, cluster, limits, ghosts>>

\* A new canary gets a job, a removed one loses it, and one whose interval changed
\* gets another: the old one is stopped, its running tick is not waited for.
Schedule ==
  /\ entry # job.interval
  /\ \E ticked \in BOOLEAN :
       LET rs == StopJob(runs, job.run, ticked)
       IN IF entry # 0 THEN StartJob(rs) ELSE job' = NoJob /\ runs' = rs
  /\ UNCHANGED <<api, informer, sync, entry, cluster, limits, ghosts>>

------------------------------------------------------------------------------
\* The goroutines, see Scheduler for the whole tick.

Set(r, pc) == runs' = [runs EXCEPT ![r].pc = pc]

Tick(r, label) == runs[r].pc = label

\* A tick writes a resource while the worker finalizes the canary.
Undo(resource) ==
  undone' = IF worker \in Finalization THEN undone \cup {resource} ELSE undone

Return(r) == Set(r, "wait")

\* advanceCanary begins with the canary of the API server, not with the copy in
\* the map, and returns at once when there is none.
GetCanary(r) ==
  /\ \/ Tick(r, "start")
     \/ Tick(r, "wait") /\ (runs[r].stopped => runs[r].ticked)
  /\ runs' = [runs EXCEPT ![r].pc = IF ~Present THEN "wait"
                                     ELSE IF Initialising(api.phase) THEN "initialize"
                                     ELSE "reconcile",
                          ![r].ticked = runs[r].ticked /\ Tick(r, "start")]
  /\ UNCHANGED <<api, informer, sync, entry, job, cluster, limits, ghosts>>

\* The select of Start takes the closed done channel.
EndJob(r) ==
  /\ Tick(r, "wait")
  /\ runs[r].stopped
  /\ runs' = [runs EXCEPT ![r] = Idle]
  /\ UNCHANGED <<api, informer, sync, entry, job, cluster, limits, ghosts>>

\* canaryController.Initialize and kubeRouter.Reconcile, of every tick: there is a
\* primary, and the apex service selects it.
Bootstrap(r) ==
  /\ \/ Tick(r, "initialize") /\ Set(r, "scaleDown")
     \/ Tick(r, "reconcile") /\ Set(r, "mesh")
  /\ primary' = TRUE
  /\ apex' = "primary"
  /\ Undo("apex")
  /\ UNCHANGED <<api, informer, sync, entry, job, target, mesh, limits, lost>>

\* ScaleToZero, while initializing.
ScaleDown(r) ==
  /\ Tick(r, "scaleDown")
  /\ Set(r, "takeOver")
  /\ target' = FALSE
  /\ Undo("target")
  /\ UNCHANGED <<api, informer, sync, entry, job, primary, apex, mesh, limits, lost>>

\* meshRouter.Reconcile: an object that was reverted differs from what it wants, and
\* is rewritten.  The rest of the tick follows: nothing to do, or a rollout that ends.
ReconcileMesh(r) ==
  /\ \/ Tick(r, "takeOver") /\ Set(r, "setRunning")
     \/ Tick(r, "mesh") /\ (Return(r) \/ Set(r, "scaleToZero"))
  /\ mesh' = "primary"
  /\ Undo("mesh")
  /\ UNCHANGED <<api, informer, sync, entry, job, target, primary, apex, limits, lost>>

\* ScaleToZero, when a rollout succeeded or failed.
ScaleToZero(r) ==
  /\ Tick(r, "scaleToZero")
  /\ Set(r, "setRunning")
  /\ target' = FALSE
  /\ Undo("target")
  /\ UNCHANGED <<api, informer, sync, entry, job, primary, apex, mesh, limits, lost>>

\* SyncStatus or SetStatusPhase at the end of a tick, also over Terminating.
SetPhase(r) ==
  /\ Tick(r, "setRunning")
  /\ Return(r)
  /\ api' = IF Present THEN [api EXCEPT !.phase = "Running"] ELSE api
  /\ UNCHANGED <<informer, sync, entry, job, cluster, limits, ghosts>>

\* A call of a tick fails, or finds a workload not ready.
Abort(r) ==
  /\ r \in Ticking
  /\ faults < plan.faults
  /\ faults' = faults + 1
  /\ Return(r)
  /\ UNCHANGED <<api, informer, sync, entry, job, cluster, plan, creates, edits, ghosts>>

\* The controller restarts: nothing it knew is left, and the informer lists anew.
Restart ==
  /\ faults < plan.faults
  /\ faults' = faults + 1
  /\ lister' = Absent /\ optOut' = FALSE
  /\ queued' = FALSE /\ worker' = "idle" /\ wcd' = NoWork
  /\ entry' = 0 /\ job' = NoJob /\ runs' = [r \in Runs |-> Idle]
  /\ undone' = {} /\ lost' = {}
  /\ UNCHANGED <<api, cluster, plan, creates, edits>>

------------------------------------------------------------------------------
User == Create \/ EditSpec \/ Delete

Informer == Deliver \/ DeliverDelete \/ RemoveFinalizer

Fault == DeliverTombstone \/ OptOutFails \/ CallFails \/ Restart \/ \E r \in Runs : Abort(r)

Worker ==
  \/ GetKey \/ NotFound \/ SetPhaseInitializing \/ Store \/ AddFinalizer
  \/ FinalizeGet \/ SetPhaseTerminating \/ FinalizeTarget \/ FinalizeApex \/ FinalizeMesh
  \/ FinalizeRemove

Run(r) ==
  \/ GetCanary(r) \/ EndJob(r) \/ Bootstrap(r) \/ ScaleDown(r)
  \/ ReconcileMesh(r) \/ ScaleToZero(r) \/ SetPhase(r)

Next ==
  \/ User \/ Informer \/ Fault \/ Worker \/ Resync \/ CollectGarbage \/ Schedule
  \/ \E r \in Runs : Run(r)

Spec == Init /\ [][Next]_vars

\* Every goroutine keeps running, the timers keep firing, and events are
\* delivered; users and faults owe nothing.
FairSpec ==
  /\ Spec
  /\ WF_vars(Informer) /\ WF_vars(Resync) /\ WF_vars(CollectGarbage)
  /\ WF_vars(Worker) /\ WF_vars(Schedule)
  /\ \A r \in Runs : WF_vars(Run(r))
==============================================================================
