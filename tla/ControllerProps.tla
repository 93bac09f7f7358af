---------------------------- MODULE ControllerProps ----------------------------
(***************************************************************************)
(* What the controller around advanceCanary promises.                      *)
(***************************************************************************)
EXTENDS Controller

TypeOK ==
  /\ plan \in Plans
  /\ {api, lister} \subseteq
       [uid : 0 .. plan.creates, spec : plan.specs \cup {NoSpec}, phase : Phases, fin : BOOLEAN,
        deleting : BOOLEAN]
  /\ wcd \in [interval : Nat, adds : BOOLEAN]
  /\ optOut \in BOOLEAN /\ queued \in BOOLEAN
  /\ worker \in Finalization \cup {"idle", "initializing", "store", "addFinalizer"}
  /\ entry \in Nat
  /\ job \in [run : Runs \cup {0}, interval : Nat]
  /\ runs \in [Runs -> [pc : {"off", "wait", "start", "initialize", "reconcile", "scaleDown",
                              "takeOver", "mesh", "scaleToZero", "setRunning"},
                        stopped : BOOLEAN, ticked : BOOLEAN]]
  /\ target \in BOOLEAN /\ primary \in BOOLEAN
  /\ {apex, mesh} \subseteq {"target", "primary"}
  /\ creates \in 0 .. plan.creates /\ edits \in 0 .. plan.edits /\ faults \in 0 .. plan.faults
  /\ undone \subseteq {"target", "apex", "mesh"}
  /\ lost \subseteq Losses

\* Of the goroutines that have not ended, the one in the jobs map is the only one
\* that will go on: a second unstopped job would analyse the canary twice per
\* interval for as long as the controller runs (scheduler.go:108).
OneJob == {r \in Runs : runs[r].pc # "off" /\ ~runs[r].stopped} = {job.run} \ {0}

\* A canary that goes because its finalization is complete leaves the target
\* serving: with replicas, selected by the apex service, with the mesh's traffic.
\* The exception is what a tick of its job, which is still running, wrote over it.
Reverted ==
  [][ worker = "removeFinalizer" /\ Present /\ api' = Absent =>
        /\ target \/ "target" \in undone
        /\ apex = "target" \/ "apex" \in undone
        /\ mesh = "target" \/ "mesh" \in undone ]_vars

------------------------------------------------------------------------------
\* Liveness, once users and faults leave the canary alone.

\* A canary that asks to be reverted gets its finalizer, although a failed sync is
\* not repeated: the resync comes back to a canary that opted in and has none.
OptInGetsFinalizer ==
  <>[](Present /\ ~api.deleting /\ api.spec.revert /\ api.spec.valid) => <>[]api.fin

\* A deleted canary that asks to be reverted does not hang: whatever call of the
\* finalization failed, and whatever a tick did meanwhile, another sync repeats it.
\* The exception is a target at zero replicas without a primary to scale it after:
\* ScaleFromZero fails, and once the controller restarted no job creates the primary,
\* because a deleted canary is never stored.
DeletionCompletes ==
  []<>(Present =>
         \/ ~api.deleting \/ ~api.spec.revert \/ ~api.spec.valid
         \/ ~target /\ ~primary /\ job = NoJob)

\* The canary is analysed at the interval its spec says, by a job that was
\* replaced when the interval changed.  The exception is a canary whose first sync
\* failed: its key is not queued again, so it gets no job (controller.go:236).
JobFollowsSpec ==
  <>[](Present /\ ~api.deleting /\ api.spec.valid)
     => <>[](job.interval = api.spec.interval \/ "dropped" \in lost)

\* "for the removed canaries the jobs are stopped and deleted" (scheduler.go:92):
\* no goroutine is left.  The exceptions are a canary whose deletion reached
\* DeleteFunc as a tombstone, and one that syncHandler stored after DeleteFunc had
\* removed it: their jobs go on until the controller restarts.
JobsOfRemovedEnd ==
  <>[]~Present
     => <>[](\/ job = NoJob /\ \A r \in Runs : runs[r].pc = "off"
             \/ lost \cap {"tombstone", "late"} # {})
================================================================================
