------------------------------ MODULE Lifecycle ------------------------------
(***************************************************************************)
(* The lifecycle of a Canary as its users are told it: the phases of       *)
(* pkg/apis/flagger/v1beta1/status.go, in the order a rollout goes through *)
(* them, and the revision the primary runs.  It has no ticks, no routes    *)
(* and no counters; Scheduler implements it (SchedulerProps!Implements).   *)
(*                                                                         *)
(* The promise: the live revision is replaced only while a rollout is      *)
(* being analysed; Promoting, and with it Finalising and Succeeded, is     *)
(* reached only right after that (a rollout that was cut short in between  *)
(* goes through the replacement once more); and from then on the live      *)
(* revision stays until the next rollout.                                  *)
(***************************************************************************)
CONSTANTS Revs, NoRev

VARIABLES
  phase,       \* the phase in the Canary's status
  live,        \* the revision of the primary workload
  committed    \* "no", or how the primary has just been updated, while the phase
               \* does not tell yet: "analysed" or, with spec.skipAnalysis, "skipped"

vars == <<phase, live, committed>>

\* No rollout is under way; a rollout is analysed.
Settled   == {"Initialized", "Succeeded", "Failed"}
Analysing == {"Progressing", "WaitingPromotion"}

Init == phase = "None" /\ live = NoRev /\ committed = "no"

Become(p) == phase' = p /\ committed' = "no" /\ UNCHANGED live

Register == phase = "None" /\ Become("Initializing")

\* The first primary is a copy of the target.
Create ==
  /\ phase = "Initializing" /\ live = NoRev
  /\ live' \in Revs
  /\ UNCHANGED <<phase, committed>>

Ready  == phase = "Initializing" /\ live # NoRev /\ Become("Initialized")
Wait   == phase \in Settled \cup {"Waiting"} /\ Become("Waiting")
Begin  == phase \in Settled \cup {"Waiting"} /\ Become("Progressing")
Again  == phase \in Analysing /\ Become("Progressing")
Gate   == phase \in Analysing /\ Become("WaitingPromotion")

\* The primary takes the target's revision.
Commit ==
  /\ phase \in Analysing
  /\ live' \in Revs
  /\ committed' \in {"analysed", "skipped"}
  /\ UNCHANGED phase

\* A crash between the update of the primary and that of the phase.
Forget == committed # "no" /\ committed' = "no" /\ UNCHANGED <<phase, live>>

Promote  == phase \in Analysing /\ committed = "analysed" /\ Become("Promoting")
Finalise == phase = "Promoting" /\ Become("Finalising")
Succeed  == (phase = "Finalising" \/ committed = "skipped") /\ Become("Succeeded")

\* Anything but a canary that was never seen may fail, and a failed one again.
Fail == phase # "None" /\ live # NoRev /\ committed = "no" /\ Become("Failed")

Next ==
  \/ Register \/ Create \/ Ready \/ Wait \/ Begin \/ Again \/ Gate
  \/ Commit \/ Forget \/ Promote \/ Finalise \/ Succeed \/ Fail

Spec == Init /\ [][Next]_vars
==============================================================================
