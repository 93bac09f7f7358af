----------------------------- MODULE CanaryStatus -----------------------------
(***************************************************************************)
(* The status subresource of a Canary and the functions that write it      *)
(* (pkg/canary/status.go, pkg/canary/spec.go).  Every write is an          *)
(* UpdateStatus under RetryOnConflict: when the object changed since the   *)
(* tick read it, the object is read again and the same fields are set on   *)
(* the fresh copy.  So a write acts on the status the API server holds and *)
(* leaves the fields it does not name alone, while the values it writes    *)
(* were computed from the tick's own snapshot.                             *)
(***************************************************************************)
EXTENDS Integers, StepWeights

CONSTANTS
  Revs,    \* the hashes of the target's pod template, one per revision
  NoRev    \* the empty hash

ASSUME NoRevAssumption == NoRev \notin Revs

\* "None" is the empty phase of a canary no handler has seen yet.
Phases == {"None", "Initializing", "Initialized", "Waiting", "Progressing",
           "WaitingPromotion", "Promoting", "Finalising", "Succeeded", "Failed"}

Hashes == Revs \cup {NoRev}

\* iterations may be -1: see SetStatusPhase for a canary without iterations.
Statuses ==
  [phase : Phases, weight : Weights, failed : Nat, iter : Int,
   applied : Hashes, promoted : Hashes]

EmptyStatus ==
  [phase |-> "None", weight |-> 0, failed |-> 0, iter |-> 0,
   applied |-> NoRev, promoted |-> NoRev]

Initialising(s) == s.phase \in {"None", "Initializing"}

\* syncCanaryStatus: phase and counters as given, the hash of the target as the
\* last applied one, and, when initialized, as the last promoted one too.
SyncStatus(s, phase, weight, failed, iter, hash) ==
  [phase |-> phase, weight |-> weight, failed |-> failed, iter |-> iter,
   applied  |-> hash,
   promoted |-> IF phase = "Initialized" THEN hash ELSE s.promoted]

\* What the scheduler passes when it starts, restarts or ends an analysis:
\* a CanaryStatus with every counter zero.
Reset(s, phase, weight, hash) == SyncStatus(s, phase, weight, 0, 0, hash)

SetStatusFailedChecks(s, n) == [s EXCEPT !.failed = n]
SetStatusWeight(s, n)       == [s EXCEPT !.weight = n]
SetStatusIterations(s, n)   == [s EXCEPT !.iter = n]

\* setStatusPhase: a phase out of the analysis clears weight and iterations,
\* waiting for promotion keeps the canary one iteration before the end, and
\* success records the applied hash as promoted.
SetStatusPhase(s, phase, iterations) ==
  LET keeps == phase \in {"Progressing", "Waiting", "Promoting"}
  IN  [s EXCEPT
        !.phase    = phase,
        !.weight   = IF keeps THEN @ ELSE 0,
        !.iter     = IF keeps THEN @
                     ELSE IF phase = "WaitingPromotion" THEN iterations - 1 ELSE 0,
        !.promoted = IF phase \in {"Initialized", "Succeeded"} THEN s.applied ELSE @]

\* hasSpecChanged: a target that differs from the last applied revision, unless
\* it is the last promoted one (a manual rollback starts no canary).
HasSpecChanged(s, rev) ==
  \/ s.applied = NoRev
  \/ s.promoted # rev /\ s.applied # rev
===============================================================================
