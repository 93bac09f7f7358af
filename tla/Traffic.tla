-------------------------------- MODULE Traffic --------------------------------
(***************************************************************************)
(* Rollouts as the mesh sees them: the ticks that reach meshRouter, with   *)
(* the router of every provider (module Routers), the arithmetic of the    *)
(* split (module StepWeights), the three strategies of scheduler.go, and   *)
(* finalize.  What the ticks do to workloads is module Scheduler's, how    *)
(* they and finalize interleave module Controller's.                       *)
(*                                                                         *)
(* A tick is two actions: Reconcile, and the step that GetRoutes and the   *)
(* strategy lead to, SetRoutes and the status write after it.  That write  *)
(* may fail, or find a conflict: then it is repeated on a fresh copy of    *)
(* the canary, without the cookies that SetRoutes put into the tick's own. *)
(***************************************************************************)
EXTENDS Routers, FiniteSets

CONSTANT Configs   \* what a behaviour may be about, see ConfigsAssumption

\* The provider, the analysis, whose stepWeight is a percentage, session affinity
\* ("none", "canary", or "both" for a primary cookie as well), whether the mesh has an
\* object of the user's and kubectl's annotation on it, and bounds on the edits of
\* spec.service or of the object, on the faults and on the rollouts after the first.
\* The routers of the other providers do not look at spec.analysis.sessionAffinity.
ASSUME ConfigsAssumption ==
  \A c \in Configs :
    /\ c.provider \in Providers
    /\ c.analysis \in Analyses /\ c.analysis.stepWeight <= totalWeight
    /\ c.affinity \in {"none", "canary", "both"}
    /\ c.affinity # "none" =>
         /\ c.provider \in Gateways \cup {"istio"}
         /\ ~c.analysis.match
    /\ c.adopted \in BOOLEAN /\ (c.adopted => c.provider = "istio")
    /\ c.kubectl \in BOOLEAN
    /\ c.edits \in Nat /\ c.faults \in Nat /\ c.rollouts \in Nat

VARIABLES
  cfg,        \* the configuration of this behaviour
  version,    \* the generation of spec.service
  object,     \* the provider's object
  pc,         \* the next call of the tick: "reconcile" or "step"
  stage,      \* "analysis", "promotion", "done", "finalizing" or "finalized"
  iterations, \* status.iterations
  cookies,    \* the session cookies of the status
  edits, faults, rollouts,   \* what became of the bounds so far
  asked,      \* history: the split that the last write of the object stands for
  reset,      \* history: Reconcile rewrote the object after the last SetRoutes
  minted,     \* history: how many session cookies were made
  past        \* history: how many of them in earlier rollouts

limits  == <<edits, faults, rollouts>>
history == <<asked, reset, minted, past>>
vars    == <<cfg, version, object, pc, stage, iterations, cookies, limits, history>>

a == cfg.analysis

\* Canary.DeploymentStrategy
Strategy ==
  IF a.iterations = 0 THEN "Canary" ELSE IF a.match THEN "A/B" ELSE "Blue/Green"

Running == stage \in {"analysis", "promotion"}

\* What GetRoutes returns.
Seen == GetRoutes(cfg.provider, a, object, stage = "promotion")

\* Knative Services and Ingresses are the user's, but only Istio has a user's object
\* in the place of its own.
Init ==
  /\ cfg \in Configs
  /\ version = 1
  /\ object = IF cfg.provider = "knative"
                THEN [KnativeInitialize(Absent, 1) EXCEPT !.observed = <<1, <<Rule("all", 100, 0)>>>>]
              ELSE IF cfg.adopted THEN Object(UserRules, 0, cfg.kubectl)
              ELSE Absent
  /\ pc = "reconcile" /\ stage = "analysis" /\ iterations = 0
  /\ cookies = [cookie |-> 0, previous |-> 0]
  /\ edits = 0 /\ faults = 0 /\ rollouts = 0
  /\ asked = AllPrimary /\ reset = FALSE /\ minted = 0 /\ past = 0

------------------------------------------------------------------------------
\* Users and the mesh.

EditService ==
  /\ Running
  /\ pc = "reconcile"
  /\ edits < cfg.edits
  /\ edits' = edits + 1
  /\ version' = version + 1
  /\ UNCHANGED <<cfg, object, pc, stage, iterations, cookies, faults, rollouts, history>>

\* Someone deletes the provider's object, which is not the user's own.
Remove ==
  /\ Running
  /\ Exists(object)
  /\ cfg.provider # "knative" /\ ~cfg.adopted
  /\ edits < cfg.edits
  /\ edits' = edits + 1
  /\ object' = Absent
  /\ UNCHANGED <<cfg, version, pc, stage, iterations, cookies, faults, rollouts, history>>

\* The mesh's own controller reports the object as it is now.
Observe ==
  /\ Exists(object)
  /\ cfg.provider \in Lagging
  /\ object.observed # Generation(object)
  /\ object' = [object EXCEPT !.observed = Generation(object)]
  /\ UNCHANGED <<cfg, version, pc, stage, iterations, cookies, limits, history>>

------------------------------------------------------------------------------
\* The tick.

\* meshRouter.Reconcile.  A new or rewritten object stands for what GetRoutes would
\* read from it.
ReconcileRoutes ==
  /\ Running
  /\ pc = "reconcile"
  /\ object' = Reconcile(cfg.provider, a, object, version, stage = "analysis")
  /\ LET rewritten == object'.rules # object.rules
     IN  /\ reset' = (reset \/ rewritten)
         /\ asked' = IF rewritten THEN GetRoutes(cfg.provider, a, object', FALSE) ELSE asked
  /\ pc' = "step"
  /\ UNCHANGED <<cfg, version, stage, iterations, cookies, limits, minted, past>>

EndTick == pc' = "reconcile"

\* GetRoutes has an error.  (A tick that a check, a gate or a workload ends early
\* writes nothing either and does not count here.)
EndsEarly ==
  /\ pc = "step"
  /\ ~Readable(cfg.provider, object)
  /\ EndTick
  /\ UNCHANGED <<cfg, version, object, stage, iterations, cookies, limits, history>>

\* The tick goes on to the strategy, in the given stage.
At(s) == stage = s /\ pc = "step" /\ Readable(cfg.provider, object) /\ EndTick

\* SetRoutes of split s.
Route(s) ==
  LET own == Cookies(cookies, s.c, minted + 1)
  IN  /\ Accepts(cfg.provider, object, s)
      /\ object' = SetRoutes(cfg.provider, a, cfg.affinity, own, object, s)
      /\ asked' = s
      /\ reset' = FALSE
      /\ minted' = IF cfg.affinity # "none" /\ own.cookie = minted + 1 THEN minted + 1 ELSE minted

\* Mutant: the status is written from a fresh copy every time.
ForgetfulSaved(c, newStage, newIterations) ==
  stage' = newStage /\ iterations' = newIterations /\ UNCHANGED <<cookies, faults>>

\* The status write after SetRoutes of canary weight c, or after none (c = -1).  A
\* conflict repeats it on a fresh copy.
Saved(c, newStage, newIterations) ==
  /\ stage' = newStage /\ iterations' = newIterations
  /\ \/ /\ cookies' = IF cfg.affinity = "none" \/ c < 0 THEN cookies
                       ELSE Cookies(cookies, c, minted + 1)
        /\ UNCHANGED faults
     \/ faults < cfg.faults /\ faults' = faults + 1 /\ UNCHANGED cookies

\* It may fail altogether.
Save(c, newStage, newIterations) ==
  \/ Saved(c, newStage, newIterations)
  \/ faults < cfg.faults /\ faults' = faults + 1 /\ UNCHANGED <<stage, iterations, cookies>>

\* SetRoutes and the status write after it.
RouteAndSave(split, newStage, newIterations) ==
  /\ \E s \in {split} : Route(s) /\ Save(s.c, newStage, newIterations)
  /\ UNCHANGED <<cfg, version, edits, rollouts, past>>

\* runCanary below the maximum weight.
IncreaseWeight ==
  /\ At("analysis")
  /\ Strategy = "Canary"
  /\ nextStepWeight(a, Seen.c) > 0
  /\ Seen.c < maxWeight(a)
  /\ RouteAndSave(IncreasedSplit(a, Seen), "analysis", iterations)

\* runAB below the number of iterations.
RouteMatches ==
  /\ At("analysis")
  /\ Strategy = "A/B"
  /\ iterations < a.iterations
  /\ RouteAndSave(AllCanary, "analysis", iterations + 1)

\* runBlueGreen below the number of iterations.  An error of SetRoutes is only logged:
\* the tick's cookies may have changed already.
CountIteration ==
  /\ At("analysis")
  /\ Strategy = "Blue/Green"
  /\ iterations < a.iterations
  /\ LET mirrors == a.mirror /\ ~Seen.m
     IN  \/ /\ mirrors /\ Route(Split(totalWeight, 0, TRUE))
            /\ Save(0, "analysis", iterations + 1)
         \/ /\ UNCHANGED <<object, asked, reset, minted>>
            /\ \E c \in IF mirrors THEN {-1, 0} ELSE {-1} : Save(c, "analysis", iterations + 1)
  /\ UNCHANGED <<cfg, version, edits, rollouts, past>>

\* runBlueGreen at the number of iterations.
RouteAll ==
  /\ At("analysis")
  /\ Strategy = "Blue/Green"
  /\ iterations = a.iterations
  /\ RouteAndSave(AllCanary, "analysis", iterations + 1)

\* Mutant: the maximum weight has to be met exactly.
ExactlyAnalysed ==
  CASE Strategy = "Canary"     -> nextStepWeight(a, Seen.c) > 0 /\ Seen.c = maxWeight(a)
    [] Strategy = "A/B"        -> iterations = a.iterations
    [] Strategy = "Blue/Green" -> iterations > a.iterations

\* Mutant: Blue/Green forgets to move the traffic first.
EagerlyAnalysed ==
  CASE Strategy = "Canary"     -> nextStepWeight(a, Seen.c) > 0 /\ Seen.c >= maxWeight(a)
    [] Strategy = "A/B"        -> iterations = a.iterations
    [] Strategy = "Blue/Green" -> iterations >= a.iterations

\* The analysis is over: the traffic is where the promotion wants it.
Analysed ==
  CASE Strategy = "Canary"     -> nextStepWeight(a, Seen.c) > 0 /\ Seen.c >= maxWeight(a)
    [] Strategy = "A/B"        -> iterations = a.iterations
    [] Strategy = "Blue/Green" -> iterations > a.iterations

\* canaryController.Promote, and SetStatusPhase of Promoting.
Promote ==
  /\ At("analysis")
  /\ Analysed
  /\ Save(-1, "promotion", iterations)
  /\ UNCHANGED <<cfg, version, object, edits, rollouts, history>>

\* runPromotionTrafficShift without a step: all at once.
ShiftAtOnce ==
  /\ At("promotion")
  /\ a.stepWeightPromotion = 0
  /\ RouteAndSave(AllPrimary, "done", 0)

\* runPromotionTrafficShift with one.
ShiftStep ==
  LET s == PromotedSplit(a, Seen)
  IN  /\ At("promotion")
      /\ a.stepWeightPromotion > 0
      /\ Seen.c > 0
      /\ IF s.p = totalWeight THEN RouteAndSave(s, "done", 0)
         ELSE RouteAndSave(s, "promotion", iterations)

\* The shift that does not happen: the canary has no traffic left, or the mesh
\* rejects the split.
NothingToShift ==
  /\ At("promotion")
  /\ a.stepWeightPromotion > 0
  /\ Seen.c = 0 \/ ~Accepts(cfg.provider, object, PromotedSplit(a, Seen))
  /\ UNCHANGED <<cfg, version, object, stage, iterations, cookies, limits, history>>

\* Mutant: a rollback writes the status only.
SilentRollback ==
  /\ At("analysis")
  /\ rollouts < cfg.rollouts
  /\ Saved(-1, "done", 0)
  /\ UNCHANGED <<cfg, version, object, edits, rollouts, history>>

\* rollback, for whatever reason, where the bound allows another rollout after it.
\* The next tick repeats one whose status write fails, and so it does for Restart.
Rollback ==
  /\ At("analysis")
  /\ rollouts < cfg.rollouts
  /\ Route(AllPrimary)
  /\ Saved(0, "done", 0)
  /\ UNCHANGED <<cfg, version, edits, rollouts, past>>

\* A new revision during the analysis starts it again.
Restart ==
  /\ At("analysis")
  /\ rollouts < cfg.rollouts
  /\ Route(AllPrimary)
  /\ Saved(0, "analysis", 0)
  /\ rollouts' = rollouts + 1
  /\ past' = minted
  /\ UNCHANGED <<cfg, version, edits>>

\* The next rollout, after a promotion or a rollback.
NextRollout ==
  /\ stage = "done"
  /\ rollouts < cfg.rollouts
  /\ rollouts' = rollouts + 1
  /\ stage' = "analysis" /\ iterations' = 0
  /\ past' = minted
  /\ UNCHANGED <<cfg, version, object, pc, cookies, edits, faults, asked, reset, minted>>

------------------------------------------------------------------------------
\* finalize, between two ticks.

Delete ==
  /\ stage \in {"analysis", "promotion", "done"}
  /\ pc = "reconcile"
  /\ edits < cfg.edits
  /\ edits' = edits + 1
  /\ stage' = "finalizing"
  /\ UNCHANGED <<cfg, version, object, pc, iterations, cookies, faults, rollouts, history>>

\* revertMesh, and the removal of the finalizer, which may fail: then all of it is
\* repeated.
Revert ==
  /\ stage = "finalizing"
  /\ Finalizes(cfg.provider, object)
  /\ object' = Finalize(cfg.provider, object)
  /\ \/ stage' = "finalized" /\ UNCHANGED faults
     \/ faults < cfg.faults /\ faults' = faults + 1 /\ UNCHANGED stage
  /\ UNCHANGED <<cfg, version, pc, iterations, cookies, edits, rollouts, history>>

\* revertMesh has an error, now and at every retry.
CannotRevert ==
  /\ stage = "finalizing"
  /\ ~Finalizes(cfg.provider, object)
  /\ UNCHANGED vars

------------------------------------------------------------------------------
Tick ==
  \/ ReconcileRoutes \/ EndsEarly \/ IncreaseWeight \/ RouteMatches \/ CountIteration
  \/ RouteAll \/ Promote \/ ShiftAtOnce \/ ShiftStep \/ NothingToShift

User == EditService \/ Remove \/ Rollback \/ Restart \/ NextRollout \/ Delete

Next == Tick \/ User \/ Observe \/ Revert \/ CannotRevert

\* Ticks come as long as the canary's job runs, a failed finalization is retried, and
\* the mesh's controller reports.
Spec == Init /\ [][Next]_vars /\ WF_vars(Tick \/ Revert) /\ WF_vars(Observe)
================================================================================
