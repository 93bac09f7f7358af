# A TLA+ model of Flagger

Flagger is a Kubernetes controller for progressive delivery. A `Canary` object names a
*target* workload; Flagger creates a copy of it, the *primary*, sends the users' traffic
there, and from then on treats every change of the target as a release to be analysed:
it moves traffic to the target (the *canary*) step by step, checks metrics and webhooks,
and either copies the new revision to the primary or rolls back. These modules model that
machine: the TLC model checker runs them on small instances, and the TLAPS proof system
proves some of the results for every instance. Paths below are relative to `src/`.

## The system

| Component | State | Operations | What makes it correct | Here |
|---|---|---|---|---|
| Scheduler, `pkg/controller/scheduler.go`, `scheduler_hooks.go` | none between ticks but what it reads: Canary, workloads, routes | `advanceCanary`, one tick of a canary's job, and the functions it calls | traffic only goes where pods are; the primary is replaced after a complete analysis only; every rollout ends | `Scheduler` |
| Weight arithmetic, `scheduler.go:41-88, 508-604` | none | `maxWeight`, `nextStepWeight`, the clamps | the two weights add up to 100, the walk ends | `StepWeights`, `StepWeightsWalk` |
| Canary status, `pkg/canary/status.go`, `spec.go` | the status subresource: phase, weight, counters, hashes, checksums, cookies | `syncCanaryStatus`, four setters, `hasSpecChanged` | the status tells what the cluster is like | `CanaryStatus`, `Workloads` |
| Deployment, DaemonSet and Service controllers, `pkg/canary/deployment_*.go`, `daemonset_*.go`, `service_controller.go` | target and primary | `Initialize`, `Promote`, `ScaleToZero`, `ScaleFromZero`, `Finalize`, readiness | the primary always has pods | `Scheduler`, `Workloads` |
| Config tracker, `pkg/canary/config_tracker.go` | checksums in the status, the primary's copies | `GetConfigRefs`, `HasConfigChanged`, `CreatePrimaryConfigs` | a config is analysed like the pod template, and a failed rollout leaves the primary's alone | `Workloads` |
| Autoscalers, `pkg/canary/*_reconciler.go` | HPA or KEDA ScaledObject of the target | reconcile, pause, resume | the target stays at zero between rollouts | `Workloads` |
| Mesh routers, `pkg/router/*.go` (20 provider names) | the provider's object: rules, weights, mirror, cookies, annotation | `Reconcile`, `GetRoutes`, `SetRoutes`, `Finalize` | what is read back is what was written; an edit changes no more than it says; finalization restores the user's object | `Routers`, `Traffic`; in `Scheduler` as a split |
| Session affinity, `istio.go`, `gateway_api.go`, `gateway_api_v1beta1.go` | cookies in status and routes | part of `SetRoutes` | a user stays on one side for the rollout | `Routers`, `Traffic` |
| Kubernetes and no-op routers, `kubernetes_default.go`, `nop.go` | the apex Service's selector | `Reconcile`, `Finalize` | the apex Service selects running pods | `Scheduler`, `Workloads`, `Controller` |
| Jobs, `pkg/controller/job.go`, `scheduleCanaries` | one goroutine and ticker per canary, the jobs map | start, stop, replace | one live job per canary, at the interval its spec says | `Controller` |
| Informer, work queue, `syncHandler`, `pkg/controller/controller.go` | the lister's copy, the queue, the map of canaries | handlers, resync, `syncHandler`, `setPhaseInitializing` | a canary's spec reaches its job, a removed one's job ends | `Controller` |
| Finalizer, `pkg/controller/finalizer.go` | finalizer on the Canary | `finalize`, `revertMesh`, add and remove | a deleted canary leaves the target serving, and goes | `Controller`, `Traffic` |
| Rollout webhooks, `pkg/controller/webhook.go` | none | `callWebhook` with retries | a hook that answers is not held for one that fails | `Analysis` |
| Metric checks, `scheduler_metrics.go`, `pkg/metrics/observers`, `pkg/metrics/providers` | none | `runAnalysis`, `RunQuery` of 11 providers, the built-in queries | an analysis passes on evidence | `MetricChecks`, `MetricProviders`, `Analysis` |
| Load tester, `pkg/loadtester` | to-do list, running set | `HandleNewTask`, `Add`, `runAll` | an accepted task runs; the load does not stop | `LoadTester`, `Analysis` |
| Service and Knative workload controllers, events, alerts, notifiers, recorder, start-up | | | | in part or not, see *Not modelled* |

**Interaction.** `syncHandler` writes the first status and stores the Canary in a map.
Every ten seconds `scheduleCanaries` gives each canary in the map a job. The job calls
`advanceCanary` at every tick of `spec.analysis.interval`; a tick reads the Canary once
and then works through calls to the API server, the mesh and the webhooks until one fails
or tells it to return. Nothing but the cluster's objects connects two ticks. A deleted
Canary with a finalizer is reverted by the worker of the queue, while its job still runs.

**What is hard.** A tick is a sequence of single writes, and it may end after any of them.
What a handler does in several writes (rollback: routes, replicas, status) may be left
half done, and the next tick only sees the status. Users push revisions, edit configs and
the service between any two calls, and KEDA scales. The tick's copies of the status and of
the routes age while it runs. The worker acts on a lister's copy, which is older still,
and the finalizer runs against a job that writes the same objects. Counters are read in
one tick and compared in another. Each provider keeps the weights in another form, and the
scheduler keeps none of its own, so that what is read back decides the next step.
`PROJECT.json` lists these hazards, each at its line, with the properties aimed at them.

## Modules

The tick is too large for one model: 20 providers, configs, autoscalers and half-written
handlers at once would be beyond any model checker. So the whole tick stands in
`Scheduler`, with workloads and routes reduced to what its own decisions need, and three
more modules look at the same ticks from one side each, with the rest of the tick
reduced.

    StepWeights          weight arithmetic                      (operators)
    CanaryStatus         status and its writers                 (EXTENDS StepWeights)
    Scheduler            advanceCanary                          (EXTENDS CanaryStatus)
      SchedulerProps     what it promises; refines Lifecycle
      Lifecycle          abstract: phases and the live revision
      DocumentedBehaviour  what docs and comments say
      MCScheduler        its instances
    Routers              every provider's object                (EXTENDS StepWeights)
    Traffic              the tick as the mesh sees it           (EXTENDS Routers)
      TrafficProps       what it promises; refines StepWeightsWalk
      StepWeightsWalk    abstract: the weights of one canary analysis
      MCTraffic          its instances
    Workloads            the tick as target, primary, config and autoscaler see it
      WorkloadsProps, MCWorkloads
    Controller           jobs, informer, queue, syncHandler, finalizer, and the ticks
      ControllerProps, MCController                             they run against
    MetricProviders      what a query returns                   (operators)
    MetricChecks         which queries, and when one passes     (EXTENDS MetricProviders)
    LoadTester           the task runner
    Analysis             runAnalysis with webhooks, load tester and checks
      AnalysisProps, MCAnalysis                                 (EXTENDS both)
    StepWeightsProofs    the weight arithmetic                  (EXTENDS StepWeights)
    SchedulerProofs      types of the status and the tick       (EXTENDS StepWeightsProofs)
      LifecycleProofs    refinement, weights, failure counter   (EXTENDS SchedulerProofs)
        RolloutProofs    traffic, pods, promotions              (EXTENDS LifecycleProofs)
    TrafficProofs        routers and strategies                 (EXTENDS StepWeightsProofs)
    WorkloadsProofs, ControllerProofs, AnalysisProofs           theorems of their module

**Scheduler.** `pc` names the tick's next call, so that users, faults and the tick
interleave at every call that reads or writes shared state; a computation between two
such calls belongs to the action before it. `cd` and `view` are the tick's copies of the
status and the routes and are gone when it returns. The code's early returns are `Return`;
an error of a call, a workload that is not ready yet and a crash all end the tick with its
local state lost and the cluster as it is, which is `Abort`, bounded by `MaxFaults`.
Readiness, webhooks and metric checks are choices: each may pass, fail or, for a workload,
be stuck past its deadline, at every call. A status write changes the fields it names on
the *current* status, which is what `RetryOnConflict` with its re-read amounts to. Routes
are a split of weights and a mirror flag; a workload is a revision and whether it has
replicas. `unrecorded` is a history variable: which handler has changed the cluster
without the status telling it yet. It lets a property name the one situation it excepts,
and no action's guard reads it. Assumed: the target has replicas when the Canary is
created; there is no autoscaler; `stepWeight` is at most 100 (the CRD does not enforce
it); weights are not negative; `spec.suspend` is unset; `spec` does not change while the
Canary lives, except `spec.service`; the canary's job is the only one. Three kinds of mesh
differ in where the bootstrap reconciles the routes: "appmesh" before the primary is
awaited, "mesh", which is everybody else, after the target is scaled down, and
"kubernetes" never. `adopts` says that the users have an object of the routes' name, which
Istio's router takes over: its `SetRoutes` finds that object before any `Reconcile`.

**Lifecycle** is what a user is told: the phases in their order and the revision that is
live. Its promise is that the live revision is replaced during an analysis only, and that
Promoting, Finalising and Succeeded follow that replacement and nothing else. `Implements`
maps the status phase, the primary's revision and the few labels between `Promote` and its
status write to it.

**Routers** has one operator per function of a provider's router. An object is the list of
its rules in the order the mesh tries them; a rule has the requests it matches, its
backends and weights, a mirror flag and the cookie it sets or matches. Two API versions of
a provider that do the same share an operator. Companion objects that are written
alongside with fixed content (destination rules, virtual nodes, upstreams) are left out.

**Traffic** runs a provider's three operators in a tick of two actions, `Reconcile` and
the step from `GetRoutes` through the strategy to `SetRoutes` and the status write, which
may be lost or find a conflict. In between users edit `spec.service` or remove the object,
and the mesh's own controller, for the two providers whose status is read back, reports
late. `finalize` and its retries end a behaviour. The history variables `asked`, `reset`,
`minted` and `past` say what the last write stood for and how many cookies were made.
Whether a check passes is a choice. Assumed: `service.match` is empty.

**Workloads** has one action per call of a tick that reads or writes the target, the
primary, their config, its copy, the autoscaler or the status. A pod template refers to
one config, required or optional, that users create, edit and delete. A Deployment has
pods when it wants replicas, a DaemonSet unless Flagger has set its scale-to-zero node
selector. The pods behind a Service are its users' own and are always there; its
controller copies the specification only, has no configs and nothing to scale, and the
kubernetes router leaves the apex to the user. An analysis passes or fails in one tick. A
workload that the tick looks at is ready or stuck past its deadline, as it likes: a stuck
canary and a stuck primary are rolled back, the first primary too where routes can be set
by then (`routed`), and a primary that is stuck while the promotion goes on halts it. One
that is not ready yet ends the tick, as a failed call does.

**Controller** has four kinds of actor: the informer, the worker that holds the canary's
key, the loop of `scheduleCanaries`, and the goroutine of every job that has not ended;
each call is an action. The worker acts on the lister's copy. A tick is that of
`Scheduler` reduced to what it does to the resources `finalize` reverts. One key is
enough: keys share the rate limiter only.

**Analysis** is one tick's `runAnalysis` with the hooks in order, each with its retries,
and then the queries in order. The window a query looks at is the set of answers ("good",
"bad") the canary's pods gave since the last tick. A query's answer is any that its
provider gives for such a window, empty and null results included, and `MetricProviders`
says which number, if any, `RunQuery` takes from it.

## Runs

| Run | Bounds | Shows |
|---|---|---|
| `rollouts` | 10 specs, 3 user operations, 2 faults, 3 revisions (symmetric); 3.9 M states | all safety properties of `SchedulerProps` and the refinement of `Lifecycle` |
| `live` | 6 specs without gates, 2 user operations, 1 fault; 513 k states | a rollout ends; a pushed revision is decided |
| `gates` | every gate, 1 push, 1 fault; 18 k states | a rollout held at a gate ends once the gates open |
| `traffic` | 20 providers, every strategy, 2 edits, 1 fault, 3 rollouts; a grid of weights undisturbed; 344 k states | what is written is served and read back; clients stay; finalization restores; the refinement of `StepWeightsWalk`; every rollout completes |
| `controller` | five plans, 2 goroutines; 433 k states | one live job; finalization reverts and completes; jobs follow specs and end |
| `workloads` | nine cases, 2 templates, 2 configs, 3 changes, 1 fault; 2.6 M states | no gap in what the apex Service selects; a failure leaves the primary alone; idle between rollouts; every change is decided |
| `analysis` | 45 canaries, 1 load task, 2 goroutines, 1 fault; 148 k states | accepted tasks run; an analysis passes on evidence only; the load keeps coming |
| `find_*` | as small as the case allows | one statement of a doc or a comment each that the code does not keep |

*Scheduler.* Three revisions are enough for one to be live, one under analysis and one
pushed on top; three user operations allow a push, a second push during its rollout and
the return to an earlier revision; two faults allow a handler to be cut and the tick that
repairs it to be cut as well. A threshold of one or two and two iterations or weight steps
make every counter pass below, at and beyond its limit. A behaviour picks one of the specs
of its run at the start and keeps it; together they cover the four strategies (canary
weights, A/B, blue/green, and what the kubernetes provider makes of any), listed and fixed
weights, mirroring, promotion in steps, and `skipAnalysis`, and the three places of the
mesh's `Reconcile`. The liveness runs have fewer operations, since each more multiplies
behaviours that end alike; `live` takes every strategy, with weights that ascend, as a
rollout whose `stepWeights` descend, or that has no step at all, does not end.

*Traffic.* The undisturbed configurations walk a grid of step weights, maxima, lists and
promotion steps, 0, 1, 99 and 100 among them, for the arithmetic. The disturbed ones take
one fixed and one listed analysis per strategy, with every provider that supports it:
two edits let an edit's effect be edited again (the second rewrite of Istio's annotation
needs that), one lost write lets a step or a cookie be lost, and two rollouts after the
first let a cookie of the one before last turn up.

*Controller.* All specs, operations and faults at once would be too many, so each plan
gives one concern what it needs: `Finalizing` (opting in and out, invalid specs,
deletion, a fault), `Replacing` (an interval that changes, or a deletion, and a fault),
`Rescheduling` (changes one after the other), `Recreating` (deletion without a revert and
a new canary of the same name), `LeftBehind` (a target an earlier canary left at zero).
A fault is a failed call, a restart of Flagger or a gap in the watch. Two goroutines are
an old and a new job; a third would need a tick longer than two intervals.

*Workloads.* Every kind, autoscaler and way to promote, with a required or optional
config, and with or without routes during the initialization; three changes are a push, a config edit on top and its return; the fault cuts any
call. *Analysis.* The built-in checks with each kind of observer, a template per provider,
in-line queries and ranges, hooks that run in the background, block, or have an unknown
type; two goroutines are what the runner's races need.

The safety properties relate what a tick decides to what the cluster became meanwhile.
Where the code does not keep the plain statement, the property names the exception in a
definition or a label of its own and its comment says why; the exceptions are part of what
the runs show. An exception is not a result: where one of them is a hazard of
`PROJECT.json`, the hazard's note says that the code does it and that the property only
shows it to be the one way to get there:

- `Interrupted`, `RoutesLost`, `PromotionLost` (`SchedulerProps`): a handler lost its last
  call; the traffic was taken back and the counters kept; a stepped promotion lost its
  last write.
- `MirrorLost`, `WeightIgnored`, `HalfAndHalf`, `Stale`, `Stuck` (`TrafficProps`): Istio
  with affinity or a match reads the mirror from the wrong rule or has none, the Gateway
  routers mirror iterations only, and the other providers not at all; an NGINX match
  sends all matching requests whatever the weight; `Matching` lists the providers whose
  routers look at `spec.analysis.match`, the others send everybody to the split;
  Traefik's rewrite gives the canary the primary's weight; Knative's weights may be those
  of before; the cases that never complete.
- `RoutedEarly` (`SchedulerProps`) and `RolledBackFirst` (`WorkloadsProps`): a first
  primary that is stuck is rolled back before the apex Service was moved; where
  `SetRoutes` succeeds by then the target that users are still sent to is scaled down.
- `ScaledDownPromoted`, `SharesConfig`, `raced`, `left` (`WorkloadsProps`).
  `SharesConfig`: a primary that was last written while its config was missing refers to
  the target's own, and goes on doing so when a promotion that fails later has copied the
  config. `left`: a rollout that could not write its first status, and a promotion halted
  by a stuck primary, leave the target up.
- `undone`, and the losses `dropped`, `tombstone`, `late` (`ControllerProps`).
- `Misreads` (`AnalysisProps`): a range without ends, providers that return 0 without
  data, and observers that do not select the canary's pods alone.

Every passing property has a mutant in `PROJECT.json`: a definition of the model with a
plausible bug (a clamp, a reset or a guard dropped, an order swapped) under which TLC finds
the property violated. The mutated definitions stand in the modules, marked as such, and
nothing uses them.

**Fairness.** Which call comes out how is never fair, users and faults owe nothing, and
faults are finitely many.

| Module | Assumed | Because |
|---|---|---|
| `Scheduler`, `FairSpec` | WF of `Tick` and `SetPhaseInitializing` | a job's ticker never stops; the informer delivers the new Canary. Checks may fail for ever: failures count |
| `Scheduler`, `ApprovedSpec` (`gates` only) | also SF of the actions behind an open gate | a gate that is asked again and again opens some day |
| `Traffic` | WF of `Tick \/ Revert`, WF of `Observe` | the ticker, and the resync that repeats `finalize`; the mesh's controller reports in the end |
| `Workloads` | WF of `Tick`, WF of `Scale` | the ticker; KEDA acts on its objects |
| `Controller`, `FairSpec` | WF of informer, resync, garbage collection, worker, `Schedule`, and each goroutine | goroutines that loop on channels and tickers |
| `Analysis`, `FairSpec` | WF of `Tick`, and of each goroutine's start and steps | the ticker; a command ends, by its timeout at the latest |

Deadlock is checked except in `traffic` and `controller`, where a canary that is finalized
or gone leaves nothing to do.

### Where code and documentation part

- `find_halt`: after a halted promotion all traffic is on the canary, "the only healthy
  copy"; the next push rolls back, to the primary that is still stuck.
- `find_empty_primary`: the check for a primary at zero replicas compares pointers and is
  never true, so a promotion goes on to a primary without pods.
- `find_reconcile`: an edit of `spec.service` during a rollout resets the weights.
- `find_promotion`: a promotion in steps whose last status write is lost never ends.
- `find_measured`: the built-in checks of a DaemonSet measure its primary, and pass
  without canary traffic.

Seen in the code and not turned into runs of their own; the exceptions above stand for
most of them:

- A push during the initialization is recorded as the promoted revision
  (`scheduler.go:1040`), and one after the last revision check of the promoting tick
  reaches the primary without analysis (`scheduler.go:626`).
- A step may overshoot `maxWeight` (`scheduler.go:595`,
  `docs/gitbook/usage/deployment-strategies.md:43`: "max traffic percentage routed to
  canary").
- The Failed phase after a halted promotion has the target scaled up (`status.go:59`); a
  Waiting canary is not asked for rollback (`scheduler.go:370`,
  `docs/gitbook/usage/webhooks.md:29`); an analysis after a halted promotion starts at
  full weight without its pre-rollout hooks; a retried `skipAnalysis` promotion copies the
  zero replicas it set itself; a first primary that gets stuck makes `rollback` scale down
  the target the apex Service still selects, with the kubernetes provider, with AppMesh,
  whose routes exist by then (`scheduler.go:217`), and with a VirtualService of the user's
  that Istio adopts (`istio.go:477`).
- `DeleteFunc` ignores tombstones (`controller.go:178`), and a key whose sync failed is
  not queued again (`controller.go:236`): the job of a removed canary may go on, and a
  canary whose first sync failed gets none until Flagger restarts.
- The load tester's `GetTaskFactory` asserts the type of a factory it may not have found
  (`pkg/loadtester/task.go:57`) and panics for an unknown task type, where its caller
  means to answer 400; two goroutines may run one command at the same time, as `runAll`
  looks for it and stores it in two calls (`pkg/loadtester/runner.go:68`).
- With session affinity and a match the Gateway API routers put the match on the sticky
  rule, in the place of the cookie, and the weighted rule stays as the one for everybody
  else (`gateway_api.go:422`), so that the requests the match does not select go to the
  canary as well; Istio's router drops the sticky rules (`istio.go:539`). Not modelled.
- InfluxDB without rows and Datadog and Dynatrace with a null return 0, which passes every
  ceiling; `linkerd` and `osm` queries select Deployments only. The `apisix` query counts
  the whole route, primary included (`apisix.go:27`); the queries of `kuma`, `gloo`,
  `traefik` and `apisix` name the target where the routers name what they make after
  `spec.service.name`, and find nothing when the two differ.

## Proofs

For every value of the constants that the modules' assumptions allow:

| Theorem | Says |
|---|---|
| `SchedulerProofs!TypeCorrect` | `Spec => []TypeOK` |
| `LifecycleProofs!ImplementsLifecycle` | `Spec => Implements`, the refinement of `Lifecycle` |
| `LifecycleProofs!SplitAlwaysWhole`, `StepsGoForward`, `FailuresAlwaysWithinThreshold` | `[]SplitIsWhole`, `WeightStepsForward`, `[]FailuresWithinThreshold` |
| `RolloutProofs!TrafficAlwaysHasBackends`, `ApexAlwaysHasBackends` | `[]TrafficHasBackends`, `[]ApexHasBackends` |
| `RolloutProofs!CanaryTrafficAlwaysInRollout`, `AnalysesStartOnPrimary` | `[]CanaryTrafficOnlyDuringRollout`, `AnalysisStartsOnPrimary` |
| `RolloutProofs!PrimaryKeepsItsPods`, `PromotionsAreGated`, `SuccessAlwaysMeansPromoted` | `PrimaryEmptiedOnlyAfterCut`, `PromotionGate`, `[]SucceededMeansPromoted` |
| `StepWeightsProofs!IncreasedSplitType`, `PromotedSplitType` | every step leads from splits of 100 to splits of 100 |
| `TrafficProofs!TypesHold`, `WeightsReadBack`, `TrafficGoesAsAsked` | `[]TypeOK`, `[]ReadBack`, `[]TrafficAsAsked`, for every provider |
| `TrafficProofs!AffinityHolds`, `CookiesAreFew`, `DeletionRestores` | `[]ClientsStay`, `[]OneCookie`, `[]RestoresOriginal` |
| `TrafficProofs!PromotionsFollowTraffic`, `TrafficWalks` | `PromotedOnCanary`; `Implements`, the refinement of `StepWeightsWalk` |
| `WorkloadsProofs!TypeCorrect`, `ServedThroughout`, `AtRest`, `FailuresKeepThePrimary` | `[]TypeOK`, `[]NoGap`, `[]IdleWhenSettled`, `[]FailureKeepsPrimary` |
| `ControllerProofs!TypeCorrect`, `OneJobAtATime`, `FinalizedIsReverted` | `[]TypeOK`, `[]OneJob`, `Reverted` |
| `AnalysisProofs!TypesHold`, `AcceptedTasksRun`, `PassesAreEarned` | `[]TypeOK`, `[]AcceptedRuns`, `[]PassedOnEvidence` |

That is every safety invariant and every action property that a passing run checks.

**What is assumed.** `SpecsAssumption`, `FlagsAssumption`, `BoundsAssumption`
(`Scheduler`), `ConfigsAssumption` (`Traffic`), `CasesAssumption`, `ContentsAssumption`
(`Workloads`), `PlansAssumption`, `RunsAssumption` (`Controller`) and `CanariesAssumption`
(`Analysis`) give the constants their types; TLC evaluates them. Three say more:
`SpecsAssumption` and `ConfigsAssumption` bound `stepWeight` by 100, and the latter keeps
session affinity to the three routers that know it (the others do not look at it) and to
analyses without a match. That last part is a limit of scope: the code accepts both
together (see above), the documentation describes session affinity for analyses by weight
(`docs/gitbook/usage/deployment-strategies.md:395`). `CanariesAssumption` says that the
queries of a list of metrics are a sequence, which `FlattenSeq` of the community modules
makes of it by a recursion that the provers do not unfold. `ThresholdsAssumption`
(`AnalysisProps`): the thresholds of a check reject what a bad canary shows. A user who
sets a threshold that everything passes has asked for no evidence.

**Scheduler.** `TypeOK` is not inductive by itself: a negative step, which a list of
weights that does not ascend produces, would drive the clamps the wrong way. `TypeInv`
adds that `increase` is reached with a positive step only, and `StepWeightsProofs` shows
that a positive step leads from splits to splits.

`SplitIsWhole` needs three facts more (`TrafficInv`). The tick's copy is whole too, as
every step starts from the copy. For that the routes must exist when they are read, which
holds from the tick's reconciliation on. And until the tick moves the traffic, the copy is
what the mesh serves, because users change everything but the routes; this is also why
`WeightStepsForward`, a statement about the routes, follows from a fact about the copy
(`IncreasedSplitForward`).

`FailuresWithinThreshold` needs that the copy's counter is in bounds, and strictly so at
the label that counts (`FailureInv`): the counter is written from the copy, not from the
status.

`Implements` needs to know, at each label that writes a phase, which phase the status has
and whether the primary exists (`LifeInv`: `CallPhases`, `SkipPhases`, `PrimaryExists`):
the tick decides on its copy, and the theorem is that no other writer makes the copy's
phase differ from the status in a way the lifecycle would notice. A lemma per kind of
step (`Stutters`, `Quiet`, `Becomes`, ...) turns what the step writes into a step of
`Lifecycle` or a stutter.

What the traffic finds is two invariants over the same ground. `RoutesInv` says where the
traffic is: bare (nothing on the canary, no mirror) in each phase that rests and at each
call that follows one that moved it, or the mark of the handler that was cut short is set.
`PodsInv` says where the pods are: the target has some in every phase of a rollout, or a
handler that scaled it down was cut. Neither of the two statements the runs check is
inductive: that a Succeeded canary has no traffic depends on what `setFinalising` found,
and that in turn on the phase the promoting tick was in. `ServingInv` joins them with the
types, `LifeInv` and `TrafficInv`, as the phase alone does not tell which call wrote it.
`ApexInv` adds when the apex Service may still select the target: before the first status
after the primary's creation, and in the one rollback that may come before, which only a
`SetRoutes` that succeeds lets as far as scaling (`RoutedEarly`); without routes it ends
at once.

`SucceededMeansPromoted` needs `PromotedInv`: from `Promote` to the status that records it
the primary runs the *applied* revision and only from there the promoted one, unless a
push overtook the tick. `PromotionGate` needs `GateInv`: the copy's counter is the
status's until the tick writes it (`CopiesTell`), a counter at its end tells of traffic on
the canary unless a handler took it back (`CounterTells`), and at `promote` the analysis
is complete.

**Traffic.** `IInv` is one statement about all routers: an object that Flagger wrote reads
as `Shown(asked)`, that is, as the split that the last write stands for, with the mirror
where the router has one and all of the traffic where an NGINX match ignores the weight.
Each router has a lemma for `Reconcile`, `SetRoutes` and `GetRoutes`, from the rules it
writes and not from examples of them, and the strategies are then proved against
`Shown` alone. The rest of `IInv` is what that needs: the weights asked for add up to 100
and a mirror goes with none of them (`Asked`); an object that Flagger did not write is a
user's VirtualService before the first tick (`Read`); the status that Knative's weights
are read from adds up to 100 too; the iterations that count were the canary's unless the
routes were reset (`Counted`); a tick mints a cookie only where the status has none, and
Blue/Green none while its iterations count (`Minting`), from which `OneCookie` follows by counting lost writes.

`ClientsStay` needs `Staying`: the sticky rules come before the weighted one, with the
cookie of the status, and that is one of this rollout or, after a lost write, an earlier
one's. `TrafficAsAsked` needs `Shaped`: the rule that is read is the one that requests
under analysis take, and with a match the others find a rule of the primary. It is kept
apart from the weights, which `Read` already has. `RestoresOriginal` needs `Restorable`:
until the service is edited the user's rules are in the object or in its annotation, and
in the latter case the object's own rules compare alike with those the next `Reconcile`
wants, so that it does not annotate them (`OwnRules`).

**Workloads.** `IndInv` adds to the types what the status holds once a canary has a phase
(`Recorded`) and which copies a tick holds at which call (`Control`), the rollback of an
initialization among them. `NoGap` follows with `TargetServes`, `PrimaryServes`,
`ApexServes` and `ServiceServes`: who wants pods at each call of the tick, so that
whichever of the two the apex Service selects has some; `FirstRollback` ties the one
exception before the switch to the calls, the phase or the cut it comes from. `AtRest`
needs `RestInv`, which carries "scaled down and paused, or left up" through the calls of a
tick that has not started a rollout. `FailureKeepsPrimary` needs `KeepInv`, which says it
of every phase: a rollout may fail in each of them, and once there is a phase only the
calls of a promotion, which leave `touched`, write the primary or its copy of the config. The
attempt to prove it showed a case beyond the bounds of the run: a primary written without
its config keeps referring to the target's, even when a promotion that failed later had
copied it; `SharesConfig` now says so.

**Controller.** `OneJob` is inductive given only the shape of the jobs (`JobsType`).
`Reverted` needs `RevertInv`: at each step of the finalization, what the steps before it
reverted still is, or a tick has undone it.

**Analysis.** `AcceptedRuns` is inductive with the types of the runner (`RunnerInv`): the
entry a goroutine deletes is one it will itself look for among the running. `TypeOK` needs
where the tick is: at a hook or a probe of its canary, or behind the last (`Typed`).
`PassedOnEvidence` says nothing before the tick has passed; `Earned` says it of every probe
answered so far. Its step is about data: what each provider's `RunQuery` takes from any
answer to a query over a window. An answer without numbers is an error for every provider
that `Misreads` does not name (`NothingIsError`), one number is the value (`SingleIsRead`),
and of buckets with nulls between them, however many, the value is one of the numbers
(`BucketIsRead`). `LastNumber` picks a position by its order and not by recursion, so that
this is proved for every answer and not for those TLC enumerates.

Each invariant has a lemma per group of actions and one case per action. TLC has checked
the invariants before they were proved, on the instances above.

Model-checked only: the liveness properties (`RolloutEnds`, `RevisionDecided`, `GatesOpen`,
`Completes`, `DeletionCompletes`, `OptInGetsFinalizer`, `JobFollowsSpec`,
`JobsOfRemovedEnd`, `Decided`, `LoadKeepsComing`), since liveness and whatever rests on
ENABLED is beyond the prover. Induction over data is out of reach as well; the one recursion
left in what the theorems use is `FlattenSeq`, about which `CanariesAssumption` says what is
needed. No module has a RECURSIVE operator.

## Not modelled

- *Generated and copied code.* Deep copies, clients, informers and the API types of the
  meshes are most of the lines under `pkg/apis` and `pkg/client`; they have no behaviour
  of this project's own. A model of them would restate data types.
- *Wording.* The text of queries, events, alerts, payloads and log lines; HTTP requests
  and credentials of metric providers, webhooks and notifiers. Outcomes are kept.
- *Service canaries*: the canary Service, which every tick makes equal to the target.
  *Knative*'s revision check; its promotion and router are in `Traffic`.
- *Data that no property tells apart*: replica counts, labels, ports, conditions,
  destination rules and other companion objects, TCP routes, the fields of a pod spec that
  refer to configs, units of time in metric intervals.
- *Load tester*: gate handlers, which set a flag each; concord and ngrinder tasks; what a
  command does.
- `spec.suspend`, the recorder's metrics, notifiers: written and never read back.
- *Start-up and leader election*, which is the library's.

## Plan

1. From the liveness properties, the safety part that can be proved: a measure that every
   tick of a rollout without faults makes smaller, as an action property.
2. What `Scheduler` reduces and the other modules keep: that the tick of `Traffic`, and
   that of `Workloads`, are steps of the tick in `Scheduler`.
