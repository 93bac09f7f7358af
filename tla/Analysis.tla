------------------------------ MODULE Analysis ------------------------------
(***************************************************************************)
(* The analysis of a tick, runAnalysis, with what it depends on: the       *)
(* rollout webhooks are called in order over a network that loses requests *)
(* and answers, the load tester runs what they ask for, the load leaves    *)
(* requests in the window the metric queries look at, and the checks read  *)
(* them one query after the other.                                         *)
(*                                                                         *)
(* The window of the queries is the interval of the analysis: a tick's     *)
(* queries see what was served since those of the tick before.             *)
(***************************************************************************)
EXTENDS MetricChecks, LoadTester, FiniteSets

CONSTANTS Canaries,     \* the canaries: [kind, mesh, named, hooks, metrics]
          MaxFaults     \* lost calls, restarts of the load tester (a bound)

\* A rollout hook is [task, retries]; a command in the background has a task, a
\* blocking one has Blocking, and a type nobody registered Unknown.
Blocking == "bash"
Unknown  == "unknown"

Webhooks == [task : Tasks \cup {Blocking, Unknown}, retries : Nat]

\* Every canary has a list of hooks, and its metrics lead to a list of probes.
ASSUME CanariesAssumption ==
  /\ MaxFaults \in Nat
  /\ \A c \in Canaries :
       /\ c.hooks \in Seq(Webhooks)
       /\ Probes(c.metrics) \in Seq(ToSet(Probes(c.metrics)))

VARIABLES canary,    \* the canary under analysis
          health,    \* whether its pods answer well, "good" or "bad"
          window,    \* how they answered the requests in the window
          pc,        \* where the tick is
          next,      \* the next webhook or probe
          attempt,   \* calls of the webhook so far
          evidence,  \* history: the windows this tick's queries have seen
          faults     \* faults so far

vars == <<canary, health, window, pc, next, attempt, evidence, faults, runner>>

Health == {"good", "bad"}

Hooks  == canary.hooks
Checks == Probes(canary.metrics)

Loaded == \E w \in Workers : At(w, "run")

Init ==
  /\ canary \in Canaries
  /\ health = "good"
  /\ window = {}
  /\ pc = "idle"
  /\ next = 1
  /\ attempt = 0
  /\ evidence = <<>>
  /\ faults = 0
  /\ RunnerInit

-----------------------------------------------------------------------------
\* The pods.

Request ==
  /\ window' = window \cup {health}
  /\ UNCHANGED <<canary, health, pc, next, attempt, evidence, faults, runner>>

Turn ==
  /\ health' \in Health \ {health}
  /\ window' = IF Loaded THEN window \cup {health'} ELSE window
  /\ UNCHANGED <<canary, pc, next, attempt, evidence, faults, runner>>

-----------------------------------------------------------------------------
\* The load tester.

tick == <<canary, health, pc, next, attempt, evidence>>

RunAll(w) ==
  /\ \E t \in Tasks : Spawn(w, t)
  /\ UNCHANGED <<tick, window, faults>>

Work(w) ==
  /\ \/ Goes(w) /\ window' = window
     \/ StoreRunning(w) /\ window' = window \cup {health}
  /\ UNCHANGED <<tick, faults>>

Restart ==
  /\ faults < MaxFaults
  /\ faults' = faults + 1
  /\ RestartRunner
  /\ UNCHANGED <<tick, window>>

-----------------------------------------------------------------------------
\* The tick.

Start ==
  /\ pc = "idle"
  /\ pc' = "hooks"
  /\ next' = 1
  /\ attempt' = 0
  /\ evidence' = <<>>
  /\ UNCHANGED <<canary, health, window, faults, runner>>

Hook == Hooks[next]

InHooks == pc = "hooks" /\ next <= Len(Hooks)

\* What HandleNewTask answers: the statuses of a background command, of a
\* blocking one, and nothing for an unknown type, on which the look-up of the
\* task's factory panics.
Answers(task) ==
  CASE task = Blocking -> {200, 500}
    [] task = Unknown  -> {}
    [] OTHER           -> {202}

Handled ==
  IF Hook.task \in Tasks THEN Add(Hook.task) ELSE UNCHANGED runner

\* callWebhook has its answer: up to 202 is a success.
Answered ==
  /\ InHooks
  /\ Handled
  /\ Answers(Hook.task) \cap 0..202 # {}
  /\ next' = next + 1
  /\ attempt' = 0
  /\ UNCHANGED <<canary, health, window, pc, evidence, faults>>

\* The verdict is the end of a tick: its requests leave the window.
Verdict(v) ==
  /\ pc' = v
  /\ window' = IF Loaded THEN {health} ELSE {}

\* A change the properties must notice: no limit to the retries.
RetryForever == attempt' = attempt + 1 /\ UNCHANGED <<pc, window>>

\* The client sends the request again after an error of the server or of the
\* network, as long as it has retries.
Retry ==
  IF attempt < Hook.retries
  THEN attempt' = attempt + 1 /\ UNCHANGED <<pc, window>>
  ELSE Verdict("failed") /\ attempt' = attempt

Refused ==
  /\ InHooks
  /\ 500 \in Answers(Hook.task) \/ Hook.task = Unknown
  /\ Handled
  /\ Retry
  /\ UNCHANGED <<canary, health, next, evidence, faults>>

\* The request is lost, or its answer is, and the client times out.
Lost ==
  /\ InHooks
  /\ faults < MaxFaults
  /\ faults' = faults + 1
  /\ UNCHANGED runner \/ Handled
  /\ Retry
  /\ UNCHANGED <<canary, health, next, evidence>>

HooksDone ==
  /\ pc = "hooks"
  /\ next > Len(Hooks)
  /\ pc' = "checks"
  /\ next' = 1
  /\ UNCHANGED <<canary, health, window, attempt, evidence, faults, runner>>

\* How the requests in a window show in a metric: the share of them that was
\* answered well for a floor, that was not or the time it took for a ceiling.
Reading(rule, h) ==
  IF rule = "floor" THEN (IF h = "good" THEN 100 ELSE 10)
  ELSE IF h = "good" THEN 1 ELSE 900

Worst(W) == IF "bad" \in W THEN "bad" ELSE "good"

\* The answers of a backend with one number per query, and with one per bucket;
\* without data each has its own way to say so.
Single(rule, W) == <<<<Reading(rule, Worst(W))>>>>

Buckets(rule, W) ==
  LET rs == { Reading(rule, h) : h \in W }
  IN  { <<s>> : s \in UNION { SetToSeqs(rs),
                              { Append(q, Null) : q \in SetToSeqs(rs) },
                              { <<Null>> \o q : q \in SetToSeqs(rs) } } }

Bucketed == {"datadog", "graphite", "dynatrace", "splunk"}

Empty(from) ==
  CASE from \in Bucketed -> {<<>>, << <<>> >>, << <<Null>> >>}
    [] from \in {"influxdb", "newrelic", "keptn"} -> {<<>>, << <<Null>> >>}
    [] from \in {"externalmetrics", "cloudwatch", "stackdriver"} -> {<<>>}
    [] OTHER -> {<<>>, << <<NaN>> >>}

\* The workloads whose requests the built-in queries count.
Selected(c) == Selects(c.mesh, c.kind, c.named)

\* Those of the requests in window W that the query counts.  Users keep calling the
\* primary, and it answers well.
Seen(c, probe, W) ==
  IF probe.from = "observer"
  THEN (IF "canary" \in Selected(c) THEN W ELSE {})
         \cup (IF "primary" \in Selected(c) THEN {"good"} ELSE {})
  ELSE W

Data(c, probe, W) ==
  LET V == Seen(c, probe, W)
  IN  IF V = {} THEN Empty(probe.from)
      ELSE IF probe.from \in Bucketed THEN Buckets(probe.rule, V)
      ELSE {Single(probe.rule, V)}

\* One query and its check.
Ask ==
  /\ pc = "checks"
  /\ next <= Len(Checks)
  /\ \E answer \in Data(canary, Checks[next], window) :
       IF Accepts(Checks[next], answer)
       THEN /\ next' = next + 1
            /\ evidence' = Append(evidence, window)
            /\ UNCHANGED <<pc, window>>
       ELSE Verdict("failed") /\ UNCHANGED <<next, evidence>>
  /\ UNCHANGED <<canary, health, attempt, faults, runner>>

QueryFails ==
  /\ pc = "checks"
  /\ next <= Len(Checks)
  /\ faults < MaxFaults
  /\ faults' = faults + 1
  /\ Verdict("failed")
  /\ UNCHANGED <<canary, health, next, attempt, evidence, runner>>

Pass ==
  /\ pc = "checks"
  /\ next > Len(Checks)
  /\ Verdict("passed")
  /\ UNCHANGED <<canary, health, next, attempt, evidence, faults, runner>>

Wait ==
  /\ pc \in {"passed", "failed"}
  /\ pc' = "idle"
  /\ UNCHANGED <<canary, health, window, next, attempt, evidence, faults, runner>>

Tick ==
  \/ Start \/ Answered \/ Refused \/ HooksDone \/ Ask \/ Pass \/ Wait

Next ==
  \/ Request
  \/ Turn
  \/ \E w \in Workers : RunAll(w) \/ Work(w)
  \/ Restart
  \/ Tick
  \/ Lost
  \/ QueryFails

Spec == Init /\ [][Next]_vars

\* The tick and the load tester go on, and a command ends in time; faults,
\* users and the health of the pods owe nothing.
Fairness ==
  /\ WF_vars(Tick)
  /\ \A w \in Workers : WF_vars(RunAll(w)) /\ WF_vars(Work(w))

FairSpec == Spec /\ Fairness
=============================================================================
