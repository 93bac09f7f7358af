--------------------------- MODULE AnalysisProps ---------------------------
(***************************************************************************)
(* What an analysis promises: that it passes on evidence of a healthy      *)
(* canary, that the load tester runs what it accepted, and that the load   *)
(* test keeps a healthy canary's analysis going.                           *)
(***************************************************************************)
EXTENDS Analysis

(***************************************************************************)
(* The states of the tick, the load tester and the window.  A hook is       *)
(* called once and then as often again as its retries say.                 *)
(***************************************************************************)
TypeOK ==
  /\ canary \in Canaries
  /\ health \in Health
  /\ window \subseteq Health
  /\ pc \in {"idle", "hooks", "checks", "passed", "failed"}
  /\ next \in 1..(1 + Len(Hooks) + Len(Checks))
  /\ attempt \in Nat /\ (InHooks => attempt <= Hook.retries)
  /\ \A i \in DOMAIN evidence : evidence[i] \subseteq Health
  /\ faults \in 0..MaxFaults
  /\ todo \subseteq Tasks
  /\ running \subseteq Tasks
  /\ worker \in [Workers -> Goroutine]
  /\ owed \subseteq Tasks

(***************************************************************************)
(* A task HandleNewTask answered 202 for is not forgotten: until it starts *)
(* or is found running, it is on the to-do list or a goroutine is on its   *)
(* way to start it, whatever entries Add, runAll, and goroutines of the    *)
(* same task store and delete in between (runner.go).                      *)
(***************************************************************************)
AcceptedRuns ==
  \A t \in owed :
    \/ t \in todo
    \/ \E w \in Workers : Serves(w, t) /\ worker[w].at \in {"load", "store"}

-----------------------------------------------------------------------------
\* The queries whose answer without data is taken for a value, 0, which a
\* ceiling accepts: RunQuery of influxdb without rows, and of datadog and
\* dynatrace with a null.
Defaulting == {"influxdb", "datadog", "dynatrace"}

\* A check that rejects nothing: a range without ends.
Boundless(m) == m.range /\ m.min \cup m.max = {}

Misreads(c, probe) ==
  \/ Boundless(probe.metric)
  \/ probe.from \in Defaulting
  \/ /\ probe.from = "observer"
     /\ Selected(c) # {"canary"}

\* The thresholds tell a bad canary from a good one: what its requests show does not
\* pass.
ASSUME ThresholdsAssumption ==
  \A c \in Canaries : \A i \in DOMAIN Probes(c.metrics) :
    LET probe == Probes(c.metrics)[i]
    IN  Misreads(c, probe) \/ ~Passes(probe, Reading(probe.rule, "bad"))

(***************************************************************************)
(* An analysis does not pass without evidence: each of its checks, outside *)
(* the ones named above, was made when the canary's own pods had served    *)
(* requests in the window, some of them well, and only well if the query   *)
(* returns one number for the window (runAnalysis, the checks of           *)
(* scheduler_metrics.go, the observers and the providers' RunQuery).       *)
(***************************************************************************)
PassedOnEvidence ==
  pc = "passed" =>
    /\ Len(evidence) = Len(Checks)
    /\ \A i \in DOMAIN evidence :
         ~Misreads(canary, Checks[i]) =>
           IF Checks[i].from \in Bucketed THEN "good" \in evidence[i]
           ELSE evidence[i] = {"good"}

(***************************************************************************)
(* webhooks.md: "If the target workload doesn't receive any traffic during *)
(* the canary analysis, Flagger metric checks will fail" - for the built-  *)
(* in success rate, with any mesh provider and any kind of workload.       *)
(***************************************************************************)
NoTrafficNoPass ==
  \A i \in DOMAIN evidence :
    Checks[i].from = "observer" => evidence[i] # {}

-----------------------------------------------------------------------------
\* A load test among the hooks, ahead of checks that a healthy canary passes.
Testable ==
  /\ \E i \in DOMAIN Hooks : Hooks[i].task \in Tasks
  /\ \A i \in DOMAIN Hooks : Hooks[i].task \in Tasks
  /\ \A i \in DOMAIN Checks :
       /\ Checks[i].from # "unusable"
       /\ Checks[i].from = "observer" =>
            Selected(canary) # {}

(***************************************************************************)
(* With a load test as a rollout hook, the analysis of a canary that stays *)
(* healthy passes again and again, also when nobody else calls it: tick    *)
(* after tick the hook finds the command running, or starts it again, and  *)
(* the queries find its requests (webhooks.md, "Load Testing").            *)
(***************************************************************************)
LoadKeepsComing ==
  <>[](health = "good") /\ Testable => []<>(pc = "passed")

=============================================================================
