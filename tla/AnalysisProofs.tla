---------------------------- MODULE AnalysisProofs ----------------------------
(***************************************************************************)
(* For every set of canaries, probes, tasks and goroutines: the types of a *)
(* tick and of the task runner, that the runner forgets no task it         *)
(* accepted, and that a check passes a canary only on what it measured     *)
(* while the canary was good.                                              *)
(***************************************************************************)
EXTENDS AnalysisProps, FiniteSetTheorems, TLAPS

\* What the proof needs of the types: a goroutine that is not free has a task.
RunnerType ==
  /\ todo \subseteq Tasks
  /\ owed \subseteq Tasks
  /\ worker \in [Workers -> Goroutine]

RunnerInv == RunnerType /\ AcceptedRuns

\* One goroutine's turn, of those that do not start the command.
LEMMA GoesKeeps ==
  ASSUME RunnerInv, NEW w \in Workers, Goes(w) \/ StoreRunning(w)
  PROVE  RunnerInv'
<1> USE DEF RunnerInv, RunnerType, AcceptedRuns, Goroutine, Steps, Free, At, Serves, Move
<1>1. CASE DeleteTodo(w)
  <2>1. worker[w].at = "delete" /\ worker[w] # Free /\ worker[w].task \in Tasks
    BY <1>1 DEF DeleteTodo
  <2>2. worker' = [worker EXCEPT ![w].at = "load"] /\ todo' = todo \ {worker[w].task}
        /\ owed' = owed
    BY <1>1 DEF DeleteTodo
  <2> QED BY <2>1, <2>2
<1>2. CASE LoadRunning(w)
  <2>1. worker[w].at = "load" /\ worker[w] # Free /\ worker[w].task \in Tasks /\ todo' = todo
    BY <1>2 DEF LoadRunning
  <2>2. CASE worker[w].task \in running
    <3>1. /\ worker' = [worker EXCEPT ![w] = Free]
          /\ owed' = IF worker[w].task \in todo THEN owed ELSE owed \ {worker[w].task}
      BY <1>2, <2>2 DEF LoadRunning
    <3> QED BY <2>1, <3>1
  <2>3. CASE worker[w].task \notin running
    <3>1. worker' = [worker EXCEPT ![w].at = "store"] /\ owed' = owed
      BY <1>2, <2>3 DEF LoadRunning
    <3> QED BY <2>1, <3>1
  <2> QED BY <2>2, <2>3
<1>3. CASE DeleteRunning(w)
  BY <1>3 DEF DeleteRunning
<1>4. CASE StoreRunning(w)
  BY <1>4 DEF StoreRunning
<1> QED BY <1>1, <1>2, <1>3, <1>4 DEF Goes

LEMMA AddKeeps ==
  ASSUME RunnerInv, NEW t \in Tasks, Add(t)
  PROVE  RunnerInv'
BY DEF RunnerInv, RunnerType, AcceptedRuns, Add, Serves, Free

LEMMA UnchangedKeeps ==
  ASSUME RunnerInv, UNCHANGED runner
  PROVE  RunnerInv'
BY DEF RunnerInv, RunnerType, AcceptedRuns, runner, Serves, Free

\* What the load tester does with a request, whether its answer arrives or not.
LEMMA HandledKeeps ==
  ASSUME RunnerInv, Handled
  PROVE  RunnerInv'
BY AddKeeps, UnchangedKeeps DEF Handled

LEMMA NextKeeps ==
  ASSUME RunnerInv, [Next]_vars
  PROVE  RunnerInv'
<1>1. ASSUME NEW w \in Workers, RunAll(w) PROVE RunnerInv'
  <2>1. PICK t \in Tasks : Spawn(w, t) BY <1>1 DEF RunAll
  <2> QED BY <2>1 DEF Spawn, RunnerInv, RunnerType, AcceptedRuns, Goroutine, Steps, Free, Serves
<1>2. ASSUME NEW w \in Workers, Work(w) PROVE RunnerInv'
  BY <1>2, GoesKeeps DEF Work
<1>3. CASE Restart
  BY <1>3 DEF Restart, RestartRunner, RunnerInv, RunnerType, AcceptedRuns, Goroutine
<1>4. CASE Answered \/ Refused \/ Lost
  BY <1>4, HandledKeeps, UnchangedKeeps DEF Answered, Refused, Lost
<1>5. CASE Request \/ Turn \/ Start \/ HooksDone \/ Ask \/ Pass \/ Wait \/ QueryFails \/ UNCHANGED vars
  BY <1>5, UnchangedKeeps DEF Request, Turn, Start, HooksDone, Ask, Pass, Wait, QueryFails, vars, runner
<1> QED BY <1>1, <1>2, <1>3, <1>4, <1>5 DEF Next, Tick

\* A task the load tester answered 202 for starts, is found running, or is still on
\* its way, however the goroutines of HandleNewTask, the ticker and the tasks
\* interleave on the two maps of TaskRunner.
THEOREM AcceptedTasksRun == Spec => []AcceptedRuns
<1>1. Init => RunnerInv
  BY DEF Init, RunnerInit, RunnerInv, RunnerType, AcceptedRuns, Goroutine
<1>2. RunnerInv /\ [Next]_vars => RunnerInv'
  BY NextKeeps
<1>3. RunnerInv => AcceptedRuns
  BY DEF RunnerInv
<1> QED BY <1>1, <1>2, <1>3, PTL DEF Spec

------------------------------------------------------------------------------
\* Types.

Evidence == Seq(SUBSET Health)

\* A tick is at a hook or a probe of its canary, or behind the last one.
Typed ==
  /\ canary \in Canaries
  /\ health \in Health /\ window \subseteq Health
  /\ pc \in {"idle", "hooks", "checks", "passed", "failed"}
  /\ next \in 1..(1 + Len(Hooks) + Len(Checks))
  /\ pc = "hooks" => next <= 1 + Len(Hooks)
  /\ pc = "checks" => next <= 1 + Len(Checks)
  /\ attempt \in Nat /\ (InHooks => attempt <= Hook.retries)
  /\ evidence \in Evidence
  /\ faults \in 0..MaxFaults
  /\ running \subseteq Tasks

LEMMA CanaryFacts ==
  ASSUME canary \in Canaries
  PROVE  /\ Hooks \in Seq(Webhooks) /\ Len(Hooks) \in Nat /\ Len(Checks) \in Nat
         /\ DOMAIN Checks = 1..Len(Checks)
         /\ InHooks /\ next \in Nat \ {0} => Hook.retries \in Nat
<1>1. /\ Hooks \in Seq(Webhooks) /\ Len(Hooks) \in Nat /\ DOMAIN Hooks = 1..Len(Hooks)
      /\ Len(Checks) \in Nat /\ DOMAIN Checks = 1..Len(Checks)
  BY CanariesAssumption DEF Hooks, Checks
<1>2. ASSUME InHooks, next \in Nat \ {0} PROVE Hook.retries \in Nat
  <2>1. Hook \in Webhooks
    BY <1>1, <1>2 DEF Hook, InHooks
  <2> QED BY <2>1 DEF Webhooks
<1> QED BY <1>1, <1>2

LEMMA InitTyped == ASSUME Init PROVE Typed
<1>1. canary \in Canaries /\ Len(Hooks) \in Nat /\ Len(Checks) \in Nat
  BY CanaryFacts DEF Init
<1> QED BY <1>1, CanariesAssumption DEF Init, Typed, Health, InHooks, Evidence, RunnerInit

\* The tick's own variables after a call that leaves the tick where it is.
LEMMA RetryTyped ==
  ASSUME Typed, InHooks, Retry, UNCHANGED <<canary, health, next, evidence>>, faults' \in 0..MaxFaults,
         running' \subseteq Tasks
  PROVE  Typed'
<1>1. /\ canary \in Canaries /\ Len(Hooks) \in Nat /\ Len(Checks) \in Nat /\ Hook.retries \in Nat
      /\ attempt \in Nat /\ attempt <= Hook.retries
      /\ Hooks' = Hooks /\ Checks' = Checks /\ Hook' = Hook
  BY CanaryFacts DEF Typed, Hooks, Checks, Hook
<1>2. CASE attempt < Hook.retries
  <2>1. attempt' = attempt + 1 /\ pc' = pc /\ window' = window
    BY <1>2 DEF Retry
  <2> QED BY <1>1, <1>2, <2>1 DEF Typed, InHooks
<1>3. CASE ~(attempt < Hook.retries)
  <2>1. attempt' = attempt /\ pc' = "failed" /\ window' \in {{health}, {}}
    BY <1>3 DEF Retry, Verdict
  <2> QED BY <1>1, <2>1 DEF Typed, InHooks
<1> QED BY <1>2, <1>3

LEMMA NextTyped ==
  ASSUME Typed, RunnerType, [Next]_vars PROVE Typed'
<1>0. /\ canary \in Canaries /\ Len(Hooks) \in Nat /\ Len(Checks) \in Nat
      /\ canary' = canary /\ Hooks' = Hooks /\ Checks' = Checks
  <2>1. canary' = canary
    BY DEF Next, Tick, RunAll, Work, Request, Turn, Restart, Start, Answered, Refused, Lost, HooksDone,
       Ask, QueryFails, Pass, Wait, tick, vars
  <2> QED BY <2>1, CanaryFacts DEF Typed, Hooks, Checks
<1>t. ASSUME UNCHANGED <<health, pc, next, attempt, evidence>>, window' \subseteq Health,
             faults' \in 0..MaxFaults, running' \subseteq Tasks
      PROVE  Typed'
  <2>1. InHooks' = InHooks /\ Hook' = Hook
    BY <1>0, <1>t DEF InHooks, Hook
  <2> QED BY <1>0, <1>t, <2>1 DEF Typed
<1>1. CASE Request
  BY <1>1, <1>t DEF Request, runner, Typed
<1>2. CASE Turn
  <2>1. /\ health' \in Health /\ window' \in {window \cup {health'}, window} /\ running' = running
        /\ UNCHANGED <<pc, next, attempt, evidence, faults>>
    BY <1>2 DEF Turn, runner
  <2>2. InHooks' = InHooks /\ Hook' = Hook
    BY <1>0, <2>1 DEF InHooks, Hook
  <2> QED BY <1>0, <2>1, <2>2 DEF Typed
<1>3. ASSUME NEW w \in Workers, RunAll(w) PROVE Typed'
  <2>1. running' = running /\ UNCHANGED <<tick, window, faults>>
    BY <1>3 DEF RunAll, Spawn
  <2> QED BY <2>1, <1>t DEF tick, Typed
<1>4. ASSUME NEW w \in Workers, Work(w) PROVE Typed'
  <2>1. UNCHANGED <<tick, faults>> /\ window' \in {window, window \cup {health}}
    BY <1>4 DEF Work
  <2>2. running' \subseteq Tasks
    <3>1. CASE Goes(w)
      BY <3>1 DEF Goes, DeleteTodo, LoadRunning, DeleteRunning, Typed
    <3>2. CASE StoreRunning(w)
      <4>1. running' = running \cup {worker[w].task} /\ worker[w].at = "store"
        BY <3>2 DEF StoreRunning, At
      <4>2. worker[w] \in Goroutine /\ worker[w] # Free
        BY <4>1 DEF RunnerType, Free
      <4> QED BY <4>1, <4>2 DEF Goroutine, Typed
    <3> QED BY <1>4, <3>1, <3>2 DEF Work
  <2> QED BY <2>1, <2>2, <1>t DEF tick, Typed
<1>5. CASE Restart
  BY <1>5, <1>t, CanariesAssumption DEF Restart, RestartRunner, tick, Typed
<1>6. CASE Start
  <2>1. InHooks' => Hook'.retries \in Nat
    <3>1. next' = 1 /\ Hooks \in Seq(Webhooks)
      BY <1>6, CanaryFacts DEF Start, Typed
    <3>2. InHooks' => Hook' \in Webhooks
      BY <1>0, <3>1 DEF InHooks, Hook
    <3> QED BY <3>2 DEF Webhooks
  <2> QED BY <1>0, <1>6, <2>1 DEF Start, Typed, runner, Evidence
<1>7. CASE Answered
  <2>1. /\ InHooks /\ next' = next + 1 /\ attempt' = 0 /\ running' = running
        /\ UNCHANGED <<health, window, pc, evidence, faults>>
    BY <1>7 DEF Answered, Handled, Add, runner
  <2>2. InHooks' => Hook'.retries \in Nat
    <3>1. next' \in Nat \ {0} /\ Hooks \in Seq(Webhooks)
      BY <2>1, CanaryFacts DEF Typed
    <3>2. InHooks' => Hook' \in Webhooks
      BY <1>0, <3>1 DEF InHooks, Hook
    <3> QED BY <3>2 DEF Webhooks
  <2> QED BY <1>0, <2>1, <2>2 DEF Typed, InHooks
<1>8. CASE Refused \/ Lost
  <2>1. /\ InHooks /\ Retry /\ UNCHANGED <<canary, health, next, evidence>>
        /\ running' = running /\ (faults' = faults \/ (faults < MaxFaults /\ faults' = faults + 1))
    BY <1>8 DEF Refused, Lost, Handled, Add, runner
  <2> QED BY <2>1, RetryTyped, CanariesAssumption DEF Typed
<1>9. CASE HooksDone
  BY <1>0, <1>9 DEF HooksDone, Typed, runner, InHooks
<1>10. CASE Ask
  <2>1. /\ pc = "checks" /\ next <= Len(Checks) /\ running' = running
        /\ UNCHANGED <<health, attempt, faults>>
        /\ \/ /\ next' = next + 1 /\ evidence' = Append(evidence, window)
              /\ UNCHANGED <<pc, window>>
           \/ Verdict("failed") /\ UNCHANGED <<next, evidence>>
    BY <1>10 DEF Ask, runner
  <2>2. evidence' \in Evidence
    BY <2>1 DEF Typed, Evidence
  <2>3. window' \subseteq Health /\ pc' \in {"checks", "failed"}
    BY <2>1 DEF Verdict, Typed
  <2> QED BY <1>0, <2>1, <2>2, <2>3 DEF Typed, InHooks
<1>11. CASE QueryFails \/ Pass
  <2>1. /\ pc' \in {"failed", "passed"} /\ window' \in {{health}, {}} /\ running' = running
        /\ UNCHANGED <<health, next, attempt, evidence>>
        /\ faults' = faults \/ (faults < MaxFaults /\ faults' = faults + 1)
    BY <1>11 DEF QueryFails, Pass, Verdict, runner
  <2> QED BY <1>0, <2>1, CanariesAssumption DEF Typed, InHooks
<1>12. CASE Wait
  BY <1>0, <1>12 DEF Wait, Typed, runner, InHooks
<1>13. CASE UNCHANGED vars
  BY <1>t, <1>13 DEF vars, runner, Typed
<1> QED BY <1>1, <1>2, <1>3, <1>4, <1>5, <1>6, <1>7, <1>8, <1>9, <1>10, <1>11, <1>12, <1>13 DEF Next, Tick

LEMMA TypesAndRunner == Spec => [](Typed /\ RunnerInv)
<1>1. Init => Typed
  BY InitTyped
<1>2. Init => RunnerInv
  BY DEF Init, RunnerInit, RunnerInv, RunnerType, AcceptedRuns, Goroutine
<1>3. RunnerInv /\ [Next]_vars => RunnerInv'
  BY NextKeeps
<1>4. Typed /\ RunnerInv /\ [Next]_vars => Typed'
  BY NextTyped DEF RunnerInv
<1> QED BY <1>1, <1>2, <1>3, <1>4, PTL DEF Spec

\* The tick never calls a webhook more often than its retries say.
THEOREM TypesHold == Spec => []TypeOK
<1>1. Typed /\ RunnerInv => TypeOK
  BY DEF Typed, RunnerInv, RunnerType, TypeOK, Evidence
<1> QED BY <1>1, TypesAndRunner, PTL

------------------------------------------------------------------------------
\* What an answer with one number, or one series, is read as.

Shows(rule, W) == {Reading(rule, h) : h \in W}

LEMMA ReadingIs ==
  ASSUME NEW rule, NEW h
  PROVE  Reading(rule, h) \in {1, 10, 100, 900}
BY DEF Reading

\* The last number of an answer of one series, at point k of it.
LEMMA LastOfSeries ==
  ASSUME NEW s, NEW n \in Nat, DOMAIN s = 1..n, NEW k \in 1..n, s[k] # Null,
         \A j \in 1..n : j > k => s[j] = Null
  PROVE  /\ Numbers(<<s>>) # {} /\ LastNumber(<<s>>) = s[k]
         /\ Cardinality({m[1] : m \in Numbers(<<s>>)}) = 1
<1> DEFINE r == <<s>>
           N == Numbers(r)
           top(m) == \A q \in N : q[1] < m[1] \/ (q[1] = m[1] /\ q[2] <= m[2])
           last == CHOOSE m \in N : top(m)
<1>1. DOMAIN r = {1} /\ r[1] = s
  OBVIOUS
<1>2. N = {m \in {1} \X (1..n) : s[m[2]] # Null}
  <2>1. UNION {{i} \X DOMAIN r[i] : i \in DOMAIN r} = {1} \X (1..n)
    BY <1>1
  <2>2. \A m \in {1} \X (1..n) : m[1] = 1
    OBVIOUS
  <2> HIDE DEF r
  <2> QED BY <1>1, <2>1, <2>2 DEF Numbers
<1> HIDE DEF r
<1>3. <<1, k>> \in N
  BY <1>2
<1>4. \A m \in N : m = <<1, m[2]>> /\ m[2] \in 1..n /\ m[2] <= k
  BY <1>2
<1> HIDE DEF N
<1>5. top(<<1, k>>)
  BY <1>4
<1>6. last \in N /\ top(last)
  BY <1>3, <1>5
<1> HIDE DEF last
<1>7. last = <<1, last[2]>> /\ k <= last[2] /\ last[2] <= k /\ last[2] \in 1..n
  BY <1>3, <1>4, <1>6
<1>8. last = <<1, k>>
  <2>1. last[2] = k
    BY <1>7
  <2> QED BY <1>7, <2>1
<1>9. LastNumber(r) = r[last[1]][last[2]]
  BY DEF LastNumber, last, N
<1>10. {m[1] : m \in N} = {1}
  BY <1>3, <1>4
<1>11. Cardinality({1}) = 1
  BY FS_Singleton
<1> QED BY <1>1, <1>3, <1>8, <1>9, <1>10, <1>11 DEF r, N

LEMMA LastOfOne ==
  ASSUME NEW x, x # Null
  PROVE  Numbers(<<<<x>>>>) # {} /\ LastNumber(<<<<x>>>>) = x
<1> DEFINE s == <<x>>
<1>1. 1 \in Nat /\ DOMAIN s = 1..1 /\ 1 \in 1..1 /\ s[1] = x /\ s[1] # Null
      /\ \A j \in 1..1 : j > 1 => s[j] = Null
  OBVIOUS
<1> HIDE DEF s
<1>2. LastNumber(<<s>>) = s[1]
  BY <1>1, LastOfSeries
<1>3. Numbers(<<s>>) # {}
  BY <1>1, LastOfSeries
<1> QED BY <1>1, <1>2, <1>3 DEF s

LEMMA FewAreFinite ==
  ASSUME NEW S, S \subseteq {1, 10, 100, 900}
  PROVE  IsFiniteSet(S)
<1>1. S \in SUBSET Nat /\ 900 \in Nat /\ \A s \in S : s <= 900
  OBVIOUS
<1> QED BY <1>1, FS_BoundedSetOfNaturals

LEMMA NoNumbers ==
  /\ Numbers(<<>>) = {} /\ Numbers(<<<<>>>>) = {} /\ Numbers(<<<<Null>>>>) = {}
  /\ LastNumber(<<<<NaN>>>>) = NaN
  /\ Cardinality({n[1] : n \in Numbers(<<>>)}) = 0
  /\ Cardinality({n[1] : n \in Numbers(<<<<>>>>)}) = 0
  /\ Cardinality({n[1] : n \in Numbers(<<<<Null>>>>)}) = 0
<1>1. Numbers(<<>>) = {}
  BY DEF Numbers
<1>2. Numbers(<<<<>>>>) = {}
  BY DEF Numbers
<1>3. Numbers(<<<<Null>>>>) = {}
  BY DEF Numbers
<1>4. LastNumber(<<<<NaN>>>>) = NaN
  <2>1. NaN # Null
    BY DEF NaN, Null
  <2> QED BY <2>1, LastOfOne
<1>5. {n[1] : n \in {}} = {} /\ Cardinality({}) = 0
  BY FS_EmptySet
<1> QED BY <1>1, <1>2, <1>3, <1>4, <1>5

\* Without data no provider has a value, except those that Misreads names.
LEMMA NothingIsError ==
  ASSUME NEW probe, probe.from \notin Defaulting, NEW answer \in Empty(probe.from)
  PROVE  Read(probe, answer).ok = FALSE
<1> DEFINE Goal == Read(probe, answer).ok = FALSE
           from == probe.from
<1>1. \A v : Given(FALSE, v).ok = FALSE
  BY DEF Given, Error
<1>2. from \notin {"influxdb", "datadog", "dynatrace"}
  BY DEF Defaulting
<1>u. Error.ok = FALSE
  BY DEF Error
<1>3. CASE from \in {"graphite", "splunk"}
  <2>1. answer \in {<<>>, <<<<>>>>, <<<<Null>>>>}
    BY <1>3 DEF Empty, Bucketed
  <2>2. Numbers(answer) = {} /\ Cardinality({n[1] : n \in Numbers(answer)}) = 0
    BY <2>1, NoNumbers
  <2>3. Read(probe, answer) \in {Graphite(answer), Splunk(answer)}
    BY <1>3 DEF Read, RunQuery
  <2>4. Graphite(answer).ok = FALSE
    BY <1>1, <2>2 DEF Graphite
  <2>5. Splunk(answer).ok = FALSE
    <3>1. (Cardinality({n[1] : n \in Numbers(answer)}) = 1) <=> FALSE
      BY <2>2
    <3> QED BY <1>1, <3>1 DEF Splunk
  <2> QED BY <2>3, <2>4, <2>5
<1>4. CASE from \in {"newrelic", "keptn"}
  <2>1. answer \in {<<>>, <<<<Null>>>>}
    BY <1>4 DEF Empty, Bucketed
  <2>2. ~(HasFirst(answer) /\ answer[1][1] # Null)
    BY <2>1 DEF HasFirst
  <2>3. Read(probe, answer) \in {NewRelic(answer), Keptn(answer)}
    BY <1>4 DEF Read, RunQuery
  <2>4. Keptn(answer).ok = FALSE /\ NewRelic(answer).ok = FALSE
    BY <2>2 DEF Keptn, NewRelic, Given, Error
  <2> QED BY <2>3, <2>4
<1>5. CASE from \in {"externalmetrics", "cloudwatch", "stackdriver"}
  <2>1. answer = <<>>
    BY <1>5 DEF Empty, Bucketed
  <2>2. ~HasFirst(answer)
    BY <2>1 DEF HasFirst
  <2>3. Read(probe, answer) \in {ExternalMetrics(answer), CloudWatch(answer), Stackdriver(answer)}
    BY <1>5 DEF Read, RunQuery
  <2>4. /\ ExternalMetrics(answer).ok = FALSE /\ CloudWatch(answer).ok = FALSE
        /\ Stackdriver(answer).ok = FALSE
    BY <2>2 DEF ExternalMetrics, CloudWatch, Stackdriver, Given, Error
  <2> QED BY <2>3, <2>4
<1>6. CASE from \notin {"graphite", "splunk", "newrelic", "keptn", "externalmetrics", "cloudwatch",
                        "stackdriver"}
  <2>1. answer \in {<<>>, <<<<NaN>>>>}
    BY <1>2, <1>6 DEF Empty, Bucketed
  <2>2. ~(Numbers(answer) # {} /\ LastNumber(answer) # NaN)
    BY <2>1, NoNumbers
  <2>3. Prometheus(answer).ok = FALSE
    BY <2>2 DEF Prometheus, Given, Error
  <2>4. Read(probe, answer) \in {Error, Prometheus(answer)}
    BY <1>2, <1>6 DEF Read, RunQuery
  <2> QED BY <1>u, <2>3, <2>4
<1> QED BY <1>3, <1>4, <1>5, <1>6

\* One number for the whole window is the value.
LEMMA SingleIsRead ==
  ASSUME NEW probe, probe.from \notin Defaulting \cup Bucketed \cup {"unusable"},
         NEW x, x \in {1, 10, 100, 900}
  PROVE  Read(probe, <<<<x>>>>) = Value(x)
<1> DEFINE r == <<<<x>>>>
           s == <<x>>
<1>1. x # Null /\ x # NaN /\ x # Int64
  BY DEF Null, NaN, Int64
<1>2. HasFirst(r) /\ r[1][1] = x /\ Len(r) = 1 /\ r = <<s>> /\ Len(s) = 1
      /\ DOMAIN r = {1} /\ r[1] = s
  BY DEF HasFirst
<1>3. Numbers(r) # {} /\ LastNumber(r) = x
  BY <1>1, LastOfOne
<1> HIDE DEF r, s
<1>4. Prometheus(r) = Value(x)
  <2>1. \A i \in DOMAIN r : Len(r[i]) <= 1
    BY <1>2
  <2> QED BY <1>1, <1>3, <2>1 DEF Prometheus, Given
<1>5. /\ CloudWatch(r) = Value(x) /\ ExternalMetrics(r) = Value(x) /\ Keptn(r) = Value(x)
      /\ NewRelic(r) = Value(x) /\ Stackdriver(r) = Value(x)
  BY <1>1, <1>2 DEF CloudWatch, ExternalMetrics, Keptn, NewRelic, Stackdriver, Given, Decoded
<1>6. Read(probe, r) \in {Prometheus(r), CloudWatch(r), ExternalMetrics(r), Keptn(r), NewRelic(r),
                         Stackdriver(r)}
  BY DEF Read, RunQuery, Defaulting, Bucketed
<1> QED BY <1>4, <1>5, <1>6 DEF r, s

\* Graphite and Splunk pick the number of a bucket, wherever the nulls are.
LEMMA BucketIsRead ==
  ASSUME NEW probe, probe.from \in {"graphite", "splunk"}, NEW rule, NEW W, W \subseteq Health, W # {},
         NEW answer \in Buckets(rule, W)
  PROVE  \E x \in Shows(rule, W) : Read(probe, answer) = Value(x)
<1> DEFINE rs == Shows(rule, W)
           Goal == \E x \in rs : Read(probe, answer) = Value(x)
<1>1. rs # {} /\ rs \subseteq {1, 10, 100, 900} /\ Null \notin rs
  BY ReadingIs DEF Shows, Null
<1>2. IsFiniteSet(rs)
  BY <1>1, FewAreFinite
<1> DEFINE n == Cardinality(rs)
<1>3. n \in Nat /\ n > 0
  BY <1>1, <1>2, FS_CardinalityType, FS_EmptySet
<1>4. PICK s : /\ answer = <<s>>
               /\ \/ s \in SetToSeqs(rs)
                  \/ s \in {Append(q, Null) : q \in SetToSeqs(rs)}
                  \/ s \in {<<Null>> \o q : q \in SetToSeqs(rs)}
  BY DEF Buckets, Shows
<1>5. SetToSeqs(rs) \subseteq [1..n -> rs]
  BY DEF SetToSeqs
<1> HIDE DEF n, rs
<1>6. ASSUME NEW m \in Nat, DOMAIN s = 1..m, NEW k \in 1..m, s[k] \in rs,
             \A j \in 1..m : j > k => s[j] = Null
      PROVE  Goal
  <2>1. s[k] # Null
    BY <1>1, <1>6
  <2>2. /\ Numbers(answer) # {} /\ LastNumber(answer) = s[k]
        /\ Cardinality({q[1] : q \in Numbers(answer)}) = 1
    BY <1>4, <1>6, <2>1, LastOfSeries
  <2>3. Graphite(answer) = Value(s[k]) /\ Splunk(answer) = Value(s[k])
    BY <2>2 DEF Graphite, Splunk, Given
  <2>4. Read(probe, answer) \in {Graphite(answer), Splunk(answer)}
    BY DEF Read, RunQuery
  <2> QED BY <1>6, <2>3, <2>4
<1>7. ASSUME s \in SetToSeqs(rs) PROVE Goal
  <2>1. s \in [1..n -> rs] /\ n \in 1..n
    BY <1>3, <1>5, <1>7
  <2>2. DOMAIN s = 1..n /\ s[n] \in rs /\ \A j \in 1..n : j > n => s[j] = Null
    BY <1>3, <2>1
  <2> HIDE DEF Goal
  <2> QED BY <1>3, <1>6, <2>1, <2>2
<1>8. ASSUME NEW q \in SetToSeqs(rs), s = Append(q, Null) PROVE Goal
  <2>1. q \in [1..n -> rs] /\ q \in Seq(rs) /\ Len(q) = n
    BY <1>3, <1>5
  <2>2. DOMAIN s = 1..(n + 1) /\ s[n] = q[n] /\ s[n + 1] = Null
    BY <1>3, <1>8, <2>1
  <2>3. s[n] \in rs /\ \A j \in 1..(n + 1) : j > n => s[j] = Null
    BY <1>3, <2>1, <2>2
  <2>4. n + 1 \in Nat /\ n \in 1..(n + 1)
    BY <1>3
  <2> HIDE DEF Goal
  <2> QED BY <1>6, <2>2, <2>3, <2>4
<1>9. ASSUME NEW q \in SetToSeqs(rs), s = <<Null>> \o q PROVE Goal
  <2>1. q \in [1..n -> rs] /\ q \in Seq(rs) /\ Len(q) = n
    BY <1>3, <1>5
  <2>2. DOMAIN s = 1..(n + 1) /\ s[n + 1] = q[n]
    BY <1>3, <1>9, <2>1
  <2>3. s[n + 1] \in rs /\ \A j \in 1..(n + 1) : j > n + 1 => s[j] = Null
    BY <1>3, <2>1, <2>2
  <2>4. n + 1 \in Nat /\ n + 1 \in 1..(n + 1)
    BY <1>3
  <2> HIDE DEF Goal
  <2> QED BY <1>6, <2>2, <2>3, <2>4
<1>10. Goal
  <2> HIDE DEF Goal
  <2>1. CASE \E q \in SetToSeqs(rs) : s = Append(q, Null)
    BY <1>8, <2>1
  <2>2. CASE \E q \in SetToSeqs(rs) : s = <<Null>> \o q
    BY <1>9, <2>2
  <2> QED BY <1>4, <1>7, <2>1, <2>2
<1> QED BY <1>10 DEF rs

\* A check that the exceptions do not name accepts only what a good canary shows.
Shown(probe, W) ==
  IF probe.from \in Bucketed THEN "good" \in W ELSE W = {"good"}

LEMMA AcceptedIsShown ==
  ASSUME NEW c, NEW probe, NEW W, W \subseteq Health, NEW answer \in Data(c, probe, W),
         Accepts(probe, answer), ~Misreads(c, probe),
         ~Passes(probe, Reading(probe.rule, "bad"))
  PROVE  Shown(probe, W)
<1> DEFINE from == probe.from
<1>1. /\ from \notin Defaulting
      /\ from = "observer" => Selected(c) = {"canary"}
  BY DEF Misreads
<1>2. /\ Read(probe, answer).ok
      /\ Passes(probe, Read(probe, answer).val)
  BY DEF Accepts
<1>3. from # "unusable"
  BY <1>2 DEF Read, Error
<1>4. Seen(c, probe, W) = W
  BY <1>1 DEF Seen
<1>5. W # {}
  <2> SUFFICES ASSUME W = {} PROVE FALSE
    OBVIOUS
  <2>1. answer \in Empty(from)
    BY <1>4 DEF Data
  <2> QED BY <1>1, <1>2, <2>1, NothingIsError
<1>6. \A x : Read(probe, answer) = Value(x) => Passes(probe, x)
  BY <1>2 DEF Value
<1>7. CASE from \in Bucketed
  <2>1. answer \in Buckets(probe.rule, W)
    BY <1>4, <1>5, <1>7 DEF Data
  <2>2. from \in {"graphite", "splunk"}
    BY <1>1, <1>7 DEF Bucketed, Defaulting
  <2>3. PICK x \in Shows(probe.rule, W) : Read(probe, answer) = Value(x)
    BY <1>5, <2>1, <2>2, BucketIsRead
  <2>4. PICK h \in W : x = Reading(probe.rule, h)
    BY DEF Shows
  <2>5. h # "bad"
    BY <1>6, <2>3, <2>4
  <2>6. h = "good"
    BY <2>5 DEF Health
  <2> QED BY <1>7, <2>6 DEF Shown
<1>8. CASE from \notin Bucketed
  <2> DEFINE x == Reading(probe.rule, Worst(W))
  <2>1. answer = <<<<x>>>>
    BY <1>4, <1>5, <1>8 DEF Data, Single
  <2>2. x \in {1, 10, 100, 900}
    BY ReadingIs
  <2>3. Read(probe, <<<<x>>>>) = Value(x)
    <3> HIDE DEF x
    <3> QED BY <1>1, <1>3, <1>8, <2>2, SingleIsRead
  <2>4. Worst(W) # "bad"
    BY <1>6, <2>1, <2>3
  <2>5. "bad" \notin W
    BY <2>4 DEF Worst
  <2>6. W = {"good"}
    BY <1>5, <2>5 DEF Health
  <2> QED BY <1>8, <2>6 DEF Shown
<1> QED BY <1>7, <1>8

------------------------------------------------------------------------------
\* The evidence of a tick: one window for each check that was accepted, in order.

Earned ==
  /\ pc = "hooks" => evidence = <<>>
  /\ pc = "checks" => Len(evidence) = next - 1
  /\ pc = "passed" => Len(evidence) = Len(Checks)
  /\ pc \in {"checks", "passed"} =>
       \A i \in DOMAIN evidence : Misreads(canary, Checks[i]) \/ Shown(Checks[i], evidence[i])

LEMMA NextEarned ==
  ASSUME Typed, Earned, [Next]_vars PROVE Earned'
<1>0. /\ canary \in Canaries /\ Len(Checks) \in Nat /\ DOMAIN Checks = 1..Len(Checks) /\ next \in Nat /\ evidence \in Evidence
      /\ window \subseteq Health
  BY CanaryFacts DEF Typed
<1>1. canary' = canary /\ Checks' = Checks
  <2>1. canary' = canary
    BY DEF Next, Tick, RunAll, Work, Request, Turn, Restart, Start, Answered, Refused, Lost, HooksDone,
       Ask, QueryFails, Pass, Wait, tick, vars
  <2> QED BY <2>1 DEF Checks
<1>2. ASSUME UNCHANGED <<pc, next, evidence>> PROVE Earned'
  BY <1>1, <1>2 DEF Earned
<1>3. ASSUME pc' \in {"idle", "failed"} PROVE Earned'
  BY <1>3 DEF Earned
<1>4. CASE Request \/ Turn \/ Restart \/ UNCHANGED vars
  BY <1>2, <1>4 DEF Request, Turn, Restart, tick, vars
<1>5. ASSUME NEW w \in Workers, RunAll(w) \/ Work(w) PROVE Earned'
  BY <1>2, <1>5 DEF RunAll, Work, tick
<1>6. CASE Start
  BY <1>6 DEF Start, Earned
<1>7. CASE Answered \/ Refused \/ Lost
  <2>1. pc = "hooks" /\ evidence' = evidence /\ pc' \in {"hooks", "failed"}
    BY <1>7 DEF Answered, Refused, Lost, InHooks, Retry, Verdict
  <2> QED BY <2>1 DEF Earned
<1>8. CASE HooksDone
  <2>1. pc' = "checks" /\ next' = 1 /\ evidence' = evidence /\ evidence = <<>>
    BY <1>8 DEF HooksDone, Earned
  <2> QED BY <2>1 DEF Earned
<1>9. CASE Ask
  <2>1. pc = "checks" /\ next <= Len(Checks) /\ Len(evidence) = next - 1
    BY <1>9 DEF Ask, Earned
  <2>2. PICK answer \in Data(canary, Checks[next], window) :
          IF Accepts(Checks[next], answer)
          THEN next' = next + 1 /\ evidence' = Append(evidence, window) /\ pc' = pc
          ELSE pc' = "failed"
    BY <1>9 DEF Ask, Verdict
  <2>3. CASE ~Accepts(Checks[next], answer)
    BY <1>3, <2>2, <2>3
  <2>4. CASE Accepts(Checks[next], answer)
    <3>1. next' = next + 1 /\ evidence' = Append(evidence, window) /\ pc' = "checks"
      BY <2>1, <2>2, <2>4
    <3>2. next \in DOMAIN Checks
      BY <1>0, <2>1 DEF Typed
    <3>3. Misreads(canary, Checks[next]) \/ ~Passes(Checks[next], Reading(Checks[next].rule, "bad"))
      BY <1>0, <3>2, ThresholdsAssumption DEF Checks
    <3>4. Misreads(canary, Checks[next]) \/ Shown(Checks[next], window)
      BY <1>0, <2>2, <2>4, <3>3, AcceptedIsShown
    <3>5. /\ Len(evidence') = next' - 1
          /\ \A i \in DOMAIN evidence' : \/ i \in DOMAIN evidence /\ evidence'[i] = evidence[i]
                                         \/ i = next /\ evidence'[i] = window
      <4>1. /\ DOMAIN evidence = 1..(next - 1) /\ Len(evidence') = next
            /\ DOMAIN evidence' = 1..next
        BY <1>0, <2>1, <3>1 DEF Evidence
      <4>2. \A i \in 1..next : evidence'[i] = IF i < next THEN evidence[i] ELSE window
        BY <1>0, <2>1, <3>1 DEF Evidence
      <4> QED BY <1>0, <3>1, <4>1, <4>2
    <3>6. \A i \in DOMAIN evidence : Misreads(canary, Checks[i]) \/ Shown(Checks[i], evidence[i])
      BY <2>1 DEF Earned
    <3> QED BY <1>1, <3>1, <3>4, <3>5, <3>6 DEF Earned
  <2> QED BY <2>3, <2>4
<1>10. CASE QueryFails
  BY <1>3, <1>10 DEF QueryFails, Verdict
<1>11. CASE Pass
  <2>1. /\ pc = "checks" /\ pc' = "passed" /\ evidence' = evidence
        /\ next > Len(Checks) /\ next <= 1 + Len(Checks)
    BY <1>11 DEF Pass, Verdict, Typed
  <2>2. Len(evidence) = Len(Checks)
    BY <1>0, <2>1 DEF Earned
  <2> QED BY <1>1, <2>1, <2>2 DEF Earned
<1>12. CASE Wait
  BY <1>3, <1>12 DEF Wait
<1> QED BY <1>4, <1>5, <1>6, <1>7, <1>8, <1>9, <1>10, <1>11, <1>12 DEF Next, Tick

\* No analysis passes without evidence of a good canary, for every list of metrics and
\* hooks, whatever the load tester, the users and the network do during the tick.
THEOREM PassesAreEarned == Spec => []PassedOnEvidence
<1>1. Init => Earned
  BY DEF Init, Earned
<1>2. Typed /\ RunnerInv /\ Earned /\ [Next]_vars => Earned'
  BY NextEarned
<1>3. Earned => PassedOnEvidence
  BY DEF Earned, PassedOnEvidence, Shown
<1> QED BY <1>1, <1>2, <1>3, TypesAndRunner, PTL DEF Spec
===============================================================================
