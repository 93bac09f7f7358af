----------------------------- MODULE LoadTester -----------------------------
(***************************************************************************)
(* The task runner of the load tester (pkg/loadtester).  HandleNewTask     *)
(* adds a command to the to-do list and answers at once; runAll, on a      *)
(* ticker, starts a goroutine for each entry; a goroutine takes its entry  *)
(* off the list, skips the command if it is running, marks it as running,  *)
(* runs it with a timeout and removes the mark.  Both lists are sync.Maps: *)
(* single calls are atomic, nothing else is.                               *)
(***************************************************************************)
EXTENDS Naturals

CONSTANTS Tasks,   \* the commands, by their hash
          Workers  \* the goroutines there can be at a time (a bound)

VARIABLES todo,     \* todoTasks
          running,  \* runningTasks
          worker,   \* the goroutines: where each is, and with what task
          owed      \* history: tasks accepted and neither started nor skipped

runner == <<todo, running, worker, owed>>

Steps == {"delete", "load", "store", "run"}
Free  == [at |-> "free"]

Goroutine == {Free} \cup [at : Steps, task : Tasks]

RunnerInit ==
  /\ todo = {}
  /\ running = {}
  /\ worker = [w \in Workers |-> Free]
  /\ owed = {}

Serves(w, t) == worker[w] # Free /\ worker[w].task = t

\* HandleNewTask of a background command.
Add(t) ==
  /\ todo' = todo \cup {t}
  /\ owed' = owed \cup {t}
  /\ UNCHANGED <<running, worker>>

\* runAll on one entry of the list, which it leaves there.
Spawn(w, t) ==
  /\ t \in todo
  /\ worker[w] = Free
  /\ worker' = [worker EXCEPT ![w] = [at |-> "delete", task |-> t]]
  /\ UNCHANGED <<todo, running, owed>>

At(w, step) == worker[w].at = step

Move(w, step) == worker' = [worker EXCEPT ![w].at = step]

\* Add may have stored the task again in the meantime: that entry goes too.
DeleteTodo(w) ==
  /\ At(w, "delete")
  /\ Move(w, "load")
  /\ todo' = todo \ {worker[w].task}
  /\ UNCHANGED <<running, owed>>

LoadRunning(w) ==
  /\ At(w, "load")
  /\ IF worker[w].task \in running
     THEN /\ worker' = [worker EXCEPT ![w] = Free]
          /\ owed' = IF worker[w].task \in todo THEN owed
                     ELSE owed \ {worker[w].task}
     ELSE Move(w, "store") /\ owed' = owed
  /\ UNCHANGED <<todo, running>>

\* The mark is stored and the command starts.
StoreRunning(w) ==
  /\ At(w, "store")
  /\ Move(w, "run")
  /\ running' = running \cup {worker[w].task}
  /\ owed' = IF worker[w].task \in todo THEN owed ELSE owed \ {worker[w].task}
  /\ UNCHANGED todo

\* Changes the properties must notice: the to-do entry goes with the mark, and
\* the mark stays.
DeleteBoth(w) ==
  /\ At(w, "run")
  /\ worker' = [worker EXCEPT ![w] = Free]
  /\ running' = running \ {worker[w].task}
  /\ todo' = todo \ {worker[w].task}
  /\ UNCHANGED owed

KeepRunning(w) ==
  /\ At(w, "run")
  /\ worker' = [worker EXCEPT ![w] = Free]
  /\ UNCHANGED <<running, todo, owed>>

\* The command has ended, by itself or at the timeout.
DeleteRunning(w) ==
  /\ At(w, "run")
  /\ worker' = [worker EXCEPT ![w] = Free]
  /\ running' = running \ {worker[w].task}
  /\ UNCHANGED <<todo, owed>>

Goes(w) ==
  \/ DeleteTodo(w)
  \/ LoadRunning(w)
  \/ DeleteRunning(w)

\* A new process has empty lists.
RestartRunner ==
  /\ todo' = {}
  /\ running' = {}
  /\ worker' = [w \in Workers |-> Free]
  /\ owed' = {}
=============================================================================
