----------------------------- MODULE MCController -----------------------------
(***************************************************************************)
(* Instances of ControllerProps for the model checker.  Each plan gives a  *)
(* concern the specs, operations and faults it needs, where all of them at *)
(* once would be too many states.                                          *)
(***************************************************************************)
EXTENDS ControllerProps

On(i)  == [revert |-> TRUE, interval |-> i, valid |-> TRUE]
Off(i) == [revert |-> FALSE, interval |-> i, valid |-> TRUE]

\* Opting in and out, invalid specs, deletion, and one fault anywhere.
Finalizing ==
  [specs |-> {On(1), Off(1), [On(1) EXCEPT !.valid = FALSE]}, up |-> TRUE,
   creates |-> 1, edits |-> 2, faults |-> 1]

\* An interval that changes, or a deletion, and a fault.
Replacing ==
  [specs |-> {On(1), Off(2)}, up |-> TRUE, creates |-> 1, edits |-> 1, faults |-> 1]

\* Interval changes one after the other.
Rescheduling ==
  [specs |-> {Off(1), Off(2)}, up |-> TRUE, creates |-> 1, edits |-> 2, faults |-> 0]

\* A canary deleted without a revert, and created again.
Recreating == [specs |-> {Off(1)}, up |-> TRUE, creates |-> 2, edits |-> 1, faults |-> 0]

\* A target that an earlier canary left at zero replicas.
LeftBehind == [specs |-> {On(1)}, up |-> FALSE, creates |-> 1, edits |-> 1, faults |-> 1]

AllPlans == {Finalizing, Replacing, Rescheduling, Recreating, LeftBehind}
================================================================================
