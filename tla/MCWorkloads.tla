------------------------------ MODULE MCWorkloads -------------------------------
(* Instances of module Workloads for TLC. *)
EXTENDS WorkloadsProps

Canary ==
  [kind |-> "Deployment", scaler |-> "none", skip |-> FALSE, required |-> TRUE,
   routed |-> FALSE, up |-> TRUE, changes |-> 3, faults |-> 1]

\* Every kind, autoscaler and way to promote, with and without routes before the
\* first Reconcile; the bounds let a change be undone and one call fail.
MCCases ==
  {Canary,
   [Canary EXCEPT !.scaler = "HPA", !.routed = TRUE, !.required = FALSE],
   [Canary EXCEPT !.scaler = "KEDA", !.routed = TRUE],
   [Canary EXCEPT !.scaler = "KEDA", !.up = FALSE, !.skip = TRUE],
   [Canary EXCEPT !.skip = TRUE, !.required = FALSE],
   [Canary EXCEPT !.kind = "DaemonSet", !.routed = TRUE],
   [Canary EXCEPT !.kind = "DaemonSet", !.up = FALSE, !.required = FALSE],
   [Canary EXCEPT !.kind = "Service", !.required = FALSE],
   [Canary EXCEPT !.kind = "Service", !.required = FALSE, !.skip = TRUE]}
================================================================================
