------------------------- MODULE DocumentedBehaviour -------------------------
(***************************************************************************)
(* Statements of the repository's docs and comments that the code does not *)
(* keep.  Each is quoted with its place; the README tells the behaviour    *)
(* that breaks it.                                                         *)
(***************************************************************************)
EXTENDS SchedulerProps

\* scheduler.go:1000 a failed promotion "routes all traffic back to the canary,
\* the only healthy copy of the new revision": once it did, a tick of the failed
\* canary, which finds the primary still stuck, leaves the traffic there.
HaltIsKept ==
  [][ cd.phase = "Failed" /\ routes = AllCanary => routes'.c > 0 ]_routes

\* deployment_ready.go:46 "halt ... advancement: primary deployment is scaled to
\* zero": a promotion does not move the traffic to a primary without pods.
EmptyPrimaryHalts == [][ pc = "shift" => primary.up ]_routes

\* istio.go:329 "update service but keep the original destination weights and
\* mirror".
ReconcileKeepsWeights ==
  [][ pc = "mesh" /\ routes # NoRoutes => routes' = routes ]_routes

\* deployment-strategies.md:70-71 "the promotion phase happens in stages, ... the
\* primary weight is increased until it reaches 100%".
PromotionEnds == status.phase = "Promoting" ~> status.phase \in {"Succeeded", "Failed"}
==============================================================================
