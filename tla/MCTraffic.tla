------------------------------- MODULE MCTraffic -------------------------------
(***************************************************************************)
(* Instances of Traffic: a grid of weights walked undisturbed with Istio,  *)
(* and a few analyses of each strategy with every provider, disturbed by   *)
(* edits, lost status writes and more rollouts.                            *)
(***************************************************************************)
EXTENDS TrafficProps

CONSTANTS
  Steps,    \* values of stepWeight and stepWeightPromotion
  Maxima,   \* values of maxWeight, 0 for unset
  Edits, Faults, Rollouts   \* bounds of the disturbed configurations

Analysis(stepWeight, stepWeights, max, promotion) ==
  [match |-> FALSE, iterations |-> 0, threshold |-> 1, mirror |-> FALSE, stepWeight |-> stepWeight,
   stepWeights |-> stepWeights, maxWeight |-> max, stepWeightPromotion |-> promotion]

\* The documented lists ascend within 1 .. 100.
AscendingLists ==
  {<<5>>, <<100>>, <<1, 2, 10, 80>>, <<10, 20, 50>>, <<30, 60, 100>>, <<1, 99, 100>>, <<50, 51>>}

Grid ==
  {[Analysis(s, <<>>, max, p) EXCEPT !.mirror = m] :
     s \in Steps \ {0}, max \in Maxima, p \in Steps, m \in BOOLEAN}
    \cup {[Analysis(0, l, 0, p) EXCEPT !.mirror = m] : l \in AscendingLists, p \in Steps, m \in BOOLEAN}

Mirrors  == Gateways \cup {"istio"}
Affinity == Gateways \cup {"istio"}

Canaries == {Analysis(30, <<>>, 50, 0), Analysis(0, <<10, 60>>, 0, 40)}
BlueGreens == {[Analysis(0, <<>>, 0, p) EXCEPT !.iterations = 1] : p \in {0, 60}}
ABs == {[b EXCEPT !.match = TRUE, !.iterations = 2] : b \in BlueGreens}

Config(provider, analysis, affinity, adopted, kubectl) ==
  [provider |-> provider, analysis |-> analysis, affinity |-> affinity, adopted |-> adopted,
   kubectl |-> kubectl, edits |-> Edits, faults |-> Faults, rollouts |-> Rollouts]

Plain == {Config(p, x, "none", FALSE, FALSE) : p \in Providers, x \in Canaries \cup BlueGreens}

Matched == {Config(p, x, "none", FALSE, FALSE) : p \in Matching, x \in ABs}

Mirrored ==
  {Config(p, [x EXCEPT !.mirror = TRUE], "none", FALSE, FALSE) : p \in Mirrors, x \in Canaries \cup BlueGreens}

Sticky ==
  {Config(p, [x EXCEPT !.mirror = m], f, FALSE, FALSE) :
     p \in Affinity, x \in Canaries \cup BlueGreens, m \in BOOLEAN, f \in {"canary", "both"}}

Adopted ==
  {Config("istio", x, f, TRUE, k) : x \in Canaries \cup ABs, f \in {"none"}, k \in BOOLEAN}
    \cup {Config("istio", x, "canary", TRUE, k) : x \in Canaries \cup BlueGreens, k \in BOOLEAN}

Undisturbed ==
  {[Config("istio", x, "none", FALSE, FALSE) EXCEPT !.edits = 0, !.faults = 0, !.rollouts = 0] : x \in Grid}

\* What a router does not know, and a match without iterations.
Odd ==
  {Config("linkerd", [x EXCEPT !.mirror = TRUE], "none", FALSE, FALSE) : x \in Canaries \cup BlueGreens}
    \cup {Config("kuma", x, "none", FALSE, FALSE) : x \in ABs}
    \cup {Config(p, [x EXCEPT !.match = TRUE, !.mirror = m], "none", FALSE, FALSE) :
           p \in {"istio", "nginx", "gatewayapi:v1"}, x \in Canaries, m \in BOOLEAN}

AllConfigs == Odd \cup Undisturbed \cup Plain \cup Matched \cup Mirrored \cup Sticky \cup Adopted
================================================================================
