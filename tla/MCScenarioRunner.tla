-------------------------- MODULE MCScenarioRunner --------------------------
(***************************************************************************)
(* The scenarios the runs of ScenarioRunner start with.                    *)
(***************************************************************************)
EXTENDS ScenarioRunner, Scenarios

Congestion == {progressive_congestion}
Cascade == {bgp_flap_cascade}

\* Scenarios an operator may add to scenarios.yaml: a ramp that gets to run
\* because a fault that suspends follows it, a rekey, an unknown fault type.
Custom ==
  { << Fault("interface_flap", "dc2-p1", "eth2"),
       Fault("traffic_ramp", "branch1_to_hub", "bulk_transfer"),
       Fault("ipsec_rekey", "hub-ce1", "vti102") >>,
    << Fault("traffic_ramp", "branch1_to_hub", "bulk_transfer"),
       Fault("interface_flap", "dc2-p1", "eth2"),
       Fault("no_such_fault", "hub-ce1", "") >> }

Every == Shipped \cup Custom
=============================================================================
