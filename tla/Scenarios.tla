----------------------------- MODULE Scenarios -----------------------------
(***************************************************************************)
(* The scenarios of fault_injection/scenarios.yaml.  A fault keeps what    *)
(* decides which device state it touches: its type, its target container   *)
(* and the neighbour, interface, connection or VTI it names.  Durations    *)
(* and rates are left out.                                                 *)
(***************************************************************************)
EXTENDS Integers, Sequences

Fault(type, target, item) ==
  [type |-> type, target |-> target, item |-> item, cycles |-> 1]

progressive_congestion ==
  << Fault("traffic_ramp", "branch1_to_hub", "bulk_transfer"),
     Fault("traffic_ramp", "branch2_to_hub", "bulk_transfer"),
     Fault("traffic_ramp", "branch3_to_hub", "bulk_transfer"),
     Fault("traffic_stop", "branch1_to_hub", "") >>

bgp_flap_cascade ==
  << Fault("bgp_reset", "hub-pe1", "10.1.0.19"),
     Fault("bgp_reset", "dc1-pe1", "10.1.0.25"),
     Fault("bgp_reset", "hub-pe1", "10.1.0.21"),
     Fault("bgp_reset", "hub-pe1", "10.1.0.23") >>

intermittent_mpls_failure ==
  << Fault("mpls_ldp_disable", "dc1-p1", "eth2"),
     [Fault("interface_flap", "dc2-p1", "eth2") EXCEPT !.cycles = 3],
     Fault("mpls_ldp_enable", "dc1-p1", "eth2") >>

controller_policy_drift ==
  << Fault("qos_change", "hub-pe1", "eth2"),
     Fault("qos_change", "dc1-pe1", "eth2"),
     Fault("qos_restore", "hub-pe1", "eth2") >>

ipsec_sa_flap ==
  << Fault("ipsec_sa_down", "hub-ce1", "vti102"),
     Fault("ipsec_sa_down", "hub-ce1", "vti103"),
     Fault("ipsec_sa_up", "hub-ce1", "vti102"),
     Fault("ipsec_sa_down", "hub-ce1", "vti104"),
     Fault("ipsec_sa_up", "hub-ce1", "vti103"),
     Fault("ipsec_sa_up", "hub-ce1", "vti104") >>

strongswan_restart ==
  << Fault("ipsec_stop", "hub-ce1", ""),
     Fault("wait", "none", ""),
     Fault("ipsec_start", "hub-ce1", ""),
     Fault("wait", "none", "") >>

vti_interface_flap ==
  << Fault("vti_down", "hub-ce1", "vti106"),
     Fault("vti_down", "dc2-ce1", "vti200"),
     Fault("vti_up", "hub-ce1", "vti106"),
     Fault("vti_up", "dc2-ce1", "vti200") >>

Shipped ==
  { progressive_congestion, bgp_flap_cascade, intermittent_mpls_failure,
    controller_policy_drift, ipsec_sa_flap, strongswan_restart, vti_interface_flap }
=============================================================================
