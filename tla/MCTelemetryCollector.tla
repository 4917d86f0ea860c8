------------------------ MODULE MCTelemetryCollector ------------------------
(***************************************************************************)
(* A small instance of TelemetryCollector: one poller and the devices it   *)
(* asks.                                                                   *)
(***************************************************************************)
EXTENDS TelemetryCollector, TLC

CONSTANTS bgp, ce1, pe1

\* poll_bgp asks CE and PE routers, one after the other.
OnePoller == bgp :> <<ce1, pe1>>
=============================================================================
