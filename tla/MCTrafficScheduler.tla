------------------------ MODULE MCTrafficScheduler ------------------------
(***************************************************************************)
(* Instances of TrafficScheduler: two flows that share an application      *)
(* server, a flow with another one, flows whose generator is a process.    *)
(***************************************************************************)
EXTENDS TrafficScheduler

CONSTANTS h1, h2, d1, p1, http, dns

AllCommands == {"baseline", "precursor", "diurnal"}

SharedServer == << {h1, h2}, {p1} >>    \* two flows with the same http server
TwoServers == << {h1, d1, p1} >>
ServerOf == [f \in Flows |-> IF f \in {h1, h2} THEN http
                            ELSE IF f = d1 THEN dns ELSE NoServer]
Apps == Flows \ {p1}
=============================================================================
