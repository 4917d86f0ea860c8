--------------------------- MODULE GeneratorLife ---------------------------
(***************************************************************************)
(* What a flow may rely on about its traffic generator: it starts once, it *)
(* ends or fails for good, it is only stopped while someone asks for it,   *)
(* and it does not outlive a request that is kept up.                      *)
(***************************************************************************)
VARIABLES
  life, \* of the generator: "none", "running", or how that ended
  asked \* whether it is being stopped

vars == <<life, asked>>

Init == life = "none" /\ asked = FALSE

Begin == life = "none" /\ life' = "running"
End == life = "running" /\ life' \in {"ended", "failed"}
Stop == asked /\ life = "running" /\ life' = "stopped"

Next ==
  /\ asked' \in BOOLEAN
  /\ Begin \/ End \/ Stop \/ UNCHANGED life

Safe == Init /\ [][Next]_vars

\* It does not run for ever while it is asked to stop.
Yields == []<>~(asked /\ life = "running")

Spec == Safe /\ Yields
=============================================================================
