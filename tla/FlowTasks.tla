----------------------------- MODULE FlowTasks -----------------------------
(***************************************************************************)
(* What becomes of the asyncio tasks that run flows: the abstract life of  *)
(* TrafficScheduler.run_flow, which the scheduler implements generator by  *)
(* generator and the scenario runner only sees from outside.  A task that  *)
(* has been cancelled never completes, one that has not begun is cancelled *)
(* without a trace, and an end is final.                                   *)
(***************************************************************************)
CONSTANT Tasks
VARIABLE life   \* life[t]: how far task t has come

Lives == {"none", "pending", "active", "cancelling",
          "completed", "failed", "cancelled", "abandoned"}

Init == life = [t \in Tasks |-> "none"]

\* create_task
Create(T) ==
  /\ \A t \in T : life[t] = "none"
  /\ life' = [t \in Tasks |-> IF t \in T THEN "pending" ELSE life[t]]

\* run_flow runs up to its first suspension, in a task or awaited directly.
Begin(t) == life[t] \in {"none", "pending"} /\ life' = [life EXCEPT ![t] = "active"]

\* The completed row is written, or an exception ends the flow without one.
End(t) == life[t] = "active" /\ life' \in {[life EXCEPT ![t] = e] : e \in {"completed", "failed"}}

\* cancel() of some tasks, whether or not they are over.
Cancel(T) ==
  life' = [t \in Tasks |->
    IF t \in T /\ life[t] = "pending" THEN "cancelled"
    ELSE IF t \in T /\ life[t] = "active" THEN "cancelling" ELSE life[t]]

\* CancelledError reaches some tasks, or the program ends around them.
Abandon(T) ==
  /\ \A t \in T : life[t] \in {"active", "cancelling"}
  /\ life' = [t \in Tasks |-> IF t \in T THEN "abandoned" ELSE life[t]]

Next ==
  \/ \E t \in Tasks : Begin(t) \/ End(t)
  \/ \E T \in SUBSET Tasks : Create(T) \/ Cancel(T) \/ Abandon(T)

Spec == Init /\ [][Next]_life
=============================================================================
