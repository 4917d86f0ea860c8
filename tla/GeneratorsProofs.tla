-------------------------- MODULE GeneratorsProofs --------------------------
(***************************************************************************)
(* Proofs about Generators: its safety properties, and that it implements  *)
(* GeneratorLife as far as that is safety.                                 *)
(***************************************************************************)
EXTENDS Generators, TLAPS

USE DEF Kinds, Calls, Results, flowVars, processVars, taskVars, vars

\* A generator has a process or a task, and neither before it is started.
OneOfBoth ==
  /\ IF kind = "process" THEN task = "none" ELSE process = "none"
  /\ call = "start" => process = "none" /\ signal = "none" /\ task = "none" /\ child = "none"

\* A process that has been sent a signal and is still there is waited for.
SignalledIsAwaited == signal # "none" /\ process = "alive" => call \in {"stop", "kill"}

\* A transfer's process runs while its task awaits it, or after the task was cancelled.
ChildIsAwaited ==
  child = "alive" =>
    /\ task \in {"running", "cancelling", "cancelled"}
    /\ task = "running" => doing = "transfer"

IInv ==
  /\ TypeOK
  /\ OneOfBoth /\ SignalledIsAwaited /\ ChildIsAwaited
  /\ ReturnedIsOver

LEMMA IInvInit == Init => IInv
BY DEF Init, IInv, TypeOK, OneOfBoth, SignalledIsAwaited, ChildIsAwaited, ReturnedIsOver

LEMMA IInvStep == IInv /\ [Next]_vars => IInv'
<1> SUFFICES ASSUME IInv, [Next]_vars PROVE IInv'
  OBVIOUS
<1> USE DEF IInv, TypeOK, OneOfBoth, SignalledIsAwaited, ChildIsAwaited, ReturnedIsOver
<1>1. CASE Start
  BY <1>1 DEF Start
<1>2. CASE StartFails
  BY <1>2 DEF StartFails
<1>3. CASE Wait
  BY <1>3 DEF Wait
<1>4. CASE Stop
  BY <1>4 DEF Stop, StopProcess, StopTask
<1>5. CASE Returns
  BY <1>5 DEF Returns, IsOver
<1>6. CASE Kill
  BY <1>6 DEF Kill
<1>7. CASE KillRaises
  BY <1>7 DEF KillRaises
<1>8. CASE Abandon
  BY <1>8 DEF Abandon
<1>9. CASE ProcessExits
  BY <1>9 DEF ProcessExits
<1>10. CASE Turn
  BY <1>10 DEF Turn, Request, Datagram, Transfer, Fails
<1>11. CASE Ends
  BY <1>11 DEF Ends
<1>12. CASE TransferOver
  BY <1>12 DEF TransferOver
<1>13. CASE PauseOver
  BY <1>13 DEF PauseOver
<1>14. CASE ChildExits
  BY <1>14 DEF ChildExits
<1>15. CASE Cancelled
  BY <1>15 DEF Cancelled
<1>16. CASE UNCHANGED vars
  BY <1>16
<1>17. QED
  BY <1>1, <1>2, <1>3, <1>4, <1>5, <1>6, <1>7, <1>8, <1>9, <1>10, <1>11, <1>12, <1>13, <1>14,
     <1>15, <1>16 DEF Next

\* The variables keep their types whatever the flow, its processes and its task do.
THEOREM TypeCorrect == Spec => []TypeOK
<1>1. IInv => TypeOK
  BY DEF IInv
<1>2. QED
  BY <1>1, IInvInit, IInvStep, PTL DEF Spec

\* When wait() or stop() has returned nothing of the generator runs, but for a transfer
\* whose task was cancelled.
THEOREM ReturnedIsOverCorrect == Spec => []ReturnedIsOver
<1>1. IInv => ReturnedIsOver
  BY DEF IInv
<1>2. QED
  BY <1>1, IInvInit, IInvStep, PTL DEF Spec

-----------------------------------------------------------------------------
(***************************************************************************)
(* The refinement.                                                         *)
(***************************************************************************)

\* A step that leaves the generator as it is.
LEMMA SameLife ==
  ASSUME IInv, UNCHANGED <<kind, process>>, task' = task \/ (task = "running" /\ task' = "cancelling")
  PROVE  Life' = Life
BY DEF IInv, TypeOK, Life

LEMMA LifeStep == IInv /\ [Next]_vars => [GL!Next]_(GL!vars)
<1> SUFFICES ASSUME IInv, [Next]_vars PROVE [GL!Next]_(GL!vars)
  OBVIOUS
<1> DEFINE asked == call \in {"stop", "kill"} \/ task = "cancelling"
<1>1. asked \in BOOLEAN /\ asked' \in BOOLEAN
  OBVIOUS
<1>2. CASE \/ StartFails \/ Wait \/ Stop \/ Returns \/ Kill \/ KillRaises \/ Abandon
           \/ TransferOver \/ PauseOver \/ ChildExits \/ UNCHANGED vars
  <2>1. /\ UNCHANGED <<kind, process>>
        /\ task' = task \/ (task = "running" /\ task' = "cancelling")
    BY <1>2 DEF StartFails, Wait, Stop, StopProcess, StopTask, Returns, Kill, KillRaises, Abandon,
                TransferOver, PauseOver, ChildExits
  <2>2. QED
    BY <1>1, <2>1, SameLife DEF GL!Next
<1>3. CASE Start
  <2>1. Life = "none" /\ Life' = "running"
    BY <1>3 DEF Start, Life, IInv, TypeOK, OneOfBoth
  <2>2. QED
    BY <1>1, <2>1 DEF GL!Next, GL!Begin
<1>4. CASE ProcessExits
  <2>1. kind = "process" /\ process = "alive" /\ kind' = kind
    BY <1>4 DEF ProcessExits, IInv, OneOfBoth
  <2>2. Life = "running" /\ Life' = process'
    BY <1>4, <2>1 DEF ProcessExits, Life
  <2>3. process' = "ended" \/ (process' = "stopped" /\ asked)
    BY <1>4 DEF ProcessExits, IInv, SignalledIsAwaited
  <2>4. QED
    BY <1>1, <2>2, <2>3 DEF GL!Next, GL!End, GL!Stop
<1>5. CASE Turn \/ Ends
  <2>1. /\ kind # "process" /\ kind' = kind /\ task = "running"
        /\ task' \in {"running", "ended", "failed"}
    BY <1>5 DEF Turn, Request, Datagram, Transfer, Fails, Ends, IInv, TypeOK, OneOfBoth
  <2>2. Life = "running" /\ Life' = task'
    BY <2>1 DEF Life
  <2>3. QED
    BY <1>1, <2>1, <2>2 DEF GL!Next, GL!End
<1>6. CASE Cancelled
  <2>1. kind # "process" /\ kind' = kind /\ task = "cancelling" /\ task' = "cancelled"
    BY <1>6 DEF Cancelled, IInv, OneOfBoth
  <2>2. Life = "running" /\ Life' = "stopped" /\ asked
    BY <2>1 DEF Life
  <2>3. QED
    BY <1>1, <2>2 DEF GL!Next, GL!Stop
<1>7. QED
  BY <1>2, <1>3, <1>4, <1>5, <1>6 DEF Next

\* The processes and tasks are generators as GeneratorLife describes them, but for its
\* liveness: nothing stops one that is not asked to, and an end is final.
THEOREM LifeRefinement == Spec => GL!Safe
<1>1. Init => GL!Init
  BY DEF Init, GL!Init, Life
<1>2. QED
  BY <1>1, IInvInit, IInvStep, LifeStep, PTL DEF Spec, GL!Safe

-----------------------------------------------------------------------------
(***************************************************************************)
(* What stop() waits for.                                                  *)
(***************************************************************************)

Stopping == call \in {"stop", "kill"}

\* How many steps of what it waits for are left, and its return.
StopLeft ==
  CASE call = "stop" /\ process = "alive" -> 3
    [] (call = "kill" /\ process = "alive") \/ (Stopping /\ task = "cancelling") -> 2
    [] Stopping /\ IsOver -> 1
    [] OTHER -> 0

\* stop() waits for no task that has not been cancelled, and for no process that it has not
\* sent a signal, in the end SIGKILL.
StopForces ==
  Stopping =>
    /\ task # "running"
    /\ process = "alive" => signal = (IF call = "stop" THEN "TERM" ELSE "KILL")

\* Every step of what stop() waits for brings its return nearer, and none puts it off.
StopApproaches ==
  /\ Stopping' \/ call' \in Results
  /\ StopLeft' <= StopLeft
  /\ <<call, process, task>>' # <<call, process, task>> => StopLeft' < StopLeft

LEMMA StopForcesStep == IInv /\ StopForces /\ [Next]_vars => StopForces'
<1> SUFFICES ASSUME IInv, StopForces, [Next]_vars PROVE StopForces'
  OBVIOUS
<1> USE DEF IInv, TypeOK, OneOfBoth, StopForces, Stopping
<1>1. CASE Start \/ StartFails \/ Wait \/ Returns \/ KillRaises \/ Abandon
  BY <1>1 DEF Start, StartFails, Wait, Returns, KillRaises, Abandon
<1>2. CASE Stop
  BY <1>2 DEF Stop, StopProcess, StopTask
<1>3. CASE Kill \/ ProcessExits
  BY <1>3 DEF Kill, ProcessExits
<1>4. CASE Turn \/ Ends \/ TransferOver \/ PauseOver \/ ChildExits \/ Cancelled \/ UNCHANGED vars
  BY <1>4 DEF Turn, Request, Datagram, Transfer, Fails, Ends, TransferOver, PauseOver, ChildExits,
              Cancelled
<1>5. QED
  BY <1>1, <1>2, <1>3, <1>4 DEF Next

LEMMA StopApproachesStep == IInv /\ StopForces /\ [Next]_vars => [Stopping => StopApproaches]_vars
<1> SUFFICES ASSUME IInv, StopForces, [Next]_vars, Stopping PROVE StopApproaches
  OBVIOUS
<1> USE DEF IInv, TypeOK, OneOfBoth, StopForces, Stopping, StopApproaches, StopLeft, IsOver
<1>1. CASE Returns \/ KillRaises
  BY <1>1 DEF Returns, KillRaises
<1>2. CASE Kill \/ ProcessExits
  BY <1>2 DEF Kill, ProcessExits
<1>3. CASE Cancelled
  BY <1>3 DEF Cancelled
<1>4. CASE ChildExits \/ UNCHANGED vars
  BY <1>4 DEF ChildExits
<1>5. ~(\/ Start \/ StartFails \/ Wait \/ Stop \/ Abandon
        \/ Turn \/ Ends \/ TransferOver \/ PauseOver)
  BY DEF Start, StartFails, Wait, Stop, Abandon, Turn, Ends, TransferOver, PauseOver
<1>6. QED
  BY <1>1, <1>2, <1>3, <1>4, <1>5 DEF Next

\* The safety half of StopReturns: stop() waits only for a task that it has cancelled or for
\* a process that it has signalled, with SIGKILL from its timeout on, and whatever happens
\* to these meanwhile only brings its return nearer: no step prolongs it.
THEOREM StopForcesAndApproaches ==
  Spec => []StopForces /\ [][Stopping => StopApproaches]_vars
<1>1. Init => StopForces
  BY DEF Init, StopForces, Stopping
<1>2. QED
  BY <1>1, IInvInit, IInvStep, StopForcesStep, StopApproachesStep, PTL DEF Spec
=============================================================================
