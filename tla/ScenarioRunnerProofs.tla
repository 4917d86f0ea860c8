------------------------ MODULE ScenarioRunnerProofs ------------------------
(***************************************************************************)
(* Proofs about ScenarioRunner, for any set of scenarios, any number of    *)
(* background flows and any number of signals.                             *)
(***************************************************************************)
EXTENDS ScenarioRunner, Scenarios, TLAPS

-----------------------------------------------------------------------------
(***************************************************************************)
(* The steps of a fault.                                                   *)
(***************************************************************************)

LEMMA FlapProgram ==
  ASSUME NEW f \in FaultRecord, f.type = "interface_flap"
  PROVE  /\ Program(f) = [k \in 1..(4 * f.cycles - 1) |->
                            IF k % 4 = 1 THEN "link_down"
                            ELSE IF k % 4 = 3 THEN "link_up" ELSE "sleep"]
         /\ Len(Program(f)) = 4 * f.cycles - 1
         /\ 4 * f.cycles - 1 \in Nat
<1>1. f.cycles \in Nat /\ f.cycles >= 1
  BY DEF FaultRecord
<1>2. 4 * f.cycles - 1 \in Nat
  BY <1>1
<1>3. Program(f) = [k \in 1..(4 * f.cycles - 1) |->
                      IF k % 4 = 1 THEN "link_down"
                      ELSE IF k % 4 = 3 THEN "link_up" ELSE "sleep"]
  BY DEF Program
<1>4. QED
  BY <1>2, <1>3

LEMMA ResetProgram ==
  ASSUME NEW f \in FaultRecord, f.type = "bgp_reset"
  PROVE  Program(f) = <<"clear", "shutdown", "sleep", "no_shutdown">> /\ Len(Program(f)) = 4
BY DEF Program

LEMMA ProgramLength ==
  ASSUME NEW f \in FaultRecord
  PROVE  Len(Program(f)) \in Nat
<1>1. CASE f.type = "interface_flap"
  BY <1>1, FlapProgram
<1>2. CASE f.type # "interface_flap"
  <2>1. Program(f) \in
          { <<>>, <<"spawn">>, <<"clear", "shutdown", "sleep", "no_shutdown">>,
            <<"no_ldp", "sleep">>, <<"ldp">>, <<"htb", "filter">>, <<"qdisc_del">>,
            <<"sa_down", "sleep">>, <<"sa_up">>, <<"rekey">>, <<"stop">>,
            <<"start", "sleep">>, <<"link_down", "sleep">>, <<"link_up">>, <<"sleep">> }
    BY <1>2 DEF Program
  <2>2. QED
    BY <2>1
<1>3. QED
  BY <1>1, <1>2

\* Only a traffic_ramp creates a task.
LEMMA OnlyRampsSpawn ==
  ASSUME NEW f \in FaultRecord, NEW k \in 1..Len(Program(f)), Program(f)[k] = "spawn"
  PROVE  f.type = "traffic_ramp"
<1> SUFFICES ASSUME f.type # "traffic_ramp" PROVE FALSE
  OBVIOUS
<1>1. CASE f.type = "interface_flap"
  BY <1>1, FlapProgram
<1>2. CASE f.type # "interface_flap"
  <2>1. Program(f) \in
          { <<>>, <<"clear", "shutdown", "sleep", "no_shutdown">>,
            <<"no_ldp", "sleep">>, <<"ldp">>, <<"htb", "filter">>, <<"qdisc_del">>,
            <<"sa_down", "sleep">>, <<"sa_up">>, <<"rekey">>, <<"stop">>,
            <<"start", "sleep">>, <<"link_down", "sleep">>, <<"link_up">>, <<"sleep">> }
    BY <1>2 DEF Program
  <2>2. QED
    BY <2>1
<1>3. QED
  BY <1>1, <1>2

LEMMA EffectType ==
  ASSUME device \in [Resources -> DeviceStates], NEW f, NEW cmd
  PROVE  Effect(f, cmd) \in [Resources -> DeviceStates]
<1>1. \A v \in DeviceStates : After(cmd, v) \in DeviceStates
  BY DEF After, DeviceStates
<1>2. "normal" \in DeviceStates
  BY DEF DeviceStates
<1>3. QED
  BY <1>1, <1>2 DEF Effect

-----------------------------------------------------------------------------
(***************************************************************************)
(* The type invariant of the runner and its tasks.                         *)
(***************************************************************************)

LEMMA ScenarioFacts ==
  ASSUME RunnerTypeOK
  PROVE  /\ scenario \in Seq(FaultRecord) /\ Len(scenario) \in Nat /\ idx \in Nat
         /\ \A i \in 1..Len(scenario) : scenario[i] \in FaultRecord
BY ScenariosAssumption DEF RunnerTypeOK

LEMMA CurrentFacts ==
  ASSUME RunnerTypeOK, pc \in InFault
  PROVE  /\ idx \in 1..Len(scenario) /\ Current \in FaultRecord /\ Current \in AllFaults
         /\ Len(Program(Current)) \in Nat
         /\ step \in Nat /\ step >= 1 /\ step <= Len(Program(Current)) + 1
<1>1. idx \in 1..Len(scenario)
  BY ScenarioFacts DEF RunnerTypeOK
<1>2. Current \in FaultRecord
  BY <1>1, ScenarioFacts DEF Current
<1>3. Len(Program(Current)) \in Nat
  BY <1>2, ProgramLength
<1>4. Current \in AllFaults
  BY <1>1, ScenarioFacts DEF AllFaults, Current, RunnerTypeOK
<1>5. QED
  BY <1>1, <1>2, <1>3, <1>4 DEF RunnerTypeOK

LEMMA RunnerTypeInit == Init => RunnerTypeOK
<1> SUFFICES ASSUME Init PROVE RunnerTypeOK
  OBVIOUS
<1>1. Len(scenario) \in Nat
  BY ScenariosAssumption DEF Init
<1>2. 0 \in 0..Len(scenario) /\ 0 \in 0..MaxSignals /\ 0 \in Nat
  BY <1>1, BoundsAssumption
<1>3. device \in [Resources -> DeviceStates] /\ saved \in [Resources -> DeviceStates]
  BY DEF Init, DeviceStates
<1>4. task \in [Tasks -> {"none", "pending", "opened", "active", "cancelling",
                          "cancelled", "abandoned", "completed", "failed"}]
  BY DEF Init
<1>5. QED
  BY <1>2, <1>3, <1>4 DEF Init, RunnerTypeOK, InFault

LEMMA CancelledType ==
  ASSUME RunnerTypeOK, NEW ts
  PROVE  Cancelled(ts) \in [Tasks -> {"none", "pending", "opened", "active", "cancelling",
                                      "cancelled", "abandoned", "completed", "failed"}]
BY DEF RunnerTypeOK, Cancelled

\* The steps of the main task that stay within one fault.
LEMMA RunnerTypeInject ==
  ASSUME RunnerTypeOK,
         SpawnRamp \/ Suspend \/ SleepOver \/ EndFault \/ ExecDone \/ ExecFailed \/ ExecRaised
  PROVE  RunnerTypeOK'
<1>1. pc \in InFault
  BY DEF SpawnRamp, Suspend, SleepOver, EndFault, ExecDone, ExecFailed, ExecRaised, InFault
<1>2. /\ idx \in 1..Len(scenario) /\ Current \in FaultRecord
      /\ Len(Program(Current)) \in Nat
      /\ step \in Nat /\ step >= 1 /\ step <= Len(Program(Current)) + 1
  BY <1>1, CurrentFacts
<1>3. CASE SpawnRamp
  <2>1. Current.type = "traffic_ramp"
    BY <1>2, <1>3, OnlyRampsSpawn DEF SpawnRamp
  <2>2. <<"ramp", idx>> \in Tasks
    BY <1>2, <2>1, ScenarioFacts DEF Tasks, Ramps, Current, RunnerTypeOK
  <2>3. scenario' = scenario /\ idx' = idx /\ Current' = Current
    BY <1>3 DEF SpawnRamp, Current
  <2>4. step' \in 1..(Len(Program(Current')) + 1) /\ pc' = "inject"
    BY <1>2, <1>3, <2>3 DEF SpawnRamp
  <2>5. QED
    BY <1>2, <1>3, <2>2, <2>3, <2>4 DEF SpawnRamp, RunnerTypeOK, deviceVars, InFault
<1>4. CASE Suspend
  <2>1. scenario' = scenario /\ idx' = idx /\ Current' = Current
    BY <1>4 DEF Suspend, Current
  <2>2. QED
    BY <1>2, <1>4, <2>1
    DEF Suspend, RunnerTypeOK, deviceVars, taskVars, InFault, Suspended
<1>5. CASE SleepOver
  <2>1. scenario' = scenario /\ idx' = idx /\ Current' = Current
    BY <1>5 DEF SleepOver, Current
  <2>2. step' \in 1..(Len(Program(Current')) + 1) /\ pc' = "inject"
    BY <1>2, <1>5, <2>1 DEF SleepOver, RunnerTypeOK
  <2>3. QED
    BY <1>2, <1>5, <2>1, <2>2 DEF SleepOver, RunnerTypeOK, deviceVars, taskVars, InFault
<1>6. CASE EndFault
  <2>1. pc' \in {"wait", "top"}
    BY <1>6 DEF EndFault
  <2>2. QED
    BY <1>2, <1>6, <2>1 DEF EndFault, RunnerTypeOK, deviceVars, taskVars, InFault, Suspended
<1>7. CASE ExecDone
  <2>1. scenario' = scenario /\ idx' = idx /\ Current' = Current
    BY <1>7 DEF ExecDone, Current
  <2>2. step' \in 1..(Len(Program(Current')) + 1) /\ pc' = "inject"
    BY <1>2, <1>7, <2>1 DEF ExecDone, RunnerTypeOK
  <2>3. device' \in [Resources -> DeviceStates]
    BY <1>7, EffectType DEF ExecDone, RunnerTypeOK
  <2>4. saved' \in [Resources -> DeviceStates]
    <3>1. \A c : Effect(Current, c) \in [Resources -> DeviceStates]
      BY EffectType DEF RunnerTypeOK
    <3>2. QED
      BY <1>7, <3>1 DEF ExecDone, RunnerTypeOK, Saved
  <2>5. QED
    BY <1>2, <1>7, <2>1, <2>2, <2>3, <2>4 DEF ExecDone, RunnerTypeOK, taskVars, InFault
<1>8. CASE ExecFailed
  <2>1. scenario' = scenario /\ idx' = idx /\ Current' = Current
    BY <1>8 DEF ExecFailed, Current
  <2>2. step' \in 1..(Len(Program(Current')) + 1) /\ pc' = "inject"
    BY <1>2, <1>8, <2>1 DEF ExecFailed, RunnerTypeOK
  <2>3. QED
    BY <1>2, <1>8, <2>1, <2>2 DEF ExecFailed, RunnerTypeOK, taskVars, InFault
<1>9. CASE ExecRaised
  <2>1. scenario' = scenario /\ idx' = idx /\ Current' = Current
    BY <1>9 DEF ExecRaised, Current
  <2>2. step' \in 1..(Len(Program(Current')) + 1) /\ pc' = "inject"
    BY <1>2, <1>9, <2>1 DEF ExecRaised
  <2>3. QED
    BY <1>2, <1>9, <2>1, <2>2 DEF ExecRaised, RunnerTypeOK, taskVars, InFault
<1>10. QED
  BY <1>3, <1>4, <1>5, <1>6, <1>7, <1>8, <1>9

LEMMA RunnerTypeStep == RunnerTypeOK /\ [Next]_vars => RunnerTypeOK'
<1> SUFFICES ASSUME RunnerTypeOK, [Next]_vars PROVE RunnerTypeOK'
  OBVIOUS
<1> USE DEF deviceVars, taskVars
<1>1. ASSUME Construct \/ LogScenarioStart PROVE RunnerTypeOK'
  BY <1>1 DEF Construct, LogScenarioStart, RunnerTypeOK, InFault, Suspended
<1>2. CASE StartBackgroundTraffic
  BY <1>2 DEF StartBackgroundTraffic, RunnerTypeOK, InFault, Suspended, Tasks
<1>3. CASE BeginFault
  <2>1. scenario' = scenario /\ idx' = idx + 1 /\ idx + 1 \in 1..Len(scenario)
    BY <1>3, ScenarioFacts DEF BeginFault, RunnerTypeOK
  <2>2. Current' \in FaultRecord
    BY <2>1, ScenarioFacts DEF Current
  <2>3. Len(Program(Current')) \in Nat
    BY <2>2, ProgramLength
  <2>4. QED
    BY <1>3, <2>1, <2>3 DEF BeginFault, RunnerTypeOK, InFault
<1>4. CASE LeaveLoop
  BY <1>4 DEF LeaveLoop, RunnerTypeOK, InFault, Suspended
<1>5. CASE WaitOver
  BY <1>5 DEF WaitOver, RunnerTypeOK, InFault, Suspended
<1>6. CASE Cleanup
  BY <1>6, CancelledType DEF Cleanup, CleanupTraffic, RunnerTypeOK, InFault, Suspended
<1>7. ASSUME LogScenarioEnd \/ ScenarioEndRaises PROVE RunnerTypeOK'
  BY <1>7 DEF LogScenarioEnd, ScenarioEndRaises, RunnerTypeOK, InFault, Suspended
<1>8. CASE MainShutdown
  BY <1>8, CancelledType
  DEF MainShutdown, Shutdown, CleanupTraffic, RunnerTypeOK, InFault, Suspended
<1>9. CASE Teardown
  <2>1. pc' \in Over
    BY <1>9 DEF Teardown, Over
  <2>2. QED
    BY <1>9, <2>1 DEF Teardown, RunnerTypeOK, InFault, Suspended, Over
<1>10. CASE Signal
  <2>1. signals' \in 0..MaxSignals
    BY <1>10, BoundsAssumption DEF Signal, RunnerTypeOK
  <2>2. Current' = Current
    BY <1>10 DEF Signal, Current
  <2>3. QED
    BY <1>10, <2>1, <2>2, CancelledType DEF Signal, Shutdown, CleanupTraffic, RunnerTypeOK
<1>11. ASSUME NEW t \in Tasks, TaskStep(t) PROVE RunnerTypeOK'
  <2>1. UNCHANGED mainVars
    BY <1>11 DEF TaskStep, FlowStart, RampStart, RampLog, FlowEnd, FlowFailed, FlowAbandoned
  <2>2. task' \in [Tasks -> {"none", "pending", "opened", "active", "cancelling",
                             "cancelled", "abandoned", "completed", "failed"}]
    BY <1>11
    DEF TaskStep, FlowStart, RampStart, RampLog, FlowEnd, FlowFailed, FlowAbandoned, RunnerTypeOK
  <2>3. Current' = Current
    BY <2>1 DEF mainVars, Current
  <2>4. QED
    BY <2>1, <2>2, <2>3 DEF mainVars, RunnerTypeOK
<1>12. CASE UNCHANGED vars
  <2>1. Current' = Current
    BY <1>12 DEF vars, Current
  <2>2. QED
    BY <1>12, <2>1 DEF vars, RunnerTypeOK
<1>13. QED
  BY <1>1, <1>2, <1>3, <1>4, <1>5, <1>6, <1>7, <1>8, <1>9, <1>10, <1>11, <1>12, RunnerTypeInject
  DEF Next, MainStep, Ended

\* The runner's variables keep their types in every behaviour.
THEOREM RunnerTypeCorrect == Spec => []RunnerTypeOK
BY RunnerTypeInit, RunnerTypeStep, PTL DEF Spec

-----------------------------------------------------------------------------
(***************************************************************************)
(* Self-restoring faults.                                                  *)
(***************************************************************************)

\* The steps of fault f before which its resource is disturbed: from after the
\* command that takes it down to the one that brings it back.
Disturbed(f, k) ==
  \/ f.type = "bgp_reset" /\ k \in {3, 4}
  \/ f.type = "interface_flap" /\ k % 4 \in {2, 3}

\* SelfRestoring is not inductive: during an injection it says nothing.  This
\* says where in the injection a resource may be found down.
DownOnlyInside ==
  ~failed =>
    \A r \in SelfRestoringResources :
      device[r] # "normal" =>
        pc \in InFault /\ Resource(Current) = r /\ Disturbed(Current, step)

\* Once all its steps are done a fault disturbs nothing.
LEMMA NotDisturbedAfter ==
  ASSUME NEW f \in FaultRecord
  PROVE  ~Disturbed(f, Len(Program(f)) + 1)
<1>1. CASE f.type = "bgp_reset"
  <2>1. Len(Program(f)) = 4
    BY <1>1, ResetProgram
  <2>2. 4 + 1 \notin {3, 4}
    OBVIOUS
  <2>3. QED
    BY <1>1, <2>1, <2>2 DEF Disturbed
<1>2. CASE f.type = "interface_flap"
  <2>1. f.cycles \in Nat /\ Len(Program(f)) = 4 * f.cycles - 1
    BY <1>2, FlapProgram DEF FaultRecord
  <2>2. (Len(Program(f)) + 1) % 4 = 0
    BY <2>1
  <2>3. QED
    BY <1>2, <2>2 DEF Disturbed
<1>3. CASE f.type \notin {"bgp_reset", "interface_flap"}
  BY <1>3 DEF Disturbed
<1>4. QED
  BY <1>1, <1>2, <1>3

\* A step leaves the resource of its fault down only if the resource counts as
\* disturbed before the next step.
LEMMA StepDisturbs ==
  ASSUME NEW f \in FaultRecord, f.type \in SelfRestoringTypes,
         NEW k \in 1..Len(Program(f)), NEW v,
         Disturbed(f, k) \/ v = "normal",
         After(Program(f)[k], v) # "normal"
  PROVE  Disturbed(f, k + 1)
<1>1. CASE f.type = "bgp_reset"
  <2>1. Program(f) = <<"clear", "shutdown", "sleep", "no_shutdown">> /\ k \in 1..4
    BY <1>1, ResetProgram
  <2>2. QED
    BY <1>1, <2>1 DEF Disturbed, After
<1>2. CASE f.type = "interface_flap"
  <2>1. /\ k \in Nat
        /\ Program(f)[k] = IF k % 4 = 1 THEN "link_down"
                           ELSE IF k % 4 = 3 THEN "link_up" ELSE "sleep"
    BY <1>2, FlapProgram
  <2>2. /\ k % 4 \in 0..3
        /\ k % 4 = 1 => (k + 1) % 4 = 2
        /\ k % 4 = 2 => (k + 1) % 4 = 3
    BY <2>1
  <2>3. QED
    BY <1>2, <2>1, <2>2 DEF Disturbed, After
<1>3. QED
  BY <1>1, <1>2 DEF SelfRestoringTypes

\* The main task sleeps only at a sleep step.
SleepsAtSleep == pc = "sleep" => Program(Current)[step] = "sleep"

SelfRestoringIInv == RunnerTypeOK /\ SleepsAtSleep /\ DownOnlyInside

LEMMA SelfRestoringInit == Init => SelfRestoringIInv
BY RunnerTypeInit DEF Init, SelfRestoringIInv, SleepsAtSleep, DownOnlyInside, SelfRestoringResources

\* The steps within one fault.
LEMMA SelfRestoringInject ==
  ASSUME SelfRestoringIInv,
         SpawnRamp \/ Suspend \/ SleepOver \/ EndFault \/ ExecDone \/ ExecFailed \/ ExecRaised
  PROVE  SleepsAtSleep' /\ DownOnlyInside'
<1> USE DEF SelfRestoringIInv, deviceVars
<1>1. pc \in InFault
  BY DEF SpawnRamp, Suspend, SleepOver, EndFault, ExecDone, ExecFailed, ExecRaised, InFault
<1>2. /\ Current \in FaultRecord /\ Current \in AllFaults
      /\ Len(Program(Current)) \in Nat
      /\ step \in Nat /\ step >= 1 /\ step <= Len(Program(Current)) + 1
  BY <1>1, CurrentFacts
<1>3. scenario' = scenario /\ idx' = idx /\ Current' = Current
  BY DEF SpawnRamp, Suspend, SleepOver, EndFault, ExecDone, ExecFailed, ExecRaised, Current
\* The fault that has a self-restoring resource down is of such a type.
<1>4. ASSUME NEW r \in SelfRestoringResources, Resource(Current) = r
      PROVE  Current.type \in SelfRestoringTypes
  BY <1>2, <1>4 DEF SelfRestoringResources
<1>5. CASE SpawnRamp
  <2>1. Current.type = "traffic_ramp"
    BY <1>2, <1>5, OnlyRampsSpawn DEF SpawnRamp
  <2>2. \A k : ~Disturbed(Current, k)
    BY <2>1 DEF Disturbed
  <2>3. QED
    BY <1>3, <1>5, <2>2 DEF SpawnRamp, SleepsAtSleep, DownOnlyInside
<1>6. CASE Suspend
  BY <1>3, <1>6 DEF Suspend, SleepsAtSleep, DownOnlyInside, InFault
<1>7. CASE SleepOver
  <2>1. /\ step \in 1..Len(Program(Current)) /\ Program(Current)[step] = "sleep"
        /\ step' = step + 1 /\ pc' = "inject" /\ device' = device /\ failed' = failed
    BY <1>2, <1>7 DEF SleepOver, RunnerTypeOK, SleepsAtSleep
  <2>2. ASSUME ~failed, NEW r \in SelfRestoringResources, device[r] # "normal"
        PROVE  Resource(Current) = r /\ Disturbed(Current, step + 1)
    <3>1. Resource(Current) = r /\ Disturbed(Current, step)
      BY <2>2 DEF DownOnlyInside
    <3>2. After("sleep", device[r]) = device[r]
      BY DEF After
    <3>3. QED
      BY <1>2, <1>4, <2>1, <2>2, <3>1, <3>2, StepDisturbs
  <2>3. QED
    BY <1>3, <2>1, <2>2 DEF SleepsAtSleep, DownOnlyInside, InFault
<1>8. CASE EndFault
  <2>1. step = Len(Program(Current)) + 1
    BY <1>2, <1>8 DEF EndFault
  <2>2. ~Disturbed(Current, step)
    BY <1>2, <2>1, NotDisturbedAfter
  <2>3. QED
    BY <1>3, <1>8, <2>2 DEF EndFault, SleepsAtSleep, DownOnlyInside
<1>9. CASE ExecDone
  <2>1. /\ step \in 1..Len(Program(Current))
        /\ step' = step + 1 /\ pc' = "inject" /\ failed' = failed
        /\ device' = Effect(Current, Program(Current)[step])
    BY <1>2, <1>9 DEF ExecDone, RunnerTypeOK
  <2>2. ASSUME ~failed, NEW r \in SelfRestoringResources, device'[r] # "normal"
        PROVE  Resource(Current) = r /\ Disturbed(Current, step + 1)
    <3>1. r \in Resources
      BY DEF SelfRestoringResources
    <3>2. CASE r = Resource(Current)
      <4>1. device'[r] = After(Program(Current)[step], device[r])
        BY <2>1, <3>1, <3>2 DEF Effect
      <4>2. Disturbed(Current, step) \/ device[r] = "normal"
        BY <2>2 DEF DownOnlyInside
      <4>3. QED
        BY <1>2, <1>4, <2>1, <2>2, <3>2, <4>1, <4>2, StepDisturbs
    <3>3. CASE r # Resource(Current)
      <4>1. device[r] = "normal"
        BY <2>2, <3>3 DEF DownOnlyInside
      <4>2. device'[r] = "normal"
        BY <2>1, <3>1, <3>3, <4>1 DEF Effect
      <4>3. QED
        BY <2>2, <4>2
    <3>4. QED
      BY <3>2, <3>3
  <2>3. QED
    BY <1>3, <2>1, <2>2 DEF SleepsAtSleep, DownOnlyInside, InFault
<1>10. CASE ExecFailed \/ ExecRaised
  BY <1>10 DEF ExecFailed, ExecRaised, SleepsAtSleep, DownOnlyInside
<1>11. QED
  BY <1>5, <1>6, <1>7, <1>8, <1>9, <1>10

LEMMA SelfRestoringStep == SelfRestoringIInv /\ [Next]_vars => SelfRestoringIInv'
<1> SUFFICES ASSUME SelfRestoringIInv, [Next]_vars PROVE SelfRestoringIInv'
  OBVIOUS
<1> USE DEF SelfRestoringIInv
<1>1. RunnerTypeOK'
  BY RunnerTypeStep
\* The other steps of the main task start and end outside a fault, or begin one.
<1>2. CASE Construct \/ LogScenarioStart \/ StartBackgroundTraffic \/ BeginFault \/ LeaveLoop
           \/ WaitOver \/ Cleanup \/ LogScenarioEnd \/ ScenarioEndRaises \/ MainShutdown \/ Teardown
  <2>1. pc \notin InFault /\ pc' # "sleep" /\ device' = device /\ failed' = failed
    BY <1>2
    DEF Construct, LogScenarioStart, StartBackgroundTraffic, BeginFault, LeaveLoop, WaitOver,
        Cleanup, LogScenarioEnd, ScenarioEndRaises, MainShutdown, Teardown, InFault, deviceVars
  <2>2. QED
    BY <1>1, <2>1 DEF SleepsAtSleep, DownOnlyInside
<1>3. CASE \/ Signal \/ UNCHANGED vars
           \/ \E t \in Tasks : TaskStep(t)
  <2>1. UNCHANGED <<scenario, pc, idx, step, deviceVars>>
    BY <1>3
    DEF Signal, vars, TaskStep, FlowStart, RampStart, RampLog, FlowEnd, FlowFailed,
        FlowAbandoned, mainVars
  <2>2. Current' = Current
    BY <2>1 DEF Current
  <2>3. QED
    BY <1>1, <2>1, <2>2 DEF SleepsAtSleep, DownOnlyInside, deviceVars
<1>4. QED
  BY <1>1, <1>2, <1>3, SelfRestoringInject DEF Next, MainStep, Ended

\* Whatever signals arrive, bgp_reset and interface_flap undo what they did
\* before the runner goes on, for any scenarios and any number of signals.
THEOREM SelfRestoringCorrect == Spec => []SelfRestoring
<1>1. SelfRestoringIInv => SelfRestoring
  BY DEF SelfRestoringIInv, DownOnlyInside, SelfRestoring
<1>2. QED
  BY <1>1, SelfRestoringInit, SelfRestoringStep, PTL DEF Spec

-----------------------------------------------------------------------------
(***************************************************************************)
(* What a reset leaves in the startup configuration.                       *)
(***************************************************************************)

\* A neighbour is only found shut in its own reset, between the commands.
ShutInside ==
  \A r \in Resources : device[r] = "shut" =>
    /\ pc \in InFault /\ Resource(Current) = r
    /\ Current.type = "bgp_reset" /\ step \in {3, 4}

\* Fault j writes the configuration of r's router; the one in progress has yet to.
WritesBehind(j, r) ==
  /\ scenario[j].type = "bgp_reset" /\ scenario[j].target = r[2]
  /\ ~(j = idx /\ pc \in InFault /\ step <= 2)

SavedByReset ==
  \A r \in Resources : saved[r] = "shut" =>
    /\ r[1] = "bgp"
    /\ \E i \in 1..idx : Resource(scenario[i]) = r /\ \A j \in (i + 1)..idx : ~WritesBehind(j, r)

SavedIInv == SelfRestoringIInv /\ (~failed => ShutInside /\ SavedByReset)

LEMMA SavedInit == Init => SavedIInv
BY SelfRestoringInit DEF Init, SavedIInv, ShutInside, SavedByReset

\* Only the second step of a reset shuts anything, and it sleeps only at its third.
LEMMA ResetSteps ==
  ASSUME NEW f \in FaultRecord, NEW k \in 1..Len(Program(f))
  PROVE  /\ Program(f)[k] = "shutdown" <=> f.type = "bgp_reset" /\ k = 2
         /\ f.type = "bgp_reset" => /\ k \in 1..4 /\ (Program(f)[k] = "sleep" <=> k = 3)
                                    /\ (k = 4 => Program(f)[k] = "no_shutdown")
                                    /\ Program(f)[k] # "spawn"
<1>1. CASE f.type = "interface_flap"
  BY <1>1, FlapProgram
<1>2. CASE f.type = "bgp_reset"
  <2>1. Program(f) = <<"clear", "shutdown", "sleep", "no_shutdown">> /\ Len(Program(f)) = 4
    BY <1>2, ResetProgram
  <2>2. k \in {1, 2, 3, 4}
    BY <2>1
  <2>3. QED
    BY <1>2, <2>1, <2>2
<1>3. CASE f.type \notin {"interface_flap", "bgp_reset"}
  <2>1. Program(f) \in
          { <<>>, <<"spawn">>,
            <<"no_ldp", "sleep">>, <<"ldp">>, <<"htb", "filter">>, <<"qdisc_del">>,
            <<"sa_down", "sleep">>, <<"sa_up">>, <<"rekey">>, <<"stop">>,
            <<"start", "sleep">>, <<"link_down", "sleep">>, <<"link_up">>, <<"sleep">> }
    BY <1>3 DEF Program
  <2>2. QED
    BY <1>3, <2>1
<1>4. QED
  BY <1>1, <1>2, <1>3

\* A docker exec that succeeds.
LEMMA SavedExec ==
  ASSUME SavedIInv, ExecDone, ~failed
  PROVE  ShutInside' /\ SavedByReset'
<1> DEFINE c == Program(Current)[step]
<1>1. /\ pc \in InFault /\ pc' \in InFault
      /\ scenario' = scenario /\ idx' = idx /\ Current' = Current /\ step' = step + 1
      /\ device' = Effect(Current, c) /\ saved' = Saved(Current, c)
  BY DEF ExecDone, InFault, Current
<1>2. /\ idx \in 1..Len(scenario) /\ idx \in Nat /\ Current \in FaultRecord /\ step \in Nat /\ step >= 1
      /\ step \in 1..Len(Program(Current)) /\ Current = scenario[idx]
      /\ saved \in [Resources -> DeviceStates] /\ device \in [Resources -> DeviceStates]
  BY <1>1, CurrentFacts, ScenarioFacts
  DEF ExecDone, SavedIInv, SelfRestoringIInv, RunnerTypeOK, Current
<1>3. /\ c = "shutdown" <=> Current.type = "bgp_reset" /\ step = 2
      /\ Current.type = "bgp_reset" => step \in 1..4 /\ (step = 4 => c = "no_shutdown")
  BY <1>2, ResetSteps
<1>4. ShutInside /\ SavedByReset
  BY DEF SavedIInv
<1> HIDE DEF c
<1>5. \A r \in Resources : device'[r] = "shut" =>
        IF r = Resource(Current) THEN c = "shutdown" \/ (device[r] = "shut" /\ c # "no_shutdown")
        ELSE device[r] = "shut"
  BY <1>1 DEF Effect, After
<1>6. ShutInside'
  <2>1. SUFFICES ASSUME NEW r \in Resources, device'[r] = "shut"
                 PROVE  /\ Resource(Current) = r /\ Current.type = "bgp_reset"
                        /\ step + 1 \in {3, 4}
    BY <1>1 DEF ShutInside, Resources
  <2>2. CASE c = "shutdown" /\ r = Resource(Current)
    BY <1>3, <2>2
  <2>3. CASE device[r] = "shut"
    <3>1. Resource(Current) = r /\ Current.type = "bgp_reset" /\ step \in {3, 4}
      BY <1>4, <2>3 DEF ShutInside
    <3>2. c # "no_shutdown" \/ step # 4
      BY <1>5, <2>1, <3>1, <1>3
    <3>3. c = "no_shutdown" => FALSE
      BY <1>1, <1>5, <2>1, <3>1 DEF Effect, After
    <3>4. QED
      BY <1>3, <3>1, <3>3
  <2>4. QED
    BY <1>5, <2>1, <2>2, <2>3
<1>7. ASSUME NEW r \in Resources, saved'[r] = "shut"
      PROVE  /\ r[1] = "bgp"
             /\ \E i \in 1..idx : Resource(scenario[i]) = r
                                  /\ \A j \in (i + 1)..idx : ~WritesBehind(j, r)'
  <2>1. CASE c = "shutdown" /\ r = Resource(Current)
    <3>1. r[1] = "bgp"
      BY <1>3, <2>1 DEF Resource, Plane
    <3>2. idx \in 1..idx /\ (idx + 1)..idx = {}
      BY <1>2
    <3>3. QED
      BY <1>2, <2>1, <3>1, <3>2
  <2>2. CASE ~(c = "shutdown" /\ r = Resource(Current))
    <3>1. saved[r] = "shut" /\ (c = "shutdown" => r[1] \notin {"bgp", "ldp"} \/ r[2] # Current.target)
      <4>1. CASE c = "shutdown" /\ r[1] \in {"bgp", "ldp"} /\ r[2] = Current.target
        <5>1. Effect(Current, c)[r] = "shut"
          BY <1>1, <1>7, <4>1 DEF Saved
        <5>2. device[r] = "shut"
          BY <1>1, <1>5, <2>2, <4>1, <5>1
        <5>3. QED
          BY <1>3, <1>4, <4>1, <5>2 DEF ShutInside
      <4>2. CASE ~(c = "shutdown" /\ r[1] \in {"bgp", "ldp"} /\ r[2] = Current.target)
        BY <1>1, <1>7, <4>2 DEF Saved
      <4>3. QED
        BY <4>1, <4>2
    <3>2. r[1] = "bgp"
      BY <1>4, <3>1 DEF SavedByReset
    <3>3. PICK i \in 1..idx : Resource(scenario[i]) = r /\ \A j \in (i + 1)..idx : ~WritesBehind(j, r)
      BY <1>4, <3>1 DEF SavedByReset
    <3>4. ASSUME NEW j \in (i + 1)..idx PROVE ~WritesBehind(j, r)'
      <4>1. CASE j # idx
        BY <1>1, <3>3, <4>1 DEF WritesBehind
      <4>2. CASE j = idx
        <5>1. c = "shutdown" => r[2] # Current.target
          BY <3>1, <3>2
        <5>2. Current.type = "bgp_reset" /\ Current.target = r[2] => step = 1
          BY <1>1, <1>2, <1>3, <3>3, <4>2, <5>1 DEF WritesBehind
        <5>3. QED
          BY <1>1, <1>2, <4>2, <5>2 DEF WritesBehind
      <4>3. QED
        BY <4>1, <4>2
    <3>5. QED
      BY <3>2, <3>3, <3>4
  <2>3. QED
    BY <2>1, <2>2
<1>8. SavedByReset'
  BY <1>1, <1>7 DEF SavedByReset, Resources
<1>9. QED
  BY <1>6, <1>8

\* What neither runs a command nor begins a fault.
LEMMA SavedKept ==
  ASSUME SavedIInv, ~failed, UNCHANGED <<scenario, idx, device, saved>>,
         pc \in InFault <=> pc' \in InFault,
         pc \in InFault => step' \in Nat /\
           (Current.type = "bgp_reset" => step' = step \/ (step' = 4 /\ step = 3)),
         pc \in InFault => step \in Nat
  PROVE  ShutInside' /\ SavedByReset'
<1>1. ShutInside /\ SavedByReset /\ Current' = Current /\ Current = scenario[idx]
  BY DEF SavedIInv, Current
<1>2. ShutInside'
  BY <1>1 DEF ShutInside, Resources
<1>3. \A r \in Resources : \A j : ~WritesBehind(j, r) => ~WritesBehind(j, r)'
  BY <1>1 DEF WritesBehind
<1>4. SavedByReset'
  BY <1>1, <1>3 DEF SavedByReset, Resources
<1>5. QED
  BY <1>2, <1>4

\* What begins a fault, or is over with one.
LEMMA SavedStep == SavedIInv /\ [Next]_vars => SavedIInv'
<1> SUFFICES ASSUME SavedIInv, [Next]_vars PROVE SavedIInv'
  OBVIOUS
<1> USE DEF deviceVars
<1>1. SelfRestoringIInv' /\ RunnerTypeOK
  BY SelfRestoringStep DEF SavedIInv, SelfRestoringIInv
<1>2. SUFFICES ASSUME ~failed' PROVE ShutInside' /\ SavedByReset'
  BY <1>1 DEF SavedIInv
<1>3. pc \in InFault =>
        /\ Current \in FaultRecord /\ step \in Nat /\ Len(Program(Current)) \in Nat
        /\ step \in 1..Len(Program(Current)) + 1
  BY <1>1, CurrentFacts
<1>4. CASE SleepOver
  <2>1. step \in 1..Len(Program(Current)) /\ Program(Current)[step] = "sleep" /\ pc \in InFault
    BY <1>1, <1>3, <1>4 DEF SleepOver, RunnerTypeOK, SavedIInv, SelfRestoringIInv, SleepsAtSleep, InFault
  <2>2. Current.type = "bgp_reset" => step = 3
    BY <1>3, <2>1, ResetSteps
  <2>3. QED
    BY <1>2, <1>3, <1>4, <2>1, <2>2, SavedKept DEF SleepOver, InFault
<1>5. CASE SpawnRamp
  <2>1. Current.type = "traffic_ramp" /\ pc \in InFault
    BY <1>3, <1>5, OnlyRampsSpawn DEF SpawnRamp, InFault
  <2>2. QED
    BY <1>2, <1>3, <1>5, <2>1, SavedKept DEF SpawnRamp, InFault
<1>6. CASE Suspend \/ Signal \/ UNCHANGED vars \/ \E t \in Tasks : TaskStep(t)
  <2>1. UNCHANGED <<scenario, idx, step, device, saved, failed>> /\ (pc \in InFault <=> pc' \in InFault)
    BY <1>6
    DEF Suspend, Signal, vars, TaskStep, FlowStart, RampStart, RampLog, FlowEnd, FlowFailed,
        FlowAbandoned, mainVars, InFault
  <2>2. QED
    BY <1>2, <1>3, <2>1, SavedKept
<1>7. CASE \/ Construct \/ LogScenarioStart \/ StartBackgroundTraffic \/ LeaveLoop \/ WaitOver
           \/ Cleanup \/ LogScenarioEnd \/ ScenarioEndRaises \/ MainShutdown \/ Teardown
  <2>1. /\ UNCHANGED <<scenario, idx, device, saved, failed>>
        /\ pc \notin InFault /\ pc' \notin InFault
    BY <1>7
    DEF Construct, LogScenarioStart, StartBackgroundTraffic, LeaveLoop, WaitOver, Cleanup,
        LogScenarioEnd, ScenarioEndRaises, MainShutdown, Teardown, InFault
  <2>2. QED
    BY <1>2, <2>1, SavedKept
<1>8. CASE EndFault
  <2>1. /\ pc \in InFault /\ pc' \notin InFault /\ step > Len(Program(Current))
        /\ UNCHANGED <<scenario, idx, device, saved, failed>>
    BY <1>8 DEF EndFault, InFault
  <2>2. ASSUME Current.type = "bgp_reset" PROVE step = 5
    <3>1. Len(Program(Current)) = 4
      BY <1>3, <2>1, <2>2, ResetProgram
    <3>2. QED
      BY <1>3, <2>1, <3>1
  <2>3. ShutInside /\ SavedByReset /\ Current = scenario[idx]
    BY <1>2, <2>1 DEF SavedIInv, Current
  <2>4. \A r \in Resources : \A j : ~WritesBehind(j, r) => ~WritesBehind(j, r)'
    BY <2>1, <2>2, <2>3 DEF WritesBehind
  <2>5. QED
    BY <2>1, <2>2, <2>3, <2>4 DEF ShutInside, SavedByReset, Resources
<1>9. CASE BeginFault
  <2>1. /\ pc \notin InFault /\ pc' \in InFault /\ idx' = idx + 1 /\ step' = 1
        /\ UNCHANGED <<scenario, device, saved, failed>> /\ idx \in Nat
    BY <1>1, <1>9, ScenarioFacts DEF BeginFault, InFault
  <2>2. ShutInside /\ SavedByReset
    BY <1>2, <2>1 DEF SavedIInv
  <2>3. ShutInside'
    BY <2>1, <2>2 DEF ShutInside, Resources
  <2>4. \A r \in Resources : \A j : j = idx + 1 \/ ~WritesBehind(j, r) => ~WritesBehind(j, r)'
    BY <2>1 DEF WritesBehind
  <2>5. ASSUME NEW r \in Resources, NEW i \in 1..idx,
               \A j \in (i + 1)..idx : ~WritesBehind(j, r)
        PROVE  i \in 1..(idx + 1) /\ \A j \in (i + 1)..(idx + 1) : ~WritesBehind(j, r)'
    <3>1. \A j \in (i + 1)..(idx + 1) : j = idx + 1 \/ j \in (i + 1)..idx
      BY <2>1
    <3>2. QED
      BY <2>1, <2>4, <2>5, <3>1
  <2>6. SavedByReset'
    BY <2>1, <2>2, <2>5 DEF SavedByReset, Resources
  <2>7. QED
    BY <2>3, <2>6
<1>10. CASE ExecFailed \/ ExecRaised
  BY <1>2, <1>10 DEF ExecFailed, ExecRaised
<1>11. CASE ExecDone
  BY <1>2, <1>11, SavedExec DEF ExecDone
<1>12. QED
  BY <1>4, <1>5, <1>6, <1>7, <1>8, <1>9, <1>10, <1>11 DEF Next, MainStep, Ended

\* For every set of scenarios, a router's startup configuration records at most the
\* neighbour of the last reset on that router as shut, unless a docker exec failed.
THEOREM SavedShutCorrect == Spec => []SavedShutIsLastReset
<1>1. SavedIInv => SavedShutIsLastReset
  <2>1. SUFFICES ASSUME SavedIInv, pc \notin InFault, ~failed, NEW r \in Resources, saved[r] = "shut"
                 PROVE  \E i \in 1..idx :
                          /\ Resource(scenario[i]) = r
                          /\ \A j \in (i + 1)..idx :
                               ~(scenario[j].type = "bgp_reset" /\ scenario[j].target = r[2])
    BY DEF SavedShutIsLastReset
  <2>2. QED
    BY <2>1 DEF SavedIInv, SavedByReset, WritesBehind
<1>2. QED
  BY <1>1, SavedInit, SavedStep, PTL DEF Spec

-----------------------------------------------------------------------------
(***************************************************************************)
(* The runner and the log files.                                           *)
(***************************************************************************)

\* Every step of the runner is a step of one logger, or none.
LEMMA LogStep == [Next]_vars => [GT!FreeNext]_(GT!vars)
<1> SUFFICES ASSUME [Next]_vars PROVE [GT!FreeNext]_(GT!vars)
  OBVIOUS
<1> USE DEF GT!vars, logVars
<1> DEFINE L == {Own, Bg} \cup Ramps
<1>1. ASSUME NEW l \in L,
             GT!Open(l) \/ GT!Close(l) \/ GT!LogFlowStart(l, 1) \/ GT!LogFlowEnd(l, 1)
               \/ GT!LogFault(l, 1)
      PROVE  GT!FreeNext
  BY <1>1 DEF GT!FreeNext
<1>2. Own \in L /\ Bg \in L
  OBVIOUS
<1>3. CASE Construct \/ LogScenarioStart \/ StartBackgroundTraffic \/ BeginFault \/ LogScenarioEnd
  BY <1>1, <1>2, <1>3
  DEF Construct, LogScenarioStart, StartBackgroundTraffic, BeginFault, LogScenarioEnd
<1>4. CASE \/ LeaveLoop \/ SpawnRamp \/ Suspend \/ SleepOver \/ EndFault \/ WaitOver
           \/ ExecDone \/ ExecFailed \/ ExecRaised \/ Cleanup \/ ScenarioEndRaises \/ Teardown
  BY <1>4
  DEF LeaveLoop, SpawnRamp, Suspend, SleepOver, EndFault, WaitOver, ExecDone, ExecFailed,
      ExecRaised, Cleanup, ScenarioEndRaises, Teardown
<1>5. CASE MainShutdown \/ Signal
  BY <1>1, <1>2, <1>5 DEF MainShutdown, Signal, Shutdown
<1>6. ASSUME NEW t \in Tasks, TaskStep(t) PROVE [GT!FreeNext]_(GT!vars)
  <2>1. LoggerOf(t) \in L /\ (t \in Ramps => t \in L)
    BY DEF LoggerOf
  <2>2. CASE FlowStart(t) \/ RampStart(t) \/ FlowEnd(t)
    BY <1>1, <1>2, <2>1, <2>2 DEF FlowStart, RampStart, FlowEnd
  <2>3. CASE FlowFailed(t) \/ FlowAbandoned(t)
    BY <2>3 DEF FlowFailed, FlowAbandoned
  <2>4. CASE RampLog(t)
    BY <1>1, <2>1, <2>4 DEF RampLog
  <2>5. QED
    BY <1>6, <2>2, <2>3, <2>4 DEF TaskStep
<1>7. CASE UNCHANGED vars
  BY <1>7 DEF vars
<1>8. QED
  BY <1>3, <1>4, <1>5, <1>6, <1>7 DEF Next, MainStep, Ended

-----------------------------------------------------------------------------
(***************************************************************************)
(* The types of the logs' state, from GroundTruthProofs.                   *)
(***************************************************************************)

GTP == INSTANCE GroundTruthProofs WITH
         Loggers <- {Own, Bg} \cup Ramps, NoLogger <- <<"none", 0>>,
         RowWidths <- {1}, MaxRows <- 0

\* GroundTruth's assumptions hold of the runner's loggers.
LEMMA LogAssumptions ==
  /\ <<"none", 0>> \notin {Own, Bg} \cup Ramps
  /\ {1} \subseteq Nat \ {0}
  /\ 0 \in Nat
<1>1. <<"none", 0>> \notin {Own, Bg} \cup Ramps
  BY DEF Own, Bg, Ramps
<1>2. QED
  BY <1>1

\* The two instances of GroundTruth are the same.
LEMMA SameTypes == GTP!TypeOK = GT!TypeOK /\ GTP!TypeOK' = GT!TypeOK'
BY DEF GTP!TypeOK, GT!TypeOK, GTP!Files, GT!Files, GTP!Cell, GT!Cell

LEMMA SameSteps == [GT!FreeNext]_(GT!vars) => [GTP!FreeNext]_(GTP!vars)
BY DEF GT!FreeNext, GTP!FreeNext, GT!vars, GTP!vars, GT!Open, GTP!Open, GT!Close, GTP!Close,
       GT!LogFlowStart, GTP!LogFlowStart, GT!LogFlowEnd, GTP!LogFlowEnd, GT!LogFault, GTP!LogFault,
       GT!WriteRow, GTP!WriteRow, GT!Overlay, GTP!Overlay, GT!Larger, GTP!Larger,
       GT!RowCells, GTP!RowCells, GT!HeaderCell, GTP!HeaderCell, GT!Nul, GTP!Nul,
       GT!Files, GTP!Files

LEMMA LogTypeStep == GT!TypeOK /\ [Next]_vars => GT!TypeOK'
<1>1. GTP!TypeOK /\ [GTP!FreeNext]_(GTP!vars) => GTP!TypeOK'
  BY LogAssumptions, GTP!TypeStep
<1>2. QED
  BY <1>1, SameTypes, SameSteps, LogStep

LEMMA TypeInit == Init => TypeOK
<1>1. GTP!Init => GTP!TypeOK
  BY LogAssumptions, GTP!TypeInit
<1>2. GT!Init => GTP!Init
  BY DEF GT!Init, GTP!Init, GT!Files, GTP!Files
<1>3. QED
  BY <1>1, <1>2, SameTypes, RunnerTypeInit DEF Init, TypeOK

LEMMA TypeStep == TypeOK /\ [Next]_vars => TypeOK'
BY RunnerTypeStep, LogTypeStep DEF TypeOK

\* The runner and the logs it shares with its traffic keep their types.
THEOREM TypeCorrect == Spec => []TypeOK
BY TypeInit, TypeStep, PTL DEF Spec

-----------------------------------------------------------------------------
(***************************************************************************)
(* Signals and tasks.                                                      *)
(***************************************************************************)

\* The ramp of a fault is created by that fault's only step.
Created ==
  /\ pc \in {"init", "start", "traffic"} => \A t \in BgFlows : task[t] = "none"
  /\ \A i \in Nat : <<"ramp", i>> \in Tasks /\ task[<<"ramp", i>>] # "none" =>
       i < idx \/ (i = idx /\ step > 1)

LEMMA SpawnIsRamp ==
  ASSUME RunnerTypeOK, SpawnRamp
  PROVE  <<"ramp", idx>> \in Tasks /\ step = 1 /\ idx \in Nat
<1>1. pc \in InFault
  BY DEF SpawnRamp, InFault
<1>2. /\ idx \in 1..Len(scenario) /\ idx \in Nat /\ Current \in FaultRecord
      /\ step \in 1..Len(Program(Current)) /\ Program(Current)[step] = "spawn"
      /\ scenario \in Scenarios /\ scenario \in Seq(FaultRecord)
  BY <1>1, CurrentFacts, ScenarioFacts DEF SpawnRamp, RunnerTypeOK
<1>3. Current.type = "traffic_ramp"
  BY <1>2, OnlyRampsSpawn
<1>4. Len(Program(Current)) = 1
  BY <1>3 DEF Program
<1>5. <<"ramp", idx>> \in Ramps
  BY <1>2, <1>3 DEF Ramps, Current
<1>6. QED
  BY <1>2, <1>4, <1>5 DEF Tasks

LEMMA CancelledNone == \A ts : \A t \in Tasks : Cancelled(ts)[t] = "none" <=> task[t] = "none"
BY DEF Cancelled

CreatedIInv == RunnerTypeOK /\ Created

LEMMA CreatedStep == CreatedIInv /\ [Next]_vars => CreatedIInv'
<1> SUFFICES ASSUME CreatedIInv, [Next]_vars PROVE Created'
  BY RunnerTypeStep DEF CreatedIInv
<1> USE DEF CreatedIInv, Created, taskVars, deviceVars
<1> DEFINE Kept == \A t \in Tasks : task[t] = "none" <=> task'[t] = "none"
<1>1. CASE Construct \/ LogScenarioStart
  BY <1>1 DEF Construct, LogScenarioStart
<1>2. CASE StartBackgroundTraffic
  BY <1>2 DEF StartBackgroundTraffic, Tasks, BgFlows
<1>3. CASE BeginFault
  <2>1. idx' = idx + 1 /\ idx \in Nat /\ task' = task /\ pc' = "inject"
    BY <1>3, ScenarioFacts DEF BeginFault
  <2>2. QED
    BY <2>1
<1>4. CASE SpawnRamp
  <2>1. /\ <<"ramp", idx>> \in Tasks /\ step = 1 /\ step' = 2 /\ idx' = idx /\ idx \in Nat
        /\ pc' = "inject"
    BY <1>4, SpawnIsRamp DEF SpawnRamp
  <2>2. \A i \in Nat : <<"ramp", i>> \in Tasks /\ i # idx => task'[<<"ramp", i>>] = task[<<"ramp", i>>]
    BY <1>4 DEF SpawnRamp, RunnerTypeOK
  <2>3. QED
    BY <2>1, <2>2
<1>5. CASE \/ LeaveLoop \/ Suspend \/ SleepOver \/ EndFault \/ WaitOver \/ ExecDone \/ ExecFailed
           \/ ExecRaised \/ LogScenarioEnd \/ ScenarioEndRaises
  <2>1. UNCHANGED <<idx, task>> /\ pc' \notin {"init", "start", "traffic"}
    BY <1>5 DEF LeaveLoop, Suspend, SleepOver, EndFault, WaitOver, ExecDone, ExecFailed, ExecRaised,
                LogScenarioEnd, ScenarioEndRaises
  <2>2. CASE step' = step
    BY <2>1, <2>2
  <2>3. CASE SleepOver \/ ExecDone \/ ExecFailed
    <3>1. step' = step + 1 /\ step \in Nat
      BY <2>3 DEF SleepOver, ExecDone, ExecFailed, RunnerTypeOK
    <3>2. QED
      BY <2>1, <3>1
  <2>4. CASE ExecRaised
    <3>1. pc \in InFault
      BY <2>4 DEF ExecRaised, InFault
    <3>2. /\ step' = Len(Program(Current)) + 1 /\ Len(Program(Current)) \in Nat
          /\ step \in Nat /\ step <= Len(Program(Current)) + 1
      BY <2>4, <3>1, CurrentFacts DEF ExecRaised
    <3>3. QED
      BY <2>1, <3>2
  <2>5. QED
    BY <1>5, <2>2, <2>3, <2>4 DEF LeaveLoop, Suspend, EndFault, WaitOver, LogScenarioEnd, ScenarioEndRaises
<1>6. CASE Cleanup \/ MainShutdown \/ Teardown \/ Signal
  <2>1. UNCHANGED <<idx, step>> /\ pc' \notin {"init", "start", "traffic"}
    BY <1>6 DEF Cleanup, MainShutdown, Teardown, Signal, LoopFree, Suspended
  <2>2. Kept
    BY <1>6, CancelledNone DEF Cleanup, MainShutdown, Teardown, Signal, Shutdown, CleanupTraffic
  <2>3. QED
    BY <2>1, <2>2
<1>7. ASSUME NEW t \in Tasks, TaskStep(t) PROVE Created'
  <2>1. UNCHANGED <<idx, step, pc>>
    BY <1>7 DEF TaskStep, FlowStart, RampStart, RampLog, FlowEnd, FlowFailed, FlowAbandoned, mainVars
  <2>2. Kept
    BY <1>7
    DEF TaskStep, FlowStart, RampStart, RampLog, FlowEnd, FlowFailed, FlowAbandoned, RunnerTypeOK
  <2>3. BgFlows \subseteq Tasks
    BY DEF Tasks
  <2>4. QED
    BY <2>1, <2>2, <2>3
<1>8. CASE UNCHANGED vars
  BY <1>8 DEF vars
<1>9. QED
  BY <1>1, <1>2, <1>3, <1>4, <1>5, <1>6, <1>7, <1>8 DEF Next, MainStep, Ended

LEMMA CreatedInit == Init => CreatedIInv
<1> SUFFICES ASSUME Init PROVE Created
  BY RunnerTypeInit DEF CreatedIInv
<1> QED
  BY DEF Init, Created, Tasks

\* Tasks begin only if they are in active_traffic_tasks, and run only as long.
Recorded == \A t \in Tasks : task[t] \in {"pending", "opened", "active"} => t \in active

\* No task exists before the background traffic, and main is suspended while a ramp's
\* first step goes on.
TasksInTurn ==
  \A t \in Tasks :
    /\ pc \in {"init", "start", "traffic"} => task[t] = "none"
    /\ task[t] = "opened" => pc \in Suspended

\* The injection of a ramp awaits nothing, so no signal is handled before it is over.
RampsAwaitNothing == pc \in {"op", "sleep"} => Current.type # "traffic_ramp"
SignalSeen ==
  signals > 0 =>
    /\ ~running /\ pc \notin {"init", "start", "traffic"}
    /\ pc = "inject" => Current.type # "traffic_ramp"

QuietIInv ==
  /\ RunnerTypeOK
  /\ Recorded /\ TasksInTurn /\ RampsAwaitNothing /\ SignalSeen /\ NoTrafficAfterSignal

LEMMA QuietInit == Init => QuietIInv
<1> SUFFICES ASSUME Init PROVE QuietIInv
  OBVIOUS
<1> QED
  BY RunnerTypeInit
  DEF Init, QuietIInv, Recorded, TasksInTurn, RampsAwaitNothing, SignalSeen, NoTrafficAfterSignal

\* Where main goes, and that only the injection of a ramp spawns one.
LEMMA QuietMain ==
  ASSUME QuietIInv, [Next]_vars PROVE RampsAwaitNothing' /\ SignalSeen'
<1> USE DEF QuietIInv, RampsAwaitNothing, SignalSeen, Current, deviceVars
<1>0. signals \in Nat
  BY BoundsAssumption DEF RunnerTypeOK
<1>1. CASE Suspend
  <2>1. /\ pc = "inject" /\ pc \in InFault /\ step \in 1..Len(Program(Current))
        /\ Program(Current)[step] # "spawn"
    BY <1>1, CurrentFacts DEF Suspend, InFault
  <2>2. Current.type # "traffic_ramp"
    BY <2>1 DEF Program
  <2>3. QED
    BY <1>1, <2>2 DEF Suspend
<1>2. CASE BeginFault
  BY <1>2 DEF BeginFault
<1>3. CASE Signal
  BY <1>3 DEF Signal, Shutdown, LoopFree, Suspended
<1>4. CASE SpawnRamp \/ SleepOver \/ ExecDone \/ ExecFailed \/ ExecRaised \/ EndFault \/ WaitOver
  BY <1>4 DEF SpawnRamp, SleepOver, ExecDone, ExecFailed, ExecRaised, EndFault, WaitOver
<1>5. CASE \/ Construct \/ LogScenarioStart \/ StartBackgroundTraffic \/ LeaveLoop \/ Cleanup
           \/ LogScenarioEnd \/ ScenarioEndRaises \/ MainShutdown \/ Teardown
  BY <1>5
  DEF Construct, LogScenarioStart, StartBackgroundTraffic, LeaveLoop, Cleanup, LogScenarioEnd,
      ScenarioEndRaises, MainShutdown, Shutdown, Teardown
<1>6. CASE UNCHANGED vars \/ \E t \in Tasks : TaskStep(t)
  BY <1>6
  DEF vars, TaskStep, FlowStart, RampStart, RampLog, FlowEnd, FlowFailed, FlowAbandoned, mainVars
<1>7. QED
  BY <1>1, <1>2, <1>3, <1>4, <1>5, <1>6 DEF Next, MainStep, Ended

LEMMA QuietTasks ==
  ASSUME QuietIInv, [Next]_vars PROVE Recorded' /\ TasksInTurn' /\ NoTrafficAfterSignal'
<1> USE DEF QuietIInv, Recorded, TasksInTurn, NoTrafficAfterSignal, taskVars, deviceVars
<1>0. RunnerTypeOK /\ SignalSeen /\ signals \in Nat
  BY BoundsAssumption DEF RunnerTypeOK
<1>1. CASE StartBackgroundTraffic
  BY <1>0, <1>1 DEF StartBackgroundTraffic, SignalSeen
<1>2. CASE SpawnRamp
  <2>1. pc = "inject" /\ pc \in InFault /\ Program(Current)[step] = "spawn"
    BY <1>2 DEF SpawnRamp, InFault
  <2>2. step \in 1..Len(Program(Current)) /\ Current \in FaultRecord
    BY <1>0, <1>2, <2>1, CurrentFacts DEF SpawnRamp
  <2>3. Current.type = "traffic_ramp"
    BY <2>1, <2>2, OnlyRampsSpawn
  <2>4. signals' = 0
    BY <1>0, <1>2, <2>1, <2>3 DEF SpawnRamp, SignalSeen
  <2>5. QED
    BY <1>0, <1>2, <2>4 DEF SpawnRamp, RunnerTypeOK
<1>3. CASE Cleanup \/ MainShutdown \/ Signal
  <2>1. \A t \in Tasks : task[t] # "opened"
    BY <1>3 DEF Cleanup, MainShutdown, Signal, LoopFree, Suspended
  <2>2. task' = Cancelled(active) /\ active' = {} /\ pc' \notin {"init", "start", "traffic"}
    BY <1>3
    DEF Cleanup, MainShutdown, Signal, Shutdown, CleanupTraffic, LoopFree, Suspended
  <2>3. \A t \in Tasks : task'[t] \notin {"pending", "opened", "active"}
    BY <2>1, <2>2 DEF Cancelled
  <2>4. QED
    BY <2>2, <2>3
<1>4. CASE Teardown
  BY <1>4 DEF Teardown, Settled, LoopFree
<1>5. ASSUME NEW t \in Tasks, TaskStep(t)
      PROVE  Recorded' /\ TasksInTurn' /\ NoTrafficAfterSignal'
  <2>1. UNCHANGED <<pc, active, signals>>
    BY <1>5 DEF TaskStep, FlowStart, RampStart, RampLog, FlowEnd, FlowFailed, FlowAbandoned, mainVars
  <2>2. \A u \in Tasks : u # t => task'[u] = task[u]
    BY <1>0, <1>5
    DEF TaskStep, FlowStart, RampStart, RampLog, FlowEnd, FlowFailed, FlowAbandoned, RunnerTypeOK
  <2>3. CASE FlowStart(t) \/ RampStart(t)
    <3>1. task[t] = "pending" /\ task'[t] \in {"active", "opened"} /\ pc \in Suspended
      BY <1>0, <2>3 DEF FlowStart, RampStart, LoopFree, RunnerTypeOK
    <3>2. QED
      BY <1>0, <2>1, <2>2, <3>1
  <2>4. CASE RampLog(t)
    <3>1. task[t] = "opened" /\ task'[t] = "active"
      BY <1>0, <2>4 DEF RampLog, RunnerTypeOK
    <3>2. QED
      BY <1>0, <2>1, <2>2, <3>1
  <2>5. CASE FlowEnd(t) \/ FlowFailed(t) \/ FlowAbandoned(t)
    <3>1. task'[t] \in {"completed", "failed", "abandoned"} /\ task[t] # "none"
      BY <1>0, <2>5 DEF FlowEnd, FlowFailed, FlowAbandoned, RunnerTypeOK
    <3>2. QED
      BY <1>0, <2>1, <2>2, <3>1
  <2>6. QED
    BY <1>5, <2>3, <2>4, <2>5 DEF TaskStep
<1>6. CASE SleepOver \/ WaitOver \/ ExecDone \/ ExecFailed \/ ExecRaised
  <2>1. /\ UNCHANGED <<task, active, signals>> /\ pc' \notin {"init", "start", "traffic"}
        /\ \A t \in Tasks : task[t] # "opened"
    BY <1>6 DEF SleepOver, WaitOver, ExecDone, ExecFailed, ExecRaised, Settled, LoopFree
  <2>2. QED
    BY <2>1
<1>7. CASE \/ Construct \/ LogScenarioStart \/ BeginFault \/ LeaveLoop \/ Suspend
           \/ EndFault \/ LogScenarioEnd \/ ScenarioEndRaises
  <2>1. /\ UNCHANGED <<task, active, signals>> /\ pc \notin Suspended
        /\ pc' \in {"init", "start", "traffic"} => pc \in {"init", "start", "traffic"}
    BY <1>7
    DEF Construct, LogScenarioStart, BeginFault, LeaveLoop, Suspend, EndFault, LogScenarioEnd,
        ScenarioEndRaises, Suspended
  <2>2. QED
    BY <2>1
<1>8. CASE UNCHANGED vars
  BY <1>8 DEF vars
<1>9. QED
  BY <1>1, <1>2, <1>3, <1>4, <1>5, <1>6, <1>7, <1>8 DEF Next, MainStep, Ended

\* No traffic task runs on or begins after the first signal, in whatever fault it arrives:
\* shutdown() cancels all that are in active_traffic_tasks, no other can begin, and a ramp is
\* created in an injection without an await, where no signal is handled.
THEOREM NoTrafficAfterSignalCorrect == Spec => []NoTrafficAfterSignal
<1>1. QuietIInv /\ [Next]_vars => QuietIInv'
  BY RunnerTypeStep, QuietMain, QuietTasks DEF QuietIInv
<1>2. QuietIInv => NoTrafficAfterSignal
  BY DEF QuietIInv
<1>3. QED
  BY <1>1, <1>2, QuietInit, PTL DEF Spec

\* What the module FlowTasks sees of the tasks: a ramp that has made its scheduler
\* has not begun its flow.
Seen(a) == IF a = "opened" THEN "pending" ELSE a
Lives == [t \in Tasks |-> Seen(task[t])]

\* Every step is a step of the tasks, or none.
LifeStep ==
  \/ UNCHANGED Lives
  \/ \E t \in Tasks :
       \/ Lives[t] \in {"none", "pending"} /\ Lives' = [Lives EXCEPT ![t] = "active"]
       \/ Lives[t] = "active" /\ Lives' \in {[Lives EXCEPT ![t] = e] : e \in {"completed", "failed"}}
  \/ \E T \in SUBSET Tasks :
       \/ /\ \A t \in T : Lives[t] = "none"
          /\ Lives' = [t \in Tasks |-> IF t \in T THEN "pending" ELSE Lives[t]]
       \/ Lives' = [t \in Tasks |->
            IF t \in T /\ Lives[t] = "pending" THEN "cancelled"
            ELSE IF t \in T /\ Lives[t] = "active" THEN "cancelling" ELSE Lives[t]]
       \/ /\ \A t \in T : Lives[t] \in {"active", "cancelling"}
          /\ Lives' = [t \in Tasks |-> IF t \in T THEN "abandoned" ELSE Lives[t]]

LEMMA TasksStep == CreatedIInv /\ [Next]_vars => LifeStep
<1> SUFFICES ASSUME CreatedIInv, [Next]_vars PROVE LifeStep
  OBVIOUS
<1> USE DEF CreatedIInv, taskVars, deviceVars
<1>0. task \in [Tasks -> {"none", "pending", "opened", "active", "cancelling",
                          "cancelled", "abandoned", "completed", "failed"}]
  BY DEF RunnerTypeOK
<1>1. ASSUME task' = task PROVE LifeStep
  BY <1>1 DEF LifeStep, Lives
<1>2. CASE StartBackgroundTraffic
  <2>1. BgFlows \in SUBSET Tasks /\ \A t \in BgFlows : Lives[t] = "none"
    BY <1>2 DEF StartBackgroundTraffic, Created, Tasks, Lives, Seen
  <2>2. Lives' = [t \in Tasks |-> IF t \in BgFlows THEN "pending" ELSE Lives[t]]
    BY <1>2 DEF StartBackgroundTraffic, Lives, Seen
  <2>3. QED
    BY <2>1, <2>2 DEF LifeStep
<1>3. CASE SpawnRamp
  <2> DEFINE r == <<"ramp", idx>>
  <2>1. r \in Tasks /\ step = 1 /\ idx \in Nat
    BY <1>3, SpawnIsRamp
  <2>2. task[r] = "none"
    BY <2>1 DEF Created
  <2>3. {r} \in SUBSET Tasks /\ \A t \in {r} : Lives[t] = "none"
    BY <2>1, <2>2 DEF Lives, Seen
  <2>4. Lives' = [t \in Tasks |-> IF t \in {r} THEN "pending" ELSE Lives[t]]
    BY <1>0, <1>3 DEF SpawnRamp, Lives, Seen
  <2>5. QED
    BY <2>3, <2>4 DEF LifeStep
<1>4. ASSUME NEW ts, task' = Cancelled(ts) PROVE LifeStep
  <2> DEFINE T == {t \in Tasks : t \in ts /\ task[t] # "opened"}
  <2>1. Lives' = [t \in Tasks |->
            IF t \in T /\ Lives[t] = "pending" THEN "cancelled"
            ELSE IF t \in T /\ Lives[t] = "active" THEN "cancelling" ELSE Lives[t]]
    BY <1>4 DEF Cancelled, Lives, Seen
  <2>2. QED
    BY <2>1 DEF LifeStep
<1>5. CASE Cleanup \/ MainShutdown \/ Signal
  BY <1>4, <1>5 DEF Cleanup, MainShutdown, Signal, Shutdown, CleanupTraffic
<1>6. CASE Teardown
  <2> DEFINE T == {t \in Tasks : task[t] \in {"active", "cancelling"}}
  <2>1. Lives' = [t \in Tasks |-> IF t \in T THEN "abandoned" ELSE Lives[t]]
    BY <1>6 DEF Teardown, Lives, Seen
  <2>2. \A t \in T : Lives[t] \in {"active", "cancelling"}
    BY DEF Lives, Seen
  <2>3. QED
    BY <2>1, <2>2 DEF LifeStep
<1>7. ASSUME NEW t \in Tasks, TaskStep(t) PROVE LifeStep
  <2>1. CASE FlowStart(t) \/ RampLog(t)
    <3>1. Lives[t] = "pending" /\ Lives' = [Lives EXCEPT ![t] = "active"]
      BY <1>0, <2>1 DEF FlowStart, RampLog, Lives, Seen
    <3>2. QED
      BY <3>1 DEF LifeStep
  <2>2. CASE RampStart(t)
    <3>1. Lives' = Lives
      BY <1>0, <2>2 DEF RampStart, Lives, Seen
    <3>2. QED
      BY <3>1 DEF LifeStep
  <2>3. CASE FlowEnd(t) \/ FlowFailed(t)
    <3>1. PICK e \in {"completed", "failed"} : task' = [task EXCEPT ![t] = e]
      BY <2>3 DEF FlowEnd, FlowFailed
    <3>2. Lives[t] = "active" /\ Lives' = [Lives EXCEPT ![t] = e]
      BY <1>0, <2>3, <3>1 DEF FlowEnd, FlowFailed, Lives, Seen
    <3>3. QED
      BY <3>2 DEF LifeStep
  <2>4. CASE FlowAbandoned(t)
    <3>1. {t} \in SUBSET Tasks /\ \A u \in {t} : Lives[u] \in {"active", "cancelling"}
      BY <2>4 DEF FlowAbandoned, Lives, Seen
    <3>2. Lives' = [u \in Tasks |-> IF u \in {t} THEN "abandoned" ELSE Lives[u]]
      BY <1>0, <2>4 DEF FlowAbandoned, Lives, Seen
    <3>3. QED
      BY <3>1, <3>2 DEF LifeStep
  <2>5. QED
    BY <1>7, <2>1, <2>2, <2>3, <2>4 DEF TaskStep
<1>8. CASE Construct \/ LogScenarioStart \/ BeginFault \/ LeaveLoop \/ Suspend \/ SleepOver
           \/ EndFault \/ WaitOver \/ ExecDone \/ ExecFailed \/ ExecRaised
           \/ LogScenarioEnd \/ ScenarioEndRaises \/ UNCHANGED vars
  BY <1>1, <1>8
  DEF Construct, LogScenarioStart, BeginFault, LeaveLoop, Suspend, SleepOver, EndFault, WaitOver,
      ExecDone, ExecFailed, ExecRaised, LogScenarioEnd, ScenarioEndRaises, vars
<1>9. QED
  BY <1>2, <1>3, <1>5, <1>6, <1>7, <1>8 DEF Next, MainStep, Ended

LEMMA LifeRefines == LifeStep => [Life!Next]_Lives
BY DEF LifeStep, Lives, Seen, Life!Next, Life!Begin, Life!End, Life!Create, Life!Cancel, Life!Abandon

\* The runner's traffic tasks are those of FlowTasks, which the flows of the scheduler
\* implement as well: none completes once it was cancelled, whenever the runner cleans up.
THEOREM TaskLivesCorrect == Spec => TaskLives
<1>1. Init => Life!Init
  BY DEF Init, Life!Init
<1>2. CreatedIInv /\ [Next]_vars => [Life!Next]_Lives
  BY TasksStep, LifeRefines
<1>3. QED
  BY <1>1, <1>2, CreatedInit, CreatedStep, PTL DEF Spec, TaskLives, Life!Spec, Lives, Seen

-----------------------------------------------------------------------------
(***************************************************************************)
(* What can be read in fault_log.csv.                                      *)
(***************************************************************************)

OwnCell(n) == [by |-> Own, row |-> n, part |-> 1, of |-> 1]
log == content["fault"]
written == rows[Own]["fault"]

\* The runner's n-th row goes to cell n + 1, whatever the file has become.
LEMMA OwnWrite ==
  ASSUME GT!TypeOK, GT!LogFault(Own, 1), pos[Own]["fault"] = written + 1
  PROVE  /\ fd[Own] = "open" /\ fd' = fd
         /\ written \in Nat /\ written' = written + 1
         /\ pos'[Own]["fault"] = written' + 1
         /\ written' + 1 \in DOMAIN log' /\ log'[written' + 1] = OwnCell(written')
         /\ \A i \in DOMAIN log : i # written' + 1 => i \in DOMAIN log' /\ log'[i] = log[i]
         /\ \A i \in DOMAIN log' :
              log'[i].by = Own => i = written' + 1 \/ (i \in DOMAIN log /\ log'[i] = log[i])
<1>1. GTP!TypeOK /\ GTP!WriteRow(Own, "fault", 1)
  BY SameTypes
  DEF GT!LogFault, GTP!WriteRow, GT!WriteRow, GTP!Overlay, GT!Overlay, GTP!Larger, GT!Larger,
      GTP!RowCells, GT!RowCells, GTP!Nul, GT!Nul
<1>2. /\ pos[Own]["fault"] \in Nat /\ written \in Nat
      /\ log \in Seq(GTP!Cell) /\ log' \in Seq(GTP!Cell)
      /\ Len(log') = GTP!Larger(Len(log), pos[Own]["fault"] + 1)
      /\ \A i \in 1..Len(log') :
           log'[i] =
             IF i \in (pos[Own]["fault"] + 1)..(pos[Own]["fault"] + 1)
             THEN [by |-> Own, row |-> written + 1, part |-> i - pos[Own]["fault"], of |-> 1]
             ELSE IF i <= Len(log) THEN log[i] ELSE GTP!Nul
  <2>1. Own \in {Own, Bg} \cup Ramps /\ "fault" \in GTP!Files /\ 1 \in {1}
    BY DEF GTP!Files
  <2>2. QED
    BY <1>1, <2>1, LogAssumptions, GTP!WriteRowEffect DEF log, written
<1>3. /\ fd[Own] = "open" /\ fd' = fd /\ written' = written + 1
      /\ pos'[Own]["fault"] = pos[Own]["fault"] + 1
  BY DEF GT!LogFault, GT!WriteRow, GT!TypeOK, written, GT!Files
<1>4. /\ DOMAIN log = 1..Len(log) /\ DOMAIN log' = 1..Len(log')
      /\ Len(log) \in Nat /\ Len(log') \in Nat
  BY <1>2
<1>5. Len(log') >= written' + 1 /\ Len(log') >= Len(log)
  BY <1>2, <1>3, <1>4 DEF GTP!Larger
<1>6. \A i \in 1..Len(log') :
        log'[i] = IF i = written' + 1 THEN OwnCell(written')
                  ELSE IF i <= Len(log) THEN log[i] ELSE GTP!Nul
  BY <1>2, <1>3, <1>4 DEF OwnCell
<1>7. GTP!Nul.by # Own
  BY DEF GTP!Nul, Own
<1>8. QED
  BY <1>2, <1>3, <1>4, <1>5, <1>6, <1>7

\* How many rows the runner has written, and that its logger is open while it runs.
RowsCounted ==
  /\ pc = "init" => running /\ idx = 0 /\ fd[Own] = "none"
  /\ pc \in {"start", "traffic"} => idx = 0
  /\ written = CASE pc \in {"init", "start"} -> 0
                 [] pc \in {"shutdown", "exit", "done"} -> idx + 2
                 [] OTHER -> idx + 1
  /\ pc # "init" => fd[Own] # "none"
  /\ fd[Own] # "none" => pos[Own]["fault"] = written + 1
  /\ fd[Own] = "open" => running

\* The loop is left early only after a signal.
LoopRanOut == pc \in {"cleanup", "end"} /\ running => idx = Len(scenario)

\* Only tasks in _active_tasks are still to begin, and none before the fault loop or after
\* the cleanup.
PendingIsActive ==
  \A t \in Tasks : task[t] = "pending" =>
    /\ t \in active
    /\ pc \notin {"init", "start", "traffic", "end", "shutdown", "exit", "crashed", "done", "dead"}

\* No row is in the file that has not been written.
NoLaterRow == \A i \in DOMAIN log : log[i].by = Own => log[i].row <= written

\* As long as no ramp has truncated the file it has every row from the second on.
RowsThere ==
  (\A t \in Ramps : fd[t] = "none") /\ pc \notin {"init", "start", "traffic"} =>
    \A n \in 2..written : n + 1 \in DOMAIN log /\ log[n + 1] = OwnCell(n)

\* Once scenario_end is written no ramp is left to truncate the file.
EndRowThere == pc \in {"shutdown", "exit", "done"} => InFaultLog(Len(scenario) + 2)

LogIInv ==
  /\ TypeOK
  /\ RowsCounted /\ LoopRanOut /\ PendingIsActive /\ NoLaterRow /\ RowsThere /\ EndRowThere

LEMMA LogIInvInit == Init => LogIInv
<1> SUFFICES ASSUME Init PROVE LogIInv
  OBVIOUS
<1>1. TypeOK
  BY TypeInit
<1>2. written = 0 /\ log = <<>> /\ fd[Own] = "none"
  BY DEF Init, GT!Init, GT!Files, written, log
<1>3. QED
  BY <1>1, <1>2 DEF Init, LogIInv, RowsCounted, LoopRanOut, PendingIsActive, NoLaterRow, RowsThere,
                    EndRowThere

\* The runner writes a row.
OwnRow == Construct \/ LogScenarioStart \/ StartBackgroundTraffic \/ BeginFault \/ LogScenarioEnd

\* The steps that leave the runner's rows alone: they may close its logger.
LEMMA OtherSteps ==
  ASSUME TypeOK, [Next]_vars, ~OwnRow
  PROVE  /\ written' = written
         /\ pos'[Own]["fault"] = pos[Own]["fault"]
         /\ fd'[Own] = fd[Own] \/ (fd[Own] # "none" /\ fd'[Own] = "closed")
         /\ \A t \in Ramps : fd'[t] = fd[t] \/ (fd[t] = "none" /\ fd'[t] = "open")
         /\ log' = log \/ \E t \in Ramps : RampStart(t) /\ log' = <<GT!HeaderCell>> /\ fd'[t] = "open"
<1> USE DEF OwnRow, logVars, log, written
<1>0. /\ \A l : l \in {Own, Bg} \cup Ramps => l \in DOMAIN fd /\ l \in DOMAIN rows /\ l \in DOMAIN pos
      /\ DOMAIN content = {"flow", "fault"} /\ Own \notin Ramps
  BY DEF TypeOK, GT!TypeOK, GT!Files, Own, Ramps
<1>1. CASE UNCHANGED logVars
  BY <1>1
<1>2. CASE MainShutdown \/ Signal
  <2>1. GT!Close(Own)
    BY <1>2 DEF MainShutdown, Signal, Shutdown
  <2>2. QED
    BY <1>0, <2>1 DEF GT!Close
<1>3. ASSUME NEW t \in Tasks, RampStart(t)
      PROVE  /\ t \in Ramps /\ written' = written /\ pos'[Own]["fault"] = pos[Own]["fault"]
             /\ fd[t] = "none" /\ fd' = [fd EXCEPT ![t] = "open"] /\ log' = <<GT!HeaderCell>>
  BY <1>0, <1>3 DEF RampStart, GT!Open, GT!Files
<1>4. ASSUME NEW t \in Tasks, FlowStart(t) \/ RampLog(t) \/ FlowEnd(t)
      PROVE  fd' = fd /\ log' = log /\ written' = written /\ pos'[Own]["fault"] = pos[Own]["fault"]
  <2>1. PICK l \in {Own, Bg} \cup Ramps : GT!WriteRow(l, "flow", 1)
    BY <1>4 DEF FlowStart, RampLog, FlowEnd, GT!LogFlowStart, GT!LogFlowEnd, LoggerOf
  <2>2. /\ fd' = fd /\ content' = [content EXCEPT !["flow"] = content'["flow"]]
        /\ rows' = [rows EXCEPT ![l]["flow"] = @ + 1] /\ pos' = [pos EXCEPT ![l]["flow"] = @ + 1]
    BY <1>0, <2>1 DEF GT!WriteRow
  <2>3. QED
    BY <1>0, <2>2
<1>5. ASSUME NEW t \in Tasks, TaskStep(t), ~RampStart(t)
      PROVE  fd' = fd /\ log' = log /\ written' = written /\ pos'[Own]["fault"] = pos[Own]["fault"]
  BY <1>4, <1>5 DEF TaskStep, FlowFailed, FlowAbandoned
<1>6. ASSUME NEW t \in Tasks, TaskStep(t)
      PROVE  /\ written' = written
             /\ pos'[Own]["fault"] = pos[Own]["fault"]
             /\ fd'[Own] = fd[Own] \/ (fd[Own] # "none" /\ fd'[Own] = "closed")
             /\ \A r \in Ramps : fd'[r] = fd[r] \/ (fd[r] = "none" /\ fd'[r] = "open")
             /\ log' = log \/ \E r \in Ramps : RampStart(r) /\ log' = <<GT!HeaderCell>> /\ fd'[r] = "open"
  <2>1. CASE RampStart(t)
    BY <1>0, <1>3, <2>1
  <2>2. CASE ~RampStart(t)
    BY <1>5, <1>6, <2>2
  <2>3. QED
    BY <2>1, <2>2
<1>7. CASE \/ LeaveLoop \/ SpawnRamp \/ Suspend \/ SleepOver \/ EndFault \/ WaitOver
           \/ ExecDone \/ ExecFailed \/ ExecRaised \/ Cleanup \/ ScenarioEndRaises \/ Teardown
           \/ UNCHANGED vars
  BY <1>1, <1>7
  DEF LeaveLoop, SpawnRamp, Suspend, SleepOver, EndFault, WaitOver, ExecDone, ExecFailed,
      ExecRaised, Cleanup, ScenarioEndRaises, Teardown, vars
<1>8. QED
  BY <1>2, <1>6, <1>7 DEF Next, MainStep, Ended

\* Where those steps lead the main task.
LEMMA OtherControl ==
  ASSUME RunnerTypeOK, [Next]_vars, ~OwnRow
  PROVE  /\ UNCHANGED <<scenario, idx>>
         /\ \A p \in {"init", "start", "traffic"} : pc' = p <=> pc = p
         /\ pc' \in {"shutdown", "exit", "done"} <=> pc \in {"shutdown", "exit", "done"}
         /\ running' = running \/ (running' = FALSE /\ GT!Close(Own))
         /\ \/ pc' = pc \/ pc' \notin {"cleanup", "end", "crashed", "exit", "done", "dead"}
            \/ pc' = "cleanup" /\ pc = "top" /\ running' = running /\ (~running \/ idx = Len(scenario))
            \/ pc' = "end" /\ pc = "cleanup" /\ running' = running /\ CleanupTraffic
            \/ /\ pc' \in {"crashed", "exit", "done", "dead"}
               /\ pc \in {"end", "shutdown", "exit", "crashed"}
<1> USE DEF OwnRow, deviceVars
<1>1. CASE MainStep
  <2>1. CASE LeaveLoop \/ Cleanup
    BY <2>1 DEF LeaveLoop, Cleanup
  <2>2. CASE SpawnRamp \/ Suspend \/ SleepOver \/ EndFault \/ WaitOver \/ ExecDone \/ ExecFailed \/ ExecRaised
    BY <2>2 DEF SpawnRamp, Suspend, SleepOver, EndFault, WaitOver, ExecDone, ExecFailed, ExecRaised
  <2>3. CASE ScenarioEndRaises \/ MainShutdown \/ Teardown
    BY <2>3 DEF ScenarioEndRaises, MainShutdown, Shutdown, Teardown
  <2>4. QED
    BY <1>1, <2>1, <2>2, <2>3 DEF MainStep
<1>2. CASE Signal
  BY <1>2 DEF Signal, Shutdown
<1>3. ASSUME NEW t \in Tasks, TaskStep(t) PROVE UNCHANGED <<scenario, idx, pc, running>>
  BY <1>3 DEF TaskStep, FlowStart, RampStart, RampLog, FlowEnd, FlowFailed, FlowAbandoned, mainVars
<1>4. CASE UNCHANGED vars
  BY <1>4 DEF vars
<1>5. QED
  BY <1>1, <1>2, <1>3, <1>4 DEF Next, Ended

LEMMA CountStep ==
  ASSUME LogIInv, [Next]_vars PROVE RowsCounted' /\ LoopRanOut'
<1> USE DEF LogIInv, RowsCounted, LoopRanOut
<1>0. RunnerTypeOK /\ GT!TypeOK /\ idx \in Nat /\ Len(scenario) \in Nat
  BY ScenarioFacts DEF TypeOK
<1>1. CASE Construct
  BY <1>0, <1>1 DEF Construct, GT!Open, GT!TypeOK, GT!Files, written
<1>2. CASE LogScenarioStart
  BY <1>0, <1>2, OwnWrite DEF LogScenarioStart
<1>3. CASE StartBackgroundTraffic
  <2>1. Bg # Own
    BY DEF Bg, Own
  <2>2. written' = written /\ fd'[Own] = fd[Own] /\ pos'[Own]["fault"] = pos[Own]["fault"]
    BY <1>0, <1>3, <2>1 DEF StartBackgroundTraffic, GT!Open, GT!TypeOK, written
  <2>3. QED
    BY <1>3, <2>2 DEF StartBackgroundTraffic
<1>4. CASE BeginFault
  BY <1>0, <1>4, OwnWrite DEF BeginFault
<1>5. CASE LogScenarioEnd
  BY <1>0, <1>5, OwnWrite DEF LogScenarioEnd
<1>6. CASE ~OwnRow
  <2>1. GT!Close(Own) => fd'[Own] = "closed"
    BY <1>0 DEF GT!Close, GT!TypeOK
  <2>2. /\ written' = written /\ pos'[Own]["fault"] = pos[Own]["fault"]
        /\ fd'[Own] = fd[Own] \/ (fd[Own] # "none" /\ fd'[Own] = "closed")
    BY <1>6, OtherSteps
  <2>3. RowsCounted'
    <3>1. running' = running \/ fd'[Own] = "closed"
      BY <1>0, <1>6, <2>1, OtherControl
    <3>2. fd'[Own] = "open" => running'
      BY <2>2, <3>1
    <3>3. /\ pc' = "init" => running' /\ idx' = 0
          /\ pc' = "init" => fd'[Own] = "none"
          /\ pc' \in {"start", "traffic"} => idx' = 0
      <4>1. pc' = "init" => pc = "init" /\ ~GT!Close(Own) /\ fd'[Own] = "none"
        BY <1>0, <1>6, <2>2, OtherControl DEF GT!Close
      <4>2. QED
        BY <1>0, <1>6, <4>1, OtherControl
    <3>4. QED
      BY <1>0, <1>6, <2>2, <3>2, <3>3, OtherControl
  <2>4. LoopRanOut'
    BY <1>0, <1>6, OtherControl
  <2>5. QED
    BY <2>3, <2>4
<1>7. QED
  BY <1>1, <1>2, <1>3, <1>4, <1>5, <1>6 DEF OwnRow

LEMMA PendingStep ==
  ASSUME LogIInv, [Next]_vars PROVE PendingIsActive'
<1> DEFINE Late == {"end", "shutdown", "exit", "crashed", "done", "dead"}
<1> USE DEF LogIInv, PendingIsActive, taskVars, deviceVars
<1>0. RunnerTypeOK
  BY DEF TypeOK
<1>1. CASE StartBackgroundTraffic
  BY <1>1 DEF StartBackgroundTraffic
<1>2. CASE SpawnRamp
  BY <1>0, <1>2 DEF SpawnRamp, RunnerTypeOK
<1>3. CASE CleanupTraffic
  BY <1>3 DEF CleanupTraffic, Cancelled
<1>4. CASE Cleanup \/ MainShutdown \/ Signal
  BY <1>3, <1>4 DEF Cleanup, MainShutdown, Signal, Shutdown
<1>5. CASE Teardown
  BY <1>5 DEF Teardown
<1>6. ASSUME NEW t \in Tasks, TaskStep(t) PROVE PendingIsActive'
  BY <1>0, <1>6
  DEF TaskStep, FlowStart, RampStart, RampLog, FlowEnd, FlowFailed, FlowAbandoned, mainVars, RunnerTypeOK
<1>7. CASE \/ Construct \/ LogScenarioStart \/ BeginFault \/ LeaveLoop \/ Suspend \/ SleepOver
           \/ EndFault \/ WaitOver \/ ExecDone \/ ExecFailed \/ ExecRaised
           \/ LogScenarioEnd \/ ScenarioEndRaises \/ UNCHANGED vars
  <2>1. UNCHANGED <<task, active>> /\ (pc' \in Late => pc \in Late)
        /\ \A p \in {"init", "start", "traffic"} : pc' = p => pc \in {"init", "start", "traffic"}
    BY <1>7
    DEF Construct, LogScenarioStart, BeginFault, LeaveLoop, Suspend, SleepOver, EndFault, WaitOver,
        ExecDone, ExecFailed, ExecRaised, LogScenarioEnd, ScenarioEndRaises, vars
  <2>2. QED
    BY <2>1
<1>8. QED
  BY <1>1, <1>2, <1>4, <1>5, <1>6, <1>7 DEF Next, MainStep, Ended

LEMMA RowsStep ==
  ASSUME LogIInv, [Next]_vars PROVE NoLaterRow' /\ RowsThere' /\ EndRowThere'
<1> USE DEF LogIInv, OwnCell
<1>0. /\ RunnerTypeOK /\ GT!TypeOK /\ idx \in Nat /\ Len(scenario) \in Nat /\ written \in Nat
      /\ log \in Seq(GT!Cell)
  BY ScenarioFacts DEF TypeOK, GT!TypeOK, GT!Files, log, written
<1>1. ASSUME log' = <<GT!HeaderCell>> PROVE NoLaterRow'
  BY <1>1 DEF NoLaterRow, GT!HeaderCell, Own
<1>2. CASE Construct \/ StartBackgroundTraffic
  <2>1. log' = <<GT!HeaderCell>> /\ written' = written /\ pc' \in {"start", "top"}
    BY <1>0, <1>2 DEF Construct, StartBackgroundTraffic, GT!Open, GT!Files, log, written
  <2>2. pc' = "top" => written' = 1
    BY <1>2, <2>1 DEF Construct, StartBackgroundTraffic, RowsCounted
  <2>3. RowsThere'
    BY <2>1, <2>2 DEF RowsThere
  <2>4. QED
    BY <1>1, <2>1, <2>3 DEF EndRowThere
<1>3. CASE LogScenarioStart \/ BeginFault \/ LogScenarioEnd
  <2>1. GT!LogFault(Own, 1) /\ pos[Own]["fault"] = written + 1 /\ scenario' = scenario
    BY <1>3 DEF LogScenarioStart, BeginFault, LogScenarioEnd, RowsCounted
  <2>2. NoLaterRow'
    <3>1. SUFFICES ASSUME NEW i \in DOMAIN log', log'[i].by = Own PROVE log'[i].row <= written'
      BY DEF NoLaterRow
    <3>2. CASE i = written' + 1
      BY <1>0, <2>1, <3>2, OwnWrite
    <3>3. CASE i \in DOMAIN log /\ log'[i] = log[i]
      <4>1. log[i].row \in Nat
        <5>1. log[i] \in GT!Cell
          BY <1>0, <3>3
        <5>2. QED
          BY <5>1 DEF GT!Cell
      <4>2. log[i].row <= written /\ written' = written + 1
        BY <1>0, <2>1, <3>1, <3>3, OwnWrite DEF NoLaterRow
      <4>3. QED
        BY <1>0, <3>3, <4>1, <4>2
    <3>4. QED
      BY <1>0, <2>1, <3>1, <3>2, <3>3, OwnWrite
  <2>3. RowsThere'
    <3>1. SUFFICES ASSUME \A t \in Ramps : fd'[t] = "none", pc' \notin {"init", "start", "traffic"},
                          NEW n \in 2..written'
                   PROVE  n + 1 \in DOMAIN log' /\ log'[n + 1] = OwnCell(n)
      BY DEF RowsThere
    <3>2. \A t \in Ramps : fd[t] = "none"
      BY <1>0, <2>1, <3>1, OwnWrite
    <3>3. pc \notin {"init", "start", "traffic"}
      BY <1>3, <3>1 DEF LogScenarioStart, BeginFault, LogScenarioEnd
    <3>4. CASE n = written'
      BY <1>0, <2>1, <3>4, OwnWrite
    <3>5. CASE n # written'
      <4>1. n \in 2..written /\ n \in Nat /\ n + 1 # written' + 1
        BY <1>0, <2>1, <3>1, <3>5, OwnWrite
      <4>2. n + 1 \in DOMAIN log /\ log[n + 1] = OwnCell(n)
        BY <3>2, <3>3, <4>1 DEF RowsThere
      <4>3. QED
        BY <1>0, <2>1, <4>1, <4>2, OwnWrite
    <3>6. QED
      BY <3>4, <3>5
  <2>4. EndRowThere'
    <3>1. SUFFICES ASSUME pc' \in {"shutdown", "exit", "done"} PROVE InFaultLog(Len(scenario) + 2)'
      BY DEF EndRowThere
    <3>2. pc = "end" /\ LogScenarioEnd
      BY <1>3, <3>1 DEF LogScenarioStart, BeginFault, LogScenarioEnd
    <3>3. fd[Own] = "open" /\ written' = written + 1
      BY <1>0, <2>1, OwnWrite
    <3>4. idx = Len(scenario) /\ written = idx + 1
      BY <3>2, <3>3 DEF RowsCounted, LoopRanOut
    <3>5. written' = Len(scenario) + 2
      BY <1>0, <3>3, <3>4
    <3>6. written' + 1 \in DOMAIN log' /\ log'[written' + 1] = OwnCell(Len(scenario) + 2)
      BY <1>0, <2>1, <3>5, OwnWrite
    <3>7. QED
      BY <2>1, <3>6 DEF InFaultLog, log
  <2>5. QED
    BY <2>2, <2>3, <2>4
<1>4. CASE ~OwnRow
  <2>1. /\ written' = written
        /\ \A t \in Ramps : fd'[t] = fd[t] \/ (fd[t] = "none" /\ fd'[t] = "open")
        /\ log' = log \/ \E t \in Ramps : RampStart(t) /\ log' = <<GT!HeaderCell>> /\ fd'[t] = "open"
    BY <1>4, OtherSteps
  <2>2. /\ UNCHANGED scenario
        /\ \A p \in {"init", "start", "traffic"} : pc' = p <=> pc = p
        /\ pc' \in {"shutdown", "exit", "done"} <=> pc \in {"shutdown", "exit", "done"}
    BY <1>0, <1>4, OtherControl
  <2>3. CASE log' = log
    <3>1. (\A t \in Ramps : fd'[t] = "none") => \A t \in Ramps : fd[t] = "none"
      BY <2>1
    <3>2. RowsThere'
      BY <2>1, <2>2, <2>3, <3>1 DEF RowsThere
    <3>3. InFaultLog(Len(scenario) + 2)' <=> InFaultLog(Len(scenario) + 2)
      BY <2>2, <2>3 DEF InFaultLog, log
    <3>4. QED
      BY <2>1, <2>2, <2>3, <3>2, <3>3 DEF NoLaterRow, EndRowThere
  <2>4. ASSUME NEW t \in Ramps, RampStart(t), log' = <<GT!HeaderCell>>, fd'[t] = "open"
        PROVE  NoLaterRow' /\ RowsThere' /\ EndRowThere'
    <3>1. RowsThere'
      BY <2>4 DEF RowsThere
    <3>2. pc \notin {"shutdown", "exit", "done"}
      BY <2>4 DEF RampStart, PendingIsActive, Tasks
    <3>3. QED
      BY <1>1, <2>2, <2>4, <3>1, <3>2 DEF EndRowThere
  <2>5. QED
    BY <2>1, <2>3, <2>4
<1>5. QED
  BY <1>2, <1>3, <1>4 DEF OwnRow

LEMMA LogIInvStep == LogIInv /\ [Next]_vars => LogIInv'
BY TypeStep, CountStep, PendingStep, RowsStep DEF LogIInv

\* Every fault that was begun is in the file until a ramp's logger truncates it, for any
\* scenarios, although the background traffic's logger and the runner's share it.
THEOREM InjectedFaultsCorrect == Spec => []InjectedFaultsLogged
<1>1. LogIInv => InjectedFaultsLogged
  <2> SUFFICES ASSUME LogIInv, \A t \in Ramps : fd[t] = "none", NEW i \in 1..idx
               PROVE  InFaultLog(i + 1)
    BY DEF InjectedFaultsLogged
  <2>1. idx \in Nat
    BY ScenarioFacts DEF LogIInv, TypeOK
  <2>2. pc \notin {"init", "start", "traffic"} /\ written >= idx + 1 /\ i + 1 \in 2..written
    BY <2>1 DEF LogIInv, RowsCounted
  <2>3. i + 2 \in DOMAIN log /\ log[i + 2] = OwnCell(i + 1)
    BY <2>1, <2>2 DEF LogIInv, RowsThere
  <2>4. QED
    BY <2>3 DEF InFaultLog, OwnCell, log
<1>2. QED
  BY <1>1, LogIInvInit, LogIInvStep, PTL DEF Spec

\* A log ends with scenario_end exactly if the runner came to its end, for any scenarios
\* and signals: no ramp is left to truncate it, and a runner that crashes has not written it.
THEOREM EndRowCorrect == Spec => []EndRowIffCompleted
<1>1. LogIInv => EndRowIffCompleted
  <2> SUFFICES ASSUME LogIInv, pc \in Over PROVE InFaultLog(Len(scenario) + 2) <=> pc = "done"
    BY DEF EndRowIffCompleted
  <2>1. pc = "done" => InFaultLog(Len(scenario) + 2)
    BY DEF LogIInv, EndRowThere
  <2>2. ASSUME pc = "dead" PROVE ~InFaultLog(Len(scenario) + 2)
    <3>1. idx \in Nat /\ Len(scenario) \in Nat /\ idx <= Len(scenario) /\ written = idx + 1
      BY <2>2, ScenarioFacts DEF LogIInv, TypeOK, RunnerTypeOK, RowsCounted
    <3>2. SUFFICES ASSUME NEW k \in DOMAIN log, log[k] = OwnCell(Len(scenario) + 2) PROVE FALSE
      BY DEF InFaultLog, OwnCell, log
    <3>3. Len(scenario) + 2 <= written
      BY <3>2 DEF LogIInv, NoLaterRow, OwnCell
    <3>4. QED
      BY <3>1, <3>3
  <2>3. QED
    BY <2>1, <2>2 DEF Over
<1>2. QED
  BY <1>1, LogIInvInit, LogIInvStep, PTL DEF Spec

-----------------------------------------------------------------------------
(***************************************************************************)
(* What a run leaves disturbed.                                            *)
(***************************************************************************)

\* A complete injection of a fault of these types leaves its resource disturbed, or as the
\* lab's setup configured it.
DisturbingTypes == {"mpls_ldp_disable", "ipsec_sa_down", "ipsec_stop", "vti_down"}
RestoringTypes ==
  SelfRestoringTypes \cup {"mpls_ldp_enable", "ipsec_sa_up", "ipsec_start", "vti_up"}

Restores(f, r) ==
  \/ f.type \in RestoringTypes /\ Resource(f) = r
  \/ f.type = "ipsec_start" /\ r[1] = "sa" /\ r[2] = f.target

\* After this step of a restoring fault what it restores stays so: its last, but for the
\* ten seconds that follow "ipsec start".
RestoringStep(f) == IF f.type = "ipsec_start" THEN 1 ELSE Len(Program(f))

\* Fault j has restored r; one in progress has if that step is behind it.
Restored(j, r) ==
  /\ Restores(scenario[j], r)
  /\ ~(j = idx /\ pc \in InFault /\ step <= RestoringStep(scenario[j]))

Unrestored(r) ==
  \E i \in 1..idx :
    /\ scenario[i].type \in DisturbingTypes /\ Resource(scenario[i]) = r
    /\ \A j \in (i + 1)..idx : ~Restored(j, r)

InsideReset(r) == pc \in InFault /\ Resource(Current) = r /\ Disturbed(Current, step)

\* Why a resource may be found disturbed.
DisturbedWithCause ==
  ~failed => \A r \in Resources :
    r[1] # "qos" /\ device[r] # "normal" => InsideReset(r) \/ Unrestored(r)

EndReached == pc \in {"shutdown", "exit", "done"} => idx = Len(scenario)

RestoreIInv == LogIInv /\ SleepsAtSleep /\ DisturbedWithCause /\ EndReached

\* The commands of a restoring fault, and where the last of them is.
LEMMA RestoringCommand ==
  ASSUME NEW f \in FaultRecord, f.type \in RestoringTypes
  PROVE  /\ RestoringStep(f) \in 1..Len(Program(f))
         /\ \A v : After(Program(f)[RestoringStep(f)], v) = "normal"
         /\ f.type = "ipsec_start" => RestoringStep(f) = 1 /\ Program(f)[1] = "start"
<1>1. CASE f.type = "interface_flap"
  <2>1. /\ f.cycles \in Nat /\ f.cycles >= 1
        /\ Len(Program(f)) = 4 * f.cycles - 1
        /\ Program(f) = [k \in 1..(4 * f.cycles - 1) |->
                           IF k % 4 = 1 THEN "link_down" ELSE IF k % 4 = 3 THEN "link_up" ELSE "sleep"]
    BY <1>1, FlapProgram DEF FaultRecord
  <2>2. /\ 4 * f.cycles - 1 \in 1..(4 * f.cycles - 1)
        /\ (4 * f.cycles - 1) % 4 = 3
    BY <2>1
  <2>3. Program(f)[4 * f.cycles - 1] = "link_up"
    BY <2>1, <2>2
  <2>4. RestoringStep(f) = 4 * f.cycles - 1
    BY <1>1, <2>1 DEF RestoringStep
  <2>5. QED
    BY <1>1, <2>1, <2>2, <2>3, <2>4 DEF After
<1>2. CASE f.type = "bgp_reset"
  <2>1. Program(f) = <<"clear", "shutdown", "sleep", "no_shutdown">> /\ Len(Program(f)) = 4
    BY <1>2, ResetProgram
  <2>2. RestoringStep(f) = 4 /\ Program(f)[4] = "no_shutdown"
    BY <1>2, <2>1 DEF RestoringStep
  <2>3. QED
    BY <1>2, <2>1, <2>2 DEF After
<1>3. CASE f.type \in {"mpls_ldp_enable", "ipsec_sa_up", "vti_up"}
  <2>1. Program(f) \in {<<"ldp">>, <<"sa_up">>, <<"link_up">>}
    BY <1>3 DEF Program
  <2>2. RestoringStep(f) = 1 /\ Len(Program(f)) = 1 /\ Program(f)[1] \in {"ldp", "sa_up", "link_up"}
    BY <1>3, <2>1 DEF RestoringStep
  <2>3. QED
    BY <1>3, <2>2 DEF After
<1>4. CASE f.type = "ipsec_start"
  <2>1. Program(f) = <<"start", "sleep">>
    BY <1>4 DEF Program
  <2>2. RestoringStep(f) = 1 /\ Len(Program(f)) = 2 /\ Program(f)[1] = "start"
    BY <1>4, <2>1 DEF RestoringStep
  <2>3. QED
    BY <1>4, <2>2 DEF After
<1>5. QED
  BY <1>1, <1>2, <1>3, <1>4 DEF RestoringTypes, SelfRestoringTypes

\* Which faults have commands that change a resource other than QoS.
LEMMA ChangingTypes ==
  ASSUME NEW f \in FaultRecord, NEW k \in 1..Len(Program(f)), NEW v,
         f.type \notin RestoringTypes \cup DisturbingTypes, Plane(f.type) # "qos"
  PROVE  After(Program(f)[k], v) = v
<1>1. Program(f) \in {<<>>, <<"spawn">>, <<"rekey">>, <<"sleep">>}
  BY DEF Program, RestoringTypes, SelfRestoringTypes, DisturbingTypes, Plane
<1>2. Program(f)[k] \in {"spawn", "rekey", "sleep"}
  BY <1>1
<1>3. QED
  BY <1>2 DEF After

\* "start" is the command of ipsec_start alone.
LEMMA StartCommand ==
  ASSUME NEW f \in FaultRecord, NEW k \in 1..Len(Program(f)), Program(f)[k] = "start"
  PROVE  f.type = "ipsec_start"
<1>1. CASE f.type = "interface_flap"
  BY <1>1, FlapProgram
<1>2. CASE f.type \notin {"interface_flap", "ipsec_start"}
  <2>1. Program(f) \in
          { <<>>, <<"spawn">>, <<"clear", "shutdown", "sleep", "no_shutdown">>,
            <<"no_ldp", "sleep">>, <<"ldp">>, <<"htb", "filter">>, <<"qdisc_del">>,
            <<"sa_down", "sleep">>, <<"sa_up">>, <<"rekey">>, <<"stop">>,
            <<"link_down", "sleep">>, <<"link_up">>, <<"sleep">> }
    BY <1>2 DEF Program
  <2>2. QED
    BY <2>1
<1>3. QED
  BY <1>1, <1>2

\* A step of an injection that runs its command, or sleeps.
LEMMA CauseRun ==
  ASSUME RunnerTypeOK, DisturbedWithCause, pc \in InFault, pc' \in InFault,
         UNCHANGED <<scenario, idx>>, failed' = failed, step' = step + 1,
         step \in 1..Len(Program(Current)),
         device' = Effect(Current, Program(Current)[step])
  PROVE  DisturbedWithCause'
<1> DEFINE f == Current
           c == Program(Current)[step]
<1>1. /\ idx \in 1..Len(scenario) /\ idx \in Nat /\ f \in FaultRecord /\ f = scenario[idx]
      /\ step \in Nat /\ f' = f /\ Len(Program(f)) \in Nat
  BY CurrentFacts, ScenarioFacts DEF Current
<1>2. SUFFICES ASSUME ~failed, NEW r \in Resources, r[1] # "qos", device'[r] # "normal"
               PROVE  InsideReset(r)' \/ Unrestored(r)'
  BY DEF DisturbedWithCause, Resources
<1>3. device[r] # "normal" => InsideReset(r) \/ Unrestored(r)
  BY <1>2 DEF DisturbedWithCause
<1>4. device'[r] = IF r = Resource(f) THEN After(c, device[r])
                   ELSE IF c = "start" /\ r[1] = "sa" /\ r[2] = f.target THEN "normal"
                   ELSE device[r]
  BY DEF Effect
<1> HIDE DEF f, c
\* What was disturbed before and is not restored by this step.
<1>5. ASSUME Unrestored(r), Restores(f, r) => step + 1 <= RestoringStep(f) \/ step > RestoringStep(f)
      PROVE  Unrestored(r)'
  <2>1. PICK i \in 1..idx :
          /\ scenario[i].type \in DisturbingTypes /\ Resource(scenario[i]) = r
          /\ \A j \in (i + 1)..idx : ~Restored(j, r)
    BY <1>5 DEF Unrestored
  <2>2. ASSUME NEW j \in (i + 1)..idx PROVE ~Restored(j, r)'
    <3>1. ~Restored(j, r)
      BY <2>1
    <3>2. CASE j # idx
      BY <3>1, <3>2 DEF Restored, Restores
    <3>3. CASE j = idx
      <4>1. Restores(f, r) => RestoringStep(f) \in Nat
        BY <1>1, RestoringCommand DEF Restores, RestoringTypes
      <4>2. Restores(f, r) =>
              pc \in InFault /\ step <= RestoringStep(f) /\ step + 1 <= RestoringStep(f)
        BY <1>1, <1>5, <3>1, <3>3, <4>1 DEF Restored
      <4>3. Restores(f, r)' <=> Restores(f, r)
        BY <1>1 DEF Restores
      <4>4. QED
        BY <1>1, <3>3, <4>2, <4>3 DEF Restored
    <3>4. QED
      BY <3>2, <3>3
  <2>3. QED
    BY <2>1, <2>2 DEF Unrestored
<1>6. CASE r = Resource(f) /\ f.type \in DisturbingTypes
  <2>1. idx \in 1..idx /\ (idx + 1)..idx = {}
    BY <1>1
  <2>2. QED
    BY <1>1, <1>6, <2>1 DEF Unrestored
<1>7. CASE r = Resource(f) /\ f.type \in RestoringTypes
  <2>1. /\ RestoringStep(f) \in 1..Len(Program(f))
        /\ \A v : After(Program(f)[RestoringStep(f)], v) = "normal"
    BY <1>1, <1>7, RestoringCommand
  <2>2. step # RestoringStep(f) /\ Restores(f, r)
    BY <1>2, <1>4, <1>7, <2>1 DEF c, f, Restores
  <2>3. CASE Unrestored(r)
    BY <1>1, <1>5, <2>1, <2>2, <2>3
  <2>4. CASE f.type \in SelfRestoringTypes /\ (InsideReset(r) \/ device[r] = "normal")
    <3>1. Disturbed(f, step) \/ device[r] = "normal"
      BY <2>4 DEF InsideReset, f
    <3>2. After(Program(f)[step], device[r]) # "normal" /\ step \in 1..Len(Program(f))
      BY <1>2, <1>4, <1>7 DEF c, f
    <3>3. Disturbed(f, step + 1)
      BY <1>1, <2>4, <3>1, <3>2, StepDisturbs
    <3>4. QED
      BY <1>1, <1>7, <3>3 DEF InsideReset, f
  <2>5. CASE f.type \notin SelfRestoringTypes /\ InsideReset(r)
    BY <2>5 DEF InsideReset, Disturbed, SelfRestoringTypes, f
  <2>6. CASE f.type \notin SelfRestoringTypes /\ device[r] = "normal"
    <3>1. f.type \in {"mpls_ldp_enable", "ipsec_sa_up", "vti_up", "ipsec_start"}
      BY <1>7, <2>6 DEF RestoringTypes
    <3>2. Program(f) \in {<<"ldp">>, <<"sa_up">>, <<"link_up">>, <<"start", "sleep">>}
      BY <3>1 DEF Program
    <3>3. c \in {"ldp", "sa_up", "link_up", "start", "sleep"}
      BY <3>2 DEF c, f
    <3>4. After(c, device[r]) = "normal"
      BY <2>6, <3>3 DEF After
    <3>5. QED
      BY <1>2, <1>4, <1>7, <3>4
  <2>7. QED
    BY <1>3, <2>3, <2>4, <2>5, <2>6
<1>8. CASE r = Resource(f) /\ f.type \notin RestoringTypes \cup DisturbingTypes
  <2>1. Plane(f.type) # "qos"
    BY <1>2, <1>8 DEF Resource
  <2>2. device[r] # "normal"
    BY <1>1, <1>2, <1>4, <1>8, <2>1, ChangingTypes DEF c, f
  <2>3. ~InsideReset(r)
    BY <1>8 DEF InsideReset, Disturbed, RestoringTypes, SelfRestoringTypes, f
  <2>4. ~Restores(f, r)
    BY <1>8 DEF Restores, RestoringTypes
  <2>5. QED
    BY <1>3, <1>5, <2>2, <2>3, <2>4
<1>9. CASE r # Resource(f)
  <2>1. device[r] # "normal" /\ ~InsideReset(r)
    BY <1>2, <1>4, <1>9 DEF InsideReset, f
  <2>2. ASSUME Restores(f, r) PROVE step > RestoringStep(f)
    <3>1. f.type = "ipsec_start" /\ r[1] = "sa" /\ r[2] = f.target
      BY <1>9, <2>2 DEF Restores
    <3>2. RestoringStep(f) = 1 /\ Program(f)[1] = "start"
      BY <1>1, <3>1, RestoringCommand DEF RestoringTypes
    <3>3. step # 1
      BY <1>2, <1>4, <1>9, <3>1, <3>2 DEF c, f
    <3>4. QED
      BY <1>1, <3>2, <3>3
  <2>3. QED
    BY <1>3, <1>5, <2>1, <2>2
<1>10. QED
  BY <1>6, <1>7, <1>8, <1>9

\* What neither goes on in an injection nor begins or ends one.
LEMMA CauseKept ==
  ASSUME DisturbedWithCause, UNCHANGED <<scenario, idx, step, device, failed>>,
         pc \in InFault <=> pc' \in InFault
  PROVE  DisturbedWithCause'
<1>1. Current' = Current
  BY DEF Current
<1>2. \A r : InsideReset(r)' <=> InsideReset(r)
  BY <1>1 DEF InsideReset
<1>3. \A j, r : Restored(j, r)' <=> Restored(j, r)
  BY DEF Restored
<1>4. \A r : Unrestored(r)' <=> Unrestored(r)
  BY <1>3 DEF Unrestored
<1>5. QED
  BY <1>2, <1>4 DEF DisturbedWithCause, Resources

LEMMA RestoreInit == Init => RestoreIInv
BY LogIInvInit DEF Init, RestoreIInv, SleepsAtSleep, DisturbedWithCause, EndReached

\* The loop runs to its end before scenario_end is written.
LEMMA EndStep == RestoreIInv /\ [Next]_vars => EndReached'
<1> SUFFICES ASSUME RestoreIInv, [Next]_vars PROVE EndReached'
  OBVIOUS
<1>1. RunnerTypeOK /\ LogIInv /\ EndReached
  BY DEF RestoreIInv, LogIInv, TypeOK
<1>2. CASE LogScenarioEnd
  <2>1. pc = "end" /\ fd[Own] = "open" /\ UNCHANGED <<scenario, idx>>
    BY <1>2 DEF LogScenarioEnd, GT!LogFault, GT!WriteRow
  <2>2. idx = Len(scenario)
    BY <1>1, <2>1 DEF LogIInv, RowsCounted, LoopRanOut
  <2>3. QED
    BY <2>1, <2>2 DEF EndReached
<1>3. CASE Construct \/ LogScenarioStart \/ StartBackgroundTraffic \/ BeginFault
  BY <1>3 DEF Construct, LogScenarioStart, StartBackgroundTraffic, BeginFault, EndReached
<1>4. CASE ~OwnRow
  BY <1>1, <1>4, OtherControl DEF EndReached
<1>5. QED
  BY <1>2, <1>3, <1>4 DEF OwnRow

LEMMA CauseStep == RestoreIInv /\ [Next]_vars => DisturbedWithCause'
<1> SUFFICES ASSUME RestoreIInv, [Next]_vars PROVE DisturbedWithCause'
  OBVIOUS
<1> USE DEF deviceVars
<1>1. RunnerTypeOK /\ DisturbedWithCause /\ SleepsAtSleep
  BY DEF RestoreIInv, LogIInv, TypeOK
<1>2. pc \in InFault =>
        /\ Current \in FaultRecord /\ step \in Nat /\ Len(Program(Current)) \in Nat
        /\ step \in 1..Len(Program(Current)) + 1 /\ idx \in 1..Len(scenario)
  BY <1>1, CurrentFacts
<1>3. ASSUME NEW c, device' = device, c \in {"sleep", "spawn"} PROVE device' = Effect(Current, c)
  <2>1. device \in [Resources -> DeviceStates]
    BY <1>1 DEF RunnerTypeOK
  <2>2. \A v : After(c, v) = v
    BY <1>3 DEF After
  <2>3. Effect(Current, c) = [r \in Resources |-> device[r]]
    BY <1>3, <2>2 DEF Effect
  <2>4. QED
    BY <1>3, <2>1, <2>3
<1>4. CASE SleepOver \/ SpawnRamp \/ ExecDone
  <2>1. /\ pc \in InFault /\ pc' \in InFault /\ UNCHANGED <<scenario, idx>>
        /\ failed' = failed /\ step' = step + 1
    BY <1>4 DEF SleepOver, SpawnRamp, ExecDone, InFault
  <2>2. step \in 1..Len(Program(Current))
    BY <1>1, <1>2, <1>4, <2>1 DEF SleepOver, SpawnRamp, ExecDone, RunnerTypeOK
  <2>3. device' = Effect(Current, Program(Current)[step])
    BY <1>1, <1>3, <1>4 DEF SleepOver, SpawnRamp, ExecDone, SleepsAtSleep
  <2>4. QED
    BY <1>1, <2>1, <2>2, <2>3, CauseRun
<1>5. CASE ExecFailed \/ ExecRaised
  BY <1>5 DEF ExecFailed, ExecRaised, DisturbedWithCause
<1>6. CASE \/ Suspend \/ Signal \/ UNCHANGED vars \/ \E t \in Tasks : TaskStep(t)
  <2>1. UNCHANGED <<scenario, idx, step, device, failed>> /\ (pc \in InFault <=> pc' \in InFault)
    BY <1>6
    DEF Suspend, Signal, vars, TaskStep, FlowStart, RampStart, RampLog, FlowEnd, FlowFailed,
        FlowAbandoned, mainVars, InFault
  <2>2. QED
    BY <1>1, <2>1, CauseKept
<1>7. CASE \/ Construct \/ LogScenarioStart \/ StartBackgroundTraffic \/ LeaveLoop \/ WaitOver
           \/ Cleanup \/ LogScenarioEnd \/ ScenarioEndRaises \/ MainShutdown \/ Teardown
  <2>1. /\ UNCHANGED <<scenario, idx, step, device, failed>>
        /\ pc \notin InFault /\ pc' \notin InFault
    BY <1>7
    DEF Construct, LogScenarioStart, StartBackgroundTraffic, LeaveLoop, WaitOver, Cleanup,
        LogScenarioEnd, ScenarioEndRaises, MainShutdown, Teardown, InFault
  <2>2. QED
    BY <1>1, <2>1, CauseKept
\* A restoring fault is behind its restoring step when it ends.
<1>8. CASE EndFault
  <2>1. /\ pc \in InFault /\ pc' \notin InFault /\ step > Len(Program(Current))
        /\ UNCHANGED <<scenario, idx, device, failed>> /\ Current = scenario[idx]
    BY <1>8 DEF EndFault, InFault, Current
  <2>2. step = Len(Program(Current)) + 1
    BY <1>2, <2>1
  <2>3. ~Disturbed(Current, step)
    BY <1>2, <2>1, <2>2, NotDisturbedAfter
  <2>4. ASSUME NEW r, Restores(Current, r) PROVE ~(step <= RestoringStep(Current))
    <3>1. RestoringStep(Current) \in 1..Len(Program(Current))
      BY <1>2, <2>1, <2>4, RestoringCommand DEF Restores, RestoringTypes
    <3>2. QED
      BY <1>2, <2>1, <2>2, <3>1
  <2>5. \A j, r : ~Restored(j, r) => ~Restored(j, r)'
    BY <2>1, <2>4 DEF Restored
  <2>6. \A r : ~InsideReset(r)
    BY <2>3 DEF InsideReset
  <2>7. \A r : Unrestored(r) => Unrestored(r)'
    BY <2>1, <2>5 DEF Unrestored
  <2>8. QED
    BY <1>1, <2>1, <2>6, <2>7 DEF DisturbedWithCause, Resources
\* A fault that begins has not restored anything yet.
<1>9. CASE BeginFault
  <2>1. /\ pc \notin InFault /\ pc' \in InFault /\ idx' = idx + 1 /\ step' = 1
        /\ UNCHANGED <<scenario, device, failed>> /\ idx \in Nat /\ idx + 1 \in 1..Len(scenario)
    BY <1>1, <1>9, ScenarioFacts DEF BeginFault, InFault, RunnerTypeOK
  <2>2. scenario[idx + 1] \in FaultRecord
    BY <1>1, <2>1, ScenarioFacts
  <2>3. ASSUME NEW r, Restores(scenario[idx + 1], r) PROVE 1 <= RestoringStep(scenario[idx + 1])
    <3>1. RestoringStep(scenario[idx + 1]) \in 1..Len(Program(scenario[idx + 1]))
      BY <2>2, <2>3, RestoringCommand DEF Restores, RestoringTypes
    <3>2. QED
      BY <2>2, <3>1, ProgramLength
  <2>4. \A j, r : j = idx + 1 \/ ~Restored(j, r) => ~Restored(j, r)'
    BY <2>1, <2>3 DEF Restored
  <2>5. ASSUME NEW r, Unrestored(r) PROVE Unrestored(r)'
    <3>1. PICK i \in 1..idx :
            /\ scenario[i].type \in DisturbingTypes /\ Resource(scenario[i]) = r
            /\ \A j \in (i + 1)..idx : ~Restored(j, r)
      BY <2>5 DEF Unrestored
    <3>2. i \in 1..(idx + 1) /\ \A j \in (i + 1)..(idx + 1) : j = idx + 1 \/ j \in (i + 1)..idx
      BY <2>1
    <3>3. QED
      BY <2>1, <2>4, <3>1, <3>2 DEF Unrestored
  <2>6. QED
    BY <1>1, <2>1, <2>5 DEF DisturbedWithCause, InsideReset, Resources
<1>10. QED
  BY <1>4, <1>5, <1>6, <1>7, <1>8, <1>9 DEF Next, MainStep, Ended

LEMMA RestoreStep == RestoreIInv /\ [Next]_vars => RestoreIInv'
<1> SUFFICES ASSUME RestoreIInv, [Next]_vars PROVE RestoreIInv'
  OBVIOUS
<1>1. SleepsAtSleep'
  <2>1. RunnerTypeOK /\ SleepsAtSleep
    BY DEF RestoreIInv, LogIInv, TypeOK
  <2>2. CASE Suspend
    BY <2>2 DEF Suspend, SleepsAtSleep, Current
  <2>3. CASE Signal \/ UNCHANGED vars \/ \E t \in Tasks : TaskStep(t)
    <3>1. UNCHANGED <<scenario, pc, idx, step>>
      BY <2>3
      DEF Signal, vars, TaskStep, FlowStart, RampStart, RampLog, FlowEnd, FlowFailed,
          FlowAbandoned, mainVars
    <3>2. QED
      BY <2>1, <3>1 DEF SleepsAtSleep, Current
  <2>4. CASE MainStep /\ ~Suspend
    <3>1. pc' # "sleep"
      BY <2>4
      DEF MainStep, Construct, LogScenarioStart, StartBackgroundTraffic, BeginFault, LeaveLoop,
          SpawnRamp, SleepOver, EndFault, WaitOver, ExecDone, ExecFailed, ExecRaised,
          Cleanup, LogScenarioEnd, ScenarioEndRaises, MainShutdown, Teardown
    <3>2. QED
      BY <3>1 DEF SleepsAtSleep
  <2>5. QED
    BY <2>2, <2>3, <2>4 DEF Next, Ended
<1>2. QED
  BY <1>1, LogIInvStep, CauseStep, EndStep DEF RestoreIInv

\* Outside an injection a resource other than QoS is only found disturbed by a fault that
\* has been injected and that none begun since restores, whatever the scenario.
DisturbedByUnrestored ==
  pc \notin InFault /\ ~failed =>
    \A r \in Resources : r[1] # "qos" /\ device[r] # "normal" =>
      \E i \in 1..idx :
        /\ scenario[i].type \in DisturbingTypes /\ Resource(scenario[i]) = r
        /\ \A j \in (i + 1)..idx : ~Restores(scenario[j], r)

\* In any run of any scenario, a device that is found disturbed between two faults or at
\* the end, after a signal as well, is so by a fault of the scenario not yet undone.
THEOREM DisturbedByUnrestoredCorrect == Spec => []DisturbedByUnrestored
<1>1. RestoreIInv => DisturbedByUnrestored
  BY DEF RestoreIInv, DisturbedWithCause, InsideReset, Unrestored, Restored, DisturbedByUnrestored
<1>2. QED
  BY <1>1, RestoreInit, RestoreStep, PTL DEF Spec

\* A scenario that restores, later on, whatever it disturbs.
Paired(s) ==
  \A i \in DOMAIN s : s[i].type \in DisturbingTypes =>
    \E j \in (i + 1)..Len(s) : Restores(s[j], Resource(s[i]))

\* If every scenario restores what it disturbs a complete run leaves the devices as they
\* were, whatever their order, their interfaces and the flaps in between.
THEOREM RestoredCorrect ==
  ASSUME \A s \in Scenarios : Paired(s)
  PROVE  Spec => []RestoredAtEnd
<1>1. RestoreIInv => RestoredAtEnd
  <2>1. SUFFICES ASSUME RestoreIInv, pc = "done", ~failed,
                        NEW r \in Resources, r[1] # "qos", device[r] # "normal"
                 PROVE  FALSE
    BY DEF RestoredAtEnd
  <2>2. pc \notin InFault /\ idx = Len(scenario)
    BY <2>1 DEF RestoreIInv, EndReached, InFault
  <2>3. PICK i \in 1..idx :
          /\ scenario[i].type \in DisturbingTypes /\ Resource(scenario[i]) = r
          /\ \A j \in (i + 1)..idx : ~Restores(scenario[j], r)
    BY <2>1, <2>2
    DEF RestoreIInv, DisturbedWithCause, InsideReset, Unrestored, Restored
  <2>4. scenario \in Scenarios /\ i \in DOMAIN scenario
    <3>1. RunnerTypeOK
      BY <2>1 DEF RestoreIInv, LogIInv, TypeOK
    <3>2. QED
      BY <2>2, <3>1, ScenarioFacts DEF RunnerTypeOK
  <2>5. QED
    BY <2>2, <2>3, <2>4 DEF Paired
<1>2. QED
  BY <1>1, RestoreInit, RestoreStep, PTL DEF Spec

LEMMA ShippedPaired == \A s \in Shipped : Paired(s)
<1> USE DEF Fault, Paired, DisturbingTypes
<1>1. Paired(bgp_flap_cascade) /\ Paired(controller_policy_drift)
  BY DEF bgp_flap_cascade, controller_policy_drift
<1>2. Paired(intermittent_mpls_failure)
  <2>1. /\ DOMAIN intermittent_mpls_failure = 1..3 /\ Len(intermittent_mpls_failure) = 3
        /\ intermittent_mpls_failure[1] = Fault("mpls_ldp_disable", "dc1-p1", "eth2")
        /\ intermittent_mpls_failure[2].type = "interface_flap"
        /\ intermittent_mpls_failure[3] = Fault("mpls_ldp_enable", "dc1-p1", "eth2")
    BY DEF intermittent_mpls_failure
  <2>2. Restores(intermittent_mpls_failure[3], Resource(intermittent_mpls_failure[1]))
    BY <2>1 DEF Restores, RestoringTypes, Resource, Plane
  <2>3. QED
    BY <2>1, <2>2
<1>3. Paired(ipsec_sa_flap)
  <2>1. /\ DOMAIN ipsec_sa_flap = 1..6 /\ Len(ipsec_sa_flap) = 6
        /\ ipsec_sa_flap[1] = Fault("ipsec_sa_down", "hub-ce1", "vti102")
        /\ ipsec_sa_flap[2] = Fault("ipsec_sa_down", "hub-ce1", "vti103")
        /\ ipsec_sa_flap[3] = Fault("ipsec_sa_up", "hub-ce1", "vti102")
        /\ ipsec_sa_flap[4] = Fault("ipsec_sa_down", "hub-ce1", "vti104")
        /\ ipsec_sa_flap[5] = Fault("ipsec_sa_up", "hub-ce1", "vti103")
        /\ ipsec_sa_flap[6] = Fault("ipsec_sa_up", "hub-ce1", "vti104")
    BY DEF ipsec_sa_flap
  <2>2. /\ Restores(ipsec_sa_flap[3], Resource(ipsec_sa_flap[1]))
        /\ Restores(ipsec_sa_flap[5], Resource(ipsec_sa_flap[2]))
        /\ Restores(ipsec_sa_flap[6], Resource(ipsec_sa_flap[4]))
    BY <2>1 DEF Restores, RestoringTypes, Resource, Plane
  <2>3. 3 \in (1 + 1)..6 /\ 5 \in (2 + 1)..6 /\ 6 \in (4 + 1)..6
    OBVIOUS
  <2>4. QED
    BY <2>1, <2>2, <2>3
\* The scenarios in which a fault names no item, for any name of that.
<1>4. Paired(strongswan_restart)
  <2>1. ASSUME NEW none
        PROVE  Paired(<< Fault("ipsec_stop", "hub-ce1", none), Fault("wait", "none", none),
                         Fault("ipsec_start", "hub-ce1", none), Fault("wait", "none", none) >>)
    <3>1. Restores(Fault("ipsec_start", "hub-ce1", none),
                   Resource(Fault("ipsec_stop", "hub-ce1", none)))
      BY DEF Restores, RestoringTypes, Resource, Plane
    <3>2. QED
      BY <3>1
  <2>2. QED
    BY <2>1, Zenon DEF strongswan_restart
<1>6. Paired(progressive_congestion)
  <2>1. ASSUME NEW none
        PROVE  Paired(<< Fault("traffic_ramp", "branch1_to_hub", "bulk_transfer"),
                         Fault("traffic_ramp", "branch2_to_hub", "bulk_transfer"),
                         Fault("traffic_ramp", "branch3_to_hub", "bulk_transfer"),
                         Fault("traffic_stop", "branch1_to_hub", none) >>)
    OBVIOUS
  <2>2. QED
    BY <2>1, Zenon DEF progressive_congestion
<1>5. Paired(vti_interface_flap)
  <2>1. /\ DOMAIN vti_interface_flap = 1..4 /\ Len(vti_interface_flap) = 4
        /\ vti_interface_flap[1] = Fault("vti_down", "hub-ce1", "vti106")
        /\ vti_interface_flap[2] = Fault("vti_down", "dc2-ce1", "vti200")
        /\ vti_interface_flap[3] = Fault("vti_up", "hub-ce1", "vti106")
        /\ vti_interface_flap[4] = Fault("vti_up", "dc2-ce1", "vti200")
    BY DEF vti_interface_flap
  <2>2. /\ Restores(vti_interface_flap[3], Resource(vti_interface_flap[1]))
        /\ Restores(vti_interface_flap[4], Resource(vti_interface_flap[2]))
    BY <2>1 DEF Restores, RestoringTypes, Resource, Plane
  <2>3. 3 \in (1 + 1)..4 /\ 4 \in (2 + 1)..4
    OBVIOUS
  <2>4. QED
    BY <2>1, <2>2, <2>3
<1>7. QED
  BY <1>1, <1>2, <1>3, <1>4, <1>5, <1>6 DEF Shipped

\* In particular every scenario of scenarios.yaml that runs to its end restores the lab.
THEOREM ShippedRestored == Scenarios \subseteq Shipped => (Spec => []RestoredAtEnd)
BY ShippedPaired, RestoredCorrect

-----------------------------------------------------------------------------
(***************************************************************************)
(* QoS, and ramps.                                                         *)
(***************************************************************************)

\* The commands of the faults on QoS, and what they leave.
LEMMA QosCommands ==
  ASSUME NEW f \in FaultRecord, NEW k \in 1..Len(Program(f)), NEW v,
         Plane(f.type) = "qos", v # "normal"
  PROVE  After(Program(f)[k], v) # "normal"
<1>1. f.type \in {"qos_change", "qos_restore"}
  BY DEF Plane
<1>2. Program(f) \in {<<"htb", "filter">>, <<"qdisc_del">>}
  BY <1>1 DEF Program
<1>3. Program(f)[k] \in {"htb", "filter", "qdisc_del"}
  BY <1>2
<1>4. QED
  BY <1>3 DEF After

\* Neither qos_restore nor anything else a scenario can do brings the QoS policy of an
\* interface back once qos_change has replaced it.
QosStaysChanged ==
  [][\A r \in Resources : r[1] = "qos" /\ device[r] # "normal" => device'[r] # "normal"]_vars

\* QosStaysChanged holds of every run of every scenario: qos_clear removes the queueing
\* discipline, and nothing in the repository calls apply_qos.sh again.
THEOREM QosStaysChangedCorrect == Spec => QosStaysChanged
<1>1. RunnerTypeOK /\ [Next]_vars =>
        [\A r \in Resources : r[1] = "qos" /\ device[r] # "normal" => device'[r] # "normal"]_vars
  <2>1. SUFFICES ASSUME RunnerTypeOK, Next, NEW r \in Resources, r[1] = "qos", device[r] # "normal"
                 PROVE  device'[r] # "normal"
    OBVIOUS
  <2>2. CASE ExecDone
    <3>1. pc \in InFault /\ step <= Len(Program(Current))
      BY <2>1, <2>2 DEF ExecDone, InFault, RunnerTypeOK
    <3>2. Current \in FaultRecord /\ step \in 1..Len(Program(Current))
      BY <2>1, <3>1, CurrentFacts
    <3>3. device' = Effect(Current, Program(Current)[step])
      BY <2>2 DEF ExecDone
    <3>4. CASE r = Resource(Current)
      <4>1. Plane(Current.type) = "qos"
        BY <2>1, <3>4 DEF Resource
      <4>2. device'[r] = After(Program(Current)[step], device[r])
        BY <2>1, <3>3, <3>4 DEF Effect
      <4>3. QED
        BY <2>1, <3>2, <4>1, <4>2, QosCommands
    <3>5. CASE r # Resource(Current)
      BY <2>1, <3>3, <3>5 DEF Effect
    <3>6. QED
      BY <3>4, <3>5
  <2>3. CASE MainStep /\ ~ExecDone
    BY <2>1, <2>3
    DEF MainStep, Construct, LogScenarioStart, StartBackgroundTraffic, BeginFault, LeaveLoop,
        SpawnRamp, Suspend, SleepOver, EndFault, WaitOver, ExecFailed, ExecRaised,
        Cleanup, LogScenarioEnd, ScenarioEndRaises, MainShutdown, Teardown, deviceVars
  <2>4. CASE Signal \/ Ended
    BY <2>1, <2>4 DEF Signal, Ended, vars, deviceVars
  <2>5. ASSUME NEW t \in Tasks, TaskStep(t) PROVE device' = device
    BY <2>5
    DEF TaskStep, FlowStart, RampStart, RampLog, FlowEnd, FlowFailed, FlowAbandoned, mainVars, deviceVars
  <2>6. QED
    BY <2>1, <2>2, <2>3, <2>4, <2>5 DEF Next
<1>2. QED
  BY <1>1, RunnerTypeCorrect, PTL DEF Spec, QosStaysChanged

\* No fault from the i-th on suspends: ramps only create a task, traffic_stop does nothing,
\* and neither is followed by the propagation wait.
TrafficTypes == {"traffic_ramp", "traffic_stop"}
OnlyTrafficFrom(i) == \A j \in i..Len(scenario) : scenario[j].type \in TrafficTypes

\* Such a ramp's scheduler is never made.
RampsStarve ==
  \A i \in Nat : <<"ramp", i>> \in Tasks /\ i >= 1 /\ OnlyTrafficFrom(i) =>
    task[<<"ramp", i>>] \in {"none", "pending", "cancelled"}

WaitsAfterOthers == pc = "wait" => idx >= 1 /\ Current.type \notin TrafficTypes

SpawnIsNoAwait == pc \in {"op", "sleep"} => Program(Current)[step] # "spawn"

StarveIInv == CreatedIInv /\ LogIInv /\ WaitsAfterOthers /\ SpawnIsNoAwait /\ RampsStarve

LEMMA StarveInit == Init => StarveIInv
<1> SUFFICES ASSUME Init PROVE WaitsAfterOthers /\ SpawnIsNoAwait /\ RampsStarve
  BY LogIInvInit, CreatedInit DEF StarveIInv
<1> QED
  BY DEF Init, WaitsAfterOthers, SpawnIsNoAwait, RampsStarve

\* The main task cannot be suspended while such a ramp is pending.
LEMMA NoSuspension ==
  ASSUME StarveIInv, NEW i \in Nat, i >= 1, <<"ramp", i>> \in Tasks, OnlyTrafficFrom(i),
         task[<<"ramp", i>>] = "pending"
  PROVE  pc \notin Suspended
<1>1. RunnerTypeOK /\ Created /\ PendingIsActive /\ WaitsAfterOthers
  BY DEF StarveIInv, CreatedIInv, LogIInv
<1>2. SUFFICES ASSUME pc \in {"op", "sleep", "wait"} PROVE FALSE
  BY <1>1 DEF PendingIsActive, Suspended
<1>3. i <= idx /\ idx \in i..Len(scenario)
  <2>1. idx \in Nat /\ idx <= Len(scenario) /\ Len(scenario) \in Nat
    BY <1>1, ScenarioFacts DEF RunnerTypeOK
  <2>2. i < idx \/ i = idx
    BY <1>1 DEF Created
  <2>3. QED
    BY <2>1, <2>2
<1>4. Current.type \in TrafficTypes
  BY <1>3 DEF OnlyTrafficFrom, Current
<1>5. pc # "wait"
  BY <1>1, <1>4 DEF WaitsAfterOthers
<1>6. pc \in InFault /\ pc \in {"op", "sleep"} /\ step <= Len(Program(Current))
  BY <1>1, <1>2, <1>5 DEF InFault, RunnerTypeOK
<1>7. Program(Current) \in {<<"spawn">>, <<>>}
  BY <1>4 DEF Program, TrafficTypes
<1>8. step \in 1..Len(Program(Current))
  BY <1>1, <1>6, CurrentFacts
<1>9. Program(Current)[step] = "spawn"
  BY <1>7, <1>8
<1>10. QED
  BY <1>6, <1>9 DEF StarveIInv, SpawnIsNoAwait

LEMMA StarveStep == StarveIInv /\ [Next]_vars => StarveIInv'
<1> SUFFICES ASSUME StarveIInv, [Next]_vars
             PROVE  WaitsAfterOthers' /\ SpawnIsNoAwait' /\ RampsStarve'
  BY LogIInvStep, CreatedStep DEF StarveIInv
<1> USE DEF deviceVars, taskVars
<1>1. RunnerTypeOK /\ WaitsAfterOthers /\ SpawnIsNoAwait /\ RampsStarve
  BY DEF StarveIInv, CreatedIInv
<1>2. scenario' = scenario
  BY DEF Next, MainStep, Construct, LogScenarioStart, StartBackgroundTraffic, BeginFault, LeaveLoop,
         SpawnRamp, Suspend, SleepOver, EndFault, WaitOver, ExecDone, ExecFailed, ExecRaised,
         Cleanup, LogScenarioEnd, ScenarioEndRaises, MainShutdown, Teardown, Signal, TaskStep,
         FlowStart, RampStart, RampLog, FlowEnd, FlowFailed, FlowAbandoned, mainVars, Ended, vars
<1>3. \A i : OnlyTrafficFrom(i)' <=> OnlyTrafficFrom(i)
  BY <1>2 DEF OnlyTrafficFrom
\* What suspends, and where.
<1>4. WaitsAfterOthers' /\ SpawnIsNoAwait'
  <2>1. CASE Suspend
    BY <1>1, <2>1 DEF Suspend, WaitsAfterOthers, SpawnIsNoAwait, Current
  <2>2. CASE EndFault
    <3>1. pc \in InFault
      BY <2>2 DEF EndFault, InFault
    <3>2. idx \in 1..Len(scenario)
      BY <1>1, <3>1, CurrentFacts
    <3>3. QED
      BY <1>1, <2>2, <3>2, ScenarioFacts DEF EndFault, WaitsAfterOthers, SpawnIsNoAwait, TrafficTypes, Current
  <2>3. CASE Signal \/ UNCHANGED vars \/ \E t \in Tasks : TaskStep(t)
    <3>1. UNCHANGED <<scenario, pc, idx, step>>
      BY <2>3
      DEF Signal, vars, TaskStep, FlowStart, RampStart, RampLog, FlowEnd, FlowFailed,
          FlowAbandoned, mainVars
    <3>2. QED
      BY <1>1, <3>1 DEF WaitsAfterOthers, SpawnIsNoAwait, Current
  <2>4. CASE MainStep /\ ~Suspend /\ ~EndFault
    <3>1. pc' \notin {"wait", "op", "sleep"}
      BY <2>4
      DEF MainStep, Construct, LogScenarioStart, StartBackgroundTraffic, BeginFault, LeaveLoop,
          SpawnRamp, SleepOver, WaitOver, ExecDone, ExecFailed, ExecRaised,
          Cleanup, LogScenarioEnd, ScenarioEndRaises, MainShutdown, Teardown
    <3>2. QED
      BY <3>1 DEF WaitsAfterOthers, SpawnIsNoAwait
  <2>5. QED
    BY <2>1, <2>2, <2>3, <2>4 DEF Next, Ended
<1>5. RampsStarve'
  <2>1. SUFFICES ASSUME NEW i \in Nat, <<"ramp", i>> \in Tasks, i >= 1, OnlyTrafficFrom(i)
                 PROVE  task'[<<"ramp", i>>] \in {"none", "pending", "cancelled"}
    BY <1>3 DEF RampsStarve
  <2> DEFINE r == <<"ramp", i>>
  <2>2. task[r] \in {"none", "pending", "cancelled"}
    BY <1>1, <2>1 DEF RampsStarve
  <2>3. task[r] = "pending" => pc \notin Suspended
    BY <2>1, NoSuspension
  <2>4. r \notin BgFlows /\ task \in [Tasks -> {"none", "pending", "opened", "active", "cancelling",
                          "cancelled", "abandoned", "completed", "failed"}]
    BY <1>1 DEF BgFlows, RunnerTypeOK
  <2> HIDE DEF r
  <2>5. CASE StartBackgroundTraffic \/ SpawnRamp
    BY <2>1, <2>2, <2>4, <2>5 DEF StartBackgroundTraffic, SpawnRamp, r
  <2>6. CASE Cleanup \/ MainShutdown \/ Signal \/ Teardown
    BY <2>1, <2>2, <2>6
    DEF Cleanup, MainShutdown, Signal, Shutdown, CleanupTraffic, Cancelled, Teardown, r
  <2>7. ASSUME NEW t \in Tasks, TaskStep(t) PROVE task'[r] \in {"none", "pending", "cancelled"}
    <3>1. CASE t = r
      BY <2>1, <2>2, <2>3, <2>4, <2>7, <3>1
      DEF TaskStep, FlowStart, RampStart, RampLog, FlowEnd, FlowFailed, FlowAbandoned, LoopFree, r
    <3>2. CASE t # r
      BY <2>1, <2>2, <2>4, <2>7, <3>2
      DEF TaskStep, FlowStart, RampStart, RampLog, FlowEnd, FlowFailed, FlowAbandoned, r
    <3>3. QED
      BY <3>1, <3>2
  <2>8. CASE \/ Construct \/ LogScenarioStart \/ BeginFault \/ LeaveLoop \/ Suspend \/ SleepOver
             \/ EndFault \/ WaitOver \/ ExecDone \/ ExecFailed \/ ExecRaised
             \/ LogScenarioEnd \/ ScenarioEndRaises \/ UNCHANGED vars
    <3>1. task' = task
      BY <2>8
      DEF Construct, LogScenarioStart, BeginFault, LeaveLoop, Suspend, SleepOver, EndFault, WaitOver,
          ExecDone, ExecFailed, ExecRaised, LogScenarioEnd, ScenarioEndRaises, vars
    <3>2. QED
      BY <2>2, <3>1 DEF r
  <2>9. QED
    BY <2>5, <2>6, <2>7, <2>8 DEF Next, MainStep, Ended, r
<1>6. QED
  BY <1>4, <1>5

\* A ramp that only traffic faults follow never runs, in any scenario and whatever signals
\* arrive: the loop is not free before the cleanup cancels it (scenario_runner.py:97).
THEOREM RampsStarveCorrect == Spec => []RampsStarve
<1>1. StarveIInv => RampsStarve
  BY DEF StarveIInv
<1>2. QED
  BY <1>1, StarveInit, StarveStep, PTL DEF Spec

NoRampBegins == \A t \in Ramps : task[t] \in {"none", "pending", "cancelled"}

\* Hence progressive_congestion ramps nothing up: none of its ramps begins its flow.
THEOREM CongestionNeverRamps ==
  ASSUME Scenarios = {progressive_congestion} PROVE Spec => []NoRampBegins
<1>1. ASSUME NEW none
      PROVE  LET s == << Fault("traffic_ramp", "branch1_to_hub", "bulk_transfer"),
                         Fault("traffic_ramp", "branch2_to_hub", "bulk_transfer"),
                         Fault("traffic_ramp", "branch3_to_hub", "bulk_transfer"),
                         Fault("traffic_stop", "branch1_to_hub", none) >>
             IN \A j \in 1..Len(s) : s[j].type \in TrafficTypes
  BY DEF Fault, TrafficTypes
<1>2. \A j \in 1..Len(progressive_congestion) : progressive_congestion[j].type \in TrafficTypes
  BY <1>1, Zenon DEF progressive_congestion
<1>3. RunnerTypeOK /\ RampsStarve => NoRampBegins
  <2>1. SUFFICES ASSUME RunnerTypeOK, RampsStarve, NEW t \in Ramps
                 PROVE  task[t] \in {"none", "pending", "cancelled"}
    BY DEF NoRampBegins
  <2>2. PICK i \in 1..Len(progressive_congestion) : t = <<"ramp", i>>
    BY ScenariosAssumption DEF Ramps
  <2>3. i \in Nat /\ i >= 1 /\ OnlyTrafficFrom(i)
    <3>1. scenario = progressive_congestion /\ Len(scenario) \in Nat
      BY <2>1, ScenarioFacts DEF RunnerTypeOK
    <3>2. QED
      BY <1>2, <3>1 DEF OnlyTrafficFrom
  <2>4. QED
    BY <2>1, <2>2, <2>3 DEF RampsStarve, Tasks
<1>4. QED
  BY <1>3, RunnerTypeCorrect, RampsStarveCorrect, PTL

-----------------------------------------------------------------------------
(***************************************************************************)
(* What GroundTruth promises of the log files, in the runner's use of them.*)
(***************************************************************************)

LEMMA FreeSpecHolds == Spec => GTP!FreeSpec
<1>1. GT!Init => GTP!Init
  BY DEF GT!Init, GTP!Init, GT!Files, GTP!Files
<1>2. Init => GTP!Init
  BY <1>1 DEF Init
<1>3. [Next]_vars => [GTP!FreeNext]_(GTP!vars)
  BY LogStep, SameSteps
<1>4. QED
  BY <1>2, <1>3, PTL DEF Spec, GTP!FreeSpec

\* No logger of a run writes over the column names of fault_log.csv or flow_log.csv.
THEOREM RunnerHeaderIntact == Spec => []GT!HeaderIntact
<1>1. GTP!FreeSpec => []GTP!HeaderIntact
  BY LogAssumptions, GTP!HeaderCorrect
<1>2. GTP!HeaderIntact => GT!HeaderIntact
  BY DEF GTP!HeaderIntact, GT!HeaderIntact, GTP!Files, GT!Files, GTP!HeaderCell, GT!HeaderCell
<1>3. QED
  BY <1>1, <1>2, FreeSpecHolds, PTL

\* What is left of each logger's rows stands in the order they were written, none twice.
THEOREM RunnerRowsInOrder == Spec => []GT!OwnRowsInOrder
<1>1. GTP!FreeSpec => []GTP!OwnRowsInOrder
  BY LogAssumptions, GTP!OrderCorrect
<1>2. GTP!OwnRowsInOrder => GT!OwnRowsInOrder
  BY DEF GTP!OwnRowsInOrder, GT!OwnRowsInOrder, GTP!Files, GT!Files, GTP!Before, GT!Before
<1>3. QED
  BY <1>1, <1>2, FreeSpecHolds, PTL

\* A file that only the newest logger has written to since it was truncated is complete.
THEOREM RunnerCompleteFiles == Spec => []GT!CompleteIfOnlyNewestWrites
<1>1. GTP!FreeSpec => []GTP!CompleteIfOnlyNewestWrites
  BY LogAssumptions, GTP!CompleteCorrect
<1>2. GTP!CompleteIfOnlyNewestWrites => GT!CompleteIfOnlyNewestWrites
  BY DEF GTP!CompleteIfOnlyNewestWrites, GT!CompleteIfOnlyNewestWrites, GTP!Files, GT!Files,
         GTP!WholeLog, GT!WholeLog, GTP!Follows, GT!Follows
<1>3. QED
  BY <1>1, <1>2, FreeSpecHolds, PTL

\* Until a ramp makes its own scheduler the background traffic's logger is the newest, and
\* the only one that writes to flow_log.csv.
OnlyBgWritesFlows == Begun /\ NoRampLogs => newest = Bg /\ writers["flow"] \subseteq {Bg}

FlowIInv == TypeOK /\ OnlyBgWritesFlows

LEMMA FlowStep == FlowIInv /\ [Next]_vars => FlowIInv'
<1> SUFFICES ASSUME FlowIInv, [Next]_vars PROVE OnlyBgWritesFlows'
  BY TypeStep DEF FlowIInv
<1> USE DEF logVars, Begun, NoRampLogs, OnlyBgWritesFlows
<1>0. /\ RunnerTypeOK /\ GT!TypeOK /\ OnlyBgWritesFlows /\ Own # Bg
      /\ Own \notin Ramps /\ Bg \notin Ramps
  BY DEF FlowIInv, TypeOK, Own, Bg, Ramps
<1>1. ASSUME UNCHANGED <<fd, newest, writers>>, Begun' => Begun PROVE OnlyBgWritesFlows'
  BY <1>0, <1>1
<1>2. CASE Construct \/ LogScenarioStart
  BY <1>2 DEF Construct, LogScenarioStart
<1>3. CASE StartBackgroundTraffic
  BY <1>3 DEF StartBackgroundTraffic, GT!Open, GT!Files
<1>4. CASE BeginFault \/ LogScenarioEnd
  <2>1. GT!WriteRow(Own, "fault", 1) /\ Begun
    BY <1>4 DEF BeginFault, LogScenarioEnd, GT!LogFault
  <2>2. fd' = fd /\ newest' = newest /\ writers'["flow"] = writers["flow"]
    BY <1>0, <2>1 DEF GT!WriteRow, GT!TypeOK, GT!Files
  <2>3. QED
    BY <1>0, <2>1, <2>2
<1>5. CASE MainShutdown \/ Signal
  <2>1. GT!Close(Own) /\ Begun
    BY <1>5 DEF MainShutdown, Signal, Shutdown, LoopFree, Suspended
  <2>2. fd' = [fd EXCEPT ![Own] = "closed"] /\ newest' = newest /\ writers' = writers
    BY <2>1 DEF GT!Close
  <2>3. \A t \in Ramps : fd'[t] = fd[t]
    BY <1>0, <2>2 DEF GT!TypeOK
  <2>4. QED
    BY <1>0, <2>1, <2>2, <2>3
<1>6. ASSUME NEW t \in Tasks, TaskStep(t) PROVE OnlyBgWritesFlows'
  <2>1. pc' = pc
    BY <1>6 DEF TaskStep, FlowStart, RampStart, RampLog, FlowEnd, FlowFailed, FlowAbandoned, mainVars
  <2>2. CASE RampStart(t)
    <3>1. t \in Ramps /\ fd' = [fd EXCEPT ![t] = "open"]
      BY <2>2 DEF RampStart, GT!Open
    <3>2. fd'[t] = "open"
      BY <1>0, <3>1 DEF GT!TypeOK
    <3>3. QED
      BY <3>1, <3>2
  <2>3. CASE FlowStart(t) \/ RampLog(t) \/ FlowEnd(t)
    <3>1. PICK l \in {Bg} \cup Ramps : GT!WriteRow(l, "flow", 1)
      BY <2>3 DEF FlowStart, RampLog, FlowEnd, GT!LogFlowStart, GT!LogFlowEnd, LoggerOf
    <3>2. /\ fd[l] = "open" /\ fd' = fd /\ newest' = newest
          /\ writers'["flow"] = writers["flow"] \cup {l}
      BY <1>0, <3>1 DEF GT!WriteRow, GT!TypeOK, GT!Files
    <3>3. l \in Ramps => ~NoRampLogs'
      BY <3>2
    <3>4. QED
      BY <1>0, <2>1, <3>2, <3>3
  <2>4. CASE FlowFailed(t) \/ FlowAbandoned(t)
    BY <1>1, <2>1, <2>4 DEF FlowFailed, FlowAbandoned
  <2>5. QED
    BY <1>6, <2>2, <2>3, <2>4 DEF TaskStep
<1>7. CASE \/ LeaveLoop \/ SpawnRamp \/ Suspend \/ SleepOver \/ EndFault \/ WaitOver
           \/ ExecDone \/ ExecFailed \/ ExecRaised \/ Cleanup \/ ScenarioEndRaises \/ Teardown
           \/ UNCHANGED vars
  <2>1. UNCHANGED <<fd, newest, writers>>
    BY <1>7
    DEF LeaveLoop, SpawnRamp, Suspend, SleepOver, EndFault, WaitOver, ExecDone, ExecFailed,
        ExecRaised, Cleanup, ScenarioEndRaises, Teardown, vars
  <2>2. Begun' => Begun
    BY <1>7
    DEF LeaveLoop, SpawnRamp, Suspend, SleepOver, EndFault, WaitOver, ExecDone, ExecFailed,
        ExecRaised, Cleanup, ScenarioEndRaises, Teardown, vars
  <2>3. QED
    BY <1>1, <2>1, <2>2
<1>8. QED
  BY <1>2, <1>3, <1>4, <1>5, <1>6, <1>7 DEF Next, MainStep, Ended

\* flow_log.csv has the header and every row of the background flows, whole and in order,
\* from the start of the traffic until a ramp's logger truncates it.
THEOREM FlowLogWholeUntilRamp == Spec => []FlowRowsIntact
<1>1. Init => FlowIInv
  BY TypeInit DEF Init, FlowIInv, OnlyBgWritesFlows, Begun
<1>2. FlowIInv /\ GT!CompleteIfOnlyNewestWrites => FlowRowsIntact
  <2>1. Bg # <<"none", 0>> /\ "flow" \in GT!Files
    BY DEF Bg, GT!Files
  <2>2. QED
    BY <2>1 DEF FlowIInv, OnlyBgWritesFlows, GT!CompleteIfOnlyNewestWrites, FlowLogWhole, FlowRowsIntact
<1>3. QED
  BY <1>1, <1>2, FlowStep, RunnerCompleteFiles, PTL DEF Spec

\* A ramp's logger is opened by its own first step, and the ramp is one of the scenario's.
RampTraces ==
  /\ \A t \in Ramps : task[t] \in {"none", "pending", "cancelled"} => fd[t] = "none"
  /\ \A i \in Nat : <<"ramp", i>> \in Tasks /\ task[<<"ramp", i>>] # "none" =>
       i \in 1..Len(scenario) /\ scenario[i].type = "traffic_ramp"

TraceIInv == StarveIInv /\ RampTraces

LEMMA TraceStep == TraceIInv /\ [Next]_vars => TraceIInv'
<1> SUFFICES ASSUME TraceIInv, [Next]_vars PROVE RampTraces'
  BY StarveStep DEF TraceIInv
<1> USE DEF taskVars, deviceVars, logVars
<1>0. /\ RunnerTypeOK /\ GT!TypeOK /\ Created /\ RampTraces
      /\ Own \notin Ramps /\ Bg \notin Ramps /\ Ramps \subseteq Tasks
      /\ \A t \in Ramps : t \in DOMAIN fd
  BY DEF TraceIInv, StarveIInv, CreatedIInv, LogIInv, TypeOK, Own, Bg, Ramps, Tasks, GT!TypeOK
\* The steps that leave the ramps' loggers alone and make no task begin.
<1>1. ASSUME scenario' = scenario, \A t \in Ramps : fd'[t] = fd[t],
             \A t \in Ramps : /\ task'[t] = "none" <=> task[t] = "none"
                              /\ task'[t] \in {"none", "pending", "cancelled"} =>
                                   task[t] \in {"none", "pending", "cancelled"}
      PROVE  RampTraces'
  <2>1. \A i \in Nat : <<"ramp", i>> \in Tasks => <<"ramp", i>> \in Ramps
    BY DEF Tasks, BgFlows
  <2>2. QED
    BY <1>0, <1>1, <2>1 DEF RampTraces
<1>2. ASSUME NEW l \in {Own, Bg}, GT!Open(l) \/ GT!Close(l) PROVE \A t \in Ramps : fd'[t] = fd[t]
  BY <1>0, <1>2 DEF GT!Open, GT!Close
<1>3. ASSUME NEW l, NEW f, GT!WriteRow(l, f, 1) PROVE fd' = fd
  BY <1>3 DEF GT!WriteRow
<1>4. CASE Construct \/ LogScenarioStart \/ BeginFault \/ LogScenarioEnd
  BY <1>1, <1>2, <1>3, <1>4 DEF Construct, LogScenarioStart, BeginFault, LogScenarioEnd, GT!LogFault
<1>5. CASE StartBackgroundTraffic
  <2>1. \A t \in Ramps : t \notin BgFlows
    BY DEF Ramps, BgFlows
  <2>2. QED
    BY <1>0, <1>1, <1>2, <1>5, <2>1 DEF StartBackgroundTraffic
<1>6. CASE SpawnRamp
  <2>1. /\ <<"ramp", idx>> \in Tasks /\ step = 1 /\ idx \in Nat
        /\ UNCHANGED <<scenario, fd>>
        /\ task' = [task EXCEPT ![<<"ramp", idx>>] = "pending"]
    BY <1>0, <1>6, SpawnIsRamp DEF SpawnRamp
  <2>2. task[<<"ramp", idx>>] = "none"
    BY <1>0, <2>1 DEF Created
  <2>3. scenario[idx].type = "traffic_ramp" /\ idx \in 1..Len(scenario)
    <3>1. pc \in InFault
      BY <1>6 DEF SpawnRamp, InFault
    <3>2. QED
      BY <1>0, <1>6, <3>1, CurrentFacts, OnlyRampsSpawn DEF SpawnRamp, Current
  <2>4. \A t \in Tasks : task'[t] = IF t = <<"ramp", idx>> THEN "pending" ELSE task[t]
    BY <1>0, <2>1 DEF RunnerTypeOK
  <2>5. \A t \in Ramps : task'[t] \in {"none", "pending", "cancelled"} => fd'[t] = "none"
    BY <1>0, <2>1, <2>2, <2>4 DEF RampTraces
  <2>6. \A i \in Nat : i # idx => <<"ramp", i>> # <<"ramp", idx>>
    OBVIOUS
  <2>7. QED
    BY <1>0, <2>1, <2>3, <2>4, <2>5, <2>6 DEF RampTraces
<1>7. CASE Cleanup \/ MainShutdown \/ Signal \/ Teardown
  <2>1. \A t \in Ramps : /\ task'[t] = "none" <=> task[t] = "none"
                         /\ task'[t] \in {"none", "pending", "cancelled"} =>
                              task[t] \in {"none", "pending", "cancelled"}
    BY <1>0, <1>7
    DEF Cleanup, MainShutdown, Signal, Teardown, Shutdown, CleanupTraffic, Cancelled
  <2>2. scenario' = scenario /\ \A t \in Ramps : fd'[t] = fd[t]
    BY <1>2, <1>7 DEF Cleanup, MainShutdown, Signal, Teardown, Shutdown
  <2>3. QED
    BY <1>1, <2>1, <2>2
<1>8. ASSUME NEW t \in Tasks, TaskStep(t) PROVE RampTraces'
  <2>1. /\ scenario' = scenario /\ task[t] \in {"pending", "opened", "active", "cancelling"}
        /\ \E e \in {"opened", "active", "completed", "failed", "abandoned"} :
             task' = [task EXCEPT ![t] = e]
    BY <1>8
    DEF TaskStep, FlowStart, RampStart, RampLog, FlowEnd, FlowFailed, FlowAbandoned, mainVars
  <2>2. \A u \in Tasks : u # t => task'[u] = task[u]
    BY <1>0, <2>1 DEF RunnerTypeOK
  <2>3. task'[t] \in {"opened", "active", "completed", "failed", "abandoned"}
    BY <1>0, <2>1 DEF RunnerTypeOK
  <2>4. \A u \in Ramps : u # t => fd'[u] = fd[u]
    <3>1. CASE RampStart(t)
      BY <1>0, <3>1 DEF RampStart, GT!Open
    <3>2. CASE ~RampStart(t)
      BY <1>3, <1>8, <3>2
      DEF TaskStep, FlowStart, RampLog, FlowEnd, FlowFailed, FlowAbandoned,
          GT!LogFlowStart, GT!LogFlowEnd
    <3>3. QED
      BY <3>1, <3>2
  <2>5. \A u \in Ramps : task'[u] \in {"none", "pending", "cancelled"} => fd'[u] = "none"
    BY <1>0, <2>2, <2>3, <2>4 DEF RampTraces
  <2>6. \A u \in Tasks : task'[u] # "none" => task[u] # "none"
    BY <2>1, <2>2
  <2>7. QED
    BY <1>0, <2>1, <2>5, <2>6 DEF RampTraces
<1>9. CASE \/ LeaveLoop \/ Suspend \/ SleepOver \/ EndFault \/ WaitOver
           \/ ExecDone \/ ExecFailed \/ ExecRaised \/ ScenarioEndRaises \/ UNCHANGED vars
  <2>1. UNCHANGED <<scenario, task, fd>>
    BY <1>9
    DEF LeaveLoop, Suspend, SleepOver, EndFault, WaitOver, ExecDone, ExecFailed, ExecRaised,
        ScenarioEndRaises, vars
  <2>2. QED
    BY <1>1, <2>1
<1>10. QED
  BY <1>4, <1>5, <1>6, <1>7, <1>8, <1>9 DEF Next, MainStep, Ended

LEMMA TraceInit == Init => TraceIInv
<1> SUFFICES ASSUME Init PROVE RampTraces
  BY StarveInit DEF TraceIInv
<1> QED
  BY DEF Init, GT!Init, RampTraces, Tasks

\* Once a scenario has a ramp only traffic faults follow.
Starving(s) ==
  \A i \in DOMAIN s : s[i].type = "traffic_ramp" =>
    \A j \in i..Len(s) : s[j].type \in TrafficTypes

LEMMA NoRampLogsIfStarving ==
  ASSUME \A s \in Scenarios : Starving(s)
  PROVE  Spec => []NoRampLogs
<1>1. TraceIInv => NoRampLogs
  <2>1. SUFFICES ASSUME TraceIInv, NEW t \in Ramps PROVE fd[t] = "none"
    BY DEF NoRampLogs
  <2>2. RunnerTypeOK /\ RampsStarve /\ RampTraces /\ t \in Tasks
    BY <2>1 DEF TraceIInv, StarveIInv, CreatedIInv, Tasks
  <2>3. PICK s \in Scenarios : \E i \in DOMAIN s : t = <<"ramp", i>>
    BY DEF Ramps
  <2>4. PICK i \in DOMAIN s : t = <<"ramp", i>>
    BY <2>3
  <2>5. i \in Nat /\ i >= 1
    BY <2>3, <2>4, ScenariosAssumption
  <2>6. CASE task[t] = "none"
    BY <2>2, <2>6 DEF RampTraces
  <2>7. CASE task[t] # "none"
    <3>1. i \in 1..Len(scenario) /\ scenario[i].type = "traffic_ramp"
      BY <2>2, <2>4, <2>5, <2>7 DEF RampTraces
    <3>2. scenario \in Scenarios /\ i \in DOMAIN scenario
      BY <2>2, <3>1, ScenarioFacts DEF RunnerTypeOK
    <3>3. OnlyTrafficFrom(i)
      BY <3>1, <3>2 DEF Starving, OnlyTrafficFrom
    <3>4. task[t] \in {"none", "pending", "cancelled"}
      BY <2>2, <2>4, <2>5, <3>3 DEF RampsStarve
    <3>5. QED
      BY <2>2, <3>4 DEF RampTraces
  <2>8. QED
    BY <2>6, <2>7
<1>2. QED
  BY <1>1, TraceInit, TraceStep, PTL DEF Spec

LogsWhole == Begun => FlowLogWhole /\ \A i \in 1..idx : InFaultLog(i + 1)

\* In scenarios whose ramps starve, whatever signals arrive and whatever fails: flow_log.csv
\* has every row of the flows, whole and in order, and fault_log.csv every fault begun.
THEOREM LogsWholeIfStarving ==
  ASSUME \A s \in Scenarios : Starving(s)
  PROVE  Spec => []LogsWhole
<1>1. Spec => []NoRampLogs
  BY NoRampLogsIfStarving
<1>2. NoRampLogs /\ InjectedFaultsLogged /\ FlowRowsIntact => LogsWhole
  BY DEF NoRampLogs, InjectedFaultsLogged, FlowRowsIntact, LogsWhole
<1>3. QED
  BY <1>1, <1>2, InjectedFaultsCorrect, FlowLogWholeUntilRamp, PTL

LEMMA ShippedStarving == \A s \in Shipped : Starving(s)
<1> USE DEF Fault, Starving, TrafficTypes
<1>1. Starving(bgp_flap_cascade) /\ Starving(controller_policy_drift)
  BY DEF bgp_flap_cascade, controller_policy_drift
<1>2. Starving(intermittent_mpls_failure)
  <2>1. intermittent_mpls_failure[2].type = "interface_flap"
    BY DEF intermittent_mpls_failure
  <2>2. QED
    BY <2>1 DEF intermittent_mpls_failure
<1>3. Starving(ipsec_sa_flap) /\ Starving(vti_interface_flap)
  BY DEF ipsec_sa_flap, vti_interface_flap
<1>4. Starving(strongswan_restart)
  <2>1. ASSUME NEW none
        PROVE  Starving(<< Fault("ipsec_stop", "hub-ce1", none), Fault("wait", "none", none),
                           Fault("ipsec_start", "hub-ce1", none), Fault("wait", "none", none) >>)
    OBVIOUS
  <2>2. QED
    BY <2>1, Zenon DEF strongswan_restart
<1>5. Starving(progressive_congestion)
  <2>1. ASSUME NEW none
        PROVE  Starving(<< Fault("traffic_ramp", "branch1_to_hub", "bulk_transfer"),
                           Fault("traffic_ramp", "branch2_to_hub", "bulk_transfer"),
                           Fault("traffic_ramp", "branch3_to_hub", "bulk_transfer"),
                           Fault("traffic_stop", "branch1_to_hub", none) >>)
    OBVIOUS
  <2>2. QED
    BY <2>1, Zenon DEF progressive_congestion
<1>6. QED
  BY <1>1, <1>2, <1>3, <1>4, <1>5 DEF Shipped

\* That is so of every scenario of scenarios.yaml.
THEOREM ShippedLogsWhole == Scenarios \subseteq Shipped => (Spec => []LogsWhole)
BY ShippedStarving, LogsWholeIfStarving

-----------------------------------------------------------------------------
(***************************************************************************)
(* The main task only gets on.                                             *)
(***************************************************************************)

InLoop == {"top", "wait"} \cup InFault

\* The stretches of main() and run_scenario, in order; the fault loop is one of them.
Stretch ==
  CASE pc = "init" -> 0 [] pc = "start" -> 1 [] pc = "traffic" -> 2
    [] pc = "cleanup" -> 4 [] pc = "end" -> 5 [] pc = "shutdown" -> 6
    [] pc \in {"exit", "crashed"} -> 7 [] pc \in Over -> 8
    [] OTHER -> 3

\* What becomes of one step of an injection, and what follows the last one.
Within ==
  CASE pc \in {"op", "sleep"} -> 1 [] pc = "wait" -> 2 [] pc = "top" -> 3 [] OTHER -> 0

\* A later point of the same run: another stretch, a later fault, a later step of the same
\* fault, or a later place within it.
Further ==
  \/ Stretch' > Stretch
  \/ /\ pc \in InLoop /\ pc' \in InLoop
     /\ \/ idx' > idx
        \/ idx' = idx /\ step' > step
        \/ idx' = idx /\ step' = step /\ Within' > Within

\* A step of the main task gets it further in the run, and nothing else moves it.
GetsOn ==
  /\ MainStep => Further
  /\ ~MainStep => UNCHANGED <<scenario, pc, idx, step>>

\* How far it can get.
FarAtMost ==
  /\ Stretch \in 0..8 /\ Within \in 0..3
  /\ idx \in 0..Len(scenario)
  /\ pc \in InFault => step \in 1..(Len(Program(Current)) + 1)

LEMMA GetsOnStep == ASSUME RunnerTypeOK, [Next]_vars PROVE MainStep => Further
<1> SUFFICES ASSUME MainStep PROVE Further
  OBVIOUS
<1> USE DEF Further
<1>1. CASE Construct \/ LogScenarioStart \/ StartBackgroundTraffic
  BY <1>1 DEF Construct, LogScenarioStart, StartBackgroundTraffic, Stretch, Over
<1>2. CASE LeaveLoop \/ Cleanup \/ LogScenarioEnd \/ ScenarioEndRaises \/ MainShutdown \/ Teardown
  BY <1>2 DEF LeaveLoop, Cleanup, LogScenarioEnd, ScenarioEndRaises, MainShutdown, Teardown,
              Stretch, Over
<1>3. idx \in Nat /\ step \in Nat
  BY DEF RunnerTypeOK
<1>4. CASE BeginFault
  BY <1>3, <1>4 DEF BeginFault, InLoop, InFault
<1>5. CASE SpawnRamp \/ SleepOver \/ ExecDone \/ ExecFailed
  BY <1>3, <1>5 DEF SpawnRamp, SleepOver, ExecDone, ExecFailed, InLoop, InFault
<1>6. CASE ExecRaised
  <2>1. step <= Len(Program(Current)) /\ idx \in DOMAIN scenario /\ Len(Program(Current)) \in Nat
    BY <1>6 DEF ExecRaised, RunnerTypeOK, InFault
  <2>2. step' > step
    BY <1>3, <1>6, <2>1 DEF ExecRaised
  <2>3. QED
    BY <1>6, <2>2 DEF ExecRaised, InLoop, InFault
<1>7. CASE Suspend \/ EndFault \/ WaitOver
  BY <1>7 DEF Suspend, EndFault, WaitOver, InLoop, InFault, Within
<1>8. QED
  BY <1>1, <1>2, <1>4, <1>5, <1>6, <1>7 DEF MainStep

\* The safety half of Terminates: every step of the main task gets it further in the run,
\* by an order in which it can only take as many steps as the scenario has; no signal, no
\* traffic task and no failing command takes it back, or has it repeat a fault or a step.
THEOREM RunnerGetsOn == Spec => [][GetsOn]_vars /\ []FarAtMost
<1>1. RunnerTypeOK /\ [Next]_vars => [GetsOn]_vars
  <2>1. ASSUME RunnerTypeOK, Next, ~MainStep PROVE UNCHANGED <<scenario, pc, idx, step>>
    BY <2>1 DEF Next, Signal, TaskStep, FlowStart, RampStart, RampLog, FlowEnd, FlowFailed,
                FlowAbandoned, Ended, mainVars, vars
  <2>2. QED
    BY <2>1, GetsOnStep DEF GetsOn
<1>2. RunnerTypeOK => FarAtMost
  BY DEF RunnerTypeOK, FarAtMost, Stretch, Within
<1>3. TypeOK => RunnerTypeOK
  BY DEF TypeOK
<1>4. QED
  BY <1>1, <1>2, <1>3, TypeCorrect, PTL DEF Spec
=============================================================================
