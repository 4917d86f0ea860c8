--------------------------- MODULE ScenarioRunner ---------------------------
(***************************************************************************)
(* One run of fault_injection/scenario_runner.py: main() and run_scenario()*)
(* as one asyncio task, the background flows and ramps it creates as       *)
(* further tasks, and the signal handler's shutdown() task, all on one     *)
(* event loop; the device state the fault primitives change through docker *)
(* exec; and the ground-truth files of module GroundTruth.                 *)
(*                                                                         *)
(* asyncio switches tasks only where a coroutine really suspends.  pc says *)
(* where the main task is; in the states of Suspended it waits and another *)
(* task may run, in every other state it holds the loop and nobody else    *)
(* moves.  Awaiting a coroutine that does not suspend is not a switch.     *)
(***************************************************************************)
EXTENDS Integers, Sequences, FiniteSets

CONSTANTS
  Scenarios,   \* the scenarios the runner may be started with
  NumBg,       \* number of background flows (nine in the code)
  MaxSignals   \* bound on the signals the process receives

FaultRecord == [type : STRING, target : STRING, item : STRING, cycles : Nat \ {0}]
ASSUME ScenariosAssumption == Scenarios \subseteq Seq(FaultRecord)
ASSUME BoundsAssumption == NumBg \in Nat /\ MaxSignals \in Nat

VARIABLES
  scenario,  \* the scenario being run
  pc,        \* where the main task is
  idx,       \* the number of faults the loop of run_scenario has begun
  step,      \* the next step of the fault's injection
  running,   \* self.running
  signals,   \* how many signals have been handled
  failed,    \* history: some docker exec failed or raised
  device,    \* device[r]: the running state of the device resource r
  saved,     \* saved[r]: the state of r in the router's startup configuration
  task,      \* task[t]: where the traffic task t is
  active,    \* self.active_traffic_tasks
  content, fd, pos, rows, newest, writers   \* the ground-truth files

logVars == <<content, fd, pos, rows, newest, writers>>
deviceVars == <<device, saved, failed>>
taskVars == <<task, active>>
vars == <<scenario, pc, idx, step, running, signals, deviceVars, taskVars, logVars>>

-----------------------------------------------------------------------------
(***************************************************************************)
(* Traffic tasks and their loggers.                                        *)
(***************************************************************************)

BgFlows == {<<"bg", k>> : k \in 1..NumBg}
Ramps == UNION { {<<"ramp", i>> : i \in {j \in DOMAIN s : s[j].type = "traffic_ramp"}}
                 : s \in Scenarios }
Tasks == BgFlows \cup Ramps

Own == <<"own", 0>>      \* ScenarioRunner.gt_logger
Bg == <<"bg", 0>>        \* gt_logger of the background traffic's scheduler

\* Mutant of LoggerOf: the background flows write through the runner's own logger.
LoggerOfRunner(t) == IF t \in Ramps THEN t ELSE Own

LoggerOf(t) == IF t \in Ramps THEN t ELSE Bg

GT == INSTANCE GroundTruth WITH
        Loggers <- {Own, Bg} \cup Ramps, NoLogger <- <<"none", 0>>,
        RowWidths <- {1}, MaxRows <- 0

-----------------------------------------------------------------------------
(***************************************************************************)
(* What a fault does to the devices.                                       *)
(***************************************************************************)

AllFaults == UNION { {s[i] : i \in DOMAIN s} : s \in Scenarios }

\* The part of a device a fault type acts on.
Plane(type) ==
  CASE type = "bgp_reset" -> "bgp"
    [] type \in {"mpls_ldp_disable", "mpls_ldp_enable"} -> "ldp"
    [] type \in {"interface_flap", "vti_down", "vti_up"} -> "link"
    [] type \in {"qos_change", "qos_restore"} -> "qos"
    [] type \in {"ipsec_sa_down", "ipsec_sa_up", "ipsec_rekey"} -> "sa"
    [] type \in {"ipsec_stop", "ipsec_start"} -> "daemon"
    [] OTHER -> "none"

Resource(f) == <<Plane(f.type), f.target, f.item>>
Resources == {Resource(f) : f \in AllFaults}

\* _inject_fault: the steps of a fault, in order.  "spawn" creates a ramp task
\* and does not suspend; "sleep" is asyncio.sleep; anything else is a docker
\* exec of the primitive in faults.py that runs the command so named.
Program(f) ==
  CASE f.type = "traffic_ramp" -> <<"spawn">>
    [] f.type = "bgp_reset" -> <<"clear", "shutdown", "sleep", "no_shutdown">>
    [] f.type = "mpls_ldp_disable" -> <<"no_ldp", "sleep">>
    [] f.type = "mpls_ldp_enable" -> <<"ldp">>
    [] f.type = "interface_flap" ->
         [k \in 1..(4 * f.cycles - 1) |->
            IF k % 4 = 1 THEN "link_down" ELSE IF k % 4 = 3 THEN "link_up" ELSE "sleep"]
    [] f.type = "qos_change" -> <<"htb", "filter">>
    [] f.type = "qos_restore" -> <<"qdisc_del">>
    [] f.type = "ipsec_sa_down" -> <<"sa_down", "sleep">>
    [] f.type = "ipsec_sa_up" -> <<"sa_up">>
    [] f.type = "ipsec_rekey" -> <<"rekey">>
    [] f.type = "ipsec_stop" -> <<"stop">>
    [] f.type = "ipsec_start" -> <<"start", "sleep">>
    [] f.type = "vti_down" -> <<"link_down", "sleep">>
    [] f.type = "vti_up" -> <<"link_up">>
    [] f.type = "wait" -> <<"sleep">>
    [] OTHER -> <<>>

DeviceStates ==
  {"normal", "shut", "no_ldp", "down", "bare_htb", "remarked", "no_qos", "sa_down", "stopped"}

\* The state a command leaves its resource in; "normal" is what the lab's setup
\* scripts configure.  qos_clear removes the root qdisc, it does not bring the
\* HTB policy back; clearing a BGP session and rekeying leave nothing behind.
After(cmd, v) ==
  CASE cmd = "shutdown" -> "shut"
    [] cmd = "no_ldp" -> "no_ldp"
    [] cmd = "link_down" -> "down"
    [] cmd = "htb" -> "bare_htb"
    [] cmd = "filter" -> "remarked"
    [] cmd = "qdisc_del" -> "no_qos"
    [] cmd = "sa_down" -> "sa_down"
    [] cmd = "stop" -> "stopped"
    [] cmd \in {"no_shutdown", "ldp", "link_up", "sa_up", "start"} -> "normal"
    [] OTHER -> v

\* "ipsec start" also brings every configured SA of the container up.
Effect(f, cmd) ==
  [r \in Resources |->
     IF r = Resource(f) THEN After(cmd, device[r])
     ELSE IF cmd = "start" /\ r[1] = "sa" /\ r[2] = f.target THEN "normal"
     ELSE device[r]]

\* Mutant of Saved: only the neighbour is saved, not the whole configuration.
SavedOneNeighbour(f, cmd) ==
  [r \in Resources |->
     IF cmd = "shutdown" /\ r = Resource(f) THEN "shut" ELSE saved[r]]

\* Only bgp_neighbor_shutdown runs "write memory", which copies the running
\* state of everything FRR manages on that router into its frr.conf.
Saved(f, cmd) ==
  [r \in Resources |->
     IF cmd = "shutdown" /\ r[1] \in {"bgp", "ldp"} /\ r[2] = f.target
     THEN Effect(f, cmd)[r] ELSE saved[r]]

-----------------------------------------------------------------------------
Suspended == {"op", "sleep", "wait", "exit", "crashed"}
InFault == {"inject", "op", "sleep"}
Over == {"done", "dead"}

\* A ramp task between its scheduler's construction and its first row has not
\* suspended.
LoopFree == pc \in Suspended /\ \A t \in Tasks : task[t] # "opened"

\* A task that has been created is in the loop's ready queue, ahead of whatever
\* becomes ready later.
Settled == LoopFree /\ \A t \in Tasks : task[t] # "pending"

Current == scenario[idx]

RunnerTypeOK ==
  /\ scenario \in Scenarios
  /\ pc \in {"init", "start", "traffic", "top", "cleanup", "end", "shutdown"}
            \cup InFault \cup Suspended \cup Over
  /\ idx \in 0..Len(scenario)
  /\ step \in Nat
  /\ pc \in InFault => idx >= 1 /\ step \in 1..(Len(Program(Current)) + 1)
  /\ pc \in {"op", "sleep"} => step <= Len(Program(Current))
  /\ running \in BOOLEAN
  /\ signals \in 0..MaxSignals
  /\ failed \in BOOLEAN
  /\ device \in [Resources -> DeviceStates] /\ saved \in [Resources -> DeviceStates]
  /\ task \in [Tasks -> {"none", "pending", "opened", "active", "cancelling",
                         "cancelled", "abandoned", "completed", "failed"}]
  /\ active \subseteq Tasks

TypeOK == RunnerTypeOK /\ GT!TypeOK

Init ==
  /\ scenario \in Scenarios
  /\ pc = "init" /\ idx = 0 /\ step = 0
  /\ running = TRUE /\ signals = 0 /\ failed = FALSE
  /\ device = [r \in Resources |-> "normal"]
  /\ saved = [r \in Resources |-> "normal"]
  /\ task = [t \in Tasks |-> "none"]
  /\ active = {}
  /\ GT!Init

-----------------------------------------------------------------------------
(***************************************************************************)
(* The main task.                                                          *)
(***************************************************************************)

\* ScenarioRunner()
Construct ==
  /\ pc = "init" /\ pc' = "start"
  /\ GT!Open(Own)
  /\ UNCHANGED <<scenario, idx, step, running, signals, deviceVars, taskVars>>

\* run_scenario up to the scenario_start row
LogScenarioStart ==
  /\ pc = "start" /\ pc' = "traffic"
  /\ GT!LogFault(Own, 1)
  /\ UNCHANGED <<scenario, idx, step, running, signals, deviceVars, taskVars>>

\* _start_background_traffic: a scheduler with a logger of its own, and the
\* flow tasks, which run when the loop is next free.
StartBackgroundTraffic ==
  /\ pc = "traffic" /\ pc' = "top"
  /\ GT!Open(Bg)
  /\ task' = [t \in Tasks |-> IF t \in BgFlows THEN "pending" ELSE task[t]]
  /\ active' = BgFlows
  /\ UNCHANGED <<scenario, idx, step, running, signals, deviceVars>>

\* The head of the fault loop: the fault's row is written before it is injected.
BeginFault ==
  /\ pc = "top" /\ pc' = "inject"
  /\ running /\ idx < Len(scenario)
  /\ idx' = idx + 1 /\ step' = 1
  /\ GT!LogFault(Own, 1)
  /\ UNCHANGED <<scenario, running, signals, deviceVars, taskVars>>

\* Mutant of LeaveLoop: the loop may stop one fault early.
LeaveLoopEarly ==
  /\ pc = "top" /\ pc' = "cleanup"
  /\ ~running \/ idx >= Len(scenario) - 1
  /\ UNCHANGED <<scenario, idx, step, running, signals, deviceVars, taskVars, logVars>>

LeaveLoop ==
  /\ pc = "top" /\ pc' = "cleanup"
  /\ ~running \/ idx = Len(scenario)
  /\ UNCHANGED <<scenario, idx, step, running, signals, deviceVars, taskVars, logVars>>

\* Mutant of SpawnRamp: the task is not put into active_traffic_tasks.
SpawnRampUnrecorded ==
  /\ pc = "inject" /\ step <= Len(Program(Current)) /\ Program(Current)[step] = "spawn"
  /\ task' = [task EXCEPT ![<<"ramp", idx>>] = "pending"]
  /\ step' = step + 1
  /\ UNCHANGED <<scenario, pc, idx, running, signals, deviceVars, active, logVars>>

SpawnRamp ==
  /\ pc = "inject" /\ step <= Len(Program(Current)) /\ Program(Current)[step] = "spawn"
  /\ task' = [task EXCEPT ![<<"ramp", idx>>] = "pending"]
  /\ active' = active \cup {<<"ramp", idx>>}
  /\ step' = step + 1
  /\ UNCHANGED <<scenario, pc, idx, running, signals, deviceVars, logVars>>

\* The injection suspends in asyncio.sleep or in a docker exec.
Suspend ==
  /\ pc = "inject" /\ step <= Len(Program(Current)) /\ Program(Current)[step] # "spawn"
  /\ pc' = IF Program(Current)[step] = "sleep" THEN "sleep" ELSE "op"
  /\ UNCHANGED <<scenario, idx, step, running, signals, deviceVars, taskVars, logVars>>

\* Mutant of SleepOver: a sleep cut short by a signal ends the injection.
SleepCutShort ==
  /\ pc = "sleep" /\ Settled /\ pc' = "inject"
  /\ step' = IF running THEN step + 1 ELSE Len(Program(Current)) + 1
  /\ UNCHANGED <<scenario, idx, running, signals, deviceVars, taskVars, logVars>>

SleepOver ==
  /\ pc = "sleep" /\ Settled /\ pc' = "inject" /\ step' = step + 1
  /\ UNCHANGED <<scenario, idx, running, signals, deviceVars, taskVars, logVars>>

\* _exec: the command ran on the device.
ExecDone ==
  /\ pc = "op" /\ Settled /\ pc' = "inject" /\ step' = step + 1
  /\ device' = Effect(Current, Program(Current)[step])
  /\ saved' = Saved(Current, Program(Current)[step])
  /\ UNCHANGED <<scenario, idx, running, signals, failed, taskVars, logVars>>

\* _exec: a non-zero return code is logged and otherwise ignored.
ExecFailed ==
  /\ pc = "op" /\ Settled /\ pc' = "inject" /\ step' = step + 1
  /\ failed' = TRUE
  /\ UNCHANGED <<scenario, idx, running, signals, device, saved, taskVars, logVars>>

\* docker cannot be started: the exception ends _inject_fault, whose except
\* clause drops the steps that are left.
ExecRaised ==
  /\ pc = "op" /\ Settled /\ pc' = "inject"
  /\ step' = Len(Program(Current)) + 1
  /\ failed' = TRUE
  /\ UNCHANGED <<scenario, idx, running, signals, device, saved, taskVars, logVars>>

\* After _inject_fault: the propagation wait, which the traffic faults and any fault
\* of duration zero skip and which ends at once when running is already false.
EndFault ==
  /\ pc = "inject" /\ step > Len(Program(Current))
  /\ \/ pc' = "wait" /\ Current.type \notin {"traffic_ramp", "traffic_stop"} /\ running
     \/ pc' = "top"
  /\ UNCHANGED <<scenario, idx, step, running, signals, deviceVars, taskVars, logVars>>

\* Mutant of WaitOver: the wait goes on while running is false.
WaitForRunning ==
  /\ pc = "wait" /\ Settled /\ pc' = IF running THEN "top" ELSE "wait"
  /\ UNCHANGED <<scenario, idx, step, running, signals, deviceVars, taskVars, logVars>>

WaitOver ==
  /\ pc = "wait" /\ Settled /\ pc' = "top"
  /\ UNCHANGED <<scenario, idx, step, running, signals, deviceVars, taskVars, logVars>>

\* task.cancel() of the tasks in ts: one that has not started never will, one
\* that awaits something gets CancelledError when the loop next runs it.
Cancelled(ts) ==
  [t \in Tasks |->
     IF t \in ts /\ task[t] = "pending" THEN "cancelled"
     ELSE IF t \in ts /\ task[t] = "active" THEN "cancelling"
     ELSE task[t]]

CleanupTraffic ==
  /\ task' = Cancelled(active)
  /\ active' = {}

Cleanup ==
  /\ pc = "cleanup" /\ pc' = "end"
  /\ CleanupTraffic
  /\ UNCHANGED <<scenario, idx, step, running, signals, deviceVars, logVars>>

LogScenarioEnd ==
  /\ pc = "end" /\ pc' = "shutdown"
  /\ GT!LogFault(Own, 1)
  /\ UNCHANGED <<scenario, idx, step, running, signals, deviceVars, taskVars>>

\* Mutant of ScenarioEndRaises: the closed log is reopened at its end.
ScenarioEndReopens ==
  /\ pc = "end" /\ pc' = "crashed"
  /\ fd[Own] = "closed"
  /\ content' = [content EXCEPT !["fault"] = @ \o GT!RowCells(Own, rows[Own]["fault"] + 1, 1)]
  /\ UNCHANGED <<scenario, idx, step, running, signals, deviceVars, taskVars,
                 fd, pos, rows, newest, writers>>

\* shutdown() has closed the logger: log_fault raises ValueError, which leaves
\* run_scenario and main().
ScenarioEndRaises ==
  /\ pc = "end" /\ pc' = "crashed"
  /\ fd[Own] = "closed"
  /\ UNCHANGED <<scenario, idx, step, running, signals, deviceVars, taskVars, logVars>>

\* shutdown(): it awaits nothing that suspends, so it runs as one step.
Shutdown ==
  /\ running' = FALSE
  /\ CleanupTraffic
  /\ GT!Close(Own)

MainShutdown ==
  /\ pc = "shutdown" /\ pc' = "exit"
  /\ Shutdown
  /\ UNCHANGED <<scenario, idx, step, signals, deviceVars>>

\* main() has returned or raised: asyncio.run cancels the tasks that are left.
Teardown ==
  /\ pc \in {"exit", "crashed"} /\ Settled
  /\ pc' = IF pc = "exit" THEN "done" ELSE "dead"
  /\ task' = [t \in Tasks |->
                IF task[t] \in {"active", "cancelling"} THEN "abandoned" ELSE task[t]]
  /\ UNCHANGED <<scenario, idx, step, running, signals, deviceVars, active, logVars>>

MainStep ==
  \/ Construct \/ LogScenarioStart \/ StartBackgroundTraffic
  \/ BeginFault \/ LeaveLoop
  \/ SpawnRamp \/ Suspend \/ SleepOver \/ EndFault \/ WaitOver
  \/ ExecDone \/ ExecFailed \/ ExecRaised
  \/ Cleanup \/ LogScenarioEnd \/ ScenarioEndRaises \/ MainShutdown \/ Teardown

\* SIGINT or SIGTERM: the handler creates a task that runs shutdown(), behind the
\* background flows but perhaps ahead of a ramp that main has created since.
Signal ==
  /\ LoopFree /\ signals < MaxSignals
  /\ \A t \in BgFlows : task[t] # "pending"
  /\ signals' = signals + 1
  /\ Shutdown
  /\ UNCHANGED <<scenario, pc, idx, step, deviceVars>>

-----------------------------------------------------------------------------
(***************************************************************************)
(* The traffic tasks: TrafficScheduler.run_flow, whose generators are the  *)
(* subject of module TrafficScheduler, up to its rows and its end.         *)
(***************************************************************************)

mainVars == <<scenario, pc, idx, step, running, signals, deviceVars, active>>

\* Mutant of FlowStart: the row goes to the fault log.
FlowStartInFaultLog(t) ==
  /\ t \in BgFlows /\ task[t] = "pending" /\ LoopFree
  /\ task' = [task EXCEPT ![t] = "active"]
  /\ GT!LogFault(Bg, 1)
  /\ UNCHANGED mainVars

FlowStart(t) ==
  /\ t \in BgFlows /\ task[t] = "pending" /\ LoopFree
  /\ task' = [task EXCEPT ![t] = "active"]
  /\ GT!LogFlowStart(Bg, 1)
  /\ UNCHANGED mainVars

\* _run_ramp: the ramp constructs a TrafficScheduler, hence a logger, of its own.
RampStart(t) ==
  /\ t \in Ramps /\ task[t] = "pending" /\ LoopFree
  /\ task' = [task EXCEPT ![t] = "opened"]
  /\ GT!Open(t)
  /\ UNCHANGED mainVars

RampLog(t) ==
  /\ t \in Ramps /\ task[t] = "opened"
  /\ task' = [task EXCEPT ![t] = "active"]
  /\ GT!LogFlowStart(t, 1)
  /\ UNCHANGED mainVars

FlowEnd(t) ==
  /\ task[t] = "active" /\ Settled
  /\ task' = [task EXCEPT ![t] = "completed"]
  /\ GT!LogFlowEnd(LoggerOf(t), 1)
  /\ UNCHANGED mainVars

\* The generator cannot be started or fails: no row.
FlowFailed(t) ==
  /\ task[t] = "active" /\ Settled
  /\ task' = [task EXCEPT ![t] = "failed"]
  /\ UNCHANGED <<mainVars, logVars>>

\* Mutant of FlowAbandoned: CancelledError is caught and the row written.
FlowAbandonedLogs(t) ==
  /\ task[t] = "cancelling" /\ Settled
  /\ task' = [task EXCEPT ![t] = "completed"]
  /\ GT!LogFlowEnd(LoggerOf(t), 1)
  /\ UNCHANGED mainVars

\* CancelledError passes the "except Exception": no row, no gen.stop().
FlowAbandoned(t) ==
  /\ task[t] = "cancelling" /\ Settled
  /\ task' = [task EXCEPT ![t] = "abandoned"]
  /\ UNCHANGED <<mainVars, logVars>>

TaskStep(t) ==
  FlowStart(t) \/ RampStart(t) \/ RampLog(t) \/ FlowEnd(t) \/ FlowFailed(t) \/ FlowAbandoned(t)

\* The process has ended.
Ended == pc \in Over /\ UNCHANGED vars

Next == MainStep \/ Signal \/ (\E t \in Tasks : TaskStep(t)) \/ Ended

Spec == Init /\ [][Next]_vars

\* docker exec calls and sleeps end, and the event loop runs what is ready: the
\* main task always goes on, and a task that holds the loop reaches its next
\* suspension.  Nothing is assumed of signals or of how long flows last.
Fairness ==
  /\ WF_vars(MainStep)
  /\ \A t \in Tasks : WF_vars(FlowStart(t) \/ RampStart(t) \/ RampLog(t))
FairSpec == Spec /\ Fairness

-----------------------------------------------------------------------------
(***************************************************************************)
(* Properties.                                                             *)
(***************************************************************************)

\* The runner's n-th row can be read in fault_log.csv.
InFaultLog(n) ==
  \E k \in DOMAIN content["fault"] :
    content["fault"][k] = [by |-> Own, row |-> n, part |-> 1, of |-> 1]

\* Every fault that has been begun can be found in fault_log.csv from then on,
\* although the background scheduler truncates that file and other loggers hold
\* it open (README.md: "Every injected fault"), until a ramp gets to run and its
\* logger truncates the file once more; row 1 is scenario_start.
InjectedFaultsLogged ==
  (\A t \in Ramps : fd[t] = "none") => \A i \in 1..idx : InFaultLog(i + 1)

\* A fault log ends with scenario_end exactly if the scenario ran to its end:
\* a signal, wherever it arrives, leaves a log without that row (the main task
\* crashes on the closed file), and no later truncation by a ramp removes it.
EndRowIffCompleted ==
  pc \in Over => (InFaultLog(Len(scenario) + 2) <=> pc = "done")

SelfRestoringTypes == {"bgp_reset", "interface_flap"}
SelfRestoringResources ==
  {r \in Resources : \A f \in AllFaults : Resource(f) = r => f.type \in SelfRestoringTypes}

\* A bgp_reset or interface_flap undoes itself: whenever the runner is not in
\* the middle of an injection, and in particular when it ends after a signal in
\* the middle of one, every BGP neighbour and flapped interface is up again,
\* unless a docker exec failed.  (A signal cancels traffic tasks, not main.)
SelfRestoring ==
  pc \notin InFault /\ ~failed => \A r \in SelfRestoringResources : device[r] = "normal"

\* After a complete run no device resource is left disturbed, but for QoS:
\* qos_restore removes the policy it should restore.
RestoredAtEnd ==
  pc = "done" /\ ~failed => \A r \in Resources : r[1] # "qos" => device[r] = "normal"

\* The startup configuration of a router (the frr.conf the lab binds from the
\* repository) records at most the neighbour of the last bgp_reset on it as
\* shut: "write memory" runs in the middle of a reset and never again after it.
SavedShutIsLastReset ==
  pc \notin InFault /\ ~failed =>
    \A r \in Resources : saved[r] = "shut" =>
      \E i \in 1..idx :
        /\ Resource(scenario[i]) = r
        /\ \A j \in (i + 1)..idx :
             ~(scenario[j].type = "bgp_reset" /\ scenario[j].target = r[2])

\* The background traffic has begun, and no ramp has constructed its logger.
Begun == pc \notin {"init", "start", "traffic"}
NoRampLogs == \A t \in Ramps : fd[t] = "none"

FlowLogWhole == GT!WholeLog(content["flow"], Bg, rows[Bg]["flow"])

\* From the start of the background traffic flow_log.csv is its header and every row that
\* the flows have written, whole and in order, until a ramp's logger truncates it: the
\* runner's own logger holds the file open as well, at the offset behind the header, and flows,
\* signals and main interleave.
FlowRowsIntact == Begun /\ NoRampLogs => FlowLogWhole

\* Once a signal has been handled no traffic task runs on or begins, although main() goes
\* on with the fault it is in, perhaps for minutes: shutdown() has cancelled every task
\* there was, started or not, and the rest of a fault's injection creates no other.
NoTrafficAfterSignal ==
  signals > 0 => \A t \in Tasks : task[t] \notin {"pending", "opened", "active"}

\* The runner ends, with or without a signal.
Terminates == <>(pc \in Over)

\* The runner's traffic tasks live as the flows of module TrafficScheduler do: both are
\* the tasks of FlowTasks, and none completes once it has been cancelled.
Life == INSTANCE FlowTasks WITH
          life <- [t \in Tasks |-> IF task[t] = "opened" THEN "pending" ELSE task[t]]
TaskLives == Life!Spec

-----------------------------------------------------------------------------
(***************************************************************************)
(* What documents and comments of the repository say and the code does not *)
(* do.                                                                     *)
(***************************************************************************)

\* docs/schema.md: the ground-truth files are append-only.
LogsAppendOnly ==
  [][\A f \in GT!Files :
       Len(content'[f]) >= Len(content[f])
         /\ SubSeq(content'[f], 1, Len(content[f])) = content[f]]_vars

\* scenarios.yaml, README.md: progressive_congestion ramps traffic up until
\* congestion develops.
RampsRun == pc \in Over => \A t \in Ramps : task[t] # "cancelled"
=============================================================================
