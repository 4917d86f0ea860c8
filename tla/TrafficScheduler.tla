-------------------------- MODULE TrafficScheduler --------------------------
(***************************************************************************)
(* One run of traffic/scheduler.py: main() with the command baseline,      *)
(* precursor or diurnal, the run_flow tasks it creates, their generators   *)
(* (traffic/generator.py, traffic/app_generators.py), the application      *)
(* servers they share (traffic/app_servers.py), and the shutdown()         *)
(* coroutines that the signal handler and main() start.                    *)
(*                                                                         *)
(* Everything runs on one event loop: an action is what a coroutine does   *)
(* from one suspension to the next, so it is atomic, and two coroutines    *)
(* interleave only at awaits that really suspend.                          *)
(***************************************************************************)
EXTENDS Integers, Sequences

CONSTANTS
  Commands,    \* the commands the program may be started with
  Rounds,      \* Rounds[n]: the flows of the n-th round of the diurnal cycle;
               \* baseline runs the first round, precursor one flow of it
  AppFlows,    \* the flows whose generator is an asyncio task, not a process
  Key,         \* Key[f]: the application server flow f needs, or NoServer
  NoServer,
  NoFlow,
  MaxSignals   \* bound on the signals the process receives

Flows == UNION {Rounds[n] : n \in DOMAIN Rounds}
Keys == {Key[f] : f \in Flows} \ {NoServer}
Stoppers == 0..MaxSignals    \* shutdown() of main() and of each signal

ASSUME SchedulerAssumption ==
  /\ Commands \subseteq {"baseline", "precursor", "diurnal"}
  /\ Rounds \in Seq(SUBSET Flows) /\ Rounds # <<>> /\ Rounds[1] # {}
  /\ \A m, n \in DOMAIN Rounds : m # n => Rounds[m] \cap Rounds[n] = {}
  /\ AppFlows \subseteq Flows /\ Key \in [Flows -> Keys \cup {NoServer}]
  /\ \A f \in Flows : Key[f] # NoServer => f \in AppFlows
  /\ NoFlow \notin Flows /\ MaxSignals \in Nat

VARIABLES
  cmd,       \* the command
  pc,        \* where main() is
  round,     \* the rounds created so far
  direct,    \* the flow main() itself runs (precursor), or NoFlow
  running,   \* self.running
  signals,   \* how many signals have been handled
  flow,      \* flow[f]: where run_flow(f) is
  doomed,    \* the flows whose task.cancel() has yet to be delivered
  gen,       \* gen[f]: the generator of f
  rows,      \* rows[f]: the rows of f in flow_log.csv
  log,       \* whether the logger is open
  servers,   \* the keys of server_mgr.servers, in order of insertion
  handle,    \* handle[k]: the docker process servers[k] refers to
  known,     \* self._active_servers
  launched,  \* history: the servers ever launched in a container
  stop,      \* stop[s]: where shutdown s is in stop_all
  left       \* history: the shutdowns that an exception of kill() has ended

flowVars == <<flow, doomed, gen, rows>>
serverVars == <<servers, handle, known, launched>>
mainVars == <<cmd, pc, round, direct, running, signals, left>>
vars == <<mainVars, flowVars, log, serverVars, stop>>

Waiting == {"launch", "settle", "start", "sleep", "wait", "stop"}
Finished == {"completed", "failed", "raised", "abandoned", "cancelled"}
Over == {"done", "dead"}

IsKnown(k) == \E i \in DOMAIN servers : servers[i] = k

TypeOK ==
  /\ cmd \in Commands
  /\ pc \in {"init", "gather", "flow", "sleep", "stopping", "exit", "crashed"} \cup Over
  /\ round \in 0..Len(Rounds) /\ direct \in Flows \cup {NoFlow}
  /\ running \in BOOLEAN /\ signals \in 0..MaxSignals
  /\ flow \in [Flows -> {"none", "pending"} \cup Waiting \cup Finished]
  /\ doomed \subseteq {f \in Flows : flow[f] \in Waiting}
  /\ gen \in [Flows -> {"none", "running", "ended", "failed", "stopped"}]
  /\ rows \in [Flows -> SUBSET {"started", "completed"}]
  /\ log \in {"open", "closed"}
  /\ servers \in Seq(Keys) /\ \A i, j \in DOMAIN servers : servers[i] = servers[j] => i = j
  /\ handle \in [Keys -> {"none", "live", "exited"}]
  /\ known \subseteq Keys /\ launched \subseteq Keys
  /\ stop \in [Stoppers -> [key : Keys \cup {NoServer}, size : Nat]]
  /\ left \subseteq Stoppers

Idle == [key |-> NoServer, size |-> 0]

Init ==
  /\ cmd \in Commands
  /\ pc = "init" /\ round = 0 /\ direct = NoFlow
  /\ running = TRUE /\ signals = 0
  /\ flow = [f \in Flows |-> "none"] /\ doomed = {}
  /\ gen = [f \in Flows |-> "none"] /\ rows = [f \in Flows |-> {}]
  /\ log = "open"
  /\ servers = <<>> /\ handle = [k \in Keys |-> "none"]
  /\ known = {} /\ launched = {}
  /\ stop = [s \in Stoppers |-> Idle] /\ left = {}

-----------------------------------------------------------------------------
(***************************************************************************)
(* run_flow.                                                               *)
(***************************************************************************)

\* The head of the loop that waits for the flow's duration.
LoopHead == IF running THEN "sleep" ELSE "stop"

\* get_generator and gen.start(): an AppGenerator only creates a task; the
\* others await the creation of their process.
StartGenerator(f) ==
  IF f \in AppFlows
  THEN /\ gen' = [gen EXCEPT ![f] = "running"]
       /\ flow' = [flow EXCEPT ![f] = LoopHead]
  ELSE /\ flow' = [flow EXCEPT ![f] = "start"]
       /\ UNCHANGED gen

\* Mutant of Begin: the server is entered in _active_servers before it is awaited.
BeginTrusting(f) ==
  /\ rows' = [rows EXCEPT ![f] = @ \cup {"started"}]
  /\ IF Key[f] = NoServer \/ Key[f] \in known
     THEN StartGenerator(f) /\ UNCHANGED known
     ELSE /\ known' = known \cup {Key[f]}
          /\ flow' = [flow EXCEPT ![f] = "launch"]
          /\ UNCHANGED gen

\* run_flow up to its first suspension: the started row, then _ensure_server,
\* which launches a server unless one has been recorded; a server recorded in
\* server_mgr.servers that is still settling is not waited for.
Begin(f) ==
  /\ rows' = [rows EXCEPT ![f] = @ \cup {"started"}]
  /\ IF Key[f] = NoServer \/ Key[f] \in known
     THEN StartGenerator(f) /\ UNCHANGED known
     ELSE IF IsKnown(Key[f])
     THEN StartGenerator(f) /\ known' = known \cup {Key[f]}
     ELSE /\ flow' = [flow EXCEPT ![f] = "launch"]
          /\ UNCHANGED <<gen, known>>

FlowBegin(f) ==
  /\ flow[f] = "pending"
  /\ Begin(f)
  /\ UNCHANGED <<mainVars, doomed, log, servers, handle, launched, stop>>

\* A created task is in the loop's ready queue, ahead of whatever becomes ready
\* later: everything but a shutdown that was ready before it has to wait for it.
NothingPending == \A f \in Flows : flow[f] # "pending"

\* Mutant of At: CancelledError is caught and the flow goes on.
AtUncancelled(f, where) == flow[f] = where /\ NothingPending

\* f's task can go on from where it waits.
At(f, where) == flow[f] = where /\ f \notin doomed /\ NothingPending

\* start_*: docker exec -d has been created and is recorded, over the handle of
\* a concurrent launch of the same server.
ServerSpawned(f) ==
  /\ At(f, "launch")
  /\ servers' = IF IsKnown(Key[f]) THEN servers ELSE Append(servers, Key[f])
  /\ handle' = [handle EXCEPT ![Key[f]] = "live"]
  /\ launched' = launched \cup {Key[f]}
  /\ flow' = [flow EXCEPT ![f] = "settle"]
  /\ UNCHANGED <<mainVars, doomed, gen, rows, log, known, stop>>

\* The half second after a launch is over.
ServerSettled(f) ==
  /\ At(f, "settle")
  /\ known' = known \cup {Key[f]}
  /\ StartGenerator(f)
  /\ UNCHANGED <<mainVars, doomed, rows, log, servers, handle, launched, stop>>

\* docker cannot be started: the exception leaves run_flow.
LaunchRaises(f) ==
  /\ At(f, "launch")
  /\ flow' = [flow EXCEPT ![f] = "raised"]
  /\ UNCHANGED <<mainVars, doomed, gen, rows, log, serverVars, stop>>

Started(f) ==
  /\ At(f, "start")
  /\ gen' = [gen EXCEPT ![f] = "running"]
  /\ flow' = [flow EXCEPT ![f] = LoopHead]
  /\ UNCHANGED <<mainVars, doomed, rows, log, serverVars, stop>>

\* The generator's program cannot be started: logged, no completed row.
StartFails(f) ==
  /\ At(f, "start")
  /\ flow' = [flow EXCEPT ![f] = "failed"]
  /\ UNCHANGED <<mainVars, doomed, gen, rows, log, serverVars, stop>>

\* Mutant of SleepOver: the elapsed time is never computed again.
SleepWhileRunning(f) ==
  /\ At(f, "sleep")
  /\ flow' = [flow EXCEPT ![f] = LoopHead]
  /\ UNCHANGED <<mainVars, doomed, gen, rows, log, serverVars, stop>>

\* The duration is over or running has become false.
SleepOver(f) ==
  /\ At(f, "sleep")
  /\ flow' = [flow EXCEPT ![f] = IF running THEN "wait" ELSE "stop"]
  /\ UNCHANGED <<mainVars, doomed, gen, rows, log, serverVars, stop>>

\* gen.wait() or gen.stop() returns and the completed row is written; on a
\* closed logger ValueError is caught and the row is lost.
GeneratorOver(f) ==
  /\ At(f, "wait") \/ At(f, "stop")
  /\ gen[f] \in {"ended", "stopped"}
  /\ IF log = "open"
     THEN /\ rows' = [rows EXCEPT ![f] = @ \cup {"completed"}]
          /\ flow' = [flow EXCEPT ![f] = "completed"]
     ELSE /\ flow' = [flow EXCEPT ![f] = "failed"]
          /\ UNCHANGED rows
  /\ UNCHANGED <<mainVars, doomed, gen, log, serverVars, stop>>

\* generate() has raised: awaiting the task raises, and so does the gen.stop()
\* of the except clause, which awaits it again.
GeneratorRaised(f) ==
  /\ At(f, "wait") \/ At(f, "stop")
  /\ gen[f] = "failed"
  /\ flow' = [flow EXCEPT ![f] = "raised"]
  /\ UNCHANGED <<mainVars, doomed, gen, rows, log, serverVars, stop>>

\* The process exits as the five seconds of gen.stop() expire: kill() raises
\* ProcessLookupError, the except clause has nothing left to stop, no completed row.
StopRaises(f) ==
  /\ At(f, "stop") /\ f \notin AppFlows
  /\ gen[f] = "stopped"
  /\ flow' = [flow EXCEPT ![f] = "failed"]
  /\ UNCHANGED <<mainVars, doomed, gen, rows, log, serverVars, stop>>

\* CancelledError, which no clause of run_flow catches, so nothing stops the
\* generator, except that awaiting its task cancels it.  A docker exec or a
\* generator that was being started is killed; the server may be up already.
FlowAbandoned(f) ==
  /\ f \in doomed /\ NothingPending
  /\ flow' = [flow EXCEPT ![f] = "abandoned"]
  /\ doomed' = doomed \ {f}
  /\ gen' = [gen EXCEPT ![f] =
               IF flow[f] = "wait" /\ f \in AppFlows /\ @ = "running" THEN "stopped" ELSE @]
  /\ launched' \in {launched,
                    IF flow[f] = "launch" THEN launched \cup {Key[f]} ELSE launched}
  /\ UNCHANGED <<mainVars, rows, log, servers, handle, known, stop>>

FlowStep(f) ==
  \/ FlowBegin(f) \/ ServerSpawned(f) \/ ServerSettled(f) \/ LaunchRaises(f)
  \/ Started(f) \/ StartFails(f) \/ SleepOver(f)
  \/ GeneratorOver(f) \/ GeneratorRaised(f) \/ StopRaises(f) \/ FlowAbandoned(f)

-----------------------------------------------------------------------------
(***************************************************************************)
(* Generators and docker processes.                                        *)
(***************************************************************************)

\* The generator has run its course, or its process died, which nobody notices.
GeneratorEnds(f) ==
  /\ gen[f] = "running" /\ NothingPending /\ gen' = [gen EXCEPT ![f] = "ended"]
  /\ UNCHANGED <<mainVars, flow, doomed, rows, log, serverVars, stop>>

\* generate() raises, for example from sendto() to an unreachable network.
GeneratorFails(f) ==
  /\ f \in AppFlows
  /\ gen[f] = "running" /\ NothingPending /\ gen' = [gen EXCEPT ![f] = "failed"]
  /\ UNCHANGED <<mainVars, flow, doomed, rows, log, serverVars, stop>>

\* Mutant of GeneratorStopped: a task is told to end, and not cancelled.
GeneratorStoppedIfProcess(f) ==
  /\ flow[f] = "stop" /\ f \notin AppFlows
  /\ gen[f] = "running" /\ NothingPending /\ gen' = [gen EXCEPT ![f] = "stopped"]
  /\ UNCHANGED <<mainVars, flow, doomed, rows, log, serverVars, stop>>

\* gen.stop(): terminate() and, five seconds later, kill(); a task is cancelled.
GeneratorStopped(f) ==
  /\ flow[f] = "stop"
  /\ gen[f] = "running" /\ NothingPending /\ gen' = [gen EXCEPT ![f] = "stopped"]
  /\ UNCHANGED <<mainVars, flow, doomed, rows, log, serverVars, stop>>

DockerExits(k) ==
  /\ handle[k] = "live" /\ NothingPending /\ handle' = [handle EXCEPT ![k] = "exited"]
  /\ UNCHANGED <<mainVars, flowVars, log, servers, known, launched, stop>>

-----------------------------------------------------------------------------
(***************************************************************************)
(* shutdown() and main().                                                  *)
(***************************************************************************)

Live(i) == {j \in i..Len(servers) : handle[servers[j]] = "live"}

\* Mutant of StopAllFrom: only main's shutdown closes the logger.
StopAllKeepsLog(s, i) ==
  IF Live(i) = {}
  THEN /\ servers' = <<>> /\ log' = IF s = 0 THEN "closed" ELSE log
       /\ stop' = [stop EXCEPT ![s] = Idle]
  ELSE /\ LET first == CHOOSE j \in Live(i) : \A k \in Live(i) : j <= k
          IN  stop' = [stop EXCEPT ![s] = [key |-> servers[first], size |-> Len(servers)]]
       /\ UNCHANGED <<servers, log>>

\* stop_all from its i-th server on: it suspends at the first docker process
\* that has not exited; behind the last one it clears the dictionary and
\* shutdown() closes the logger.
StopAllFrom(s, i) ==
  IF Live(i) = {}
  THEN /\ servers' = <<>> /\ log' = "closed"
       /\ stop' = [stop EXCEPT ![s] = Idle]
  ELSE /\ LET first == CHOOSE j \in Live(i) : \A k \in Live(i) : j <= k
          IN  stop' = [stop EXCEPT ![s] = [key |-> servers[first], size |-> Len(servers)]]
       /\ UNCHANGED <<servers, log>>

\* Mutant of CancelTasks: shutdown() leaves the tasks alone.
CancelNothing == UNCHANGED <<flow, doomed>>

\* cancel() of self.tasks; the flow that main() runs itself is not one of them.
CancelTasks ==
  /\ flow' = [f \in Flows |->
                IF f # direct /\ flow[f] = "pending" THEN "cancelled" ELSE flow[f]]
  /\ doomed' = doomed \cup {f \in Flows \ {direct} : flow[f] \in Waiting}

Shutdown(s) ==
  /\ running' = FALSE
  /\ CancelTasks
  /\ StopAllFrom(s, 1)
  /\ UNCHANGED <<gen, rows, handle, known, launched>>

MainShutdown ==
  /\ Shutdown(0)
  /\ pc' = IF Live(1) = {} THEN "exit" ELSE "stopping"
  /\ UNCHANGED <<cmd, round, direct, signals, left>>

Signal ==
  /\ pc \in {"gather", "flow", "sleep", "stopping"} /\ signals < MaxSignals
  /\ NothingPending \/ round > 1
  /\ signals' = signals + 1
  /\ Shutdown(signals + 1)
  /\ UNCHANGED <<cmd, pc, round, direct, left>>

\* An exception leaves stop_all, then shutdown() and, in the main task, main().
LeaveStopAll(s) ==
  /\ stop' = [stop EXCEPT ![s] = Idle]
  /\ pc' = IF s = 0 THEN "crashed" ELSE pc
  /\ UNCHANGED <<servers, log>>

\* The docker process has exited, or three seconds are over and it is killed, which is
\* noted later.  If the dictionary has changed its size, iterating it raises RuntimeError.
StopResumes(s) ==
  /\ stop[s] # Idle /\ NothingPending
  /\ handle' \in {handle, [handle EXCEPT ![stop[s].key] = "exited"]}
  /\ IF Len(servers) # stop[s].size
     THEN LeaveStopAll(s)
     ELSE LET i == CHOOSE j \in DOMAIN servers : servers[j] = stop[s].key
          IN  /\ StopAllFrom(s, i + 1)
              /\ pc' = IF s = 0 /\ Live(i + 1) = {} THEN "exit" ELSE pc
  /\ UNCHANGED <<cmd, round, direct, running, signals, left, flowVars, known, launched>>

\* The docker process exits as the three seconds expire: kill() raises ProcessLookupError.
StopKillRaises(s) ==
  /\ stop[s] # Idle /\ NothingPending
  /\ handle' = [handle EXCEPT ![stop[s].key] = "exited"]
  /\ LeaveStopAll(s)
  /\ left' = left \cup {s}
  /\ UNCHANGED <<cmd, round, direct, running, signals, flowVars, known, launched>>

StopStep(s) == StopResumes(s) \/ StopKillRaises(s)

\* create_task(self.run_flow(...)) for every flow of the next round.
CreateRound ==
  /\ round' = round + 1
  /\ flow' = [f \in Flows |-> IF f \in Rounds[round + 1] THEN "pending" ELSE flow[f]]
  /\ UNCHANGED <<cmd, direct, running, signals, left, doomed, gen, rows, log, serverVars, stop>>

StartBaseline ==
  /\ pc = "init" /\ cmd = "baseline" /\ pc' = "gather"
  /\ CreateRound

\* Mutant of GatherOver: without return_exceptions, the first exception is enough.
GatherRaises ==
  /\ pc = "gather"
  /\ \/ \A f \in Rounds[1] : flow[f] \in Finished
     \/ \E f \in Rounds[1] : flow[f] = "raised"
  /\ MainShutdown

\* gather(*self.tasks, return_exceptions=True) returns when every flow is over.
GatherOver ==
  /\ pc = "gather"
  /\ \A f \in Rounds[1] : flow[f] \in Finished
  /\ MainShutdown

StartPrecursor ==
  /\ pc = "init" /\ cmd = "precursor" /\ pc' = "flow"
  /\ \E f \in Rounds[1] : direct' = f /\ Begin(f)
  /\ UNCHANGED <<cmd, round, running, signals, left, doomed, log, servers, handle, launched, stop>>

PrecursorOver ==
  /\ pc = "flow" /\ flow[direct] \in Finished \ {"raised"}
  /\ MainShutdown

\* What run_flow raises, main() raises: there is no shutdown.
PrecursorRaises ==
  /\ pc = "flow" /\ flow[direct] = "raised" /\ pc' = "crashed"
  /\ UNCHANGED <<cmd, round, direct, running, signals, left, flowVars, log, serverVars, stop>>

\* One turn of run_diurnal_cycle, whose five-minute sleep nothing interrupts.
DiurnalRound ==
  /\ cmd = "diurnal" /\ pc \in {"init", "sleep"} /\ pc' = "sleep"
  /\ NothingPending
  /\ running /\ round < Len(Rounds)
  /\ CreateRound

DiurnalOver ==
  /\ pc = "sleep" /\ (~running \/ round = Len(Rounds)) /\ NothingPending
  /\ MainShutdown

\* asyncio.run cancels what is left; a process is not a task and stays.
Teardown ==
  /\ pc \in {"exit", "crashed"} /\ pc' = IF pc = "exit" THEN "done" ELSE "dead"
  /\ flow' = [f \in Flows |-> IF flow[f] \in Waiting THEN "abandoned" ELSE flow[f]]
  /\ doomed' = {}
  /\ gen' = [f \in Flows |->
               IF f \in AppFlows /\ gen[f] = "running" THEN "stopped" ELSE gen[f]]
  /\ stop' = [s \in Stoppers |-> Idle]
  /\ UNCHANGED <<cmd, round, direct, running, signals, left, rows, log, serverVars>>

MainStep ==
  \/ StartBaseline \/ GatherOver
  \/ StartPrecursor \/ PrecursorOver \/ PrecursorRaises
  \/ DiurnalRound \/ DiurnalOver
  \/ Teardown

Environment ==
  \/ \E f \in Flows : GeneratorEnds(f) \/ GeneratorFails(f) \/ GeneratorStopped(f)
  \/ \E k \in Keys : DockerExits(k)

Ended == pc \in Over /\ UNCHANGED vars

Next ==
  \/ MainStep \/ Signal \/ Environment \/ Ended
  \/ \E f \in Flows : FlowStep(f)
  \/ \E s \in Stoppers : StopStep(s)

Spec == Init /\ [][Next]_vars

\* Sleeps, timeouts, the creation of a process and kill() take a bounded time, and
\* the event loop runs what is ready.  How long a generator runs is left open here.
Fairness ==
  /\ WF_vars(MainStep)
  /\ \A f \in Flows : WF_vars(FlowStep(f)) /\ WF_vars(GeneratorStopped(f))
  /\ \A s \in Stoppers : WF_vars(StopStep(s))
FairSpec == Spec /\ Fairness

-----------------------------------------------------------------------------
(***************************************************************************)
(* Properties.                                                             *)
(***************************************************************************)

\* A flow that needs an application server never starts its generator before
\* that server has been launched in the container, although the flows that
\* share it ask for it at once and _ensure_server awaits between its check and
\* its entry, and although a launch may fail or be cancelled.
ServedBeforeGenerating ==
  \A f \in Flows : gen[f] # "none" /\ Key[f] # NoServer => Key[f] \in launched

\* A completed row means that the flow's generator is over; only the flow that
\* main() runs itself can have had its generator stopped for it, in the time a
\* shutdown waits for a docker process with the logger still open: the others
\* are cancelled in the step that sets running to false.
CompletedRanItsCourse ==
  \A f \in Flows : "completed" \in rows[f] =>
    gen[f] = "ended" \/ (f = direct /\ gen[f] = "stopped")

\* A baseline or precursor run that no signal interrupts pairs every started row
\* with a completed row, except for the flows whose server or generator failed:
\* in particular one flow's exception does not cost another its row.
UndisturbedRunsPair ==
  pc \in Over /\ cmd # "diurnal" /\ signals = 0 =>
    \A f \in Flows : "started" \in rows[f] =>
      "completed" \in rows[f] \/ flow[f] \in {"failed", "raised"}

\* If the logger is still open when the program ends, the exception that ended main() was
\* that of the precursor's flow or of a kill() in its own stop_all.  However the shutdowns
\* of signals and of main() run into one another, one of them closes the logger otherwise:
\* a RuntimeError from the dictionary ends main() only behind a shutdown that has.
LoggerClosedAtEnd ==
  pc \in Over /\ log = "open" => (cmd = "precursor" /\ flow[direct] = "raised") \/ 0 \in left

\* Seen from outside, the flows are the tasks of module FlowTasks: whatever the
\* servers and generators do, a cancelled flow never gets its completed row.
Tasks == INSTANCE FlowTasks WITH Tasks <- Flows,
           life <- [f \in Flows |->
                      IF f \in doomed THEN "cancelling"
                      ELSE IF flow[f] \in Waiting THEN "active"
                      ELSE IF flow[f] = "raised" THEN "failed" ELSE flow[f]]
FlowLives == Tasks!Spec

\* A flow's generator is asked to stop by its flow, by the cancellation of a flow that
\* awaits its task, or, if it is a task, by the end of the program.
GL(f) == INSTANCE GeneratorLife WITH
  life <- gen[f],
  asked <- \/ flow[f] = "stop"
           \/ f \in AppFlows /\ f \in doomed /\ flow[f] = "wait"
           \/ f \in AppFlows /\ pc \in {"exit", "crashed"}

\* Every flow's generator is that of GeneratorLife, which module Generators implements:
\* whatever shuts down when, it is started once, only stopped while it is asked to stop,
\* and not left running by a flow that stops it.
GeneratorsLive ==
  /\ \A f \in Flows : GL(f)!Init /\ GL(f)!Yields
  /\ [][\A f \in Flows : GL(f)!Next]_vars

\* A signal ends a baseline or diurnal run, even if no generator ever ends.  (A
\* precursor run that is in gen.wait() is ended by its generator only.)
SignalEndsRun == signals > 0 /\ cmd # "precursor" ~> pc \in Over

\* Every generator ends: each has a duration of its own.
GeneratorsEnd == \A f \in Flows : WF_vars(GeneratorEnds(f) \/ GeneratorFails(f))

\* Every run ends, with or without signals, if every generator does.
Terminates == GeneratorsEnd => <>(pc \in Over)
=============================================================================
