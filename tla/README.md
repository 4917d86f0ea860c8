# A verification project for NetOracle

NetOracle is a laboratory for SD-WAN telemetry: containerlab runs a topology of CE, PE
and P routers, and Python programs on the host generate traffic, inject faults, write
down what they did ("ground truth") and collect telemetry. The TLA+ modules here model
those programs, TLC checks them on small instances, and TLAPS proves the most important
facts for every value of the constants.

The lab's value as a data set depends on two promises: the ground-truth files record
what has happened, and a fault that is over is over. Both are kept or broken by
interleavings: every Python program is a set of asyncio tasks, a signal handler starts a
`shutdown()` task between any two awaits, several loggers hold the same files open, and
a poller, a flow or a fault may fail at every command. That is what the models are
about.

## 1. Inventory

All paths are relative to `src/`.

| Component | State it keeps | Operations | Talks to |
|---|---|---|---|
| Ground-truth logger, `traffic/ground_truth.py` | two open CSV files | constructor (truncates, writes the header), `log_flow_start/end`, `log_fault`, `close` | constructed by the scenario runner and by every `TrafficScheduler`, all on one directory |
| Scenario runner, `fault_injection/scenario_runner.py` | `running`, `active_traffic_tasks`, its logger | `run_scenario`, `_inject_fault`, ramps, background traffic, cleanup, `shutdown`, signal handler | fault primitives, traffic scheduler (as a library), logger |
| Fault primitives, `fault_injection/faults.py`, and `scenarios.yaml` | none; the devices' running and startup configuration | one `docker exec` (or two or three) per primitive | containers |
| Traffic scheduler, `traffic/scheduler.py` | `tasks`, `running`, `_active_servers` | `run_flow`, `_ensure_server`, `baseline`, `precursor`, `diurnal`, `shutdown`, signal handler | servers, generators, logger |
| Application servers, `traffic/app_servers.py` | `servers`: key to docker process | `start_*`, `stop_all` | shared by all flows of a scheduler |
| Generators, `traffic/generator.py`, `app_generators.py` | a process, or an asyncio task with a flag and the process of a transfer | `start`, `stop`, `wait`, the loops of `generate` | started and awaited by `run_flow` |
| Load patterns, `traffic/diurnal.py`, `profiles.yaml` | none | pure functions | parameters of a flow |
| Telemetry collector, `telemetry/collector.py` | `_running`, `_csv_files`, `_syslog_server` | `run`, seven `poll_*` tasks, `run_syslog`, `_get_writer`, `_write_rows`, `shutdown` | pollers, syslog server, exporter |
| Syslog server, `telemetry/syslog_server.py` | `_running`, `_transport`, its CSV file | `start`, `_handle_message`, `stop` | task of the collector |
| Prometheus exporter, `telemetry/prometheus_exporter.py` | latest batch per metric, the HTTP server | `update`, request handler, `start`, `stop` | updated by the poll tasks |
| Pollers, `telemetry/pollers.py` | counters and SPIs of the last poll | `poll`, with a timeout per command and a parser of its output | containers |
| Tunnel health daemon, `scripts/tunnel_health.sh` | the last count of SAs | count, compare, log; ping | strongSwan in its container |
| IPsec setup, `scripts/setup_ipsec.sh` | files it writes | runs once | containers |
| Lab scripts, topology, device configuration, monitoring stack, images | none of their own | straight-line commands, data | docker, containerlab |

What is hard in each, and so what makes it correct:

* **Logger.** The constructor truncates a file others have open; they go on at their own
  offset. Correct: no damage to the header, no reordered row, a complete log under a
  stated discipline, append-only with one logger.
* **Scenario runner.** A ramp is only created as a task and may never run; the
  background scheduler's logger truncates the runner's file; a signal may come within an
  injection; a step of an injection may fail. Correct: begun faults are logged, faults
  are undone, no traffic runs or begins after a signal although the injection goes on,
  `scenario_end` exactly after a complete run, the program ends.
* **Scheduler, servers, generators.** Flows race for a server; `stop_all` iterates over
  a dictionary across awaits while others change it, and `kill()` may find its process
  gone and raise; a cancelled flow skips its clean-up. Correct: no generator before its server, rows pair up, a completed row is
  true, the logger ends up closed, the run ends.
* **Collector, syslog server, exporter.** A shutdown closes files under running pollers
  and may come before the server exists or while it binds; a kill may tear a write, and
  the next process appends. Correct: one header, nothing published that was not written,
  all closed at the end, a signal stops it.
* **Generators.** A process may ignore SIGTERM or exit as it is killed, a task may fail
  before it is awaited, a transfer's process is awaited inside a task that is cancelled.
  Correct: `stop()` returns and leaves nothing behind, and a flow sees no more of all that
  than the abstract generator.
* **Pollers.** A rate divides two readings that are dated later than they were read, by
  a clock that may be set back, of a counter that may start again, with a fallback that
  shares the memory; the listing of SAs is read with the locals of the line before.
  Correct: the rates add up to the bytes, each row has its own SA's data, a rekey is
  noticed.
* **Tunnel health daemon.** Shell arithmetic on a count that may be no number. Correct:
  the reports add up, and agree with the poller of the same SAs.

`PROJECT.json` has every hazard with its line and the properties aimed at it.

## 2. Modules

| Module | Models | Proofs |
|---|---|---|
| `AppendOnlyLog` | what `docs/schema.md` promises of the ground-truth files | |
| `GroundTruth` | any number of `GroundTruthLogger`s on the same two files | `GroundTruthProofs` |
| `Scenarios` | the seven scenarios of `scenarios.yaml` as constants | |
| `FlowTasks` | the abstract life of a traffic task | |
| `ScenarioRunner` | `main()`, the scenario, its traffic tasks, signals; composed with `GroundTruth` | `ScenarioRunnerProofs` |
| `TrafficScheduler` | scheduler, flows, servers, generators, shutdowns | `TrafficSchedulerProofs` |
| `TelemetryCollector` | collector, syslog server, exporter, over restarts | `TelemetryCollectorProofs` |
| `GeneratorLife` | the abstract life of a flow's generator | |
| `Generators` | the process and the task generators of one flow, and what `run_flow` does with them | `GeneratorsProofs` |
| `InterfaceCounters` | `InterfaceCountersPoller` on one device, with its clock, its commands and the kernel's counters | `InterfaceCountersProofs` |
| `TunnelHealth` | the SA counting of `tunnel_health.sh` | `TunnelHealthProofs` |
| `SaObservers` | that daemon and `IkeSaPoller` on the same SAs, which strongSwan sets up, rekeys and loses; extends `TunnelHealth` | `SaObserversProofs` |
| `MC*` | instances for TLC | |

`ScenarioRunner` takes `GroundTruth` by `INSTANCE` and calls its actions, so that every
log access of the runner is one of the logger module's operations, and what
`GroundTruth` promises holds of the runner's files. `FlowTasks` is implemented twice: by the
flows of `TrafficScheduler` (`FlowLives`), with their servers and generators, and by the
tasks of `ScenarioRunner` (`TaskLives`), which sees flows only from outside. This is
what justifies that the runner models a background flow as a task that starts, ends,
fails or is cancelled. In the same way `GeneratorLife` stands between `TrafficScheduler`,
whose flows use such a generator (`GeneratorsLive`), and `Generators`, which has the
processes, tasks, signals and timeouts that make it one (`IsGenerator`, with liveness).

### Atomicity

asyncio switches tasks only where a coroutine really suspends, so one action is what a
coroutine does from one suspension to the next; awaiting a coroutine that does not
suspend is not a switch. `ScenarioRunner.pc` says where the main task is; only in the
states of `Suspended` may another task or the handler of a signal run. New tasks go to
the end of a FIFO ready queue: a task that has been created starts before anything that
becomes ready later (`Settled`, `NothingPending`), and one that is cancelled before its
first step never runs. Signal handlers call `create_task(shutdown())`; the shutdown of
the runner does not suspend and is one action, that of the scheduler suspends in
`stop_all` and has a place of its own per shutdown (`stop[s]`), that of the collector is
one action because its awaits do not suspend (in the Python 3.10 of the collector's
Ubuntu 22.04 image, `wait_closed()` of a server whose `close()` has been called returns
at once).

### State and actions against the code

* `GroundTruth`: `content` is a file, a sequence of cells; a row is one or more cells,
  so that one row can overwrite a part of another. `pos` is a descriptor's offset, `fd`
  the state of a logger's file objects. `Open`, `WriteRow` and `Close` are the
  constructor, the log methods (each flushes) and `close()`. `rows`, `newest` and
  `writers` are history.
* `ScenarioRunner`: `idx` is the number of faults the loop has begun, `step` the next
  step of the injection (`Program` gives the steps per fault type, `After` and `Effect`
  the state a command leaves its device in), `device` and `saved` the running and the
  startup configuration, `task` and `active` the traffic tasks and
  `active_traffic_tasks`. A `docker exec` succeeds, returns an error (`ExecFailed`:
  logged and passed over) or raises (`ExecRaised`: ends the injection).
* `TrafficScheduler`: `flow[f]` is the await `run_flow(f)` is at, `doomed` the flows
  whose cancellation is pending, `servers` the dictionary in its order, `handle` the
  docker client it refers to, `known` is `_active_servers`, `stop[s]` the key shutdown
  `s` awaits and the size the dictionary had when its iteration began; a changed size
  raises, and so may `kill()` of a process that exits as its timeout expires
  (`StopKillRaises`, remembered in `left`; `StopRaises` is its twin in a generator's
  `stop()`).
* `TelemetryCollector`: `at`, `round`, `asked`, `batch` are a poll task and its locals,
  `fd` and `csv` its file, `latest` what the exporter shows, `sys*` and `sock` the
  syslog server. `csv` and `syslog` outlive `Kill` and `Exit`.
* `Generators`: `call` is what `run_flow` does with the generator and how that ended,
  `process` and `signal` the process of a `BaseGenerator` and the last signal it was sent,
  `task` the `_gen_task` of an `AppGenerator`, `running` the flag of its `_gen_obj`,
  `doing` where its loop is, `child` the process of an FTP or SMB transfer. HTTP and DNS
  block the event loop while they wait for an answer, so a request is one step.
* `InterfaceCounters`: `command`, `waited` and `output` are a poll, `prev` is
  `_prev_counters`, `rows` the last row of each name. `Answer` reads the counters, `Parse`
  dates them, and any time up to the timeout may lie between. `total` is history: what
  the rates of a name add up to, less the bytes, and what rounding may have cost.
* `SaObservers`: `listed`, `at` and `part` are the output in hand and the line that is
  read, `current` and `age` the locals of `_parse_ipsec_statusall`, `prev_spis` is
  `_prev_spis`. A datum of the listing is represented by the SA it belongs to, since what
  can go wrong is that a row has another SA's. The lines are those that the comments of
  the parser quote. `Understood` has the states whose header the pattern matches: it wants
  white space behind the state, which only the header of an established SA has there (its
  age follows), so that an SA being set up is passed over.
* `TunnelHealth`: `prev` is `prev_established`; `Garbled` is the two-line value `0\n0`
  that `grep -c ... || echo 0` gives for no match; `reported` adds up what was logged.

## 3. Runs

Twelve runs, one per question. All need less than three minutes.

| Run | What it shows | Instance |
|---|---|---|
| `loggers` | header, order and completeness of the files; append-only with one logger | two loggers, rows of one and two cells, two rows per logger and file |
| `scenarios` | faults logged and undone, `flow_log.csv` whole, no traffic after a signal; devices restored, `frr.conf`, `scenario_end`, termination, the refinement of the task lives | all shipped scenarios and two in which a ramp gets to run, two background flows, two signals |
| `logs_truncated` | finding: the files are not append-only | `bgp_flap_cascade` |
| `ramps_never_run` | finding: the ramps of `progressive_congestion` do not run | that scenario |
| `scheduler_shutdown` | completed rows are true, logger closed | three commands, three flows, two of them with servers of their own, two signals |
| `scheduler_shared_server` | server before generator, pairing, task and generator lives, ends | three commands, two flows on one server, two rounds, one signal |
| `generators` | `stop()` returns, nothing is left running, refinement of `GeneratorLife` | one generator of each of four kinds |
| `telemetry_shutdown` | headers, published data, closed files, stop | two processes, one poller with two devices and two rounds, syslog on and off, two signals |
| `interface_rates` | the rates add up, are bounded, and are negative for a reason | one interface, one tunnel, three polls in four units of time, one counter that starts again, one step back of the clock |
| `sa_observers` | rows have their own SA's data; daemon and exporter agree; the reports add up while no count is zero | two connections, one with a second SA for its rekey; every order of the listing |
| `rekeys_unseen` | finding: no rekey is ever reported | the same |
| `sa_loss_unreported` | finding: the loss of all SAs is not reported | two SAs |

### Bounds and why they are enough

* `MaxRows = 2`, two loggers: a stale offset, a hole, a complete and a partial overwrite
  and a second truncation all occur; `GroundTruthProofs` drops both bounds.
* `NumBg`: background flows are interchangeable; two of them can be in different states
  at once. The code has nine.
* `MaxSignals = 2`: the second signal's shutdown meets the first's and `main()`'s own,
  so three shutdowns are in `stop_all` at once. A further one sees an emptied dictionary
  or repeats a case.
* `Rounds`: in `scheduler_shared_server` one flow set is running while the next is
  created, which is what the rounds of the diurnal cycle do with their long flows;
  `scheduler_shutdown` has one round, with two servers for `stop_all` to iterate over,
  three shutdowns that do so at once, and each kind of flow for `main()` to run itself.
* One poller: poll tasks share nothing but `_running` and the shutdown, each has a file
  of its own; two devices give full, partial and empty rounds; two rounds give a write
  to a file that is open, not yet open, and closed.
* `MaxRuns = 2`: a run that begins with what another left, torn or whole.
* `MaxTotal`: guards the sum of the reports, which a garbled count lets drift; it is at
  least what the SAs of the run need without drift.
* `Names`, `Tunnels`: only `ip -s link` reports tunnels, so a name that both commands
  report and one that only the second does; they share nothing else. `MaxPolls = 3` is a
  first row, a rate, and a rate after a gap in which the name was not listed or a command
  failed; `MaxClock = 3` with `Timeout = 1` gives readings that are dated late and
  intervals of different lengths, so that division rounds. `MaxResets = 1`: a second
  reset is one of another interval. `InterfaceCountersProofs` drops all of these.
* Three SAs, of which two have one connection: the smallest number in which an SA is
  listed between the two of a rekey.

### Fairness

Weak fairness of the main task, of a task's next step and of a shutdown: the event loop
runs what is ready, sleeps end, and commands are assumed to end. The pollers have
timeouts, so that assumption is the code's; `faults.py` has none around `docker exec`,
so that `Terminates` of the runner rests on docker. Nobody has to send a signal, a
message or `SIGKILL`, or to start a process again. How long a generator runs is left
open: `Terminates` of the scheduler assumes `GeneratorsEnd` in the property itself,
`SignalEndsRun` does not, and holds only of `baseline` and `diurnal`, since the flow
`main()` awaits directly in `precursor` is not among `tasks`.

Of `Generators` only what `stop()` itself ensures is fair: the event loop runs what is
ready and the timeout of five seconds, a cancelled task ends, and the kernel delivers
SIGKILL. No process has to heed SIGTERM, and no generator to end by itself.

Deadlock is checked except in the runs of `GroundTruth` and `InterfaceCounters`, whose
bounds really stop them, and of `Generators`, which is one flow's generator and over when
the flow is; the programs end in a state that stutters (`Ended`).

## 4. What is proved

`GroundTruthProofs`, for every set of loggers and row widths and without the bound on
rows (`FreeSpec`): `TypeCorrect`, `HeaderCorrect`, `OrderCorrect`, `CompleteCorrect`,
and `SoleLoggerAppendOnly`, that the files behave as `AppendOnlyLog` until a second logger
is constructed.
`BoundedSpecIsPart` carries them to the specification the runs check. `HeaderIntact` is
not inductive: a descriptor at offset 0 could overwrite the header in the next step. The
inductive invariant `IInv` adds that every opened descriptor is past the header and, for
the order, that a logger's cells lie below its offset and belong to rows it has counted,
so that a new row is behind all its earlier ones; for completeness, that the newest
logger's offset is the length of a file only it has written to. The lemmas about
`Overlay` say what a write leaves alone and what it puts where.

`ScenarioRunnerProofs`, for every set of scenarios (not only the shipped ones), any
number of flows and signals:

* `SelfRestoringCorrect`. The inductive invariant `SelfRestoringIInv` says that the main
  task sleeps only where the fault's program has a sleep, and that a self-restoring
  resource is down only between the step of an injection that takes it down and the one
  that restores it, unless an exec has failed. Signals do not disturb it because
  `shutdown()` cancels traffic tasks and not the main task.
* `SavedShutCorrect`. `SavedIInv` says that a neighbour is found shut only between two
  commands of its own reset, and that a shut neighbour in a startup configuration belongs
  to a reset behind which no other wrote that configuration; a reset writes it at its
  second step, so the one in progress does not count before.
* `TypeCorrect`. Every step of the composed runner is a step of `GroundTruth` or leaves
  the files alone (`LogStep`), so the theorems of `GroundTruthProofs` hold of the logs of
  a scenario, the type of the files among them.
* `NoTrafficAfterSignalCorrect`. `QuietIInv` says that whatever task may still begin or
  run is in `active_traffic_tasks`, that no signal is handled while a ramp's first step
  goes on, and that a ramp is created in an injection that awaits nothing
  (`RampsAwaitNothing`). So a shutdown reaches every task there is, and an injection that
  goes on after it is not that of a ramp.
* `TaskLivesCorrect`. Needs that the ramp of a fault is created by that fault's only step
  (`Created`): no task is created twice.
* `InjectedFaultsCorrect` and `EndRowCorrect`. `LogIInv` follows the positions of the
  runner's rows: row n goes to cell n + 1 (the runner's offset is `written + 1` whatever
  the others truncate), and from the fault loop on the rows from the second one are in the
  file as long as no ramp has opened it. Behind the cleanup no ramp is left to begin
  (`PendingIsActive`), so `scenario_end`, once written, stays; before it is written, no row
  of that number is in the file (`NoLaterRow`).
* `DisturbedByUnrestoredCorrect` and, from it, `RestoredCorrect`. `DisturbedWithCause`
  gives every disturbed resource a fault that has been injected and that none begun since
  restores, or the injection in progress; it needs that the main task sleeps only where
  the program has a sleep (`SleepsAtSleep`) and that the runner ends normally only with
  all faults begun (`EndReached`). `RestoredAtEnd` follows for every set of
  scenarios that are `Paired`: each fault that disturbs something has one behind it that
  restores the same resource. `ShippedRestored` shows that the seven of `scenarios.yaml`
  are. Scenarios that are not paired leave a device disturbed, so the hypothesis cannot
  go.
* `QosStaysChangedCorrect` proves why QoS is left out: no step of any scenario brings a
  changed policy back.
* `RampsStarveCorrect`: a ramp behind which only traffic faults follow never begins,
  since the main task does not suspend between creating and cancelling it (`StarveIInv`).
  `CongestionNeverRamps` is the shipped case.
* `RunnerHeaderIntact`, `RunnerRowsInOrder` and `RunnerCompleteFiles` are the theorems of
  `GroundTruthProofs`, carried over by `FreeSpecHolds`. `FlowLogWholeUntilRamp` adds that
  only the background traffic's logger writes to `flow_log.csv` (`OnlyBgWritesFlows`),
  and `LogsWholeIfStarving` puts the two files together: in scenarios whose ramps are all
  `Starving`, and so in all that are shipped (`ShippedLogsWhole`), `flow_log.csv` has
  every row the flows wrote and `fault_log.csv` every fault begun.
* `RunnerGetsOn`, the safety half of `Terminates`: every step of the main task gets it
  further in the run (`Further`: a later stretch, fault, step or place within a step), and
  no signal, task or failing command takes it back.

`TrafficSchedulerProofs`, for any rounds of flows (pairwise disjoint: each round creates
new ones), any assignment of servers and any number of signals:

* `ServedCorrect`. `ServersLaunched` says that whatever either record of servers
  contains has been launched, that a flow past its launch has seen it, and that a flow
  whose start is awaited is a process and needs none. That part is what makes the window
  between the check and the entry of `_ensure_server` harmless.
* `FlowLivesCorrect`. Under the mapping `Life` each step is one of `FlowTasks`' or a
  stutter (`LifeStep`, one lemma per kind of step). It needs `NotCreated`: the flows of
  later rounds have not begun.
* `CompletedCorrect` and `GeneratorsSafe`. `RunsInv` relates the place of a flow to its
  generator and its rows, and says that a flow that is not cancelled runs only while
  `running`, unless `main()` runs it itself: a shutdown cancels all others in the step in
  which it clears that flag. `GeneratorsSafe` is the refinement of `GeneratorLife` without
  its fairness.
* `LoggerClosedCorrect`. `CloseInv` adds where `main()` is in each command, and that while
  its own `stop_all` waits for a process the dictionary keeps its size or has been cleared
  by a shutdown that went on to close the logger (`ClosedBehind`). A shutdown of `main()`
  that is ended by a `RuntimeError` has therefore been overtaken by one that was not. The
  property names the two exceptions that do leave the logger open: the one the precursor's
  flow raises, and that of a `kill()` in `main()`'s own `stop_all` (`left`).
* `PairCorrect`. `PairInv` adds that without a signal no flow is cancelled before `main()`
  shuts down, and that every flow that was created is over by then.
* `TypeCorrect`. `TypeInv` adds `Resuming`: once `running` is false no server is added,
  except by the flow `main()` runs itself, and as long as that one has not launched its
  own there is none to wait for. A shutdown that resumes therefore finds the server it
  waited for, or a dictionary of another size, which raises.
* `ShutdownApproaches`, the safety half of `SignalEndsRun`, from `RunsInv`: once `running`
  is false every step of a flow brings that flow nearer to its end (`FlowLeft`), no other
  step sets one back or creates one, the flows of tasks get nothing but their
  cancellation, and each that is not over has its cancellation to come. What is left to
  TLC is that the event loop delivers it. `SchedulerGetsOn` is the half of `Terminates`:
  with or without a shutdown `main()` goes from stretch to stretch and a flow, once
  created, only gets nearer to its end.

`GeneratorsProofs`, for every kind of generator: `TypeCorrect`, `ReturnedIsOverCorrect`
and `LifeRefinement`, that each step of process, task and
`run_flow` is one of the `GeneratorLife` the scheduler's flows are proved to use.
`StopForcesAndApproaches` is the safety half of `StopReturns`: `stop()` waits only for a
task it has cancelled or a process it has signalled, by SIGKILL after the timeout, and no
step prolongs that (`StopLeft`).

`TelemetryCollectorProofs`, for any pollers, device lists, restarts, signals and kills:
`TypeCorrect`, `HeaderOnceCorrect` (with: an open syslog file is not empty),
`PublishedCorrect`, `ListeningCorrect` and `AllClosedCorrect`. The last two rest on
`TasksState`, which says for each place of `main()` where its tasks can be, and for each
place of the syslog task what it holds: without it a socket bound by a start that raised
could be open at the end. `ChronologicalCorrect` adds to the order of a file's batches,
by process and round, that a batch is of an earlier round than the one a poller is in
(`Chronology`); a kill may tear the last batch of a process and the next process goes on
behind it. `StoppingApproaches` is the safety half of `SignalStops`: from the signal on
the steps left to a poller and to the syslog task (`StepsLeft`, `SyslogLeft`) only
decrease, each step of a task decreases its own, and when none is left all tasks that
`main()` waits for are over.

`InterfaceCountersProofs`, for any interfaces, line, timeout and number of polls:
`TypeCorrect`, `RatesAddUpCorrect`, `NegativeOnlyAfterResetCorrect` and
`RateBoundedCorrect`. The memory of a name and its last row agree, also over a change of
the command (that is what `RatesAddUp` needs, with a lemma that `Trunc` is off by less
than its divisor); a counter that has not started again is not below what was read; and
the bytes between two readings are at most what the line carries between the first row
and the second, and in the time the first command may have taken.

`TunnelHealthProofs`, for any finite set of connections: `TypeCorrect` and
`ReportsAddUpCorrect`, and `LastLossUnreported`: a loss is reported only if an SA is left,
a gain only after a count that was not zero, or as the very first report.

`SaObserversProofs`, for any finite set of connections, any names and any order of the
listing: `ReportsAddUpOfObservers`, `UptimeCorrect`, `CountersCorrect`,
`ObserversAgreeCorrect` and the types, `TypeOfObserversCorrect`. `PlaceInv` says where the
reader of the listing is and what its locals are then: behind the header of an established
SA, the last row is that SA's own. `DataInv` says which data a row has, given the line that
is read. `AgreeInv` says that the rows are the SAs read so far, without repetition and with
every established one; since the listing has each SA once, counting the rows is counting
the SAs. `RowsCorrect` goes by positions instead of elements: `RowsInOrder` says that the
row of a listing's entry is the one whose number is that of the entries with a row up to
it, so that a new header, the last such entry so far, gets the last row.
`RekeysNeverReported` needs only that no SPI is ever read into the field that is compared
(`NoRekeySeen`).

The assumptions are those named in the modules (`LoggerAssumption`, `WidthAssumption`,
`BoundAssumption`, `ScenariosAssumption`, `BoundsAssumption`, `SchedulerAssumption`,
`CollectorAssumption`, `HealthAssumption`, `CountersAssumption`, `ObserversAssumption`);
nothing else is taken on trust.

Only model-checked: liveness, that is `Terminates` (of the runner and of the scheduler),
`SignalEndsRun`, `SignalStops`, `StopReturns`, and the fair parts of `GeneratorsLive` and
`IsGenerator`, whose safety parts are proved (`GeneratorsSafe`, `LifeRefinement`): the
prover has no rule for fairness and no `ENABLED`. The theorems called safety halves above
say that the counts an argument for liveness would use never rise; that they fall to zero
is what TLC checks. The other way round, the type invariants of `ScenarioRunner`,
`TrafficScheduler`, `Generators`, `InterfaceCounters`, `TunnelHealth` and `SaObservers`
are proved and not among the runs' properties.

## 5. Findings

Each is a counterexample of a run.

1. `logs_truncated`: the second logger of a scenario truncates `scenario_start` away;
   `docs/schema.md` calls the files append-only.
2. `ramps_never_run`: `progressive_congestion` never suspends between creating its ramps
   and cancelling them, so no ramp runs. `RampsStarveCorrect` is the theorem: so it is of
   every ramp that only traffic faults follow, in any scenario.
3. `sa_loss_unreported`: a count of zero is two lines, which no comparison accepts.
   `LastLossUnreported` proves it for any number of connections.
4. `rekeys_unseen`: `IkeSaPoller` compares an SPI it never reads (`ike_spi` stays empty),
   so `rekey_count` is always 0 (`RekeysNeverReported`, for any SAs and listings);
   `docs/ipsec.md` says that rekeys are detected by it.

Seen while modelling, without a run:

* `controller_policy_drift` leaves `dc1-pe1` on the changed QoS policy and `hub-pe1`
  without one; this is why `RestoredAtEnd` leaves QoS out (`QosStaysChangedCorrect`).
* A background flow that is still running when the scenario ends is cancelled: it gets no
  completed row, although `README.md` says of `flow_log.csv` "Every flow start/stop", and
  its generator is not stopped (`TaskLives` allows just that end, "abandoned").
* The flows still running when the diurnal cycle ends are cancelled by `main()`'s
  `shutdown()`; `UndisturbedRunsPair` excludes `diurnal`.
* A signal handled before `run_syslog` has created the syslog server leaves that server
  running: `gather` then waits for ever, until another signal or `SIGKILL`.
  `SignalStops` starts where the task has.
* `InjectedFaultsLogged` covers the shipped scenarios because no ramp of theirs runs
  (`ShippedLogsWhole`); a scenario whose ramp gets to run loses its earlier rows.
* `iperf3` has no option `--dccp-algo`; `run_flow` does not look at exit codes, so such
  a flow completes.
* An SA that is being set up gets no row: the pattern of `pollers.py:397` names
  CONNECTING and CREATED but wants white space behind them, where their header has a comma
  (`RowPerListedSa` says which SAs have rows). `docs/ipsec.md` and the poller's docstring
  list CONNECTING among the states. If it did match, its row would have the age of the SA
  above it, which `sa_age_sec` still holds.
* `proc.kill()` in `stop_all` may raise `ProcessLookupError` if the docker client exits as
  its three seconds expire: the servers behind it are not stopped and the shutdown does
  not close the logger; in `main()`'s own shutdown the program then ends with the logger
  open (`StopKillRaises`, excepted by `LoggerClosedAtEnd`).
* The SPIs and bytes of an SA that is being deleted go to the row above
  (`CountersOfOwnSa`); `docs/ipsec.md` has "ESP bytes received (this SA)".
* The process of an FTP or SMB transfer goes on when its task is cancelled
  (`ReturnedIsOver` excepts it); the child script of the SMB generator uses `uuid`
  without importing it, so every transfer fails, and is counted.
* `kill()` in `BaseGenerator.stop` may raise `ProcessLookupError` if the process exits as
  the timeout expires: that flow has no completed row (`KillRaises`, and `StopRaises` in the scheduler).
* `VoIPGenerator` masks the sequence number and not the timestamp: `struct.pack` raises
  after 2^32 bytes. HTTP and DNS requests block the event loop, so a signal waits for
  them.
* `GreTunnelPoller` asks for `"rx_bytes" not in current_rx` where the key is always absent, so
  it never makes a row. The CPU poller makes a row of zeros if its commands fail. If
  `show interface json` prints an object, the poller makes one row of zeros named
  `unknown`.
* The patterns for `ip xfrm state` do not accept the `0x` the command prints before an
  SPI, so that no row comes of it.
* `expected_volume_bytes` of a flow is bits per second times seconds.

## 6. Not modelled, and what the models assume

* A `vtysh`, `tc`, `ipsec` or `ip` command does what its primitive's name says; FRR,
  strongSwan and the kernel are not modelled. `write memory` copies the running state of
  everything FRR manages on the router.
* `docker exec -d` returns at once: a server is "launched" when the client has been
  created. Whether it already listens is outside.
* The logger's rows have no contents beyond author and number; file systems do what
  POSIX says, disks do not fill up.
* One syslog message stands for all of a run; its parsing and the categories are left
  out, and so are the formats of metrics and CSV columns.
* The other parsers of `pollers.py` (BGP, OSPF, MPLS, GRE, CPU, XFRM) and the formats
  of the exporter: each is a pure function of one output, and what it could get wrong is
  its regular expressions, whose meaning on real outputs is not in the repository.
* Load patterns of `diurnal.py`: pure; their value goes into one column of a log.
* The lines of `ipsec statusall` are taken to be what the parser's comments quote. There
  the SPIs have a line of their own; on a line they share with INSTALLED the branch of the
  child SA would `continue` past them.
* The runner started with a name that `scenarios.yaml` does not have: `run_scenario`
  returns before it has done anything, and `main()` shuts down.
* `setup_ipsec.sh`, the lab scripts, topology, device configuration, monitoring stack
  and images: data or straight-line commands without state of their own.

## 7. Plan

Done, in this order: `GroundTruth` and its proofs, `ScenarioRunner` with `Scenarios`,
its proofs, `TrafficScheduler` with `FlowTasks`, `TelemetryCollector`, `TunnelHealth`,
`InterfaceCounters` with its proofs, `SaObservers`, `Generators` with `GeneratorLife`.

Next, to extend: `IpsecTables`, the tunnel pairs, marks and keys of `setup_ipsec.sh` as
constants, both ends agreeing; `LoadPatterns`, the step and ramp patterns of `diurnal.py`
against a reference definition.

Next, to prove: what the operators of the modules to come return; for the scheduler, that a
`stop_all` has fewer servers left to wait for with every process it has waited for.
