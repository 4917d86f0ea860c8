------------------------- MODULE TelemetryCollector -------------------------
(***************************************************************************)
(* telemetry/collector.py over several runs of the process: the pollers    *)
(* (one task per CSV file), the syslog server (telemetry/syslog_server.py),*)
(* the batches the Prometheus exporter shows, and the shutdown() coroutines*)
(* of the signal handler and of main(); the CSV files outlive the process, *)
(* which docker may also kill.                                             *)
(*                                                                         *)
(* An action is what happens on the event loop between two suspensions.    *)
(* shutdown() is one step: nothing it awaits suspends (Server.wait_closed  *)
(* returns at once in the Python 3.10 of Dockerfile.telemetry-collector).  *)
(***************************************************************************)
EXTENDS Integers, Sequences, FiniteSets

CONSTANTS
  Pollers,        \* the periodic pollers, each with a CSV file of its own
  Devices,        \* Devices[p]: the devices p asks, in the order it asks them
  SyslogEnabled,  \* the values the configuration may give syslog.enabled
  MaxRounds,      \* bound on the rounds of a poller in one run
  MaxSignals,     \* bound on the signals of one run
  MaxRuns         \* bound on the runs of the process

AllDevices == UNION { {Devices[p][i] : i \in DOMAIN Devices[p]} : p \in Pollers }

ASSUME CollectorAssumption ==
  /\ Devices \in [Pollers -> Seq(AllDevices)] /\ \A p \in Pollers : Devices[p] # <<>>
  /\ SyslogEnabled \subseteq BOOLEAN
  /\ MaxRounds \in Nat \ {0} /\ MaxSignals \in Nat /\ MaxRuns \in Nat

VARIABLES
  run,      \* the number of this run of the process
  pc,       \* where main() is
  running,  \* self._running
  signals,  \* the signals of this run
  prom,     \* the exporter's HTTP server
  at,       \* at[p]: where the poller task p is
  round,    \* round[p]: the rounds p has begun in this run
  asked,    \* asked[p]: the devices asked in this round
  batch,    \* batch[p]: the devices that gave rows in this round
  fd,       \* fd[p]: the file object in _csv_files
  latest,   \* latest[p]: what the exporter shows
  csv,      \* csv[p]: the contents of the CSV file
  sys,      \* where the run_syslog task is
  sysRunning, \* SyslogServer._running
  sysFd,    \* SyslogServer._file_handle
  sock,     \* the UDP socket
  syslog    \* the contents of syslog.csv

procVars == <<run, pc, running, signals, prom>>
pollVars == <<at, round, asked, batch, fd, latest, csv>>
sysVars == <<sys, sysRunning, sysFd, sock, syslog>>
vars == <<procVars, pollVars, sysVars>>

Header == [kind |-> "header", run |-> 0, round |-> 0, rows |-> {}]
Rows(k, n, R) == [kind |-> "rows", run |-> k, round |-> n, rows |-> R]
\* A batch of which only a first part has reached the file.
Torn(k, n, R) == [kind |-> "torn", run |-> k, round |-> n, rows |-> R]
Message(k) == [kind |-> "message", run |-> k, round |-> 0, rows |-> {}]

Line == [kind : {"header", "rows", "torn", "message"}, run : 0..MaxRuns,
         round : 0..MaxRounds, rows : SUBSET AllDevices]
Nothing == Rows(0, 0, {})    \* the exporter has no batch of the poller

TypeOK ==
  /\ run \in 0..MaxRuns
  /\ pc \in {"down", "boot", "serving", "created", "gather", "done"}
  /\ running \in BOOLEAN /\ signals \in 0..MaxSignals
  /\ prom \in {"none", "bound", "serving", "closed"}
  /\ at \in [Pollers -> {"none", "poll", "sleep", "ended", "raised"}]
  /\ round \in [Pollers -> 0..MaxRounds]
  /\ asked \in [Pollers -> Nat] /\ \A p \in Pollers : asked[p] < Len(Devices[p])
  /\ batch \in [Pollers -> SUBSET AllDevices]
  /\ fd \in [Pollers -> {"none", "open", "closed"}]
  /\ latest \in [Pollers -> Line] /\ csv \in [Pollers -> Seq(Line)]
  /\ sys \in {"none", "endpoint", "loop", "ended", "raised"}
  /\ sysRunning \in BOOLEAN /\ sysFd \in {"none", "open", "closed"}
  /\ sock \in {"none", "bound", "closed"} /\ syslog \in Seq(Line)

Init ==
  /\ run = 0 /\ pc = "down"
  /\ running = TRUE /\ signals = 0 /\ prom = "none"
  /\ at = [p \in Pollers |-> "none"] /\ round = [p \in Pollers |-> 0]
  /\ asked = [p \in Pollers |-> 0] /\ batch = [p \in Pollers |-> {}]
  /\ fd = [p \in Pollers |-> "none"] /\ latest = [p \in Pollers |-> Nothing]
  /\ sys = "none" /\ sysRunning = FALSE /\ sysFd = "none" /\ sock = "none"
  /\ csv = [p \in Pollers |-> <<>>] /\ syslog = <<>>

\* The process is gone; the files stay.
Gone ==
  /\ pc' = "down"
  /\ running' = TRUE /\ signals' = 0 /\ prom' = "none"
  /\ at' = [p \in Pollers |-> "none"] /\ round' = [p \in Pollers |-> 0]
  /\ asked' = [p \in Pollers |-> 0] /\ batch' = [p \in Pollers |-> {}]
  /\ fd' = [p \in Pollers |-> "none"] /\ latest' = [p \in Pollers |-> Nothing]
  /\ sys' = "none" /\ sysRunning' = FALSE /\ sysFd' = "none" /\ sock' = "none"
  /\ UNCHANGED run

-----------------------------------------------------------------------------
(***************************************************************************)
(* main() and run().                                                       *)
(***************************************************************************)

\* TelemetryCollector(), the signal handlers, and run() into start_server.
Boot ==
  /\ pc = "down" /\ run < MaxRuns
  /\ run' = run + 1 /\ pc' = "boot"
  /\ UNCHANGED <<running, signals, prom, pollVars, sysVars>>

\* start_server has bound its port and yields once before it returns.
Bind ==
  /\ pc = "boot" /\ pc' = "serving" /\ prom' = "bound"
  /\ UNCHANGED <<run, running, signals, pollVars, sysVars>>

\* The port is taken: the exception leaves main().
BindRaises ==
  /\ pc = "boot"
  /\ Gone /\ UNCHANGED <<csv, syslog>>

\* _server is assigned and the tasks are created.
CreateTasks ==
  /\ pc = "serving" /\ pc' = "created" /\ prom' = "serving"
  /\ UNCHANGED <<run, running, signals, pollVars, sysVars>>

\* The head of a poller's loop.
Turn(p) == IF running THEN "poll" ELSE "ended"

\* run_syslog with the syslog server disabled.
SyslogDisabled ==
  /\ FALSE \in SyslogEnabled
  /\ sys' = "ended" /\ UNCHANGED <<sysRunning, sysFd, sock, syslog>>

\* SyslogServer._init_csv
InitCsv ==
  /\ sysFd' = "open"
  /\ syslog' = IF syslog = <<>> THEN <<Header>> ELSE syslog

\* SyslogServer.start up to its suspension in create_datagram_endpoint, with the
\* socket bound, unless the port is taken, which nobody notices.
SyslogStart ==
  /\ TRUE \in SyslogEnabled /\ InitCsv /\ sysRunning' = TRUE
  /\ \/ sys' = "endpoint" /\ sock' = "bound"
     \/ sys' = "raised" /\ UNCHANGED sock

\* The tasks stand side by side in the ready queue: a shutdown runs before all of
\* them or behind all of them.
TasksBegin ==
  /\ pc = "created" /\ pc' = "gather"
  /\ at' = [p \in Pollers |-> Turn(p)]
  /\ round' = [p \in Pollers |-> IF running THEN 1 ELSE 0]
  /\ SyslogDisabled \/ SyslogStart
  /\ UNCHANGED <<run, running, signals, prom, asked, batch, fd, latest, csv>>

\* shutdown(): a server that is not assigned yet is not stopped, a socket whose
\* transport is not assigned yet is not closed.
Shutdown ==
  /\ running' = FALSE
  /\ sysRunning' = FALSE
  /\ sock' = IF sys \in {"loop", "ended"} /\ sock = "bound" THEN "closed" ELSE sock
  /\ sysFd' = IF sysFd = "open" THEN "closed" ELSE sysFd
  /\ prom' = IF prom = "serving" THEN "closed" ELSE prom
  /\ fd' = [p \in Pollers |-> IF fd[p] = "open" THEN "closed" ELSE fd[p]]

\* SIGINT or SIGTERM, once the handlers are there.
Signal ==
  /\ pc \in {"serving", "created", "gather"} /\ signals < MaxSignals
  /\ signals' = signals + 1
  /\ Shutdown
  /\ UNCHANGED <<run, pc, at, round, asked, batch, latest, csv, sys, syslog>>

TasksOver == (\A p \in Pollers : at[p] \in {"ended", "raised"}) /\ sys \in {"ended", "raised"}

\* Mutant of Finish: a second shutdown is thought needless.
FinishOnly ==
  /\ pc = "gather" /\ TasksOver /\ pc' = "done"
  /\ IF running THEN Shutdown ELSE UNCHANGED <<running, sysRunning, sock, sysFd, prom, fd>>
  /\ UNCHANGED <<run, signals, at, round, asked, batch, latest, csv, sys, syslog>>

\* gather(..., return_exceptions=True) is over: main() calls shutdown() itself.
Finish ==
  /\ pc = "gather" /\ TasksOver /\ pc' = "done"
  /\ Shutdown
  /\ UNCHANGED <<run, signals, at, round, asked, batch, latest, csv, sys, syslog>>

Exit ==
  /\ pc = "done"
  /\ Gone /\ UNCHANGED <<csv, syslog>>

\* SIGKILL, which docker sends ten seconds after SIGTERM.
Kill ==
  /\ pc \notin {"down", "done"}
  /\ Gone /\ UNCHANGED <<csv, syslog>>

MainStep == Bind \/ BindRaises \/ CreateTasks \/ TasksBegin \/ Finish \/ Exit

-----------------------------------------------------------------------------
(***************************************************************************)
(* The pollers.                                                            *)
(***************************************************************************)

\* What the next device gives: rows, or none, because the command failed, timed
\* out after fifteen seconds or could not be parsed, or the poll raised.
Answers(p) == {batch[p], batch[p] \cup {Devices[p][asked[p] + 1]}}

\* Mutant of Poll: one device too many.
PollPastEnd(p) ==
  /\ at[p] = "poll" /\ asked[p] < Len(Devices[p])
  /\ asked' = [asked EXCEPT ![p] = @ + 1]
  /\ \E R \in Answers(p) : batch' = [batch EXCEPT ![p] = R]
  /\ UNCHANGED <<procVars, sysVars, at, round, fd, latest, csv>>

Poll(p) ==
  /\ at[p] = "poll" /\ asked[p] + 1 < Len(Devices[p])
  /\ asked' = [asked EXCEPT ![p] = @ + 1]
  /\ \E R \in Answers(p) : batch' = [batch EXCEPT ![p] = R]
  /\ UNCHANGED <<procVars, sysVars, at, round, fd, latest, csv>>

\* The last device has answered and the round's rows are R.
Polled(p, R) ==
  /\ at[p] = "poll" /\ asked[p] + 1 = Len(Devices[p])
  /\ R \in Answers(p)

\* The round's local variables are gone.
EndRound(p) ==
  /\ asked' = [asked EXCEPT ![p] = 0] /\ batch' = [batch EXCEPT ![p] = {}]

\* prom_metrics.update, behind _write_rows, and the sleep; the lock is always free.
Publish(p, R) ==
  /\ latest' = [latest EXCEPT ![p] = Rows(run, round[p], R)]
  /\ at' = [at EXCEPT ![p] = "sleep"]

\* _write_rows has nothing to write; the exporter forgets the earlier batch.
RoundEmpty(p) ==
  /\ Polled(p, {}) /\ EndRound(p) /\ Publish(p, {})
  /\ UNCHANGED <<procVars, sysVars, round, fd, csv>>

\* Mutant of Opened: every process writes its header.
OpenedAnew(p) == IF fd[p] = "none" THEN Append(csv[p], Header) ELSE csv[p]

\* _get_writer, at the poller's first row: mode "a", a header if the file is empty.
Opened(p) == IF csv[p] = <<>> THEN <<Header>> ELSE csv[p]

RoundWritten(p, R) ==
  /\ Polled(p, R) /\ R # {} /\ fd[p] # "closed"
  /\ fd' = [fd EXCEPT ![p] = "open"]
  /\ csv' = [csv EXCEPT ![p] = Append(Opened(p), Rows(run, round[p], R))]
  /\ EndRound(p) /\ Publish(p, R)
  /\ UNCHANGED <<procVars, sysVars, round>>

\* Mutant of RoundRaises: the exporter is updated before the file.
RoundRaisesPublished(p, R) ==
  /\ Polled(p, R) /\ R # {} /\ fd[p] = "closed"
  /\ latest' = [latest EXCEPT ![p] = Rows(run, round[p], R)]
  /\ at' = [at EXCEPT ![p] = "raised"]
  /\ EndRound(p)
  /\ UNCHANGED <<procVars, sysVars, round, fd, csv>>

\* A shutdown has closed the file while the poller was polling: ValueError ends
\* the poller and the round is lost.
RoundRaises(p, R) ==
  /\ Polled(p, R) /\ R # {} /\ fd[p] = "closed"
  /\ at' = [at EXCEPT ![p] = "raised"]
  /\ EndRound(p)
  /\ UNCHANGED <<procVars, sysVars, round, fd, latest, csv>>

\* SIGKILL between the writes of a round that is larger than the file's buffer.
KilledWriting(p, R) ==
  /\ Polled(p, R) /\ R # {} /\ fd[p] # "closed"
  /\ csv' = [csv EXCEPT ![p] = Append(Opened(p), Torn(run, round[p], R))]
  /\ Gone /\ UNCHANGED syslog

\* Mutant of NextRound: the loop does not look at _running.
NextRoundForever(p) ==
  /\ at[p] = "sleep"
  /\ at' = [at EXCEPT ![p] = "poll"]
  /\ round' = [round EXCEPT ![p] = IF @ < MaxRounds THEN @ + 1 ELSE @]
  /\ UNCHANGED <<procVars, sysVars, asked, batch, fd, latest, csv>>

\* The interval is over.
NextRound(p) ==
  /\ at[p] = "sleep" /\ (running => round[p] < MaxRounds)
  /\ at' = [at EXCEPT ![p] = Turn(p)]
  /\ round' = [round EXCEPT ![p] = IF running THEN @ + 1 ELSE @]
  /\ UNCHANGED <<procVars, sysVars, asked, batch, fd, latest, csv>>

PollerStep(p) ==
  \/ Poll(p) \/ RoundEmpty(p) \/ NextRound(p)
  \/ \E R \in SUBSET AllDevices : RoundWritten(p, R) \/ RoundRaises(p, R)

-----------------------------------------------------------------------------
(***************************************************************************)
(* The syslog server.                                                      *)
(***************************************************************************)

\* Mutant of EndpointReady: _running is set when the endpoint is there, not before.
EndpointReadyRuns ==
  /\ sys = "endpoint" /\ sys' = "loop" /\ sysRunning' = TRUE
  /\ UNCHANGED <<procVars, pollVars, sysFd, sock, syslog>>

\* create_datagram_endpoint returns and the transport is assigned, which a stop()
\* before this could not close.
EndpointReady ==
  /\ sys = "endpoint" /\ sys' = IF sysRunning THEN "loop" ELSE "ended"
  /\ UNCHANGED <<procVars, pollVars, sysRunning, sysFd, sock, syslog>>

SyslogOver ==
  /\ sys = "loop" /\ ~sysRunning /\ sys' = "ended"
  /\ UNCHANGED <<procVars, pollVars, sysRunning, sysFd, sock, syslog>>

\* A message is handled.  On the closed file that writerow raises and the message
\* is gone, which changes nothing.  (One message stands for all of a run.)
Datagram ==
  /\ sock = "bound" /\ sysFd = "open"
  /\ syslog[Len(syslog)] # Message(run)
  /\ syslog' = Append(syslog, Message(run))
  /\ UNCHANGED <<procVars, pollVars, sys, sysRunning, sysFd, sock>>

SyslogStep == EndpointReady \/ SyslogOver

Ended == pc = "down" /\ run = MaxRuns /\ UNCHANGED vars

Next ==
  \/ Boot \/ MainStep \/ Signal \/ Kill
  \/ \E p \in Pollers : PollerStep(p) \/ \E R \in SUBSET AllDevices : KilledWriting(p, R)
  \/ SyslogStep \/ Datagram \/ Ended

Spec == Init /\ [][Next]_vars

\* Commands have a timeout and sleeps end.  Nobody has to start the process, to
\* send it a signal or a message, or to kill it.
Fairness ==
  /\ WF_vars(MainStep) /\ WF_vars(SyslogStep)
  /\ \A p \in Pollers : WF_vars(PollerStep(p))
FairSpec == Spec /\ Fairness

-----------------------------------------------------------------------------
(***************************************************************************)
(* Properties.                                                             *)
(***************************************************************************)

\* Over all restarts and kills a CSV file that is not empty begins with its
\* header and has no other: a header reaches the file with the first row, so that
\* no kill can leave a file that the next process takes for a new one.
HeaderOnce ==
  \A f \in {csv[p] : p \in Pollers} \cup {syslog} :
    f # <<>> => \A i \in DOMAIN f : f[i] = Header <=> i = 1

\* What the exporter shows of a poller, before, during and after a shutdown, is
\* what the CSV file has of the same round: nothing is shown that was not written.
PublishedIsWritten ==
  \A p \in Pollers : latest[p].rows # {} =>
    \E i \in DOMAIN csv[p] : csv[p][i] = latest[p]

\* While the syslog task goes on listening its messages are recorded: its stop()
\* cannot come between opening the file and the endpoint and leave it running.
ListeningRecords ==
  sys = "loop" /\ sysRunning => sysFd = "open" /\ sock = "bound"

\* When main() ends, nothing is left open: no file that a poller has opened after
\* a signal's shutdown, no socket or port that came up after it.
AllClosedAtEnd ==
  pc = "done" =>
    /\ \A p \in Pollers : fd[p] # "open"
    /\ sysFd # "open" /\ sock # "bound" /\ prom = "closed"

\* A signal that arrives once the tasks run stops the collector, although pollers
\* may be anywhere in a round, and one that arrived before is made good by it.
SignalStops ==
  (pc = "gather" /\ ~running /\ ~sysRunning) ~> pc \in {"done", "down"}

=============================================================================
