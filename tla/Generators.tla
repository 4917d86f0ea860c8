----------------------------- MODULE Generators -----------------------------
(***************************************************************************)
(* The generator of one flow, traffic/generator.py and app_generators.py,  *)
(* as run_flow of traffic/scheduler.py uses it: a process (iperf3, mgen,   *)
(* scapy), or a task of the scheduler's event loop that sends requests     *)
(* (HTTP, DNS) or datagrams (VoIP, DB) itself, or that starts a process    *)
(* for each transfer (FTP, SMB).                                           *)
(***************************************************************************)
EXTENDS Naturals

VARIABLES
  kind,    \* "process", or what the task does
  call,    \* what run_flow does with the generator, or how that ended
  process, \* the process of a BaseGenerator
  signal,  \* the last signal sent to it
  task,    \* the _gen_task of an AppGenerator
  running, \* the flag of its _gen_obj
  doing,   \* where generate() is
  child    \* the process of the transfer that was started last

flowVars == <<kind, call>>
processVars == <<process, signal>>
taskVars == <<task, running, doing, child>>
vars == <<flowVars, processVars, taskVars>>

Kinds == {"process", "requests", "datagrams", "transfers"}
Calls == {"start", "sleep", "wait", "stop", "kill"}
Results == {"returned", "failed", "raised", "abandoned"}

TypeOK ==
  /\ kind \in Kinds /\ call \in Calls \cup Results
  /\ process \in {"none", "alive", "ended", "stopped"}
  /\ signal \in {"none", "TERM", "KILL"}
  /\ task \in {"none", "running", "cancelling", "ended", "failed", "cancelled"}
  /\ running \in BOOLEAN /\ doing \in {"head", "transfer", "pause"}
  /\ child \in {"none", "alive", "dead"}

Init ==
  /\ kind \in Kinds /\ call = "start"
  /\ process = "none" /\ signal = "none"
  /\ task = "none" /\ running = TRUE /\ doing = "head" /\ child = "none"

-----------------------------------------------------------------------------
(***************************************************************************)
(* run_flow                                                                *)
(***************************************************************************)
\* start() of an AppGenerator creates a task; that of the others awaits the creation of
\* their process.
Start ==
  /\ call = "start" /\ call' = "sleep"
  /\ IF kind = "process"
     THEN process' = "alive" /\ UNCHANGED <<signal, taskVars>>
     ELSE task' = "running" /\ UNCHANGED <<processVars, running, doing, child>>
  /\ UNCHANGED kind

\* The program cannot be started; stop() finds no process.
StartFails ==
  /\ call = "start" /\ kind = "process" /\ call' = "failed"
  /\ UNCHANGED <<kind, processVars, taskVars>>

Wait ==
  /\ call = "sleep" /\ call' = "wait"
  /\ UNCHANGED <<kind, processVars, taskVars>>

\* stop() terminates a process that has not been seen to exit and waits for it.
StopProcess ==
  /\ kind = "process"
  /\ IF process = "alive" THEN signal' = "TERM" /\ call' = "stop"
     ELSE call' = "returned" /\ UNCHANGED signal
  /\ UNCHANGED <<process, taskVars>>

\* Mutant of StopTask: the task is told to end, and not cancelled.
StopTaskByFlag ==
  /\ kind # "process" /\ call' = "stop"
  /\ running' = FALSE
  /\ UNCHANGED <<processVars, task, doing, child>>

\* stop() of an AppGenerator tells the task to end, cancels it and waits for it.
StopTask ==
  /\ kind # "process" /\ call' = "stop"
  /\ running' = FALSE
  /\ task' = IF task = "running" THEN "cancelling" ELSE task
  /\ UNCHANGED <<processVars, doing, child>>

\* The scheduler shuts down and the flow, which is not one of its tasks, sees it.
Stop ==
  /\ call = "sleep"
  /\ StopProcess \/ StopTask
  /\ UNCHANGED kind

IsOver == IF kind = "process" THEN process # "alive" ELSE task \notin {"running", "cancelling"}

\* What is waited for is over.  A task that has failed raises what it failed with, and
\* once more in the stop() of run_flow's except clause.
Returns ==
  /\ call \in {"wait", "stop", "kill"} /\ IsOver
  /\ call' = IF task = "failed" THEN "raised" ELSE "returned"
  /\ UNCHANGED <<kind, processVars, taskVars>>

\* Mutant of Kill: a process that does not heed SIGTERM is waited for.
KillNever ==
  /\ call = "stop" /\ process = "alive" /\ signal = "none"
  /\ call' = "kill" /\ signal' = "KILL"
  /\ UNCHANGED <<kind, process, taskVars>>

\* Mutant of Kill: the killed process is not waited for.
KillAndReturn ==
  /\ call = "stop" /\ process = "alive"
  /\ call' = "returned" /\ signal' = "KILL"
  /\ UNCHANGED <<kind, process, taskVars>>

\* Five seconds after SIGTERM.
Kill ==
  /\ call = "stop" /\ process = "alive"
  /\ call' = "kill" /\ signal' = "KILL"
  /\ UNCHANGED <<kind, process, taskVars>>

\* If the process exits just then, kill() may find it gone and raise: the except clause
\* calls stop() again, which has nothing left to do, and the flow has failed.
KillRaises ==
  /\ call = "stop" /\ process \in {"ended", "stopped"}
  /\ call' = "failed"
  /\ UNCHANGED <<kind, processVars, taskVars>>

\* The flow's task is cancelled.  Nothing stops the generator, except that a task that is
\* being awaited is cancelled as well.
Abandon ==
  /\ call \in {"start", "sleep", "wait"} /\ call' = "abandoned"
  /\ task' = IF call = "wait" /\ task = "running" THEN "cancelling" ELSE task
  /\ UNCHANGED <<kind, processVars, running, doing, child>>

-----------------------------------------------------------------------------
(***************************************************************************)
(* The processes and the task                                              *)
(***************************************************************************)
\* The process has run its course or dies, which nobody notices; it may not heed SIGTERM.
ProcessExits ==
  /\ process = "alive"
  /\ process' = IF signal = "none" THEN "ended" ELSE "stopped"
  /\ UNCHANGED <<flowVars, signal, taskVars>>

Killed ==
  /\ signal = "KILL" /\ ProcessExits

Fails == task' = "failed" /\ UNCHANGED <<doing, child>>

\* HTTP and DNS catch what goes wrong.
Request == kind = "requests" /\ doing' = "pause" /\ UNCHANGED <<task, child>>

\* VoIP and DB do not: sendto() raises while there is no route.
Datagram ==
  /\ kind = "datagrams"
  /\ (doing' = "pause" /\ UNCHANGED <<task, child>>) \/ Fails

\* FTP and SMB start a process, which may fail, and await its end.
Transfer ==
  /\ kind = "transfers"
  /\ \/ doing' = "transfer" /\ child' = "alive" /\ UNCHANGED task
     \/ Fails

\* generate() goes through its loop once more.
Turn ==
  /\ task = "running" /\ doing = "head" /\ running
  /\ Request \/ Datagram \/ Transfer
  /\ UNCHANGED <<flowVars, processVars, running>>

\* The duration is over.
Ends ==
  /\ task = "running" /\ doing = "head"
  /\ task' = "ended"
  /\ UNCHANGED <<flowVars, processVars, running, doing, child>>

TransferOver ==
  /\ task = "running" /\ doing = "transfer" /\ child = "dead" /\ doing' = "pause"
  /\ UNCHANGED <<flowVars, processVars, task, running, child>>

PauseOver ==
  /\ task = "running" /\ doing = "pause" /\ doing' = "head"
  /\ UNCHANGED <<flowVars, processVars, task, running, child>>

ChildExits ==
  /\ child = "alive" /\ child' = "dead"
  /\ UNCHANGED <<flowVars, processVars, task, running, doing>>

\* CancelledError, which generate() does not catch, wherever it waits.
Cancelled ==
  /\ task = "cancelling" /\ task' = "cancelled"
  /\ UNCHANGED <<flowVars, processVars, running, doing, child>>

Next ==
  \/ Start \/ StartFails \/ Wait \/ Stop \/ Returns \/ Kill \/ KillRaises \/ Abandon
  \/ ProcessExits \/ Turn \/ Ends \/ TransferOver \/ PauseOver \/ ChildExits \/ Cancelled

\* The event loop runs what is ready and the timeout of stop(), and the kernel delivers
\* SIGKILL.  Nothing else is sure to end.
Fairness ==
  /\ WF_vars(Returns \/ KillRaises) /\ WF_vars(Kill)
  /\ WF_vars(Killed) /\ WF_vars(Cancelled)

Spec == Init /\ [][Next]_vars /\ Fairness

-----------------------------------------------------------------------------
\* After wait() or stop() has returned nothing of the generator runs, except a transfer
\* whose task was cancelled.
ReturnedIsOver ==
  call = "returned" =>
    /\ process # "alive" /\ task \notin {"running", "cancelling"}
    /\ child = "alive" => task = "cancelled"

\* stop() does not wait for ever, whatever the process does with SIGTERM.
StopReturns == call = "stop" ~> call \in Results

Life ==
  IF kind = "process" THEN IF process = "alive" THEN "running" ELSE process
  ELSE CASE task \in {"running", "cancelling"} -> "running"
         [] task = "cancelled" -> "stopped"
         [] OTHER -> task

GL == INSTANCE GeneratorLife WITH
  life <- Life, asked <- call \in {"stop", "kill"} \/ task = "cancelling"

\* Seen from its flow the generator is that of module GeneratorLife, which
\* TrafficScheduler takes it to be: in particular nothing but stop() and the cancellation
\* of whoever awaits it stops it, and it does not outlive stop().
IsGenerator == GL!Spec
=============================================================================
