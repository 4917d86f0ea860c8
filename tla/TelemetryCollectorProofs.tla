---------------------- MODULE TelemetryCollectorProofs ----------------------
(***************************************************************************)
(* Proofs about TelemetryCollector, for any pollers, devices and bounds.   *)
(***************************************************************************)
EXTENDS TelemetryCollector, SequenceTheorems, TLAPS

-----------------------------------------------------------------------------
(***************************************************************************)
(* Type correctness.                                                       *)
(***************************************************************************)

\* The parts of the type invariant that belong to the process, to the pollers
\* and to the syslog server.
ProcTypeOK ==
  /\ run \in 0..MaxRuns
  /\ pc \in {"down", "boot", "serving", "created", "gather", "done"}
  /\ running \in BOOLEAN /\ signals \in 0..MaxSignals
  /\ prom \in {"none", "bound", "serving", "closed"}

PollTypeOK ==
  /\ at \in [Pollers -> {"none", "poll", "sleep", "ended", "raised"}]
  /\ round \in [Pollers -> 0..MaxRounds]
  /\ asked \in [Pollers -> Nat] /\ \A p \in Pollers : asked[p] < Len(Devices[p])
  /\ batch \in [Pollers -> SUBSET AllDevices]
  /\ fd \in [Pollers -> {"none", "open", "closed"}]
  /\ latest \in [Pollers -> Line] /\ csv \in [Pollers -> Seq(Line)]

SysTypeOK ==
  /\ sys \in {"none", "endpoint", "loop", "ended", "raised"}
  /\ sysRunning \in BOOLEAN /\ sysFd \in {"none", "open", "closed"}
  /\ sock \in {"none", "bound", "closed"} /\ syslog \in Seq(Line)

LEMMA TypeParts == TypeOK <=> ProcTypeOK /\ PollTypeOK /\ SysTypeOK
BY DEF TypeOK, ProcTypeOK, PollTypeOK, SysTypeOK

\* What the program writes are lines.
LEMMA LineTypes ==
  /\ Header \in Line /\ Nothing \in Line /\ <<Header>> \in Seq(Line)
  /\ \A k \in 0..MaxRuns, n \in 0..MaxRounds, R \in SUBSET AllDevices :
       Rows(k, n, R) \in Line /\ Torn(k, n, R) \in Line
  /\ \A k \in 0..MaxRuns : Message(k) \in Line
BY CollectorAssumption DEF Header, Nothing, Rows, Torn, Message, Line

\* A poller asks at least one device, and all it asks are devices.
LEMMA DeviceTypes ==
  ASSUME NEW p \in Pollers
  PROVE  /\ Len(Devices[p]) \in Nat /\ 0 < Len(Devices[p])
         /\ \A i \in Nat : i < Len(Devices[p]) => Devices[p][i + 1] \in AllDevices
<1>1. Devices[p] \in Seq(AllDevices) /\ Devices[p] # <<>>
  BY CollectorAssumption
<1>2. Len(Devices[p]) \in Nat /\ 0 < Len(Devices[p])
  BY <1>1, EmptySeq
<1>3. ASSUME NEW i \in Nat, i < Len(Devices[p]) PROVE Devices[p][i + 1] \in AllDevices
  BY <1>1, <1>2, <1>3
<1>4. QED
  BY <1>2, <1>3

LEMMA TypeInit == Init => TypeOK
<1> SUFFICES ASSUME Init PROVE TypeOK
  OBVIOUS
<1>1. ProcTypeOK
  BY CollectorAssumption DEF Init, ProcTypeOK
<1>2. PollTypeOK
  BY CollectorAssumption, LineTypes, DeviceTypes DEF Init, PollTypeOK
<1>3. SysTypeOK
  <2>1. sys = "none" /\ sysRunning = FALSE /\ sysFd = "none" /\ sock = "none" /\ syslog = <<>>
    BY DEF Init
  <2>2. QED
    BY <2>1, EmptySeq DEF SysTypeOK
<1>4. QED
  BY <1>1, <1>2, <1>3, TypeParts

\* The end of a process, whoever ends it, leaves new typed state behind.
LEMMA TypeGone ==
  ASSUME TypeOK, Gone
  PROVE  ProcTypeOK' /\ (csv' \in [Pollers -> Seq(Line)] => PollTypeOK')
         /\ (syslog' \in Seq(Line) => SysTypeOK')
<1>1. ProcTypeOK'
  BY CollectorAssumption DEF TypeOK, Gone, ProcTypeOK
<1>2. csv' \in [Pollers -> Seq(Line)] => PollTypeOK'
  BY CollectorAssumption, LineTypes, DeviceTypes DEF Gone, PollTypeOK
<1>3. syslog' \in Seq(Line) => SysTypeOK'
  BY DEF Gone, SysTypeOK
<1>4. QED
  BY <1>1, <1>2, <1>3

\* main() and the signals.
LEMMA TypeMain ==
  ASSUME TypeOK, Boot \/ MainStep \/ Signal \/ Kill
  PROVE  TypeOK'
<1> USE DEF procVars, pollVars, sysVars
<1>0. ProcTypeOK /\ PollTypeOK /\ SysTypeOK
  BY TypeParts
<1>1. CASE Boot
  <2>1. ProcTypeOK'
    BY <1>0, <1>1, CollectorAssumption DEF Boot, ProcTypeOK
  <2>2. PollTypeOK' /\ SysTypeOK'
    BY <1>0, <1>1 DEF Boot, PollTypeOK, SysTypeOK
  <2>3. QED
    BY <2>1, <2>2, TypeParts DEF TypeOK, ProcTypeOK, PollTypeOK, SysTypeOK
<1>2. CASE Bind \/ CreateTasks
  <2>1. ProcTypeOK' /\ PollTypeOK' /\ SysTypeOK'
    BY <1>0, <1>2 DEF Bind, CreateTasks, ProcTypeOK, PollTypeOK, SysTypeOK
  <2>2. QED
    BY <2>1 DEF TypeOK, ProcTypeOK, PollTypeOK, SysTypeOK
<1>3. CASE BindRaises \/ Exit \/ Kill
  <2>1. Gone /\ UNCHANGED <<csv, syslog>>
    BY <1>3 DEF BindRaises, Exit, Kill
  <2>2. ProcTypeOK' /\ PollTypeOK' /\ SysTypeOK'
    BY <1>0, <2>1, TypeGone DEF PollTypeOK, SysTypeOK
  <2>3. QED
    BY <2>2 DEF TypeOK, ProcTypeOK, PollTypeOK, SysTypeOK
<1>4. CASE TasksBegin
  <2>1. ProcTypeOK'
    BY <1>0, <1>4 DEF TasksBegin, ProcTypeOK
  <2>2. 0 \in 0..MaxRounds /\ 1 \in 0..MaxRounds
    BY CollectorAssumption
  <2>3. PollTypeOK'
    BY <1>0, <1>4, <2>2 DEF TasksBegin, Turn, PollTypeOK
  <2>4. SysTypeOK'
    BY <1>0, <1>4, LineTypes DEF TasksBegin, SyslogDisabled, SyslogStart, InitCsv, SysTypeOK
  <2>5. QED
    BY <2>1, <2>3, <2>4 DEF TypeOK, ProcTypeOK, PollTypeOK, SysTypeOK
<1>5. CASE Signal \/ Finish
  <2>1. ProcTypeOK'
    <3>0. MaxSignals \in Nat
      BY CollectorAssumption
    <3>1. signals' = signals \/ (signals' = signals + 1 /\ signals < MaxSignals)
      BY <1>5 DEF Signal, Finish
    <3>2. signals \in 0..MaxSignals
      BY <1>0 DEF ProcTypeOK
    <3>3. signals' \in 0..MaxSignals
      BY <3>0, <3>1, <3>2
    <3>4. prom' \in {"none", "bound", "serving", "closed"} /\ running' \in BOOLEAN
      BY <1>0, <1>5 DEF Signal, Finish, Shutdown, ProcTypeOK
    <3>5. run' = run /\ pc' \in {pc, "done"}
      BY <1>5 DEF Signal, Finish
    <3>6. QED
      BY <1>0, <3>3, <3>4, <3>5 DEF ProcTypeOK
  <2>2. PollTypeOK'
    BY <1>0, <1>5 DEF Signal, Finish, Shutdown, PollTypeOK
  <2>3. SysTypeOK'
    BY <1>0, <1>5 DEF Signal, Finish, Shutdown, SysTypeOK
  <2>4. QED
    BY <2>1, <2>2, <2>3 DEF TypeOK, ProcTypeOK, PollTypeOK, SysTypeOK
<1>6. QED
  BY <1>1, <1>2, <1>3, <1>4, <1>5 DEF MainStep

\* A poller's step.
LEMMA TypePoller ==
  ASSUME TypeOK, NEW p \in Pollers,
         PollerStep(p) \/ \E R \in SUBSET AllDevices : KilledWriting(p, R)
  PROVE  TypeOK'
<1> USE DEF procVars, sysVars
<1>0. ProcTypeOK /\ PollTypeOK /\ SysTypeOK
  BY TypeParts
<1>1. /\ asked[p] \in Nat /\ asked[p] < Len(Devices[p]) /\ round[p] \in 0..MaxRounds
      /\ run \in 0..MaxRuns /\ Answers(p) \subseteq SUBSET AllDevices
  BY <1>0, DeviceTypes DEF PollTypeOK, ProcTypeOK, Answers
<1>2. 0 < Len(Devices[p])
  BY DeviceTypes
<1>3. Opened(p) \in Seq(Line)
  BY <1>0, LineTypes DEF Opened, PollTypeOK
<1>4. \A e \in Line : Append(Opened(p), e) \in Seq(Line)
  BY <1>3
<1>5. CASE Poll(p)
  <2>1. ProcTypeOK' /\ SysTypeOK'
    BY <1>0, <1>5 DEF Poll, ProcTypeOK, SysTypeOK
  <2>2. asked' \in [Pollers -> Nat] /\ \A q \in Pollers : asked'[q] < Len(Devices[q])
    BY <1>0, <1>1, <1>5, DeviceTypes DEF Poll, PollTypeOK
  <2>3. batch' \in [Pollers -> SUBSET AllDevices]
    BY <1>0, <1>1, <1>5 DEF Poll, PollTypeOK
  <2>4. QED
    BY <1>0, <1>5, <2>1, <2>2, <2>3 DEF Poll, PollTypeOK, TypeOK, ProcTypeOK, SysTypeOK
<1>6. CASE RoundEmpty(p)
  <2>1. ProcTypeOK' /\ SysTypeOK'
    BY <1>0, <1>6 DEF RoundEmpty, ProcTypeOK, SysTypeOK
  <2>2. PollTypeOK'
    BY <1>0, <1>1, <1>2, <1>6, LineTypes DEF RoundEmpty, EndRound, Publish, PollTypeOK
  <2>3. QED
    BY <2>1, <2>2 DEF PollTypeOK, TypeOK, ProcTypeOK, SysTypeOK
<1>7. CASE NextRound(p)
  <2>1. ProcTypeOK' /\ SysTypeOK'
    BY <1>0, <1>7 DEF NextRound, ProcTypeOK, SysTypeOK
  <2>2. MaxRounds \in Nat /\ (running => round[p] + 1 \in 0..MaxRounds)
    BY <1>1, <1>7, CollectorAssumption DEF NextRound
  <2>3. round' \in [Pollers -> 0..MaxRounds]
    BY <1>0, <1>1, <1>7, <2>2 DEF NextRound, PollTypeOK
  <2>4. at' \in [Pollers -> {"none", "poll", "sleep", "ended", "raised"}]
    BY <1>0, <1>7 DEF NextRound, Turn, PollTypeOK
  <2>5. QED
    BY <1>0, <1>7, <2>1, <2>3, <2>4 DEF NextRound, PollTypeOK, TypeOK, ProcTypeOK, SysTypeOK
<1>8. ASSUME NEW R \in SUBSET AllDevices, RoundWritten(p, R) PROVE TypeOK'
  <2>1. ProcTypeOK' /\ SysTypeOK'
    BY <1>0, <1>8 DEF RoundWritten, ProcTypeOK, SysTypeOK
  <2>2. Rows(run, round[p], R) \in Line
    BY <1>1, LineTypes
  <2>3. csv' \in [Pollers -> Seq(Line)]
    BY <1>0, <1>4, <1>8, <2>2 DEF RoundWritten, PollTypeOK
  <2>4. PollTypeOK'
    BY <1>0, <1>2, <1>8, <2>2, <2>3 DEF RoundWritten, EndRound, Publish, PollTypeOK
  <2>5. QED
    BY <2>1, <2>4 DEF PollTypeOK, TypeOK, ProcTypeOK, SysTypeOK
<1>9. ASSUME NEW R \in SUBSET AllDevices, RoundRaises(p, R) PROVE TypeOK'
  <2>1. ProcTypeOK' /\ SysTypeOK'
    BY <1>0, <1>9 DEF RoundRaises, ProcTypeOK, SysTypeOK
  <2>2. PollTypeOK'
    BY <1>0, <1>2, <1>9 DEF RoundRaises, EndRound, PollTypeOK
  <2>3. QED
    BY <2>1, <2>2 DEF PollTypeOK, TypeOK, ProcTypeOK, SysTypeOK
<1>10. ASSUME NEW R \in SUBSET AllDevices, KilledWriting(p, R) PROVE TypeOK'
  <2>1. Torn(run, round[p], R) \in Line
    BY <1>1, LineTypes
  <2>2. csv' \in [Pollers -> Seq(Line)] /\ syslog' = syslog /\ Gone
    BY <1>0, <1>4, <1>10, <2>1 DEF KilledWriting, PollTypeOK
  <2>3. ProcTypeOK' /\ PollTypeOK' /\ SysTypeOK'
    BY <1>0, <2>2, TypeGone DEF SysTypeOK
  <2>4. QED
    BY <2>3 DEF TypeOK, ProcTypeOK, PollTypeOK, SysTypeOK
<1>11. QED
  BY <1>5, <1>6, <1>7, <1>8, <1>9, <1>10 DEF PollerStep

\* A step of the syslog server, or none.
LEMMA TypeSyslog ==
  ASSUME TypeOK, SyslogStep \/ Datagram \/ UNCHANGED vars
  PROVE  TypeOK'
<1> USE DEF procVars, pollVars
<1>1. CASE SyslogStep
  BY <1>1 DEF SyslogStep, EndpointReady, SyslogOver, TypeOK
<1>2. CASE Datagram
  <2>1. syslog' \in Seq(Line)
    BY <1>2, LineTypes DEF Datagram, TypeOK
  <2>2. QED
    BY <1>2, <2>1 DEF Datagram, TypeOK
<1>3. CASE UNCHANGED vars
  BY <1>3 DEF vars, sysVars, TypeOK
<1>4. QED
  BY <1>1, <1>2, <1>3

LEMMA TypeStep == TypeOK /\ [Next]_vars => TypeOK'
BY TypeMain, TypePoller, TypeSyslog DEF Next, Ended

\* The collector's state keeps its type: in particular no poller asks a device
\* beyond its list, and only whole or torn batches, headers and messages get
\* into the files.
THEOREM TypeCorrect == Spec => []TypeOK
<1>1. QED
  BY TypeInit, TypeStep, PTL DEF Spec

-----------------------------------------------------------------------------
(***************************************************************************)
(* Where main() is tells where its tasks are.                              *)
(***************************************************************************)

\* Before the tasks have begun there is no syslog server; when main() is done
\* they are over; a raised start holds no socket, a task that listens or is about
\* to has its file and its socket unless it has been told to stop.
TasksState ==
  /\ pc \notin {"gather", "done"} => sys = "none" /\ sock = "none" /\ sysFd = "none"
  /\ pc \in {"down", "boot", "serving", "created"} =>
       \A p \in Pollers : at[p] = "none"
  /\ pc \in {"created", "gather"} => prom \in {"serving", "closed"}
  /\ pc = "done" => TasksOver
  /\ sys \in {"none", "raised"} => sock = "none"
  /\ sys = "endpoint" => sock = "bound"
  /\ sys \in {"endpoint", "loop"} /\ sysRunning => sysFd = "open" /\ sock = "bound"

\* Steps that end the process establish it anew.
LEMMA TasksStateGone == TypeOK /\ Gone => TasksState'
BY DEF Gone, TasksState, TasksOver

LEMMA TasksStateMain ==
  ASSUME TypeOK, TasksState, Boot \/ MainStep \/ Signal \/ Kill
  PROVE  TasksState'
<1> USE DEF procVars, pollVars, sysVars
<1>1. CASE Boot \/ Bind \/ CreateTasks
  BY <1>1 DEF Boot, Bind, CreateTasks, TasksState, TypeOK
<1>2. CASE BindRaises \/ Exit \/ Kill
  BY <1>2, TasksStateGone DEF BindRaises, Exit, Kill
<1>3. CASE TasksBegin
  BY <1>3 DEF TasksBegin, SyslogDisabled, SyslogStart, InitCsv, TasksState
<1>4. CASE Signal
  BY <1>4 DEF Signal, Shutdown, TasksState, TasksOver, TypeOK
<1>5. CASE Finish
  BY <1>5 DEF Finish, Shutdown, TasksState, TasksOver, TypeOK
<1>6. QED
  BY <1>1, <1>2, <1>3, <1>4, <1>5 DEF MainStep

LEMMA TasksStateTasks ==
  ASSUME TypeOK, TasksState,
         \/ \E p \in Pollers : PollerStep(p) \/ \E R \in SUBSET AllDevices : KilledWriting(p, R)
         \/ SyslogStep \/ Datagram \/ UNCHANGED vars
  PROVE  TasksState'
<1> USE DEF procVars, pollVars, sysVars
<1>1. ASSUME NEW p \in Pollers, PollerStep(p) PROVE TasksState'
  <2>1. UNCHANGED <<procVars, sys, sock, sysFd, sysRunning>>
    BY <1>1 DEF PollerStep, Poll, RoundEmpty, NextRound, RoundWritten, RoundRaises
  <2>2. at[p] \in {"poll", "sleep"}
    BY <1>1 DEF PollerStep, Poll, RoundEmpty, NextRound, RoundWritten, RoundRaises, Polled
  <2>3. pc = "gather"
    BY <2>2 DEF TasksState, TasksOver, TypeOK
  <2>4. QED
    BY <2>1, <2>3 DEF TasksState
<1>2. ASSUME NEW p \in Pollers, NEW R \in SUBSET AllDevices, KilledWriting(p, R) PROVE TasksState'
  BY <1>2, TasksStateGone DEF KilledWriting
<1>3. CASE SyslogStep
  BY <1>3 DEF SyslogStep, EndpointReady, SyslogOver, TasksState, TasksOver, TypeOK
<1>4. CASE Datagram \/ UNCHANGED vars
  BY <1>4 DEF Datagram, vars, TasksState, TasksOver
<1>5. QED
  BY <1>1, <1>2, <1>3, <1>4

-----------------------------------------------------------------------------
(***************************************************************************)
(* The invariants.                                                         *)
(***************************************************************************)

IInv == TypeOK /\ TasksState

LEMMA IInvStep == IInv /\ [Next]_vars => IInv'
BY TypeStep, TasksStateMain, TasksStateTasks DEF IInv, Next, Ended

THEOREM IInvCorrect == Spec => []IInv
<1>1. Init => IInv
  BY TypeInit DEF Init, IInv, TasksState, TasksOver
<1>2. QED
  BY <1>1, IInvStep, PTL DEF Spec

\* A syslog task that goes on listening records what it hears.
THEOREM ListeningCorrect == Spec => []ListeningRecords
<1>1. IInv => ListeningRecords
  BY DEF IInv, TasksState, ListeningRecords
<1>2. QED
  BY <1>1, IInvCorrect, PTL

\* Only the shutdown of main() leads to the end, and nothing opens behind it.
LEMMA AllClosedStep == IInv /\ AllClosedAtEnd /\ [Next]_vars => AllClosedAtEnd'
<1> SUFFICES ASSUME IInv, AllClosedAtEnd, [Next]_vars, pc' = "done"
             PROVE  AllClosedAtEnd'
  BY DEF AllClosedAtEnd
<1> USE DEF procVars, pollVars, sysVars
<1>1. CASE Boot \/ Signal \/ Kill \/ (MainStep /\ ~Finish)
  <2>1. pc' # "done"
    BY <1>1 DEF Boot, Signal, Kill, MainStep, Bind, BindRaises, CreateTasks, TasksBegin, Exit, Gone
  <2>2. QED
    BY <2>1
<1>2. CASE Finish
  <2>1. prom' = "closed" /\ sysFd' # "open" /\ sock' # "bound"
    BY <1>2 DEF Finish, Shutdown, TasksOver, IInv, TasksState, TypeOK
  <2>2. \A p \in Pollers : fd'[p] # "open"
    BY <1>2 DEF Finish, Shutdown
  <2>3. QED
    BY <2>1, <2>2 DEF AllClosedAtEnd
<1>3. ASSUME NEW p \in Pollers, PollerStep(p) PROVE AllClosedAtEnd'
  <2>1. at[p] \in {"poll", "sleep"} /\ pc' = pc
    BY <1>3 DEF PollerStep, Poll, RoundEmpty, NextRound, RoundWritten, RoundRaises, Polled
  <2>2. QED
    BY <2>1 DEF IInv, TasksState, TasksOver
<1>4. ASSUME NEW p \in Pollers, NEW R \in SUBSET AllDevices, KilledWriting(p, R) PROVE AllClosedAtEnd'
  BY <1>4 DEF KilledWriting, Gone
<1>5. CASE SyslogStep \/ Datagram \/ UNCHANGED vars
  BY <1>5 DEF SyslogStep, EndpointReady, SyslogOver, Datagram, vars, AllClosedAtEnd
<1>6. QED
  BY <1>1, <1>2, <1>3, <1>4, <1>5 DEF Next, Ended

\* Whatever was opened, and whenever the signals came, nothing is open when
\* main() ends.
THEOREM AllClosedCorrect == Spec => []AllClosedAtEnd
<1>1. Init => AllClosedAtEnd
  BY DEF Init, AllClosedAtEnd
<1>2. QED
  BY <1>1, AllClosedStep, IInvCorrect, PTL DEF Spec

-----------------------------------------------------------------------------
(***************************************************************************)
(* What is in the files.                                                   *)
(***************************************************************************)

Headed(f) == f # <<>> => \A i \in DOMAIN f : f[i] = Header <=> i = 1

\* A line that is not a header may be added to a file that is not empty.
LEMMA HeadedAppend ==
  ASSUME NEW f \in Seq(Line), f # <<>>, Headed(f), NEW e \in Line, e.kind # "header"
  PROVE  Headed(Append(f, e))
<1>1. Len(f) \in Nat \ {0}
  BY EmptySeq
<1>2. e # Header
  BY DEF Header
<1>3. ASSUME NEW i \in DOMAIN Append(f, e) PROVE Append(f, e)[i] = Header <=> i = 1
  <2>1. i \in 1..(Len(f) + 1) /\ DOMAIN f = 1..Len(f)
    BY <1>1
  <2>2. CASE i \in 1..Len(f)
    BY <2>1, <2>2 DEF Headed
  <2>3. CASE i = Len(f) + 1
    BY <1>1, <1>2, <2>3
  <2>4. QED
    BY <1>1, <2>1, <2>2, <2>3
<1>4. QED
  BY <1>3 DEF Headed

LEMMA HeadedNew == Headed(<<>>) /\ Headed(<<Header>>)
BY DEF Headed

\* HeaderOnce, file by file; the syslog server's file has its header as soon as it
\* is open.
FilesHeaded ==
  /\ \A p \in Pollers : Headed(csv[p])
  /\ Headed(syslog) /\ (sysFd = "open" => syslog # <<>>)

\* Only these steps write.
Writes ==
  \/ TasksBegin \/ Datagram
  \/ \E p \in Pollers, R \in SUBSET AllDevices : RoundWritten(p, R) \/ KilledWriting(p, R)

LEMMA OthersDoNotWrite ==
  [Next]_vars /\ ~Writes => UNCHANGED <<csv, syslog>> /\ (sysFd' = "open" => sysFd = "open")
<1> SUFFICES ASSUME [Next]_vars, ~Writes
             PROVE  UNCHANGED <<csv, syslog>> /\ (sysFd' = "open" => sysFd = "open")
  OBVIOUS
<1> USE DEF procVars, pollVars, sysVars
<1>1. CASE Boot \/ Signal \/ Kill \/ MainStep
  BY <1>1 DEF Writes, Boot, Signal, Kill, MainStep, Bind, BindRaises, CreateTasks, Exit, Finish,
              Shutdown, Gone
<1>2. ASSUME NEW p \in Pollers, PollerStep(p)
      PROVE  UNCHANGED <<csv, syslog>> /\ (sysFd' = "open" => sysFd = "open")
  BY <1>2 DEF Writes, PollerStep, Poll, RoundEmpty, NextRound, RoundRaises
<1>3. CASE SyslogStep \/ UNCHANGED vars
  BY <1>3 DEF SyslogStep, EndpointReady, SyslogOver, vars
<1>4. QED
  BY <1>1, <1>2, <1>3 DEF Next, Ended, Writes

LEMMA FilesHeadedStep == TypeOK /\ FilesHeaded /\ [Next]_vars => FilesHeaded'
<1> SUFFICES ASSUME TypeOK, FilesHeaded, [Next]_vars PROVE FilesHeaded'
  OBVIOUS
<1> USE DEF procVars, pollVars, sysVars
<1>1. ASSUME NEW p \in Pollers
      PROVE  Opened(p) \in Seq(Line) /\ Opened(p) # <<>> /\ Headed(Opened(p))
  BY LineTypes, HeadedNew DEF Opened, TypeOK, FilesHeaded
<1>2. \A p \in Pollers, e \in Line : e.kind # "header" => Headed(Append(Opened(p), e))
  BY <1>1, HeadedAppend
<1>3. \A p \in Pollers, R \in SUBSET AllDevices :
        /\ Rows(run, round[p], R) \in Line /\ Rows(run, round[p], R).kind = "rows"
        /\ Torn(run, round[p], R) \in Line /\ Torn(run, round[p], R).kind = "torn"
  <2>1. run \in 0..MaxRuns /\ \A p \in Pollers : round[p] \in 0..MaxRounds
    BY DEF TypeOK
  <2>2. QED
    BY <2>1, LineTypes DEF Rows, Torn
<1>4. ASSUME NEW p \in Pollers, NEW R \in SUBSET AllDevices, RoundWritten(p, R) PROVE FilesHeaded'
  <2>1. csv' = [csv EXCEPT ![p] = Append(Opened(p), Rows(run, round[p], R))]
        /\ UNCHANGED <<syslog, sysFd>>
    BY <1>4 DEF RoundWritten
  <2>2. Headed(Append(Opened(p), Rows(run, round[p], R)))
    BY <1>2, <1>3
  <2>3. QED
    BY <2>1, <2>2 DEF FilesHeaded, TypeOK
<1>5. ASSUME NEW p \in Pollers, NEW R \in SUBSET AllDevices, KilledWriting(p, R) PROVE FilesHeaded'
  <2>1. csv' = [csv EXCEPT ![p] = Append(Opened(p), Torn(run, round[p], R))]
        /\ syslog' = syslog /\ sysFd' = "none"
    BY <1>5 DEF KilledWriting, Gone
  <2>2. Headed(Append(Opened(p), Torn(run, round[p], R)))
    BY <1>2, <1>3
  <2>3. QED
    BY <2>1, <2>2 DEF FilesHeaded, TypeOK
<1>6. CASE Datagram
  <2>1. syslog' = Append(syslog, Message(run)) /\ syslog # <<>> /\ UNCHANGED <<csv, sysFd>>
    BY <1>6 DEF Datagram, FilesHeaded
  <2>2. Message(run) \in Line /\ Message(run).kind = "message"
    BY LineTypes DEF TypeOK, Message
  <2>3. Headed(syslog') /\ syslog' # <<>>
    <3>1. syslog \in Seq(Line) /\ Headed(syslog)
      BY DEF FilesHeaded, TypeOK
    <3>2. Headed(Append(syslog, Message(run)))
      BY <2>1, <2>2, <3>1, HeadedAppend
    <3>3. Append(syslog, Message(run)) # <<>>
      BY <2>2, <3>1, AppendProperties
    <3>4. QED
      BY <2>1, <3>2, <3>3
  <2>4. QED
    BY <2>1, <2>3 DEF FilesHeaded
<1>7. CASE TasksBegin
  <2>1. csv' = csv /\ (UNCHANGED <<syslog, sysFd>> \/ InitCsv)
    BY <1>7 DEF TasksBegin, SyslogDisabled, SyslogStart
  <2>2. CASE InitCsv
    BY <2>1, <2>2, HeadedNew DEF InitCsv, FilesHeaded
  <2>3. QED
    BY <2>1, <2>2 DEF FilesHeaded
<1>8. CASE ~Writes
  BY <1>8, OthersDoNotWrite DEF FilesHeaded
<1>9. QED
  BY <1>4, <1>5, <1>6, <1>7, <1>8 DEF Writes

\* Over any number of processes, shutdowns and kills, in the middle of a write too,
\* every CSV file begins with its header and has no other.
THEOREM HeaderOnceCorrect == Spec => []HeaderOnce
<1>1. Init => FilesHeaded
  BY HeadedNew DEF Init, FilesHeaded
<1>2. FilesHeaded => HeaderOnce
  BY DEF FilesHeaded, HeaderOnce, Headed
<1>3. QED
  BY <1>1, <1>2, FilesHeadedStep, TypeCorrect, PTL DEF Spec

\* The row sets of what is published are those of lines of the file.
LEMMA PublishedStep == TypeOK /\ PublishedIsWritten /\ [Next]_vars => PublishedIsWritten'
<1> SUFFICES ASSUME TypeOK, PublishedIsWritten, [Next]_vars PROVE PublishedIsWritten'
  OBVIOUS
<1> USE DEF procVars, pollVars, sysVars
<1>1. ASSUME Gone PROVE PublishedIsWritten'
  BY <1>1 DEF Gone, Nothing, Rows, PublishedIsWritten
<1>2. CASE Boot \/ Signal \/ Kill \/ MainStep
  <2>1. Gone \/ UNCHANGED <<latest, csv>>
    BY <1>2 DEF Boot, Signal, Kill, MainStep, Bind, BindRaises, CreateTasks, TasksBegin, Exit, Finish
  <2>2. QED
    BY <1>1, <2>1 DEF PublishedIsWritten
<1>3. ASSUME NEW p \in Pollers, NEW R \in SUBSET AllDevices, KilledWriting(p, R)
      PROVE  PublishedIsWritten'
  BY <1>1, <1>3 DEF KilledWriting
<1>4. CASE SyslogStep \/ Datagram \/ UNCHANGED vars
  BY <1>4 DEF SyslogStep, EndpointReady, SyslogOver, Datagram, vars, PublishedIsWritten
<1>5. ASSUME NEW p \in Pollers, NEW R \in SUBSET AllDevices, RoundWritten(p, R)
      PROVE  PublishedIsWritten'
  <2> DEFINE b == Rows(run, round[p], R)
  <2>1. csv' = [csv EXCEPT ![p] = Append(Opened(p), b)] /\ latest' = [latest EXCEPT ![p] = b]
    BY <1>5 DEF RoundWritten, Publish
  <2>2. Opened(p) \in Seq(Line) /\ Len(Opened(p)) \in Nat
    BY LineTypes DEF Opened, TypeOK
  <2>3. Len(Opened(p)) + 1 \in DOMAIN Append(Opened(p), b)
        /\ Append(Opened(p), b)[Len(Opened(p)) + 1] = b
    BY <2>2
  <2>4. csv'[p] = Append(Opened(p), b) /\ latest'[p] = b
        /\ \A q \in Pollers : q # p => csv'[q] = csv[q] /\ latest'[q] = latest[q]
    BY <2>1 DEF TypeOK
  <2>5. QED
    BY <2>3, <2>4 DEF PublishedIsWritten
<1>6. ASSUME NEW p \in Pollers, RoundEmpty(p) PROVE PublishedIsWritten'
  <2>1. csv' = csv /\ latest' = [latest EXCEPT ![p] = Rows(run, round[p], {})]
    BY <1>6 DEF RoundEmpty, Publish
  <2>2. Rows(run, round[p], {}).rows = {}
    BY DEF Rows
  <2>3. QED
    BY <2>1, <2>2 DEF PublishedIsWritten, TypeOK
<1>7. ASSUME NEW p \in Pollers,
             Poll(p) \/ NextRound(p) \/ \E R \in SUBSET AllDevices : RoundRaises(p, R)
      PROVE  PublishedIsWritten'
  BY <1>7 DEF Poll, NextRound, RoundRaises, PublishedIsWritten
<1>8. QED
  BY <1>2, <1>3, <1>4, <1>5, <1>6, <1>7 DEF Next, Ended, PollerStep

\* The exporter shows no batch that the CSV file has lost: a shutdown that closes
\* the file under a round costs both or none.
THEOREM PublishedCorrect == Spec => []PublishedIsWritten
<1>1. Init => PublishedIsWritten
  BY DEF Init, Nothing, Rows, PublishedIsWritten
<1>2. QED
  BY <1>1, PublishedStep, TypeCorrect, PTL DEF Spec

-----------------------------------------------------------------------------
(***************************************************************************)
(* The order of a CSV file.                                                *)
(***************************************************************************)

\* Line a is of an earlier run of the process, or of an earlier round of the same one.
Precedes(a, b) == a.run < b.run \/ (a.run = b.run /\ a.round < b.round)

\* The lines of a file follow one another in time, and no round is in it twice.
Chronological(f) == \A i, j \in DOMAIN f : i < j => Precedes(f[i], f[j])

\* A line written so far is of an earlier run, or of a round of this one that is over.
WrittenBefore(p, e) ==
  /\ e.run <= run
  /\ e.run = run /\ pc # "down" => e.round <= round[p] /\ (at[p] = "poll" => e.round < round[p])

ChronologyOf(p) ==
  /\ Chronological(csv[p])
  /\ at[p] = "none" => round[p] = 0
  /\ at[p] = "poll" => 0 < round[p]
  /\ \A i \in DOMAIN csv[p] : WrittenBefore(p, csv[p][i])

Chronology == \A p \in Pollers : ChronologyOf(p)

\* The counters are numbers, in the process and in the lines of a file.
LEMMA CounterTypes ==
  ASSUME TypeOK, NEW p \in Pollers
  PROVE  /\ run \in Nat /\ round[p] \in Nat
         /\ \A e \in Line : e.run \in Nat /\ e.round \in Nat
         /\ \A i \in DOMAIN csv[p] : csv[p][i] \in Line
         /\ Opened(p) \in Seq(Line)
<1>1. run \in Nat /\ round[p] \in Nat
  BY CollectorAssumption DEF TypeOK
<1>2. \A e \in Line : e.run \in Nat /\ e.round \in Nat
  BY CollectorAssumption DEF Line
<1>3. csv[p] \in Seq(Line)
  BY DEF TypeOK
<1>4. \A i \in DOMAIN csv[p] : csv[p][i] \in Line
  BY <1>3, ElementOfSeq
<1>5. Opened(p) \in Seq(Line)
  BY <1>3, LineTypes DEF Opened
<1>6. QED
  BY <1>1, <1>2, <1>4, <1>5

\* A line of the round in progress is behind all others.
LEMMA ChronologyAppend ==
  ASSUME TypeOK, NEW p \in Pollers, ChronologyOf(p), pc # "down", at[p] = "poll",
         NEW e \in Line, e.run = run, e.round = round[p]
  PROVE  LET f == Append(Opened(p), e) IN
         /\ Chronological(f)
         /\ \A i \in DOMAIN f : f[i].run <= run /\ (f[i].run = run => f[i].round <= round[p])
<1> DEFINE s == Opened(p)
           f == Append(s, e)
<1>1. /\ run \in Nat /\ round[p] \in Nat /\ 0 < round[p]
      /\ s \in Seq(Line) /\ \A d \in Line : d.run \in Nat /\ d.round \in Nat
  BY CounterTypes DEF ChronologyOf
<1>2. /\ Chronological(s)
      /\ \A i \in DOMAIN s : s[i] \in Line /\ s[i].run <= run /\ Precedes(s[i], e)
  <2>1. CASE csv[p] = <<>>
    <3>1. s = <<Header>> /\ Header \in Line /\ Header.run = 0 /\ Header.round = 0
      BY <2>1, LineTypes DEF Opened, Header
    <3>2. DOMAIN s = {1} /\ s[1] = Header
      BY <3>1
    <3>3. 0 <= run /\ Precedes(Header, e)
      BY <1>1, <3>1 DEF Precedes
    <3>4. QED
      BY <3>1, <3>2, <3>3 DEF Chronological
  <2>2. CASE csv[p] # <<>>
    <3>1. s = csv[p]
      BY <2>2 DEF Opened
    <3>2. \A i \in DOMAIN csv[p] : csv[p][i] \in Line /\ WrittenBefore(p, csv[p][i])
      BY CounterTypes DEF ChronologyOf
    <3>3. \A d \in Line : WrittenBefore(p, d) => d.run <= run /\ Precedes(d, e)
      BY <1>1 DEF WrittenBefore, Precedes
    <3>4. QED
      BY <3>1, <3>2, <3>3 DEF ChronologyOf
  <2>3. QED
    BY <2>1, <2>2
<1>3. PICK n \in Nat : n = Len(s) /\ DOMAIN s = 1..n
  BY <1>1, LenProperties
<1> HIDE DEF s
<1>4. /\ DOMAIN f = 1..n + 1 /\ f[n + 1] = e /\ \A i \in 1..n : f[i] = s[i]
  BY <1>1, <1>3, AppendProperties, LenProperties
<1> HIDE DEF f
<1>5. \A i \in 1..n + 1 : i \in 1..n \/ i = n + 1
  OBVIOUS
<1>6. ASSUME NEW i \in DOMAIN f, NEW j \in DOMAIN f, i < j PROVE Precedes(f[i], f[j])
  <2>1. i \in 1..n
    BY <1>4, <1>6
  <2>2. CASE j \in 1..n
    BY <1>2, <1>3, <1>4, <1>6, <2>1, <2>2 DEF Chronological
  <2>3. CASE j = n + 1
    BY <1>2, <1>3, <1>4, <2>1, <2>3
  <2>4. QED
    BY <1>4, <1>5, <2>2, <2>3
<1>7. ASSUME NEW i \in DOMAIN f
      PROVE  f[i].run <= run /\ (f[i].run = run => f[i].round <= round[p])
  <2>1. CASE i = n + 1
    BY <1>1, <1>4, <2>1
  <2>2. CASE i \in 1..n
    <3>1. f[i] \in Line /\ f[i].run <= run /\ Precedes(f[i], e)
      BY <1>2, <1>3, <1>4, <2>2
    <3>2. QED
      BY <1>1, <3>1 DEF Precedes
  <2>3. QED
    BY <1>4, <1>5, <2>1, <2>2
<1>8. QED
  BY <1>6, <1>7 DEF Chronological, f, s

\* A file that is not written to, while the process goes on, starts or ends.
LEMMA ChronologyKept ==
  ASSUME TypeOK, NEW p \in Pollers, ChronologyOf(p), csv'[p] = csv[p],
         at'[p] = "none" => round'[p] = 0, at'[p] = "poll" => 0 < round'[p],
         \/ pc' = "down" /\ run' = run
         \/ run' = run + 1
         \/ /\ run' = run /\ pc # "down" /\ round'[p] \in Nat /\ round[p] <= round'[p]
            /\ at'[p] = "poll" => at[p] = "poll" \/ round[p] < round'[p]
  PROVE  ChronologyOf(p)'
<1>1. run \in Nat /\ round[p] \in Nat /\ \A e \in Line : e.run \in Nat /\ e.round \in Nat
  BY CounterTypes
<1>2. ASSUME NEW e \in Line, WrittenBefore(p, e) PROVE WrittenBefore(p, e)'
  BY <1>1, <1>2 DEF WrittenBefore
<1>3. \A i \in DOMAIN csv[p] : csv[p][i] \in Line /\ WrittenBefore(p, csv[p][i])
  BY CounterTypes DEF ChronologyOf
<1>4. \A i \in DOMAIN csv'[p] : WrittenBefore(p, csv[p][i])'
  BY <1>2, <1>3
<1>5. Chronological(csv'[p])
  BY DEF ChronologyOf
<1>6. QED
  BY <1>4, <1>5 DEF ChronologyOf

LEMMA ChronologyGone ==
  ASSUME TypeOK, NEW p \in Pollers, ChronologyOf(p), Gone, csv'[p] = csv[p]
  PROVE  ChronologyOf(p)'
<1>1. pc' = "down" /\ run' = run /\ at'[p] = "none" /\ round'[p] = 0
  BY DEF Gone
<1>2. QED
  BY <1>1, ChronologyKept

LEMMA ChronologyMain ==
  ASSUME IInv, Chronology, Boot \/ MainStep \/ Signal \/ Kill, NEW p \in Pollers
  PROVE  ChronologyOf(p)'
<1> USE DEF procVars, pollVars, sysVars, IInv
<1>0. ChronologyOf(p) /\ round[p] \in Nat
  BY CounterTypes DEF Chronology
<1>1. CASE Boot
  <2>1. csv' = csv /\ run' = run + 1 /\ at' = at /\ round' = round
    BY <1>1 DEF Boot
  <2>2. QED
    BY <1>0, <2>1, ChronologyKept DEF ChronologyOf
<1>2. CASE BindRaises \/ Exit \/ Kill
  BY <1>0, <1>2, ChronologyGone DEF BindRaises, Exit, Kill
<1>3. CASE Bind \/ CreateTasks \/ Signal \/ Finish
  <2>1. pc # "down" /\ UNCHANGED <<csv, run, at, round>>
    BY <1>3 DEF Bind, CreateTasks, Signal, Finish
  <2>2. QED
    BY <1>0, <2>1, ChronologyKept DEF ChronologyOf
<1>4. CASE TasksBegin
  <2>1. at[p] = "none" /\ round[p] = 0
    BY <1>0, <1>4 DEF TasksBegin, TasksState, ChronologyOf
  <2>2. /\ csv' = csv /\ run' = run /\ pc # "down"
        /\ at'[p] = Turn(p) /\ round'[p] = IF running THEN 1 ELSE 0
    BY <1>4 DEF TasksBegin
  <2>3. CASE running
    BY <1>0, <2>1, <2>2, <2>3, ChronologyKept DEF Turn
  <2>4. CASE ~running
    BY <1>0, <2>1, <2>2, <2>4, ChronologyKept DEF Turn
  <2>5. QED
    BY <2>3, <2>4
<1>5. QED
  BY <1>1, <1>2, <1>3, <1>4 DEF MainStep

\* A poller that polls or sleeps does so in a process.
LEMMA PollerRuns ==
  ASSUME IInv, NEW q \in Pollers, at[q] \in {"poll", "sleep"} PROVE pc = "gather"
BY DEF IInv, TasksState, TasksOver, TypeOK

LEMMA ChronologyPoller ==
  ASSUME IInv, Chronology, NEW q \in Pollers,
         PollerStep(q) \/ \E R \in SUBSET AllDevices : KilledWriting(q, R),
         NEW p \in Pollers
  PROVE  ChronologyOf(p)'
<1> USE DEF procVars, IInv
<1>0. /\ ChronologyOf(p) /\ ChronologyOf(q) /\ TypeOK
      /\ run \in Nat /\ round[p] \in Nat /\ round[q] \in Nat
  BY CounterTypes DEF Chronology
<1>1. pc # "down"
  <2>1. at[q] \in {"poll", "sleep"}
    BY DEF PollerStep, Poll, RoundEmpty, RoundWritten, RoundRaises, KilledWriting, NextRound, Polled
  <2>2. QED
    BY <2>1, PollerRuns
<1>2. ASSUME csv'[p] = csv[p], UNCHANGED <<run, pc>>, round'[p] = round[p],
             at'[p] = at[p] \/ at'[p] \notin {"none", "poll"}
      PROVE  ChronologyOf(p)'
  <2>1. at'[p] = "poll" => at[p] = "poll"
    BY <1>2
  <2>2. QED
    BY <1>0, <1>1, <1>2, <2>1, ChronologyKept DEF ChronologyOf
<1>3. CASE Poll(q) \/ RoundEmpty(q) \/ \E R \in SUBSET AllDevices : RoundRaises(q, R)
  <2>1. UNCHANGED <<run, pc, csv, round>>
    BY <1>3 DEF Poll, RoundEmpty, RoundRaises
  <2>2. at' = at \/ at' = [at EXCEPT ![q] = "sleep"] \/ at' = [at EXCEPT ![q] = "raised"]
    BY <1>3 DEF Poll, RoundEmpty, RoundRaises, Publish
  <2>3. QED
    BY <1>0, <1>2, <2>1, <2>2 DEF TypeOK
<1>4. CASE NextRound(q)
  <2>1. /\ UNCHANGED <<run, pc, csv>> /\ at[q] = "sleep"
        /\ at' = [at EXCEPT ![q] = Turn(q)]
        /\ round' = [round EXCEPT ![q] = IF running THEN @ + 1 ELSE @]
    BY <1>4 DEF NextRound, pollVars
  <2>2. CASE p # q
    BY <1>0, <1>2, <2>1, <2>2 DEF TypeOK
  <2>3. CASE p = q
    <3>1. at'[p] = Turn(p) /\ round'[p] = IF running THEN round[p] + 1 ELSE round[p]
      BY <1>0, <2>1, <2>3 DEF TypeOK
    <3>2. CASE running
      BY <1>0, <1>1, <2>1, <3>1, <3>2, ChronologyKept DEF Turn
    <3>3. CASE ~running
      BY <1>0, <1>1, <2>1, <3>1, <3>3, ChronologyKept DEF Turn
    <3>4. QED
      BY <3>2, <3>3
  <2>4. QED
    BY <2>2, <2>3
<1>5. ASSUME NEW R \in SUBSET AllDevices, RoundWritten(q, R) PROVE ChronologyOf(p)'
  <2> DEFINE e == Rows(run, round[q], R)
  <2>1. /\ UNCHANGED <<run, pc, round>> /\ at[q] = "poll"
        /\ at' = [at EXCEPT ![q] = "sleep"] /\ csv' = [csv EXCEPT ![q] = Append(Opened(q), e)]
    BY <1>5 DEF RoundWritten, Polled, Publish
  <2>2. CASE p # q
    BY <1>0, <1>2, <2>1, <2>2 DEF TypeOK
  <2>3. CASE p = q
    <3>1. e \in Line
      BY <1>0, LineTypes DEF TypeOK
    <3>2. e.run = run /\ e.round = round[q]
      BY DEF Rows
    <3>3. csv'[p] = Append(Opened(q), e) /\ at'[p] = "sleep" /\ round'[p] = round[p]
      BY <1>0, <2>1, <2>3 DEF TypeOK
    <3> HIDE DEF e
    <3>4. /\ Chronological(csv'[p])
          /\ \A i \in DOMAIN csv'[p] :
               csv'[p][i].run <= run /\ (csv'[p][i].run = run => csv'[p][i].round <= round[p])
      BY <1>0, <1>1, <2>1, <2>3, <3>1, <3>2, <3>3, ChronologyAppend
    <3>5. QED
      BY <2>1, <3>3, <3>4 DEF ChronologyOf, WrittenBefore
  <2>4. QED
    BY <2>2, <2>3
<1>6. ASSUME NEW R \in SUBSET AllDevices, KilledWriting(q, R) PROVE ChronologyOf(p)'
  <2> DEFINE e == Torn(run, round[q], R)
  <2>1. /\ at[q] = "poll" /\ Gone /\ csv' = [csv EXCEPT ![q] = Append(Opened(q), e)]
    BY <1>6 DEF KilledWriting, Polled
  <2>2. CASE p # q
    <3>1. csv'[p] = csv[p]
      BY <1>0, <2>1, <2>2 DEF TypeOK
    <3>2. QED
      BY <1>0, <2>1, <3>1, ChronologyGone
  <2>3. CASE p = q
    <3>1. e \in Line
      BY <1>0, LineTypes DEF TypeOK
    <3>2. e.run = run /\ e.round = round[q]
      BY DEF Torn
    <3>3. /\ csv'[p] = Append(Opened(q), e) /\ at'[p] = "none" /\ round'[p] = 0
          /\ run' = run /\ pc' = "down"
      BY <1>0, <2>1, <2>3 DEF TypeOK, Gone
    <3> HIDE DEF e
    <3>4. /\ Chronological(csv'[p])
          /\ \A i \in DOMAIN csv'[p] : csv'[p][i].run <= run
      BY <1>0, <1>1, <2>1, <2>3, <3>1, <3>2, <3>3, ChronologyAppend
    <3>5. QED
      BY <3>3, <3>4 DEF ChronologyOf, WrittenBefore
  <2>4. QED
    BY <2>2, <2>3
<1>7. QED
  BY <1>3, <1>4, <1>5, <1>6 DEF PollerStep

LEMMA ChronologyStep == IInv /\ Chronology /\ [Next]_vars => Chronology'
<1> SUFFICES ASSUME IInv, Chronology, [Next]_vars PROVE Chronology'
  OBVIOUS
<1>1. CASE Boot \/ MainStep \/ Signal \/ Kill
  BY <1>1, ChronologyMain DEF Chronology
<1>2. ASSUME NEW q \in Pollers,
             PollerStep(q) \/ \E R \in SUBSET AllDevices : KilledWriting(q, R)
      PROVE  Chronology'
  BY <1>2, ChronologyPoller DEF Chronology
<1>3. CASE SyslogStep \/ Datagram \/ UNCHANGED vars
  <2>1. UNCHANGED <<run, pc, at, round, csv>>
    BY <1>3 DEF SyslogStep, EndpointReady, SyslogOver, Datagram, procVars, pollVars, vars
  <2>2. QED
    BY <2>1 DEF Chronology, ChronologyOf, Chronological, WrittenBefore
<1>4. QED
  BY <1>1, <1>2, <1>3 DEF Next, Ended

\* Over all runs of the process, however it is stopped or killed, the batches in a CSV
\* file are in the order of their rounds and no round is written twice, torn or whole.
THEOREM ChronologicalCorrect == Spec => [](\A p \in Pollers : Chronological(csv[p]))
<1>1. Init => Chronology
  <2> SUFFICES ASSUME Init, NEW p \in Pollers PROVE ChronologyOf(p)
    BY DEF Chronology
  <2>1. at[p] = "none" /\ round[p] = 0 /\ csv[p] = <<>>
    BY DEF Init
  <2>2. DOMAIN csv[p] = {}
    BY <2>1
  <2>3. QED
    BY <2>1, <2>2 DEF ChronologyOf, Chronological
<1>2. Chronology => \A p \in Pollers : Chronological(csv[p])
  BY DEF Chronology, ChronologyOf
<1>3. QED
  BY <1>1, <1>2, IInvCorrect, ChronologyStep, PTL DEF Spec

-----------------------------------------------------------------------------
(***************************************************************************)
(* What a signal leaves to be done.                                        *)
(***************************************************************************)

\* The collector is stopping: what SignalStops starts from.
Stopping == pc = "gather" /\ ~running /\ ~sysRunning

\* How many more steps poller p and the syslog task take at most.
StepsLeft(p) ==
  CASE at[p] = "poll" -> Len(Devices[p]) - asked[p] + 1
    [] at[p] = "sleep" -> 1
    [] OTHER -> 0

SyslogLeft == CASE sys = "endpoint" -> 2 [] sys = "loop" -> 1 [] OTHER -> 0

\* A step brings the end nearer: no task is set back, one that takes a step gets on, and
\* the collector goes on stopping until it has.
Approaches ==
  /\ Stopping' \/ pc' \in {"done", "down"}
  /\ \A p \in Pollers :
       StepsLeft(p)' <= StepsLeft(p) /\ (PollerStep(p) => StepsLeft(p)' < StepsLeft(p))
  /\ SyslogLeft' <= SyslogLeft /\ (SyslogStep => SyslogLeft' < SyslogLeft)

\* StepsLeft by the place of the poller.
LEMMA StepsLeftAt ==
  ASSUME TypeOK, NEW p \in Pollers
  PROVE  /\ StepsLeft(p) \in Nat
         /\ at[p] = "poll" => StepsLeft(p) = Len(Devices[p]) - asked[p] + 1
         /\ at[p] = "sleep" => StepsLeft(p) = 1
         /\ at[p] \notin {"poll", "sleep"} => StepsLeft(p) = 0
BY DeviceTypes DEF TypeOK, StepsLeft

LEMMA ApproachPoller ==
  ASSUME IInv, Stopping, NEW q \in Pollers, PollerStep(q)
  PROVE  /\ StepsLeft(q)' < StepsLeft(q)
         /\ \A p \in Pollers : p # q => StepsLeft(p)' = StepsLeft(p)
         /\ UNCHANGED <<pc, running, sysRunning, sys>>
<1> USE DEF procVars, sysVars
<1>1. TypeOK /\ at[q] \in {"poll", "sleep"} /\ ~running
  BY DEF IInv, Stopping, PollerStep, Poll, RoundEmpty, RoundWritten, RoundRaises, NextRound, Polled
<1>2. UNCHANGED <<pc, running, sysRunning, sys>>
  BY DEF PollerStep, Poll, RoundEmpty, RoundWritten, RoundRaises, NextRound
<1>3. \E a \in {"poll", "sleep", "ended", "raised"}, n \in Nat :
        at' = [at EXCEPT ![q] = a] /\ asked' = [asked EXCEPT ![q] = n]
  <2>1. at = [at EXCEPT ![q] = at[q]] /\ asked = [asked EXCEPT ![q] = asked[q]] /\ asked[q] \in Nat
    BY <1>1 DEF TypeOK
  <2>2. CASE Poll(q)
    <3>1. at' = [at EXCEPT ![q] = at[q]]
      BY <2>1, <2>2 DEF Poll
    <3>2. asked' = [asked EXCEPT ![q] = asked[q] + 1] /\ asked[q] + 1 \in Nat
      BY <2>1, <2>2 DEF Poll
    <3>3. QED
      BY <1>1, <3>1, <3>2
  <2>3. CASE RoundEmpty(q) \/ \E R \in SUBSET AllDevices : RoundWritten(q, R) \/ RoundRaises(q, R)
    BY <1>1, <2>1, <2>3 DEF RoundEmpty, RoundWritten, RoundRaises, EndRound, Publish
  <2>4. CASE NextRound(q)
    BY <1>1, <2>1, <2>4 DEF NextRound, Turn
  <2>5. QED
    BY <2>2, <2>3, <2>4 DEF PollerStep
<1>4. ASSUME NEW p \in Pollers, p # q PROVE StepsLeft(p)' = StepsLeft(p)
  BY <1>1, <1>3, <1>4 DEF StepsLeft, TypeOK
<1>5. StepsLeft(q)' < StepsLeft(q)
  <2>2. Len(Devices[q]) \in Nat /\ asked[q] \in Nat /\ asked[q] < Len(Devices[q])
    BY <1>1, DeviceTypes DEF TypeOK
  <2>3. CASE Poll(q)
    <3>1. at[q] = "poll" /\ at' = at /\ asked'[q] = asked[q] + 1
      BY <1>1, <2>3 DEF Poll, TypeOK
    <3>2. QED
      BY <2>2, <3>1 DEF StepsLeft
  <2>4. CASE RoundEmpty(q) \/ \E R \in SUBSET AllDevices : RoundWritten(q, R) \/ RoundRaises(q, R)
    <3>1. at[q] = "poll" /\ at'[q] \in {"sleep", "raised"}
      BY <1>1, <2>4 DEF RoundEmpty, RoundWritten, RoundRaises, Polled, Publish, TypeOK
    <3>2. QED
      BY <2>2, <3>1 DEF StepsLeft
  <2>5. CASE NextRound(q)
    <3>1. at[q] = "sleep" /\ at'[q] = "ended"
      BY <1>1, <2>5 DEF NextRound, Turn, TypeOK
    <3>2. QED
      BY <3>1 DEF StepsLeft
  <2>6. QED
    BY <2>3, <2>4, <2>5 DEF PollerStep
<1>6. QED
  BY <1>2, <1>4, <1>5

\* While main() waits for its tasks they have begun.
TasksBegun == pc = "gather" => sys # "none" /\ \A p \in Pollers : at[p] # "none"

LEMMA TasksBegunStep == IInv /\ TasksBegun /\ [Next]_vars => TasksBegun'
<1> SUFFICES ASSUME IInv, TasksBegun, [Next]_vars, pc' = "gather"
             PROVE  sys' # "none" /\ \A p \in Pollers : at'[p] # "none"
  BY DEF TasksBegun
<1> USE DEF procVars, pollVars, sysVars
<1>1. TypeOK
  BY DEF IInv
<1>2. CASE TasksBegin
  BY <1>2 DEF TasksBegin, Turn, SyslogDisabled, SyslogStart
<1>3. CASE Signal \/ Datagram \/ UNCHANGED vars
  BY <1>3 DEF Signal, Datagram, vars, TasksBegun
<1>4. CASE SyslogStep
  BY <1>4 DEF SyslogStep, EndpointReady, SyslogOver, TasksBegun
<1>5. ASSUME NEW q \in Pollers, PollerStep(q)
      PROVE  sys' # "none" /\ \A p \in Pollers : at'[p] # "none"
  <2>1. UNCHANGED <<pc, sys>>
    BY <1>5 DEF PollerStep, Poll, RoundEmpty, RoundWritten, RoundRaises, NextRound
  <2>2. at' = at \/ \E a \in {"poll", "sleep", "ended", "raised"} : at' = [at EXCEPT ![q] = a]
    BY <1>5 DEF PollerStep, Poll, RoundEmpty, RoundWritten, RoundRaises, Publish, NextRound, Turn
  <2>3. QED
    BY <1>1, <2>1, <2>2 DEF TasksBegun, TypeOK
<1>6. ASSUME \/ Boot \/ Bind \/ BindRaises \/ CreateTasks \/ Finish \/ Exit \/ Kill
             \/ \E q \in Pollers : \E R \in SUBSET AllDevices : KilledWriting(q, R)
      PROVE  FALSE
  BY <1>6 DEF Boot, Bind, BindRaises, CreateTasks, Finish, Exit, Kill, KilledWriting, Gone
<1>7. QED
  BY <1>2, <1>3, <1>4, <1>5, <1>6 DEF Next, MainStep, Ended

\* The safety half of SignalStops.  From the signal on every step of a task brings that
\* task nearer to its end, by a count that no other step raises: a poller asks at most the
\* devices its round has left and begins no other one.  When all counts are zero the tasks
\* that main() waits for are over.
THEOREM StoppingApproaches ==
  Spec => /\ [][Stopping => Approaches]_vars
          /\ [](Stopping /\ SyslogLeft = 0 /\ (\A p \in Pollers : StepsLeft(p) = 0) => TasksOver)
<1>1. IInv /\ [Next]_vars => [Stopping => Approaches]_vars
  <2> SUFFICES ASSUME IInv, Next, Stopping PROVE Approaches
    OBVIOUS
  <2> USE DEF procVars, pollVars, sysVars
  <2>1. TypeOK /\ pc = "gather" /\ ~running /\ ~sysRunning
    BY DEF IInv, Stopping
  <2>2. SyslogLeft \in Nat /\ \A p \in Pollers : StepsLeft(p) \in Nat
    BY <2>1, StepsLeftAt DEF SyslogLeft
  <2>3. \A p \in Pollers : PollerStep(p) => StepsLeft(p)' < StepsLeft(p)
    BY ApproachPoller
  <2>4. SyslogStep => SyslogLeft' < SyslogLeft
    BY <2>1 DEF SyslogStep, EndpointReady, SyslogOver, SyslogLeft
  <2>5. /\ Stopping' \/ pc' \in {"done", "down"}
        /\ \A p \in Pollers : StepsLeft(p)' <= StepsLeft(p)
        /\ SyslogLeft' <= SyslogLeft
    <3> DEFINE Nearer == /\ Stopping' \/ pc' \in {"done", "down"}
                         /\ \A p \in Pollers : StepsLeft(p)' <= StepsLeft(p)
                         /\ SyslogLeft' <= SyslogLeft
    <3>1. ASSUME NEW q \in Pollers, PollerStep(q) PROVE Nearer
      <4>1. StepsLeft(q)' < StepsLeft(q) /\ StepsLeft(q)' \in Nat
        <5>1. TypeOK'
          BY <2>1, TypeStep
        <5>2. StepsLeft(q)' \in Nat
          BY <5>1, DeviceTypes DEF TypeOK, StepsLeft
        <5>3. QED
          BY <3>1, <5>2, ApproachPoller
      <4>2. \A p \in Pollers : p # q => StepsLeft(p)' = StepsLeft(p)
        BY <3>1, ApproachPoller
      <4>3. \A p \in Pollers : StepsLeft(p)' <= StepsLeft(p)
        BY <2>2, <4>1, <4>2
      <4>4. UNCHANGED <<pc, running, sysRunning, sys>>
        BY <3>1, ApproachPoller
      <4>5. QED
        BY <2>1, <2>2, <4>3, <4>4 DEF Stopping, SyslogLeft
    <3>2. ASSUME SyslogStep \/ Datagram PROVE Nearer
      <4>1. UNCHANGED <<pc, running, sysRunning, at, asked>>
        BY <3>2 DEF SyslogStep, EndpointReady, SyslogOver, Datagram
      <4>2. SyslogLeft' <= SyslogLeft
        BY <2>1, <3>2 DEF SyslogStep, EndpointReady, SyslogOver, Datagram, SyslogLeft
      <4>3. \A p \in Pollers : StepsLeft(p)' <= StepsLeft(p)
        BY <2>2, <4>1 DEF StepsLeft
      <4>4. QED
        BY <2>1, <4>1, <4>2, <4>3 DEF Stopping
    <3>3. ASSUME Gone PROVE Nearer
      <4>1. SyslogLeft' = 0 /\ \A p \in Pollers : StepsLeft(p)' = 0
        BY <3>3 DEF Gone, SyslogLeft, StepsLeft
      <4>2. QED
        BY <2>2, <3>3, <4>1 DEF Gone
    <3>4. ASSUME \/ BindRaises \/ Exit \/ Kill
                 \/ \E q \in Pollers : \E R \in SUBSET AllDevices : KilledWriting(q, R)
          PROVE  Nearer
      BY <3>3, <3>4 DEF BindRaises, Exit, Kill, KilledWriting
    <3>5. ASSUME Signal \/ Finish PROVE Nearer
      <4>1. UNCHANGED <<at, asked, sys>>
        BY <3>5 DEF Signal, Finish
      <4>2. (pc' = pc \/ pc' = "done") /\ running' = FALSE /\ sysRunning' = FALSE
        BY <3>5 DEF Signal, Finish, Shutdown
      <4>3. QED
        BY <2>1, <2>2, <4>1, <4>2 DEF Stopping, StepsLeft, SyslogLeft
    <3>6. ~(Boot \/ Bind \/ CreateTasks \/ TasksBegin \/ Ended)
      BY <2>1 DEF Boot, Bind, CreateTasks, TasksBegin, Ended
    <3>7. \/ SyslogStep \/ Datagram \/ Signal \/ Finish \/ BindRaises \/ Exit \/ Kill
          \/ \E q \in Pollers : PollerStep(q)
          \/ \E q \in Pollers : \E R \in SUBSET AllDevices : KilledWriting(q, R)
      BY <3>6, Zenon DEF Next, MainStep
    <3>8. Nearer
      <4> HIDE DEF Nearer
      <4>1. QED
        BY <3>1, <3>2, <3>4, <3>5, <3>7
    <3>9. QED
      BY <3>8
  <2>6. QED
    BY <2>3, <2>4, <2>5 DEF Approaches
<1>2. IInv /\ TasksBegun => (Stopping /\ SyslogLeft = 0 /\ (\A p \in Pollers : StepsLeft(p) = 0) => TasksOver)
  <2> SUFFICES ASSUME IInv, TasksBegun, Stopping, SyslogLeft = 0, \A p \in Pollers : StepsLeft(p) = 0
               PROVE  TasksOver
    OBVIOUS
  <2>1. ASSUME NEW p \in Pollers PROVE at[p] \in {"ended", "raised"}
    <3>1. at[p] \in {"poll", "sleep", "ended", "raised"} /\ TypeOK
      BY DEF IInv, TypeOK, TasksBegun, Stopping
    <3>2. Len(Devices[p]) \in Nat /\ asked[p] \in Nat /\ asked[p] < Len(Devices[p])
      BY <3>1, DeviceTypes DEF TypeOK
    <3>3. StepsLeft(p) = 0
      OBVIOUS
    <3>4. QED
      BY <3>1, <3>2, <3>3 DEF StepsLeft
  <2>2. sys \in {"ended", "raised"}
    BY DEF IInv, TypeOK, TasksBegun, Stopping, SyslogLeft
  <2>3. QED
    BY <2>1, <2>2 DEF TasksOver
<1>3. Init => TasksBegun
  BY DEF Init, TasksBegun
<1>4. QED
  BY <1>1, <1>2, <1>3, IInvCorrect, TasksBegunStep, PTL DEF Spec
=============================================================================
