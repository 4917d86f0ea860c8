----------------------- MODULE TrafficSchedulerProofs -----------------------
(***************************************************************************)
(* Proofs about TrafficScheduler, for any rounds of flows, any assignment  *)
(* of servers and any number of signals.                                   *)
(***************************************************************************)
EXTENDS TrafficScheduler, SequenceTheorems, WellFoundedInduction, TLAPS

\* Where the flows, their generators and the servers can be: what the proofs
\* need of the type invariant.
FlowTypeOK ==
  /\ flow \in [Flows -> {"none", "pending"} \cup Waiting \cup Finished]
  /\ doomed \subseteq {f \in Flows : flow[f] \in Waiting}
  /\ gen \in [Flows -> {"none", "running", "ended", "failed", "stopped"}]
  /\ servers \in Seq(Keys)

LEMMA FlowTypeInit == Init => FlowTypeOK
BY EmptySeq DEF Init, FlowTypeOK

\* An await is no end and no place before the beginning.
LEMMA Statuses ==
  /\ "launch" \in Waiting /\ "settle" \in Waiting /\ "start" \in Waiting /\ "sleep" \in Waiting
  /\ "wait" \in Waiting /\ "stop" \in Waiting
  /\ "completed" \in Finished /\ "failed" \in Finished /\ "raised" \in Finished
  /\ "abandoned" \in Finished /\ "cancelled" \in Finished
  /\ \A w \in Waiting : w \notin Finished /\ w \notin {"none", "pending"}
BY DEF Waiting, Finished

LEMMA LoopHeads == LoopHead \in Waiting
BY Statuses DEF LoopHead

\* StartGenerator puts the flow at an await and starts at most its generator.
LEMMA StartGeneratorEffect ==
  ASSUME FlowTypeOK, NEW f \in Flows, StartGenerator(f)
  PROVE  /\ \E w \in {"sleep", "stop", "start"} :
              /\ flow' = [flow EXCEPT ![f] = w]
              /\ w = "start" <=> f \notin AppFlows
         /\ gen' = gen \/ gen' = [gen EXCEPT ![f] = "running"]
BY DEF StartGenerator, LoopHead

-----------------------------------------------------------------------------
(***************************************************************************)
(* The flows of rounds to come.                                            *)
(***************************************************************************)

\* A flow whose task has not been created has not begun, except for the one that
\* main() runs itself, in whose command no task is created.
NotCreated ==
  /\ round \in Nat
  /\ pc = "init" => round = 0 /\ direct = NoFlow /\ \A f \in Flows : flow[f] = "none"
  /\ cmd # "precursor" =>
       \A n \in DOMAIN Rounds : n > round => \A f \in Rounds[n] : flow[f] = "none"

\* Steps that create nothing keep it.
LEMMA NotCreatedKept ==
  ASSUME NotCreated, UNCHANGED <<cmd, round>>,
         pc' = "init" => pc = "init" /\ direct' = direct,
         \A f \in Flows : flow[f] = "none" => flow'[f] = "none"
  PROVE  NotCreated'
<1>1. \A n \in DOMAIN Rounds : Rounds[n] \subseteq Flows
  BY DEF Flows
<1>2. QED
  BY <1>1 DEF NotCreated

-----------------------------------------------------------------------------
(***************************************************************************)
(* A generator is only started behind its server.                          *)
(***************************************************************************)

\* Only a flow that needs a server launches one, and has done so when it settles;
\* what is recorded as running, in either record, has been launched; a flow whose
\* start is awaited is a process, which needs no server.
ServersLaunched ==
  /\ \A f \in Flows :
       /\ flow[f] \in {"launch", "settle"} => Key[f] # NoServer
       /\ flow[f] = "settle" => Key[f] \in launched
       /\ flow[f] = "start" => f \notin AppFlows
  /\ known \subseteq launched
  /\ \A i \in DOMAIN servers : servers[i] \in launched

ServedIInv == FlowTypeOK /\ ServersLaunched /\ ServedBeforeGenerating

\* A flow that is not cancelled moves to another await or to its end.
LEMMA FlowMoves ==
  ASSUME FlowTypeOK, NEW f \in Flows, f \notin doomed, NEW w \in Waiting \cup Finished,
         flow' = [flow EXCEPT ![f] = w], doomed' = doomed
  PROVE  /\ flow' \in [Flows -> {"none", "pending"} \cup Waiting \cup Finished]
         /\ doomed' \subseteq {g \in Flows : flow'[g] \in Waiting}
         /\ flow'[f] = w /\ \A g \in Flows : g # f => flow'[g] = flow[g]
BY DEF FlowTypeOK

LEMMA ServedInit == Init => ServedIInv
BY FlowTypeInit DEF Init, ServedIInv, ServersLaunched, ServedBeforeGenerating

\* Starting the generator of a flow whose server, if it needs one, is launched.
LEMMA ServedStart ==
  ASSUME ServedIInv, NEW f \in Flows, f \notin doomed, StartGenerator(f), doomed' = doomed,
         Key[f] # NoServer => Key[f] \in launched,
         launched' = launched, servers' = servers, known' \subseteq launched
  PROVE  ServedIInv'
<1>1. PICK w \in {"sleep", "stop", "start"} :
        flow' = [flow EXCEPT ![f] = w] /\ (w = "start" <=> f \notin AppFlows)
  BY StartGeneratorEffect DEF ServedIInv
<1>2. w \in Waiting /\ w \notin {"launch", "settle"}
  BY Statuses
<1>3. /\ flow' \in [Flows -> {"none", "pending"} \cup Waiting \cup Finished]
      /\ doomed' \subseteq {g \in Flows : flow'[g] \in Waiting}
      /\ flow'[f] = w /\ \A g \in Flows : g # f => flow'[g] = flow[g]
  BY <1>1, <1>2, FlowMoves DEF ServedIInv
<1>4. /\ gen' \in [Flows -> {"none", "running", "ended", "failed", "stopped"}]
      /\ \A g \in Flows : g # f => gen'[g] = gen[g]
  BY StartGeneratorEffect DEF ServedIInv, FlowTypeOK
<1>5. FlowTypeOK'
  BY <1>3, <1>4 DEF ServedIInv, FlowTypeOK
<1>6. ServersLaunched'
  BY <1>1, <1>2, <1>3 DEF ServedIInv, ServersLaunched
<1>7. ServedBeforeGenerating'
  BY <1>4 DEF ServedIInv, ServedBeforeGenerating
<1>8. QED
  BY <1>5, <1>6, <1>7 DEF ServedIInv

\* run_flow up to its first suspension.
LEMMA ServedBegin ==
  ASSUME ServedIInv, NEW f \in Flows, f \notin doomed, Begin(f), doomed' = doomed,
         launched' = launched, servers' = servers
  PROVE  ServedIInv'
<1>1. CASE Key[f] = NoServer \/ Key[f] \in known
  BY <1>1, ServedStart DEF Begin, ServedIInv, ServersLaunched
<1>2. CASE Key[f] # NoServer /\ Key[f] \notin known /\ IsKnown(Key[f])
  <2>1. Key[f] \in launched
    BY <1>2 DEF IsKnown, ServedIInv, ServersLaunched
  <2>2. known' \subseteq launched /\ StartGenerator(f)
    BY <1>2, <2>1 DEF Begin, ServedIInv, ServersLaunched
  <2>3. QED
    BY <2>1, <2>2, ServedStart
<1>3. CASE Key[f] # NoServer /\ Key[f] \notin known /\ ~IsKnown(Key[f])
  <2>1. flow' = [flow EXCEPT ![f] = "launch"] /\ UNCHANGED <<gen, known>>
    BY <1>3 DEF Begin
  <2>2. /\ flow' \in [Flows -> {"none", "pending"} \cup Waiting \cup Finished]
        /\ doomed' \subseteq {g \in Flows : flow'[g] \in Waiting}
        /\ flow'[f] = "launch" /\ \A g \in Flows : g # f => flow'[g] = flow[g]
    BY <2>1, FlowMoves, Statuses DEF ServedIInv
  <2>3. QED
    BY <1>3, <2>1, <2>2 DEF ServedIInv, FlowTypeOK, ServersLaunched, ServedBeforeGenerating
<1>4. QED
  BY <1>1, <1>2, <1>3

\* A flow that goes on to an await behind its start, or to its end.
LEMMA ServedMove ==
  ASSUME ServedIInv, NEW f \in Flows, f \notin doomed,
         NEW w \in {"sleep", "wait", "stop"} \cup Finished,
         flow' = [flow EXCEPT ![f] = w], doomed' = doomed,
         gen' = gen \/ (gen' = [gen EXCEPT ![f] = "running"] /\ Key[f] = NoServer),
         UNCHANGED <<launched, servers, known>>
  PROVE  ServedIInv'
<1>1. w \in Waiting \cup Finished /\ w \notin {"launch", "settle", "start"}
  BY DEF Waiting, Finished
<1>2. /\ flow' \in [Flows -> {"none", "pending"} \cup Waiting \cup Finished]
      /\ doomed' \subseteq {g \in Flows : flow'[g] \in Waiting}
      /\ flow'[f] = w /\ \A g \in Flows : g # f => flow'[g] = flow[g]
  BY <1>1, FlowMoves DEF ServedIInv
<1>3. /\ gen' \in [Flows -> {"none", "running", "ended", "failed", "stopped"}]
      /\ \A g \in Flows : gen'[g] = gen[g] \/ Key[g] = NoServer
  BY DEF ServedIInv, FlowTypeOK
<1>4. FlowTypeOK'
  BY <1>2, <1>3 DEF ServedIInv, FlowTypeOK
<1>5. ServersLaunched'
  BY <1>1, <1>2 DEF ServedIInv, ServersLaunched
<1>6. ServedBeforeGenerating'
  BY <1>3 DEF ServedIInv, ServedBeforeGenerating
<1>7. QED
  BY <1>4, <1>5, <1>6 DEF ServedIInv

LEMMA ServedFlow ==
  ASSUME ServedIInv, NEW f \in Flows, FlowStep(f)
  PROVE  ServedIInv'
<1> USE DEF mainVars, flowVars, serverVars
<1>1. CASE FlowBegin(f)
  <2>1. f \notin doomed
    BY <1>1, Statuses DEF FlowBegin, ServedIInv, FlowTypeOK
  <2>2. QED
    BY <1>1, <2>1, ServedBegin DEF FlowBegin
<1>2. CASE ServerSpawned(f)
  <2>1. /\ flow[f] = "launch" /\ f \notin doomed /\ flow' = [flow EXCEPT ![f] = "settle"]
        /\ UNCHANGED <<doomed, gen, known>> /\ launched' = launched \cup {Key[f]}
        /\ servers' \in {servers, Append(servers, Key[f])}
    BY <1>2 DEF ServerSpawned, At
  <2>2. /\ flow' \in [Flows -> {"none", "pending"} \cup Waiting \cup Finished]
        /\ doomed' \subseteq {g \in Flows : flow'[g] \in Waiting}
        /\ flow'[f] = "settle" /\ \A g \in Flows : g # f => flow'[g] = flow[g]
    BY <2>1, FlowMoves, Statuses DEF ServedIInv
  <2>3. Key[f] # NoServer /\ Key[f] \in Keys /\ servers \in Seq(Keys)
    BY <2>1 DEF ServedIInv, ServersLaunched, Keys, FlowTypeOK
  <2>4. servers' \in Seq(Keys) /\ \A i \in DOMAIN servers' : servers'[i] \in launched'
    <3>1. CASE servers' = servers
      BY <2>1, <2>3, <3>1 DEF ServedIInv, ServersLaunched
    <3>2. CASE servers' = Append(servers, Key[f])
      BY <2>1, <2>3, <3>2, AppendProperties, LenProperties DEF ServedIInv, ServersLaunched
    <3>3. QED
      BY <2>1, <3>1, <3>2
  <2>5. FlowTypeOK'
    BY <2>1, <2>2, <2>4 DEF ServedIInv, FlowTypeOK
  <2>6. ServersLaunched' /\ ServedBeforeGenerating'
    BY <2>1, <2>2, <2>3, <2>4 DEF ServedIInv, ServersLaunched, ServedBeforeGenerating
  <2>7. QED
    BY <2>5, <2>6 DEF ServedIInv
<1>3. CASE ServerSettled(f)
  <2>1. flow[f] = "settle" /\ f \notin doomed /\ Key[f] \in launched
    BY <1>3 DEF ServerSettled, At, ServedIInv, ServersLaunched
  <2>2. known' \subseteq launched
    BY <1>3, <2>1 DEF ServerSettled, ServedIInv, ServersLaunched
  <2>3. QED
    BY <1>3, <2>1, <2>2, ServedStart DEF ServerSettled
<1>4. CASE Started(f)
  <2>1. flow[f] = "start" /\ f \notin doomed /\ Key[f] = NoServer
    <3>1. flow[f] = "start" /\ f \notin doomed /\ f \notin AppFlows
      BY <1>4 DEF Started, At, ServedIInv, ServersLaunched
    <3>2. QED
      BY <3>1, SchedulerAssumption
  <2>2. LoopHead \in {"sleep", "wait", "stop"} \cup Finished
    BY DEF LoopHead
  <2>3. flow' = [flow EXCEPT ![f] = LoopHead] /\ gen' = [gen EXCEPT ![f] = "running"]
        /\ UNCHANGED <<doomed, launched, servers, known>>
    BY <1>4 DEF Started
  <2>4. QED
    BY <2>1, <2>2, <2>3, ServedMove
<1>5. CASE LaunchRaises(f) \/ StartFails(f) \/ SleepOver(f) \/ GeneratorOver(f)
           \/ GeneratorRaised(f) \/ StopRaises(f)
  <2>1. f \notin doomed /\ doomed' = doomed /\ gen' = gen
        /\ UNCHANGED <<launched, servers, known>>
    BY <1>5 DEF LaunchRaises, StartFails, SleepOver, GeneratorOver, GeneratorRaised, StopRaises, At
  <2>2. \E w \in {"sleep", "wait", "stop"} \cup Finished : flow' = [flow EXCEPT ![f] = w]
    <3>1. CASE SleepOver(f)
      BY <3>1 DEF SleepOver
    <3>2. CASE LaunchRaises(f) \/ StartFails(f) \/ GeneratorOver(f)
               \/ GeneratorRaised(f) \/ StopRaises(f)
      BY <3>2, Statuses DEF LaunchRaises, StartFails, GeneratorOver, GeneratorRaised, StopRaises
    <3>3. QED
      BY <1>5, <3>1, <3>2
  <2>3. PICK w \in {"sleep", "wait", "stop"} \cup Finished : flow' = [flow EXCEPT ![f] = w]
    BY <2>2
  <2>4. QED
    BY <2>1, <2>3, ServedMove
<1>6. CASE FlowAbandoned(f)
  <2>1. /\ flow' = [flow EXCEPT ![f] = "abandoned"] /\ doomed' = doomed \ {f}
        /\ UNCHANGED <<servers, known>> /\ launched \subseteq launched'
    BY <1>6 DEF FlowAbandoned
  <2>2. /\ gen' \in [Flows -> {"none", "running", "ended", "failed", "stopped"}]
        /\ \A g \in Flows : gen'[g] = gen[g] \/ gen[g] # "none"
    BY <1>6 DEF FlowAbandoned, ServedIInv, FlowTypeOK
  <2>3. /\ flow' \in [Flows -> {"none", "pending"} \cup Waiting \cup Finished]
        /\ doomed' \subseteq {g \in Flows : flow'[g] \in Waiting}
        /\ flow'[f] = "abandoned" /\ \A g \in Flows : g # f => flow'[g] = flow[g]
    BY <2>1, Statuses DEF ServedIInv, FlowTypeOK
  <2>4. FlowTypeOK'
    BY <2>1, <2>2, <2>3 DEF ServedIInv, FlowTypeOK
  <2>5. ServersLaunched'
    BY <2>1, <2>3 DEF ServedIInv, ServersLaunched
  <2>6. ServedBeforeGenerating'
    BY <2>1, <2>2 DEF ServedIInv, ServedBeforeGenerating
  <2>7. QED
    BY <2>4, <2>5, <2>6 DEF ServedIInv
<1>7. QED
  BY <1>1, <1>2, <1>3, <1>4, <1>5, <1>6 DEF FlowStep

\* A dictionary that is kept or cleared has only servers that have been launched.
LEMMA ClearedServers ==
  ASSUME ServedIInv, servers' \in {servers, <<>>}
  PROVE  servers' \in Seq(Keys) /\ \A i \in DOMAIN servers' : servers'[i] \in launched
<1>1. CASE servers' = servers
  BY <1>1 DEF ServedIInv, FlowTypeOK, ServersLaunched
<1>2. CASE servers' = <<>>
  <2>1. servers' \in Seq(Keys) /\ DOMAIN servers' = {}
    BY <1>2, EmptySeq
  <2>2. QED
    BY <2>1
<1>3. QED
  BY <1>1, <1>2

\* A shutdown cancels tasks and may clear the dictionary; it starts nothing.
LEMMA ServedShutdown ==
  ASSUME ServedIInv, CancelTasks, servers' \in {servers, <<>>},
         UNCHANGED <<gen, known, launched>>
  PROVE  ServedIInv'
<1>1. /\ flow' \in [Flows -> {"none", "pending"} \cup Waiting \cup Finished]
      /\ \A f \in Flows : flow'[f] = flow[f] \/ (flow[f] = "pending" /\ flow'[f] = "cancelled")
  BY Statuses DEF CancelTasks, ServedIInv, FlowTypeOK
<1>2. doomed' \subseteq {f \in Flows : flow[f] \in Waiting}
  BY DEF CancelTasks, ServedIInv, FlowTypeOK
<1>3. doomed' \subseteq {f \in Flows : flow'[f] \in Waiting}
  BY <1>1, <1>2, Statuses
<1>4. servers' \in Seq(Keys) /\ \A i \in DOMAIN servers' : servers'[i] \in launched
  BY ClearedServers
<1>5. FlowTypeOK'
  BY <1>1, <1>3, <1>4 DEF ServedIInv, FlowTypeOK
<1>6. ServersLaunched'
  <2>1. \A f \in Flows : flow'[f] \in {"launch", "settle", "start"} => flow'[f] = flow[f]
    BY <1>1
  <2>2. QED
    BY <1>4, <2>1 DEF ServedIInv, ServersLaunched
<1>7. ServedBeforeGenerating'
  BY DEF ServedIInv, ServedBeforeGenerating
<1>8. QED
  BY <1>5, <1>6, <1>7 DEF ServedIInv

\* New tasks are pending.
LEMMA ServedRound ==
  ASSUME ServedIInv, NotCreated, CreateRound, round + 1 \in DOMAIN Rounds,
         cmd # "precursor", round \in Nat
  PROVE  ServedIInv'
<1> USE DEF serverVars
<1>1. \A f \in Rounds[round + 1] : flow[f] = "none"
  BY DEF NotCreated
<1>2. /\ flow' \in [Flows -> {"none", "pending"} \cup Waiting \cup Finished]
      /\ \A f \in Flows : flow'[f] = flow[f] \/ (flow[f] = "none" /\ flow'[f] = "pending")
  BY <1>1 DEF CreateRound, ServedIInv, FlowTypeOK
<1>3. doomed' \subseteq {f \in Flows : flow'[f] \in Waiting}
  BY <1>2, Statuses DEF CreateRound, ServedIInv, FlowTypeOK
<1>4. FlowTypeOK'
  BY <1>2, <1>3 DEF CreateRound, ServedIInv, FlowTypeOK
<1>5. ServersLaunched'
  <2>1. \A f \in Flows : flow'[f] \in {"launch", "settle", "start"} => flow'[f] = flow[f]
    BY <1>2
  <2>2. UNCHANGED <<servers, known, launched>>
    BY DEF CreateRound
  <2>3. QED
    BY <2>1, <2>2 DEF ServedIInv, ServersLaunched
<1>6. ServedBeforeGenerating'
  BY DEF CreateRound, ServedIInv, ServedBeforeGenerating
<1>7. QED
  BY <1>4, <1>5, <1>6 DEF ServedIInv

\* Steps in which flows stay where they are and generators only end.
LEMMA ServedIdle ==
  ASSUME ServedIInv, UNCHANGED <<flow, doomed, known, launched>>,
         servers' \in {servers, <<>>},
         gen' \in [Flows -> {"none", "running", "ended", "failed", "stopped"}],
         \A f \in Flows : gen'[f] # "none" => gen[f] # "none"
  PROVE  ServedIInv'
<1>1. servers' \in Seq(Keys) /\ \A i \in DOMAIN servers' : servers'[i] \in launched
  BY ClearedServers
<1>2. FlowTypeOK'
  BY <1>1 DEF ServedIInv, FlowTypeOK
<1>3. ServersLaunched'
  BY <1>1 DEF ServedIInv, ServersLaunched
<1>4. ServedBeforeGenerating'
  BY DEF ServedIInv, ServedBeforeGenerating
<1>5. QED
  BY <1>2, <1>3, <1>4 DEF ServedIInv

-----------------------------------------------------------------------------
(***************************************************************************)
(* The inductive invariant.                                                *)
(***************************************************************************)

IInv == ServedIInv /\ NotCreated

LEMMA IInvInit == Init => IInv
<1> SUFFICES ASSUME Init PROVE NotCreated
  BY ServedInit DEF IInv
<1>1. \A n \in DOMAIN Rounds : Rounds[n] \subseteq Flows
  BY DEF Flows
<1>2. QED
  BY <1>1 DEF Init, NotCreated

\* A flow's step moves a flow that exists.
LEMMA IInvFlow ==
  ASSUME IInv, NEW f \in Flows, FlowStep(f)
  PROVE  IInv'
<1> USE DEF mainVars
<1>1. UNCHANGED <<cmd, pc, round, direct>>
  BY DEF FlowStep, FlowBegin, ServerSpawned, ServerSettled, LaunchRaises, Started, StartFails,
         SleepOver, GeneratorOver, GeneratorRaised, StopRaises, FlowAbandoned
<1>2. flow[f] # "none"
  <2>1. CASE FlowAbandoned(f)
    BY <2>1, Statuses DEF FlowAbandoned, IInv, ServedIInv, FlowTypeOK
  <2>2. CASE ~FlowAbandoned(f)
    BY <2>2 DEF FlowStep, FlowBegin, ServerSpawned, ServerSettled, LaunchRaises, Started,
                StartFails, SleepOver, GeneratorOver, GeneratorRaised, StopRaises, At
  <2>3. QED
    BY <2>1, <2>2
<1>3. \E w : flow' = [flow EXCEPT ![f] = w]
  <2>1. CASE FlowBegin(f) \/ ServerSettled(f)
    BY <2>1 DEF FlowBegin, ServerSettled, Begin, StartGenerator
  <2>2. CASE ~(FlowBegin(f) \/ ServerSettled(f))
    BY <2>2 DEF FlowStep, ServerSpawned, LaunchRaises, Started,
                StartFails, SleepOver, GeneratorOver, GeneratorRaised, StopRaises, FlowAbandoned
  <2>3. QED
    BY <2>1, <2>2
<1>4. \A g \in Flows : flow[g] = "none" => flow'[g] = "none"
  BY <1>2, <1>3 DEF IInv, ServedIInv, FlowTypeOK
<1>5. QED
  BY <1>1, <1>4, ServedFlow, NotCreatedKept DEF IInv

\* A shutdown, of main() or of a signal.
LEMMA IInvShutdown ==
  ASSUME IInv, NEW s, Shutdown(s), UNCHANGED <<cmd, round, direct>>,
         pc' # "init"
  PROVE  IInv'
<1>1. CancelTasks /\ servers' \in {servers, <<>>} /\ UNCHANGED <<gen, known, launched>>
  BY DEF Shutdown, StopAllFrom
<1>2. \A f \in Flows : flow[f] = "none" => flow'[f] = "none"
  BY <1>1 DEF CancelTasks
<1>3. QED
  BY <1>1, <1>2, ServedShutdown, NotCreatedKept DEF IInv

\* The creation of a round's tasks.
LEMMA IInvRound ==
  ASSUME IInv, CreateRound, round + 1 \in DOMAIN Rounds, cmd # "precursor", pc' # "init"
  PROVE  IInv'
<1>1. ServedIInv'
  BY ServedRound DEF IInv, NotCreated
<1>2. round' \in Nat /\ cmd' = cmd /\ round' = round + 1
  BY DEF CreateRound, IInv, NotCreated
<1>3. ASSUME NEW n \in DOMAIN Rounds, n > round', NEW f \in Rounds[n]
      PROVE  flow'[f] = "none"
  <2>1. n \in Nat
    BY LenProperties, SchedulerAssumption
  <2>2. n # round + 1 /\ n > round
    BY <1>2, <1>3, <2>1 DEF IInv, NotCreated
  <2>3. f \in Flows /\ f \notin Rounds[round + 1] /\ flow[f] = "none"
    BY <1>3, <2>2, SchedulerAssumption DEF Flows, IInv, NotCreated
  <2>4. QED
    BY <2>3 DEF CreateRound
<1>4. QED
  BY <1>1, <1>2, <1>3 DEF IInv, NotCreated

LEMMA FirstRound == 1 \in DOMAIN Rounds /\ Rounds[1] \subseteq Flows
<1>1. Rounds \in Seq(SUBSET Flows) /\ Rounds # <<>>
  BY SchedulerAssumption
<1>2. Len(Rounds) \in Nat \ {0} /\ DOMAIN Rounds = 1..Len(Rounds)
  BY <1>1, EmptySeq, LenProperties
<1>3. QED
  BY <1>2 DEF Flows

LEMMA IInvMain ==
  ASSUME IInv, MainStep \/ Signal
  PROVE  IInv'
<1> USE DEF mainVars, flowVars, serverVars
<1>1. CASE StartBaseline
  <2>1. CreateRound /\ round = 0 /\ cmd # "precursor" /\ pc' # "init"
    BY <1>1 DEF StartBaseline, IInv, NotCreated
  <2>2. QED
    BY <2>1, IInvRound, FirstRound
<1>2. CASE DiurnalRound
  <2>1. CreateRound /\ cmd # "precursor" /\ pc' # "init" /\ round < Len(Rounds)
    BY <1>2 DEF DiurnalRound
  <2>2. round + 1 \in DOMAIN Rounds
    BY <2>1, SchedulerAssumption, LenProperties DEF IInv, NotCreated
  <2>3. QED
    BY <2>1, <2>2, IInvRound
<1>3. CASE MainShutdown
  <2>1. Shutdown(0) /\ UNCHANGED <<cmd, round, direct>> /\ pc' # "init"
    BY <1>3 DEF MainShutdown
  <2>2. QED
    BY <2>1, IInvShutdown
<1>4. CASE StartPrecursor
  <2>1. PICK f \in Rounds[1] : direct' = f /\ Begin(f)
    BY <1>4 DEF StartPrecursor
  <2>2. f \in Flows /\ flow[f] = "none"
    BY <1>4, FirstRound DEF StartPrecursor, IInv, NotCreated
  <2>3. f \notin doomed
    BY <2>2, Statuses DEF IInv, ServedIInv, FlowTypeOK
  <2>4. ServedIInv'
    BY <1>4, <2>1, <2>2, <2>3, ServedBegin DEF StartPrecursor, IInv
  <2>5. NotCreated'
    BY <1>4 DEF StartPrecursor, IInv, NotCreated
  <2>6. QED
    BY <2>4, <2>5 DEF IInv
<1>5. CASE PrecursorRaises
  <2>1. UNCHANGED <<flow, doomed, gen, servers, known, launched, cmd, round>> /\ pc' # "init"
    BY <1>5 DEF PrecursorRaises
  <2>2. ServedIInv'
    BY <2>1, ServedIdle DEF IInv, ServedIInv, FlowTypeOK
  <2>3. QED
    BY <2>1, <2>2, NotCreatedKept DEF IInv
<1>6. CASE Teardown
  <2>1. /\ \A f \in Flows : flow'[f] = IF flow[f] \in Waiting THEN "abandoned" ELSE flow[f]
        /\ flow' \in [Flows -> {"none", "pending"} \cup Waiting \cup Finished]
    BY <1>6, Statuses DEF Teardown, IInv, ServedIInv, FlowTypeOK
  <2>2. /\ gen' \in [Flows -> {"none", "running", "ended", "failed", "stopped"}]
        /\ \A f \in Flows : gen'[f] # "none" => gen[f] # "none"
    BY <1>6 DEF Teardown, IInv, ServedIInv, FlowTypeOK
  <2>3. doomed' = {} /\ UNCHANGED <<servers, known, launched, cmd, round>> /\ pc' # "init"
    BY <1>6 DEF Teardown
  <2>4. FlowTypeOK'
    BY <2>1, <2>2, <2>3 DEF IInv, ServedIInv, FlowTypeOK
  <2>5. ServersLaunched'
    <3>1. \A f \in Flows : flow'[f] \notin {"launch", "settle", "start"}
      BY <2>1, Statuses
    <3>2. QED
      BY <2>3, <3>1 DEF IInv, ServedIInv, ServersLaunched
  <2>6. ServedBeforeGenerating'
    BY <2>2, <2>3 DEF IInv, ServedIInv, ServedBeforeGenerating
  <2>7. \A f \in Flows : flow[f] = "none" => flow'[f] = "none"
    BY <2>1, Statuses
  <2>8. QED
    BY <2>3, <2>4, <2>5, <2>6, <2>7, NotCreatedKept DEF IInv, ServedIInv
<1>7. CASE Signal
  BY <1>7, IInvShutdown DEF Signal
<1>8. QED
  BY <1>1, <1>2, <1>3, <1>4, <1>5, <1>6, <1>7 DEF MainStep, GatherOver, PrecursorOver, DiurnalOver

\* Generators, docker processes, and a shutdown that goes on.
LEMMA IInvRest ==
  ASSUME IInv, Environment \/ (\E s \in Stoppers : StopStep(s)) \/ UNCHANGED vars
  PROVE  IInv'
<1> USE DEF mainVars, flowVars, serverVars
<1>1. /\ UNCHANGED <<flow, doomed, known, launched, cmd, round, direct>>
      /\ servers' \in {servers, <<>>} /\ (pc' = "init" => pc = "init")
  BY DEF Environment, GeneratorEnds, GeneratorFails, GeneratorStopped, DockerExits,
         StopStep, StopResumes, StopKillRaises, LeaveStopAll,
         StopAllFrom, vars
<1>2. gen' = gen \/ \E f \in Flows, e \in {"ended", "failed", "stopped"} :
                      gen' = [gen EXCEPT ![f] = e] /\ gen[f] = "running"
  BY DEF Environment, GeneratorEnds, GeneratorFails, GeneratorStopped, DockerExits,
         StopStep, StopResumes, StopKillRaises, LeaveStopAll, vars
<1>3. /\ gen' \in [Flows -> {"none", "running", "ended", "failed", "stopped"}]
      /\ \A f \in Flows : gen'[f] # "none" => gen[f] # "none"
  BY <1>2 DEF IInv, ServedIInv, FlowTypeOK
<1>4. QED
  BY <1>1, <1>3, ServedIdle, NotCreatedKept DEF IInv

LEMMA IInvStep == IInv /\ [Next]_vars => IInv'
BY IInvFlow, IInvMain, IInvRest DEF Next, Ended

THEOREM IInvCorrect == Spec => []IInv
<1>1. QED
  BY IInvInit, IInvStep, PTL DEF Spec

\* No flow starts its generator before the application server it needs has been
\* launched, however many flows ask for how many servers at once.
THEOREM ServedCorrect == Spec => []ServedBeforeGenerating
<1>1. IInv => ServedBeforeGenerating
  BY DEF IInv, ServedIInv
<1>2. QED
  BY <1>1, IInvCorrect, PTL

-----------------------------------------------------------------------------
(***************************************************************************)
(* The flows implement the tasks of FlowTasks.                             *)
(***************************************************************************)

\* The refinement mapping, of one flow.
LifeOf(f) ==
  IF f \in doomed THEN "cancelling"
  ELSE IF flow[f] \in Waiting THEN "active"
  ELSE IF flow[f] = "raised" THEN "failed" ELSE flow[f]

Life == [f \in Flows |-> LifeOf(f)]

\* What a step does to the lives of flows is what one of FlowTasks' actions does.
LifeStep ==
  \/ Life' = Life
  \/ \E f \in Flows :
       \/ Life[f] \in {"none", "pending"} /\ Life' = [Life EXCEPT ![f] = "active"]
       \/ /\ Life[f] = "active"
          /\ \E e \in {"completed", "failed"} : Life' = [Life EXCEPT ![f] = e]
  \/ \E T \in SUBSET Flows :
       \/ /\ \A f \in T : Life[f] = "none"
          /\ Life' = [f \in Flows |-> IF f \in T THEN "pending" ELSE Life[f]]
       \/ Life' = [f \in Flows |->
                     IF f \in T /\ Life[f] = "pending" THEN "cancelled"
                     ELSE IF f \in T /\ Life[f] = "active" THEN "cancelling" ELSE Life[f]]
       \/ /\ \A f \in T : Life[f] \in {"active", "cancelling"}
          /\ Life' = [f \in Flows |-> IF f \in T THEN "abandoned" ELSE Life[f]]

\* A step that moves the flow f only changes the life of f.
LEMMA LifeMoves ==
  ASSUME IInv, NEW f \in Flows, NEW w, flow' = [flow EXCEPT ![f] = w],
         doomed' \in {doomed, doomed \ {f}}
  PROVE  /\ Life' = [Life EXCEPT ![f] = LifeOf(f)']
         /\ LifeOf(f)' = IF f \in doomed' THEN "cancelling"
                         ELSE IF w \in Waiting THEN "active"
                         ELSE IF w = "raised" THEN "failed" ELSE w
<1>1. flow'[f] = w /\ \A g \in Flows : g # f => flow'[g] = flow[g]
  BY DEF IInv, ServedIInv, FlowTypeOK
<1>2. \A g \in Flows : g # f => LifeOf(g)' = LifeOf(g)
  BY <1>1 DEF LifeOf
<1>3. Life' = [Life EXCEPT ![f] = LifeOf(f)']
  BY <1>2 DEF Life
<1>4. QED
  BY <1>1, <1>3 DEF LifeOf

LEMMA LifeFlow ==
  ASSUME IInv, NEW f \in Flows, FlowStep(f)
  PROVE  LifeStep
<1> USE DEF mainVars, flowVars, serverVars
<1>0. /\ Life[f] = LifeOf(f)
      /\ \A g \in Flows : g \in doomed => flow[g] \in Waiting
  BY DEF Life, IInv, ServedIInv, FlowTypeOK
<1>1. CASE FlowBegin(f)
  <2>1. flow[f] = "pending" /\ f \notin doomed /\ doomed' = doomed
    BY <1>0, <1>1, Statuses DEF FlowBegin
  <2>2. \E w \in {"launch", "start", "sleep", "stop"} : flow' = [flow EXCEPT ![f] = w]
    BY <1>1 DEF FlowBegin, Begin, StartGenerator, LoopHead
  <2>3. PICK w \in Waiting : flow' = [flow EXCEPT ![f] = w]
    BY <2>2, Statuses
  <2>4. Life' = [Life EXCEPT ![f] = "active"]
    BY <2>1, <2>3, LifeMoves
  <2>5. Life[f] = "pending"
    BY <1>0, <2>1, Statuses DEF LifeOf
  <2>6. QED
    BY <2>4, <2>5 DEF LifeStep
<1>2. CASE ServerSpawned(f) \/ ServerSettled(f) \/ Started(f) \/ SleepOver(f)
  <2>1. flow[f] \in Waiting /\ f \notin doomed /\ doomed' = doomed
    BY <1>2, Statuses DEF ServerSpawned, ServerSettled, Started, SleepOver, At
  <2>2. \E w \in {"settle", "start", "sleep", "wait", "stop"} : flow' = [flow EXCEPT ![f] = w]
    BY <1>2 DEF ServerSpawned, ServerSettled, Started, SleepOver, StartGenerator, LoopHead
  <2>3. PICK w \in Waiting : flow' = [flow EXCEPT ![f] = w]
    BY <2>2, Statuses
  <2>4. Life' = [Life EXCEPT ![f] = "active"] /\ Life[f] = "active"
    BY <1>0, <2>1, <2>3, LifeMoves DEF LifeOf
  <2>5. Life' = Life
    BY <2>4 DEF Life
  <2>6. QED
    BY <2>5 DEF LifeStep
<1>3. CASE LaunchRaises(f) \/ StartFails(f) \/ GeneratorOver(f)
           \/ GeneratorRaised(f) \/ StopRaises(f)
  <2>1. flow[f] \in Waiting /\ f \notin doomed /\ doomed' = doomed
    BY <1>3, Statuses DEF LaunchRaises, StartFails, GeneratorOver, GeneratorRaised, StopRaises, At
  <2>2. PICK w \in {"raised", "failed", "completed"} : flow' = [flow EXCEPT ![f] = w]
    BY <1>3 DEF LaunchRaises, StartFails, GeneratorOver, GeneratorRaised, StopRaises
  <2>3. w \notin Waiting
    BY <2>2, Statuses
  <2>4. \E e \in {"completed", "failed"} : Life' = [Life EXCEPT ![f] = e]
    BY <2>1, <2>2, <2>3, LifeMoves
  <2>5. Life[f] = "active"
    BY <1>0, <2>1 DEF LifeOf
  <2>6. QED
    BY <2>4, <2>5 DEF LifeStep
<1>4. CASE FlowAbandoned(f)
  <2>1. f \in doomed /\ doomed' = doomed \ {f} /\ flow' = [flow EXCEPT ![f] = "abandoned"]
    BY <1>4 DEF FlowAbandoned
  <2>2. "abandoned" \notin Waiting
    BY Statuses
  <2>3. Life' = [Life EXCEPT ![f] = "abandoned"]
    BY <2>1, <2>2, LifeMoves
  <2>4. Life[f] = "cancelling"
    BY <1>0, <2>1 DEF LifeOf
  <2>5. Life' = [g \in Flows |-> IF g \in {f} THEN "abandoned" ELSE Life[g]]
    BY <2>3 DEF Life
  <2>6. QED
    BY <2>4, <2>5 DEF LifeStep
<1>5. QED
  BY <1>1, <1>2, <1>3, <1>4 DEF FlowStep

\* A shutdown cancels every flow but main()'s own.
LEMMA LifeCancel ==
  ASSUME IInv, CancelTasks
  PROVE  LifeStep
<1> DEFINE T == Flows \ {direct}
<1>1. ASSUME NEW f \in Flows
      PROVE  LifeOf(f)' = IF f \in T /\ LifeOf(f) = "pending" THEN "cancelled"
                          ELSE IF f \in T /\ LifeOf(f) = "active" THEN "cancelling"
                          ELSE LifeOf(f)
  <2>1. /\ flow'[f] = IF f # direct /\ flow[f] = "pending" THEN "cancelled" ELSE flow[f]
        /\ f \in doomed' <=> f \in doomed \/ (f # direct /\ flow[f] \in Waiting)
        /\ f \in doomed => flow[f] \in Waiting
    BY DEF CancelTasks, IInv, ServedIInv, FlowTypeOK
  <2>2. CASE f \in doomed
    BY <2>1, <2>2 DEF LifeOf
  <2>3. CASE f \notin doomed /\ flow[f] \in Waiting
    BY <2>1, <2>3, Statuses DEF LifeOf
  <2>4. CASE f \notin doomed /\ flow[f] \notin Waiting
    <3>1. LifeOf(f) = IF flow[f] = "raised" THEN "failed" ELSE flow[f]
      BY <2>4 DEF LifeOf
    <3>2. flow[f] # "active" /\ f \notin doomed' /\ flow'[f] \notin Waiting
      BY <2>1, <2>4, Statuses DEF IInv, ServedIInv, FlowTypeOK, Finished
    <3>3. LifeOf(f)' = IF flow'[f] = "raised" THEN "failed" ELSE flow'[f]
      BY <3>2 DEF LifeOf
    <3>4. QED
      BY <2>1, <3>1, <3>2, <3>3
  <2>5. QED
    BY <2>2, <2>3, <2>4
<1>2. Life' = [f \in Flows |->
                IF f \in T /\ Life[f] = "pending" THEN "cancelled"
                ELSE IF f \in T /\ Life[f] = "active" THEN "cancelling" ELSE Life[f]]
  BY <1>1 DEF Life
<1>3. T \in SUBSET Flows
  OBVIOUS
<1>4. QED
  BY <1>2, <1>3 DEF LifeStep

\* The tasks of a new round.
LEMMA LifeRound ==
  ASSUME IInv, CreateRound, round + 1 \in DOMAIN Rounds, cmd # "precursor"
  PROVE  LifeStep
<1> DEFINE T == Rounds[round + 1]
<1>1. T \in SUBSET Flows /\ \A f \in T : flow[f] = "none"
  BY DEF Flows, IInv, NotCreated
<1>2. /\ \A f \in T : LifeOf(f) = "none" /\ LifeOf(f)' = "pending"
      /\ \A f \in Flows \ T : LifeOf(f)' = LifeOf(f)
  <2>1. doomed' = doomed /\ \A f \in Flows : flow'[f] = IF f \in T THEN "pending" ELSE flow[f]
    BY DEF CreateRound
  <2>2. \A f \in T : f \notin doomed
    BY <1>1, Statuses DEF IInv, ServedIInv, FlowTypeOK
  <2>3. QED
    BY <1>1, <2>1, <2>2, Statuses DEF LifeOf
<1>3. Life' = [f \in Flows |-> IF f \in T THEN "pending" ELSE Life[f]]
  BY <1>1, <1>2 DEF Life
<1>4. \A f \in T : Life[f] = "none"
  BY <1>1, <1>2 DEF Life
<1>5. QED
  BY <1>1, <1>3, <1>4 DEF LifeStep

LEMMA LifeMain ==
  ASSUME IInv, MainStep \/ Signal
  PROVE  LifeStep
<1> USE DEF mainVars, flowVars, serverVars
<1>1. CASE StartBaseline
  <2>1. CreateRound /\ round = 0 /\ cmd # "precursor"
    BY <1>1 DEF StartBaseline, IInv, NotCreated
  <2>2. QED
    BY <2>1, LifeRound, FirstRound
<1>2. CASE DiurnalRound
  <2>1. CreateRound /\ cmd # "precursor" /\ round < Len(Rounds)
    BY <1>2 DEF DiurnalRound
  <2>2. round + 1 \in DOMAIN Rounds
    BY <2>1, SchedulerAssumption, LenProperties DEF IInv, NotCreated
  <2>3. QED
    BY <2>1, <2>2, LifeRound
<1>3. CASE MainShutdown \/ Signal
  BY <1>3, LifeCancel DEF MainShutdown, Signal, Shutdown
<1>4. CASE StartPrecursor
  <2>1. PICK f \in Rounds[1] : direct' = f /\ Begin(f)
    BY <1>4 DEF StartPrecursor
  <2>2. f \in Flows /\ flow[f] = "none" /\ doomed' = doomed
    BY <1>4, FirstRound DEF StartPrecursor, IInv, NotCreated
  <2>3. f \notin doomed
    BY <2>2, Statuses DEF IInv, ServedIInv, FlowTypeOK
  <2>4. \E w \in {"launch", "start", "sleep", "stop"} : flow' = [flow EXCEPT ![f] = w]
    BY <2>1 DEF Begin, StartGenerator, LoopHead
  <2>5. PICK w \in Waiting : flow' = [flow EXCEPT ![f] = w]
    BY <2>4, Statuses
  <2>6. Life' = [Life EXCEPT ![f] = "active"]
    BY <2>2, <2>3, <2>5, LifeMoves
  <2>7. Life[f] = "none"
    BY <2>2, <2>3, Statuses DEF Life, LifeOf
  <2>8. QED
    BY <2>2, <2>6, <2>7 DEF LifeStep
<1>5. CASE PrecursorRaises
  BY <1>5 DEF PrecursorRaises, LifeStep, Life, LifeOf
<1>6. CASE Teardown
  <2> DEFINE T == {f \in Flows : flow[f] \in Waiting}
  <2>1. ASSUME NEW f \in Flows
        PROVE  LifeOf(f)' = IF f \in T THEN "abandoned" ELSE LifeOf(f)
    <3>1. /\ flow'[f] = IF flow[f] \in Waiting THEN "abandoned" ELSE flow[f]
          /\ f \notin doomed' /\ (f \in doomed => flow[f] \in Waiting)
      BY <1>6 DEF Teardown, IInv, ServedIInv, FlowTypeOK
    <3>2. QED
      BY <3>1, Statuses DEF LifeOf
  <2>2. Life' = [f \in Flows |-> IF f \in T THEN "abandoned" ELSE Life[f]]
    BY <2>1 DEF Life
  <2>3. T \in SUBSET Flows /\ \A f \in T : Life[f] \in {"active", "cancelling"}
    BY DEF Life, LifeOf
  <2>4. QED
    BY <2>2, <2>3 DEF LifeStep
<1>7. QED
  BY <1>1, <1>2, <1>3, <1>4, <1>5, <1>6 DEF MainStep, GatherOver, PrecursorOver, DiurnalOver

LEMMA LifeNext == IInv /\ [Next]_vars => LifeStep
<1> SUFFICES ASSUME IInv, [Next]_vars PROVE LifeStep
  OBVIOUS
<1> USE DEF mainVars, flowVars, serverVars
<1>1. CASE Environment \/ (\E s \in Stoppers : StopStep(s)) \/ UNCHANGED vars
  <2>1. UNCHANGED <<flow, doomed>>
    BY <1>1 DEF Environment, GeneratorEnds, GeneratorFails, GeneratorStopped, DockerExits,
                StopStep, StopResumes, StopKillRaises, LeaveStopAll, vars
  <2>2. QED
    BY <2>1 DEF LifeStep, Life, LifeOf
<1>2. QED
  BY <1>1, LifeFlow, LifeMain DEF Next, Ended

\* LifeStep is a step of FlowTasks under the mapping.
LEMMA LifeRefines == LifeStep => [Tasks!Next]_Life
BY DEF LifeStep, Life, LifeOf, Tasks!Next, Tasks!Begin, Tasks!End, Tasks!Create, Tasks!Cancel,
       Tasks!Abandon

\* The flows of any run are the tasks of FlowTasks: a cancelled flow never
\* completes, one that has not begun is cancelled without a trace, ends are final.
THEOREM FlowLivesCorrect == Spec => FlowLives
<1>1. Init => Tasks!Init
  BY Statuses DEF Init, Tasks!Init
<1>2. IInv /\ [Next]_vars => [Tasks!Next]_Life
  BY LifeNext, LifeRefines
<1>3. QED
  BY <1>1, <1>2, IInvCorrect, PTL DEF Spec, FlowLives, Tasks!Spec, Life, LifeOf

-----------------------------------------------------------------------------
(***************************************************************************)
(* What a completed row stands for.                                        *)
(***************************************************************************)

RowsTypeOK == rows \in [Flows -> SUBSET {"started", "completed"}]

\* A flow that main() does not run itself never stops its generator: it is cancelled in
\* the step that sets running to false, and stopped generators are of flows that have
\* been abandoned, or failed.  A flow has no generator before it starts one, and it
\* completes after its generator.
FlowRuns(f) ==
  /\ f # direct =>
       /\ flow[f] # "stop"
       /\ running \/ f \in doomed \/ flow[f] \in {"none"} \cup Finished
       /\ gen[f] = "stopped" => flow[f] \in Finished \ {"completed"}
  /\ flow[f] \in {"none", "pending", "launch", "settle", "start", "cancelled"} => gen[f] = "none"
  /\ flow[f] = "completed" => gen[f] \in {"ended", "stopped"}
  /\ "completed" \in rows[f] => flow[f] = "completed"

RunsInv ==
  /\ IInv /\ RowsTypeOK
  /\ pc = "init" => running
  /\ \A f \in Flows : FlowRuns(f)

LEMMA RunsInit == Init => RunsInv
BY IInvInit DEF Init, RunsInv, RowsTypeOK, FlowRuns

\* A flow about which nothing changes.
LEMMA RunsKept ==
  ASSUME NEW f \in Flows, FlowRuns(f), running' = running, direct' = direct,
         flow'[f] = flow[f], gen'[f] = gen[f], rows'[f] = rows[f], f \in doomed => f \in doomed'
  PROVE  FlowRuns(f)'
BY DEF FlowRuns

\* run_flow up to its first suspension, in a task only while running.
LEMMA RunsBegin ==
  ASSUME IInv, RowsTypeOK, NEW f \in Flows, FlowRuns(f), f \notin doomed,
         flow[f] \in {"none", "pending"}, Begin(f), running' = running,
         f = direct' \/ running
  PROVE  FlowRuns(f)' /\ RowsTypeOK'
<1>1. gen[f] = "none" /\ "completed" \notin rows[f]
  BY Statuses DEF FlowRuns
<1>2. /\ rows' = [rows EXCEPT ![f] = @ \cup {"started"}] /\ rows'[f] = rows[f] \cup {"started"}
      /\ RowsTypeOK'
  BY DEF Begin, RowsTypeOK
<1>3. \/ flow' = [flow EXCEPT ![f] = "launch"] /\ gen' = gen
      \/ flow' = [flow EXCEPT ![f] = "start"] /\ gen' = gen
      \/ flow' = [flow EXCEPT ![f] = LoopHead] /\ gen' = [gen EXCEPT ![f] = "running"]
  BY DEF Begin, StartGenerator
<1>4. \/ flow'[f] \in {"launch", "start"} /\ gen'[f] = "none"
      \/ flow'[f] = LoopHead /\ gen'[f] = "running"
  BY <1>1, <1>3 DEF IInv, ServedIInv, FlowTypeOK
<1>5. LoopHead \in {"sleep", "stop"} /\ (running => LoopHead = "sleep")
  BY DEF LoopHead
<1>6. QED
  BY <1>1, <1>2, <1>4, <1>5 DEF FlowRuns

LEMMA RunsFlow ==
  ASSUME RunsInv, NEW f \in Flows, FlowStep(f)
  PROVE  RowsTypeOK' /\ \A g \in Flows : FlowRuns(g)'
<1> USE DEF mainVars, RunsInv, IInv, ServedIInv, FlowTypeOK
<1>1. UNCHANGED <<pc, direct, running>>
  BY DEF FlowStep, FlowBegin, ServerSpawned, ServerSettled, LaunchRaises, Started, StartFails,
         SleepOver, GeneratorOver, GeneratorRaised, StopRaises, FlowAbandoned
<1>2. ASSUME NEW g \in Flows, g # f PROVE FlowRuns(g)'
  <2>1. CASE FlowBegin(f) \/ ServerSettled(f)
    BY <1>1, <1>2, <2>1, RunsKept DEF FlowBegin, ServerSettled, Begin, StartGenerator, RowsTypeOK
  <2>2. CASE ~(FlowBegin(f) \/ ServerSettled(f))
    BY <1>1, <1>2, <2>2, RunsKept
    DEF FlowStep, ServerSpawned, LaunchRaises, Started, StartFails, SleepOver, GeneratorOver,
        GeneratorRaised, StopRaises, FlowAbandoned, RowsTypeOK
  <2>3. QED
    BY <2>1, <2>2
<1>3. ASSUME f \notin doomed, flow[f] \in {"pending"} \cup Waiting PROVE f = direct \/ running
  BY <1>3, Statuses DEF FlowRuns, Finished
<1>4. CASE FlowBegin(f)
  <2>1. flow[f] = "pending" /\ f \notin doomed /\ Begin(f)
    BY <1>4, Statuses DEF FlowBegin
  <2>2. QED
    BY <1>1, <1>2, <1>3, <2>1, RunsBegin
<1>5. CASE ServerSpawned(f) \/ LaunchRaises(f) \/ StartFails(f)
  <2>1. flow[f] \in {"launch", "start"} /\ f \notin doomed /\ UNCHANGED <<gen, rows>>
    BY <1>5 DEF ServerSpawned, LaunchRaises, StartFails, At
  <2>2. flow'[f] \in {"settle", "raised", "failed"}
    BY <1>5 DEF ServerSpawned, LaunchRaises, StartFails
  <2>3. FlowRuns(f)'
    BY <1>1, <1>3, <2>1, <2>2, Statuses DEF FlowRuns
  <2>4. QED
    BY <1>2, <2>1, <2>3 DEF RowsTypeOK
<1>6. CASE ServerSettled(f) \/ Started(f)
  <2>1. flow[f] \in {"settle", "start"} /\ f \notin doomed /\ rows' = rows
    BY <1>6 DEF ServerSettled, Started, At
  <2>2. \/ flow'[f] = "start" /\ gen'[f] = gen[f]
        \/ flow'[f] = LoopHead /\ gen'[f] = "running"
    BY <1>6 DEF ServerSettled, Started, StartGenerator
  <2>3. LoopHead \in {"sleep", "stop"} /\ (running => LoopHead = "sleep")
    BY DEF LoopHead
  <2>4. FlowRuns(f)'
    BY <1>1, <1>3, <2>1, <2>2, <2>3, Statuses DEF FlowRuns
  <2>5. QED
    BY <1>2, <2>1, <2>4 DEF RowsTypeOK
<1>7. CASE SleepOver(f)
  <2>1. flow[f] = "sleep" /\ f \notin doomed /\ UNCHANGED <<gen, rows>>
    BY <1>7 DEF SleepOver, At
  <2>2. flow'[f] = IF running THEN "wait" ELSE "stop"
    BY <1>7 DEF SleepOver
  <2>3. FlowRuns(f)'
    BY <1>1, <1>3, <2>1, <2>2, Statuses DEF FlowRuns
  <2>4. QED
    BY <1>2, <2>1, <2>3 DEF RowsTypeOK
<1>8. CASE GeneratorOver(f) \/ GeneratorRaised(f) \/ StopRaises(f)
  <2>1. flow[f] \in {"wait", "stop"} /\ f \notin doomed /\ gen' = gen
        /\ (f # direct => gen[f] # "stopped")
    BY <1>8, Statuses DEF GeneratorOver, GeneratorRaised, StopRaises, At, FlowRuns
  <2>2. \/ flow'[f] = "completed" /\ gen[f] \in {"ended", "stopped"}
           /\ rows' = [rows EXCEPT ![f] = @ \cup {"completed"}]
        \/ flow'[f] \in {"failed", "raised"} /\ rows' = rows
    BY <1>8 DEF GeneratorOver, GeneratorRaised, StopRaises
  <2>3. FlowRuns(f)'
    BY <1>1, <1>3, <2>1, <2>2, Statuses DEF FlowRuns
  <2>4. QED
    BY <1>2, <2>2, <2>3 DEF RowsTypeOK
<1>9. CASE FlowAbandoned(f)
  <2>1. flow[f] \in Waiting /\ flow'[f] = "abandoned" /\ rows' = rows
    BY <1>9 DEF FlowAbandoned
  <2>2. FlowRuns(f)'
    BY <1>1, <2>1, Statuses DEF FlowRuns
  <2>3. QED
    BY <1>2, <2>1, <2>2 DEF RowsTypeOK
<1>10. QED
  BY <1>4, <1>5, <1>6, <1>7, <1>8, <1>9 DEF FlowStep

\* A shutdown leaves no flow but main()'s own running.
LEMMA RunsShutdown ==
  ASSUME RunsInv, CancelTasks, running' = FALSE, UNCHANGED <<gen, rows, direct>>
  PROVE  RowsTypeOK' /\ \A f \in Flows : FlowRuns(f)'
<1> USE DEF RunsInv, IInv, ServedIInv, FlowTypeOK
<1>1. ASSUME NEW f \in Flows PROVE FlowRuns(f)'
  <2>1. /\ flow'[f] = IF f # direct /\ flow[f] = "pending" THEN "cancelled" ELSE flow[f]
        /\ f \in doomed' <=> f \in doomed \/ (f # direct /\ flow[f] \in Waiting)
        /\ flow[f] \in {"none", "pending"} \cup Waiting \cup Finished
    BY DEF CancelTasks
  <2>2. QED
    BY <2>1, Statuses DEF FlowRuns
<1>2. QED
  BY <1>1 DEF RowsTypeOK

LEMMA RunsRound ==
  ASSUME RunsInv, CreateRound, round + 1 \in DOMAIN Rounds, cmd # "precursor", running
  PROVE  RowsTypeOK' /\ \A f \in Flows : FlowRuns(f)'
<1> USE DEF RunsInv, IInv, ServedIInv, FlowTypeOK
<1>1. UNCHANGED <<direct, running, doomed, gen, rows>>
  BY DEF CreateRound
<1>2. ASSUME NEW f \in Flows PROVE FlowRuns(f)'
  <2>1. CASE f \in Rounds[round + 1]
    <3>1. flow[f] = "none" /\ flow'[f] = "pending"
      BY <2>1 DEF CreateRound, NotCreated
    <3>2. QED
      BY <1>1, <3>1, Statuses DEF FlowRuns
  <2>2. CASE f \notin Rounds[round + 1]
    BY <1>1, <2>2, RunsKept DEF CreateRound
  <2>3. QED
    BY <2>1, <2>2
<1>3. QED
  BY <1>1, <1>2 DEF RowsTypeOK

LEMMA RunsMain ==
  ASSUME RunsInv, MainStep \/ Signal
  PROVE  RowsTypeOK' /\ (pc' = "init" => running') /\ \A f \in Flows : FlowRuns(f)'
<1> USE DEF mainVars, flowVars
<1>1. CASE StartBaseline
  <2>1. CreateRound /\ round + 1 \in DOMAIN Rounds /\ cmd # "precursor" /\ running /\ pc' # "init"
    BY <1>1, FirstRound DEF StartBaseline, RunsInv, IInv, NotCreated
  <2>2. QED
    BY <2>1, RunsRound
<1>2. CASE DiurnalRound
  <2>1. CreateRound /\ cmd # "precursor" /\ round < Len(Rounds) /\ running /\ pc' # "init"
    BY <1>2 DEF DiurnalRound
  <2>2. round + 1 \in DOMAIN Rounds
    BY <2>1, SchedulerAssumption, LenProperties DEF RunsInv, IInv, NotCreated
  <2>3. QED
    BY <2>1, <2>2, RunsRound
<1>3. CASE MainShutdown \/ Signal
  <2>1. CancelTasks /\ running' = FALSE /\ UNCHANGED <<gen, rows, direct>> /\ pc' # "init"
    BY <1>3 DEF MainShutdown, Signal, Shutdown
  <2>2. QED
    BY <2>1, RunsShutdown
<1>4. CASE StartPrecursor
  <2>1. PICK f \in Rounds[1] : direct' = f /\ Begin(f)
    BY <1>4 DEF StartPrecursor
  <2>2. /\ f \in Flows /\ flow[f] = "none" /\ UNCHANGED <<doomed, running>> /\ pc' # "init"
        /\ running /\ direct = NoFlow
    BY <1>4, FirstRound DEF StartPrecursor, RunsInv, IInv, NotCreated
  <2>3. f \notin doomed
    BY <2>2, Statuses DEF RunsInv, IInv, ServedIInv, FlowTypeOK
  <2>4. FlowRuns(f)' /\ RowsTypeOK'
    BY <2>1, <2>2, <2>3, RunsBegin DEF RunsInv
  <2>5. ASSUME NEW g \in Flows, g # f PROVE FlowRuns(g)'
    <3>1. flow'[g] = flow[g] /\ gen'[g] = gen[g] /\ rows'[g] = rows[g]
      BY <2>1, <2>5 DEF Begin, StartGenerator, RunsInv, IInv, ServedIInv, FlowTypeOK, RowsTypeOK
    <3>2. g # direct /\ FlowRuns(g)
      BY <2>2, SchedulerAssumption DEF RunsInv
    <3>3. QED
      BY <2>2, <3>1, <3>2 DEF FlowRuns
  <2>6. QED
    BY <2>2, <2>4, <2>5
<1>5. CASE PrecursorRaises
  BY <1>5, RunsKept DEF PrecursorRaises, RunsInv, RowsTypeOK
<1>6. CASE Teardown
  <2>1. ASSUME NEW f \in Flows PROVE FlowRuns(f)'
    <3>1. /\ flow'[f] = IF flow[f] \in Waiting THEN "abandoned" ELSE flow[f]
          /\ gen'[f] = IF f \in AppFlows /\ gen[f] = "running" THEN "stopped" ELSE gen[f]
          /\ UNCHANGED <<direct, running, rows>> /\ flow[f] \in {"none", "pending"} \cup Waiting \cup Finished
          /\ f \in doomed => flow[f] \in Waiting
      BY <1>6 DEF Teardown, RunsInv, IInv, ServedIInv, FlowTypeOK
    <3>2. QED
      BY <3>1, Statuses DEF FlowRuns, RunsInv
  <2>2. QED
    BY <1>6, <2>1 DEF Teardown, RunsInv, RowsTypeOK
<1>7. QED
  BY <1>1, <1>2, <1>3, <1>4, <1>5, <1>6 DEF MainStep, GatherOver, PrecursorOver, DiurnalOver

LEMMA RunsRest ==
  ASSUME RunsInv, Environment \/ (\E s \in Stoppers : StopStep(s)) \/ UNCHANGED vars
  PROVE  RowsTypeOK' /\ (pc' = "init" => running') /\ \A f \in Flows : FlowRuns(f)'
<1> USE DEF mainVars, flowVars, serverVars, RunsInv, IInv, ServedIInv, FlowTypeOK
<1>1. UNCHANGED <<flow, doomed, rows, running, direct>> /\ (pc' = "init" => pc = "init")
  BY DEF Environment, GeneratorEnds, GeneratorFails, GeneratorStopped, DockerExits,
         StopStep, StopResumes, StopKillRaises, LeaveStopAll, vars
<1>2. \/ gen' = gen
      \/ \E f \in Flows, e \in {"ended", "failed"} : gen' = [gen EXCEPT ![f] = e] /\ gen[f] = "running"
      \/ \E f \in Flows : gen' = [gen EXCEPT ![f] = "stopped"] /\ gen[f] = "running" /\ flow[f] = "stop"
  BY DEF Environment, GeneratorEnds, GeneratorFails, GeneratorStopped, DockerExits,
         StopStep, StopResumes, StopKillRaises, LeaveStopAll, vars
<1>3. ASSUME NEW g \in Flows PROVE FlowRuns(g)'
  <2>1. \/ gen'[g] = gen[g]
        \/ gen[g] = "running" /\ gen'[g] \in {"ended", "failed"}
        \/ gen[g] = "running" /\ gen'[g] = "stopped" /\ flow[g] = "stop"
    BY <1>2
  <2>2. QED
    BY <1>1, <2>1 DEF FlowRuns
<1>4. QED
  BY <1>1, <1>3 DEF RowsTypeOK

LEMMA RunsStep == RunsInv /\ [Next]_vars => RunsInv'
<1> SUFFICES ASSUME RunsInv, [Next]_vars
             PROVE  RowsTypeOK' /\ (pc' = "init" => running') /\ \A f \in Flows : FlowRuns(f)'
  BY IInvStep DEF RunsInv
<1>1. ASSUME NEW f \in Flows, FlowStep(f) PROVE UNCHANGED <<pc, running>>
  BY <1>1 DEF FlowStep, FlowBegin, ServerSpawned, ServerSettled, LaunchRaises, Started, StartFails,
         SleepOver, GeneratorOver, GeneratorRaised, StopRaises, FlowAbandoned, mainVars
<1>2. QED
  BY <1>1, RunsFlow, RunsMain, RunsRest DEF Next, Ended, RunsInv

\* No flow gets its completed row for a generator that was stopped or still runs, but for
\* the one main() runs itself, whenever the shutdowns come.
THEOREM CompletedCorrect == Spec => []CompletedRanItsCourse
<1>1. RunsInv => CompletedRanItsCourse
  <2> SUFFICES ASSUME RunsInv, NEW f \in Flows, "completed" \in rows[f]
               PROVE  gen[f] = "ended" \/ (f = direct /\ gen[f] = "stopped")
    BY DEF CompletedRanItsCourse
  <2> QED
    BY DEF RunsInv, FlowRuns
<1>2. QED
  BY <1>1, RunsInit, RunsStep, PTL DEF Spec

\* Every step starts, ends or stops generators as GeneratorLife has it.
LEMMA GeneratorStep ==
  ASSUME RunsInv, [Next]_vars, NEW f \in Flows
  PROVE  \/ gen'[f] = gen[f]
         \/ gen[f] = "none" /\ gen'[f] = "running"
         \/ gen[f] = "running" /\ gen'[f] \in {"ended", "failed"}
         \/ /\ gen[f] = "running" /\ gen'[f] = "stopped"
            /\ \/ flow[f] = "stop"
               \/ f \in AppFlows /\ f \in doomed /\ flow[f] = "wait"
               \/ f \in AppFlows /\ pc \in {"exit", "crashed"}
<1> USE DEF mainVars, flowVars, serverVars, RunsInv, IInv, ServedIInv, FlowTypeOK
<1>1. ASSUME NEW g \in Flows, Begin(g), flow[g] \in {"none", "pending"}
      PROVE  gen'[f] = gen[f] \/ (gen[f] = "none" /\ gen'[f] = "running")
  <2>1. gen[g] = "none"
    BY <1>1 DEF FlowRuns
  <2>2. QED
    BY <1>1, <2>1 DEF Begin, StartGenerator
<1>2. ASSUME NEW g \in Flows, FlowBegin(g) \/ ServerSettled(g) \/ Started(g)
      PROVE  gen'[f] = gen[f] \/ (gen[f] = "none" /\ gen'[f] = "running")
  <2>1. CASE FlowBegin(g)
    BY <1>1, <2>1 DEF FlowBegin
  <2>2. CASE ServerSettled(g) \/ Started(g)
    <3>1. flow[g] \in {"settle", "start"} /\ gen[g] = "none"
      BY <2>2 DEF ServerSettled, Started, At, FlowRuns
    <3>2. QED
      BY <2>2, <3>1 DEF ServerSettled, Started, StartGenerator
  <2>3. QED
    BY <1>2, <2>1, <2>2
<1>3. ASSUME NEW g \in Flows, FlowAbandoned(g)
      PROVE  \/ gen'[f] = gen[f]
             \/ /\ gen[f] = "running" /\ gen'[f] = "stopped"
                /\ f \in AppFlows /\ f \in doomed /\ flow[f] = "wait"
  BY <1>3 DEF FlowAbandoned
<1>4. ASSUME NEW g \in Flows, FlowStep(g), ~(FlowBegin(g) \/ ServerSettled(g) \/ Started(g)), ~FlowAbandoned(g)
      PROVE  gen' = gen
  BY <1>4 DEF FlowStep, ServerSpawned, LaunchRaises, StartFails, SleepOver, GeneratorOver,
              GeneratorRaised, StopRaises
<1>5. ASSUME Environment
      PROVE  \/ gen'[f] = gen[f]
             \/ gen[f] = "running" /\ gen'[f] \in {"ended", "failed"}
             \/ gen[f] = "running" /\ gen'[f] = "stopped" /\ flow[f] = "stop"
  BY <1>5 DEF Environment, GeneratorEnds, GeneratorFails, GeneratorStopped, DockerExits
<1>6. CASE StartPrecursor
  <2>1. PICK g \in Rounds[1] : Begin(g)
    BY <1>6 DEF StartPrecursor
  <2>2. g \in Flows /\ flow[g] = "none"
    BY <1>6, FirstRound DEF StartPrecursor, NotCreated
  <2>3. QED
    BY <1>1, <2>1, <2>2
<1>7. CASE Teardown
  BY <1>7 DEF Teardown
<1>8. CASE StartBaseline \/ DiurnalRound
  BY <1>8 DEF StartBaseline, DiurnalRound, CreateRound
<1>9. CASE MainShutdown \/ PrecursorRaises \/ Signal \/ UNCHANGED vars
  BY <1>9 DEF MainShutdown, PrecursorRaises, Signal, Shutdown, vars
<1>10. CASE \E s \in Stoppers : StopStep(s)
  BY <1>10 DEF StopStep, StopResumes, StopKillRaises, LeaveStopAll
<1>11. QED
  BY <1>2, <1>3, <1>4, <1>5, <1>6, <1>7, <1>8, <1>9, <1>10
  DEF Next, MainStep, GatherOver, PrecursorOver, DiurnalOver, Ended

\* The generators of the flows are those of GeneratorLife, but for its liveness: whatever
\* shuts down when, a generator starts once and is only stopped while it is asked to stop.
THEOREM GeneratorsSafe ==
  Spec => (\A f \in Flows : GL(f)!Init) /\ [][\A f \in Flows : GL(f)!Next]_vars
<1>1. Init => \A f \in Flows : GL(f)!Init
  BY DEF Init, GL!Init
<1>2. RunsInv /\ [Next]_vars => [\A f \in Flows : GL(f)!Next]_vars
  BY GeneratorStep DEF GL!Next, GL!Begin, GL!End, GL!Stop
<1>3. QED
  BY <1>1, <1>2, RunsInit, RunsStep, PTL DEF Spec

-----------------------------------------------------------------------------
(***************************************************************************)
(* The end of a run.                                                       *)
(***************************************************************************)

\* The flow that main() awaits itself has raised.
MainRaised == cmd = "precursor" /\ direct \in Flows /\ flow[direct] = "raised"

\* Where main() is says which command it runs and whether it runs a flow itself, which
\* is over before it shuts down; from then on it is the only flow that is not cancelled.
MainPlace ==
  /\ direct \in Flows \cup {NoFlow}
  /\ pc \in {"init", "gather", "sleep"} => direct = NoFlow
  /\ pc = "gather" => cmd = "baseline"
  /\ pc = "flow" => cmd = "precursor" /\ direct \in Flows
  /\ pc = "sleep" => cmd = "diurnal"
  /\ pc \notin {"init", "gather", "flow", "sleep"} =>
       /\ direct = NoFlow \/ flow[direct] \in Finished
       /\ ~running \/ MainRaised

\* While main() waits for a docker process the dictionary only changes by being cleared,
\* which closes the logger.
ClosedBehind ==
  /\ signals \in Nat
  /\ stop = [s \in Stoppers |-> stop[s]]
  /\ stop[0] # Idle => pc = "stopping" /\ (stop[0].size = Len(servers) \/ log = "closed")
  /\ pc \in {"exit", "done"} => log = "closed"
  /\ pc \in {"crashed", "dead"} => log = "closed" \/ MainRaised \/ 0 \in left
  /\ pc = "stopping" => ~running
  /\ log \in {"open", "closed"}

CloseInv == RunsInv /\ MainPlace /\ ClosedBehind

LEMMA CloseInit == Init => CloseInv
<1>1. 0 \in Stoppers
  BY SchedulerAssumption DEF Stoppers
<1>2. QED
  BY <1>1, RunsInit DEF Init, CloseInv, MainPlace, ClosedBehind, Idle

\* A flow that is over stays so.
LEMMA FinishedStay ==
  ASSUME RunsInv, [Next]_vars, NEW f \in Flows, flow[f] \in Finished
  PROVE  flow'[f] = flow[f]
<1> USE DEF mainVars, flowVars, serverVars, RunsInv, IInv, ServedIInv, FlowTypeOK
<1>1. flow[f] \notin Waiting /\ flow[f] \notin {"none", "pending"} /\ f \notin doomed
  BY Statuses DEF Finished
<1>2. ASSUME NEW g \in Flows, FlowStep(g) PROVE flow'[f] = flow[f]
  <2>1. f # g
    <3>1. CASE FlowAbandoned(g)
      BY <1>1, <3>1 DEF FlowAbandoned
    <3>2. CASE ~FlowAbandoned(g)
      <4>1. flow[g] \in {"pending"} \cup Waiting
        BY <1>2, <3>2, Statuses
        DEF FlowStep, FlowBegin, ServerSpawned, ServerSettled, LaunchRaises, Started, StartFails,
            SleepOver, GeneratorOver, GeneratorRaised, StopRaises, At
      <4>2. QED
        BY <1>1, <4>1
    <3>3. QED
      BY <3>1, <3>2
  <2>2. CASE FlowBegin(g) \/ ServerSettled(g)
    BY <2>1, <2>2 DEF FlowBegin, ServerSettled, Begin, StartGenerator
  <2>3. CASE ~(FlowBegin(g) \/ ServerSettled(g))
    BY <1>2, <2>1, <2>3
    DEF FlowStep, ServerSpawned, LaunchRaises, Started, StartFails, SleepOver, GeneratorOver,
        GeneratorRaised, StopRaises, FlowAbandoned
  <2>4. QED
    BY <2>2, <2>3
<1>3. ASSUME CreateRound, round + 1 \in DOMAIN Rounds, cmd # "precursor" PROVE flow'[f] = flow[f]
  <2>1. f \notin Rounds[round + 1]
    BY <1>1, <1>3 DEF NotCreated
  <2>2. QED
    BY <1>3, <2>1 DEF CreateRound
<1>4. CASE StartBaseline
  <2>1. CreateRound /\ round + 1 \in DOMAIN Rounds /\ cmd # "precursor"
    BY <1>4, FirstRound DEF StartBaseline, NotCreated
  <2>2. QED
    BY <1>3, <2>1
<1>5. CASE DiurnalRound
  <2>1. CreateRound /\ round + 1 \in DOMAIN Rounds /\ cmd # "precursor"
    BY <1>5, SchedulerAssumption, LenProperties DEF DiurnalRound, NotCreated
  <2>2. QED
    BY <1>3, <2>1
<1>6. CASE MainShutdown \/ Signal
  BY <1>1, <1>6 DEF MainShutdown, Signal, Shutdown, CancelTasks
<1>7. CASE StartPrecursor
  BY <1>1, <1>7 DEF StartPrecursor, NotCreated
<1>8. CASE Teardown
  BY <1>1, <1>8 DEF Teardown
<1>9. CASE \/ PrecursorRaises \/ Environment \/ UNCHANGED vars
           \/ \E s \in Stoppers : StopStep(s)
  BY <1>9
  DEF PrecursorRaises, Environment, GeneratorEnds, GeneratorFails, GeneratorStopped, DockerExits,
      StopStep, StopResumes, StopKillRaises, LeaveStopAll, vars
<1>10. QED
  BY <1>2, <1>4, <1>5, <1>6, <1>7, <1>8, <1>9
  DEF Next, MainStep, GatherOver, PrecursorOver, DiurnalOver, Ended

\* Once main() shuts down no flow goes on that could launch a server.
LEMMA NoLaunchBehind ==
  ASSUME CloseInv, pc \notin {"init", "gather", "flow", "sleep"}, ~running,
         NEW f \in Flows, f \notin doomed
  PROVE  flow[f] \in {"none"} \cup Finished
BY SchedulerAssumption DEF CloseInv, RunsInv, FlowRuns, MainPlace

LEMMA ZeroStops == 0 \in Stoppers /\ (\A s \in Nat : s + 1 # 0)
BY SchedulerAssumption DEF Stoppers

\* stop_all from its i-th server on.
LEMMA StopAllEffect ==
  ASSUME CloseInv, NEW s \in Stoppers, NEW i, StopAllFrom(s, i)
  PROVE  /\ stop' = [t \in Stoppers |-> stop'[t]]
         /\ log' \in {"open", "closed"}
         /\ \/ Live(i) = {} /\ servers' = <<>> /\ log' = "closed" /\ stop'[s] = Idle
            \/ Live(i) # {} /\ servers' = servers /\ log' = log /\ stop'[s].size = Len(servers)
         /\ \A t \in Stoppers : t # s => stop'[t] = stop[t]
<1> USE DEF CloseInv, ClosedBehind
<1>1. CASE Live(i) = {}
  BY <1>1 DEF StopAllFrom, Idle
<1>2. CASE Live(i) # {}
  <2> DEFINE first == CHOOSE j \in Live(i) : \A k \in Live(i) : j <= k
  <2>1. stop' = [stop EXCEPT ![s] = [key |-> servers[first], size |-> Len(servers)]]
        /\ UNCHANGED <<servers, log>>
    BY <1>2 DEF StopAllFrom
  <2> HIDE DEF first
  <2>2. QED
    BY <1>2, <2>1
<1>3. QED
  BY <1>1, <1>2

\* Where main() is, is kept by what leaves main() and the shutdowns alone.
LEMMA CloseKept ==
  ASSUME CloseInv, [Next]_vars, UNCHANGED <<mainVars, log, stop>>,
         servers' = servers \/ pc # "stopping"
  PROVE  MainPlace' /\ ClosedBehind'
<1> USE DEF mainVars
<1>1. ASSUME direct \in Flows, flow[direct] \in Finished PROVE flow'[direct] = flow[direct]
  BY <1>1, FinishedStay DEF CloseInv
<1>2. "raised" \in Finished
  BY DEF Finished
<1>3. direct = NoFlow \/ direct \in Flows
  BY DEF CloseInv, MainPlace
<1>4. MainPlace'
  BY <1>1, <1>2, <1>3 DEF CloseInv, MainRaised, MainPlace
<1>5. pc \in {"crashed", "dead"} => log = "closed" \/ MainRaised' \/ 0 \in left
  BY <1>1, <1>2, <1>3, SchedulerAssumption DEF CloseInv, MainRaised, MainPlace, ClosedBehind
<1>6. ClosedBehind'
  BY <1>5, Zenon DEF CloseInv, ClosedBehind
<1>7. QED
  BY <1>4, <1>6

\* The shutdown of main() itself, once its flows are over.
LEMMA CloseMain ==
  ASSUME CloseInv, [Next]_vars, MainShutdown, pc \in {"gather", "flow", "sleep"},
         pc = "flow" => flow[direct] \in Finished
  PROVE  MainPlace' /\ ClosedBehind'
<1>1. 0 \in Stoppers /\ StopAllFrom(0, 1)
  BY ZeroStops DEF MainShutdown, Shutdown
<1>2. UNCHANGED <<cmd, round, direct, signals>> /\ ~running'
      /\ pc' = IF Live(1) = {} THEN "exit" ELSE "stopping"
  BY DEF MainShutdown, Shutdown
<1>3. direct = NoFlow \/ flow'[direct] \in Finished
  BY FinishedStay DEF CloseInv, MainPlace
<1>4. MainPlace'
  BY <1>2, <1>3 DEF CloseInv, MainPlace
<1>5. ClosedBehind'
  BY <1>1, <1>2, StopAllEffect DEF CloseInv, ClosedBehind
<1>6. QED
  BY <1>4, <1>5

LEMMA CloseSignal == ASSUME CloseInv, [Next]_vars, Signal PROVE MainPlace' /\ ClosedBehind'
<1> DEFINE s == signals + 1
<1>1. s \in Stoppers /\ s # 0 /\ s \in Nat
  BY SchedulerAssumption DEF CloseInv, ClosedBehind, Signal, Stoppers
<1>2. StopAllFrom(s, 1) /\ UNCHANGED <<cmd, pc, round, direct>> /\ ~running' /\ signals' = s
      /\ pc \in {"gather", "flow", "sleep", "stopping"}
  BY DEF Signal, Shutdown
<1> HIDE DEF s
<1>3. ASSUME direct \in Flows, flow[direct] \in Finished PROVE flow'[direct] \in Finished
  BY <1>3, FinishedStay DEF CloseInv
<1>4. direct = NoFlow \/ direct \in Flows
  BY DEF CloseInv, MainPlace
<1>5. MainPlace'
  BY <1>2, <1>3, <1>4 DEF CloseInv, MainPlace
<1>6. stop'[0] = stop[0]
  BY <1>1, <1>2, ZeroStops, StopAllEffect
<1>7. ClosedBehind'
  BY <1>1, <1>2, <1>6, StopAllEffect DEF CloseInv, ClosedBehind
<1>8. QED
  BY <1>5, <1>7

LEMMA CloseResumes ==
  ASSUME CloseInv, [Next]_vars, NEW s \in Stoppers, StopStep(s)
  PROVE  MainPlace' /\ ClosedBehind'
<1> USE DEF CloseInv, MainRaised, ClosedBehind
<1>1. UNCHANGED <<cmd, round, direct, running, signals, flow>> /\ stop[s] # Idle
      /\ (s # 0 => pc' = pc) /\ (s = 0 => pc = "stopping") /\ left \subseteq left'
  BY DEF StopStep, StopResumes, StopKillRaises, LeaveStopAll, flowVars
<1>2. CASE StopKillRaises(s) \/ Len(servers) # stop[s].size
  <2>1. /\ stop' = [stop EXCEPT ![s] = Idle] /\ pc' = (IF s = 0 THEN "crashed" ELSE pc)
        /\ UNCHANGED <<servers, log>>
    BY <1>2 DEF StopStep, StopResumes, StopKillRaises, LeaveStopAll
  <2>2. s = 0 => log = "closed" \/ 0 \in left'
    BY <1>1, <1>2 DEF StopKillRaises
  <2>3. MainPlace'
    BY <1>1, <2>1 DEF MainPlace
  <2>4. ClosedBehind'
    BY <1>1, <2>1, <2>2, ZeroStops
  <2>5. QED
    BY <2>3, <2>4
<1>3. CASE StopResumes(s) /\ Len(servers) = stop[s].size
  <2>1. PICK i : StopAllFrom(s, i) /\ pc' = (IF s = 0 /\ Live(i) = {} THEN "exit" ELSE pc)
    BY <1>3, Zenon DEF StopResumes
  <2>2. MainPlace'
    BY <1>1, <2>1 DEF MainPlace
  <2>3. ClosedBehind'
    <3>1. CASE s = 0
      BY <1>1, <2>1, <3>1, StopAllEffect
    <3>2. CASE s # 0
      <4>1. stop'[0] = stop[0]
        BY <2>1, <3>2, ZeroStops, StopAllEffect
      <4>2. QED
        BY <1>1, <2>1, <3>2, <4>1, StopAllEffect
    <3>3. QED
      BY <3>1, <3>2
  <2>4. QED
    BY <2>2, <2>3
<1>4. QED
  BY <1>2, <1>3 DEF StopStep

LEMMA CloseStep == CloseInv /\ [Next]_vars => CloseInv'
<1> SUFFICES ASSUME CloseInv, [Next]_vars PROVE CloseInv'
  OBVIOUS
<1> USE DEF mainVars, serverVars, flowVars
<1>1. RunsInv'
  BY RunsStep DEF CloseInv
<1>2. MainPlace' /\ ClosedBehind'
  <2>1. ASSUME NEW f \in Flows, FlowStep(f) PROVE MainPlace' /\ ClosedBehind'
    <3>1. UNCHANGED <<mainVars, log, stop>>
      BY <2>1
      DEF FlowStep, FlowBegin, ServerSpawned, ServerSettled, LaunchRaises, Started, StartFails,
          SleepOver, GeneratorOver, GeneratorRaised, StopRaises, FlowAbandoned
    <3>2. CASE ServerSpawned(f)
      <4>1. f \notin doomed /\ flow[f] = "launch"
        BY <3>2 DEF ServerSpawned, At
      <4>2. pc # "stopping"
        BY <4>1, NoLaunchBehind DEF CloseInv, ClosedBehind, Finished
      <4>3. QED
        BY <3>1, <4>2, CloseKept
    <3>3. CASE ~ServerSpawned(f)
      <4>1. servers' = servers
        BY <2>1, <3>3
        DEF FlowStep, FlowBegin, ServerSettled, LaunchRaises, Started, StartFails,
            SleepOver, GeneratorOver, GeneratorRaised, StopRaises, FlowAbandoned
      <4>2. QED
        BY <3>1, <4>1, CloseKept
    <3>4. QED
      BY <3>2, <3>3
  <2>2. CASE Environment \/ UNCHANGED vars
    <3>1. UNCHANGED <<mainVars, log, stop>> /\ servers' = servers
      BY <2>2
      DEF Environment, GeneratorEnds, GeneratorFails, GeneratorStopped, DockerExits, vars
    <3>2. QED
      BY <3>1, CloseKept
  <2>3. CASE StartBaseline
    BY <2>3 DEF StartBaseline, CreateRound, CloseInv, MainPlace, ClosedBehind
  <2>4. CASE StartPrecursor
    <3>1. direct' \in Flows
      BY <2>4, FirstRound DEF StartPrecursor, Flows
    <3>2. QED
      BY <2>4, <3>1 DEF StartPrecursor, CloseInv, MainPlace, ClosedBehind
  <2>5. CASE PrecursorRaises
    BY <2>5 DEF PrecursorRaises, CloseInv, MainRaised, MainPlace, ClosedBehind, Finished
  <2>6. CASE DiurnalRound
    BY <2>6 DEF DiurnalRound, CreateRound, CloseInv, MainPlace, ClosedBehind
  <2>7. CASE GatherOver \/ PrecursorOver \/ DiurnalOver
    BY <2>7, CloseMain DEF GatherOver, PrecursorOver, DiurnalOver
  <2>8. CASE Teardown
    <3>1. ASSUME direct \in Flows, flow[direct] \in Finished PROVE flow'[direct] = flow[direct]
      BY <3>1, FinishedStay DEF CloseInv
    <3>2. direct = NoFlow \/ direct \in Flows
      BY DEF CloseInv, MainPlace
    <3>3. MainPlace'
      BY <2>8, <3>1, <3>2 DEF Teardown, CloseInv, MainRaised, MainPlace, Finished
    <3>4. ClosedBehind'
      BY <2>8, <3>1, <3>2, ZeroStops, SchedulerAssumption
      DEF Teardown, CloseInv, MainRaised, MainPlace, ClosedBehind, Finished
    <3>5. QED
      BY <3>3, <3>4
  <2>9. QED
    BY <2>1, <2>2, <2>3, <2>4, <2>5, <2>6, <2>7, <2>8, CloseSignal, CloseResumes
    DEF Next, MainStep, Ended
<1>3. QED
  BY <1>1, <1>2 DEF CloseInv

\* However the shutdowns of signals and of main() run into one another in stop_all, the
\* logger is closed when the program ends, unless what ends it is an exception of the flow
\* that main() awaits itself or of a kill() in the stop_all of its own shutdown.
THEOREM LoggerClosedCorrect == Spec => []LoggerClosedAtEnd
<1>1. CloseInv => LoggerClosedAtEnd
  BY DEF CloseInv, MainRaised, ClosedBehind, LoggerClosedAtEnd, Over
<1>2. QED
  BY <1>1, CloseInit, CloseStep, PTL DEF Spec

-----------------------------------------------------------------------------
(***************************************************************************)
(* Started and completed rows.                                             *)
(***************************************************************************)

\* A flow's rows follow where it is.
RowsFollow(f) ==
  /\ flow[f] = "completed" => "completed" \in rows[f]
  /\ "started" \in rows[f] => flow[f] \notin {"none", "pending", "cancelled"}

\* In a run that no signal interrupts no flow is cancelled, and once main() shuts down
\* every flow that was created is over.
Undisturbed ==
  /\ doomed = {}
  /\ \A f \in Flows : flow[f] # "abandoned"
  /\ pc \notin {"init", "gather", "flow"} =>
       \A f \in Flows : flow[f] \in {"none"} \cup Finished

PairInv ==
  /\ CloseInv
  /\ \A f \in Flows : RowsFollow(f)
  /\ pc = "gather" => round = 1
  /\ cmd = "precursor" => \A f \in Flows : f # direct => flow[f] = "none"
  /\ cmd # "diurnal" /\ signals = 0 => Undisturbed

LEMMA PairInit == Init => PairInv
BY CloseInit DEF Init, PairInv, RowsFollow, Undisturbed

\* What a step of run_flow does to its flow.
LEMMA FlowStepMoves ==
  ASSUME RunsInv, NEW f \in Flows, FlowStep(f)
  PROVE  /\ UNCHANGED mainVars
         /\ \A g \in Flows : g # f => flow'[g] = flow[g] /\ rows'[g] = rows[g]
         /\ flow[f] \in {"pending"} \cup Waiting
         /\ flow'[f] \in Waiting \cup (Finished \ {"cancelled"})
         /\ flow'[f] = "abandoned" => f \in doomed
         /\ flow'[f] = "completed" => "completed" \in rows'[f]
         /\ doomed' \subseteq doomed
<1> USE DEF RunsInv, IInv, ServedIInv, FlowTypeOK, RowsTypeOK
<1>1. LoopHead \in {"sleep", "stop"}
  BY DEF LoopHead
<1>2. CASE FlowBegin(f)
  BY <1>1, <1>2 DEF FlowBegin, Begin, StartGenerator, Waiting, Finished
<1>3. CASE ServerSettled(f)
  BY <1>1, <1>3 DEF ServerSettled, StartGenerator, At, flowVars, Waiting, Finished
<1>4. CASE GeneratorOver(f)
  BY <1>4 DEF GeneratorOver, At, Waiting, Finished
<1>5. CASE FlowAbandoned(f)
  BY <1>5 DEF FlowAbandoned, Waiting, Finished
<1>6. CASE ServerSpawned(f) \/ LaunchRaises(f) \/ Started(f) \/ StartFails(f)
           \/ SleepOver(f) \/ GeneratorRaised(f) \/ StopRaises(f)
  BY <1>1, <1>6
  DEF ServerSpawned, LaunchRaises, Started, StartFails, SleepOver, GeneratorRaised, StopRaises, At,
      Waiting,
      Finished
<1>7. QED
  BY <1>2, <1>3, <1>4, <1>5, <1>6 DEF FlowStep

LEMMA PairFlow ==
  ASSUME PairInv, CloseInv', NEW f \in Flows, FlowStep(f) PROVE PairInv'
<1> USE DEF mainVars
<1>1. RunsInv
  BY DEF PairInv, CloseInv
<1>2. \A g \in Flows : RowsFollow(g)'
  <2>1. flow'[f] \notin {"none", "pending", "cancelled"}
    BY <1>1, FlowStepMoves DEF Waiting, Finished
  <2>2. QED
    BY <1>1, <2>1, FlowStepMoves DEF PairInv, RowsFollow
<1>3. (pc = "gather" => round = 1)'
  BY <1>1, FlowStepMoves DEF PairInv
<1>4. (cmd = "precursor" => \A g \in Flows : g # direct => flow[g] = "none")'
  BY <1>1, FlowStepMoves, Statuses DEF PairInv
<1>5. ASSUME cmd' # "diurnal", signals' = 0 PROVE Undisturbed'
  BY <1>1, <1>5, FlowStepMoves, Statuses DEF PairInv, Undisturbed, Finished
<1>6. QED
  BY <1>2, <1>3, <1>4, <1>5 DEF PairInv

\* main() shuts down by itself when its flows are over.
LEMMA PairMain ==
  ASSUME PairInv, CloseInv', MainShutdown, GatherOver \/ PrecursorOver \/ DiurnalOver
  PROVE  PairInv'
<1> USE DEF PairInv, CloseInv, MainPlace
<1>1. UNCHANGED <<cmd, round, direct, signals, rows>> /\ CancelTasks /\ pc' # "gather"
  BY DEF MainShutdown, Shutdown
<1>2. \A f \in Flows : RowsFollow(f)'
  BY <1>1 DEF CancelTasks, RowsFollow
<1>3. (cmd = "precursor" => \A g \in Flows : g # direct => flow[g] = "none")'
  BY <1>1 DEF CancelTasks
<1>4. ASSUME cmd # "diurnal", signals = 0 PROVE Undisturbed'
  <2>1. \A f \in Flows : flow[f] \in {"none"} \cup Finished
    <3>1. CASE pc = "gather"
      <4>1. \A f \in Rounds[1] : flow[f] \in Finished
        BY <3>1 DEF GatherOver, PrecursorOver, DiurnalOver
      <4>2. \A n \in DOMAIN Rounds : n # 1 => \A f \in Rounds[n] : flow[f] = "none"
        BY <3>1, LenProperties, SchedulerAssumption DEF RunsInv, IInv, NotCreated
      <4>3. QED
        BY <4>1, <4>2 DEF Flows
    <3>2. CASE pc = "flow"
      BY <3>2 DEF GatherOver, PrecursorOver, DiurnalOver
    <3>3. QED
      BY <1>4, <3>1, <3>2 DEF GatherOver, PrecursorOver, DiurnalOver
  <2>2. \A f \in Flows : flow[f] \notin Waiting /\ flow[f] # "pending"
    BY <2>1 DEF Waiting, Finished
  <2>3. doomed' = doomed /\ \A f \in Flows : flow'[f] = flow[f]
    BY <1>1, <2>2 DEF CancelTasks
  <2>4. QED
    BY <1>4, <2>1, <2>3 DEF Undisturbed
<1>5. QED
  BY <1>1, <1>2, <1>3, <1>4

LEMMA PairStep == PairInv /\ [Next]_vars => PairInv'
<1> SUFFICES ASSUME PairInv, [Next]_vars PROVE PairInv'
  OBVIOUS
<1> USE DEF mainVars, flowVars
<1>1. CloseInv'
  BY CloseStep DEF PairInv
<1>2. CASE StartBaseline
  <2>1. \A f \in Flows : flow[f] = "none" /\ rows'[f] = rows[f] /\ flow'[f] \in {"none", "pending"}
    BY <1>2 DEF StartBaseline, CreateRound, PairInv, CloseInv, RunsInv, IInv, NotCreated
  <2>2. round' = 1
    BY <1>2 DEF StartBaseline, CreateRound, PairInv, CloseInv, RunsInv, IInv, NotCreated
  <2>3. QED
    BY <1>1, <1>2, <2>1, <2>2
    DEF StartBaseline, CreateRound, PairInv, RowsFollow, Undisturbed
<1>3. CASE StartPrecursor
  <2>1. PICK f \in Rounds[1] : direct' = f /\ Begin(f)
    BY <1>3 DEF StartPrecursor
  <2>2. f \in Flows /\ \A g \in Flows : flow[g] = "none"
    BY <1>3, FirstRound DEF StartPrecursor, PairInv, CloseInv, RunsInv, IInv, NotCreated
  <2>3. /\ flow'[f] \in Waiting
        /\ \A g \in Flows : g # f => flow'[g] = flow[g] /\ rows'[g] = rows[g]
    <3>1. LoopHead \in Waiting /\ {"launch", "start"} \subseteq Waiting
      BY DEF LoopHead, Waiting
    <3>2. QED
      BY <2>1, <2>2, <3>1
      DEF Begin, StartGenerator, PairInv, CloseInv, RunsInv, IInv, ServedIInv, FlowTypeOK,
          RowsTypeOK
  <2>4. QED
    BY <1>1, <1>3, <2>1, <2>2, <2>3, Statuses
    DEF StartPrecursor, PairInv, RowsFollow, Undisturbed, Finished
<1>4. CASE PrecursorRaises
  <2>1. \A f \in Flows : flow[f] \in {"none"} \cup Finished
    BY <1>4 DEF PrecursorRaises, PairInv, Finished, CloseInv, MainPlace
  <2>2. QED
    BY <1>1, <1>4, <2>1 DEF PrecursorRaises, PairInv, RowsFollow, Undisturbed
<1>5. CASE DiurnalRound
  <2>1. \A f \in Flows : flow'[f] = flow[f] \/ (flow[f] = "none" /\ flow'[f] = "pending")
    BY <1>5, SchedulerAssumption, LenProperties
    DEF DiurnalRound, CreateRound, PairInv, CloseInv, RunsInv, IInv, NotCreated
  <2>2. QED
    BY <1>1, <1>5, <2>1 DEF DiurnalRound, CreateRound, PairInv, RowsFollow
<1>6. CASE GatherOver \/ PrecursorOver \/ DiurnalOver
  BY <1>1, <1>6, PairMain DEF GatherOver, PrecursorOver, DiurnalOver
<1>7. CASE Teardown
  <2>1. \A f \in Flows : RowsFollow(f)'
    BY <1>7, Statuses DEF Teardown, PairInv, RowsFollow
  <2>2. ASSUME cmd # "diurnal", signals = 0 PROVE Undisturbed'
    BY <1>7, <2>2, Statuses DEF Teardown, PairInv, Undisturbed
  <2>3. QED
    BY <1>1, <1>7, <2>1, <2>2, Statuses DEF Teardown, PairInv
<1>8. CASE Signal
  <2>1. signals' # 0
    BY <1>8 DEF Signal, PairInv, CloseInv, ClosedBehind
  <2>2. QED
    BY <1>1, <1>8, <2>1 DEF Signal, Shutdown, CancelTasks, PairInv, RowsFollow
<1>9. CASE Environment \/ (\E s \in Stoppers : StopStep(s)) \/ UNCHANGED vars
  <2>1. UNCHANGED <<cmd, round, direct, signals, flow, doomed, rows>>
        /\ (pc' = pc \/ (pc = "stopping" /\ pc' \in {"exit", "crashed"}))
    BY <1>9
    DEF Environment, GeneratorEnds, GeneratorFails, GeneratorStopped, DockerExits, vars,
        StopStep, StopResumes, StopKillRaises, LeaveStopAll, PairInv, CloseInv, ClosedBehind
  <2>2. QED
    BY <1>1, <2>1 DEF PairInv, RowsFollow, Undisturbed
<1>10. QED
  BY <1>1, <1>2, <1>3, <1>4, <1>5, <1>6, <1>7, <1>8, <1>9, PairFlow
  DEF Next, MainStep, Ended

\* A baseline or precursor run that no signal interrupts pairs every started row with a
\* completed row, except for the flows whose server or generator failed.
THEOREM PairCorrect == Spec => []UndisturbedRunsPair
<1>1. PairInv => UndisturbedRunsPair
  BY DEF PairInv, Undisturbed, RowsFollow, UndisturbedRunsPair, Over, Finished
<1>2. QED
  BY <1>1, PairInit, PairStep, PTL DEF Spec

-----------------------------------------------------------------------------
(***************************************************************************)
(* The type invariant, and where a shutdown resumes.                       *)
(***************************************************************************)

MainTypeOK ==
  /\ cmd \in Commands
  /\ pc \in {"init", "gather", "flow", "sleep", "stopping", "exit", "crashed"} \cup Over
  /\ round \in 0..Len(Rounds) /\ running \in BOOLEAN
  /\ signals \in 0..MaxSignals /\ left \subseteq Stoppers

ServerTypeOK ==
  /\ \A i, j \in DOMAIN servers : servers[i] = servers[j] => i = j
  /\ handle \in [Keys -> {"none", "live", "exited"}]
  /\ known \subseteq Keys /\ launched \subseteq Keys
  /\ stop \in [Stoppers -> [key : Keys \cup {NoServer}, size : Nat]]

\* Shutdown s finds the server it waits for in the dictionary, unless that has been cleared.
FindsItsServer(s) ==
  stop[s] # Idle =>
    \/ servers = <<>>
    \/ /\ stop[s].size = Len(servers)
       /\ \E j \in DOMAIN servers : servers[j] = stop[s].key

\* No server is added behind a shutdown: only the flow that main() runs itself goes on, and
\* as long as that one has not launched its server there is none to wait for.
Resuming ==
  /\ running => \A s \in Stoppers : stop[s] = Idle
  /\ direct # NoFlow => cmd = "precursor"
  /\ cmd = "precursor" =>
       /\ \A f \in Flows : flow[f] # "pending" /\ (f # direct => flow[f] = "none")
       /\ direct = NoFlow \/ flow[direct] = "launch" =>
            servers = <<>> /\ \A s \in Stoppers : stop[s] = Idle
  /\ \A s \in Stoppers : (stop[s] # Idle => stop[s].size > 0) /\ FindsItsServer(s)

TypeInv == CloseInv /\ MainTypeOK /\ ServerTypeOK /\ Resuming

LEMMA TypeInit == Init => TypeInv
<1> SUFFICES ASSUME Init PROVE TypeInv
  OBVIOUS
<1>1. CloseInv
  BY CloseInit
<1>2. 0 \in 0..Len(Rounds) /\ 0 \in 0..MaxSignals
  BY SchedulerAssumption
<1>3. MainTypeOK
  BY <1>2 DEF Init, MainTypeOK
<1>4. ServerTypeOK
  BY DEF Init, ServerTypeOK, Idle
<1>5. Resuming
  BY DEF Init, Resuming, FindsItsServer
<1>6. QED
  BY <1>1, <1>3, <1>4, <1>5 DEF TypeInv

LEMMA KeyOfFlow == \A f \in Flows : Key[f] # NoServer => Key[f] \in Keys
BY DEF Keys

\* Steps that leave the dictionary and the shutdowns alone.
LEMMA ResumingKept ==
  ASSUME Resuming, UNCHANGED <<cmd, direct, running, servers, stop>>,
         cmd = "precursor" =>
           /\ direct \in Flows /\ flow'[direct] = "launch" => flow[direct] = "launch"
           /\ \A f \in Flows : flow'[f] # "pending" /\ (f # direct => flow'[f] = "none"),
         direct \in Flows \cup {NoFlow}
  PROVE  Resuming'
BY Zenon DEF Resuming, FindsItsServer

\* A flow's step that launches no server.
LEMMA TypeFlow ==
  ASSUME TypeInv, NEW f \in Flows, FlowStep(f), ~ServerSpawned(f)
  PROVE  MainTypeOK' /\ ServerTypeOK' /\ Resuming'
<1>1. UNCHANGED <<mainVars, servers, handle, stop>>
  BY DEF FlowStep, FlowBegin, ServerSettled, LaunchRaises, Started, StartFails, SleepOver,
         GeneratorOver, GeneratorRaised, StopRaises, FlowAbandoned, serverVars
<1>2. MainTypeOK'
  BY <1>1 DEF mainVars, TypeInv, MainTypeOK
<1>3. known' \in {known, known \cup {Key[f]}} /\ launched' \in {launched, launched \cup {Key[f]}}
      /\ (known' # known \/ launched' # launched => Key[f] # NoServer)
  BY Zenon
  DEF FlowStep, FlowBegin, Begin, ServerSettled, LaunchRaises, Started, StartFails, SleepOver,
      GeneratorOver, GeneratorRaised, StopRaises, FlowAbandoned, serverVars, At, TypeInv, CloseInv,
      RunsInv,
      IInv, ServedIInv, ServersLaunched
<1>4. ServerTypeOK'
  BY <1>1, <1>3, KeyOfFlow DEF TypeInv, ServerTypeOK
<1>5. RunsInv
  BY DEF TypeInv, CloseInv
<1>6. /\ \A g \in Flows : g # f => flow'[g] = flow[g]
      /\ flow[f] \in {"pending"} \cup Waiting /\ flow'[f] \in Waiting \cup Finished
  BY <1>5, FlowStepMoves
<1>7. flow[f] # "pending" => flow'[f] # "launch"
  <2>1. LoopHead # "launch"
    BY DEF LoopHead
  <2>2. CASE ServerSettled(f)
    BY <1>5, <2>1, <2>2 DEF ServerSettled, StartGenerator, RunsInv, IInv, ServedIInv, FlowTypeOK
  <2>3. CASE FlowBegin(f)
    BY <2>3 DEF FlowBegin
  <2>4. CASE ~ServerSettled(f) /\ ~FlowBegin(f)
    BY <1>5, <2>1, <2>4
    DEF FlowStep, LaunchRaises, Started, StartFails, SleepOver, GeneratorOver, GeneratorRaised,
        StopRaises,
        FlowAbandoned, RunsInv, IInv, ServedIInv, FlowTypeOK
  <2>5. QED
    BY <2>2, <2>3, <2>4
<1>8. ASSUME cmd = "precursor"
      PROVE  /\ direct \in Flows /\ flow'[direct] = "launch" => flow[direct] = "launch"
             /\ \A g \in Flows : flow'[g] # "pending" /\ (g # direct => flow'[g] = "none")
  <2>1. f = direct /\ flow[f] # "pending"
    BY <1>6, <1>8, Statuses DEF TypeInv, Resuming
  <2>2. flow'[f] # "pending" /\ flow'[f] # "launch"
    BY <1>6, <1>7, <2>1 DEF Waiting, Finished
  <2>3. QED
    BY <1>6, <1>8, <2>1, <2>2 DEF TypeInv, Resuming
<1>9. Resuming'
  BY <1>1, <1>8, ResumingKept DEF mainVars, TypeInv, CloseInv, MainPlace
<1>10. QED
  BY <1>2, <1>4, <1>9

LEMMA TypeSpawn ==
  ASSUME TypeInv, NEW f \in Flows, ServerSpawned(f)
  PROVE  MainTypeOK' /\ ServerTypeOK' /\ Resuming'
<1>1. /\ flow[f] = "launch" /\ f \notin doomed /\ UNCHANGED <<mainVars, known, stop>>
      /\ servers' = (IF IsKnown(Key[f]) THEN servers ELSE Append(servers, Key[f]))
      /\ handle' = [handle EXCEPT ![Key[f]] = "live"] /\ launched' = launched \cup {Key[f]}
      /\ flow' = [flow EXCEPT ![f] = "settle"]
  BY DEF ServerSpawned, At
<1>2. Key[f] \in Keys
  BY <1>1, KeyOfFlow DEF TypeInv, CloseInv, RunsInv, IInv, ServedIInv, ServersLaunched
<1>3. servers \in Seq(Keys) /\ flow \in [Flows -> {"none", "pending"} \cup Waiting \cup Finished]
  BY DEF TypeInv, CloseInv, RunsInv, IInv, ServedIInv, FlowTypeOK
<1>4. MainTypeOK'
  BY <1>1 DEF mainVars, TypeInv, MainTypeOK
<1>5. ServerTypeOK'
  <2>1. \A i, j \in DOMAIN servers' : servers'[i] = servers'[j] => i = j
    <3>1. CASE IsKnown(Key[f])
      BY <1>1, <3>1 DEF TypeInv, ServerTypeOK
    <3>2. CASE ~IsKnown(Key[f])
      <4>1. /\ DOMAIN servers' = 1..Len(servers) + 1 /\ Len(servers) \in Nat
            /\ DOMAIN servers = 1..Len(servers)
            /\ \A i \in 1..Len(servers) : servers'[i] = servers[i]
            /\ servers'[Len(servers) + 1] = Key[f]
        BY <1>1, <1>2, <1>3, <3>2, AppendProperties, LenProperties
      <4>2. \A i \in 1..Len(servers) : servers[i] # Key[f]
        BY <3>2, <4>1 DEF IsKnown
      <4>3. \A i \in DOMAIN servers' : i \in 1..Len(servers) \/ i = Len(servers) + 1
        BY <4>1
      <4>4. QED
        BY <4>1, <4>2, <4>3 DEF TypeInv, ServerTypeOK
    <3>3. QED
      BY <3>1, <3>2
  <2>2. QED
    BY <1>1, <1>2, <2>1 DEF TypeInv, ServerTypeOK
<1>6. running \/ cmd = "precursor"
  <2>1. f = direct \/ running
    BY <1>1, Statuses DEF TypeInv, CloseInv, RunsInv, FlowRuns, Finished
  <2>2. QED
    BY <2>1, SchedulerAssumption DEF TypeInv, Resuming
<1>7. cmd = "precursor" => f = direct
  BY <1>1 DEF TypeInv, Resuming
<1>8. \A s \in Stoppers : stop[s] = Idle
  BY <1>1, <1>6, <1>7 DEF TypeInv, Resuming
<1>9. Resuming'
  <2>1. \A g \in Flows : flow'[g] = IF g = f THEN "settle" ELSE flow[g]
    BY <1>1, <1>3
  <2>2. f # NoFlow
    BY SchedulerAssumption
  <2>3. QED
    BY <1>1, <1>7, <1>8, <2>1, <2>2 DEF mainVars, TypeInv, Resuming, FindsItsServer
<1>10. QED
  BY <1>4, <1>5, <1>9

\* A set of naturals that is not empty has a least element.
LEMMA Least ==
  ASSUME NEW T \in SUBSET Nat, T # {}
  PROVE  \E x \in T : \A y \in T : x <= y
<1> DEFINE R == {ss \in Nat \X Nat : ss[1] < ss[2]}
<1>1. IsWellFoundedOn(R, Nat)
  BY NatLessThanWellFounded DEF OpToRel
<1>2. \A x, y \in Nat : <<y, x>> \in R <=> y < x
  OBVIOUS
<1> HIDE DEF R
<1>3. PICK x \in T : \A y \in T : ~(<<y, x>> \in R)
  BY <1>1, WFMin
<1>4. ASSUME NEW y \in T PROVE x <= y
  <2>1. x \in Nat /\ y \in Nat
    OBVIOUS
  <2>2. ~(y < x)
    BY <1>2, <1>3, <1>4, <2>1
  <2>3. QED
    BY <2>1, <2>2
<1>5. QED
  BY <1>3, <1>4

\* stop_all from some server on, for shutdown s, while self.running is false.
LEMMA TypeStopAll ==
  ASSUME TypeInv, NEW s \in Stoppers, NEW i, StopAllFrom(s, i), i \in Int,
         i >= 1, handle' \in [Keys -> {"none", "live", "exited"}], known' = known, launched' = launched,
         ~running', direct' = direct, cmd' = cmd,
         cmd = "precursor" =>
           /\ direct \in Flows /\ flow'[direct] = "launch" => flow[direct] = "launch"
           /\ \A f \in Flows : flow'[f] # "pending" /\ (f # direct => flow'[f] = "none")
  PROVE  ServerTypeOK' /\ Resuming'
<1> DEFINE first == CHOOSE j \in Live(i) : \A k \in Live(i) : j <= k
<1>1. servers \in Seq(Keys) /\ Len(servers) \in Nat /\ DOMAIN servers = 1..Len(servers)
  BY LenProperties DEF TypeInv, CloseInv, RunsInv, IInv, ServedIInv, FlowTypeOK
<1>2. stop \in [Stoppers -> [key : Keys \cup {NoServer}, size : Nat]]
  BY DEF TypeInv, ServerTypeOK
<1>3. direct = NoFlow \/ direct \in Flows
  BY DEF TypeInv, CloseInv, MainPlace
<1>4. NoServer \notin Keys
  BY DEF Keys
<1>5. CASE Live(i) = {}
  <2>1. servers' = <<>> /\ stop' = [stop EXCEPT ![s] = Idle]
    BY <1>5 DEF StopAllFrom
  <2>2. ServerTypeOK'
    BY <1>2, <2>1 DEF TypeInv, ServerTypeOK, Idle
  <2>3. Resuming'
    BY <1>2, <1>3, <2>1 DEF TypeInv, Resuming, FindsItsServer
  <2>4. QED
    BY <2>2, <2>3
<1>6. CASE Live(i) # {}
  <2>1. stop' = [stop EXCEPT ![s] = [key |-> servers[first], size |-> Len(servers)]]
        /\ servers' = servers
    BY <1>6 DEF StopAllFrom
  <2>2. first \in DOMAIN servers
    <3>1. Live(i) \subseteq 1..Len(servers)
      BY <1>1 DEF Live
    <3>2. \E j \in Live(i) : \A k \in Live(i) : j <= k
      BY <1>1, <1>6, <3>1, Least
    <3>3. QED
      BY <1>1, <3>1, <3>2
  <2> HIDE DEF first
  <2>3. servers[first] \in Keys /\ Len(servers) > 0
    BY <1>1, <2>2
  <2>4. ServerTypeOK'
    BY <1>1, <1>2, <2>1, <2>3 DEF TypeInv, ServerTypeOK
  <2>5. servers # <<>>
    BY <2>3
  <2>6. Resuming'
    <3>1. cmd = "precursor" => ~(direct = NoFlow \/ flow[direct] = "launch")
      BY <2>5 DEF TypeInv, Resuming
    <3>2. \A t \in Stoppers : stop'[t] = IF t = s THEN [key |-> servers[first], size |-> Len(servers)]
                                         ELSE stop[t]
      BY <1>2, <2>1
    <3>3. QED
      BY <1>3, <2>1, <2>2, <2>3, <3>1, <3>2 DEF TypeInv, Resuming, FindsItsServer
  <2>7. QED
    BY <2>4, <2>6
<1>7. QED
  BY <1>5, <1>6

LEMMA TypeResumes ==
  ASSUME TypeInv, NEW s \in Stoppers, StopStep(s)
  PROVE  MainTypeOK' /\ ServerTypeOK' /\ Resuming'
<1>1. /\ stop[s] # Idle /\ handle' \in {handle, [handle EXCEPT ![stop[s].key] = "exited"]}
      /\ left' \in {left, left \cup {s}}
      /\ UNCHANGED <<cmd, round, direct, running, signals, flow, known, launched>>
      /\ pc' \in {pc, "crashed", "exit"}
  BY DEF StopStep, StopResumes, StopKillRaises, LeaveStopAll, flowVars
<1>2. ~running /\ stop[s].size > 0 /\ FindsItsServer(s) /\ direct \in Flows \cup {NoFlow}
  BY <1>1 DEF TypeInv, CloseInv, MainPlace, Resuming
<1>3. MainTypeOK'
  BY <1>1 DEF TypeInv, MainTypeOK
<1>4. handle' \in [Keys -> {"none", "live", "exited"}]
  BY <1>1 DEF TypeInv, ServerTypeOK
<1>5. CASE StopKillRaises(s) \/ Len(servers) # stop[s].size
  <2>1. stop' = [stop EXCEPT ![s] = Idle] /\ UNCHANGED servers
    BY <1>5 DEF StopStep, StopResumes, StopKillRaises, LeaveStopAll
  <2>2. stop' \in [Stoppers -> [key : Keys \cup {NoServer}, size : Nat]]
        /\ \A t \in Stoppers : stop'[t] = IF t = s THEN Idle ELSE stop[t]
    BY <2>1 DEF TypeInv, ServerTypeOK, Idle
  <2>3. ServerTypeOK'
    BY <1>1, <1>4, <2>1, <2>2 DEF TypeInv, ServerTypeOK
  <2>4. Resuming'
    BY <1>1, <2>1, <2>2 DEF TypeInv, Resuming, FindsItsServer
  <2>5. QED
    BY <1>3, <2>3, <2>4
<1>6. CASE StopResumes(s) /\ Len(servers) = stop[s].size
  <2> DEFINE i == CHOOSE j \in DOMAIN servers : servers[j] = stop[s].key
  <2>1. StopAllFrom(s, i + 1)
    BY <1>6 DEF StopResumes
  <2>2. servers \in Seq(Keys) /\ servers # <<>>
    BY <1>2, <1>6 DEF TypeInv, CloseInv, RunsInv, IInv, ServedIInv, FlowTypeOK
  <2>3. i \in DOMAIN servers
    BY <1>1, <1>2, <2>2 DEF FindsItsServer
  <2>4. i + 1 \in Int /\ i + 1 >= 1
    BY <2>2, <2>3, LenProperties
  <2> HIDE DEF i
  <2>5. cmd = "precursor" =>
           /\ direct \in Flows /\ flow'[direct] = "launch" => flow[direct] = "launch"
           /\ \A f \in Flows : flow'[f] # "pending" /\ (f # direct => flow'[f] = "none")
    BY <1>1 DEF TypeInv, Resuming
  <2>6. ServerTypeOK' /\ Resuming'
    BY <1>1, <1>2, <1>4, <2>1, <2>4, <2>5, TypeStopAll
  <2>7. QED
    BY <1>3, <2>6
<1>7. QED
  BY <1>5, <1>6 DEF StopStep

\* shutdown(), of main() or of a signal.
LEMMA TypeShutdown ==
  ASSUME TypeInv, NEW s \in Stoppers, Shutdown(s), UNCHANGED <<cmd, direct>>
  PROVE  ServerTypeOK' /\ Resuming' /\ running' = FALSE
<1>1. StopAllFrom(s, 1) /\ running' = FALSE /\ UNCHANGED <<handle, known, launched>>
  BY DEF Shutdown
<1>2. \A f \in Flows : flow'[f] = IF f # direct /\ flow[f] = "pending" THEN "cancelled" ELSE flow[f]
  BY DEF Shutdown, CancelTasks
<1>3. cmd = "precursor" =>
         /\ direct \in Flows /\ flow'[direct] = "launch" => flow[direct] = "launch"
         /\ \A f \in Flows : flow'[f] # "pending" /\ (f # direct => flow'[f] = "none")
  BY <1>2 DEF TypeInv, Resuming
<1>4. handle' \in [Keys -> {"none", "live", "exited"}]
  BY <1>1 DEF TypeInv, ServerTypeOK
<1>5. QED
  BY <1>1, <1>3, <1>4, TypeStopAll

LEMMA TypeMain ==
  ASSUME TypeInv, MainStep \/ Signal
  PROVE  MainTypeOK' /\ ServerTypeOK' /\ Resuming'
<1> USE DEF mainVars, flowVars, serverVars
<1>1. round \in 0..Len(Rounds) /\ Len(Rounds) \in Nat /\ Rounds # <<>>
      /\ direct \in Flows \cup {NoFlow} /\ Len(Rounds) >= 1
  <2>1. Len(Rounds) \in Nat /\ DOMAIN Rounds = 1..Len(Rounds)
    BY SchedulerAssumption, LenProperties
  <2>2. QED
    BY <2>1, FirstRound DEF TypeInv, MainTypeOK, CloseInv, MainPlace
<1>2. CASE StartBaseline \/ DiurnalRound
  <2>1. /\ CreateRound /\ cmd # "precursor" /\ round < Len(Rounds)
        /\ pc' \in {"gather", "sleep"}
    BY <1>1, <1>2 DEF StartBaseline, DiurnalRound, TypeInv, CloseInv, RunsInv, IInv, NotCreated
  <2>2. UNCHANGED <<cmd, direct, running, signals, left, servers, handle, known, launched, stop>>
        /\ round' = round + 1
    BY <2>1 DEF CreateRound
  <2>3. MainTypeOK'
    BY <1>1, <2>1, <2>2 DEF TypeInv, MainTypeOK
  <2>4. ServerTypeOK'
    BY <2>2 DEF TypeInv, ServerTypeOK
  <2>5. Resuming'
    BY <1>1, <2>1, <2>2, ResumingKept DEF TypeInv
  <2>6. QED
    BY <2>3, <2>4, <2>5
<1>3. CASE MainShutdown
  <2>1. ServerTypeOK' /\ Resuming' /\ running' = FALSE
    BY <1>3, ZeroStops, TypeShutdown DEF MainShutdown
  <2>2. MainTypeOK'
    BY <1>3, <2>1 DEF MainShutdown, TypeInv, MainTypeOK
  <2>3. QED
    BY <2>1, <2>2
<1>4. CASE Signal
  <2>1. /\ signals + 1 \in Stoppers /\ signals + 1 \in 0..MaxSignals
        /\ UNCHANGED <<cmd, pc, round, direct, left>> /\ signals' = signals + 1
        /\ Shutdown(signals + 1)
    BY <1>4, SchedulerAssumption DEF Signal, TypeInv, MainTypeOK, Stoppers
  <2>2. ServerTypeOK' /\ Resuming' /\ running' = FALSE
    BY <2>1, TypeShutdown
  <2>3. MainTypeOK'
    BY <2>1, <2>2 DEF TypeInv, MainTypeOK
  <2>4. QED
    BY <2>2, <2>3
<1>5. CASE StartPrecursor
  <2>1. PICK f \in Rounds[1] : direct' = f /\ Begin(f)
    BY <1>5 DEF StartPrecursor
  <2>2. /\ f \in Flows /\ cmd = "precursor" /\ pc = "init" /\ pc' = "flow"
        /\ UNCHANGED <<cmd, round, running, signals, left, servers, handle, launched, stop>>
    BY <1>5, FirstRound DEF StartPrecursor
  <2>3. direct = NoFlow /\ \A g \in Flows : flow[g] = "none"
    BY <2>2 DEF TypeInv, CloseInv, RunsInv, IInv, NotCreated
  <2>4. servers = <<>> /\ \A s \in Stoppers : stop[s] = Idle
    BY <2>2, <2>3 DEF TypeInv, Resuming
  <2>5. flow' \in {[flow EXCEPT ![f] = w] : w \in {"launch", "start", "sleep", "stop"}}
    BY <2>1 DEF Begin, StartGenerator, LoopHead
  <2>6. \A g \in Flows : flow'[g] # "pending" /\ (g # f => flow'[g] = "none")
    BY <2>2, <2>3, <2>5 DEF TypeInv, CloseInv, RunsInv, IInv, ServedIInv, FlowTypeOK
  <2>7. known' \subseteq Keys
    BY <2>1, <2>2, KeyOfFlow DEF Begin, TypeInv, ServerTypeOK
  <2>8. MainTypeOK'
    BY <2>2 DEF TypeInv, MainTypeOK
  <2>9. ServerTypeOK'
    BY <2>2, <2>7 DEF TypeInv, ServerTypeOK
  <2>10. Resuming'
    BY <2>1, <2>2, <2>4, <2>6 DEF Resuming, FindsItsServer
  <2>11. QED
    BY <2>8, <2>9, <2>10
<1>6. CASE PrecursorRaises
  <2>1. UNCHANGED <<cmd, round, direct, running, signals, left, flow, servers, handle, known,
                    launched, stop>>
        /\ pc' = "crashed"
    BY <1>6 DEF PrecursorRaises
  <2>2. Resuming'
    BY <1>1, <2>1, ResumingKept DEF TypeInv, Resuming
  <2>3. QED
    BY <2>1, <2>2 DEF TypeInv, MainTypeOK, ServerTypeOK
<1>7. CASE Teardown
  <2>1. /\ UNCHANGED <<cmd, round, direct, running, signals, left, servers, handle, known,
                       launched>>
        /\ pc' \in Over /\ stop' = [s \in Stoppers |-> Idle]
    BY <1>7 DEF Teardown, Over
  <2>2. \A f \in Flows : flow'[f] = IF flow[f] \in Waiting THEN "abandoned" ELSE flow[f]
    BY <1>7 DEF Teardown
  <2>3. MainTypeOK'
    BY <2>1 DEF TypeInv, MainTypeOK
  <2>4. ServerTypeOK'
    BY <2>1 DEF TypeInv, ServerTypeOK, Idle
  <2>5. Resuming'
    BY <1>1, <2>1, <2>2, Statuses DEF TypeInv, Resuming, FindsItsServer
  <2>6. QED
    BY <2>3, <2>4, <2>5
<1>8. QED
  BY <1>2, <1>3, <1>4, <1>5, <1>6, <1>7 DEF MainStep, GatherOver, PrecursorOver, DiurnalOver

\* Generators and docker processes.
LEMMA TypeRest ==
  ASSUME TypeInv, Environment \/ UNCHANGED vars
  PROVE  MainTypeOK' /\ ServerTypeOK' /\ Resuming'
<1>1. UNCHANGED <<mainVars, flow, servers, known, launched, stop>>
      /\ handle' \in {handle} \cup {[handle EXCEPT ![k] = "exited"] : k \in Keys}
  BY DEF Environment, GeneratorEnds, GeneratorFails, GeneratorStopped, DockerExits, vars,
         mainVars, flowVars, serverVars
<1>2. MainTypeOK' /\ ServerTypeOK'
  BY <1>1 DEF mainVars, TypeInv, MainTypeOK, ServerTypeOK
<1>3. Resuming'
  BY <1>1, ResumingKept DEF mainVars, TypeInv, CloseInv, MainPlace, Resuming
<1>4. QED
  BY <1>2, <1>3

LEMMA TypeStep == TypeInv /\ [Next]_vars => TypeInv'
<1>1. CloseInv /\ [Next]_vars => CloseInv'
  BY CloseStep
<1>2. QED
  BY <1>1, TypeFlow, TypeSpawn, TypeMain, TypeResumes, TypeRest DEF Next, Ended, TypeInv

\* The scheduler's state keeps its type: in particular the dictionary of servers has none
\* twice, although two flows may launch the same one at once.
THEOREM TypeCorrect == Spec => []TypeOK
<1>1. TypeInv => TypeOK
  BY DEF TypeInv, CloseInv, MainPlace, ClosedBehind, RunsInv, RowsTypeOK, IInv, ServedIInv,
         FlowTypeOK, MainTypeOK, ServerTypeOK, TypeOK
<1>2. QED
  BY <1>1, TypeInit, TypeStep, PTL DEF Spec

-----------------------------------------------------------------------------
(***************************************************************************)
(* What a shutdown leaves to be done.                                      *)
(***************************************************************************)

\* How many more steps run_flow(f) takes at most, once its task has been created.
FlowLeft(f) ==
  CASE flow[f] = "pending" -> 6 [] flow[f] = "launch" -> 5 [] flow[f] = "settle" -> 4
    [] flow[f] = "start" -> 3 [] flow[f] = "sleep" -> 2 [] flow[f] \in {"wait", "stop"} -> 1
    [] OTHER -> 0

\* The flow of a task only gets cancelled: no row, no generator, no new flow.
OnlyCancelled(f) ==
  /\ flow'[f] \in {flow[f], "abandoned"} /\ rows'[f] = rows[f]
  /\ gen[f] = "none" => gen'[f] = "none"

\* A step after running has become false.
Quiet ==
  /\ ~running'
  /\ \A f \in Flows :
       FlowLeft(f)' <= FlowLeft(f) /\ (FlowStep(f) => FlowLeft(f)' < FlowLeft(f))
  /\ \A f \in Flows \ {direct} : OnlyCancelled(f)

\* Every task that is not over has its cancellation to come.
CancelledOrOver ==
  ~running => \A f \in Flows \ {direct} : f \in doomed \/ flow[f] \in {"none"} \cup Finished

LEMMA CancelledOrOverStep ==
  ASSUME RunsInv, ~running, NEW f \in Flows \ {direct}
  PROVE  /\ f \in doomed \/ flow[f] \in {"none"} \cup Finished
         /\ flow[f] # "pending" /\ (f \in doomed => flow[f] \in Waiting)
<1>1. f \in Flows /\ f # direct
  OBVIOUS
<1>2. f \in doomed => flow[f] \in Waiting
  BY DEF RunsInv, IInv, ServedIInv, FlowTypeOK
<1>3. f \in doomed \/ flow[f] \in {"none"} \cup Finished
  BY <1>1 DEF RunsInv, FlowRuns
<1>4. "pending" \notin {"none"} \cup Finished \cup Waiting
  BY Statuses DEF Finished
<1>5. QED
  BY <1>2, <1>3, <1>4

\* A step of a flow brings the end of that flow nearer.
LEMMA FlowGetsOn ==
  ASSUME RunsInv, NEW f \in Flows, FlowStep(f)
  PROVE  FlowLeft(f)' < FlowLeft(f)
<1> USE DEF RunsInv, IInv, ServedIInv, FlowTypeOK
<1>1. /\ LoopHead \in {"sleep", "stop"}
      /\ \A x \in Finished :
           x \notin {"pending", "launch", "settle", "start", "sleep", "wait", "stop"}
  BY DEF LoopHead, Finished
<1>2. CASE FlowBegin(f)
  <2>1. flow[f] = "pending" /\ flow'[f] \in {"launch", "start", "sleep", "stop"}
    BY <1>1, <1>2 DEF FlowBegin, Begin, StartGenerator
  <2>2. QED
    BY <2>1 DEF FlowLeft
<1>3. CASE ServerSettled(f)
  <2>1. flow[f] = "settle" /\ flow'[f] \in {"start", "sleep", "stop"}
    BY <1>1, <1>3 DEF ServerSettled, StartGenerator, At
  <2>2. QED
    BY <2>1 DEF FlowLeft
<1>4. CASE GeneratorOver(f) \/ GeneratorRaised(f) \/ StopRaises(f)
  <2>1. flow[f] \in {"wait", "stop"} /\ flow'[f] \in {"completed", "failed", "raised"}
    BY <1>4 DEF GeneratorOver, GeneratorRaised, StopRaises, At
  <2>2. QED
    BY <2>1 DEF FlowLeft
<1>5. CASE FlowAbandoned(f)
  <2>1. flow[f] \in Waiting /\ flow'[f] = "abandoned"
    BY <1>5 DEF FlowAbandoned
  <2>2. QED
    BY <2>1 DEF FlowLeft, Waiting
<1>6. CASE ServerSpawned(f) \/ LaunchRaises(f)
  <2>1. flow[f] = "launch" /\ flow'[f] \in {"settle", "raised"}
    BY <1>6 DEF ServerSpawned, LaunchRaises, At
  <2>2. QED
    BY <2>1 DEF FlowLeft
<1>7. CASE Started(f) \/ StartFails(f) \/ SleepOver(f)
  <2>1. \/ flow[f] = "start" /\ flow'[f] \in {"sleep", "stop", "failed"}
        \/ flow[f] = "sleep" /\ flow'[f] \in {"wait", "stop"}
    BY <1>1, <1>7 DEF Started, StartFails, SleepOver, At
  <2>2. QED
    BY <2>1 DEF FlowLeft
<1>8. QED
  BY <1>2, <1>3, <1>4, <1>5, <1>6, <1>7 DEF FlowStep

\* The only step left to the flow of a task is its cancellation.
LEMMA TaskCancelled ==
  ASSUME RunsInv, ~running, NEW f \in Flows \ {direct}, FlowStep(f)
  PROVE  OnlyCancelled(f)
<1>1. f \in doomed /\ flow[f] # "pending"
  BY CancelledOrOverStep, FlowStepMoves, Statuses
<1>2. FlowAbandoned(f)
  BY <1>1
  DEF FlowStep, FlowBegin, ServerSpawned, ServerSettled, LaunchRaises, Started, StartFails,
      SleepOver, GeneratorOver, GeneratorRaised, StopRaises, At
<1>3. QED
  BY <1>2 DEF FlowAbandoned, OnlyCancelled, RunsInv, IInv, ServedIInv, FlowTypeOK

\* A flow whose place stays as it is.
LEMMA FlowLeftKept ==
  ASSUME NEW f \in Flows, flow'[f] = flow[f], RunsInv
  PROVE  FlowLeft(f)' = FlowLeft(f) /\ FlowLeft(f) \in Nat
BY DEF FlowLeft

LEMMA QuietStep ==
  ASSUME RunsInv, [Next]_vars, ~running
  PROVE  Quiet
<1> USE DEF RunsInv, IInv, ServedIInv, FlowTypeOK, mainVars, flowVars, serverVars
<1> DEFINE Still(f) ==
      flow'[f] = flow[f] /\ rows'[f] = rows[f] /\ (gen[f] = "none" => gen'[f] = "none")
<1>1. ASSUME NEW f \in Flows, Still(f)
      PROVE  FlowLeft(f)' = FlowLeft(f) /\ FlowLeft(f) \in Nat /\ OnlyCancelled(f)
  BY <1>1, FlowLeftKept DEF OnlyCancelled
<1>2. ASSUME NEW f \in Flows, FlowStep(f)
      PROVE  Quiet
  <2>1. ~running'
    BY <1>2, FlowStepMoves
  <2>2. \A g \in Flows : g # f => Still(g)
    <3>1. \A g \in Flows : g # f => flow'[g] = flow[g] /\ rows'[g] = rows[g]
      BY <1>2, FlowStepMoves
    <3>2. gen' = gen \/ \E x : gen' = [gen EXCEPT ![f] = x]
      BY <1>2
      DEF FlowStep, FlowBegin, Begin, StartGenerator, ServerSpawned, ServerSettled, LaunchRaises,
          Started, StartFails, SleepOver, GeneratorOver, GeneratorRaised, StopRaises, FlowAbandoned
    <3>3. QED
      BY <3>1, <3>2
  <2>3. FlowLeft(f)' < FlowLeft(f) /\ FlowLeft(f) \in Nat /\ FlowLeft(f)' \in Nat
    BY <1>2, FlowGetsOn DEF FlowLeft
  <2>4. f # direct => OnlyCancelled(f)
    BY <1>2, TaskCancelled
  <2>5. \A g \in Flows : FlowStep(g) => FlowLeft(g)' < FlowLeft(g)
    BY FlowGetsOn
  <2>6. \A g \in Flows : FlowLeft(g)' <= FlowLeft(g)
    BY <1>1, <2>2, <2>3
  <2>7. \A g \in Flows \ {direct} : OnlyCancelled(g)
    BY <1>1, <2>2, <2>4
  <2>8. QED
    BY <2>1, <2>5, <2>6, <2>7 DEF Quiet
<1>3. ASSUME ~running', \A f \in Flows : Still(f)
      PROVE  Quiet
  <2>1. \A f \in Flows : FlowStep(f) => FlowLeft(f)' < FlowLeft(f)
    BY FlowGetsOn
  <2>2. \A f \in Flows : FlowLeft(f)' <= FlowLeft(f) /\ OnlyCancelled(f)
    BY <1>1, <1>3
  <2>3. QED
    BY <1>3, <2>1, <2>2 DEF Quiet
<1>4. CASE MainShutdown \/ Signal
  <2>1. ~running' /\ CancelTasks /\ UNCHANGED <<gen, rows>>
    BY <1>4 DEF MainShutdown, Signal, Shutdown
  <2>2. \A f \in Flows : flow'[f] = flow[f]
    BY <2>1, CancelledOrOverStep DEF CancelTasks
  <2>3. QED
    BY <1>3, <2>1, <2>2
<1>5. CASE Teardown
  <2>1. ~running' /\ UNCHANGED rows
    BY <1>5 DEF Teardown
  <2>2. ASSUME NEW f \in Flows
        PROVE  /\ flow'[f] \in {flow[f], "abandoned"} /\ (gen[f] = "none" => gen'[f] = "none")
               /\ flow'[f] # flow[f] => flow[f] \in Waiting
    BY <1>5 DEF Teardown
  <2>3. \A f \in Flows : FlowLeft(f)' <= FlowLeft(f) /\ OnlyCancelled(f)
    <3>1. \A f \in Flows : FlowLeft(f)' <= FlowLeft(f)
      BY <2>2 DEF FlowLeft, Waiting
    <3>2. QED
      BY <2>1, <2>2, <3>1 DEF OnlyCancelled
  <2>4. \A f \in Flows : FlowStep(f) => FlowLeft(f)' < FlowLeft(f)
    BY FlowGetsOn
  <2>5. QED
    BY <2>1, <2>3, <2>4 DEF Quiet
<1>6. CASE \/ PrecursorRaises \/ Environment \/ UNCHANGED vars
           \/ \E s \in Stoppers : StopStep(s)
  <2>1. UNCHANGED <<running, flow, rows>>
    BY <1>6
    DEF PrecursorRaises, Environment, GeneratorEnds, GeneratorFails, GeneratorStopped, DockerExits,
        StopStep, StopResumes, StopKillRaises, LeaveStopAll, vars
  <2>2. \A f \in Flows : gen[f] = "none" => gen'[f] = "none"
    BY <1>6
    DEF PrecursorRaises, Environment, GeneratorEnds, GeneratorFails, GeneratorStopped, DockerExits,
        StopStep, StopResumes, StopKillRaises, LeaveStopAll, vars
  <2>3. QED
    BY <1>3, <2>1, <2>2
<1>7. ~(StartBaseline \/ StartPrecursor \/ DiurnalRound)
  BY DEF StartBaseline, StartPrecursor, DiurnalRound
<1>8. QED
  BY <1>2, <1>4, <1>5, <1>6, <1>7
  DEF Next, MainStep, GatherOver, PrecursorOver, DiurnalOver, Ended

\* The safety half of SignalEndsRun: once shutdown() has set running to false it stays so,
\* each flow gets on with every step of its own and is set back by no other, the flows of
\* tasks get nothing but their cancellation (no row, no generator and no new flow, whatever
\* they were waiting for and however many signals follow), and each of them that is not over
\* has its cancellation to come.
THEOREM ShutdownApproaches ==
  Spec => [][~running => Quiet]_vars /\ []CancelledOrOver
<1>1. RunsInv /\ [Next]_vars => [~running => Quiet]_vars
  BY QuietStep
<1>2. RunsInv => CancelledOrOver
  BY CancelledOrOverStep DEF CancelledOrOver
<1>3. QED
  BY <1>1, <1>2, RunsInit, RunsStep, PTL DEF Spec

-----------------------------------------------------------------------------
(***************************************************************************)
(* A run only gets on.                                                     *)
(***************************************************************************)

\* The stretches of main(), in order.
Stretch ==
  CASE pc = "init" -> 0 [] pc = "stopping" -> 2 [] pc \in {"exit", "crashed"} -> 3
    [] pc \in Over -> 4 [] OTHER -> 1

\* A step that moves main() gets it to a later stretch, or creates the next round; one that
\* moves a flow that has been created gets it nearer to its end.
GetsOn ==
  /\ pc' # pc => Stretch' > Stretch
  /\ round' # round => round' > round
  /\ \A f \in Flows : flow[f] # "none" =>
       /\ flow'[f] # "none" /\ FlowLeft(f)' <= FlowLeft(f)
       /\ flow'[f] # flow[f] => FlowLeft(f)' < FlowLeft(f)

\* How far a run can get.
FarAtMost ==
  /\ Stretch \in 0..4 /\ round \in 0..Len(Rounds)
  /\ \A f \in Flows : FlowLeft(f) \in 0..6

\* A flow that has been created is over after at most FlowLeft moves.
LEMMA FlowsGetOn ==
  ASSUME RunsInv, [Next]_vars, NEW f \in Flows, flow[f] # "none"
  PROVE  /\ flow'[f] # "none"
         /\ flow'[f] = flow[f] \/ FlowLeft(f)' < FlowLeft(f)
<1> USE DEF RunsInv, IInv, ServedIInv, FlowTypeOK, mainVars, flowVars, serverVars
<1>1. "none" \notin Waiting \cup Finished
  BY DEF Waiting, Finished
<1>2. ASSUME NEW g \in Flows, FlowStep(g)
      PROVE  flow'[f] # "none" /\ (flow'[f] = flow[f] \/ FlowLeft(f)' < FlowLeft(f))
  BY <1>1, <1>2, FlowStepMoves, FlowGetsOn
<1>3. CASE MainShutdown \/ Signal
  <2>1. CancelTasks
    BY <1>3 DEF MainShutdown, Signal, Shutdown
  <2>2. flow'[f] = flow[f] \/ (flow[f] = "pending" /\ flow'[f] = "cancelled")
    BY <2>1 DEF CancelTasks
  <2>3. QED
    BY <2>2 DEF FlowLeft
<1>4. CASE Teardown
  <2>1. flow'[f] = flow[f] \/ (flow[f] \in Waiting /\ flow'[f] = "abandoned")
    BY <1>4 DEF Teardown
  <2>2. QED
    BY <2>1 DEF FlowLeft, Waiting
<1>5. CASE StartBaseline \/ DiurnalRound
  <2>1. CreateRound /\ round + 1 \in DOMAIN Rounds /\ cmd # "precursor"
    BY <1>5, FirstRound, SchedulerAssumption, LenProperties
    DEF StartBaseline, DiurnalRound, NotCreated
  <2>2. f \notin Rounds[round + 1]
    BY <2>1 DEF NotCreated
  <2>3. QED
    BY <2>1, <2>2 DEF CreateRound
<1>6. ~StartPrecursor
  BY DEF StartPrecursor, NotCreated
<1>7. CASE \/ PrecursorRaises \/ Environment \/ UNCHANGED vars
           \/ \E s \in Stoppers : StopStep(s)
  BY <1>7
  DEF PrecursorRaises, Environment, GeneratorEnds, GeneratorFails, GeneratorStopped, DockerExits,
      StopStep, StopResumes, StopKillRaises, LeaveStopAll, vars
<1>8. QED
  BY <1>2, <1>3, <1>4, <1>5, <1>6, <1>7
  DEF Next, MainStep, GatherOver, PrecursorOver, DiurnalOver, Ended

\* main() never comes back.
LEMMA MainGetsOn ==
  ASSUME TypeInv, [Next]_vars
  PROVE  (pc' # pc => Stretch' > Stretch) /\ (round' # round => round' > round)
<1> USE DEF mainVars, flowVars, serverVars
<1>1. round \in Nat
  BY DEF TypeInv, CloseInv, RunsInv, IInv, NotCreated
<1>2. CASE StartBaseline \/ StartPrecursor \/ DiurnalRound
  BY <1>1, <1>2 DEF StartBaseline, StartPrecursor, DiurnalRound, CreateRound, Stretch, Over
<1>3. CASE GatherOver \/ PrecursorOver \/ DiurnalOver
  BY <1>3 DEF GatherOver, PrecursorOver, DiurnalOver, MainShutdown, Stretch, Over
<1>4. CASE PrecursorRaises \/ Teardown
  BY <1>4 DEF PrecursorRaises, Teardown, Stretch, Over
<1>5. CASE Signal \/ Environment \/ UNCHANGED vars \/ \E f \in Flows : FlowStep(f)
  <2>1. UNCHANGED <<pc, round>>
    BY <1>5, FlowStepMoves
    DEF Signal, Environment, GeneratorEnds, GeneratorFails, GeneratorStopped, DockerExits, vars,
        TypeInv, CloseInv
  <2>2. QED
    BY <2>1
<1>6. ASSUME NEW s \in Stoppers, StopStep(s)
      PROVE  (pc' # pc => Stretch' > Stretch) /\ (round' # round => round' > round)
  <2>1. round' = round /\ stop[s] # Idle
    BY <1>6 DEF StopStep, StopResumes, StopKillRaises, LeaveStopAll
  <2>2. pc' = pc \/ (s = 0 /\ pc' \in {"exit", "crashed"})
    BY <1>6 DEF StopStep, StopResumes, StopKillRaises, LeaveStopAll
  <2>3. s = 0 => pc = "stopping"
    BY <2>1 DEF TypeInv, CloseInv, ClosedBehind
  <2>4. QED
    BY <2>1, <2>2, <2>3 DEF Stretch, Over
<1>7. QED
  BY <1>2, <1>3, <1>4, <1>5, <1>6 DEF Next, MainStep, Ended

\* The safety half of Terminates: main() goes from stretch to stretch and only creates new
\* rounds, a flow that has been created never begins again, each of its steps gets it nearer
\* to its end and no other step, shutdown or signal sets it back; and none of this has more
\* than a bounded way to go.
THEOREM SchedulerGetsOn == Spec => [][GetsOn]_vars /\ []FarAtMost
<1>1. TypeInv /\ [Next]_vars => [GetsOn]_vars
  <2> SUFFICES ASSUME TypeInv, [Next]_vars PROVE GetsOn
    OBVIOUS
  <2>1. RunsInv
    BY DEF TypeInv, CloseInv
  <2>2. ASSUME NEW f \in Flows, flow[f] # "none"
        PROVE  /\ flow'[f] # "none" /\ FlowLeft(f)' <= FlowLeft(f)
               /\ flow'[f] # flow[f] => FlowLeft(f)' < FlowLeft(f)
    <3>1. flow'[f] # "none" /\ (flow'[f] = flow[f] \/ FlowLeft(f)' < FlowLeft(f))
      BY <2>1, <2>2, FlowsGetOn
    <3>2. FlowLeft(f) \in Nat /\ FlowLeft(f)' \in Nat
      BY DEF FlowLeft
    <3>3. flow'[f] = flow[f] => FlowLeft(f)' = FlowLeft(f)
      BY DEF FlowLeft
    <3>4. QED
      BY <3>1, <3>2, <3>3
  <2>3. QED
    BY <2>2, MainGetsOn DEF GetsOn
<1>2. TypeOK => FarAtMost
  BY DEF TypeOK, FarAtMost, Stretch, FlowLeft
<1>3. QED
  BY <1>1, <1>2, TypeCorrect, TypeInit, TypeStep, PTL DEF Spec
=============================================================================
