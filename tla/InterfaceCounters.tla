-------------------------- MODULE InterfaceCounters --------------------------
(***************************************************************************)
(* InterfaceCountersPoller of telemetry/pollers.py on one device: the byte *)
(* counters of its interfaces, the two commands that may read them, and    *)
(* the rates the poller computes with the reading it remembers.            *)
(*                                                                         *)
(* A command prints the counters at one time and its output is parsed at a *)
(* later one, up to DockerExecutor's timeout.  "show interface json" is    *)
(* followed by "ip -s link" if it fails or does not print JSON; the two    *)
(* share the memory of the last reading, although they list other names.   *)
(* Received and sent bytes are treated alike: one counter stands for both. *)
(***************************************************************************)
EXTENDS Integers

CONSTANTS
  Names,     \* the names of the device's interfaces, lo aside
  Tunnels,   \* those with "tun" in the name, which only ip -s link reports
  Unknown,   \* the name of an interface that has none
  NoReading, \* what the memory has of an interface it has not seen
  Line,      \* the bytes a line carries in a unit of time
  Timeout,   \* of a command
  MaxClock,  \* bound on the clock
  MaxResets, \* bound on how often an interface is created anew
  MaxPolls   \* bound on the polls

Listed == Names \cup {Unknown}
Counter == [bytes : Nat, resets : Nat]
Reading == [time : Int, bytes : Nat]
RowSet == [time : Int, bytes : Nat, resets : Nat, bps : Int, gap : Int,
           restarted : BOOLEAN]

ASSUME CountersAssumption ==
  /\ Tunnels \subseteq Names /\ Unknown \notin Names
  /\ NoReading \notin Reading /\ NoReading \notin RowSet
  /\ Line \in Nat /\ Timeout \in Nat
  /\ MaxClock \in Nat /\ MaxResets \in Nat /\ MaxPolls \in Nat

VARIABLES
  clock,   \* time.time()
  stepped, \* history: the clock has been set back
  bytes,   \* bytes[i]: the kernel's counter of interface i
  resets,  \* resets[i]: how often that counter started again from zero
  command, \* the command the poll waits for, "none" between two polls
  waited,  \* for how long
  polls,   \* the polls begun
  output,  \* what it has printed: readings by name
  prev,    \* prev[n]: _prev_counters of name n
  rows,    \* rows[n]: the last row of name n, with the resets of its counter
  total    \* total[n]: history of all its rows, see Parse

device == <<bytes, resets>>
poll == <<command, waited, polls, output>>
memory == <<prev, rows, total>>
vars == <<clock, stepped, device, poll, memory>>

NoOutput == [n \in {} |-> 0]

TypeOK ==
  /\ clock \in Int /\ stepped \in BOOLEAN
  /\ bytes \in [Names -> Nat] /\ resets \in [Names -> Nat]
  /\ command \in {"none", "vtysh", "ip"} /\ waited \in 0..Timeout /\ polls \in 0..MaxPolls
  /\ \E S \in SUBSET Listed : output \in [S -> Counter]
  /\ prev \in [Listed -> Reading \cup {NoReading}]
  /\ rows \in [Listed -> RowSet \cup {NoReading}]
  /\ total \in [Listed -> [drift : Int, slack : Nat]]

Init ==
  /\ clock = 0 /\ stepped = FALSE
  /\ bytes = [i \in Names |-> 0] /\ resets = [i \in Names |-> 0]
  /\ command = "none" /\ waited = 0 /\ polls = 0 /\ output = NoOutput
  /\ prev = [n \in Listed |-> NoReading]
  /\ rows = [n \in Listed |-> NoReading]
  /\ total = [n \in Listed |-> [drift |-> 0, slack |-> 0]]

-----------------------------------------------------------------------------
(***************************************************************************)
(* Time, the device and the collector's host                               *)
(***************************************************************************)
\* Mutant of Tick: a command is waited for as long as it takes.
TickAnyTime ==
  /\ clock < MaxClock /\ clock' = clock + 1
  /\ \E carried \in [Names -> 0..Line] :
       bytes' = [i \in Names |-> bytes[i] + carried[i]]
  /\ UNCHANGED <<stepped, resets, poll, memory>>

\* Traffic, while time goes by.  A command is not waited for beyond its timeout.
Tick ==
  /\ clock < MaxClock /\ clock' = clock + 1
  /\ \E carried \in [Names -> 0..Line] :
       bytes' = [i \in Names |-> bytes[i] + carried[i]]
  /\ IF command = "none" THEN waited' = waited
     ELSE waited < Timeout /\ waited' = waited + 1
  /\ UNCHANGED <<stepped, resets, command, polls, output, memory>>

\* A restart of the device, or a tunnel that is deleted and added.
Reset(i) ==
  /\ \A j \in Names : resets[j] < MaxResets
  /\ resets' = [resets EXCEPT ![i] = @ + 1]
  /\ bytes' = [bytes EXCEPT ![i] = 0]
  /\ UNCHANGED <<clock, stepped, poll, memory>>

\* time.time() is the host's clock, which may be set back.
StepBack ==
  /\ ~stepped /\ stepped' = TRUE
  /\ clock' = clock - 1
  /\ UNCHANGED <<device, poll, memory>>

-----------------------------------------------------------------------------
(***************************************************************************)
(* The poll                                                                *)
(***************************************************************************)
Start(c) == command' = c /\ waited' = 0 /\ output' = NoOutput

Ask ==
  /\ command = "none" /\ Start("vtysh")
  /\ polls < MaxPolls /\ polls' = polls + 1
  /\ UNCHANGED <<clock, stepped, device, memory>>

\* The command reads the counters and prints them.  FRR prints a list, whose
\* entries for tunnels are skipped, or an object with the interfaces' names as its
\* keys, which is taken for one interface that has neither a name nor counters.
Answer ==
  /\ command # "none" /\ output = NoOutput
  /\ \/ \E S \in SUBSET (IF command = "ip" THEN Names ELSE Names \ Tunnels) :
          output' = [i \in S |-> [bytes |-> bytes[i], resets |-> resets[i]]]
     \/ /\ command = "vtysh"
        /\ output' = [n \in {Unknown} |-> [bytes |-> 0, resets |-> 0]]
  /\ UNCHANGED <<clock, stepped, device, command, waited, polls, memory>>

\* The command fails, does not end in time, or prints no JSON: "ip -s link" is next.
\* There are no rows if that fails, too, or if the list is empty.
Fail ==
  /\ \/ command = "vtysh" /\ Start("ip")
     \/ command # "none" /\ Start("none")
  /\ UNCHANGED <<clock, stepped, device, polls, memory>>

Abs(a) == IF a < 0 THEN -a ELSE a

\* int(a / b), which rounds towards zero.
Trunc(a, b) ==
  IF (a < 0) = (b < 0) THEN Abs(a) \div Abs(b) ELSE -(Abs(a) \div Abs(b))

\* Mutant of Interval: the difference the wrong way round.
IntervalBackwards(b) == IF clock = b THEN 1 ELSE b - clock

\* "now - prev.get("time", now) or 1", with b = the time of the reading before.
Interval(b) == IF clock = b THEN 1 ELSE clock - b

\* The rate of name n.  It is 0 in its first row.
Rate(n) ==
  IF prev[n] = NoReading THEN 0
  ELSE Trunc((output[n].bytes - prev[n].bytes) * 8, Interval(prev[n].time))

\* Mutant of Remembered: _poll_via_ip forgets to store what it has read.
RememberedByVtysh(n) ==
  IF n \in DOMAIN output /\ command = "vtysh"
  THEN [time |-> clock, bytes |-> output[n].bytes] ELSE prev[n]

\* What the memory has of name n after the poll.
Remembered(n) ==
  IF n \in DOMAIN output THEN [time |-> clock, bytes |-> output[n].bytes] ELSE prev[n]

\* The time a reader of the rows of n takes its rate to be for.
Gap(n) ==
  IF rows[n] = NoReading \/ rows[n].time = clock THEN 1 ELSE clock - rows[n].time

\* The row of name n, with two things that its reader can tell from the row before.
Row(n) ==
  [time |-> clock, bytes |-> output[n].bytes, resets |-> output[n].resets,
   bps |-> Rate(n), gap |-> Gap(n),
   restarted |-> rows[n] # NoReading /\ output[n].resets # rows[n].resets]

\* _parse_interface_json and the end of _poll_via_ip: a row of every name that is
\* listed.  drift is the sum of its rates, each for the time since the row before, less
\* the bits between its first row and its last; slack is what rounding may cost.
Parse ==
  /\ command # "none" /\ output # NoOutput
  /\ prev' = [n \in Listed |-> Remembered(n)]
  /\ rows' = [n \in Listed |-> IF n \in DOMAIN output THEN Row(n) ELSE rows[n]]
  /\ total' = [n \in Listed |->
       IF n \notin DOMAIN output \/ rows[n] = NoReading THEN total[n]
       ELSE [drift |-> total[n].drift + Rate(n) * Gap(n)
                         - 8 * (output[n].bytes - rows[n].bytes),
             slack |-> total[n].slack + Abs(Gap(n)) - 1]]
  /\ Start("none")
  /\ UNCHANGED <<clock, stepped, device, polls>>

Next ==
  \/ Tick \/ StepBack \/ \E i \in Names : Reset(i)
  \/ Ask \/ Answer \/ Fail \/ Parse

Spec == Init /\ [][Next]_vars

-----------------------------------------------------------------------------
\* The rates of a name, each for the time since the row before, add up to the bytes
\* between its first row and its last: no poll that failed, no change between the two
\* commands and no reset is lost or counted twice.
RatesAddUp ==
  \A n \in Listed : Abs(total[n].drift) <= total[n].slack

\* A rate is negative only if the counter started again since the row before, or the
\* clock was set back.
NegativeOnlyAfterReset ==
  \A n \in Listed : rows[n] # NoReading /\ rows[n].bps < 0 =>
    rows[n].restarted \/ rows[n].gap < 0

\* A rate can be above what the line carries, since the counters are read before the
\* time is, but only by what a line carries in the time a command may take.
RateBounded ==
  ~stepped => \A n \in Listed : rows[n] # NoReading =>
    rows[n].bps * rows[n].gap <= 8 * Line * (rows[n].gap + Timeout)
=============================================================================
