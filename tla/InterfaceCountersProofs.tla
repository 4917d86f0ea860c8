----------------------- MODULE InterfaceCountersProofs -----------------------
(***************************************************************************)
(* Proofs about InterfaceCounters, for every set of interfaces, line speed *)
(* and timeout.                                                            *)
(***************************************************************************)
EXTENDS InterfaceCounters, TLAPS

-----------------------------------------------------------------------------
(***************************************************************************)
(* Arithmetic: division that rounds towards zero                           *)
(***************************************************************************)
\* A quotient times its divisor is short of the dividend by less than the divisor.
LEMMA DivBounds ==
  ASSUME NEW a \in Nat, NEW b \in Nat \ {0}
  PROVE  /\ a \div b \in Nat
         /\ (a \div b) * b <= a
         /\ a < (a \div b) * b + b
<1>1. a \div b \in Int BY SMT
<1>2. a = b * (a \div b) + (a % b) /\ a % b \in 0..(b-1) BY SMT
<1>3. a \div b >= 0 BY SMT
<1>. QED BY <1>1, <1>2, <1>3, SMT

\* The absolute value.
LEMMA AbsNat == ASSUME NEW a \in Int PROVE Abs(a) \in Nat /\ (Abs(a) = a \/ Abs(a) = -a)
BY DEF Abs

\* What int(a / b) loses is less than b, and it never has the wrong sign.
LEMMA TruncBounds ==
  ASSUME NEW a \in Int, NEW b \in Int \ {0}
  PROVE  /\ Trunc(a, b) \in Int
         /\ Abs(Trunc(a, b) * b - a) <= Abs(b) - 1
         /\ b > 0 => Trunc(a, b) * b <= Abs(a) /\ (a <= 0 => Trunc(a, b) <= 0)
                     /\ (a >= 0 => Trunc(a, b) >= 0 /\ Trunc(a, b) * b <= a)
<1>. DEFINE q == Abs(a) \div Abs(b)
<1>1. Abs(a) \in Nat /\ Abs(b) \in Nat \ {0} BY DEF Abs
<1>2. q \in Nat /\ q * Abs(b) <= Abs(a) /\ Abs(a) < q * Abs(b) + Abs(b)
  BY <1>1, DivBounds
<1>3. Trunc(a, b) = IF (a < 0) = (b < 0) THEN q ELSE -q BY DEF Trunc
<1>. HIDE DEF q
<1>4. CASE a < 0 /\ b < 0
  <2>1. Trunc(a, b) = q /\ Abs(a) = -a /\ Abs(b) = -b BY <1>3, <1>4 DEF Abs
  <2>2. q * (-b) = -(q * b) BY <1>2
  <2>. QED BY <1>2, <1>4, <2>1, <2>2 DEF Abs
<1>5. CASE a < 0 /\ b > 0
  <2>1. Trunc(a, b) = -q /\ Abs(a) = -a /\ Abs(b) = b BY <1>3, <1>5 DEF Abs
  <2>2. (-q) * b = -(q * b) BY <1>2
  <2>. QED BY <1>2, <1>5, <2>1, <2>2 DEF Abs
<1>6. CASE a >= 0 /\ b < 0
  <2>1. Trunc(a, b) = -q /\ Abs(a) = a /\ Abs(b) = -b BY <1>3, <1>6 DEF Abs
  <2>2. (-q) * b = q * (-b) /\ q * (-b) = -(q * b) BY <1>2
  <2>. QED BY <1>2, <1>6, <2>1, <2>2 DEF Abs
<1>7. CASE a >= 0 /\ b > 0
  <2>1. Trunc(a, b) = q /\ Abs(a) = a /\ Abs(b) = b BY <1>3, <1>7 DEF Abs
  <2>. QED BY <1>2, <1>7, <2>1 DEF Abs
<1>. QED BY <1>4, <1>5, <1>6, <1>7

-----------------------------------------------------------------------------
(***************************************************************************)
(* Types                                                                   *)
(***************************************************************************)
\* The row of a listed name, what is remembered of it, and its interval.
LEMMA RowType ==
  ASSUME TypeOK, NEW n \in Listed, n \in DOMAIN output
  PROVE  /\ output[n] \in Counter /\ Rate(n) \in Int /\ Gap(n) \in Int \ {0}
         /\ Row(n) \in RowSet /\ Remembered(n) \in Reading
<1>. USE CountersAssumption
<1>1. output[n] \in Counter /\ output[n].bytes \in Nat /\ output[n].resets \in Nat
  BY DEF TypeOK, Counter
<1>2. prev[n] # NoReading => prev[n].time \in Int /\ prev[n].bytes \in Nat
  BY DEF TypeOK, Reading
<1>3. rows[n] # NoReading => rows[n].time \in Int BY DEF TypeOK, RowSet
<1>4. clock \in Int BY DEF TypeOK
<1>5. \A b \in Int : Interval(b) \in Int \ {0} BY <1>4 DEF Interval
<1>6. Rate(n) \in Int
  <2>1. CASE prev[n] = NoReading BY <2>1 DEF Rate
  <2>2. CASE prev[n] # NoReading
    <3>1. (output[n].bytes - prev[n].bytes) * 8 \in Int BY <1>1, <1>2, <2>2
    <3>2. Interval(prev[n].time) \in Int \ {0} BY <1>2, <1>5, <2>2
    <3>. QED BY <2>2, <3>1, <3>2, TruncBounds DEF Rate
  <2>. QED BY <2>1, <2>2
<1>7. Gap(n) \in Int \ {0} BY <1>3, <1>4 DEF Gap
<1>8. Row(n) \in RowSet BY <1>1, <1>4, <1>6, <1>7 DEF Row, RowSet
<1>9. Remembered(n) \in Reading BY <1>1, <1>4 DEF Remembered, Reading
<1>. QED BY <1>1, <1>6, <1>7, <1>8, <1>9

\* A command that starts has printed nothing.
LEMMA StartType ==
  ASSUME NEW c \in {"none", "vtysh", "ip"}, Start(c)
  PROVE  /\ command' \in {"none", "vtysh", "ip"} /\ (waited \in 0..Timeout)'
         /\ (\E S \in SUBSET Listed : output \in [S -> Counter])'
         /\ DOMAIN output' = {}
<1>1. NoOutput \in [{} -> Counter] /\ DOMAIN NoOutput = {} BY DEF NoOutput
<1>2. 0 \in 0..Timeout BY CountersAssumption
<1>. QED BY <1>1, <1>2 DEF Start

LEMMA TypeInv == Spec => []TypeOK
<1>. USE CountersAssumption
<1>1. Init => TypeOK
  <2>. SUFFICES ASSUME Init PROVE TypeOK OBVIOUS
  <2>1. \E S \in SUBSET Listed : output \in [S -> Counter]
    <3>1. output \in [{} -> Counter] BY DEF Init, NoOutput
    <3>. QED BY <3>1
  <2>2. total \in [Listed -> [drift : Int, slack : Nat]] BY DEF Init
  <2>3. prev \in [Listed -> Reading \cup {NoReading}] BY DEF Init
  <2>4. rows \in [Listed -> RowSet \cup {NoReading}] BY DEF Init
  <2>5. bytes \in [Names -> Nat] /\ resets \in [Names -> Nat] BY DEF Init
  <2>6. command \in {"none", "vtysh", "ip"} /\ waited \in 0..Timeout /\ clock \in Int
    BY DEF Init
  <2>7. stepped \in BOOLEAN BY DEF Init
  <2>8. polls \in 0..MaxPolls BY DEF Init
  <2>. QED BY <2>1, <2>2, <2>3, <2>4, <2>5, <2>6, <2>7, <2>8 DEF TypeOK
<1>2. TypeOK /\ [Next]_vars => TypeOK'
  <2>. SUFFICES ASSUME TypeOK, [Next]_vars PROVE TypeOK' OBVIOUS
  <2>1. CASE Tick
    <3>1. PICK carried \in [Names -> 0..Line] :
            bytes' = [i \in Names |-> bytes[i] + carried[i]]
      BY <2>1 DEF Tick
    <3>2. bytes' \in [Names -> Nat] BY <3>1 DEF TypeOK
    <3>3. waited' \in 0..Timeout BY <2>1 DEF Tick, TypeOK
    <3>. QED BY <2>1, <3>2, <3>3 DEF Tick, TypeOK, memory
  <2>2. CASE StepBack BY <2>2 DEF StepBack, TypeOK, device, poll, memory
  <2>3. ASSUME NEW i \in Names, Reset(i) PROVE TypeOK'
    BY <2>3 DEF Reset, TypeOK, poll, memory
  <2>4. CASE Ask
    <3>1. Start("vtysh") /\ polls' \in 0..MaxPolls BY <2>4 DEF Ask, TypeOK
    <3>. QED BY <2>4, <3>1, StartType DEF Ask, TypeOK, device, memory
  <2>5. CASE Answer
    <3>1. (\E S \in SUBSET Listed : output \in [S -> Counter])'
      <4>1. CASE output' = [n \in {Unknown} |-> [bytes |-> 0, resets |-> 0]]
        BY <4>1 DEF Listed, Counter
      <4>2. ASSUME NEW S \in SUBSET Names,
                   output' = [i \in S |-> [bytes |-> bytes[i], resets |-> resets[i]]]
            PROVE  output' \in [S -> Counter] /\ S \in SUBSET Listed
        BY <4>2 DEF TypeOK, Counter, Listed
      <4>. QED BY <2>5, <4>1, <4>2 DEF Answer
    <3>. QED BY <2>5, <3>1 DEF Answer, TypeOK, device, memory
  <2>6. CASE Fail
    <3>1. Start("ip") \/ Start("none") BY <2>6 DEF Fail
    <3>. QED BY <2>6, <3>1, StartType DEF Fail, TypeOK, device, memory
  <2>7. CASE Parse
    <3>1. Start("none") BY <2>7 DEF Parse
    <3>2. prev' \in [Listed -> Reading \cup {NoReading}]
      <4>1. \A n \in Listed : Remembered(n) \in Reading \cup {NoReading}
        BY RowType DEF Remembered, TypeOK
      <4>. QED BY <2>7, <4>1 DEF Parse
    <3>3. rows' \in [Listed -> RowSet \cup {NoReading}]
      <4>1. \A n \in Listed : n \in DOMAIN output => Row(n) \in RowSet BY RowType
      <4>2. \A n \in Listed : rows[n] \in RowSet \cup {NoReading} BY DEF TypeOK
      <4>. QED BY <2>7, <4>1, <4>2 DEF Parse
    <3>4. total' \in [Listed -> [drift : Int, slack : Nat]]
      <4>1. SUFFICES ASSUME NEW n \in Listed
                     PROVE  total'[n] \in [drift : Int, slack : Nat]
        BY <2>7 DEF Parse
      <4>2. total[n] \in [drift : Int, slack : Nat] BY DEF TypeOK
      <4>3. CASE n \notin DOMAIN output \/ rows[n] = NoReading
        BY <2>7, <4>2, <4>3 DEF Parse
      <4>4. CASE ~(n \notin DOMAIN output \/ rows[n] = NoReading)
        <5>1. Rate(n) \in Int /\ Gap(n) \in Int \ {0} /\ output[n].bytes \in Nat
          BY <4>4, RowType DEF Counter
        <5>2. Abs(Gap(n)) \in Nat /\ Abs(Gap(n)) >= 1 BY <5>1 DEF Abs
        <5>3. rows[n].bytes \in Nat BY <4>4 DEF TypeOK, RowSet
        <5>4. total'[n] = [drift |-> total[n].drift + Rate(n) * Gap(n)
                                       - 8 * (output[n].bytes - rows[n].bytes),
                           slack |-> total[n].slack + Abs(Gap(n)) - 1]
          BY <2>7, <4>4 DEF Parse
        <5>5. total[n].drift \in Int /\ total[n].slack \in Nat BY <4>2
        <5>6. Rate(n) * Gap(n) \in Int BY <5>1
        <5>7. total[n].drift + Rate(n) * Gap(n)
                - 8 * (output[n].bytes - rows[n].bytes) \in Int
          BY <5>1, <5>3, <5>5, <5>6
        <5>8. total[n].slack + Abs(Gap(n)) - 1 \in Nat BY <5>2, <5>5
        <5>. QED BY <5>4, <5>7, <5>8
      <4>. QED BY <4>3, <4>4
    <3>. QED BY <2>7, <3>1, <3>2, <3>3, <3>4, StartType DEF Parse, TypeOK, device
  <2>8. CASE UNCHANGED vars
    BY <2>8 DEF vars, device, poll, memory, TypeOK
  <2>. QED BY <2>1, <2>2, <2>3, <2>4, <2>5, <2>6, <2>7, <2>8 DEF Next
<1>. QED BY <1>1, <1>2, PTL DEF Spec

\* The type invariant, for every device.
THEOREM TypeCorrect == Spec => []TypeOK
BY TypeInv, PTL

-----------------------------------------------------------------------------
(***************************************************************************)
(* The rates add up                                                        *)
(***************************************************************************)
\* The memory holds the last row of each name, whichever command it came from.
Linked ==
  \A n \in Listed :
    /\ prev[n] = NoReading <=> rows[n] = NoReading
    /\ rows[n] # NoReading => prev[n] = [time |-> rows[n].time, bytes |-> rows[n].bytes]

SumInv == TypeOK /\ Linked /\ RatesAddUp

\* With the last row in the memory, the poller's interval is the reader's.
LEMMA RateOfRow ==
  ASSUME TypeOK, Linked, NEW n \in Listed, n \in DOMAIN output, rows[n] # NoReading
  PROVE  /\ Rate(n) = Trunc((output[n].bytes - rows[n].bytes) * 8, Gap(n))
         /\ Gap(n) = IF rows[n].time = clock THEN 1 ELSE clock - rows[n].time
         /\ rows[n].bytes \in Nat /\ rows[n].time \in Int /\ output[n].bytes \in Nat
         /\ clock \in Int
<1>1. prev[n] # NoReading /\ prev[n].time = rows[n].time /\ prev[n].bytes = rows[n].bytes
  <2>1. prev[n] # NoReading BY DEF Linked
  <2>2. prev[n] = [time |-> rows[n].time, bytes |-> rows[n].bytes] BY DEF Linked
  <2>. QED BY <2>1, <2>2
<1>2. Gap(n) = IF rows[n].time = clock THEN 1 ELSE clock - rows[n].time BY DEF Gap
<1>3. Interval(prev[n].time) = Gap(n) BY <1>1, <1>2 DEF Interval
<1>4. rows[n].bytes \in Nat /\ rows[n].time \in Int BY DEF TypeOK, RowSet
<1>5. output[n].bytes \in Nat BY RowType DEF Counter
<1>. QED BY <1>1, <1>2, <1>3, <1>4, <1>5 DEF Rate, TypeOK

\* |x| <= s and |y| <= t give |x + y| <= s + t.
LEMMA AbsSum ==
  ASSUME NEW x \in Int, NEW y \in Int, NEW s \in Int, NEW t \in Int,
         Abs(x) <= s, Abs(y) <= t
  PROVE  Abs(x + y) <= s + t
BY DEF Abs

\* What Parse leaves of a name: the row and the memory of one that was listed.
LEMMA ParsedName ==
  ASSUME Parse, NEW n \in Listed
  PROVE  /\ n \in DOMAIN output =>
              rows'[n] = Row(n) /\ prev'[n] = [time |-> clock, bytes |-> output[n].bytes]
         /\ n \notin DOMAIN output => rows'[n] = rows[n] /\ prev'[n] = prev[n]
BY DEF Parse, Remembered

LEMMA SumInvariant == Spec => []SumInv
<1>. USE CountersAssumption
<1>1. Init => Linked /\ RatesAddUp
  BY DEF Init, Linked, RatesAddUp, Abs
<1>2. SumInv /\ TypeOK' /\ [Next]_vars => SumInv'
  <2>. SUFFICES ASSUME SumInv, TypeOK', [Next]_vars PROVE Linked' /\ RatesAddUp'
    BY DEF SumInv
  <2>1. CASE Parse
    <3>1. Linked'
      <4>1. SUFFICES ASSUME NEW n \in Listed
                     PROVE /\ prev'[n] = NoReading <=> rows'[n] = NoReading
                           /\ rows'[n] # NoReading =>
                                prev'[n] = [time |-> rows'[n].time, bytes |-> rows'[n].bytes]
        BY DEF Linked
      <4>2. CASE n \notin DOMAIN output
        BY <2>1, <4>2, ParsedName DEF SumInv, Linked
      <4>3. CASE n \in DOMAIN output
        <5>1. rows'[n] = Row(n) /\ prev'[n] = [time |-> clock, bytes |-> output[n].bytes]
          BY <2>1, <4>3, ParsedName
        <5>2. Row(n) # NoReading /\ prev'[n] \in Reading
          BY <4>3, <5>1, RowType DEF SumInv, Remembered
        <5>3. Row(n).time = clock /\ Row(n).bytes = output[n].bytes BY DEF Row
        <5>. QED BY <5>1, <5>2, <5>3
      <4>. QED BY <4>2, <4>3
    <3>2. RatesAddUp'
      <4>1. SUFFICES ASSUME NEW n \in Listed
                     PROVE  Abs(total'[n].drift) <= total'[n].slack
        BY DEF RatesAddUp, Abs
      <4>2. CASE n \notin DOMAIN output \/ rows[n] = NoReading
        BY <2>1, <4>2 DEF Parse, SumInv, RatesAddUp
      <4>3. CASE ~(n \notin DOMAIN output \/ rows[n] = NoReading)
        <5>. DEFINE x == total[n].drift
                    y == Rate(n) * Gap(n) - (output[n].bytes - rows[n].bytes) * 8
                    s == total[n].slack
        <5>1. total'[n] = [drift |-> total[n].drift + Rate(n) * Gap(n)
                                       - 8 * (output[n].bytes - rows[n].bytes),
                           slack |-> total[n].slack + Abs(Gap(n)) - 1]
          BY <2>1, <4>3 DEF Parse
        <5>2. x \in Int /\ s \in Nat /\ Abs(x) <= s
          BY DEF SumInv, TypeOK, RatesAddUp
        <5>3. Gap(n) \in Int \ {0} /\ Rate(n) \in Int
          BY <4>3, RowType DEF SumInv
        <5>4. output[n].bytes \in Nat /\ rows[n].bytes \in Nat
          BY <4>3, RateOfRow DEF SumInv
        <5>5. Abs(Gap(n)) - 1 \in Int BY <5>3 DEF Abs
        <5>6. y \in Int /\ Abs(y) <= Abs(Gap(n)) - 1
          <6>1. (output[n].bytes - rows[n].bytes) * 8 \in Int BY <5>4
          <6>2. Rate(n) = Trunc((output[n].bytes - rows[n].bytes) * 8, Gap(n))
            BY <4>3, RateOfRow DEF SumInv
          <6>3. Rate(n) * Gap(n) \in Int BY <5>3
          <6>4. Abs(Trunc((output[n].bytes - rows[n].bytes) * 8, Gap(n)) * Gap(n)
                      - (output[n].bytes - rows[n].bytes) * 8) <= Abs(Gap(n)) - 1
            BY <5>3, <6>1, TruncBounds
          <6>5. y \in Int BY <6>1, <6>3
          <6>. QED BY <6>2, <6>4, <6>5
        <5>7. total'[n].drift = x + y
          <6>1. Rate(n) * Gap(n) \in Int BY <5>3
          <6>. QED BY <5>1, <5>2, <5>4, <6>1
        <5>8. total'[n].slack = s + (Abs(Gap(n)) - 1) BY <5>1, <5>2, <5>5
        <5>. HIDE DEF x, y, s
        <5>9. Abs(x + y) <= s + (Abs(Gap(n)) - 1)
          BY <5>2, <5>5, <5>6, AbsSum
        <5>. QED BY <5>7, <5>8, <5>9
      <4>. QED BY <4>2, <4>3
    <3>. QED BY <3>1, <3>2
  <2>2. CASE UNCHANGED memory
    <3>1. prev' = prev /\ rows' = rows /\ total' = total BY <2>2 DEF memory
    <3>. QED BY <3>1 DEF SumInv, Linked, RatesAddUp, Abs
  <2>3. [Next]_vars => Parse \/ UNCHANGED memory
    BY DEF Next, vars, Tick, StepBack, Reset, Ask, Answer, Fail
  <2>. QED BY <2>1, <2>2, <2>3
<1>. QED BY <1>1, <1>2, TypeInv, PTL DEF Spec, SumInv

\* Nothing is lost or counted twice between the rows of a name, whatever commands and
\* polls fail, whatever is reset and wherever the clock is set.
THEOREM RatesAddUpCorrect == Spec => []RatesAddUp
BY SumInvariant, PTL DEF SumInv

-----------------------------------------------------------------------------
(***************************************************************************)
(* Negative rates                                                          *)
(***************************************************************************)
\* A counter c of name n that was read before: the kernel's is not behind it.
Before(n, c) ==
  IF n \in Names
  THEN c.resets <= resets[n] /\ (c.resets = resets[n] => c.bytes <= bytes[n])
  ELSE c.resets = 0 /\ c.bytes = 0

\* Counter d of name n is not behind counter c.
NotBehind(c, d) == c.resets <= d.resets /\ (c.resets = d.resets => c.bytes <= d.bytes)

ReadOnce ==
  \A n \in Listed :
    /\ n \in DOMAIN output => Before(n, output[n])
    /\ rows[n] # NoReading => Before(n, rows[n])
    /\ n \in DOMAIN output /\ rows[n] # NoReading => NotBehind(rows[n], output[n])

ResetInv == TypeOK /\ Linked /\ ReadOnce /\ NegativeOnlyAfterReset

\* The kernel's counters only grow, apart from resets that are counted.
LEMMA StaysBefore ==
  ASSUME TypeOK, Tick \/ (\E i \in Names : Reset(i)) \/ UNCHANGED device,
         NEW n \in Listed, NEW c, c.bytes \in Nat, c.resets \in Nat, Before(n, c)
  PROVE  Before(n, c)'
<1>1. CASE n \notin Names BY <1>1 DEF Before
<1>2. CASE n \in Names
  <2>0. bytes[n] \in Nat /\ resets[n] \in Nat BY <1>2 DEF TypeOK
  <2>1. CASE Tick
    <3>1. PICK carried \in [Names -> 0..Line] :
            bytes' = [i \in Names |-> bytes[i] + carried[i]]
      BY <2>1 DEF Tick
    <3>2. carried[n] \in 0..Line BY <1>2
    <3>3. bytes'[n] = bytes[n] + carried[n] /\ resets' = resets
      BY <1>2, <2>1, <3>1 DEF Tick
    <3>. QED BY <1>2, <2>0, <3>2, <3>3 DEF Before
  <2>2. ASSUME NEW i \in Names, Reset(i) PROVE Before(n, c)'
    <3>1. CASE i = n
      <4>1. resets'[n] = resets[n] + 1 BY <2>2, <3>1 DEF Reset, TypeOK
      <4>. QED BY <1>2, <2>0, <4>1 DEF Before
    <3>2. CASE i # n
      <4>1. resets'[n] = resets[n] /\ bytes'[n] = bytes[n]
        BY <1>2, <2>2, <3>2 DEF Reset, TypeOK
      <4>. QED BY <1>2, <4>1 DEF Before
    <3>. QED BY <3>1, <3>2
  <2>3. CASE UNCHANGED device BY <2>3 DEF device, Before
  <2>. QED BY <2>1, <2>2, <2>3
<1>. QED BY <1>1, <1>2

LEMMA ResetInvariant == Spec => []ResetInv
<1>. USE CountersAssumption
<1>1. Init => ReadOnce /\ NegativeOnlyAfterReset
  BY DEF Init, ReadOnce, NegativeOnlyAfterReset, NoOutput
<1>2. ResetInv /\ TypeOK' /\ [Next]_vars => ReadOnce' /\ NegativeOnlyAfterReset'
  <2>. SUFFICES ASSUME ResetInv, TypeOK', [Next]_vars
                PROVE  ReadOnce' /\ NegativeOnlyAfterReset'
    OBVIOUS
  <2>. USE DEF ResetInv
  <2>1. \A n \in Listed : rows[n] # NoReading =>
          rows[n].bytes \in Nat /\ rows[n].resets \in Nat
    BY DEF TypeOK, RowSet
  <2>2. \A n \in Listed : n \in DOMAIN output =>
          output[n].bytes \in Nat /\ output[n].resets \in Nat
    BY RowType DEF Counter
  <2>3. ASSUME UNCHANGED <<output, rows>>,
               Tick \/ (\E i \in Names : Reset(i)) \/ UNCHANGED device
        PROVE  ReadOnce' /\ NegativeOnlyAfterReset'
    <3>1. ASSUME NEW n \in Listed, n \in DOMAIN output PROVE Before(n, output[n])'
      <4>1. PICK c : c = output[n] OBVIOUS
      <4>2. c.bytes \in Nat /\ c.resets \in Nat /\ Before(n, c)
        BY <2>2, <3>1, <4>1 DEF ReadOnce
      <4>3. Before(n, c)' BY <2>3, <4>2, StaysBefore
      <4>4. output'[n] = c BY <2>3, <4>1
      <4>. QED BY <4>3, <4>4 DEF Before
    <3>2. ASSUME NEW n \in Listed, rows[n] # NoReading PROVE Before(n, rows[n])'
      <4>1. PICK c : c = rows[n] OBVIOUS
      <4>2. c.bytes \in Nat /\ c.resets \in Nat /\ Before(n, c)
        BY <2>1, <3>2, <4>1 DEF ReadOnce
      <4>3. Before(n, c)' BY <2>3, <4>2, StaysBefore
      <4>4. rows'[n] = c BY <2>3, <4>1
      <4>. QED BY <4>3, <4>4 DEF Before
    <3>3. ReadOnce' BY <2>3, <3>1, <3>2 DEF ReadOnce, NotBehind
    <3>4. NegativeOnlyAfterReset' BY <2>3 DEF NegativeOnlyAfterReset
    <3>. QED BY <3>3, <3>4
  <2>4. ASSUME DOMAIN output' = {}, UNCHANGED <<device, rows>>
        PROVE  ReadOnce' /\ NegativeOnlyAfterReset'
    <3>1. ReadOnce' BY <2>4 DEF ReadOnce, Before, device
    <3>2. NegativeOnlyAfterReset' BY <2>4 DEF NegativeOnlyAfterReset
    <3>. QED BY <3>1, <3>2
  <2>5. CASE Tick \/ (\E i \in Names : Reset(i)) \/ StepBack \/ UNCHANGED vars
    <3>1. UNCHANGED <<output, rows>>
      BY <2>5 DEF Tick, Reset, StepBack, vars, poll, memory
    <3>2. Tick \/ (\E i \in Names : Reset(i)) \/ UNCHANGED device
      BY <2>5 DEF StepBack, vars
    <3>. QED BY <2>3, <3>1, <3>2
  <2>6. CASE Ask \/ Fail
    <3>1. DOMAIN output' = {} /\ UNCHANGED <<device, rows>>
      BY <2>6, StartType DEF Ask, Fail, memory
    <3>. QED BY <2>4, <3>1
  <2>7. CASE Answer
    <3>1. UNCHANGED <<bytes, resets, rows>> BY <2>7 DEF Answer, device, memory
    <3>2. NegativeOnlyAfterReset' BY <3>1 DEF NegativeOnlyAfterReset
    <3>3. ASSUME NEW n \in Listed, n \in DOMAIN output'
          PROVE  output'[n] = IF n \in Names
                              THEN [bytes |-> bytes[n], resets |-> resets[n]]
                              ELSE [bytes |-> 0, resets |-> 0]
      BY <2>7, <3>3 DEF Answer, Listed
    <3>4. ReadOnce'
      <4>1. SUFFICES ASSUME NEW n \in Listed
                     PROVE  /\ n \in DOMAIN output' => Before(n, output[n])'
                            /\ rows'[n] # NoReading => Before(n, rows[n])'
                            /\ n \in DOMAIN output' /\ rows'[n] # NoReading =>
                                 NotBehind(rows'[n], output'[n])
        BY DEF ReadOnce
      <4>2. rows[n] # NoReading => Before(n, rows[n]) BY DEF ReadOnce
      <4>3. n \in Names => bytes[n] \in Nat /\ resets[n] \in Nat BY DEF TypeOK
      <4>4. n \in DOMAIN output' => Before(n, output[n])'
        BY <3>1, <3>3, <4>3 DEF Before
      <4>5. rows'[n] # NoReading => Before(n, rows[n])' BY <3>1, <4>2 DEF Before
      <4>6. n \in DOMAIN output' /\ rows'[n] # NoReading => NotBehind(rows'[n], output'[n])
        BY <2>1, <3>1, <3>3, <4>2, <4>3 DEF Before, NotBehind
      <4>. QED BY <4>4, <4>5, <4>6
    <3>. QED BY <3>2, <3>4
  <2>8. CASE Parse
    <3>1. DOMAIN output' = {} /\ UNCHANGED <<bytes, resets>>
      BY <2>8, StartType DEF Parse, device
    <3>2. ASSUME NEW n \in Listed, n \in DOMAIN output
          PROVE  rows'[n] = Row(n) /\ Before(n, Row(n))
      <4>1. rows'[n] = Row(n) BY <2>8, <3>2, ParsedName
      <4>2. Row(n).bytes = output[n].bytes /\ Row(n).resets = output[n].resets BY DEF Row
      <4>3. Before(n, output[n]) BY <3>2 DEF ReadOnce
      <4>. QED BY <4>1, <4>2, <4>3 DEF Before
    <3>3. \A n \in Listed : n \notin DOMAIN output => rows'[n] = rows[n]
      BY <2>8, ParsedName
    <3>4. ReadOnce'
      <4>1. \A n \in Listed : rows'[n] # NoReading => Before(n, rows'[n])
        BY <3>2, <3>3 DEF ReadOnce
      <4>. QED BY <3>1, <4>1 DEF ReadOnce, Before
    <3>5. NegativeOnlyAfterReset'
      <4>1. SUFFICES ASSUME NEW n \in Listed, n \in DOMAIN output,
                            Rate(n) < 0, ~Row(n).restarted, ~(Gap(n) < 0)
                     PROVE  FALSE
        <5>1. \A n \in Listed : Row(n).bps = Rate(n) /\ Row(n).gap = Gap(n) BY DEF Row
        <5>. QED BY <3>2, <3>3, <5>1 DEF NegativeOnlyAfterReset
      <4>2. rows[n] # NoReading
        <5>1. prev[n] # NoReading BY <4>1 DEF Rate
        <5>. QED BY <5>1 DEF Linked
      <4>3. Gap(n) \in Int /\ Gap(n) > 0 BY <4>1, RowType
      <4>4. rows[n].bytes <= output[n].bytes
        <5>1. output[n].resets = rows[n].resets BY <4>1, <4>2 DEF Row
        <5>. QED BY <4>1, <4>2, <5>1 DEF ReadOnce, NotBehind
      <4>5. (output[n].bytes - rows[n].bytes) * 8 \in Int
            /\ (output[n].bytes - rows[n].bytes) * 8 >= 0
        BY <2>1, <2>2, <4>1, <4>2, <4>4
      <4>6. Trunc((output[n].bytes - rows[n].bytes) * 8, Gap(n)) >= 0
        BY <4>3, <4>5, TruncBounds
      <4>7. Rate(n) >= 0 BY <4>1, <4>2, <4>6, RateOfRow
      <4>8. Rate(n) \in Int BY <4>1, RowType
      <4>. QED BY <4>1, <4>7, <4>8
    <3>. QED BY <3>4, <3>5
  <2>. QED BY <2>5, <2>6, <2>7, <2>8 DEF Next
<1>. QED BY <1>1, <1>2, TypeInv, SumInvariant, PTL DEF Spec, SumInv, ResetInv

\* A negative rate is never the fault of the poller.
THEOREM NegativeOnlyAfterResetCorrect == Spec => []NegativeOnlyAfterReset
BY ResetInvariant, PTL DEF ResetInv

-----------------------------------------------------------------------------
(***************************************************************************)
(* The bound on the rates                                                  *)
(***************************************************************************)
\* As long as the clock runs forward: how far a counter, or what a command has printed,
\* can be ahead of what the command printed and of the last row.
Timely(n) ==
  /\ n \in DOMAIN output /\ n \in Names => bytes[n] <= output[n].bytes + Line * waited
  /\ rows[n] # NoReading =>
       /\ rows[n].time <= clock
       /\ n \in Names =>
            bytes[n] <= rows[n].bytes + Line * (clock - rows[n].time + Timeout)
       /\ n \in DOMAIN output =>
            output[n].bytes <= rows[n].bytes + Line * (clock - rows[n].time + Timeout)

OnTime ==
  /\ command = "none" => DOMAIN output = {}
  /\ ~stepped => \A n \in Listed : Timely(n)

TimeInv == TypeOK /\ Linked /\ ReadOnce /\ OnTime /\ RateBounded

\* Line * k grows with k, by Line in each unit of time.
LEMMA LineTimes ==
  ASSUME NEW j \in Nat, NEW k \in Nat, j <= k
  PROVE  /\ Line * j \in Nat /\ Line * k \in Nat /\ Line * j <= Line * k
         /\ Line * (k + 1) = Line * k + Line
<1>. USE CountersAssumption
<1>1. \A m \in Nat : Line * m \in Nat BY SMT
<1>2. PICK d \in Nat : k = j + d
  <2>1. k - j \in Nat /\ k = j + (k - j) OBVIOUS
  <2>. QED BY <2>1
<1>3. Line * (j + d) = Line * j + Line * d BY SMT
<1>4. Line * (k + 1) = Line * k + Line BY SMT
<1>. QED BY <1>1, <1>2, <1>3, <1>4

LEMMA TimeInvariant == Spec => []TimeInv
<1>. USE CountersAssumption
<1>1. Init => OnTime /\ RateBounded
  BY DEF Init, RateBounded, OnTime, Timely, NoOutput
<1>2. TimeInv /\ TypeOK' /\ [Next]_vars => OnTime' /\ RateBounded'
  <2>. SUFFICES ASSUME TimeInv, TypeOK', [Next]_vars PROVE OnTime' /\ RateBounded'
    OBVIOUS
  <2>. USE DEF TimeInv
  <2>1. (command = "none" => DOMAIN output = {})'
    <3>1. CASE Ask \/ Fail \/ Parse
      BY <3>1, StartType DEF Ask, Fail, Parse
    <3>2. CASE Answer BY <3>2 DEF Answer
    <3>3. CASE Tick \/ (\E i \in Names : Reset(i)) \/ StepBack \/ UNCHANGED vars
      BY <3>3 DEF Tick, Reset, StepBack, vars, poll, OnTime
    <3>. QED BY <3>1, <3>2, <3>3 DEF Next
  <2>2. CASE stepped'
    BY <2>1, <2>2 DEF OnTime, RateBounded
  <2>3. CASE ~stepped'
    <3>0. ~stepped
      BY <2>3 DEF Next, Tick, Reset, StepBack, Ask, Answer, Fail, Parse, vars
    <3>1. \A n \in Listed : Timely(n) BY <3>0 DEF OnTime
    <3>2. \A n \in Listed : rows[n] # NoReading =>
            rows[n].bytes \in Nat /\ rows[n].time \in Int /\ clock - rows[n].time \in Nat
      BY <3>1 DEF TypeOK, RowSet, Timely
    <3>3. \A n \in Listed : n \in DOMAIN output => output[n].bytes \in Nat
      BY RowType DEF Counter
    <3>4. \A n \in Names : bytes[n] \in Nat BY DEF TypeOK
    <3>5. clock \in Int /\ waited \in 0..Timeout BY DEF TypeOK
    <3>6. UNCHANGED rows => RateBounded' BY <3>0 DEF RateBounded
    <3>. SUFFICES RateBounded' /\ (\A n \in Listed : Timely(n))'
      BY <2>1 DEF OnTime
    <3>7. CASE Tick
      <4>1. UNCHANGED <<output, rows, command>> /\ clock' = clock + 1
        BY <3>7 DEF Tick, memory
      <4>2. PICK carried \in [Names -> 0..Line] :
              bytes' = [i \in Names |-> bytes[i] + carried[i]]
        BY <3>7 DEF Tick
      <4>3. SUFFICES ASSUME NEW n \in Listed PROVE Timely(n)' BY <3>6, <4>1
      <4>4. ASSUME n \in Names PROVE bytes'[n] \in Nat /\ bytes'[n] <= bytes[n] + Line
        <5>1. carried[n] \in 0..Line /\ bytes'[n] = bytes[n] + carried[n]
          BY <4>2, <4>4
        <5>. QED BY <3>4, <4>4, <5>1
      <4>5. ASSUME n \in DOMAIN output, n \in Names
            PROVE  bytes'[n] <= output[n].bytes + Line * waited'
        <5>1. waited' = waited + 1 BY <3>7, <4>5 DEF Tick, OnTime
        <5>2. bytes[n] <= output[n].bytes + Line * waited BY <3>1, <4>5 DEF Timely
        <5>3. Line * waited \in Nat /\ Line * (waited + 1) = Line * waited + Line
          BY <3>5, LineTimes
        <5>. QED BY <3>3, <3>4, <4>4, <4>5, <5>1, <5>2, <5>3
      <4>6. ASSUME rows[n] # NoReading
            PROVE  /\ rows[n].time <= clock'
                   /\ n \in Names =>
                        bytes'[n] <= rows[n].bytes + Line * (clock' - rows[n].time + Timeout)
                   /\ n \in DOMAIN output =>
                        output[n].bytes
                          <= rows[n].bytes + Line * (clock' - rows[n].time + Timeout)
        <5>1. PICK k : k = clock - rows[n].time + Timeout OBVIOUS
        <5>2. k \in Nat /\ clock' - rows[n].time + Timeout = k + 1
          BY <3>2, <3>5, <4>1, <4>6, <5>1
        <5>3. Line * k \in Nat /\ Line * (k + 1) = Line * k + Line BY <5>2, LineTimes
        <5>4. n \in Names => bytes[n] <= rows[n].bytes + Line * k
          BY <3>1, <4>6, <5>1 DEF Timely
        <5>5. n \in DOMAIN output => output[n].bytes <= rows[n].bytes + Line * k
          BY <3>1, <4>6, <5>1 DEF Timely
        <5>6. n \in Names => bytes'[n] <= rows[n].bytes + (Line * k + Line)
          BY <3>2, <3>4, <4>4, <4>6, <5>3, <5>4
        <5>7. n \in DOMAIN output => output[n].bytes <= rows[n].bytes + (Line * k + Line)
          BY <3>2, <3>3, <4>6, <5>3, <5>5
        <5>8. rows[n].time <= clock' BY <3>2, <3>5, <4>1, <4>6
        <5>. QED BY <5>2, <5>3, <5>6, <5>7, <5>8
      <4>. QED BY <4>1, <4>5, <4>6 DEF Timely
    <3>8. CASE (\E i \in Names : Reset(i)) \/ UNCHANGED vars
      <4>1. UNCHANGED <<output, rows, waited, clock>>
        BY <3>8 DEF Reset, vars, poll, memory
      <4>2. ASSUME NEW n \in Names PROVE bytes'[n] \in Nat /\ bytes'[n] <= bytes[n]
        <5>1. bytes'[n] = 0 \/ bytes'[n] = bytes[n]
          BY <3>8, <4>2 DEF Reset, TypeOK, vars, device
        <5>. QED BY <3>4, <4>2, <5>1
      <4>3. SUFFICES ASSUME NEW n \in Listed PROVE Timely(n)' BY <3>6, <4>1
      <4>4. ASSUME n \in DOMAIN output, n \in Names
            PROVE  bytes'[n] <= output[n].bytes + Line * waited
        <5>1. bytes[n] <= output[n].bytes + Line * waited BY <3>1, <4>4 DEF Timely
        <5>2. Line * waited \in Nat BY <3>5, LineTimes
        <5>. QED BY <3>3, <3>4, <4>2, <4>4, <5>1, <5>2
      <4>5. ASSUME rows[n] # NoReading, n \in Names
            PROVE  bytes'[n] <= rows[n].bytes + Line * (clock - rows[n].time + Timeout)
        <5>1. bytes[n] <= rows[n].bytes + Line * (clock - rows[n].time + Timeout)
          BY <3>1, <4>5 DEF Timely
        <5>2. clock - rows[n].time + Timeout \in Nat BY <3>2, <4>5
        <5>3. Line * (clock - rows[n].time + Timeout) \in Nat BY <5>2, LineTimes
        <5>. QED BY <3>2, <3>4, <4>2, <4>5, <5>1, <5>3
      <4>. QED BY <3>1, <4>1, <4>4, <4>5 DEF Timely
    <3>9. CASE Ask \/ Fail
      <4>1. DOMAIN output' = {} /\ UNCHANGED <<bytes, rows, clock>>
        BY <3>9, StartType DEF Ask, Fail, memory, device
      <4>2. ASSUME NEW n \in Listed PROVE Timely(n)' BY <3>1, <4>1 DEF Timely
      <4>. QED BY <3>6, <4>1, <4>2
    <3>10. CASE Answer
      <4>1. UNCHANGED <<bytes, rows, clock, waited>> BY <3>10 DEF Answer, device, memory
      <4>2. SUFFICES ASSUME NEW n \in Listed PROVE Timely(n)' BY <3>6, <4>1
      <4>3. n \in DOMAIN output' => output'[n].bytes = IF n \in Names THEN bytes[n] ELSE 0
        BY <3>10 DEF Answer, Listed
      <4>4. ASSUME n \in DOMAIN output', n \in Names
            PROVE  bytes[n] <= output'[n].bytes + Line * waited
        <5>1. Line * waited \in Nat BY <3>5, LineTimes
        <5>. QED BY <3>4, <4>3, <4>4, <5>1
      <4>5. ASSUME rows[n] # NoReading, n \in DOMAIN output'
            PROVE  output'[n].bytes
                     <= rows[n].bytes + Line * (clock - rows[n].time + Timeout)
        <5>1. clock - rows[n].time + Timeout \in Nat BY <3>2, <4>5
        <5>2. Line * (clock - rows[n].time + Timeout) \in Nat BY <5>1, LineTimes
        <5>3. n \in Names =>
                bytes[n] <= rows[n].bytes + Line * (clock - rows[n].time + Timeout)
          BY <3>1, <4>5 DEF Timely
        <5>. QED BY <3>2, <4>3, <4>5, <5>2, <5>3
      <4>. QED BY <3>1, <4>1, <4>4, <4>5 DEF Timely
    <3>11. CASE Parse
      <4>1. DOMAIN output' = {} /\ UNCHANGED <<bytes, clock>>
        BY <3>11, StartType DEF Parse, device
      <4>2. ASSUME NEW n \in Listed, n \in DOMAIN output
            PROVE  rows'[n] = Row(n) /\ Row(n) # NoReading
                   /\ Row(n).bytes = output[n].bytes /\ Row(n).time = clock
                   /\ Row(n).bps = Rate(n) /\ Row(n).gap = Gap(n)
        BY <3>11, <4>2, ParsedName, RowType DEF Row
      <4>3. \A n \in Listed : n \notin DOMAIN output => rows'[n] = rows[n]
        BY <3>11, ParsedName
      <4>4. ASSUME NEW n \in Listed PROVE Timely(n)'
        <5>1. CASE n \notin DOMAIN output BY <3>1, <4>1, <4>3, <5>1 DEF Timely
        <5>2. CASE n \in DOMAIN output
          <6>1. ASSUME n \in Names
                PROVE  bytes[n] <= output[n].bytes + Line * (clock - clock + Timeout)
            <7>1. bytes[n] <= output[n].bytes + Line * waited
              BY <3>1, <5>2, <6>1 DEF Timely
            <7>2. waited \in Nat /\ Timeout \in Nat /\ waited <= Timeout BY <3>5
            <7>3. Line * waited \in Nat /\ Line * Timeout \in Nat
                  /\ Line * waited <= Line * Timeout
              BY <7>2, LineTimes
            <7>4. clock - clock + Timeout = Timeout BY <3>5
            <7>. QED BY <3>3, <3>4, <5>2, <6>1, <7>1, <7>3, <7>4
          <6>. QED BY <3>5, <4>1, <4>2, <5>2, <6>1 DEF Timely
        <5>. QED BY <5>1, <5>2
      <4>5. RateBounded'
        <5>1. SUFFICES ASSUME NEW n \in Listed, n \in DOMAIN output
                       PROVE  Rate(n) * Gap(n) <= 8 * Line * (Gap(n) + Timeout)
          BY <3>0, <4>2, <4>3 DEF RateBounded
        <5>2. Gap(n) \in Nat \ {0}
          BY <3>2, <3>5, <5>1 DEF Gap
        <5>3. Gap(n) + Timeout \in Nat /\ Line * (Gap(n) + Timeout) \in Nat
          BY <5>2, LineTimes
        <5>4. CASE rows[n] = NoReading
          <6>1. Rate(n) = 0 BY <5>1, <5>4 DEF Linked, Rate
          <6>. QED BY <5>2, <5>3, <6>1
        <5>5. CASE rows[n] # NoReading
          <6>. DEFINE d == output[n].bytes - rows[n].bytes
          <6>1. d \in Int BY <3>2, <3>3, <5>1, <5>5
          <6>2. d <= Line * (Gap(n) + Timeout)
            <7>1. d <= Line * (clock - rows[n].time + Timeout)
              <8>1. clock - rows[n].time + Timeout \in Nat BY <3>2, <5>5
              <8>2. Line * (clock - rows[n].time + Timeout) \in Nat BY <8>1, LineTimes
              <8>3. output[n].bytes
                      <= rows[n].bytes + Line * (clock - rows[n].time + Timeout)
                BY <3>1, <5>1, <5>5 DEF Timely
              <8>. QED BY <3>2, <3>3, <5>1, <5>5, <8>2, <8>3
            <7>2. /\ clock - rows[n].time + Timeout \in Nat
                  /\ clock - rows[n].time + Timeout <= Gap(n) + Timeout
              BY <3>2, <3>5, <5>5 DEF Gap
            <7>3. Line * (clock - rows[n].time + Timeout) \in Nat
                  /\ Line * (clock - rows[n].time + Timeout) <= Line * (Gap(n) + Timeout)
              BY <5>3, <7>2, LineTimes
            <7>. QED BY <5>3, <6>1, <7>1, <7>3
          <6>3. Rate(n) = Trunc(d * 8, Gap(n)) BY <5>1, <5>5, RateOfRow
          <6>4. d * 8 \in Int /\ (d >= 0 => d * 8 >= 0) /\ (d <= 0 => d * 8 <= 0)
            BY <6>1
          <6>. HIDE DEF d
          <6>5. /\ Rate(n) \in Int
                /\ d <= 0 => Rate(n) <= 0
                /\ d >= 0 => Rate(n) * Gap(n) <= d * 8
            <7>1. PICK a \in Int : a = d * 8 BY <6>4
            <7>2. Gap(n) \in Int \ {0} /\ Gap(n) > 0 BY <5>2
            <7>3. PICK g \in Int \ {0} : g = Gap(n) /\ g > 0 BY <7>2
            <7>4. Trunc(a, g) \in Int /\ (a <= 0 => Trunc(a, g) <= 0)
                  /\ (a >= 0 => Trunc(a, g) * g <= a)
              BY <7>3, TruncBounds
            <7>. QED BY <6>3, <6>4, <7>1, <7>3, <7>4
          <6>6. PICK w : w = Line * (Gap(n) + Timeout) OBVIOUS
          <6>7. w \in Nat /\ d <= w /\ 8 * Line * (Gap(n) + Timeout) = 8 * w
            <7>1. 8 * Line * (Gap(n) + Timeout) = 8 * (Line * (Gap(n) + Timeout))
              BY <5>3
            <7>. QED BY <5>3, <6>2, <6>6, <7>1
          <6>8. CASE d >= 0
            <7>1. Rate(n) * Gap(n) \in Int BY <5>2, <6>5
            <7>. QED BY <6>1, <6>5, <6>7, <6>8, <7>1
          <6>9. CASE d < 0
            <7>1. Rate(n) * Gap(n) <= 0 BY <5>2, <6>1, <6>5, <6>9
            <7>2. Rate(n) * Gap(n) \in Int BY <5>2, <6>5
            <7>. QED BY <6>7, <7>1, <7>2
          <6>. QED BY <6>1, <6>8, <6>9
        <5>. QED BY <5>4, <5>5
      <4>. QED BY <4>4, <4>5
    <3>. QED BY <2>3, <3>7, <3>8, <3>9, <3>10, <3>11 DEF Next, StepBack
  <2>. QED BY <2>2, <2>3
<1>. QED BY <1>1, <1>2, TypeInv, SumInvariant, ResetInvariant, PTL
     DEF Spec, SumInv, ResetInv, TimeInv

\* No rate is above what the line carries in the time since the row before and one
\* timeout, as long as the clock is not set back.
THEOREM RateBoundedCorrect == Spec => []RateBounded
BY TimeInvariant, PTL DEF TimeInv
=============================================================================
