------------------------- MODULE TunnelHealthProofs -------------------------
(***************************************************************************)
(* Proofs about TunnelHealth, for any finite set of connections.           *)
(***************************************************************************)
EXTENDS TunnelHealth, FiniteSetTheorems, TLAPS

\* What the daemon may count is a number between none and all.
LEMMA Counts ==
  ASSUME up \subseteq Conns, NEW n \in {Cardinality(up), 0}
  PROVE  n \in 0..Cardinality(Conns) /\ n \in Nat /\ Cardinality(Conns) \in Nat
<1>1. IsFiniteSet(Conns)
  BY HealthAssumption
<1>2. /\ Cardinality(Conns) \in Nat /\ Cardinality(up) \in Nat
      /\ Cardinality(up) <= Cardinality(Conns)
  BY <1>1, FS_Subset, FS_CardinalityType
<1>3. QED
  BY <1>2

IInv == TypeOK /\ ReportsAddUp

LEMMA IInvInit == Init => IInv
<1> SUFFICES ASSUME Init PROVE IInv
  OBVIOUS
<1>1. 0 \in 0..Cardinality(Conns) /\ MaxTotal \in Nat
  <2>1. 0 \in {Cardinality(up), 0} /\ up \subseteq Conns
    BY DEF Init
  <2>2. QED
    BY <2>1, Counts, HealthAssumption
<1>2. 0 \in -MaxTotal..MaxTotal
  BY <1>1
<1>3. up \in SUBSET Conns /\ prev = 0 /\ reported = 0 /\ zero = FALSE
  BY DEF Init
<1>4. QED
  BY <1>1, <1>2, <1>3 DEF IInv, TypeOK, ReportsAddUp

LEMMA IInvTick == IInv /\ Tick => IInv'
<1> SUFFICES ASSUME IInv, NEW n \in {Cardinality(up), 0},
                    prev' = Reading(n), reported' = reported + Change(Reading(n)),
                    reported' \in -MaxTotal..MaxTotal, zero' = (zero \/ n = 0), up' = up
             PROVE  IInv'
  BY DEF Tick
<1>1. n \in 0..Cardinality(Conns) /\ n \in Nat /\ up \subseteq Conns /\ zero \in BOOLEAN
  BY Counts DEF IInv, TypeOK
<1>2. TypeOK'
  BY <1>1 DEF Reading, TypeOK
<1>3. ASSUME ~zero' PROVE reported' = prev'
  <2>1. n # 0 /\ ~zero /\ reported = prev /\ prev' = n
    BY <1>3 DEF IInv, ReportsAddUp, Reading
  <2>2. reported \in Int /\ MaxTotal \in Nat
    BY HealthAssumption DEF IInv, TypeOK
  <2>3. prev # Garbled /\ n # Garbled
    BY <1>1, <2>1, <2>2, HealthAssumption
  <2>4. Change(n) = n - prev /\ Reading(n) = n
    BY <2>1, <2>3 DEF Change, Reading
  <2>5. QED
    BY <1>1, <2>1, <2>2, <2>4
<1>4. QED
  BY <1>2, <1>3 DEF IInv, ReportsAddUp

LEMMA IInvStep == IInv /\ [Next]_vars => IInv'
<1> SUFFICES ASSUME IInv, [Next]_vars PROVE IInv'
  OBVIOUS
<1>1. CASE Tick
  BY <1>1, IInvTick
<1>2. CASE (\E c \in Conns : Establish(c) \/ Lose(c)) \/ UNCHANGED vars
  BY <1>2 DEF Establish, Lose, vars, monitorVars, IInv, TypeOK, ReportsAddUp
<1>3. QED
  BY <1>1, <1>2 DEF Next

\* The daemon's variables keep their types, a count being garbled or that of some SAs.
THEOREM TypeCorrect == Spec => []TypeOK
<1>1. IInv => TypeOK
  BY DEF IInv
<1>2. QED
  BY <1>1, IInvInit, IInvStep, PTL DEF Spec

\* The sum of all reported gains and losses is the number of SAs last counted,
\* for any number of connections, until a count is zero.
THEOREM ReportsAddUpCorrect == Spec => []ReportsAddUp
<1>1. IInv => ReportsAddUp
  BY DEF IInv
<1>2. QED
  BY <1>1, IInvInit, IInvStep, PTL DEF Spec

-----------------------------------------------------------------------------
\* What the daemon reports: a loss leaves at least one SA, and a gain follows a count
\* that was not zero, but for the very first.  The loss of the last SA is therefore never
\* reported, for any number of connections, nor is the return of the first one after it.
THEOREM LastLossUnreported ==
  Spec => [][/\ reported' < reported => prev' \in 1..prev-1
             /\ reported' > reported => prev' > prev /\ prev \in Nat]_vars
<1>1. IInv /\ Next =>
        /\ reported' < reported => prev' \in 1..prev-1
        /\ reported' > reported => prev' > prev /\ prev \in Nat
  <2> SUFFICES ASSUME IInv, Next
               PROVE  /\ reported' < reported => prev' \in 1..prev-1
                      /\ reported' > reported => prev' > prev /\ prev \in Nat
    OBVIOUS
  <2>1. reported \in Int /\ MaxTotal \in Nat /\ up \subseteq Conns
    BY HealthAssumption DEF IInv, TypeOK
  <2>2. CASE ~Tick
    <3>1. reported' = reported
      BY <2>2 DEF Next, Establish, Lose, monitorVars
    <3>2. QED
      BY <2>1, <3>1
  <2>3. ASSUME NEW n \in {Cardinality(up), 0}, prev' = Reading(n),
               reported' = reported + Change(Reading(n))
        PROVE  /\ reported' < reported => prev' \in 1..prev-1
               /\ reported' > reported => prev' > prev /\ prev \in Nat
    <3>1. n \in Nat /\ Cardinality(Conns) \in Nat
      BY <2>1, Counts
    <3>2. CASE Reading(n) = Garbled \/ prev = Garbled
      <4>1. reported' = reported
        BY <2>1, <2>3, <3>2 DEF Change
      <4>2. QED
        BY <2>1, <4>1
    <3>3. CASE Reading(n) # Garbled /\ prev # Garbled
      <4>1. n # 0 /\ prev' = n /\ reported' = reported + (n - prev)
        BY <2>3, <3>3 DEF Reading, Change
      <4>2. prev \in Nat
        BY <3>1, <3>3 DEF IInv, TypeOK
      <4>3. QED
        BY <2>1, <3>1, <4>1, <4>2
    <3>4. QED
      BY <3>2, <3>3
  <2>4. QED
    BY <2>2, <2>3 DEF Tick
<1>2. QED
  BY <1>1, IInvInit, IInvStep, PTL DEF Spec
=============================================================================
