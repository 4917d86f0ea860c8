---------------------------- MODULE TunnelHealth ----------------------------
(***************************************************************************)
(* The IKE SAs of one CE and scripts/tunnel_health.sh, the daemon in its   *)
(* container that counts them every 30 seconds and logs what has changed.  *)
(* strongSwan brings SAs up and loses them at any time in between.         *)
(***************************************************************************)
EXTENDS Integers, FiniteSets

CONSTANTS
  Conns,     \* the connections of the CE
  Garbled,   \* a count that the shell cannot compare
  MaxTotal   \* bound on what the log's reports may add up to

ASSUME HealthAssumption ==
  Garbled \notin Int /\ MaxTotal \in Nat /\ IsFiniteSet(Conns)

VARIABLES
  up,       \* the connections with an established IKE SA
  prev,     \* prev_established
  reported, \* the sum of the gains and losses reported so far
  zero      \* history: some count was zero

monitorVars == <<prev, reported, zero>>
vars == <<up, monitorVars>>

TypeOK ==
  /\ up \subseteq Conns
  /\ prev \in 0..Cardinality(Conns) \cup {Garbled}
  /\ reported \in -MaxTotal..MaxTotal /\ zero \in BOOLEAN

Init ==
  /\ up \in SUBSET Conns
  /\ prev = 0 /\ reported = 0 /\ zero = FALSE

-----------------------------------------------------------------------------
Establish(c) ==
  /\ c \notin up /\ up' = up \cup {c}
  /\ UNCHANGED monitorVars

Lose(c) ==
  /\ c \in up /\ up' = up \ {c}
  /\ UNCHANGED monitorVars

\* Mutant of Reading: another line of ipsec status matches as well.
ReadingOneMore(n) == n + 1

\* get_sa_status: grep -c prints 0 and fails if nothing matches, and so does the
\* "|| echo 0" behind it; two zeros on two lines are not an integer.
Reading(n) == IF n = 0 THEN Garbled ELSE n

\* Mutant of Change: the daemon only reports losses.
ChangeIfLost(new) ==
  IF Garbled \in {new, prev} THEN 0 ELSE IF new < prev THEN new - prev ELSE 0

\* The gain or loss that is reported; [ ] fails on what is not an integer, and the
\* script takes neither branch.
Change(new) == IF new = Garbled \/ prev = Garbled THEN 0 ELSE new - prev

\* One turn of the daemon's loop.  ipsec status may print nothing, for example
\* while strongSwan restarts.
Tick ==
  \E n \in {Cardinality(up), 0} :
    /\ prev' = Reading(n)
    /\ reported' = reported + Change(Reading(n)) /\ reported' \in -MaxTotal..MaxTotal
    /\ zero' = (zero \/ n = 0)
    /\ UNCHANGED up

Next == Tick \/ \E c \in Conns : Establish(c) \/ Lose(c)

Spec == Init /\ [][Next]_vars

-----------------------------------------------------------------------------
\* What the log reports adds up to the number of SAs the daemon last counted, so
\* that its reader knows how many there are, as long as no count was zero.
ReportsAddUp == ~zero => reported = prev

-----------------------------------------------------------------------------
\* docs/ipsec.md: a warning whenever the SA count decreases, an info whenever it
\* increases.
EveryChangeReported ==
  reported = IF prev = Garbled THEN 0 ELSE prev
=============================================================================
