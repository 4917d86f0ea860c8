----------------------------- MODULE SaObservers -----------------------------
(***************************************************************************)
(* The IKE SAs of one CE and the two programs that watch them: the daemon  *)
(* tunnel_health.sh of TunnelHealth, which counts them, and IkeSaPoller of *)
(* telemetry/pollers.py, which reads the listing of "ipsec statusall" line *)
(* by line.  TunnelHealth's Conns are single SAs here, since a connection  *)
(* has two of them while it is rekeyed.                                    *)
(*                                                                         *)
(* A datum of the listing (an age, a pair of SPIs, a count of bytes) is    *)
(* represented by the SA it belongs to: what can go wrong is that a row    *)
(* has another SA's.                                                       *)
(***************************************************************************)
EXTENDS TunnelHealth, Sequences

CONSTANTS
  Names,   \* the names of the connections
  NameOf,  \* NameOf[x]: the connection of SA x
  None     \* what a field has before it is set: 0 or ""

ASSUME ObserversAssumption == NameOf \in [Conns -> Names] /\ None \notin Conns \cup Names

\* CONNECTING stands for CREATED as well, the state before it.
Phases == {"absent", "CONNECTING", "ESTABLISHED", "REKEYED", "DELETING"}

\* Mutant of Understood: any state is matched.
UnderstoodAny == Phases \ {"absent"}

\* The states of SAs whose header matches.  The pattern names CONNECTING and CREATED too,
\* but asks for white space behind the state: only the age of an established SA is set
\* off by it, any other state has its comma there.
Understood == {"ESTABLISHED"}

VARIABLES
  phase,     \* phase[x]: the state of SA x
  listed,    \* the SAs listed in the output in hand, with their states
  at,        \* the SA whose lines are read, by its place in listed; 0: no output in hand
  part,      \* which of its lines is next
  current,   \* current_conn
  age,       \* sa_age_sec
  rows,      \* the rows made of the lines so far
  prev_spis, \* prev_spis[c]: _prev_spis of connection c
  shown,     \* the ESTABLISHED rows of the last poll, as the exporter shows them
  counted,   \* history: no SA has changed since the daemon counted
  polled,    \* history: no SA has changed since the last poll
  seen       \* seen[c]: history, the established SA of connection c in its last row

output == <<listed, at, part>>
locals == <<current, age>>
poller == <<output, locals, rows, prev_spis, shown>>
allVars == <<vars, phase, poller, counted, polled, seen>>

Entry == [sa : Conns, state : Phases \ {"absent"}]
Row == [sa : Conns, state : Understood, rekey_count : {0, 1},
        uptime : Conns \cup {None}, lifetime : Conns \cup {None},
        child : Conns \cup {None}, spis : Conns \cup {None}, bytes : Conns \cup {None}]

\* The lines of an SA: those of its child SA follow its own.
LinesOf ==
  [s \in Phases \ {"absent"} |->
     CASE s = "ESTABLISHED" -> <<"header", "rekeying", "child", "spis", "bytes">>
       [] s = "DELETING" -> <<"header", "child", "spis", "bytes">>
       [] OTHER -> <<"header">>]

TypeOfObservers ==
  /\ TypeOK
  /\ phase \in [Conns -> Phases] /\ up = {x \in Conns : phase[x] = "ESTABLISHED"}
  /\ listed \in Seq(Entry) /\ at \in 0..Len(listed)+1 /\ part \in 1..5
  /\ current \in Names \cup {None} /\ age \in Conns \cup {None}
  /\ rows \in Seq(Row) /\ prev_spis \in [Names -> {"", "spi"}]
  /\ shown \in Nat
  /\ counted \in BOOLEAN /\ polled \in BOOLEAN /\ seen \in [Names -> Conns \cup {None}]

InitObservers ==
  /\ Init
  /\ phase = [x \in Conns |-> IF x \in up THEN "ESTABLISHED" ELSE "absent"]
  /\ listed = <<>> /\ at = 0 /\ part = 1 /\ current = None /\ age = None /\ rows = <<>>
  /\ prev_spis = [c \in Names |-> ""] /\ shown = 0
  /\ counted = FALSE /\ polled = FALSE
  /\ seen = [c \in Names |-> None]

-----------------------------------------------------------------------------
(***************************************************************************)
(* strongSwan.  What happens while the poller has an output in hand is the *)
(* same as if it happened afterwards.                                      *)
(***************************************************************************)
Becomes(x, p) == phase' = [phase EXCEPT ![x] = p]

Changed ==
  /\ at = 0
  /\ counted' = FALSE /\ polled' = FALSE
  /\ UNCHANGED <<poller, monitorVars, seen>>

Initiate(x) ==
  /\ phase[x] = "absent" /\ Becomes(x, "CONNECTING")
  /\ Changed /\ UNCHANGED up

Established(x) ==
  /\ phase[x] = "CONNECTING" /\ Becomes(x, "ESTABLISHED")
  /\ Establish(x) /\ Changed

\* Dead peer detection or a restart; the SA is listed until its children are gone.
Lost(x) ==
  /\ Becomes(x, "DELETING")
  /\ Lose(x) /\ Changed

Gone(x) ==
  /\ phase[x] \in {"CONNECTING", "REKEYED", "DELETING"} /\ Becomes(x, "absent")
  /\ Changed /\ UNCHANGED up

\* SA y takes over the children of SA x.
Rekey(x, y) ==
  /\ NameOf[x] = NameOf[y] /\ x \in up /\ phase[y] = "absent"
  /\ phase' = [phase EXCEPT ![x] = "REKEYED", ![y] = "ESTABLISHED"]
  /\ up' = (up \ {x}) \cup {y}
  /\ Changed

-----------------------------------------------------------------------------
(***************************************************************************)
(* The daemon                                                              *)
(***************************************************************************)
Count ==
  /\ at = 0 /\ Tick
  /\ counted' = TRUE
  /\ UNCHANGED <<phase, poller, polled, seen>>

-----------------------------------------------------------------------------
(***************************************************************************)
(* The poller                                                              *)
(***************************************************************************)
Listing(s) == {s[i].sa : i \in 1..Len(s)}

\* "ipsec statusall" lists the SAs there are, in any order.
Poll ==
  /\ at = 0 /\ at' = 1 /\ part' = 1
  /\ LET there == {x \in Conns : phase[x] # "absent"} IN
     \E order \in [1..Cardinality(there) -> there] :
       /\ \A x \in there : \E i \in DOMAIN order : order[i] = x
       /\ listed' = [i \in DOMAIN order |-> [sa |-> order[i], state |-> phase[order[i]]]]
  /\ current' = None /\ age' = None /\ rows' = <<>>
  /\ UNCHANGED <<vars, phase, prev_spis, shown, counted, polled, seen>>

\* It fails or does not end in time: there are no rows.
PollFails ==
  /\ at = 0 /\ shown' = 0 /\ polled' = FALSE
  /\ UNCHANGED <<vars, phase, output, locals, rows, prev_spis, counted, seen>>

\* The line that is next, if one is left.
Reads(kind) ==
  /\ at \in 1..Len(listed) /\ LinesOf[listed[at].state][part] = kind
  /\ IF part < Len(LinesOf[listed[at].state])
     THEN part' = part + 1 /\ at' = at ELSE part' = 1 /\ at' = at + 1
  /\ UNCHANGED <<vars, phase, listed, shown, counted, polled, seen>>

\* ike_spi is "" when the loop starts and is never assigned.
ike_spi == ""

\* Mutant of Age: the first age is kept.
AgeKept(e) == IF age = None THEN e.sa ELSE age

\* A header that matches has an age.
Age(e) == e.sa

\* The header of an SA makes a row, if it matches.
Header ==
  /\ Reads("header")
  /\ LET e == listed[at]
         c == NameOf[e.sa]
     IN IF e.state \in Understood
        THEN /\ current' = c /\ age' = Age(e)
             /\ prev_spis' = [prev_spis EXCEPT ![c] = ike_spi]
             /\ rows' = Append(rows,
                  [sa |-> e.sa, state |-> e.state, uptime |-> Age(e),
                   rekey_count |-> IF prev_spis[c] \in {"", ike_spi} THEN 0 ELSE 1,
                   lifetime |-> None, child |-> None, spis |-> None, bytes |-> None])
        ELSE UNCHANGED <<locals, rows, prev_spis>>

\* Mutant of LastRow: rows[0] instead of rows[-1].
LastRowFirst == 1

LastRow == Len(rows)

\* "rekeying in ..." is put into the last row, if there is one, as are the SPIs and the
\* bytes of a child SA.
Rekeying ==
  /\ Reads("rekeying")
  /\ rows' = IF rows = <<>> THEN rows
             ELSE [rows EXCEPT ![LastRow].lifetime = listed[at].sa]
  /\ UNCHANGED <<locals, prev_spis>>

\* A child SA: only if the last row is of its connection.
Child ==
  /\ Reads("child")
  /\ rows' = IF rows = <<>> \/ NameOf[listed[at].sa] # current THEN rows
             ELSE [rows EXCEPT ![LastRow].child = listed[at].sa]
  /\ UNCHANGED <<locals, prev_spis>>

Spis ==
  /\ Reads("spis")
  /\ rows' = IF rows = <<>> THEN rows
             ELSE [rows EXCEPT ![LastRow].spis = listed[at].sa]
  /\ UNCHANGED <<locals, prev_spis>>

Bytes ==
  /\ Reads("bytes")
  /\ rows' = IF rows = <<>> THEN rows
             ELSE [rows EXCEPT ![LastRow].bytes = listed[at].sa]
  /\ UNCHANGED <<locals, prev_spis>>

\* The established SA of connection c in the rows, the last one if there are two.
LastOf(c) ==
  LET its == {i \in DOMAIN rows :
                NameOf[rows[i].sa] = c /\ rows[i].state = "ESTABLISHED"}
  IN IF its = {} THEN seen[c]
     ELSE rows[CHOOSE i \in its : \A j \in its : j <= i].sa

\* The collector writes the rows and the exporter shows them.
Write ==
  /\ at > Len(listed)
  /\ shown' = Cardinality({i \in DOMAIN rows : rows[i].state = "ESTABLISHED"})
  /\ polled' = TRUE
  /\ seen' = [c \in Names |-> LastOf(c)]
  /\ listed' = <<>> /\ at' = 0 /\ part' = 1
  /\ current' = None /\ age' = None /\ rows' = <<>>
  /\ UNCHANGED <<vars, phase, prev_spis, counted>>

NextObservers ==
  \/ \E x \in Conns : Initiate(x) \/ Established(x) \/ Lost(x) \/ Gone(x)
  \/ \E x, y \in Conns : Rekey(x, y)
  \/ Count
  \/ Poll \/ PollFails \/ Header \/ Rekeying \/ Child \/ Spis \/ Bytes \/ Write

SpecObservers == InitObservers /\ [][NextObservers]_allVars

-----------------------------------------------------------------------------
Finished == at > Len(listed)

\* Every established SA has one row and no other SA has any, in the order of the listing,
\* wherever SAs that are being set up, rekeyed or deleted are listed between them: the n-th
\* of the established SAs has the n-th row.
RowPerListedSa ==
  Finished =>
    LET with == {k \in DOMAIN listed : listed[k].state = "ESTABLISHED"}
    IN /\ Len(rows) = Cardinality(with)
       /\ \A k \in with : rows[Cardinality({l \in with : l <= k})].sa = listed[k].sa

\* A row has the age of its own SA, never one carried over from a row above it.
UptimeOfEstablished == \A i \in DOMAIN rows : rows[i].uptime = rows[i].sa

Deleting(x) == phase[x] = "DELETING"

\* What follows a header is put into the right row, and every row is complete, unless an SA
\* is being deleted: that has no row of its own, and its child SA goes to the row above if
\* that is of its connection, the rest of it in any case.
CountersOfOwnSa ==
  \A i \in DOMAIN rows :
    LET data == {rows[i].lifetime, rows[i].child, rows[i].spis, rows[i].bytes} IN
      /\ \A x \in data \ {None, rows[i].sa} : Deleting(x)
      /\ rows[i].child # None => NameOf[rows[i].child] = NameOf[rows[i].sa]
      /\ Finished /\ (\A x \in Conns : ~Deleting(x)) =>
           data = {rows[i].sa}

\* The daemon's log and the exporter agree on the number of SAs if they have looked at
\* the same ones and there were any.
ObserversAgree ==
  at = 0 /\ counted /\ polled /\ prev # Garbled => prev = shown

-----------------------------------------------------------------------------
\* docs/ipsec.md: each rekey makes a new instance of the SA with other SPIs, which the
\* telemetry collector detects and logs as a rekey event.
RekeyReported ==
  \A i \in DOMAIN rows :
    rows[i].state = "ESTABLISHED" /\ seen[NameOf[rows[i].sa]] \notin {None, rows[i].sa} =>
      rows[i].rekey_count = 1
=============================================================================
