------------------------- MODULE SaObserversProofs -------------------------
(***************************************************************************)
(* Proofs about SaObservers, for any finite set of SAs, any connections    *)
(* and any order of the listing.                                           *)
(***************************************************************************)
EXTENDS SaObservers, TunnelHealthProofs, SequenceTheorems, WellFoundedInduction

-----------------------------------------------------------------------------
(***************************************************************************)
(* The daemon, among SAs that are also rekeyed.                            *)
(***************************************************************************)

LEMMA HealthInit == InitObservers => IInv
BY IInvInit DEF InitObservers

LEMMA HealthStep == IInv /\ [NextObservers]_allVars => IInv'
<1> SUFFICES ASSUME IInv, [NextObservers]_allVars PROVE IInv'
  OBVIOUS
<1>1. CASE Count
  BY <1>1, IInvTick DEF Count
<1>2. CASE ~Count
  <2>1. UNCHANGED monitorVars /\ (up \subseteq Conns => up' \subseteq Conns)
    BY <1>2
    DEF NextObservers, allVars, vars, Changed, Initiate, Established, Establish, Lost, Lose, Gone,
        Rekey, Poll, PollFails, Header, Rekeying, Child, Spis, Bytes, Reads, Write
  <2>2. QED
    BY <2>1 DEF IInv, TypeOK, ReportsAddUp, monitorVars
<1>3. QED
  BY <1>1, <1>2

\* The daemon's reports also add up if SAs are rekeyed, that is, if one takes the place of
\* another between two counts.
THEOREM ReportsAddUpOfObservers == SpecObservers => []ReportsAddUp
<1>1. IInv => ReportsAddUp
  BY DEF IInv
<1>2. QED
  BY <1>1, HealthInit, HealthStep, PTL DEF SpecObservers

-----------------------------------------------------------------------------
(***************************************************************************)
(* Where the reader of the listing is.                                     *)
(***************************************************************************)

\* What the proofs need of the types.
ReadType ==
  /\ phase \in [Conns -> Phases]
  /\ listed \in Seq(Entry) /\ at \in Nat /\ part \in Nat \ {0}
  /\ rows \in Seq(Row)
  /\ age \in Conns \cup {None}
  /\ IF at \in DOMAIN listed THEN part <= Len(LinesOf[listed[at].state]) ELSE part = 1

\* While an output is in hand no SA changes, and without one there are no rows.
ListingHolds ==
  /\ at = 0 => listed = <<>> /\ rows = <<>> /\ age = None
  /\ \A i \in DOMAIN listed : phase[listed[i].sa] = listed[i].state

\* Behind the header of an SA that is established the last row is its own.
AtOwnRow ==
  part > 1 =>
    /\ at \in DOMAIN listed /\ listed[at].state \in {"ESTABLISHED", "DELETING"}
    /\ listed[at].state = "ESTABLISHED" =>
         /\ rows # <<>> /\ rows[Len(rows)].sa = listed[at].sa
         /\ rows[Len(rows)].state = "ESTABLISHED"

\* The locals are those of a row.
LocalsOfRows ==
  /\ age = None \/ \E j \in DOMAIN rows : age = rows[j].sa
  /\ rows # <<>> => current = NameOf[rows[Len(rows)].sa]

PlaceInv ==
  ReadType /\ ListingHolds /\ AtOwnRow /\ LocalsOfRows /\ UptimeOfEstablished

LEMMA PlaceInit == InitObservers => PlaceInv
<1> SUFFICES ASSUME InitObservers PROVE PlaceInv
  OBVIOUS
<1>1. /\ listed = <<>> /\ rows = <<>> /\ at = 0 /\ part = 1 /\ age = None
      /\ phase \in [Conns -> Phases]
  BY DEF InitObservers, Phases
<1>2. DOMAIN listed = {} /\ DOMAIN rows = {} /\ listed \in Seq(Entry) /\ rows \in Seq(Row)
  BY <1>1
<1>3. QED
  BY <1>1, <1>2
  DEF PlaceInv, ReadType, ListingHolds, AtOwnRow, LocalsOfRows, UptimeOfEstablished

\* The lines of an SA, by its state.
LEMMA Lines ==
  /\ LinesOf["ESTABLISHED"] = <<"header", "rekeying", "child", "spis", "bytes">>
  /\ LinesOf["DELETING"] = <<"header", "child", "spis", "bytes">>
  /\ LinesOf["CONNECTING"] = <<"header">> /\ LinesOf["REKEYED"] = <<"header">>
BY DEF LinesOf, Phases

\* Line number n of an SA in state s is of this kind.
LineIs(s, n, kind) ==
  /\ kind = "header" => n = 1
  /\ kind = "rekeying" => s = "ESTABLISHED" /\ n = 2
  /\ kind = "child" => (s = "ESTABLISHED" /\ n = 3) \/ (s = "DELETING" /\ n = 2)
  /\ kind = "spis" => (s = "ESTABLISHED" /\ n = 4) \/ (s = "DELETING" /\ n = 3)
  /\ kind = "bytes" => (s = "ESTABLISHED" /\ n = 5) \/ (s = "DELETING" /\ n = 4)

\* Which line of which SA is read.  It is the last one if it has the bytes, or if it is
\* the header of an SA that has no child.
LEMMA ReadsLine ==
  ASSUME ReadType, NEW kind \in {"header", "rekeying", "child", "spis", "bytes"}, Reads(kind)
  PROVE  /\ at \in DOMAIN listed /\ listed[at] \in Entry
         /\ UNCHANGED <<phase, listed>>
         /\ LineIs(listed[at].state, part, kind)
         /\ IF kind = "bytes" \/ listed[at].state \notin {"ESTABLISHED", "DELETING"}
            THEN part' = 1 /\ at' = at + 1
            ELSE part' = part + 1 /\ at' = at
<1> DEFINE lines == LinesOf[listed[at].state]
<1>1. at \in DOMAIN listed /\ listed[at] \in Entry
  BY DEF ReadType, Reads
<1>2. listed[at].state \in {"CONNECTING", "ESTABLISHED", "REKEYED", "DELETING"}
  BY <1>1 DEF Entry, Phases
<1>3. /\ lines[part] = kind
      /\ IF part < Len(lines) THEN part' = part + 1 /\ at' = at ELSE part' = 1 /\ at' = at + 1
      /\ UNCHANGED <<phase, listed>>
  BY DEF Reads
<1>4. part \in Nat \ {0} /\ part <= Len(lines)
  BY <1>1 DEF ReadType
<1> HIDE DEF lines
<1>5. CASE listed[at].state = "ESTABLISHED"
  <2>1. lines = <<"header", "rekeying", "child", "spis", "bytes">>
    BY <1>5, Lines DEF lines
  <2>2. /\ Len(lines) = 5 /\ part \in {1, 2, 3, 4, 5}
        /\ lines[1] = "header" /\ lines[2] = "rekeying" /\ lines[3] = "child" /\ lines[4] = "spis" /\ lines[5] = "bytes"
    BY <1>4, <2>1
  <2>3. QED
    BY <1>1, <1>3, <1>5, <2>2 DEF LineIs
<1>6. CASE listed[at].state = "DELETING"
  <2>1. lines = <<"header", "child", "spis", "bytes">>
    BY <1>6, Lines DEF lines
  <2>2. /\ Len(lines) = 4 /\ part \in {1, 2, 3, 4}
        /\ lines[1] = "header" /\ lines[2] = "child" /\ lines[3] = "spis" /\ lines[4] = "bytes"
    BY <1>4, <2>1
  <2>3. QED
    BY <1>1, <1>3, <1>6, <2>2 DEF LineIs
<1>7. CASE listed[at].state \in {"CONNECTING", "REKEYED"}
  <2>1. lines = <<"header">>
    BY <1>7, Lines DEF lines
  <2>2. /\ Len(lines) = 1 /\ part \in {1}
        /\ lines[1] = "header"
    BY <1>4, <2>1
  <2>3. QED
    BY <1>1, <1>3, <1>7, <2>2 DEF LineIs
<1>8. QED
  BY <1>2, <1>5, <1>6, <1>7

\* The reader goes to a line that there is.
LEMMA ReadsOn ==
  ASSUME PlaceInv, NEW kind \in {"header", "rekeying", "child", "spis", "bytes"}, Reads(kind),
         rows' \in Seq(Row), age' \in Conns \cup {None}
  PROVE  ReadType' /\ ListingHolds'
<1> USE DEF PlaceInv
<1>1. listed' = listed /\ phase' = phase /\ at' \in Nat \ {0} /\ part' \in Nat \ {0}
  BY ReadsLine DEF ReadType
<1>2. \A i \in DOMAIN listed : 1 <= Len(LinesOf[listed[i].state])
  <2>1. \A i \in DOMAIN listed :
          listed[i].state \in {"CONNECTING", "ESTABLISHED", "REKEYED", "DELETING"}
    <3>1. \A i \in DOMAIN listed : listed[i] \in Entry
      BY ElementOfSeq DEF ReadType
    <3>2. \A e \in Entry : e.state \in {"CONNECTING", "ESTABLISHED", "REKEYED", "DELETING"}
      BY DEF Entry, Phases
    <3>3. QED
      BY <3>1, <3>2
  <2>2. ASSUME NEW i \in DOMAIN listed PROVE 1 <= Len(LinesOf[listed[i].state])
    <3>1. CASE listed[i].state = "ESTABLISHED"
      BY <3>1, Lines
    <3>2. CASE listed[i].state = "DELETING"
      BY <3>2, Lines
    <3>3. CASE listed[i].state = "CONNECTING"
      BY <3>3, Lines
    <3>4. CASE listed[i].state = "REKEYED"
      BY <3>4, Lines
    <3>5. QED
      BY <2>1, <3>1, <3>2, <3>3, <3>4
  <2>3. QED
    BY <2>2
<1>3. IF at' \in DOMAIN listed THEN part' <= Len(LinesOf[listed[at'].state]) ELSE part' = 1
  BY <1>1, <1>2 DEF ReadType, Reads
<1>4. QED
  BY <1>1, <1>3 DEF ReadType, ListingHolds

\* A row's data are changed and it stays the same row.
LEMMA RowChanged ==
  ASSUME PlaceInv, NEW kind \in {"rekeying", "child", "spis", "bytes"}, Reads(kind),
         UNCHANGED locals, NEW r \in Row,
         \/ rows' = rows
         \/ /\ rows # <<>> /\ rows' = [rows EXCEPT ![Len(rows)] = r]
            /\ LET last == rows[Len(rows)] IN
                 r.sa = last.sa /\ r.state = last.state /\ r.uptime = last.uptime
  PROVE  /\ PlaceInv' /\ Len(rows') = Len(rows) /\ DOMAIN rows' = DOMAIN rows
         /\ \A i \in DOMAIN rows : rows'[i].sa = rows[i].sa /\ rows'[i].state = rows[i].state
<1> USE DEF PlaceInv, locals
<1>1. rows \in Seq(Row) /\ Len(rows) \in Nat /\ DOMAIN rows = 1..Len(rows)
  BY LenProperties DEF ReadType
<1>2. /\ rows' \in Seq(Row) /\ Len(rows') = Len(rows) /\ DOMAIN rows' = DOMAIN rows
      /\ \A i \in DOMAIN rows :
           /\ rows'[i].sa = rows[i].sa /\ rows'[i].state = rows[i].state
           /\ rows'[i].uptime = rows[i].uptime
  <2>1. CASE rows' = rows
    BY <1>1, <2>1
  <2>2. CASE rows # <<>> /\ rows' = [rows EXCEPT ![Len(rows)] = r]
    <3>1. Len(rows) \in 1..Len(rows)
      BY <1>1, <2>2, EmptySeq
    <3>2. rows' \in Seq(Row) /\ Len(rows') = Len(rows)
          /\ \A i \in 1..Len(rows) : rows'[i] = IF i = Len(rows) THEN r ELSE rows[i]
      BY <1>1, <2>2, <3>1, ExceptSeq
    <3>3. QED
      BY <1>1, <2>2, <3>1, <3>2, LenProperties
  <2>3. QED
    BY <2>1, <2>2
<1>3. rows' = <<>> <=> rows = <<>>
  BY <1>1, <1>2, EmptySeq
<1>4. ReadType' /\ ListingHolds'
  BY <1>2, ReadsOn DEF ReadType
<1>5. AtOwnRow'
  <2>1. ASSUME part' > 1
        PROVE  at' = at /\ part > 1 /\ listed' = listed
    <3>1. part \in {2, 3, 4, 5}
      BY ReadsLine DEF LineIs
    <3>2. QED
      BY <2>1, <3>1, ReadsLine
  <2>2. rows # <<>> => Len(rows) \in DOMAIN rows
    BY <1>1, EmptySeq
  <2>3. QED
    BY <1>2, <1>3, <2>1, <2>2 DEF AtOwnRow
<1>6. LocalsOfRows'
  <2>1. rows # <<>> => Len(rows) \in DOMAIN rows
    BY <1>1, EmptySeq
  <2>2. QED
    BY <1>2, <1>3, <2>1 DEF LocalsOfRows
<1>7. UptimeOfEstablished'
  <2>1. SUFFICES ASSUME NEW i \in DOMAIN rows
                 PROVE  rows'[i].uptime = rows'[i].sa
    BY <1>2 DEF UptimeOfEstablished
  <2>2. QED
    BY <1>2 DEF UptimeOfEstablished
<1>8. QED
  BY <1>2, <1>4, <1>5, <1>6, <1>7

\* The header of an SA: a new last row, or none.
LEMMA HeaderRow ==
  ASSUME PlaceInv, Header
  PROVE  LET e == listed[at] IN
         \/ /\ e.state \in {"CONNECTING", "REKEYED", "DELETING"}
            /\ rows' = rows /\ UNCHANGED locals
         \/ /\ e.state = "ESTABLISHED"
            /\ current' = NameOf[e.sa] /\ age' = Age(e)
            /\ \E r \in Row :
                 /\ rows' = Append(rows, r) /\ r.sa = e.sa /\ r.state = e.state
                 /\ r.uptime = Age(e)
                 /\ r.lifetime = None /\ r.child = None /\ r.spis = None /\ r.bytes = None
<1> DEFINE e == listed[at]
           c == NameOf[e.sa]
           count == IF prev_spis[c] \in {"", ike_spi} THEN 0 ELSE 1
           r == [sa |-> e.sa, state |-> e.state, uptime |-> Age(e), rekey_count |-> count,
                 lifetime |-> None, child |-> None, spis |-> None, bytes |-> None]
<1>1. e \in Entry
  BY ReadsLine DEF Header, PlaceInv
<1>2. e.sa \in Conns /\ e.state \in {"CONNECTING", "ESTABLISHED", "REKEYED", "DELETING"}
  BY <1>1 DEF Entry, Phases
<1>3. IF e.state \in Understood
      THEN current' = c /\ age' = Age(e) /\ rows' = Append(rows, r)
      ELSE UNCHANGED <<locals, rows>>
  BY Zenon DEF Header
<1>4. Age(e) \in Conns \cup {None}
  BY <1>2 DEF Age, PlaceInv, ReadType
<1>5. count \in {0, 1}
  OBVIOUS
<1>6. e.state \in Understood => r \in Row
  <2> HIDE DEF count, e
  <2>1. QED
    BY <1>2, <1>4, <1>5 DEF Row, Understood
<1>7. /\ r.sa = e.sa /\ r.state = e.state /\ r.uptime = Age(e)
      /\ r.lifetime = None /\ r.child = None /\ r.spis = None /\ r.bytes = None
  OBVIOUS
<1> HIDE DEF r, e
<1>8. QED
  BY <1>2, <1>3, <1>6, <1>7 DEF Understood, e

LEMMA PlaceHeader == ASSUME PlaceInv, Header PROVE PlaceInv'
<1> DEFINE e == listed[at]
<1> USE DEF PlaceInv
<1>1. rows \in Seq(Row) /\ Len(rows) \in Nat /\ DOMAIN rows = 1..Len(rows)
  BY LenProperties DEF ReadType
<1>2. /\ at \in DOMAIN listed /\ e \in Entry /\ listed' = listed /\ part = 1
      /\ IF e.state \in {"ESTABLISHED", "DELETING"} THEN part' = 2 /\ at' = at ELSE part' = 1
  <2>1. Reads("header")
    BY DEF Header
  <2>2. QED
    BY <2>1, ReadsLine DEF LineIs
<1>3. CASE /\ e.state \in {"CONNECTING", "REKEYED", "DELETING"}
           /\ rows' = rows /\ UNCHANGED locals
  <2>1. ReadType' /\ ListingHolds'
    BY <1>3, ReadsOn DEF Header, locals, ReadType
  <2>2. QED
    BY <1>2, <1>3, <2>1 DEF AtOwnRow, LocalsOfRows, UptimeOfEstablished, locals
<1>4. ASSUME e.state = "ESTABLISHED",
             current' = NameOf[e.sa], age' = Age(e),
             NEW r \in Row, rows' = Append(rows, r), r.sa = e.sa, r.state = e.state,
             r.uptime = Age(e)
      PROVE  PlaceInv'
  <2>1. /\ rows' \in Seq(Row) /\ Len(rows') = Len(rows) + 1 /\ rows'[Len(rows) + 1] = r
        /\ DOMAIN rows' = 1..Len(rows) + 1 /\ \A i \in 1..Len(rows) : rows'[i] = rows[i]
    BY <1>1, <1>4, AppendProperties, LenProperties
  <2>2. rows' # <<>> /\ rows'[Len(rows')] = r
    BY <1>1, <2>1, EmptySeq
  <2>3. e.sa \in Conns
    BY <1>2 DEF Entry
  <2>4. Age(e) = e.sa
    BY DEF Age
  <2>5. ReadType' /\ ListingHolds'
    BY <1>4, <2>1, <2>3, <2>4, ReadsOn DEF Header, ReadType
  <2>6. AtOwnRow'
    BY <1>2, <1>4, <2>2 DEF AtOwnRow
  <2>7. LocalsOfRows'
    <3>1. age' = None \/ \E j \in DOMAIN rows' : age' = rows'[j].sa
      BY <1>1, <1>4, <2>1, <2>4 DEF LocalsOfRows
    <3>2. QED
      BY <1>4, <2>2, <3>1 DEF LocalsOfRows
  <2>8. UptimeOfEstablished'
    <3>1. \A i \in 1..Len(rows) : rows'[i].uptime = rows'[i].sa
      BY <1>1, <2>1 DEF UptimeOfEstablished
    <3>2. r.uptime = r.sa
      BY <1>4, <2>4
    <3>3. \A i \in 1..Len(rows) + 1 : i \in 1..Len(rows) \/ i = Len(rows) + 1
      BY <1>1
    <3>4. QED
      BY <2>1, <3>1, <3>2, <3>3 DEF UptimeOfEstablished
  <2>9. QED
    BY <2>5, <2>6, <2>7, <2>8
<1>5. QED
  BY <1>3, <1>4, HeaderRow

LEMMA SeqOfFunction == ASSUME NEW S, NEW n \in Nat, NEW s \in [1..n -> S] PROVE s \in Seq(S)
BY SeqDef

\* "ipsec statusall" lists SAs with the states they have.
LEMMA PlacePoll == ASSUME PlaceInv, Poll PROVE PlaceInv'
<1> DEFINE there == {x \in Conns : phase[x] # "absent"}
<1>1. /\ at' = 1 /\ part' = 1 /\ age' = None /\ rows' = <<>> /\ phase' = phase
      /\ \E order \in [1..Cardinality(there) -> there] :
           listed' = [i \in DOMAIN order |-> [sa |-> order[i], state |-> phase[order[i]]]]
  BY DEF Poll
<1>2. PICK order \in [1..Cardinality(there) -> there] :
        listed' = [i \in DOMAIN order |-> [sa |-> order[i], state |-> phase[order[i]]]]
  BY <1>1
<1>3. Cardinality(there) \in Nat
  BY HealthAssumption, FS_Subset, FS_CardinalityType
<1>4. phase \in [Conns -> Phases]
  BY DEF PlaceInv, ReadType
<1>5. \A i \in DOMAIN order : [sa |-> order[i], state |-> phase[order[i]]] \in Entry
  BY <1>2, <1>4 DEF Entry
<1>6. /\ listed' \in Seq(Entry) /\ DOMAIN listed' = DOMAIN order
      /\ \A i \in DOMAIN order : listed'[i].sa = order[i] /\ listed'[i].state = phase[order[i]]
  <2>1. DOMAIN order = 1..Cardinality(there)
    OBVIOUS
  <2>2. listed' \in [1..Cardinality(there) -> Entry]
    BY <1>2, <1>5, <2>1
  <2>3. listed' \in Seq(Entry)
    BY <1>3, <2>2, SeqOfFunction
  <2>4. QED
    BY <1>2, <2>3
<1>7. IF 1 \in DOMAIN listed' THEN 1 <= Len(LinesOf[listed'[1].state]) ELSE TRUE
  <2>1. SUFFICES ASSUME 1 \in DOMAIN order PROVE 1 <= Len(LinesOf[listed'[1].state])
    BY <1>6
  <2>2. listed'[1].state \in {"CONNECTING", "ESTABLISHED", "REKEYED", "DELETING"}
    BY <1>4, <1>6, <2>1 DEF Phases
  <2>3. CASE listed'[1].state = "ESTABLISHED"
    BY <2>3, Lines
  <2>4. CASE listed'[1].state = "DELETING"
    BY <2>4, Lines
  <2>5. CASE listed'[1].state = "CONNECTING"
    BY <2>5, Lines
  <2>6. CASE listed'[1].state = "REKEYED"
    BY <2>6, Lines
  <2>7. QED
    BY <2>2, <2>3, <2>4, <2>5, <2>6
<1>8. rows' \in Seq(Row) /\ DOMAIN rows' = {}
  BY <1>1
<1>9. ReadType'
  BY <1>1, <1>4, <1>6, <1>7, <1>8 DEF ReadType
<1>10. QED
  BY <1>1, <1>6, <1>8, <1>9
  DEF PlaceInv, ListingHolds, AtOwnRow, LocalsOfRows, UptimeOfEstablished

\* What goes on while there is no output in hand.
LEMMA PlaceIdle ==
  ASSUME PlaceInv, at = 0, UNCHANGED <<output, locals, rows>>, phase' \in [Conns -> Phases]
  PROVE  PlaceInv'
<1> USE DEF output, locals
<1>1. listed = <<>> /\ DOMAIN listed = {} /\ rows = <<>> /\ DOMAIN rows = {}
  BY DEF PlaceInv, ListingHolds
<1>2. ReadType'
  BY DEF PlaceInv, ReadType
<1>3. QED
  BY <1>1, <1>2
  DEF PlaceInv, ListingHolds, AtOwnRow, LocalsOfRows, UptimeOfEstablished

\* The four kinds of lines whose data are put into the last row.
LEMMA DatumRow ==
  ASSUME PlaceInv, Rekeying \/ Child \/ Spis \/ Bytes
  PROVE  LET x == listed[at].sa
             n == Len(rows) IN
         /\ UNCHANGED locals
         /\ \/ Rekeying /\ Reads("rekeying")
               /\ rows' = IF rows = <<>> THEN rows ELSE [rows EXCEPT ![n] = [@ EXCEPT !.lifetime = x]]
            \/ Child /\ Reads("child")
               /\ rows' = IF rows = <<>> \/ NameOf[x] # current THEN rows
                          ELSE [rows EXCEPT ![n] = [@ EXCEPT !.child = x]]
            \/ Spis /\ Reads("spis")
               /\ rows' = IF rows = <<>> THEN rows ELSE [rows EXCEPT ![n] = [@ EXCEPT !.spis = x]]
            \/ Bytes /\ Reads("bytes")
               /\ rows' = IF rows = <<>> THEN rows ELSE [rows EXCEPT ![n] = [@ EXCEPT !.bytes = x]]
BY DEF Rekeying, Child, Spis, Bytes, LastRow

LEMMA PlaceDatum ==
  ASSUME PlaceInv, Rekeying \/ Child \/ Spis \/ Bytes
  PROVE  /\ PlaceInv' /\ Len(rows') = Len(rows) /\ DOMAIN rows' = DOMAIN rows
         /\ \A i \in DOMAIN rows : rows'[i].sa = rows[i].sa /\ rows'[i].state = rows[i].state
<1> DEFINE x == listed[at].sa
           last == rows[Len(rows)]
<1>1. PICK kind \in {"rekeying", "child", "spis", "bytes"} : Reads(kind)
  BY DatumRow
<1>2. x \in Conns
  BY <1>1, ReadsLine DEF PlaceInv, Entry
<1>3. UNCHANGED locals
  BY DatumRow
<1>4. CASE rows' = rows /\ rows = <<>>
  <2>1. [sa |-> x, state |-> "ESTABLISHED", rekey_count |-> 0, uptime |-> None,
         lifetime |-> None, child |-> None, spis |-> None, bytes |-> None] \in Row
    BY <1>2 DEF Row, Understood
  <2>2. QED
    BY <1>1, <1>3, <1>4, <2>1, RowChanged
<1>5. CASE rows # <<>>
  <2>1. Len(rows) \in 1..Len(rows) /\ rows \in Seq(Row)
    BY <1>5, EmptySeq, LenProperties DEF PlaceInv, ReadType
  <2>2. last \in Row
    BY <2>1, ElementOfSeq
  <2> DEFINE Same(r) == r \in Row /\ r.sa = last.sa /\ r.state = last.state /\ r.uptime = last.uptime
  <2>3. /\ Same([last EXCEPT !.lifetime = x]) /\ Same([last EXCEPT !.child = x])
        /\ Same([last EXCEPT !.spis = x]) /\ Same([last EXCEPT !.bytes = x]) /\ Same(last)
    <3> HIDE DEF x, last
    <3>1. QED
      BY <1>2, <2>2 DEF Row
  <2>4. \E r : Same(r) /\ (rows' = rows \/ rows' = [rows EXCEPT ![Len(rows)] = r])
    <3> HIDE DEF Same
    <3>1. QED
      BY <1>5, <2>3, DatumRow
  <2>5. QED
    BY <1>1, <1>3, <1>5, <2>4, RowChanged
<1>6. QED
  BY <1>4, <1>5, DatumRow

LEMMA PlaceStep == PlaceInv /\ [NextObservers]_allVars => PlaceInv'
<1> SUFFICES ASSUME PlaceInv, [NextObservers]_allVars PROVE PlaceInv'
  OBVIOUS
<1> USE DEF poller, output, locals
<1>1. phase \in [Conns -> Phases]
  BY DEF PlaceInv, ReadType
<1>2. CASE \E x \in Conns : Initiate(x) \/ Established(x) \/ Lost(x) \/ Gone(x)
  BY <1>1, <1>2, PlaceIdle
  DEF Initiate, Established, Lost, Gone, Becomes, Changed, Phases
<1>3. CASE \E x, y \in Conns : Rekey(x, y)
  BY <1>1, <1>3, PlaceIdle DEF Rekey, Changed, Phases
<1>4. CASE Count \/ PollFails
  BY <1>1, <1>4, PlaceIdle DEF Count, PollFails
<1>5. CASE Write
  <2>1. ReadType' /\ DOMAIN listed' = {} /\ DOMAIN rows' = {}
    <3>1. listed' = <<>> /\ rows' = <<>> /\ at' = 0 /\ part' = 1 /\ age' = None /\ phase' = phase
      BY <1>5 DEF Write
    <3>2. QED
      BY <1>1, <3>1 DEF ReadType
  <2>2. QED
    BY <1>5, <2>1
    DEF Write, PlaceInv, ListingHolds, AtOwnRow, LocalsOfRows, UptimeOfEstablished
<1>6. CASE UNCHANGED allVars
  BY <1>6
  DEF allVars, PlaceInv, ReadType, ListingHolds, AtOwnRow, LocalsOfRows, UptimeOfEstablished
<1>7. QED
  BY <1>2, <1>3, <1>4, <1>5, <1>6, PlacePoll, PlaceHeader, PlaceDatum DEF NextObservers

\* A row always has the age of its own SA, for any listing and wherever it is read.
THEOREM UptimeCorrect == SpecObservers => []UptimeOfEstablished
<1>1. PlaceInv => UptimeOfEstablished
  BY DEF PlaceInv
<1>2. QED
  BY <1>1, PlaceInit, PlaceStep, PTL DEF SpecObservers

-----------------------------------------------------------------------------
(***************************************************************************)
(* The data of the rows.                                                   *)
(***************************************************************************)

NoneDeleting == \A x \in Conns : ~Deleting(x)

\* A datum is the row's own, or of an SA that is being deleted.
OwnOrDeleted(row) ==
  /\ \A x \in {row.lifetime, row.child, row.spis, row.bytes} :
       x = None \/ x = row.sa \/ Deleting(x)
  /\ row.child # None => NameOf[row.child] = NameOf[row.sa]

\* The row has the data of its SA's lines before this one.
HasLinesBefore(row, line) ==
  LET From(n) == IF line > n THEN row.sa ELSE None IN
    row.lifetime = From(2) /\ row.child = From(3) /\ row.spis = From(4) /\ row.bytes = From(5)

\* The line the reader is at in the lines of row i; 6 if it is past them.
LineOf(i) == IF part > 1 /\ i = Len(rows) THEN part ELSE 6

DataInv ==
  \A i \in DOMAIN rows :
    OwnOrDeleted(rows[i]) /\ (NoneDeleting => HasLinesBefore(rows[i], LineOf(i)))

LEMMA DataInit == InitObservers => DataInv
<1> SUFFICES ASSUME rows = <<>> PROVE DataInv
  BY DEF InitObservers
<1>1. DOMAIN rows = {}
  OBVIOUS
<1>2. QED
  BY <1>1 DEF DataInv

\* The header of an SA: the row above is finished, a new one is empty.
LEMMA DataHeader == ASSUME PlaceInv, DataInv, Header PROVE DataInv'
<1> DEFINE e == listed[at]
<1>1. rows \in Seq(Row) /\ Len(rows) \in Nat /\ DOMAIN rows = 1..Len(rows)
  BY LenProperties DEF PlaceInv, ReadType
<1>2. Reads("header")
  BY DEF Header
<1>3. /\ at \in DOMAIN listed /\ e \in Entry /\ phase' = phase /\ part = 1
      /\ IF e.state \in {"ESTABLISHED", "DELETING"} THEN part' = 2 ELSE part' = 1
  BY <1>2, ReadsLine DEF LineIs, PlaceInv
<1>4. \A row : OwnOrDeleted(row)' <=> OwnOrDeleted(row)
  BY <1>3 DEF OwnOrDeleted, Deleting
<1>5. NoneDeleting' <=> NoneDeleting
  BY <1>3 DEF NoneDeleting, Deleting
<1>6. e.state = "DELETING" => ~NoneDeleting
  BY <1>3 DEF PlaceInv, ListingHolds, NoneDeleting, Deleting, Entry
<1>7. \A i \in DOMAIN rows : LineOf(i) = 6
  BY <1>3 DEF LineOf
<1>8. CASE e.state \in {"CONNECTING", "REKEYED", "DELETING"} /\ rows' = rows
  <2>1. NoneDeleting => \A i \in DOMAIN rows : LineOf(i)' = 6
    BY <1>3, <1>6, <1>8 DEF LineOf
  <2>2. QED
    BY <1>4, <1>5, <1>7, <1>8, <2>1 DEF DataInv, HasLinesBefore
<1>9. ASSUME e.state = "ESTABLISHED",
             NEW r \in Row, rows' = Append(rows, r), r.state = e.state,
             r.lifetime = None, r.child = None, r.spis = None, r.bytes = None
      PROVE  DataInv'
  <2>1. /\ Len(rows') = Len(rows) + 1 /\ rows'[Len(rows) + 1] = r
        /\ DOMAIN rows' = 1..Len(rows) + 1 /\ \A i \in 1..Len(rows) : rows'[i] = rows[i]
    BY <1>1, <1>9, AppendProperties, LenProperties
  <2>2. \A i : LineOf(i)' = IF i = Len(rows) + 1 /\ part' > 1 THEN part' ELSE 6
    BY <2>1 DEF LineOf
  <2>3. OwnOrDeleted(r)
    BY <1>9 DEF OwnOrDeleted
  <2>4. HasLinesBefore(r, IF part' > 1 THEN part' ELSE 6)
    BY <1>3, <1>9 DEF HasLinesBefore
  <2>5. \A i \in 1..Len(rows) + 1 : i \in 1..Len(rows) \/ i = Len(rows) + 1
    BY <1>1
  <2>6. ASSUME NEW i \in 1..Len(rows) + 1
        PROVE  OwnOrDeleted(rows'[i]) /\ (NoneDeleting => HasLinesBefore(rows'[i], LineOf(i)'))
    <3>1. CASE i = Len(rows) + 1
      BY <2>1, <2>2, <2>3, <2>4, <3>1
    <3>2. CASE i \in 1..Len(rows)
      <4>1. rows'[i] = rows[i] /\ LineOf(i)' = 6 /\ LineOf(i) = 6
        BY <1>1, <1>7, <2>1, <2>2, <3>2
      <4>2. QED
        BY <1>1, <3>2, <4>1 DEF DataInv
    <3>3. QED
      BY <2>5, <3>1, <3>2
  <2>7. QED
    BY <1>4, <1>5, <2>1, <2>6 DEF DataInv, HasLinesBefore
<1>10. QED
  BY <1>8, <1>9, HeaderRow

\* Another line: the last row gets a datum of its own, or of an SA being deleted.
LEMMA DataDatum == ASSUME PlaceInv, DataInv, Rekeying \/ Child \/ Spis \/ Bytes PROVE DataInv'
<1> DEFINE x == listed[at].sa
           n == Len(rows)
           last == rows[n]
<1>1. PICK kind \in {"rekeying", "child", "spis", "bytes"} : Reads(kind)
  BY DatumRow
<1>2. /\ listed[at] \in Entry /\ at \in DOMAIN listed /\ phase' = phase
      /\ listed[at].state \in {"ESTABLISHED", "DELETING"} /\ part \in 2..5
      /\ IF kind = "bytes" THEN part' = 1 ELSE part' = part + 1
  <2>1. /\ LineIs(listed[at].state, part, kind) /\ listed[at] \in Entry /\ at \in DOMAIN listed
        /\ phase' = phase
        /\ IF kind = "bytes" \/ listed[at].state \notin {"ESTABLISHED", "DELETING"}
           THEN part' = 1 ELSE part' = part + 1
    BY <1>1, ReadsLine DEF PlaceInv
  <2>2. listed[at].state \in {"ESTABLISHED", "DELETING"} /\ part \in 2..5
    BY <2>1 DEF LineIs
  <2>3. QED
    BY <2>1, <2>2
<1>3. /\ rows \in Seq(Row) /\ n \in Nat /\ DOMAIN rows = 1..n
      /\ DOMAIN rows' = DOMAIN rows /\ Len(rows') = n
  BY LenProperties, PlaceDatum DEF PlaceInv, ReadType
<1>4. \A row : OwnOrDeleted(row)' <=> OwnOrDeleted(row)
  BY <1>2 DEF OwnOrDeleted, Deleting
<1>5. NoneDeleting' <=> NoneDeleting
  BY <1>2 DEF NoneDeleting, Deleting
<1>6. \/ Deleting(x) /\ x \in Conns
      \/ listed[at].state = "ESTABLISHED" /\ rows # <<>> /\ x = last.sa
         /\ last.state = "ESTABLISHED"
  BY <1>2 DEF PlaceInv, ListingHolds, AtOwnRow, Deleting, Entry
<1>7. CASE rows = <<>>
  BY <1>3, <1>7, EmptySeq DEF DataInv
<1>8. CASE rows # <<>>
  <2>1. n \in 1..n
    BY <1>3, <1>8, EmptySeq
  <2>2. last \in Row
    BY <1>3, <2>1, ElementOfSeq
  <2>3. NameOf[last.sa] = current
    BY <1>8 DEF PlaceInv, LocalsOfRows
  <2> DEFINE Fits(r) ==
        OwnOrDeleted(r) /\ (NoneDeleting => HasLinesBefore(r, IF part' > 1 THEN part' ELSE 6))
  <2>4. OwnOrDeleted(last) /\ (NoneDeleting => HasLinesBefore(last, part))
    BY <1>2, <1>3, <2>1 DEF DataInv, LineOf
  <2>5. Fits(rows'[n]) /\ \A i \in 1..n : i # n => rows'[i] = rows[i]
    <3>1. NoneDeleting => listed[at].state = "ESTABLISHED" /\ x = last.sa
                          /\ last.state = "ESTABLISHED"
      BY <1>6 DEF NoneDeleting
    <3>2. x = last.sa \/ Deleting(x)
      BY <1>6
    <3> HIDE DEF x, last
    <3>3. CASE Rekeying
      <4>1. Reads("rekeying") /\ rows' = [rows EXCEPT ![n] = [@ EXCEPT !.lifetime = x]]
        BY <1>8, <3>3 DEF Rekeying, LastRow, x
      <4>2. part = 2 /\ part' = 3
        BY <4>1, ReadsLine DEF PlaceInv, LineIs
      <4>3. rows'[n] = [last EXCEPT !.lifetime = x] /\ \A i \in 1..n : i # n => rows'[i] = rows[i]
        BY <1>3, <2>1, <4>1 DEF last
      <4>4. Fits([last EXCEPT !.lifetime = x])
        BY <2>2, <2>4, <3>1, <3>2, <4>2 DEF Row, OwnOrDeleted, HasLinesBefore
      <4>5. QED
        BY <4>3, <4>4
    <3>4. CASE Spis
      <4>1. Reads("spis") /\ rows' = [rows EXCEPT ![n] = [@ EXCEPT !.spis = x]]
        BY <1>8, <3>4 DEF Spis, LastRow, x
      <4>2. part' = part + 1 /\ part \in {3, 4} /\ (NoneDeleting => part = 4)
        BY <3>1, <4>1, ReadsLine DEF PlaceInv, LineIs
      <4>3. rows'[n] = [last EXCEPT !.spis = x] /\ \A i \in 1..n : i # n => rows'[i] = rows[i]
        BY <1>3, <2>1, <4>1 DEF last
      <4>4. Fits([last EXCEPT !.spis = x])
        BY <2>2, <2>4, <3>1, <3>2, <4>2 DEF Row, OwnOrDeleted, HasLinesBefore
      <4>5. QED
        BY <4>3, <4>4
    <3>5. CASE Bytes
      <4>1. Reads("bytes") /\ rows' = [rows EXCEPT ![n] = [@ EXCEPT !.bytes = x]]
        BY <1>8, <3>5 DEF Bytes, LastRow, x
      <4>2. part' = 1 /\ (NoneDeleting => part = 5)
        BY <3>1, <4>1, ReadsLine DEF PlaceInv, LineIs
      <4>3. rows'[n] = [last EXCEPT !.bytes = x] /\ \A i \in 1..n : i # n => rows'[i] = rows[i]
        BY <1>3, <2>1, <4>1 DEF last
      <4>4. Fits([last EXCEPT !.bytes = x])
        BY <2>2, <2>4, <3>1, <3>2, <4>2 DEF Row, OwnOrDeleted, HasLinesBefore
      <4>5. QED
        BY <4>3, <4>4
    <3>6. CASE Child
      <4>1. Reads("child")
            /\ rows' = IF NameOf[x] # current THEN rows
                       ELSE [rows EXCEPT ![n] = [@ EXCEPT !.child = x]]
        BY <1>8, <3>6 DEF Child, LastRow, x
      <4>2. part' = part + 1 /\ part \in {2, 3} /\ (NoneDeleting => part = 3)
        BY <3>1, <4>1, ReadsLine DEF PlaceInv, LineIs
      <4>3. CASE NameOf[x] # current
        <5>1. ~NoneDeleting
          BY <2>3, <3>1, <4>3 DEF last
        <5>2. QED
          BY <2>4, <4>1, <4>3, <5>1 DEF last
      <4>4. CASE NameOf[x] = current
        <5>1. rows'[n] = [last EXCEPT !.child = x] /\ \A i \in 1..n : i # n => rows'[i] = rows[i]
          BY <1>3, <2>1, <4>1, <4>4 DEF last
        <5>2. Fits([last EXCEPT !.child = x])
          <6>1. NameOf[x] = NameOf[last.sa]
            BY <2>3, <4>4 DEF last
          <6>2. QED
            BY <2>2, <2>4, <3>1, <3>2, <4>2, <6>1 DEF Row, OwnOrDeleted, HasLinesBefore
        <5>3. QED
          BY <5>1, <5>2
      <4>5. QED
        BY <4>3, <4>4
    <3>7. QED
      BY <3>3, <3>4, <3>5, <3>6
  <2>6. \A i \in 1..n : LineOf(i)' = IF i = n /\ part' > 1 THEN part' ELSE 6
    BY <1>3 DEF LineOf
  <2>7. \A i \in 1..n : i # n => LineOf(i) = 6
    BY DEF LineOf
  <2>8. ASSUME NEW i \in 1..n
        PROVE  OwnOrDeleted(rows'[i]) /\ (NoneDeleting => HasLinesBefore(rows'[i], LineOf(i)'))
    <3>1. CASE i = n
      BY <2>5, <2>6, <3>1
    <3>2. CASE i # n
      BY <1>3, <2>5, <2>6, <2>7, <3>2 DEF DataInv
    <3>3. QED
      BY <3>1, <3>2
  <2>9. QED
    BY <1>3, <1>4, <1>5, <2>8 DEF DataInv, HasLinesBefore
<1>9. QED
  BY <1>7, <1>8

LEMMA DataStep == PlaceInv /\ DataInv /\ [NextObservers]_allVars => DataInv'
<1> SUFFICES ASSUME PlaceInv, DataInv, [NextObservers]_allVars PROVE DataInv'
  OBVIOUS
<1> USE DEF poller, output, locals
<1>1. ASSUME at = 0, rows' = rows PROVE DataInv'
  BY <1>1 DEF PlaceInv, ListingHolds, DataInv
<1>2. CASE \E x \in Conns : Initiate(x) \/ Established(x) \/ Lost(x) \/ Gone(x)
  BY <1>1, <1>2 DEF Initiate, Established, Lost, Gone, Changed
<1>3. CASE (\E x, y \in Conns : Rekey(x, y)) \/ Count \/ PollFails
  BY <1>1, <1>3 DEF Rekey, Changed, Count, PollFails
<1>4. CASE Poll \/ Write
  <2>1. rows' = <<>>
    BY <1>4 DEF Poll, Write
  <2>2. QED
    BY <2>1 DEF DataInv
<1>5. CASE UNCHANGED allVars
  BY <1>5
  DEF allVars, DataInv, OwnOrDeleted, NoneDeleting, Deleting, HasLinesBefore, LineOf
<1>6. QED
  BY <1>2, <1>3, <1>4, <1>5, DataHeader, DataDatum DEF NextObservers

\* The data that follow a header are those of the row's own SA, unless an SA is being
\* deleted, and a row is complete when the listing is read, for any listing.
THEOREM CountersCorrect == SpecObservers => []CountersOfOwnSa
<1>1. PlaceInv /\ DataInv => CountersOfOwnSa
  <2> SUFFICES ASSUME PlaceInv, DataInv, NEW i \in DOMAIN rows
                 PROVE  LET data == {rows[i].lifetime, rows[i].child, rows[i].spis, rows[i].bytes}
                        IN /\ \A x \in data \ {None, rows[i].sa} : Deleting(x)
                           /\ rows[i].child # None => NameOf[rows[i].child] = NameOf[rows[i].sa]
                           /\ Finished /\ NoneDeleting =>
                                data = {rows[i].sa}
    BY DEF CountersOfOwnSa, NoneDeleting
  <2>1. OwnOrDeleted(rows[i]) /\ (NoneDeleting => HasLinesBefore(rows[i], LineOf(i)))
    BY DEF DataInv
  <2>2. Finished => LineOf(i) = 6
    BY LenProperties DEF PlaceInv, ReadType, Finished, LineOf
  <2>3. QED
    BY <2>1, <2>2 DEF OwnOrDeleted, HasLinesBefore
<1>2. QED
  BY <1>1, PlaceInit, PlaceStep, DataInit, DataStep, PTL DEF SpecObservers

-----------------------------------------------------------------------------
(***************************************************************************)
(* The daemon and the exporter.                                            *)
(***************************************************************************)

\* The header of the k-th SA of the listing has been read.
HeaderRead(k) == k < at \/ (k = at /\ part > 1)

\* The listing has every SA once, and the rows are its SAs read so far, without
\* repetition and with every established one.
RowsOfListing ==
  /\ at # 0 =>
       /\ \A i, j \in DOMAIN listed : listed[i].sa = listed[j].sa => i = j
       /\ \A x \in Conns : phase[x] # "absent" => \E i \in DOMAIN listed : listed[i].sa = x
  /\ \A i \in DOMAIN rows : \E k \in DOMAIN listed :
       HeaderRead(k) /\ listed[k].sa = rows[i].sa /\ listed[k].state = rows[i].state
  /\ \A i, j \in DOMAIN rows : rows[i].sa = rows[j].sa => i = j
  /\ \A k \in DOMAIN listed : HeaderRead(k) /\ listed[k].state = "ESTABLISHED" =>
       \E i \in DOMAIN rows : rows[i].sa = listed[k].sa /\ rows[i].state = "ESTABLISHED"

\* What either has counted is the number there is, until that changes.
CountsHold ==
  /\ up = {x \in Conns : phase[x] = "ESTABLISHED"}
  /\ polled => shown = Cardinality(up)
  /\ counted => prev \in {Reading(Cardinality(up)), Reading(0)}

AgreeInv == RowsOfListing /\ CountsHold

LEMMA AgreeInit == InitObservers => AgreeInv
<1> SUFFICES ASSUME InitObservers PROVE AgreeInv
  OBVIOUS
<1>1. DOMAIN rows = {} /\ DOMAIN listed = {} /\ at = 0
  <2>1. rows = <<>> /\ listed = <<>> /\ at = 0
    BY DEF InitObservers
  <2>2. QED
    BY <2>1
<1>2. up \subseteq Conns /\ phase = [x \in Conns |-> IF x \in up THEN "ESTABLISHED" ELSE "absent"]
  BY DEF InitObservers, Init
<1>3. ~polled /\ ~counted
  BY DEF InitObservers
<1>4. QED
  BY <1>1, <1>2, <1>3 DEF AgreeInv, RowsOfListing, CountsHold

LEMMA ListingPoll == ASSUME PlaceInv, AgreeInv, Poll PROVE RowsOfListing'
<1> DEFINE there == {x \in Conns : phase[x] # "absent"}
<1>1. PICK order \in [1..Cardinality(there) -> there] :
        /\ \A x \in there : \E i \in DOMAIN order : order[i] = x
        /\ listed' = [i \in DOMAIN order |-> [sa |-> order[i], state |-> phase[order[i]]]]
  BY DEF Poll
<1>2. at' = 1 /\ part' = 1 /\ phase' = phase /\ DOMAIN rows' = {}
  BY DEF Poll
<1>3. IsFiniteSet(there) /\ Cardinality(there) \in Nat
  BY HealthAssumption, FS_Subset, FS_CardinalityType
<1>4. /\ IsFiniteSet(1..Cardinality(there))
      /\ Cardinality(1..Cardinality(there)) = Cardinality(there)
  BY <1>3, FS_Interval
<1>5. order \in Surjection(1..Cardinality(there), there)
  BY <1>1 DEF Surjection
<1>6. order \in Injection(1..Cardinality(there), there)
  BY <1>3, <1>4, <1>5, FS_SurjSameCardinalityImpliesInj
<1>7. \A i, j \in DOMAIN order : order[i] = order[j] => i = j
  BY <1>6 DEF Injection, IsInjective
<1>8. DOMAIN listed' = DOMAIN order /\ \A i \in DOMAIN order : listed'[i].sa = order[i]
  BY <1>1
<1>9. \A k \in DOMAIN listed' : ~HeaderRead(k)'
  <2>1. DOMAIN order = 1..Cardinality(there)
    OBVIOUS
  <2>2. QED
    BY <1>2, <1>3, <1>8, <2>1 DEF HeaderRead
<1>10. QED
  BY <1>1, <1>2, <1>7, <1>8, <1>9 DEF RowsOfListing

LEMMA ListingHeader == ASSUME PlaceInv, AgreeInv, Header PROVE RowsOfListing'
<1> DEFINE e == listed[at]
<1>1. rows \in Seq(Row) /\ Len(rows) \in Nat /\ DOMAIN rows = 1..Len(rows)
  BY LenProperties DEF PlaceInv, ReadType
<1>2. /\ at \in DOMAIN listed /\ listed' = listed /\ phase' = phase /\ part = 1
      /\ at \in Nat \ {0} /\ DOMAIN listed \subseteq Nat
      /\ IF e.state \in {"ESTABLISHED", "DELETING"} THEN part' = 2 /\ at' = at
         ELSE part' = 1 /\ at' = at + 1
  <2>1. Reads("header")
    BY DEF Header
  <2>2. at \in Nat /\ listed \in Seq(Entry) /\ DOMAIN listed = 1..Len(listed) /\ Len(listed) \in Nat
    BY LenProperties DEF PlaceInv, ReadType
  <2>3. QED
    BY <2>1, <2>2, ReadsLine DEF LineIs, PlaceInv
<1>3. \A k \in DOMAIN listed : HeaderRead(k)' <=> HeaderRead(k) \/ k = at
  BY <1>2 DEF HeaderRead
<1>4. ~HeaderRead(at)
  BY <1>2 DEF HeaderRead
<1>5. CASE e.state \in {"CONNECTING", "REKEYED", "DELETING"} /\ rows' = rows
  BY <1>2, <1>3, <1>5 DEF AgreeInv, RowsOfListing
<1>6. ASSUME e.state = "ESTABLISHED",
             NEW r \in Row, rows' = Append(rows, r), r.sa = e.sa, r.state = e.state
      PROVE  RowsOfListing'
  <2>1. /\ rows'[Len(rows) + 1] = r /\ DOMAIN rows' = 1..Len(rows) + 1
        /\ \A i \in 1..Len(rows) : rows'[i] = rows[i]
    BY <1>1, <1>6, AppendProperties, LenProperties
  <2>2. \A i \in 1..Len(rows) + 1 : i \in 1..Len(rows) \/ i = Len(rows) + 1
    BY <1>1
  <2>3. \A i \in 1..Len(rows) : i \in 1..Len(rows) + 1 /\ i # Len(rows) + 1
    BY <1>1
  <2>4. \A i \in 1..Len(rows) : rows[i].sa # e.sa
    BY <1>1, <1>2, <1>4 DEF AgreeInv, RowsOfListing
  <2>5. \A i \in DOMAIN rows' : \E k \in DOMAIN listed :
          HeaderRead(k)' /\ listed[k].sa = rows'[i].sa /\ listed[k].state = rows'[i].state
    BY <1>1, <1>2, <1>3, <1>6, <2>1, <2>2 DEF AgreeInv, RowsOfListing
  <2>6. \A i, j \in DOMAIN rows' : rows'[i].sa = rows'[j].sa => i = j
    BY <1>1, <1>6, <2>1, <2>2, <2>4 DEF AgreeInv, RowsOfListing
  <2>7. \A k \in DOMAIN listed : HeaderRead(k)' /\ listed[k].state = "ESTABLISHED" =>
          \E i \in DOMAIN rows' : rows'[i].sa = listed[k].sa /\ rows'[i].state = "ESTABLISHED"
    <3>1. Len(rows) + 1 \in DOMAIN rows'
      BY <1>1, <2>1
    <3>2. QED
      BY <1>1, <1>3, <1>6, <2>1, <2>3, <3>1 DEF AgreeInv, RowsOfListing
  <2>8. QED
    BY <1>2, <2>5, <2>6, <2>7 DEF AgreeInv, RowsOfListing
<1>7. QED
  BY <1>5, <1>6, HeaderRow

LEMMA ListingDatum ==
  ASSUME PlaceInv, AgreeInv, Rekeying \/ Child \/ Spis \/ Bytes PROVE RowsOfListing'
<1>1. PICK kind \in {"rekeying", "child", "spis", "bytes"} : Reads(kind)
  BY DatumRow
<1>2. /\ listed' = listed /\ phase' = phase /\ at \in Nat \ {0} /\ part \in 2..5
      /\ DOMAIN listed \subseteq Nat
      /\ IF kind = "bytes" THEN part' = 1 /\ at' = at + 1 ELSE part' = part + 1 /\ at' = at
  <2>1. at \in Nat /\ listed \in Seq(Entry) /\ DOMAIN listed = 1..Len(listed) /\ Len(listed) \in Nat
    BY LenProperties DEF PlaceInv, ReadType
  <2>2. /\ LineIs(listed[at].state, part, kind) /\ at \in DOMAIN listed
        /\ listed' = listed /\ phase' = phase
        /\ IF kind = "bytes" \/ listed[at].state \notin {"ESTABLISHED", "DELETING"}
           THEN part' = 1 /\ at' = at + 1 ELSE part' = part + 1 /\ at' = at
    BY <1>1, ReadsLine DEF PlaceInv
  <2>3. listed[at].state \in {"ESTABLISHED", "DELETING"} /\ part \in 2..5
    BY <2>2 DEF LineIs
  <2>4. QED
    BY <2>1, <2>2, <2>3
<1>3. \A k \in DOMAIN listed : HeaderRead(k)' <=> HeaderRead(k)
  BY <1>2 DEF HeaderRead
<1>4. /\ DOMAIN rows' = DOMAIN rows
      /\ \A i \in DOMAIN rows : rows'[i].sa = rows[i].sa /\ rows'[i].state = rows[i].state
  BY PlaceDatum
<1>5. at' # 0
  BY <1>2
<1>6. QED
  BY <1>2, <1>3, <1>4, <1>5 DEF AgreeInv, RowsOfListing

\* At the end of the listing the rows of established SAs are as many as those SAs.
LEMMA WriteCounts ==
  ASSUME PlaceInv, AgreeInv, Write
  PROVE  Cardinality({i \in DOMAIN rows : rows[i].state = "ESTABLISHED"}) = Cardinality(up)
<1> DEFINE its == {i \in DOMAIN rows : rows[i].state = "ESTABLISHED"}
           f == [i \in its |-> rows[i].sa]
<1>1. /\ rows \in Seq(Row) /\ DOMAIN rows = 1..Len(rows) /\ Len(rows) \in Nat
      /\ listed \in Seq(Entry) /\ DOMAIN listed = 1..Len(listed) /\ Len(listed) \in Nat
      /\ at \in Nat /\ at > Len(listed)
  BY LenProperties DEF PlaceInv, ReadType, Write
<1>2. \A k \in DOMAIN listed : HeaderRead(k) /\ phase[listed[k].sa] = listed[k].state
  BY <1>1 DEF HeaderRead, PlaceInv, ListingHolds
<1>3. at # 0
  BY <1>1
<1>4. \A i \in DOMAIN rows : rows[i].sa \in Conns
  <2>1. \A i \in DOMAIN rows : rows[i] \in Row
    BY <1>1, ElementOfSeq
  <2>2. QED
    BY <2>1 DEF Row
<1>5. \A i \in its : rows[i].sa \in up
  BY <1>2, <1>4 DEF AgreeInv, RowsOfListing, CountsHold
<1>6. f \in [its -> up] /\ \A i \in its : f[i] = rows[i].sa
  BY <1>5
<1>7. \A i, j \in its : f[i] = f[j] => i = j
  BY <1>6 DEF AgreeInv, RowsOfListing
<1>8. \A x \in up : \E i \in its : f[i] = x
  BY <1>2, <1>3, <1>6 DEF AgreeInv, RowsOfListing, CountsHold
<1>9. IsFiniteSet(its)
  <2>1. IsFiniteSet(1..Len(rows)) /\ its \subseteq 1..Len(rows)
    BY <1>1, FS_Interval
  <2>2. QED
    BY <2>1, FS_Subset
<1> HIDE DEF its, f
<1>10. f \in Bijection(its, up)
  BY <1>6, <1>7, <1>8 DEF Bijection, Injection, Surjection, IsInjective
<1>11. Cardinality(up) = Cardinality(its)
  BY <1>9, <1>10, FS_Bijection DEF ExistsBijection
<1>12. QED
  BY <1>11 DEF its

LEMMA AgreeStep == PlaceInv /\ AgreeInv /\ [NextObservers]_allVars => AgreeInv'
<1> SUFFICES ASSUME PlaceInv, AgreeInv, [NextObservers]_allVars PROVE AgreeInv'
  OBVIOUS
<1> USE DEF poller, output, locals, vars, monitorVars
<1>1. phase \in [Conns -> Phases] /\ up = {x \in Conns : phase[x] = "ESTABLISHED"}
  BY DEF PlaceInv, ReadType, AgreeInv, CountsHold
<1>2. ASSUME at = 0, UNCHANGED <<output, rows>> PROVE RowsOfListing'
  BY <1>2 DEF PlaceInv, ListingHolds, RowsOfListing
<1>3. CASE \E x \in Conns : Initiate(x) \/ Established(x) \/ Lost(x) \/ Gone(x)
  <2>1. RowsOfListing'
    BY <1>2, <1>3 DEF Initiate, Established, Lost, Gone, Changed
  <2>2. ~counted' /\ ~polled'
    BY <1>3 DEF Initiate, Established, Lost, Gone, Changed
  <2>3. up' = {x \in Conns : phase'[x] = "ESTABLISHED"}
    BY <1>1, <1>3
    DEF Initiate, Established, Establish, Lost, Lose, Gone, Becomes, Changed
  <2>4. QED
    BY <2>1, <2>2, <2>3 DEF AgreeInv, CountsHold
<1>4. CASE \E x, y \in Conns : Rekey(x, y)
  <2>1. RowsOfListing'
    BY <1>2, <1>4 DEF Rekey, Changed
  <2>2. ~counted' /\ ~polled'
    BY <1>4 DEF Rekey, Changed
  <2>3. up' = {x \in Conns : phase'[x] = "ESTABLISHED"}
    BY <1>1, <1>4 DEF Rekey
  <2>4. QED
    BY <2>1, <2>2, <2>3 DEF AgreeInv, CountsHold
<1>5. CASE Count
  BY <1>2, <1>5 DEF Count, Tick, AgreeInv, CountsHold
<1>6. CASE PollFails
  BY <1>2, <1>6 DEF PollFails, AgreeInv, CountsHold
<1>7. CASE Poll
  BY <1>7, ListingPoll DEF Poll, AgreeInv, CountsHold
<1>8. CASE Header
  BY <1>8, ListingHeader DEF Header, Reads, AgreeInv, CountsHold
<1>9. CASE Rekeying \/ Child \/ Spis \/ Bytes
  <2>1. RowsOfListing'
    BY <1>9, ListingDatum
  <2>2. \E kind : Reads(kind)
    BY <1>9 DEF Rekeying, Child, Spis, Bytes
  <2>3. UNCHANGED <<up, prev, phase, shown, counted, polled>>
    BY <2>2 DEF Reads
  <2>4. QED
    BY <2>1, <2>3 DEF AgreeInv, CountsHold
<1>10. CASE Write
  <2>1. shown' = Cardinality(up) /\ UNCHANGED <<up, prev, counted, phase>>
    BY <1>10, WriteCounts DEF Write
  <2>2. DOMAIN rows' = {} /\ DOMAIN listed' = {} /\ at' = 0
    BY <1>10 DEF Write
  <2>3. QED
    BY <2>1, <2>2 DEF AgreeInv, RowsOfListing, CountsHold
<1>11. CASE UNCHANGED allVars
  BY <1>11 DEF allVars, AgreeInv, RowsOfListing, HeaderRead, CountsHold
<1>12. QED
  BY <1>3, <1>4, <1>5, <1>6, <1>7, <1>8, <1>9, <1>10, <1>11 DEF NextObservers

\* The daemon and the exporter agree on the number of SAs if they have looked at the same
\* ones, whatever the order of the listing, and the daemon's count was a number.
THEOREM ObserversAgreeCorrect == SpecObservers => []ObserversAgree
<1>1. AgreeInv => ObserversAgree
  BY DEF AgreeInv, CountsHold, ObserversAgree, Reading
<1>2. QED
  BY <1>1, PlaceInit, PlaceStep, AgreeInit, AgreeStep, PTL DEF SpecObservers

-----------------------------------------------------------------------------
(***************************************************************************)
(* The type invariant.                                                     *)
(***************************************************************************)

RestTypeOK ==
  /\ at <= Len(listed) + 1 /\ current \in Names \cup {None}
  /\ prev_spis \in [Names -> {"", "spi"}] /\ shown \in Nat
  /\ counted \in BOOLEAN /\ polled \in BOOLEAN /\ seen \in [Names -> Conns \cup {None}]

TypeInv == IInv /\ PlaceInv /\ AgreeInv /\ RestTypeOK

\* A set of positions of a sequence that is not empty has a last one.
LEMMA LastPosition ==
  ASSUME NEW n \in Nat, NEW T \in SUBSET (1..n), T # {}
  PROVE  \E x \in T : \A y \in T : y <= x
<1> DEFINE R == {ss \in Nat \X Nat : ss[1] < ss[2]}
           D == {d \in 0..n : n - d \in T}
<1>1. IsWellFoundedOn(R, Nat)
  BY NatLessThanWellFounded DEF OpToRel
<1>2. \A x, y \in Nat : <<y, x>> \in R <=> y < x
  OBVIOUS
<1>3. D \subseteq Nat /\ D # {}
  <2>1. PICK x : x \in T
    OBVIOUS
  <2>2. n - x \in D
    BY <2>1
  <2>3. QED
    BY <2>2
<1> HIDE DEF R
<1>4. PICK d \in D : \A e \in D : ~(<<e, d>> \in R)
  BY <1>1, <1>3, WFMin
<1>5. n - d \in T /\ d \in 0..n
  OBVIOUS
<1>6. ASSUME NEW y \in T PROVE y <= n - d
  <2>1. n - y \in D /\ n - y \in Nat /\ d \in Nat
    BY <1>5
  <2>2. ~(n - y < d)
    BY <1>2, <1>4, <2>1
  <2>3. QED
    BY <1>5, <2>1, <2>2
<1>7. QED
  BY <1>5, <1>6

LEMMA LastOfType ==
  ASSUME PlaceInv, RestTypeOK, NEW c \in Names
  PROVE  LastOf(c) \in Conns \cup {None}
<1> DEFINE its == {i \in DOMAIN rows : NameOf[rows[i].sa] = c /\ rows[i].state = "ESTABLISHED"}
           last == CHOOSE i \in its : \A j \in its : j <= i
<1>1. LastOf(c) = IF its = {} THEN seen[c] ELSE rows[last].sa
  BY DEF LastOf
<1>2. Len(rows) \in Nat /\ DOMAIN rows = 1..Len(rows) /\ rows \in Seq(Row)
  BY LenProperties DEF PlaceInv, ReadType
<1>3. ASSUME its # {} PROVE rows[last].sa \in Conns
  <2>1. \E i \in its : \A j \in its : j <= i
    BY <1>2, <1>3, LastPosition
  <2>2. last \in DOMAIN rows
    BY <2>1
  <2> HIDE DEF last
  <2>3. rows[last] \in Row
    BY <1>2, <2>2, ElementOfSeq
  <2>4. QED
    BY <2>3 DEF Row
<1>4. seen[c] \in Conns \cup {None}
  BY DEF RestTypeOK
<1> HIDE DEF its, last
<1>5. QED
  BY <1>1, <1>3, <1>4

LEMMA TypeInitOfObservers == InitObservers => TypeInv
<1> SUFFICES ASSUME InitObservers PROVE RestTypeOK
  BY HealthInit, PlaceInit, AgreeInit DEF TypeInv
<1>1. at = 0 /\ Len(listed) = 0
  BY EmptySeq DEF InitObservers
<1>2. at <= Len(listed) + 1
  BY <1>1
<1>3. QED
  BY <1>2 DEF InitObservers, RestTypeOK

LEMMA TypeStepOfObservers == TypeInv /\ [NextObservers]_allVars => TypeInv'
<1> SUFFICES ASSUME TypeInv, [NextObservers]_allVars PROVE RestTypeOK'
  BY HealthStep, PlaceStep, AgreeStep DEF TypeInv
<1>1. Len(listed) \in Nat /\ at \in Nat /\ listed \in Seq(Entry) /\ DOMAIN listed = 1..Len(listed)
  BY LenProperties DEF TypeInv, PlaceInv, ReadType
<1>2. Len(listed') \in Nat
  <2>1. PlaceInv'
    BY PlaceStep DEF TypeInv
  <2>2. QED
    BY <2>1, LenProperties DEF PlaceInv, ReadType
<1>3. CASE UNCHANGED <<poller, seen>> /\ counted' \in BOOLEAN /\ polled' \in BOOLEAN
  BY <1>3 DEF poller, output, locals, TypeInv, RestTypeOK
<1>4. CASE Poll
  <2>1. at' = 1 /\ current' = None /\ UNCHANGED <<prev_spis, shown, counted, polled, seen>>
    BY <1>4 DEF Poll
  <2>2. at' <= Len(listed') + 1
    BY <1>2, <2>1
  <2>3. QED
    BY <2>1, <2>2 DEF TypeInv, RestTypeOK
<1>5. CASE PollFails
  BY <1>5 DEF PollFails, output, locals, TypeInv, RestTypeOK
<1>6. ASSUME NEW kind, Reads(kind)
      PROVE  at' <= Len(listed') + 1 /\ UNCHANGED <<shown, counted, polled, seen>>
  BY <1>1, <1>6 DEF Reads
<1>7. CASE Header
  <2>1. at \in DOMAIN listed
    BY <1>1, <1>7 DEF Header, Reads
  <2>2. NameOf[listed[at].sa] \in Names
    <3>1. listed[at] \in Entry
      BY <1>1, <2>1, ElementOfSeq
    <3>2. QED
      BY <3>1, ObserversAssumption DEF Entry
  <2>3. current' \in Names \cup {None} /\ prev_spis' \in [Names -> {"", "spi"}]
    BY <1>7, <2>2 DEF Header, locals, ike_spi, TypeInv, RestTypeOK
  <2>4. QED
    BY <1>6, <1>7, <2>3 DEF Header, TypeInv, RestTypeOK
<1>8. CASE Rekeying \/ Child \/ Spis \/ Bytes
  <2>1. (\E kind : Reads(kind)) /\ UNCHANGED <<locals, prev_spis>>
    BY <1>8 DEF Rekeying, Child, Spis, Bytes
  <2>2. QED
    BY <1>6, <2>1 DEF locals, TypeInv, RestTypeOK
<1>9. CASE Write
  <2>1. shown' \in Nat
    <3>1. Len(rows) \in Nat /\ DOMAIN rows = 1..Len(rows)
      BY LenProperties DEF TypeInv, PlaceInv, ReadType
    <3>2. IsFiniteSet(1..Len(rows))
      BY <3>1, FS_Interval
    <3>3. IsFiniteSet({i \in DOMAIN rows : rows[i].state = "ESTABLISHED"})
      BY <3>1, <3>2, FS_Subset
    <3>4. QED
      BY <1>9, <3>3, FS_CardinalityType DEF Write
  <2>2. seen' \in [Names -> Conns \cup {None}]
    BY <1>9, LastOfType DEF Write, TypeInv
  <2>3. at' = 0 /\ current' = None /\ polled' = TRUE /\ UNCHANGED <<prev_spis, counted>>
    BY <1>9 DEF Write
  <2>4. at' <= Len(listed') + 1
    BY <1>2, <2>3
  <2>5. QED
    BY <2>1, <2>2, <2>3, <2>4 DEF TypeInv, RestTypeOK
<1>10. CASE \/ \E x \in Conns : Initiate(x) \/ Established(x) \/ Lost(x) \/ Gone(x)
            \/ \E x, y \in Conns : Rekey(x, y)
            \/ Count \/ UNCHANGED allVars
  <2>1. UNCHANGED <<poller, seen>> /\ counted' \in BOOLEAN /\ polled' \in BOOLEAN
    BY <1>10
    DEF Initiate, Established, Lost, Gone, Rekey, Count, Changed, allVars, TypeInv, RestTypeOK
  <2>2. QED
    BY <1>3, <2>1
<1>11. QED
  BY <1>4, <1>5, <1>7, <1>8, <1>9, <1>10 DEF NextObservers

\* The daemon, the poller and the reader of a listing keep their types.
THEOREM TypeOfObserversCorrect == SpecObservers => []TypeOfObservers
<1>1. TypeInv => TypeOfObservers
  <2>1. SUFFICES ASSUME TypeInv PROVE TypeOfObservers
    OBVIOUS
  <2>2. Len(listed) \in Nat /\ DOMAIN listed = 1..Len(listed)
    BY <2>1, LenProperties DEF TypeInv, PlaceInv, ReadType
  <2>3. at \in 0..Len(listed) + 1
    <3>1. at \in Nat /\ at <= Len(listed) + 1
      BY <2>1 DEF TypeInv, PlaceInv, ReadType, RestTypeOK
    <3>2. QED
      BY <2>2, <3>1
  <2>4. part \in 1..5
    <3>1. CASE at \in DOMAIN listed
      <4>1. listed[at] \in Entry
        BY <2>1, <3>1, ElementOfSeq DEF TypeInv, PlaceInv, ReadType
      <4>2. Len(LinesOf[listed[at].state]) \in {1, 4, 5}
        BY <4>1 DEF Entry, Phases, LinesOf
      <4>3. QED
        <5>1. part \in Nat \ {0} /\ part <= Len(LinesOf[listed[at].state])
          BY <2>1, <3>1 DEF TypeInv, PlaceInv, ReadType
        <5>2. PICK n \in {1, 4, 5} : n = Len(LinesOf[listed[at].state])
          BY <4>2
        <5>3. part \in Nat \ {0} /\ part <= n
          BY <5>1, <5>2
        <5>4. QED
          BY <5>3
    <3>2. CASE at \notin DOMAIN listed
      BY <2>1, <3>2 DEF TypeInv, PlaceInv, ReadType
    <3>3. QED
      BY <3>1, <3>2
  <2>5. TypeOK /\ up = {x \in Conns : phase[x] = "ESTABLISHED"}
    BY <2>1 DEF TypeInv, IInv, AgreeInv, CountsHold
  <2>6. QED
    BY <2>1, <2>3, <2>4, <2>5 DEF TypeInv, PlaceInv, ReadType, RestTypeOK, TypeOfObservers
<1>2. QED
  BY <1>1, TypeInitOfObservers, TypeStepOfObservers, PTL DEF SpecObservers

-----------------------------------------------------------------------------
(***************************************************************************)
(* The rows and the listing.                                               *)
(***************************************************************************)

\* The places of the SAs whose header matches, and those of them up to place n.
WithRow == {k \in DOMAIN listed : listed[k].state = "ESTABLISHED"}
WithRowTo(n) == {l \in WithRow : l <= n}

\* The headers read so far have their rows, the n-th of them the n-th.
RowsInOrder ==
  LET read == {k \in WithRow : HeaderRead(k)} IN
    /\ Len(rows) = Cardinality(read)
    /\ \A k \in read : rows[Cardinality(WithRowTo(k))].sa = listed[k].sa

LEMMA WithRowFinite ==
  ASSUME PlaceInv
  PROVE  /\ IsFiniteSet(WithRow) /\ WithRow \subseteq Nat \ {0}
         /\ \A T \in SUBSET WithRow : IsFiniteSet(T) /\ Cardinality(T) \in Nat
<1>1. DOMAIN listed = 1..Len(listed) /\ Len(listed) \in Nat
  BY LenProperties DEF PlaceInv, ReadType
<1>2. IsFiniteSet(WithRow)
  <2>1. IsFiniteSet(1..Len(listed)) /\ WithRow \subseteq 1..Len(listed)
    BY <1>1, FS_Interval DEF WithRow
  <2>2. QED
    BY <2>1, FS_Subset
<1>3. WithRow \subseteq Nat \ {0}
  BY <1>1 DEF WithRow
<1>4. QED
  BY <1>2, <1>3, FS_Subset, FS_CardinalityType

\* Before its first header is read a listing has no rows.
LEMMA NoRowsYet ==
  ASSUME NEW r, r = <<>> PROVE Len(r) = Cardinality({})
BY FS_EmptySet, EmptySeq

\* A matching header is the next one, and its row the new last one.
LEMMA OrderHeader == ASSUME PlaceInv, RowsInOrder, Header PROVE RowsInOrder'
<1> DEFINE e == listed[at]
           read == {k \in WithRow : HeaderRead(k)}
<1>1. rows \in Seq(Row) /\ Len(rows) \in Nat /\ DOMAIN rows = 1..Len(rows)
  BY LenProperties DEF PlaceInv, ReadType
<1>2. /\ at \in DOMAIN listed /\ listed' = listed /\ part = 1 /\ at \in Nat
      /\ IF e.state \in {"ESTABLISHED", "DELETING"} THEN part' = 2 /\ at' = at
         ELSE part' = 1 /\ at' = at + 1
  <2>1. Reads("header")
    BY DEF Header
  <2>2. at \in Nat
    BY DEF PlaceInv, ReadType
  <2>3. QED
    BY <2>1, <2>2, ReadsLine DEF LineIs, PlaceInv
<1>3. /\ WithRow' = WithRow /\ \A k : WithRowTo(k)' = WithRowTo(k)
      /\ WithRow \subseteq Nat /\ \A T \in SUBSET WithRow : IsFiniteSet(T) /\ Cardinality(T) \in Nat
  BY <1>2, WithRowFinite DEF WithRow, WithRowTo
<1>4. \A k \in WithRow : HeaderRead(k) <=> k < at
  BY <1>2, <1>3 DEF HeaderRead
<1>5. \A k \in WithRow : HeaderRead(k)' <=> HeaderRead(k) \/ k = at
  BY <1>2, <1>3 DEF HeaderRead
<1>6. /\ Len(rows) = Cardinality(read)
      /\ \A k \in read : rows[Cardinality(WithRowTo(k))].sa = listed[k].sa
  BY DEF RowsInOrder
<1>7. CASE e.state \in {"CONNECTING", "REKEYED", "DELETING"} /\ rows' = rows
  <2>1. at \notin WithRow
    BY <1>7 DEF WithRow
  <2>2. {k \in WithRow' : HeaderRead(k)'} = read
    BY <1>3, <1>5, <2>1
  <2>3. QED
    BY <1>2, <1>3, <1>6, <1>7, <2>2 DEF RowsInOrder
<1>8. ASSUME e.state = "ESTABLISHED",
             NEW r \in Row, rows' = Append(rows, r), r.sa = e.sa
      PROVE  RowsInOrder'
  <2>1. at \in WithRow
    BY <1>2, <1>8 DEF WithRow
  <2>2. {k \in WithRow' : HeaderRead(k)'} = read \cup {at} /\ at \notin read
    <3>1. {k \in WithRow' : HeaderRead(k)'} = {k \in WithRow : HeaderRead(k) \/ k = at}
      BY <1>3, <1>5
    <3>2. ~HeaderRead(at)
      BY <1>2, <1>4, <2>1
    <3>3. QED
      BY <2>1, <3>1, <3>2
  <2>3. WithRowTo(at) = read \cup {at}
    <3>1. \A l \in WithRow : l <= at <=> HeaderRead(l) \/ l = at
      BY <1>2, <1>3, <1>4
    <3>2. QED
      BY <2>1, <3>1 DEF WithRowTo
  <2>4. Cardinality(read \cup {at}) = Len(rows) + 1
    BY <1>3, <1>6, <2>2, FS_AddElement
  <2>5. /\ rows' \in Seq(Row) /\ Len(rows') = Len(rows) + 1 /\ rows'[Len(rows) + 1] = r
        /\ \A i \in 1..Len(rows) : rows'[i] = rows[i]
    BY <1>1, <1>8, AppendProperties
  <2>6. ASSUME NEW k \in read PROVE Cardinality(WithRowTo(k)) \in 1..Len(rows)
    <3>1. WithRowTo(k) \subseteq read /\ k \in WithRowTo(k)
      <4>1. k \in WithRow /\ k \in Nat /\ k < at
        BY <1>3, <1>4
      <4>2. ASSUME NEW l \in WithRow, l <= k PROVE HeaderRead(l)
        <5>1. l \in Nat /\ k \in Nat /\ at \in Nat
          BY <1>2, <1>3, <4>1
        <5>2. l < at
          BY <4>1, <4>2, <5>1
        <5>3. QED
          BY <1>4, <5>2
      <4>3. k <= k
        BY <4>1
      <4>4. QED
        BY <4>1, <4>2, <4>3, Zenon DEF WithRowTo
    <3>2. Cardinality(WithRowTo(k)) <= Cardinality(read) /\ Cardinality(WithRowTo(k)) \in Nat
      BY <1>3, <3>1, FS_Subset
    <3>3. Cardinality(WithRowTo(k)) # 0
      BY <1>3, <3>1, FS_EmptySet
    <3>4. QED
      BY <1>1, <1>6, <3>2, <3>3
  <2>7. \A k \in read \cup {at} : rows'[Cardinality(WithRowTo(k))].sa = listed[k].sa
    <3>1. ASSUME NEW k \in read PROVE rows'[Cardinality(WithRowTo(k))].sa = listed[k].sa
      BY <1>6, <2>5, <2>6
    <3>2. rows'[Cardinality(WithRowTo(at))].sa = listed[at].sa
      BY <1>8, <2>3, <2>4, <2>5
    <3>3. QED
      BY <3>1, <3>2
  <2> HIDE DEF read
  <2>8. QED
    BY <1>2, <1>3, <2>2, <2>4, <2>5, <2>7 DEF RowsInOrder
<1>9. QED
  BY <1>7, <1>8, HeaderRow

\* What follows a header changes no row's SA.
LEMMA OrderDatum ==
  ASSUME PlaceInv, RowsInOrder, Rekeying \/ Child \/ Spis \/ Bytes PROVE RowsInOrder'
<1> DEFINE read == {k \in WithRow : HeaderRead(k)}
<1>1. PICK kind \in {"rekeying", "child", "spis", "bytes"} : Reads(kind)
  BY DatumRow
<1>2. /\ listed' = listed /\ at \in Nat /\ part \in 2..5
      /\ IF kind = "bytes" THEN part' = 1 /\ at' = at + 1 ELSE part' = part + 1 /\ at' = at
  <2>1. at \in Nat
    BY DEF PlaceInv, ReadType
  <2>2. /\ LineIs(listed[at].state, part, kind) /\ listed' = listed
        /\ IF kind = "bytes" \/ listed[at].state \notin {"ESTABLISHED", "DELETING"}
           THEN part' = 1 /\ at' = at + 1 ELSE part' = part + 1 /\ at' = at
    BY <1>1, ReadsLine DEF PlaceInv
  <2>3. listed[at].state \in {"ESTABLISHED", "DELETING"} /\ part \in 2..5
    BY <2>2 DEF LineIs
  <2>4. QED
    BY <2>1, <2>2, <2>3
<1>3. /\ WithRow' = WithRow /\ \A k : WithRowTo(k)' = WithRowTo(k)
      /\ WithRow \subseteq Nat /\ \A T \in SUBSET WithRow : IsFiniteSet(T) /\ Cardinality(T) \in Nat
  BY <1>2, WithRowFinite DEF WithRow, WithRowTo
<1>4. \A k \in WithRow : HeaderRead(k)' <=> HeaderRead(k)
  BY <1>2, <1>3 DEF HeaderRead
<1>5. /\ DOMAIN rows' = DOMAIN rows /\ Len(rows') = Len(rows)
      /\ \A i \in DOMAIN rows : rows'[i].sa = rows[i].sa
  <2>1. /\ DOMAIN rows' = DOMAIN rows /\ PlaceInv'
        /\ \A i \in DOMAIN rows : rows'[i].sa = rows[i].sa
    BY PlaceDatum
  <2>2. PICK n \in Nat : Len(rows) = n /\ DOMAIN rows = 1..n
    BY LenProperties DEF PlaceInv, ReadType
  <2>3. PICK m \in Nat : Len(rows') = m /\ DOMAIN rows' = 1..m
    BY <2>1, LenProperties DEF PlaceInv, ReadType
  <2>4. n = m
    BY <2>1, <2>2, <2>3
  <2>5. QED
    BY <2>1, <2>2, <2>3, <2>4
<1>6. ASSUME NEW k \in read PROVE Cardinality(WithRowTo(k)) \in DOMAIN rows
  <2>1. DOMAIN rows = 1..Len(rows) /\ Len(rows) \in Nat /\ at \in Nat /\ Len(rows) = Cardinality(read)
    BY LenProperties DEF PlaceInv, ReadType, RowsInOrder
  <2>2. WithRowTo(k) \subseteq read /\ k \in WithRowTo(k)
    <3>1. k \in WithRow /\ k \in Nat /\ HeaderRead(k)
      BY <1>3
    <3>2. \A l \in WithRow : l <= k => HeaderRead(l)
      BY <1>2, <1>3, <3>1 DEF HeaderRead
    <3>3. k <= k
      BY <3>1
    <3>4. QED
      BY <3>1, <3>2, <3>3, Zenon DEF WithRowTo
  <2>3. Cardinality(WithRowTo(k)) <= Cardinality(read) /\ Cardinality(WithRowTo(k)) \in Nat
    BY <1>3, <2>2, FS_Subset
  <2>4. Cardinality(WithRowTo(k)) # 0
    BY <1>3, <2>2, FS_EmptySet
  <2>5. QED
    BY <2>1, <2>3, <2>4
<1>7. {k \in WithRow' : HeaderRead(k)'} = read
  BY <1>3, <1>4
<1>8. /\ Len(rows) = Cardinality(read)
      /\ \A k \in read : rows[Cardinality(WithRowTo(k))].sa = listed[k].sa
  BY DEF RowsInOrder
<1> HIDE DEF read
<1>9. QED
  BY <1>2, <1>3, <1>5, <1>6, <1>7, <1>8 DEF RowsInOrder

LEMMA OrderStep == PlaceInv /\ RowsInOrder /\ [NextObservers]_allVars => RowsInOrder'
<1> SUFFICES ASSUME PlaceInv, RowsInOrder, [NextObservers]_allVars PROVE RowsInOrder'
  OBVIOUS
<1> USE DEF poller, output
<1>1. CASE UNCHANGED <<output, rows>>
  BY <1>1 DEF RowsInOrder, WithRow, WithRowTo, HeaderRead
<1>2. CASE \/ \E x \in Conns : Initiate(x) \/ Established(x) \/ Lost(x) \/ Gone(x)
           \/ \E x, y \in Conns : Rekey(x, y)
           \/ Count \/ PollFails \/ UNCHANGED allVars
  <2>1. UNCHANGED <<output, rows>>
    BY <1>2 DEF Initiate, Established, Lost, Gone, Rekey, Changed, Count, PollFails, allVars
  <2>2. QED
    BY <1>1, <2>1
<1>3. CASE Poll
  <2>1. at' = 1 /\ part' = 1 /\ rows' = <<>>
    BY <1>3 DEF Poll
  <2>2. listed' \in Seq(Entry)
    BY <1>3, PlacePoll DEF PlaceInv, ReadType
  <2>3. WithRow' \subseteq Nat \ {0}
    BY <2>2, LenProperties DEF WithRow
  <2>4. {k \in WithRow' : HeaderRead(k)'} = {}
    <3>1. ASSUME NEW k \in WithRow' PROVE ~HeaderRead(k)'
      BY <2>1, <2>3 DEF HeaderRead
    <3>2. QED
      BY <3>1
  <2>5. QED
    BY <2>1, <2>4, NoRowsYet DEF RowsInOrder
<1>4. CASE Header
  BY <1>4, OrderHeader
<1>5. CASE Rekeying \/ Child \/ Spis \/ Bytes
  BY <1>5, OrderDatum
<1>6. CASE Write
  <2>1. listed' = <<>> /\ rows' = <<>>
    BY <1>6 DEF Write
  <2>2. WithRow' = {}
    BY <2>1 DEF WithRow
  <2>3. {k \in WithRow' : HeaderRead(k)'} = {}
    BY <2>2
  <2>4. QED
    BY <2>1, <2>3, NoRowsYet DEF RowsInOrder
<1>7. QED
  BY <1>2, <1>3, <1>4, <1>5, <1>6 DEF NextObservers

\* For any listing, in any order and with any SAs in any states, the rows are those of the
\* established SAs, each once and in the order of the listing.
THEOREM RowsCorrect == SpecObservers => []RowPerListedSa
<1>1. InitObservers => RowsInOrder
  <2> SUFFICES ASSUME InitObservers PROVE RowsInOrder
    OBVIOUS
  <2>1. listed = <<>> /\ rows = <<>>
    BY DEF InitObservers
  <2>2. WithRow = {}
    BY <2>1 DEF WithRow
  <2>3. {k \in WithRow : HeaderRead(k)} = {}
    BY <2>2
  <2>4. QED
    BY <2>1, <2>3, NoRowsYet DEF RowsInOrder
<1>2. PlaceInv /\ RowsInOrder => RowPerListedSa
  <2> SUFFICES ASSUME PlaceInv, RowsInOrder, Finished PROVE RowPerListedSa
    BY DEF RowPerListedSa
  <2>1. at \in Nat /\ Len(listed) \in Nat /\ DOMAIN listed = 1..Len(listed) /\ at > Len(listed)
    BY LenProperties DEF PlaceInv, ReadType, Finished
  <2>2. {k \in WithRow : HeaderRead(k)} = WithRow
    BY <2>1 DEF WithRow, HeaderRead
  <2>3. /\ Len(rows) = Cardinality(WithRow)
        /\ \A k \in WithRow : rows[Cardinality(WithRowTo(k))].sa = listed[k].sa
    BY <2>2 DEF RowsInOrder
  <2>4. QED
    BY <2>3, Zenon DEF RowPerListedSa, WithRow, WithRowTo
<1>3. QED
  BY <1>1, <1>2, PlaceInit, PlaceStep, OrderStep, PTL DEF SpecObservers

-----------------------------------------------------------------------------
(***************************************************************************)
(* Rekeys.                                                                 *)
(***************************************************************************)

\* Nothing is ever remembered of the SPIs, so that they have never changed.
NoRekeySeen ==
  /\ \A c \in Names : prev_spis[c] = ike_spi
  /\ \A i \in DOMAIN rows : rows[i].rekey_count = 0

LEMMA RekeyHeader == ASSUME PlaceInv, RestTypeOK, NoRekeySeen, Header PROVE NoRekeySeen'
<1> DEFINE e == listed[at]
           c == NameOf[e.sa]
           count == IF prev_spis[c] \in {"", ike_spi} THEN 0 ELSE 1
           r == [sa |-> e.sa, state |-> e.state, uptime |-> Age(e), rekey_count |-> count,
                 lifetime |-> None, child |-> None, spis |-> None, bytes |-> None]
<1>1. IF e.state \in Understood
      THEN prev_spis' = [prev_spis EXCEPT ![c] = ike_spi] /\ rows' = Append(rows, r)
      ELSE UNCHANGED <<prev_spis, rows>>
  BY Zenon DEF Header
<1>2. c \in Names
  <2>1. e \in Entry
    BY ReadsLine DEF Header, PlaceInv
  <2>2. QED
    BY <2>1, ObserversAssumption DEF Entry
<1>3. count = 0
  <2>1. prev_spis[c] = ike_spi
    BY <1>2 DEF NoRekeySeen
  <2>2. QED
    BY <2>1, Zenon
<1>4. r.rekey_count = 0
  BY <1>3
<1>5. ASSUME NEW none, prev_spis' = [prev_spis EXCEPT ![c] = none],
             \A d \in Names : prev_spis[d] = none
      PROVE  \A d \in Names : prev_spis'[d] = none
  <2>1. prev_spis \in [Names -> {"", "spi"}]
    BY DEF RestTypeOK
  <2>2. DOMAIN prev_spis = Names
    BY <2>1, Zenon
  <2>3. QED
    BY <1>5, <2>2
<1>6. \A d \in Names : prev_spis'[d] = ike_spi'
  <2>1. ike_spi' = ike_spi
    BY DEF ike_spi
  <2>2. \A d \in Names : prev_spis[d] = ike_spi
    BY DEF NoRekeySeen
  <2>3. CASE prev_spis' = [prev_spis EXCEPT ![c] = ike_spi]
    BY <1>5, <2>1, <2>2, <2>3, Zenon
  <2>4. CASE prev_spis' = prev_spis
    BY <2>1, <2>2, <2>4, Zenon
  <2>5. QED
    BY <1>1, <2>3, <2>4, Zenon
<1> HIDE DEF r
<1>7. \A i \in DOMAIN rows' : rows'[i].rekey_count = 0
  <2>1. \A i \in DOMAIN rows : rows[i].rekey_count = 0
    BY DEF NoRekeySeen
  <2>2. CASE rows' = rows
    BY <2>1, <2>2
  <2>3. CASE rows' = Append(rows, r)
    <3>1. rows \in Seq(Row) /\ DOMAIN rows = 1..Len(rows) /\ Len(rows) \in Nat
      BY LenProperties DEF PlaceInv, ReadType
    <3>2. /\ rows'[Len(rows) + 1] = r /\ DOMAIN rows' = 1..Len(rows) + 1
          /\ \A i \in 1..Len(rows) : rows'[i] = rows[i]
      BY <2>3, <3>1, AppendProperties
    <3>3. \A i \in 1..Len(rows) + 1 : i \in 1..Len(rows) \/ i = Len(rows) + 1
      BY <3>1
    <3>4. QED
      BY <1>4, <2>1, <3>1, <3>2, <3>3
  <2>4. QED
    BY <1>1, <2>2, <2>3, Zenon
<1>8. QED
  BY <1>6, <1>7, Zenon DEF NoRekeySeen

LEMMA RekeyDatum ==
  ASSUME PlaceInv, NoRekeySeen, Rekeying \/ Child \/ Spis \/ Bytes PROVE NoRekeySeen'
<1>1. prev_spis' = prev_spis
  BY DEF Rekeying, Child, Spis, Bytes
<1>2. \/ rows' = rows
      \/ \E x : \/ rows' = [rows EXCEPT ![Len(rows)].lifetime = x]
                \/ rows' = [rows EXCEPT ![Len(rows)].child = x]
                \/ rows' = [rows EXCEPT ![Len(rows)].spis = x]
                \/ rows' = [rows EXCEPT ![Len(rows)].bytes = x]
  BY DEF Rekeying, Child, Spis, Bytes, LastRow
<1>3. \A i \in DOMAIN rows : rows[i] \in Row
  BY ElementOfSeq DEF PlaceInv, ReadType
<1>4. \A i \in DOMAIN rows' : i \in DOMAIN rows /\ rows'[i].rekey_count = rows[i].rekey_count
  <2>1. CASE rows' = rows
    BY <2>1
  <2>2. ASSUME NEW x,
               \/ rows' = [rows EXCEPT ![Len(rows)].lifetime = x]
               \/ rows' = [rows EXCEPT ![Len(rows)].child = x]
               \/ rows' = [rows EXCEPT ![Len(rows)].spis = x]
               \/ rows' = [rows EXCEPT ![Len(rows)].bytes = x]
        PROVE  \A i \in DOMAIN rows' : i \in DOMAIN rows /\ rows'[i].rekey_count = rows[i].rekey_count
    <3> DEFINE last == rows[Len(rows)]
    <3>1. PICK r : /\ rows' = [rows EXCEPT ![Len(rows)] = r]
                   /\ \/ r = [last EXCEPT !.lifetime = x] \/ r = [last EXCEPT !.child = x]
                      \/ r = [last EXCEPT !.spis = x] \/ r = [last EXCEPT !.bytes = x]
      BY <2>2
    <3> HIDE DEF last
    <3>2. last \in Row => r.rekey_count = last.rekey_count
      BY <3>1 DEF Row
    <3>3. QED
      BY <1>3, <3>1, <3>2 DEF last
  <2>3. QED
    BY <1>2, <2>1, <2>2
<1>5. ASSUME NEW none, \A c \in Names : prev_spis[c] = none
      PROVE  \A c \in Names : prev_spis'[c] = none
  BY <1>1, <1>5
<1>6. ike_spi' = ike_spi
  BY DEF ike_spi
<1>7. \A i \in DOMAIN rows' : rows'[i].rekey_count = 0
  BY <1>4 DEF NoRekeySeen
<1>8. QED
  BY <1>5, <1>6, <1>7, Zenon DEF NoRekeySeen

\* What IkeSaPoller reports of rekeys, whatever the SAs do and for any listings: none.  No
\* row has a rekey count other than 0.
THEOREM RekeysNeverReported ==
  SpecObservers => [](\A i \in DOMAIN rows : rows[i].rekey_count = 0)
<1>1. InitObservers => NoRekeySeen
  <2> SUFFICES ASSUME InitObservers PROVE NoRekeySeen
    OBVIOUS
  <2>1. \A c \in Names : prev_spis[c] = ike_spi
    BY Zenon DEF InitObservers, ike_spi
  <2>2. rows = <<>>
    BY DEF InitObservers
  <2>3. DOMAIN rows = {}
    BY <2>2
  <2>4. QED
    BY <2>1, <2>3, Zenon DEF NoRekeySeen
<1>2. TypeInv /\ NoRekeySeen /\ [NextObservers]_allVars => NoRekeySeen'
  <2> SUFFICES ASSUME TypeInv, NoRekeySeen, [NextObservers]_allVars PROVE NoRekeySeen'
    OBVIOUS
  <2> USE DEF poller, output
  <2>1. CASE Header
    BY <2>1, RekeyHeader DEF TypeInv
  <2>2. CASE Rekeying \/ Child \/ Spis \/ Bytes
    BY <2>2, RekeyDatum DEF TypeInv
  <2>3. CASE Poll \/ Write
    <3>1. prev_spis' = prev_spis /\ rows' = <<>>
      BY <2>3 DEF Poll, Write
    <3>2. DOMAIN rows' = {}
      BY <3>1
    <3>3. QED
      BY <3>1, <3>2, Zenon DEF NoRekeySeen, ike_spi
  <2>4. CASE \/ \E x \in Conns : Initiate(x) \/ Established(x) \/ Lost(x) \/ Gone(x)
             \/ \E x, y \in Conns : Rekey(x, y)
             \/ Count \/ PollFails \/ UNCHANGED allVars
    <3>1. UNCHANGED <<prev_spis, rows>>
      BY <2>4 DEF Initiate, Established, Lost, Gone, Rekey, Changed, Count, PollFails, allVars
    <3>2. QED
      BY <3>1, Zenon DEF NoRekeySeen, ike_spi
  <2>5. QED
    BY <2>1, <2>2, <2>3, <2>4 DEF NextObservers
<1>3. NoRekeySeen => \A i \in DOMAIN rows : rows[i].rekey_count = 0
  BY Zenon DEF NoRekeySeen
<1>4. QED
  BY <1>1, <1>2, <1>3, TypeInitOfObservers, TypeStepOfObservers, PTL DEF SpecObservers
=============================================================================
