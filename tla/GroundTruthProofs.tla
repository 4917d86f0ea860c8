------------------------- MODULE GroundTruthProofs -------------------------
(***************************************************************************)
(* Proofs about GroundTruth, for any set of loggers and any row widths.    *)
(* They are of FreeSpec, the specification without a bound on the rows,    *)
(* which the bounded Spec of the model-checking runs implements.           *)
(***************************************************************************)
EXTENDS GroundTruth, TLAPS

-----------------------------------------------------------------------------
(***************************************************************************)
(* Writing cells into a file.                                              *)
(***************************************************************************)

\* A row is a sequence of cells of its width.
LEMMA RowCellsType ==
  ASSUME NEW l \in Loggers, NEW n \in Nat, NEW w \in RowWidths
  PROVE  /\ w \in Nat /\ w >= 1
         /\ RowCells(l, n, w) \in Seq(Cell)
         /\ Len(RowCells(l, n, w)) = w
         /\ \A j \in 1..w :
              RowCells(l, n, w)[j] = [by |-> l, row |-> n, part |-> j, of |-> w]
<1>1. w \in Nat /\ w >= 1
  BY WidthAssumption
<1>2. \A j \in 1..w : [by |-> l, row |-> n, part |-> j, of |-> w] \in Cell
  BY <1>1 DEF Cell
<1>3. QED
  BY <1>1, <1>2 DEF RowCells

\* Writing a non-empty run of cells at an offset keeps the type, makes the file
\* at least as long, and leaves every cell outside the run as it was.
LEMMA OverlayEffect ==
  ASSUME NEW s \in Seq(Cell), NEW p \in Nat, NEW new \in Seq(Cell)
  PROVE  /\ Overlay(s, p, new) \in Seq(Cell)
         /\ Len(Overlay(s, p, new)) = Larger(Len(s), p + Len(new))
         /\ \A i \in 1..Larger(Len(s), p + Len(new)) :
              Overlay(s, p, new)[i] = IF i \in (p + 1)..(p + Len(new)) THEN new[i - p]
                                      ELSE IF i <= Len(s) THEN s[i] ELSE Nul
<1> DEFINE m == Larger(Len(s), p + Len(new))
<1> DEFINE c(i) == IF i \in (p + 1)..(p + Len(new)) THEN new[i - p]
                   ELSE IF i <= Len(s) THEN s[i] ELSE Nul
<1>1. m \in Nat
  BY DEF Larger
<1>2. Nul \in Cell
  BY DEF Nul, Cell
<1>3. ASSUME NEW i \in 1..m PROVE c(i) \in Cell
  <2>1. CASE i \in (p + 1)..(p + Len(new))
    <3>1. i - p \in 1..Len(new)
      BY <2>1
    <3>2. QED
      BY <2>1, <3>1
  <2>2. CASE i \notin (p + 1)..(p + Len(new)) /\ i <= Len(s)
    BY <2>2, <1>1
  <2>3. CASE i \notin (p + 1)..(p + Len(new)) /\ ~(i <= Len(s))
    BY <2>3, <1>2
  <2>4. QED
    BY <2>1, <2>2, <2>3
<1>4. Overlay(s, p, new) = [i \in 1..m |-> c(i)]
  BY DEF Overlay
<1> HIDE DEF m, c
<1>5. Overlay(s, p, new) \in Seq(Cell) /\ Len(Overlay(s, p, new)) = m
  BY <1>1, <1>3, <1>4
<1>6. \A i \in 1..m : Overlay(s, p, new)[i] = c(i)
  BY <1>4
<1>7. QED
  BY <1>5, <1>6 DEF m, c

-----------------------------------------------------------------------------
(***************************************************************************)
(* The type invariant.                                                     *)
(***************************************************************************)

LEMMA HeaderType == HeaderCell \in Cell /\ <<HeaderCell>> \in Seq(Cell)
BY DEF HeaderCell, Cell

\* What a write does, with its cells spelled out.
LEMMA WriteRowEffect ==
  ASSUME TypeOK, NEW l \in Loggers, NEW f \in Files, NEW w \in RowWidths,
         WriteRow(l, f, w)
  PROVE  /\ w \in Nat /\ w >= 1 /\ pos[l][f] \in Nat /\ rows[l][f] \in Nat
         /\ content[f] \in Seq(Cell) /\ content'[f] \in Seq(Cell)
         /\ content' = [content EXCEPT ![f] = content'[f]]
         /\ Len(content'[f]) = Larger(Len(content[f]), pos[l][f] + w)
         /\ \A i \in 1..Len(content'[f]) :
              content'[f][i] =
                IF i \in (pos[l][f] + 1)..(pos[l][f] + w)
                THEN [by |-> l, row |-> rows[l][f] + 1, part |-> i - pos[l][f], of |-> w]
                ELSE IF i <= Len(content[f]) THEN content[f][i] ELSE Nul
<1> DEFINE new == RowCells(l, rows[l][f] + 1, w)
<1> DEFINE p == pos[l][f]
<1>1. rows[l][f] \in Nat /\ p \in Nat /\ content[f] \in Seq(Cell)
  BY DEF TypeOK
<1>2. /\ w \in Nat /\ w >= 1
      /\ new \in Seq(Cell) /\ Len(new) = w
      /\ \A j \in 1..w : new[j] = [by |-> l, row |-> rows[l][f] + 1, part |-> j, of |-> w]
  <2>1. rows[l][f] + 1 \in Nat
    BY <1>1
  <2>2. QED
    BY <2>1, RowCellsType
<1>3. content'[f] = Overlay(content[f], p, new)
  BY DEF WriteRow, TypeOK
<1>4. content' = [content EXCEPT ![f] = content'[f]]
  BY DEF WriteRow, TypeOK
<1> HIDE DEF new, p
<1>5. /\ content'[f] \in Seq(Cell)
      /\ Len(content'[f]) = Larger(Len(content[f]), p + w)
      /\ \A i \in 1..Larger(Len(content[f]), p + w) :
           content'[f][i] = IF i \in (p + 1)..(p + w) THEN new[i - p]
                            ELSE IF i <= Len(content[f]) THEN content[f][i] ELSE Nul
  <2>1. /\ Overlay(content[f], p, new) \in Seq(Cell)
        /\ Len(Overlay(content[f], p, new)) = Larger(Len(content[f]), p + Len(new))
        /\ \A i \in 1..Larger(Len(content[f]), p + Len(new)) :
             Overlay(content[f], p, new)[i] =
               IF i \in (p + 1)..(p + Len(new)) THEN new[i - p]
               ELSE IF i <= Len(content[f]) THEN content[f][i] ELSE Nul
    <3>1. content[f] \in Seq(Cell) /\ p \in Nat /\ new \in Seq(Cell)
      BY <1>1, <1>2
    <3>2. QED
      BY <3>1, OverlayEffect
  <2>2. QED
    BY <1>2, <1>3, <2>1
<1>6. ASSUME NEW i \in 1..Len(content'[f]), i \in (p + 1)..(p + w)
      PROVE  new[i - p] = [by |-> l, row |-> rows[l][f] + 1, part |-> i - p, of |-> w]
  <2>1. i - p \in 1..w
    BY <1>1, <1>2, <1>6
  <2>2. QED
    BY <2>1, <1>2
<1>7. QED
  BY <1>1, <1>2, <1>4, <1>5, <1>6 DEF p

LEMMA TypeInit == Init => TypeOK
BY DEF Init, TypeOK

LEMMA TypeStep == TypeOK /\ [FreeNext]_vars => TypeOK'
<1> SUFFICES ASSUME TypeOK, [FreeNext]_vars PROVE TypeOK'
  OBVIOUS
<1>1. ASSUME NEW l \in Loggers, Open(l) PROVE TypeOK'
  BY <1>1, HeaderType DEF Open, TypeOK
<1>2. ASSUME NEW l \in Loggers, Close(l) PROVE TypeOK'
  BY <1>2 DEF Close, TypeOK
<1>3. ASSUME NEW l \in Loggers, NEW f \in Files, NEW w \in RowWidths, WriteRow(l, f, w)
      PROVE  TypeOK'
  <2>1. w \in Nat /\ content'[f] \in Seq(Cell) /\ content' = [content EXCEPT ![f] = content'[f]]
    BY <1>3, WriteRowEffect
  <2>2. content' \in [Files -> Seq(Cell)]
    BY <2>1 DEF TypeOK
  <2>3. pos' \in [Loggers -> [Files -> Nat]] /\ rows' \in [Loggers -> [Files -> Nat]]
    BY <1>3, <2>1 DEF WriteRow, TypeOK
  <2>4. QED
    BY <1>3, <2>2, <2>3 DEF WriteRow, TypeOK
<1>4. CASE UNCHANGED vars
  BY <1>4 DEF vars, TypeOK
<1>5. "flow" \in Files /\ "fault" \in Files
  BY DEF Files
<1>6. QED
  BY <1>1, <1>2, <1>3, <1>4, <1>5 DEF FreeNext, LogFlowStart, LogFlowEnd, LogFault

\* The type invariant holds of every behaviour.
THEOREM TypeCorrect == FreeSpec => []TypeOK
BY TypeInit, TypeStep, PTL DEF FreeSpec

-----------------------------------------------------------------------------
(***************************************************************************)
(* The inductive invariant.                                                *)
(***************************************************************************)

\* An open or closed logger's offsets are past the header, and there is a
\* newest logger; one that does not exist yet has written nothing.
LoggerState ==
  /\ \A l \in Loggers, f \in Files :
       IF fd[l] = "none" THEN rows[l][f] = 0
                         ELSE newest # NoLogger /\ pos[l][f] >= 1
  /\ newest # NoLogger => fd[newest] # "none"

\* Every cell of a logger is behind its offset and belongs to a row it wrote.
OwnCellsBehindOffset ==
  \A f \in Files : \A i \in DOMAIN content[f] :
    content[f][i].by # NoLogger =>
      LET l == content[f][i].by IN
        fd[l] # "none" /\ i <= pos[l][f] /\ content[f][i].row <= rows[l][f]

\* A file only the newest logger has written to ends where its descriptor is.
SoleOffsetAtEnd ==
  newest # NoLogger =>
    \A f \in Files : writers[f] \subseteq {newest} => Len(content[f]) = pos[newest][f]

\* Nothing is in the files before the first constructor has run.
EmptyAtFirst == newest = NoLogger => \A f \in Files : content[f] = <<>>

IInv ==
  /\ TypeOK
  /\ EmptyAtFirst
  /\ LoggerState
  /\ HeaderIntact
  /\ OwnCellsBehindOffset
  /\ OwnRowsInOrder
  /\ SoleOffsetAtEnd
  /\ CompleteIfOnlyNewestWrites

LEMMA IInvInit == Init => IInv
BY LoggerAssumption, TypeInit
DEF Init, IInv, EmptyAtFirst, LoggerState, HeaderIntact, OwnCellsBehindOffset, OwnRowsInOrder,
    SoleOffsetAtEnd, CompleteIfOnlyNewestWrites

\* The constructor: both files are just the header.
LEMMA IInvOpen ==
  ASSUME IInv, NEW l \in Loggers, Open(l)
  PROVE  IInv'
<1> USE LoggerAssumption
<1>1. TypeOK'
  BY TypeStep DEF IInv, FreeNext
<1>2. /\ \A f \in Files : content'[f] = <<HeaderCell>> /\ pos'[l][f] = 1
      /\ newest' = l /\ newest' # NoLogger /\ fd'[l] = "open"
      /\ \A f \in Files : rows'[l][f] = 0 /\ rows' = rows
      /\ \A k \in Loggers : k # l => fd'[k] = fd[k] /\ pos'[k] = pos[k]
  BY DEF Open, IInv, TypeOK, LoggerState
<1>3. \A f \in Files : /\ Len(content'[f]) = 1 /\ DOMAIN content'[f] = 1..1
                       /\ content'[f][1] = HeaderCell /\ content'[f] # <<>>
  <2>1. /\ Len(<<HeaderCell>>) = 1 /\ DOMAIN <<HeaderCell>> = 1..1
        /\ <<HeaderCell>>[1] = HeaderCell /\ <<HeaderCell>> # <<>>
    OBVIOUS
  <2>2. QED
    BY <1>2, <2>1
<1>4. LoggerState'
  BY <1>1, <1>2 DEF IInv, LoggerState, TypeOK
<1>5. HeaderIntact'
  BY <1>3 DEF HeaderIntact
<1>6. OwnCellsBehindOffset' /\ OwnRowsInOrder'
  BY <1>3 DEF OwnCellsBehindOffset, OwnRowsInOrder, HeaderCell
<1>7. SoleOffsetAtEnd'
  BY <1>2, <1>3 DEF SoleOffsetAtEnd
<1>8. CompleteIfOnlyNewestWrites'
  BY <1>2, <1>3 DEF CompleteIfOnlyNewestWrites, WholeLog, HeaderCell
<1>9. EmptyAtFirst'
  BY <1>2 DEF EmptyAtFirst
<1>10. QED
  BY <1>1, <1>4, <1>5, <1>6, <1>7, <1>8, <1>9 DEF IInv

LEMMA IInvClose ==
  ASSUME IInv, NEW l \in Loggers, Close(l)
  PROVE  IInv'
<1>1. TypeOK'
  BY TypeStep DEF IInv, FreeNext
<1>2. \A k \in Loggers : fd'[k] = "none" <=> fd[k] = "none"
  BY DEF Close, IInv, TypeOK
<1>3. LoggerState'
  BY <1>2, LoggerAssumption DEF Close, IInv, LoggerState, TypeOK
<1>4. OwnCellsBehindOffset'
  <2>1. ASSUME NEW f \in Files, NEW i \in DOMAIN content[f], content[f][i].by # NoLogger
        PROVE  content[f][i].by \in Loggers
    <3>1. content[f] \in Seq(Cell)
      BY DEF IInv, TypeOK
    <3>2. content[f][i] \in Cell
      BY <3>1
    <3>3. QED
      BY <2>1, <3>2 DEF Cell
  <2>2. content' = content /\ pos' = pos /\ rows' = rows
    BY DEF Close
  <2>3. QED
    BY <1>2, <2>1, <2>2 DEF IInv, OwnCellsBehindOffset
<1>5. HeaderIntact' /\ OwnRowsInOrder' /\ SoleOffsetAtEnd' /\ CompleteIfOnlyNewestWrites'
  BY DEF Close, IInv, HeaderIntact, OwnRowsInOrder, SoleOffsetAtEnd, CompleteIfOnlyNewestWrites
<1>6. EmptyAtFirst'
  BY DEF Close, IInv, EmptyAtFirst
<1>7. QED
  BY <1>1, <1>3, <1>4, <1>5, <1>6 DEF IInv

\* A row written at the logger's own offset.
LEMMA IInvWrite ==
  ASSUME IInv, NEW l \in Loggers, NEW f \in Files, NEW w \in RowWidths, WriteRow(l, f, w)
  PROVE  IInv'
<1> DEFINE p == pos[l][f]
<1> DEFINE n == rows[l][f]
<1> DEFINE old == content[f]
<1> DEFINE c == content'[f]
<1> DEFINE Written(i) == i \in (p + 1)..(p + w)
<1> USE LoggerAssumption
<1>1. TypeOK /\ TypeOK'
  <2>1. w \in Nat /\ content'[f] \in Seq(Cell) /\ content' = [content EXCEPT ![f] = content'[f]]
    BY WriteRowEffect DEF IInv
  <2>2. content' \in [Files -> Seq(Cell)]
    BY <2>1 DEF IInv, TypeOK
  <2>3. pos' \in [Loggers -> [Files -> Nat]] /\ rows' \in [Loggers -> [Files -> Nat]]
    BY <2>1 DEF WriteRow, IInv, TypeOK
  <2>4. QED
    BY <2>2, <2>3 DEF WriteRow, IInv, TypeOK
<1>2. /\ w \in Nat /\ w >= 1 /\ p \in Nat /\ n \in Nat
      /\ old \in Seq(Cell) /\ c \in Seq(Cell)
      /\ Len(c) = Larger(Len(old), p + w)
      /\ \A i \in 1..Len(c) :
           c[i] = IF Written(i) THEN [by |-> l, row |-> n + 1, part |-> i - p, of |-> w]
                  ELSE IF i <= Len(old) THEN old[i] ELSE Nul
  BY <1>1, WriteRowEffect
<1>3. \A g \in Files : g # f => content'[g] = content[g]
  BY <1>1, WriteRowEffect DEF TypeOK
<1>4. /\ fd[l] = "open" /\ fd' = fd /\ newest' = newest
      /\ pos'[l][f] = p + w /\ rows'[l][f] = n + 1
      /\ \A k \in Loggers, g \in Files :
           k # l \/ g # f => pos'[k][g] = pos[k][g] /\ rows'[k][g] = rows[k][g]
      /\ writers'[f] = writers[f] \cup {l}
      /\ \A g \in Files : g # f => writers'[g] = writers[g]
  BY <1>1 DEF WriteRow, TypeOK
<1>5. newest # NoLogger /\ newest \in Loggers /\ p >= 1
  BY <1>1, <1>4 DEF IInv, LoggerState, TypeOK
<1>6. /\ DOMAIN old = 1..Len(old) /\ DOMAIN c = 1..Len(c)
      /\ Len(old) \in Nat /\ Len(c) \in Nat /\ Len(c) >= Len(old) /\ Len(c) >= p + w
  BY <1>2 DEF Larger
<1>7. old # <<>> /\ old[1] = HeaderCell /\ Len(old) >= 1
  BY <1>2, <1>5 DEF IInv, HeaderIntact
<1> HIDE DEF p, n, old, c
<1>8. LoggerState'
  <2>1. ASSUME NEW k \in Loggers, NEW g \in Files
        PROVE  IF fd'[k] = "none" THEN rows'[k][g] = 0
                                 ELSE newest' # NoLogger /\ pos'[k][g] >= 1
    <3>1. CASE k = l /\ g = f
      BY <1>2, <1>4, <1>5, <3>1
    <3>2. CASE k # l \/ g # f
      BY <1>4, <1>5, <3>2 DEF IInv, LoggerState
    <3>3. QED
      BY <3>1, <3>2
  <2>2. QED
    BY <1>4, <2>1 DEF IInv, LoggerState
<1>9. HeaderIntact'
  <2>1. 1 \in 1..Len(c) /\ ~Written(1) /\ 1 <= Len(old)
    BY <1>2, <1>5, <1>6, <1>7
  <2>2. c[1] = HeaderCell /\ c # <<>>
    BY <1>2, <1>7, <2>1
  <2>3. QED
    BY <1>3, <1>4, <1>5, <2>2 DEF IInv, HeaderIntact, c
\* The cells of the old contents that survive are still behind their offsets.
<1>10. ASSUME NEW i \in DOMAIN c, ~Written(i), c[i].by # NoLogger
       PROVE  i \in DOMAIN old /\ c[i] = old[i]
  BY <1>2, <1>6, <1>10 DEF Nul
<1>11. ASSUME NEW i \in DOMAIN old, old[i].by # NoLogger
       PROVE  /\ old[i].by \in Loggers /\ old[i].row \in Nat
              /\ fd[old[i].by] # "none" /\ i <= pos[old[i].by][f]
              /\ old[i].row <= rows[old[i].by][f]
  <2>1. old[i] \in Cell
    BY <1>2
  <2>2. QED
    BY <2>1, <1>11 DEF IInv, OwnCellsBehindOffset, old, Cell
<1>12. OwnCellsBehindOffset'
  <2>1. ASSUME NEW i \in DOMAIN c, c[i].by # NoLogger
        PROVE  LET k == c[i].by IN
                 fd'[k] # "none" /\ i <= pos'[k][f] /\ c[i].row <= rows'[k][f]
    <3>1. CASE Written(i)
      <4>1. c[i].by = l /\ c[i].row = n + 1
        BY <1>2, <1>6, <3>1
      <4>2. QED
        BY <1>2, <1>4, <3>1, <4>1
    <3>2. CASE ~Written(i)
      <4>1. c[i] = old[i] /\ i \in DOMAIN old
        BY <1>10, <2>1, <3>2
      <4>2. /\ old[i].by \in Loggers /\ old[i].row \in Nat /\ i \in Nat
            /\ fd[old[i].by] # "none" /\ i <= pos[old[i].by][f]
            /\ old[i].row <= rows[old[i].by][f]
        BY <1>6, <1>11, <2>1, <4>1
      <4>3. CASE old[i].by = l
        BY <1>2, <1>4, <4>1, <4>2, <4>3 DEF p, n
      <4>4. CASE old[i].by # l
        BY <1>4, <4>1, <4>2, <4>4
      <4>5. QED
        BY <4>3, <4>4
    <3>3. QED
      BY <3>1, <3>2
  <2>2. ASSUME NEW g \in Files, g # f, NEW i \in DOMAIN content[g], content[g][i].by # NoLogger
        PROVE  content[g][i].by \in Loggers
    <3>1. content[g] \in Seq(Cell)
      BY <1>1 DEF TypeOK
    <3>2. content[g][i] \in Cell
      BY <3>1
    <3>3. QED
      BY <2>2, <3>2 DEF Cell
  <2>3. QED
    BY <1>3, <1>4, <2>1, <2>2 DEF IInv, OwnCellsBehindOffset, c
<1>13. OwnRowsInOrder'
  <2>1. ASSUME NEW i \in DOMAIN c, NEW k \in DOMAIN c, i < k,
               c[i].by = c[k].by, c[i].by # NoLogger
        PROVE  Before(c[i], c[k])
    <3>1. i \in Nat /\ k \in Nat
      BY <1>6
    <3>2. CASE Written(i) /\ Written(k)
      <4>1. /\ c[i] = [by |-> l, row |-> n + 1, part |-> i - p, of |-> w]
            /\ c[k] = [by |-> l, row |-> n + 1, part |-> k - p, of |-> w]
        BY <1>2, <1>6, <3>2
      <4>2. QED
        BY <1>2, <2>1, <3>1, <4>1 DEF Before
    <3>3. CASE ~Written(i) /\ Written(k)
      <4>1. c[k].by = l /\ c[k].row = n + 1
        BY <1>2, <1>6, <3>3
      <4>2. i \in DOMAIN old /\ c[i] = old[i]
        BY <1>10, <2>1, <3>3
      <4>3. old[i].row \in Nat /\ old[i].row <= rows[l][f]
        BY <1>11, <2>1, <4>1, <4>2
      <4>4. QED
        BY <1>2, <4>1, <4>2, <4>3 DEF Before, n
    <3>4. CASE Written(i) /\ ~Written(k)
      <4>1. c[i].by = l
        BY <1>2, <1>6, <3>4
      <4>2. k \in DOMAIN old /\ c[k] = old[k]
        BY <1>10, <2>1, <3>4
      <4>3. k <= pos[l][f]
        BY <1>11, <2>1, <4>1, <4>2
      <4>4. QED
        BY <1>2, <2>1, <3>1, <3>4, <4>3 DEF p
    <3>5. CASE ~Written(i) /\ ~Written(k)
      <4>1. i \in DOMAIN old /\ k \in DOMAIN old /\ c[i] = old[i] /\ c[k] = old[k]
        BY <1>10, <2>1, <3>5
      <4>2. QED
        BY <2>1, <4>1 DEF IInv, OwnRowsInOrder, old
    <3>6. QED
      BY <3>2, <3>3, <3>4, <3>5
  <2>2. QED
    BY <1>3, <2>1 DEF IInv, OwnRowsInOrder, c
\* Only if l is the newest logger and nobody else has written does the second
\* part of the invariant say anything of file f; then the row goes at the end.
<1>14. ASSUME writers'[f] \subseteq {newest}
       PROVE  /\ l = newest /\ Len(old) = p /\ Len(c) = p + w
              /\ WholeLog(old, l, n)
  <2>1. l = newest /\ writers[f] \subseteq {newest}
    BY <1>4, <1>14
  <2>2. Len(old) = p /\ WholeLog(old, l, n)
    BY <1>5, <2>1 DEF IInv, SoleOffsetAtEnd, CompleteIfOnlyNewestWrites, old, p, n
  <2>3. QED
    BY <1>2, <2>1, <2>2 DEF Larger
<1>15. SoleOffsetAtEnd'
  BY <1>3, <1>4, <1>5, <1>14 DEF IInv, SoleOffsetAtEnd, c
<1>16. ASSUME writers'[f] \subseteq {newest}
       PROVE  WholeLog(c, l, n + 1)
  <2>0. Len(old) = p /\ Len(c) = p + w /\ WholeLog(old, l, n) /\ Len(old) >= 1
    BY <1>7, <1>14, <1>16
  <2> HIDE <1>16
  <2>1. ASSUME NEW i \in 2..Len(old)
        PROVE  c[i].by = l /\ Follows(c[i - 1], c[i])
    <3>1. /\ i \in 1..Len(c) /\ i - 1 \in 1..Len(c) /\ ~Written(i) /\ ~Written(i - 1)
          /\ i <= Len(old) /\ i - 1 <= Len(old)
      BY <1>2, <1>6, <2>0
    <3>2. c[i] = old[i] /\ c[i - 1] = old[i - 1]
      BY <1>2, <3>1
    <3>3. QED
      BY <2>0, <3>2 DEF WholeLog
  <2>2. ASSUME NEW i \in (p + 1)..(p + w)
        PROVE  c[i].by = l /\ Follows(c[i - 1], c[i])
    <3>1. c[i] = [by |-> l, row |-> n + 1, part |-> i - p, of |-> w]
      <4>1. i \in 1..Len(c)
        BY <1>2, <2>0
      <4>2. QED
        BY <1>2, <4>1
    <3>2. CASE i = p + 1
      <4>1. i - 1 = Len(old) /\ i - 1 \in 1..Len(c) /\ ~Written(i - 1) /\ i - p = 1
        BY <1>2, <1>6, <2>0, <3>2
      <4>2. c[i - 1] = old[Len(old)]
        <5>1. i - 1 <= Len(old)
          BY <1>6, <4>1
        <5>2. c[i - 1] = old[i - 1]
          BY <1>2, <4>1, <5>1
        <5>3. QED
          BY <4>1, <5>2
      <4>3. /\ old[Len(old)].row = n /\ old[Len(old)].part = old[Len(old)].of
            /\ old[Len(old)] \in Cell
        BY <1>2, <1>6, <2>0 DEF WholeLog
      <4>4. ~(c[i - 1].part < c[i - 1].of)
        BY <4>2, <4>3 DEF Cell
      <4>5. QED
        BY <3>1, <4>1, <4>2, <4>3, <4>4 DEF Follows
    <3>3. CASE i # p + 1
      <4>1. Written(i - 1) /\ i - 1 \in 1..Len(c) /\ (i - 1) - p = (i - p) - 1
        BY <1>2, <2>0, <3>3
      <4>2. c[i - 1] = [by |-> l, row |-> n + 1, part |-> (i - p) - 1, of |-> w]
        BY <1>2, <4>1
      <4>3. (i - p) - 1 < w /\ ((i - p) - 1) + 1 = i - p
        BY <1>2
      <4>4. QED
        BY <3>1, <4>2, <4>3 DEF Follows
    <3>4. QED
      BY <3>2, <3>3
  <2>3. c[Len(c)].row = n + 1 /\ c[Len(c)].part = c[Len(c)].of
    <3>1. Len(c) \in 1..Len(c) /\ Written(Len(c)) /\ Len(c) - p = w
      <4>1. p \in Nat /\ w \in Nat /\ w >= 1 /\ Len(c) = p + w
        BY <1>2, <2>0
      <4>2. QED
        BY <4>1
    <3>2. QED
      BY <1>2, <3>1
  <2>4. \A i \in 2..Len(c) : i \in 2..Len(old) \/ i \in (p + 1)..(p + w)
    BY <1>2, <2>0
  <2>5. QED
    BY <2>1, <2>2, <2>3, <2>4 DEF WholeLog
<1>17. CompleteIfOnlyNewestWrites'
  BY <1>3, <1>4, <1>5, <1>14, <1>16 DEF IInv, CompleteIfOnlyNewestWrites, c, n
<1>18. EmptyAtFirst'
  BY <1>4, <1>5 DEF EmptyAtFirst
<1>19. QED
  BY <1>1, <1>18, <1>8, <1>9, <1>12, <1>13, <1>15, <1>17 DEF IInv

LEMMA IInvStep == IInv /\ [FreeNext]_vars => IInv'
<1> SUFFICES ASSUME IInv, [FreeNext]_vars PROVE IInv'
  OBVIOUS
<1>1. CASE UNCHANGED vars
  BY <1>1 DEF vars, IInv, TypeOK, EmptyAtFirst, LoggerState, HeaderIntact, OwnCellsBehindOffset,
     OwnRowsInOrder, SoleOffsetAtEnd, CompleteIfOnlyNewestWrites
<1>2. "flow" \in Files /\ "fault" \in Files
  BY DEF Files
<1>3. QED
  BY <1>1, <1>2, IInvOpen, IInvClose, IInvWrite
  DEF FreeNext, LogFlowStart, LogFlowEnd, LogFault

\* The inductive invariant holds of every behaviour, and with it the three
\* properties of the log files it contains.
THEOREM IInvCorrect == FreeSpec => []IInv
BY IInvInit, IInvStep, PTL DEF FreeSpec

\* The column header is never overwritten, whatever the loggers do.
THEOREM HeaderCorrect == FreeSpec => []HeaderIntact
<1>1. IInv => HeaderIntact
  BY DEF IInv
<1>2. QED
  BY <1>1, IInvCorrect, PTL

\* The surviving rows of one logger are in order and never repeated.
THEOREM OrderCorrect == FreeSpec => []OwnRowsInOrder
<1>1. IInv => OwnRowsInOrder
  BY DEF IInv
<1>2. QED
  BY <1>1, IInvCorrect, PTL

\* A file only its newest logger has written to holds every row of that logger.
THEOREM CompleteCorrect == FreeSpec => []CompleteIfOnlyNewestWrites
<1>1. IInv => CompleteIfOnlyNewestWrites
  BY DEF IInv
<1>2. QED
  BY <1>1, IInvCorrect, PTL

-----------------------------------------------------------------------------
(***************************************************************************)
(* A lone logger keeps the promise of docs/schema.md.                      *)
(***************************************************************************)

\* Only a logger that has been constructed has written rows.
WritersOpened == \A f \in Files : \A l \in writers[f] : fd[l] # "none"

LEMMA WritersOpenedStep ==
  ASSUME IInv, WritersOpened, [FreeNext]_vars
  PROVE  WritersOpened'
<1>1. ASSUME NEW l \in Loggers, Open(l) PROVE WritersOpened'
  BY <1>1 DEF Open, WritersOpened
<1>2. ASSUME NEW l \in Loggers, Close(l) PROVE WritersOpened'
  BY <1>2 DEF Close, WritersOpened, IInv, TypeOK
<1>3. ASSUME NEW l \in Loggers, NEW f \in Files, NEW w \in RowWidths, WriteRow(l, f, w)
      PROVE  WritersOpened'
  <2>1. fd[l] = "open" /\ fd' = fd
    BY <1>3 DEF WriteRow
  <2>2. \A g \in Files : writers'[g] \subseteq writers[g] \cup {l}
    BY <1>3 DEF WriteRow, IInv, TypeOK
  <2>3. QED
    BY <2>1, <2>2 DEF WritersOpened
<1>4. CASE UNCHANGED vars
  BY <1>4 DEF vars, WritersOpened
<1>5. "flow" \in Files /\ "fault" \in Files
  BY DEF Files
<1>6. QED
  BY <1>1, <1>2, <1>3, <1>4, <1>5 DEF FreeNext, LogFlowStart, LogFlowEnd, LogFault

\* The only logger's write appends to the file and leaves the other alone.
LEMMA SoleWriteExtends ==
  ASSUME IInv, WritersOpened, Sole', NEW l \in Loggers, NEW f \in Files, NEW w \in RowWidths,
         WriteRow(l, f, w)
  PROVE  Log!Extend(f)
<1>1. \A k \in Loggers : fd[k] # "none" => k = l
  BY DEF Sole, WriteRow
<1>2. /\ w \in Nat /\ w >= 1 /\ pos[l][f] \in Nat
      /\ content[f] \in Seq(Cell) /\ content'[f] \in Seq(Cell)
      /\ content' = [content EXCEPT ![f] = content'[f]]
      /\ Len(content'[f]) = Larger(Len(content[f]), pos[l][f] + w)
      /\ \A i \in 1..Len(content'[f]) :
           i \notin (pos[l][f] + 1)..(pos[l][f] + w) /\ i <= Len(content[f])
             => content'[f][i] = content[f][i]
  BY WriteRowEffect DEF IInv
<1>3. newest = l /\ writers[f] \subseteq {newest} /\ newest # NoLogger
  <2>1. newest # NoLogger
    BY DEF IInv, LoggerState, WriteRow
  <2>2. newest \in Loggers /\ fd[newest] # "none"
    BY <2>1 DEF IInv, TypeOK, LoggerState
  <2>3. writers[f] \subseteq Loggers
    BY DEF IInv, TypeOK
  <2>4. QED
    BY <1>1, <2>1, <2>2, <2>3 DEF WritersOpened
<1>4. Len(content[f]) = pos[l][f]
  BY <1>3 DEF IInv, SoleOffsetAtEnd
<1>5. content[f] # <<>>
  BY <1>3 DEF IInv, HeaderIntact
<1>6. Len(content'[f]) > Len(content[f]) /\ Len(content[f]) \in Nat
  BY <1>2, <1>4 DEF Larger
<1>7. \A i \in 1..Len(content[f]) : content'[f][i] = content[f][i]
  BY <1>2, <1>4, <1>6
<1>8. SubSeq(content'[f], 1, Len(content[f])) = content[f]
  BY <1>2, <1>6, <1>7
<1>9. QED
  BY <1>2, <1>5, <1>6, <1>8 DEF Log!Extend

\* Until a second logger is constructed the files implement the append-only log.
THEOREM SoleLoggerAppendOnly == FreeSpec => AppendOnlyWhileSole
<1> DEFINE Inv == IInv /\ WritersOpened
<1>1. Init => Log!Init /\ Inv
  BY IInvInit DEF Init, Log!Init, WritersOpened
<1>2. Inv /\ [FreeNext]_vars => Inv'
  BY IInvStep, WritersOpenedStep
<1>3. Inv /\ [FreeNext]_vars => [Sole' => Log!Next]_content
  <2> SUFFICES ASSUME Inv, [FreeNext]_vars, Sole', content' # content PROVE Log!Next
    OBVIOUS
  <2>1. ASSUME NEW l \in Loggers, Open(l) PROVE Log!Next
    <3>1. fd'[l] = "open" /\ fd[l] = "none" /\ \A k \in Loggers : k # l => fd'[k] = fd[k]
      BY <2>1 DEF Open, IInv, TypeOK
    <3>2. \A k \in Loggers : fd[k] = "none"
      BY <3>1 DEF Sole
    <3>3. newest = NoLogger
      BY <3>2 DEF IInv, TypeOK, LoggerState
    <3>4. \A f \in Files : content[f] = <<>>
      BY <3>3 DEF IInv, EmptyAtFirst
    <3>5. QED
      BY <2>1, <3>4 DEF Open, Log!Next, Log!Create
  <2>2. ASSUME NEW l \in Loggers, Close(l) PROVE FALSE
    BY <2>2 DEF Close
  <2>3. ASSUME NEW l \in Loggers, NEW f \in Files, NEW w \in RowWidths, WriteRow(l, f, w)
        PROVE  Log!Next
    BY <2>3, SoleWriteExtends DEF Log!Next
  <2>4. CASE UNCHANGED vars
    BY <2>4 DEF vars
  <2>5. "flow" \in Files /\ "fault" \in Files
    BY DEF Files
  <2>6. QED
    BY <2>1, <2>2, <2>3, <2>4, <2>5 DEF FreeNext, LogFlowStart, LogFlowEnd, LogFault
<1> HIDE DEF Inv
<1>4. QED
  BY <1>1, <1>2, <1>3, PTL DEF FreeSpec, AppendOnlyWhileSole

\* What TLC explores is a part of what the theorems are about.
THEOREM BoundedSpecIsPart == Spec => FreeSpec
<1>1. [Next]_vars => [FreeNext]_vars
  BY DEF Next
<1>2. QED
  BY <1>1, PTL DEF Spec, FreeSpec
=============================================================================
