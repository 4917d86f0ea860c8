---------------------------- MODULE GroundTruth ----------------------------
(***************************************************************************)
(* The two ground-truth CSV files, flow_log.csv and fault_log.csv, and the *)
(* GroundTruthLogger objects that write them (traffic/ground_truth.py).    *)
(*                                                                         *)
(* Every logger opens both files with mode "w": the constructor truncates  *)
(* them, whoever else has them open, and writes the column header.  From   *)
(* then on the logger writes at the offset of its own file descriptor,     *)
(* which no other logger moves, so a logger that was open before a         *)
(* truncation goes on at its old offset: past the end of the file (the     *)
(* file system fills the gap with NULs) or on top of another logger's      *)
(* rows.  Every row is flushed as it is written.                           *)
(*                                                                         *)
(* A file is a sequence of cells.  A row takes up between one and a few    *)
(* cells, so that rows of different widths can overwrite one another in    *)
(* part; the header, the same text whoever writes it and always at offset  *)
(* 0, is one cell.                                                         *)
(***************************************************************************)
EXTENDS Integers, Sequences

CONSTANTS
  Loggers,    \* the GroundTruthLogger objects ever constructed
  NoLogger,   \* not a logger: the author of the header and of NUL cells
  RowWidths,  \* the widths a row may have, in cells
  MaxRows     \* bound on the rows one logger writes to one file

ASSUME LoggerAssumption == NoLogger \notin Loggers
ASSUME WidthAssumption == RowWidths \subseteq Nat \ {0}
ASSUME BoundAssumption == MaxRows \in Nat

VARIABLES
  content,  \* content[f]: the cells of file f
  fd,       \* fd[l]: the state of logger l's two file objects
  pos,      \* pos[l][f]: the offset of logger l's descriptor of f
  rows,     \* rows[l][f]: history, the rows l has written to f
  newest,   \* history: the logger constructed last
  writers   \* writers[f]: history, who wrote rows to f since its truncation

vars == <<content, fd, pos, rows, newest, writers>>

Files == {"flow", "fault"}

Cell == [by : Loggers \cup {NoLogger}, row : Nat, part : Nat, of : Nat]
HeaderCell == [by |-> NoLogger, row |-> 0, part |-> 1, of |-> 1]
Nul == [by |-> NoLogger, row |-> 0, part |-> 0, of |-> 0]

\* The cells of logger l's n-th row, w cells wide.
RowCells(l, n, w) == [j \in 1..w |-> [by |-> l, row |-> n, part |-> j, of |-> w]]

Larger(a, b) == IF a >= b THEN a ELSE b

\* write(2) of the cells "new" at offset p of a file with contents s.
Overlay(s, p, new) ==
  [i \in 1..Larger(Len(s), p + Len(new)) |->
     IF i \in (p + 1)..(p + Len(new)) THEN new[i - p]
     ELSE IF i <= Len(s) THEN s[i] ELSE Nul]

TypeOK ==
  /\ content \in [Files -> Seq(Cell)]
  /\ fd \in [Loggers -> {"none", "open", "closed"}]
  /\ pos \in [Loggers -> [Files -> Nat]]
  /\ rows \in [Loggers -> [Files -> Nat]]
  /\ newest \in Loggers \cup {NoLogger}
  /\ writers \in [Files -> SUBSET Loggers]

Init ==
  /\ content = [f \in Files |-> <<>>]
  /\ fd = [l \in Loggers |-> "none"]
  /\ pos = [l \in Loggers |-> [f \in Files |-> 0]]
  /\ rows = [l \in Loggers |-> [f \in Files |-> 0]]
  /\ newest = NoLogger
  /\ writers = [f \in Files |-> {}]

\* Mutant of Open: the header is written through another handle, so the logger's
\* own descriptors stay at offset 0.
OpenAtZero(l) ==
  /\ fd[l] = "none"
  /\ fd' = [fd EXCEPT ![l] = "open"]
  /\ content' = [f \in Files |-> <<HeaderCell>>]
  /\ pos' = [pos EXCEPT ![l] = [f \in Files |-> 0]]
  /\ newest' = l
  /\ writers' = [f \in Files |-> {}]
  /\ UNCHANGED rows

\* Mutant of Open: mode "r+" instead of "w", nothing is truncated.
OpenKeepsRows(l) ==
  /\ fd[l] = "none"
  /\ fd' = [fd EXCEPT ![l] = "open"]
  /\ content' = [f \in Files |-> Overlay(content[f], 0, <<HeaderCell>>)]
  /\ pos' = [pos EXCEPT ![l] = [f \in Files |-> 1]]
  /\ newest' = l
  /\ writers' = [f \in Files |-> {}]
  /\ UNCHANGED rows

\* GroundTruthLogger(): both files are opened with "w" and get their header.
Open(l) ==
  /\ fd[l] = "none"
  /\ fd' = [fd EXCEPT ![l] = "open"]
  /\ content' = [f \in Files |-> <<HeaderCell>>]
  /\ pos' = [pos EXCEPT ![l] = [f \in Files |-> 1]]
  /\ newest' = l
  /\ writers' = [f \in Files |-> {}]
  /\ UNCHANGED rows

\* Mutant of WriteRow: the offset does not advance with the row.
WriteRowInPlace(l, f, w) ==
  /\ fd[l] = "open"
  /\ content' = [content EXCEPT
       ![f] = Overlay(@, pos[l][f], RowCells(l, rows[l][f] + 1, w))]
  /\ rows' = [rows EXCEPT ![l][f] = @ + 1]
  /\ writers' = [writers EXCEPT ![f] = @ \cup {l}]
  /\ UNCHANGED <<fd, pos, newest>>

\* Mutant of WriteRow: the offset moves back over the row.
WriteRowBackwards(l, f, w) ==
  /\ fd[l] = "open"
  /\ content' = [content EXCEPT
       ![f] = Overlay(@, pos[l][f], RowCells(l, rows[l][f] + 1, w))]
  /\ pos' = [pos EXCEPT ![l][f] = @ - w]
  /\ rows' = [rows EXCEPT ![l][f] = @ + 1]
  /\ writers' = [writers EXCEPT ![f] = @ \cup {l}]
  /\ UNCHANGED <<fd, newest>>

\* writer.writerow(...) and flush() on an open file; on a closed one the call
\* raises ValueError and changes nothing.
WriteRow(l, f, w) ==
  /\ fd[l] = "open"
  /\ content' = [content EXCEPT
       ![f] = Overlay(@, pos[l][f], RowCells(l, rows[l][f] + 1, w))]
  /\ pos' = [pos EXCEPT ![l][f] = @ + w]
  /\ rows' = [rows EXCEPT ![l][f] = @ + 1]
  /\ writers' = [writers EXCEPT ![f] = @ \cup {l}]
  /\ UNCHANGED <<fd, newest>>

LogFlowStart(l, w) == WriteRow(l, "flow", w)
LogFlowEnd(l, w) == WriteRow(l, "flow", w)
LogFault(l, w) == WriteRow(l, "fault", w)

\* close() of both file objects; a second close() does nothing.
Close(l) ==
  /\ fd[l] # "none"
  /\ fd' = [fd EXCEPT ![l] = "closed"]
  /\ UNCHANGED <<content, pos, rows, newest, writers>>

FreeNext ==
  \E l \in Loggers :
    \/ Open(l)
    \/ Close(l)
    \/ \E w \in RowWidths : LogFlowStart(l, w) \/ LogFlowEnd(l, w) \/ LogFault(l, w)

FreeSpec == Init /\ [][FreeNext]_vars

\* The same, no logger writing more than MaxRows rows to a file.
Next == FreeNext /\ \A l \in Loggers, f \in Files : rows'[l][f] <= MaxRows

Spec == Init /\ [][Next]_vars

-----------------------------------------------------------------------------
(***************************************************************************)
(* Properties.                                                             *)
(***************************************************************************)

\* Once a logger exists both files begin with the header and no descriptor
\* points into it: however truncations and writes at stale offsets interleave,
\* no logger ever writes over the column names a CSV reader depends on.
HeaderIntact ==
  newest # NoLogger => \A f \in Files : content[f] # <<>> /\ content[f][1] = HeaderCell

\* Cell c comes before cell d in what one logger wrote.
Before(c, d) == c.row < d.row \/ (c.row = d.row /\ c.part < d.part)

\* Whatever the other loggers truncate or overwrite, the cells of one logger
\* that are still in a file stand in the order in which they were written, none
\* of them twice: a reader that keeps one logger's rows never sees them
\* reordered or repeated (the descriptor offset only moves forward).
OwnRowsInOrder ==
  \A f \in Files : \A i, k \in DOMAIN content[f] :
    i < k /\ content[f][i].by = content[f][k].by /\ content[f][i].by # NoLogger
      => Before(content[f][i], content[f][k])

\* d is the cell that follows c when rows stand one after the other, whole.
Follows(c, d) ==
  IF c.part < c.of THEN d = [c EXCEPT !.part = @ + 1]
                   ELSE d.row = c.row + 1 /\ d.part = 1

\* Cells 2..Len(s) are l's rows 1..n, whole and without a gap.
WholeLog(s, l, n) ==
  /\ \A i \in 2..Len(s) : s[i].by = l /\ Follows(s[i - 1], s[i])
  /\ s[Len(s)].row = n /\ s[Len(s)].part = s[Len(s)].of

\* What a deployment has to respect for a log to be complete: as long as only
\* the newest logger has written to a file since it was truncated, the file is
\* the header followed by every row of that logger, whole and in order, with no
\* NUL gap and no torn row.
CompleteIfOnlyNewestWrites ==
  newest # NoLogger =>
    \A f \in Files :
      writers[f] \subseteq {newest} => WholeLog(content[f], newest, rows[newest][f])

\* As long as only one logger has been constructed the two files are what
\* docs/schema.md says of them, append-only logs that start with their header.
Log == INSTANCE AppendOnlyLog WITH Entry <- Cell, Header <- HeaderCell, log <- content
Sole == \A l, k \in Loggers : fd[l] # "none" /\ fd[k] # "none" => l = k
AppendOnlyWhileSole == Log!Init /\ [][Sole' => Log!Next]_content
=============================================================================
