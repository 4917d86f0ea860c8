--------------------------- MODULE AppendOnlyLog ---------------------------
(***************************************************************************)
(* What docs/schema.md promises of flow_log.csv and fault_log.csv: they    *)
(* are append-only.  A file comes into being with its header, together     *)
(* with the other file, and from then on only grows at its end.            *)
(***************************************************************************)
EXTENDS Integers, Sequences

CONSTANTS Files, Entry, Header

VARIABLE log   \* log[f]: the contents of file f

Init == log = [f \in Files |-> <<>>]

Create ==
  /\ \A f \in Files : log[f] = <<>>
  /\ log' = [f \in Files |-> <<Header>>]

\* File f grows at its end; the other file is left alone.
Extend(f) ==
  /\ log[f] # <<>>
  /\ log'[f] \in Seq(Entry)
  /\ Len(log'[f]) > Len(log[f])
  /\ SubSeq(log'[f], 1, Len(log[f])) = log[f]
  /\ log' = [log EXCEPT ![f] = log'[f]]

Next == Create \/ \E f \in Files : Extend(f)

Spec == Init /\ [][Next]_log
=============================================================================
