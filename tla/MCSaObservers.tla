---------------------------- MODULE MCSaObservers ----------------------------
EXTENDS SaObservers

CONSTANTS a1, a2, b1, A, B

MCNameOf == [x \in Conns |-> IF x = b1 THEN B ELSE A]
=============================================================================
