---------------------------- MODULE MCGraphEvents ----------------------------
(* Instances of GraphEvents for TLC.                                        *)
EXTENDS GraphEvents

CONSTANTS pub, sub, p1, s1, n1, t1, graph, o1, o2

MCListenerOf == [h \in Handles |-> IF h = s1 THEN sub ELSE pub]
=============================================================================
