--------------------------- MODULE MCNodeLifecycle ---------------------------
(* The instance of NodeLifecycle and NodeNames for TLC.                     *)
EXTENDS NodeNames

CONSTANTS n1, pub, sub, node, older

\* A node of this implementation, and one that announces no namespace.
MCAnnounced ==
  [p \in Peers |->
    [name |-> IF p = node THEN "talker" ELSE "tool",
     namespace |-> IF p = node THEN "/" ELSE Nothing,
     entity_name |-> Nothing]]

MCTexts == {"talker", "tool", "/"}
=============================================================================
