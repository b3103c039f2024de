--------------------------- MODULE MCMessageFlow ---------------------------
(* The instances of MessageFlow for TLC: a short and a long message, so that *)
(* a buffer is used as it is and replaced.                                   *)
EXTENDS MessageFlow

CONSTANTS own, remote, t1, t2, short, long

\* One thread takes messages, the other records them with their publishers.
MCKindsOf == [t \in Takers |-> IF t = t1 THEN {"take"} ELSE {"serialized_info"}]

\* A field whose failure the conversion of C hides, and one whose it reports.
MCFieldKinds == <<"nested", "wstring">>

MCSize == [m \in Messages |-> IF m = short THEN 1 ELSE 3]
=============================================================================
