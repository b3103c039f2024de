---------------------------- MODULE MCServiceRpc ----------------------------
(* The instance of ServiceRpc for TLC.                                     *)
EXTENDS ServiceRpc

CONSTANTS c1, c2, s1

\* c1 goes beyond the low half of a sequence number.
MCMaxRequests == [c \in Clients |-> IF c = c1 THEN 2 ELSE 1]
=============================================================================
