----------------------------- MODULE ServiceCall -----------------------------
(***************************************************************************)
(* What services promise: a server accepts a call that was made, once in   *)
(* all its lives, and answers it at most once; the client that made the    *)
(* call, and no other, receives this answer at most once.  A server that   *)
(* stops forgets the calls it has not answered.  Calls and answers may be  *)
(* lost; nothing is made up, confused or repeated.  A call is named by its *)
(* request header (rmw_request_id_t).                                      *)
(***************************************************************************)
EXTENDS Integers

CONSTANTS Clients, Servers

VARIABLES
  asked,      \* how many calls each client has made
  serving,    \* calls a server has accepted and not answered
  accepted,   \* all calls a server has accepted
  answered,   \* all calls a server has answered
  received    \* per client, <<s, n>>: the answer of s to its call n

vars == <<asked, serving, accepted, answered, received>>

Call(c, n) == [writer_guid |-> c, sequence_number |-> n]

Init ==
  /\ asked = [c \in Clients |-> 0]
  /\ serving = [s \in Servers |-> {}]
  /\ accepted = [s \in Servers |-> {}]
  /\ answered = [s \in Servers |-> {}]
  /\ received = [c \in Clients |-> {}]

Ask(c) ==
  /\ asked' = [asked EXCEPT ![c] = @ + 1]
  /\ UNCHANGED <<serving, accepted, answered, received>>

Accept(s, c, n) ==
  /\ n \in 1..asked[c]
  /\ Call(c, n) \notin accepted[s]
  /\ serving' = [serving EXCEPT ![s] = @ \cup {Call(c, n)}]
  /\ accepted' = [accepted EXCEPT ![s] = @ \cup {Call(c, n)}]
  /\ UNCHANGED <<asked, answered, received>>

Answer(s, call) ==
  /\ call \in serving[s] \ answered[s]
  /\ serving' = [serving EXCEPT ![s] = @ \ {call}]
  /\ answered' = [answered EXCEPT ![s] = @ \cup {call}]
  /\ UNCHANGED <<asked, accepted, received>>

Receive(c, s, n) ==
  /\ Call(c, n) \in answered[s]
  /\ <<s, n>> \notin received[c]
  /\ received' = [received EXCEPT ![c] = @ \cup {<<s, n>>}]
  /\ UNCHANGED <<asked, serving, accepted, answered>>

Forget(s) ==
  /\ serving' = [serving EXCEPT ![s] = {}]
  /\ UNCHANGED <<asked, accepted, answered, received>>

Next ==
  \/ \E c \in Clients : Ask(c)
  \/ \E s \in Servers, c \in Clients : \E n \in 1..asked[c] : Accept(s, c, n)
  \/ \E s \in Servers : \E call \in serving[s] : Answer(s, call)
  \/ \E c \in Clients, s \in Servers : \E n \in 1..asked[c] : Receive(c, s, n)
  \/ \E s \in Servers : Forget(s)

Spec == Init /\ [][Next]_vars

===========================================================================
