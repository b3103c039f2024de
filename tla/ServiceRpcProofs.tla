--------------------------- MODULE ServiceRpcProofs ---------------------------
(***************************************************************************)
(* Proofs about ServiceRpc: types, that requests and responses are never   *)
(* confused, and that they keep the promise of ServiceCall, for any        *)
(* clients, servers, readers' depths and width of the halves.              *)
(***************************************************************************)
EXTENDS ServiceRpc, TLAPS

---------------------------------------------------------------------------
(* Sequence numbers in halves.                                             *)

\* Quotient and remainder make up the number.
LEMMA Halves ==
  ASSUME NEW n \in Nat
  PROVE  /\ n \div Half \in Nat
         /\ n % Half \in 0..(Half - 1)
         /\ (n \div Half) * Half + (n % Half) = n
  BY RpcAssumption

\* A joined number is a natural number.
LEMMA JoinedNat ==
  ASSUME NEW id \in Ids
  PROVE  SequenceNumber(id) \in Nat
<1>1. id.high \in Nat /\ id.low \in 0..(Half - 1)
  BY DEF Ids
<1>2. id.high * Half \in Nat
  BY <1>1, RpcAssumption
<1> QED
  BY <1>1, <1>2, RpcAssumption DEF SequenceNumber

\* Splitting a number and joining the halves gives the number back.
LEMMA SplitThenJoin ==
  ASSUME NEW c \in Clients, NEW n \in Nat
  PROVE  /\ Identity(c, n) \in Ids
         /\ Identity(c, n).guid = c
         /\ SequenceNumber(Identity(c, n)) = n
  BY Halves DEF Identity, Ids, SequenceNumber

\* The identity that a response is related to is the one the header was made of.
LEMMA HeaderRoundTrip ==
  ASSUME NEW h \in Headers
  PROVE  /\ RequestIdentity(h) \in Ids
         /\ RequestIdentity(h).guid = h.writer_guid
         /\ SequenceNumber(RequestIdentity(h)) = h.sequence_number
         /\ HeaderOf(RequestIdentity(h)) = h
<1>1. h.writer_guid \in Clients /\ h.sequence_number \in Nat
  BY DEF Headers
<1>2. RequestIdentity(h) = Identity(h.writer_guid, h.sequence_number)
  BY DEF RequestIdentity, Identity
<1> QED
  BY <1>1, <1>2, SplitThenJoin DEF HeaderOf, Headers

\* A header is made of a client and a number.
LEMMA HeaderType ==
  ASSUME NEW id \in Ids
  PROVE  HeaderOf(id) \in Headers
  BY JoinedNat DEF HeaderOf, Headers, Ids

---------------------------------------------------------------------------
(* Queues.                                                                 *)

\* r is q with x at its end and perhaps without its first sample.
Shifted(q, r, x) ==
  \E d \in {0, 1} :
    /\ Len(r) = Len(q) + 1 - d
    /\ \A i \in 1..(Len(q) - d) : r[i] = q[i + d] /\ i + d \in 1..Len(q)
    /\ r[Len(q) + 1 - d] = x

\* A sample that enters a reader comes last; of the others the oldest may go.
LEMMA EnqueueShifts ==
  ASSUME NEW S, NEW q \in Seq(S), NEW x \in S
  PROVE  Enqueue(q, x) \in Seq(S) /\ Shifted(q, Enqueue(q, x), x)
<1>1. CASE Len(q) < Depth
  <2>1. /\ Enqueue(q, x) = Append(q, x)
        /\ Append(q, x) \in Seq(S)
        /\ Len(Append(q, x)) = Len(q) + 1
        /\ \A i \in 1..Len(q) : Append(q, x)[i] = q[i]
        /\ Append(q, x)[Len(q) + 1] = x
    BY <1>1 DEF Enqueue
  <2> QED
    BY <2>1 DEF Shifted
<1>2. CASE ~(Len(q) < Depth)
  <2>1. Len(q) \in Nat \ {0}
    BY <1>2, RpcAssumption
  <2>2. /\ Tail(q) \in Seq(S)
        /\ Len(Tail(q)) = Len(q) - 1
        /\ \A i \in 1..(Len(q) - 1) : Tail(q)[i] = q[i + 1]
    BY <2>1
  <2>3. /\ Enqueue(q, x) = Append(Tail(q), x)
        /\ Append(Tail(q), x) \in Seq(S)
        /\ Len(Append(Tail(q), x)) = Len(q)
        /\ \A i \in 1..(Len(q) - 1) : Append(Tail(q), x)[i] = q[i + 1]
        /\ Append(Tail(q), x)[Len(q)] = x
    BY <1>2, <2>1, <2>2 DEF Enqueue
  <2>4. \E d \in {0, 1} :
          /\ Len(Enqueue(q, x)) = Len(q) + 1 - d
          /\ \A i \in 1..(Len(q) - d) : Enqueue(q, x)[i] = q[i + d] /\ i + d \in 1..Len(q)
          /\ Enqueue(q, x)[Len(q) + 1 - d] = x
    <3>1. Len(q) + 1 - 1 = Len(q)
      BY <2>1
    <3>2. \A i \in 1..(Len(q) - 1) : i + 1 \in 1..Len(q)
      BY <2>1
    <3> WITNESS 1 \in {0, 1}
    <3> QED
      BY <2>3, <3>1, <3>2
  <2> QED
    BY <2>3, <2>4 DEF Shifted
<1> QED
  BY <1>1, <1>2

\* Taking from a reader leaves the others in their order.
LEMMA TailShifts ==
  ASSUME NEW S, NEW q \in Seq(S), q # <<>>
  PROVE  /\ Head(q) = q[1] /\ Head(q) \in S /\ 1 \in 1..Len(q)
         /\ Tail(q) \in Seq(S)
         /\ Len(Tail(q)) = Len(q) - 1
         /\ \A i \in 1..Len(Tail(q)) : Tail(q)[i] = q[i + 1] /\ i + 1 \in 1..Len(q)
  OBVIOUS

---------------------------------------------------------------------------
(* Who has what.                                                           *)

\* What a server has: a request is in its reader, or was taken and has still to
\* be answered, or was answered; nowhere twice.
ServerInv(s) ==
  /\ \A h \in served[s] : Asked(h.writer_guid, h.sequence_number)
  /\ taken[s] \subseteq served[s] /\ responded[s] \subseteq served[s]
  /\ taken[s] \cap responded[s] = {}
  /\ \A i \in DOMAIN inbox[s] :
       /\ Asked(inbox[s][i].guid, SequenceNumber(inbox[s][i]))
       /\ HeaderOf(inbox[s][i]) \notin served[s]
  /\ \A i, j \in DOMAIN inbox[s] : HeaderOf(inbox[s][i]) = HeaderOf(inbox[s][j]) => i = j

\* What a client has: responses that were given, in the reader or taken, once.
ClientInv(c) ==
  /\ \A a \in answered[c] : Calls!Call(c, a[2]) \in responded[a[1]]
  /\ \A i \in DOMAIN replies[c] :
       LET x == replies[c][i] IN
       /\ x.id.guid = c
       /\ HeaderOf(x.id) \in responded[x.by]
       /\ <<x.by, SequenceNumber(x.id)>> \notin answered[c]
  /\ \A i, j \in DOMAIN replies[c] :
       /\ replies[c][i].by = replies[c][j].by
       /\ SequenceNumber(replies[c][i].id) = SequenceNumber(replies[c][j].id)
       => i = j

RpcInv ==
  /\ TypeOK
  /\ \A s \in Servers : ServerInv(s)
  /\ \A c \in Clients : ClientInv(c)

\* Nobody has anything in the beginning.
LEMMA InitialRpcs == Init => RpcInv
<1> SUFFICES ASSUME Init PROVE RpcInv
  OBVIOUS
<1>1. TypeOK
  BY RpcAssumption DEF Init, TypeOK
<1>2. ASSUME NEW s \in Servers
      PROVE  ServerInv(s)
  BY DEF Init, ServerInv
<1>3. ASSUME NEW c \in Clients
      PROVE  ClientInv(c)
  BY DEF Init, ClientInv
<1> QED
  BY <1>1, <1>2, <1>3 DEF RpcInv

\* What the discovery does, and what the clients ask it, concerns no request.
LEMMA DiscoveryKeepsInv ==
  ASSUME RpcInv, UNCHANGED messages, TypeOK'
  PROVE  RpcInv'
<1>1. ASSUME NEW s \in Servers
      PROVE  ServerInv(s)'
  BY DEF RpcInv, ServerInv, messages, Asked, HeaderOf, SequenceNumber
<1>2. ASSUME NEW c \in Clients
      PROVE  ClientInv(c)'
  BY DEF RpcInv, ClientInv, messages, HeaderOf, SequenceNumber, Calls!Call
<1> QED
  BY <1>1, <1>2 DEF RpcInv

\* The steps that touch no request or response.
Quiet ==
  \/ \E s \in Servers : ServerStarts(s)
  \/ \E c \in Clients, s \in Servers :
       MatchRequests(c, s) \/ MatchResponses(c, s) \/ Unmatch(c, s)
  \/ \E x \in Departures : WriterGone(x)
  \/ \E c \in Clients : Ask(c)
  \/ \E x \in Clients \cup Servers : TakeNothing(x)

\* Such a step keeps the types.
LEMMA QuietKeepsTypes ==
  ASSUME TypeOK, Quiet
  PROVE  TypeOK' /\ UNCHANGED messages
<1>1. ASSUME NEW s \in Servers, ServerStarts(s)
      PROVE  TypeOK' /\ UNCHANGED messages
  BY <1>1 DEF TypeOK, ServerStarts, query, messages
<1>2. ASSUME NEW c \in Clients, NEW s \in Servers,
             MatchRequests(c, s) \/ MatchResponses(c, s) \/ Unmatch(c, s)
      PROVE  TypeOK' /\ UNCHANGED messages
  <2>1. /\ requestMatched' \subseteq Clients \X Servers
        /\ responseMatched' \subseteq Clients \X Servers
    BY <1>2 DEF TypeOK, MatchRequests, MatchResponses, Unmatch
  <2>2. UNCHANGED <<running, stops, query, messages, gone>>
    BY <1>2 DEF MatchRequests, MatchResponses, Unmatch
  <2> QED
    BY <2>1, <2>2 DEF TypeOK, query, messages
<1>3. ASSUME NEW x \in Departures, WriterGone(x)
      PROVE  TypeOK' /\ UNCHANGED messages
  BY <1>3 DEF TypeOK, WriterGone, discovery, query, messages
<1>4. ASSUME NEW c \in Clients, Ask(c)
      PROVE  TypeOK' /\ UNCHANGED messages
  <2>1. \E b \in BOOLEAN : asking' = [asking EXCEPT ![c] = b]
    BY <1>4 DEF Ask, CountRequestReaders, CountResponseWriters
  <2>2. \E b \in BOOLEAN : available' = [available EXCEPT ![c] = b]
    BY <1>4 DEF Ask, CountRequestReaders, CountResponseWriters
  <2>3. UNCHANGED <<discovery, messages, gone>>
    BY <1>4 DEF Ask, CountRequestReaders, CountResponseWriters
  <2>4. asking' \in [Clients -> BOOLEAN] /\ available' \in [Clients -> BOOLEAN]
    BY <2>1, <2>2 DEF TypeOK
  <2> QED
    BY <2>3, <2>4 DEF TypeOK, discovery, messages
<1>5. ASSUME NEW x \in Clients \cup Servers, TakeNothing(x)
      PROVE  TypeOK' /\ UNCHANGED messages
  BY <1>5 DEF TypeOK, TakeNothing, discovery, query, messages
<1> QED
  BY <1>1, <1>2, <1>3, <1>4, <1>5 DEF Quiet

\* A server that stops loses its reader and what it had not answered.
LEMMA StopKeepsInv ==
  ASSUME RpcInv, NEW s \in Servers, ServerStops(s)
  PROVE  RpcInv'
<1> USE DEF RpcInv
<1>1. TypeOK'
  <2>1. stops' \in 0..MaxStops /\ gone' \subseteq Departures /\ running' \subseteq Servers
    BY RpcAssumption DEF TypeOK, ServerStops
  <2>2. inbox' \in [Servers -> Seq(Ids)] /\ taken' \in [Servers -> SUBSET Headers]
    BY DEF TypeOK, ServerStops
  <2> QED
    BY <2>1, <2>2 DEF TypeOK, ServerStops, query
<1>2. ASSUME NEW z \in Servers
      PROVE  ServerInv(z)'
  BY DEF TypeOK, ServerInv, ServerStops, query, Asked, HeaderOf, SequenceNumber
<1>3. ASSUME NEW c \in Clients
      PROVE  ClientInv(c)'
  BY DEF ClientInv, ServerStops, query, HeaderOf, SequenceNumber, Calls!Call
<1> QED
  BY <1>1, <1>2, <1>3

\* A new request has a number that no reader holds and no server has served.
LEMMA SendRequestKeepsInv ==
  ASSUME RpcInv, NEW c \in Clients, SendRequest(c)
  PROVE  RpcInv'
<1> USE DEF RpcInv
<1>1. sent[c] \in Nat /\ MaxRequests[c] \in Nat
  BY RpcAssumption DEF TypeOK
<1>2. PICK n \in Nat : n = sent[c] + 1
  BY <1>1
<1>3. PICK id \in Ids : id = Identity(c, n)
  BY SplitThenJoin
<1>4. id.guid = c /\ SequenceNumber(id) = n /\ HeaderOf(id) = Calls!Call(c, n)
  BY <1>3, SplitThenJoin DEF HeaderOf, Calls!Call
<1>5. /\ n <= MaxRequests[c] /\ sent' = [sent EXCEPT ![c] = n] /\ sent'[c] = n
      /\ \A d \in Clients : sent[d] <= sent'[d] /\ sent[d] \in Nat /\ sent'[d] \in Nat
      /\ n \notin 1..sent[c] /\ n \in 1..sent'[c]
  <2>1. sent[c] < MaxRequests[c] /\ sent' = [sent EXCEPT ![c] = n]
    BY <1>2 DEF SendRequest
  <2> QED
    BY <1>1, <1>2, <2>1 DEF TypeOK
<1>6. /\ UNCHANGED <<discovery, query, taken, served, responded, replies, answered, gone>>
      /\ DOMAIN inbox' = Servers
      /\ \A z \in Servers : inbox'[z] = inbox[z] \/ inbox'[z] = Enqueue(inbox[z], id)
  BY <1>2, <1>3, <1>5 DEF SendRequest
<1>7. lost' \subseteq Clients \X Nat
  <2>1. \A z \in Servers : PushedOut(inbox[z]) \subseteq Ids
    <3> SUFFICES ASSUME NEW z \in Servers, ~(Len(inbox[z]) < Depth)
                 PROVE  Head(inbox[z]) \in Ids
      BY DEF PushedOut
    <3>1. inbox[z] \in Seq(Ids) /\ inbox[z] # <<>>
      BY RpcAssumption DEF TypeOK
    <3> QED
      BY <3>1, TailShifts
  <2>2. \A x \in Ids : Key(x) \in Clients \X Nat
    BY JoinedNat DEF Key, Ids
  <2>3. PICK X \in SUBSET Servers :
          lost' = lost \cup {Key(x) : x \in UNION {PushedOut(inbox[z]) : z \in X}}
    <3> DEFINE X == {z \in running : <<c, z>> \in requestMatched}
    <3>1. X \in SUBSET Servers
      BY DEF TypeOK
    <3>2. lost' = lost \cup {Key(x) : x \in UNION {PushedOut(inbox[z]) : z \in X}}
      BY DEF SendRequest
    <3> QED
      BY <3>1, <3>2
  <2>4. \A x \in UNION {PushedOut(inbox[z]) : z \in X} : Key(x) \in Clients \X Nat
    BY <2>1, <2>2
  <2> QED
    BY <2>3, <2>4 DEF TypeOK
<1>8. inbox' \in [Servers -> Seq(Ids)]
  <2>1. ASSUME NEW z \in Servers
        PROVE  inbox'[z] \in Seq(Ids)
    <3>1. inbox[z] \in Seq(Ids)
      BY DEF TypeOK
    <3>2. Enqueue(inbox[z], id) \in Seq(Ids)
      BY <3>1, EnqueueShifts
    <3> QED
      BY <1>6, <3>1, <3>2
  <2>2. inbox' = [z \in Servers |-> inbox'[z]]
    BY <1>2, <1>3, <1>5 DEF SendRequest
  <2> QED
    BY <2>1, <2>2
<1>9. TypeOK'
  <2>1. sent' \in [Clients -> Nat]
    BY <1>5 DEF TypeOK
  <2>2. sure' \in [Clients -> SUBSET Nat]
        /\ \A d \in Clients : sure'[d] \subseteq 1..sent'[d] /\ sent'[d] <= MaxRequests[d]
    <3>1. sure' = [sure EXCEPT ![c] = IF available[c] THEN @ \cup {n} ELSE @]
      BY <1>5 DEF SendRequest
    <3>2. \A d \in Clients : 1..sent[d] \subseteq 1..sent'[d]
      BY <1>5
    <3>3. \A d \in Clients : sure'[d] \subseteq 1..sent'[d]
      BY <1>5, <3>1, <3>2 DEF TypeOK
    <3> QED
      BY <1>5, <3>1, <3>3 DEF TypeOK
  <2> QED
    BY <1>6, <1>7, <1>8, <2>1, <2>2 DEF TypeOK, discovery, query
<1>10. ASSUME NEW z \in Servers
       PROVE  ServerInv(z)'
  <2>1. \A h \in Headers : h.sequence_number \in 1..sent[h.writer_guid]
                             => h.sequence_number \in 1..sent'[h.writer_guid]
    BY <1>5 DEF Headers
  <2>2. /\ \A h \in served'[z] : Asked(h.writer_guid, h.sequence_number)'
        /\ taken'[z] \subseteq served'[z] /\ responded'[z] \subseteq served'[z]
        /\ taken'[z] \cap responded'[z] = {}
    BY <1>6, <2>1 DEF ServerInv, TypeOK, Asked
  <2>3. inbox[z] \in Seq(Ids)
    BY DEF TypeOK
  <2>4. \A i \in 1..Len(inbox[z]) :
          /\ inbox[z][i] \in Ids
          /\ SequenceNumber(inbox[z][i]) \in 1..sent'[inbox[z][i].guid]
          /\ HeaderOf(inbox[z][i]) \notin served'[z]
          /\ HeaderOf(inbox[z][i]) # HeaderOf(id)
    <3> SUFFICES ASSUME NEW i \in 1..Len(inbox[z])
                 PROVE  /\ inbox[z][i] \in Ids
                        /\ SequenceNumber(inbox[z][i]) \in 1..sent'[inbox[z][i].guid]
                        /\ HeaderOf(inbox[z][i]) \notin served'[z]
                        /\ HeaderOf(inbox[z][i]) # HeaderOf(id)
      OBVIOUS
    <3>1. inbox[z][i] \in Ids /\ inbox[z][i].guid \in Clients
      <4>1. inbox[z][i] \in Ids
        BY <2>3
      <4> QED
        BY <4>1 DEF Ids
    <3>2. SequenceNumber(inbox[z][i]) \in 1..sent[inbox[z][i].guid]
      BY <2>3 DEF ServerInv, Asked
    <3>3. HeaderOf(inbox[z][i]) \notin served'[z]
      BY <1>6, <2>3 DEF ServerInv
    <3>4. HeaderOf(inbox[z][i]) # HeaderOf(id)
      BY <1>4, <1>5, <3>2 DEF HeaderOf
    <3> QED
      BY <1>5, <3>1, <3>2, <3>3, <3>4
  <2>5. \A i, j \in 1..Len(inbox[z]) : HeaderOf(inbox[z][i]) = HeaderOf(inbox[z][j]) => i = j
    BY <2>3 DEF ServerInv
  <2>6. HeaderOf(id) \notin served'[z]
    BY <1>4, <1>5, <1>6 DEF ServerInv, Calls!Call, Asked
  <2>7. CASE inbox'[z] = inbox[z]
    BY <2>2, <2>3, <2>4, <2>5, <2>7 DEF ServerInv, Asked, HeaderOf, SequenceNumber
  <2>8. CASE inbox'[z] = Enqueue(inbox[z], id)
    <3> DEFINE q == inbox[z]
    <3>0. Shifted(q, Enqueue(q, id), id)
      BY <2>3, EnqueueShifts
    <3>1. PICK d \in {0, 1} :
            /\ Len(inbox'[z]) = Len(q) + 1 - d
            /\ \A i \in 1..(Len(q) - d) : inbox'[z][i] = q[i + d] /\ i + d \in 1..Len(q)
            /\ inbox'[z][Len(q) + 1 - d] = id
      BY <2>8, <3>0 DEF Shifted
    <3>2. \A i \in DOMAIN inbox'[z] :
            i \in 1..(Len(inbox[z]) - d) \/ i = Len(inbox[z]) + 1 - d
      BY <1>8, <2>3, <3>1
    <3>3. \A i \in DOMAIN inbox'[z] :
            /\ SequenceNumber(inbox'[z][i]) \in 1..sent'[inbox'[z][i].guid]
            /\ HeaderOf(inbox'[z][i]) \notin served'[z]
      BY <1>4, <1>5, <2>4, <2>6, <3>1, <3>2
    <3>4. ASSUME NEW i \in DOMAIN inbox'[z], NEW j \in DOMAIN inbox'[z],
                 HeaderOf(inbox'[z][i]) = HeaderOf(inbox'[z][j])
          PROVE  i = j
      <4>1. i \in Int /\ j \in Int /\ d \in Int
        BY <2>3, <3>2
      <4>2. CASE i \in 1..(Len(q) - d) /\ j \in 1..(Len(q) - d)
        <5>1. i + d = j + d
          BY <2>5, <3>1, <3>4, <4>2
        <5> QED
          BY <4>1, <5>1
      <4>3. ASSUME NEW k \in 1..(Len(q) - d)
            PROVE  HeaderOf(inbox'[z][k]) # HeaderOf(id)
        BY <2>4, <3>1
      <4> QED
        BY <3>1, <3>2, <3>4, <4>2, <4>3
    <3> QED
      BY <2>2, <3>3, <3>4 DEF ServerInv, Asked, HeaderOf, SequenceNumber
  <2> QED
    BY <1>6, <2>7, <2>8
<1>11. ASSUME NEW d \in Clients
       PROVE  ClientInv(d)'
  BY <1>6 DEF ClientInv, HeaderOf, SequenceNumber, Calls!Call
<1> QED
  BY <1>9, <1>10, <1>11

\* A request that is taken is gone from the reader, converted or not, and was served
\* by nobody else of this name.
LEMMA GetRequestKeepsInv ==
  ASSUME RpcInv, NEW s \in Servers, GetRequest(s)
  PROVE  RpcInv'
<1> USE DEF RpcInv
<1>1. inbox[s] \in Seq(Ids) /\ inbox[s] # <<>>
  BY DEF TypeOK, GetRequest, TakeRequest, RequestUnconverted
<1>2. PICK id \in Ids : id = Head(inbox[s]) /\ id = inbox[s][1] /\ 1 \in DOMAIN inbox[s]
  BY <1>1, TailShifts
<1>3. PICK h \in Headers : h = HeaderOf(id)
  BY HeaderType
<1>4. PICK H \in SUBSET {h} :
        /\ inbox' = [inbox EXCEPT ![s] = Tail(@)]
        /\ taken' = [taken EXCEPT ![s] = @ \cup H]
        /\ served' = [served EXCEPT ![s] = @ \cup H]
        /\ lost' \subseteq lost \cup {Key(id)}
        /\ UNCHANGED <<discovery, query, sent, sure, responded, replies, answered, gone>>
  <2>1. CASE TakeRequest(s)
    <3>1. /\ inbox' = [inbox EXCEPT ![s] = Tail(@)]
          /\ taken' = [taken EXCEPT ![s] = @ \cup {h}]
          /\ served' = [served EXCEPT ![s] = @ \cup {h}]
          /\ lost' \subseteq lost \cup {Key(id)}
          /\ UNCHANGED <<discovery, query, sent, sure, responded, replies, answered, gone>>
      BY <1>2, <1>3, <2>1 DEF TakeRequest
    <3>2. PICK G \in SUBSET {h} : G = {h}
      OBVIOUS
    <3> QED
      BY <3>1, <3>2
  <2>2. CASE RequestUnconverted(s)
    <3>1. /\ taken' = [taken EXCEPT ![s] = @ \cup {}]
          /\ served' = [served EXCEPT ![s] = @ \cup {}]
      BY <2>2 DEF TypeOK, RequestUnconverted
    <3>2. /\ inbox' = [inbox EXCEPT ![s] = Tail(@)]
          /\ lost' \subseteq lost \cup {Key(id)}
          /\ UNCHANGED <<discovery, query, sent, sure, responded, replies, answered, gone>>
      BY <1>2, <2>2 DEF RequestUnconverted
    <3>3. PICK G \in SUBSET {h} : G = {}
      OBVIOUS
    <3> QED
      BY <3>1, <3>2, <3>3
  <2> QED
    BY <2>1, <2>2 DEF GetRequest
<1>5. Asked(h.writer_guid, h.sequence_number) /\ h \notin served[s]
  BY <1>2, <1>3 DEF ServerInv, HeaderOf
<1>6. TypeOK'
  <2>1. Tail(inbox[s]) \in Seq(Ids)
    BY <1>1, TailShifts
  <2>2. Key(id) \in Clients \X Nat
    BY JoinedNat DEF Key, Ids
  <2> QED
    BY <1>4, <2>1, <2>2 DEF TypeOK, discovery, query
<1>7. ASSUME NEW z \in Servers
      PROVE  ServerInv(z)'
  <2>1. CASE z # s
    BY <1>4, <2>1 DEF TypeOK, ServerInv, Asked, HeaderOf, SequenceNumber
  <2>2. CASE z = s
    <3>1. /\ inbox'[s] = Tail(inbox[s]) /\ taken'[s] = taken[s] \cup H
          /\ served'[s] = served[s] \cup H /\ responded' = responded /\ sent' = sent
      BY <1>4 DEF TypeOK
    <3>2. \A i \in DOMAIN inbox'[s] :
            /\ inbox'[s][i] = inbox[s][i + 1] /\ i + 1 \in DOMAIN inbox[s]
            /\ i \in Nat \ {0}
      BY <1>1, <3>1, TailShifts
    <3>3. /\ \A x \in served'[s] : Asked(x.writer_guid, x.sequence_number)'
          /\ taken'[s] \subseteq served'[s] /\ responded'[s] \subseteq served'[s]
          /\ taken'[s] \cap responded'[s] = {}
      BY <1>5, <3>1 DEF ServerInv, Asked
    <3>4. ASSUME NEW i \in DOMAIN inbox'[s]
          PROVE  /\ SequenceNumber(inbox'[s][i]) \in 1..sent'[inbox'[s][i].guid]
                 /\ HeaderOf(inbox'[s][i]) \notin served'[s]
      <4>1. i + 1 # 1
        BY <3>2
      <4>2. HeaderOf(inbox[s][i + 1]) # h
        BY <1>2, <1>3, <3>2, <4>1 DEF ServerInv
      <4> QED
        BY <3>1, <3>2, <4>2 DEF ServerInv, Asked
    <3>5. ASSUME NEW i \in DOMAIN inbox'[s], NEW j \in DOMAIN inbox'[s],
                 HeaderOf(inbox'[s][i]) = HeaderOf(inbox'[s][j])
          PROVE  i = j
      <4>1. i + 1 = j + 1
        BY <3>2, <3>5 DEF ServerInv
      <4> QED
        BY <3>2, <4>1
    <3> QED
      BY <2>2, <3>3, <3>4, <3>5 DEF ServerInv, Asked, HeaderOf, SequenceNumber
  <2> QED
    BY <2>1, <2>2
<1>8. ASSUME NEW c \in Clients
      PROVE  ClientInv(c)'
  BY <1>4 DEF ClientInv, HeaderOf, SequenceNumber, Calls!Call
<1> QED
  BY <1>6, <1>7, <1>8

\* A response goes to the client of its header, which has not had one from this
\* server.
LEMMA SendResponseKeepsInv ==
  ASSUME RpcInv, NEW s \in Servers, NEW h \in taken[s], SendResponse(s, h)
  PROVE  RpcInv'
<1> USE DEF RpcInv
<1>1. h \in Headers /\ h \in served[s] /\ h \notin responded[s]
  BY DEF TypeOK, ServerInv
<1>2. PICK id \in Ids : id = RequestIdentity(h)
  BY <1>1, HeaderRoundTrip
<1>3. PICK c \in Clients : c = h.writer_guid /\ c = id.guid
  BY <1>1, <1>2, HeaderRoundTrip DEF Headers
<1>4. PICK n \in Nat : n = h.sequence_number /\ n = SequenceNumber(id)
  BY <1>1, <1>2, HeaderRoundTrip DEF Headers
<1>5. HeaderOf(id) = h /\ Calls!Call(c, n) = h
  BY <1>1, <1>2, <1>3, <1>4, HeaderRoundTrip DEF Calls!Call, HeaderOf
<1> DEFINE x == [id |-> id, by |-> s]
<1>6. /\ taken' = [taken EXCEPT ![s] = @ \ {h}]
      /\ responded' = [responded EXCEPT ![s] = @ \cup {h}]
      /\ \/ replies' = [replies EXCEPT ![c] = Enqueue(@, x)]
         \/ replies' = replies
      /\ UNCHANGED <<discovery, query, sent, sure, inbox, served, answered, gone>>
  BY <1>2, <1>3 DEF SendResponse
<1>7. replies[c] \in Seq(Responses) /\ x \in Responses
  BY DEF TypeOK, Responses
<1>8. Enqueue(replies[c], x) \in Seq(Responses)
  BY <1>7, EnqueueShifts
<1>9. lost' \subseteq Clients \X Nat
  <2>1. \A y \in PushedOut(replies[c]) : y.id \in Ids
    <3> SUFFICES ASSUME ~(Len(replies[c]) < Depth)
                 PROVE  Head(replies[c]).id \in Ids
      BY DEF PushedOut
    <3>1. replies[c] # <<>>
      BY <1>7, RpcAssumption
    <3>2. Head(replies[c]) \in Responses
      BY <1>7, <3>1, TailShifts
    <3> QED
      BY <3>2 DEF Responses
  <2>2. \A y \in Ids : Key(y) \in Clients \X Nat
    BY JoinedNat DEF Key, Ids
  <2>3. lost' = lost \cup {Key(y.id) : y \in PushedOut(replies[c])} \/ lost' = lost
    BY <1>2, <1>3 DEF SendResponse
  <2>4. {Key(y.id) : y \in PushedOut(replies[c])} \subseteq Clients \X Nat
    BY <2>1, <2>2
  <2>5. lost \subseteq Clients \X Nat
    BY DEF TypeOK
  <2> QED
    BY <2>3, <2>4, <2>5
<1>10. TypeOK'
  <2>1. replies' \in [Clients -> Seq(Responses)]
    BY <1>6, <1>8 DEF TypeOK
  <2>2. taken' \in [Servers -> SUBSET Headers] /\ responded' \in [Servers -> SUBSET Headers]
    BY <1>1, <1>6 DEF TypeOK
  <2> QED
    BY <1>6, <1>9, <2>1, <2>2 DEF TypeOK, discovery, query
<1>11. ASSUME NEW z \in Servers
       PROVE  ServerInv(z)'
  BY <1>1, <1>6 DEF TypeOK, ServerInv, Asked, HeaderOf, SequenceNumber
<1>12. ASSUME NEW d \in Clients
       PROVE  ClientInv(d)'
  <2>1. \A z \in Servers : responded[z] \subseteq responded'[z]
    BY <1>6 DEF TypeOK
  <2>2. /\ answered' = answered
        /\ \A a \in answered[d] : a[1] \in Servers
        /\ replies[d] \in Seq(Responses)
        /\ \A i \in DOMAIN replies[d] : replies[d][i] \in Responses
    <3>1. replies[d] \in Seq(Responses) /\ answered[d] \subseteq Servers \X Nat
      BY DEF TypeOK
    <3> QED
      BY <1>6, <3>1
  <2>3. \A a \in answered'[d] : Calls!Call(d, a[2]) \in responded'[a[1]]
    BY <2>1, <2>2 DEF ClientInv
  <2>4. \A i \in DOMAIN replies[d] :
          /\ replies[d][i].id.guid = d /\ replies[d][i].by \in Servers
          /\ HeaderOf(replies[d][i].id) \in responded[replies[d][i].by]
          /\ HeaderOf(replies[d][i].id) \in responded'[replies[d][i].by]
          /\ <<replies[d][i].by, SequenceNumber(replies[d][i].id)>> \notin answered'[d]
    BY <2>1, <2>2 DEF ClientInv, Responses
  <2>5. CASE replies'[d] = replies[d]
    BY <2>3, <2>4, <2>5 DEF ClientInv, HeaderOf, SequenceNumber, Calls!Call
  <2>6. CASE d = c /\ replies'[d] = Enqueue(replies[c], x)
    <3> DEFINE q == replies[c]
               r == replies'[c]
    <3>1. Shifted(q, Enqueue(q, x), x)
      BY <1>7, EnqueueShifts
    <3>2. PICK k \in {0, 1} :
            /\ Len(r) = Len(q) + 1 - k
            /\ \A i \in 1..(Len(q) - k) : r[i] = q[i + k] /\ i + k \in 1..Len(q)
            /\ r[Len(q) + 1 - k] = x
      BY <2>6, <3>1 DEF Shifted
    <3>3. \A i \in DOMAIN r : i \in 1..(Len(q) - k) \/ i = Len(q) + 1 - k
      BY <1>7, <1>8, <2>6, <3>2
    <3>4. x.by = s /\ x.id = id
      OBVIOUS
    <3>5. <<s, n>> \notin answered'[c] /\ h \in responded'[s]
      <4>1. <<s, n>> \in answered[c] => Calls!Call(c, n) \in responded[s]
        BY DEF ClientInv
      <4> QED
        BY <1>1, <1>5, <1>6, <4>1 DEF TypeOK
    <3>6. \A i \in DOMAIN r :
            /\ r[i].id.guid = c
            /\ HeaderOf(r[i].id) \in responded'[r[i].by]
            /\ <<r[i].by, SequenceNumber(r[i].id)>> \notin answered'[c]
      <4> SUFFICES ASSUME NEW i \in DOMAIN r
                   PROVE  /\ r[i].id.guid = c
                          /\ HeaderOf(r[i].id) \in responded'[r[i].by]
                          /\ <<r[i].by, SequenceNumber(r[i].id)>> \notin answered'[c]
        OBVIOUS
      <4>1. CASE i = Len(q) + 1 - k
        <5>1. r[i].by = s /\ r[i].id = id
          BY <3>2, <3>4, <4>1
        <5> QED
          BY <1>3, <1>4, <1>5, <3>5, <5>1
      <4>2. CASE i \in 1..(Len(q) - k)
        <5>1. r[i] = q[i + k] /\ i + k \in DOMAIN q
          BY <1>7, <3>2, <4>2
        <5> QED
          BY <2>4, <2>6, <5>1
      <4> QED
        BY <3>3, <4>1, <4>2
    <3>7. \A i \in 1..(Len(q) - k) :
            ~(r[i].by = s /\ SequenceNumber(r[i].id) = n)
      <4> SUFFICES ASSUME NEW i \in 1..(Len(q) - k),
                          r[i].by = s, SequenceNumber(r[i].id) = n
                   PROVE  FALSE
        OBVIOUS
      <4>1. r[i] = q[i + k] /\ i + k \in DOMAIN q
        BY <1>7, <3>2
      <4>2. HeaderOf(q[i + k].id) = h
        BY <1>5, <2>4, <2>6, <4>1 DEF HeaderOf, Calls!Call
      <4> QED
        BY <1>1, <2>4, <2>6, <4>1, <4>2
    <3>8. ASSUME NEW i \in DOMAIN r, NEW j \in DOMAIN r, r[i].by = r[j].by,
                 SequenceNumber(r[i].id) = SequenceNumber(r[j].id)
          PROVE  i = j
      <4>1. i \in Int /\ j \in Int /\ k \in Int
        BY <1>7, <3>3
      <4>2. CASE i \in 1..(Len(q) - k) /\ j \in 1..(Len(q) - k)
        <5>1. i + k = j + k
          <6>1. /\ r[i] = q[i + k] /\ i + k \in DOMAIN q
                /\ r[j] = q[j + k] /\ j + k \in DOMAIN q
            BY <1>7, <3>2, <4>2
          <6> QED
            BY <3>8, <6>1 DEF ClientInv
        <5> QED
          BY <4>1, <5>1
      <4> QED
        BY <1>4, <3>2, <3>3, <3>4, <3>7, <3>8, <4>2
    <3> QED
      BY <2>3, <2>6, <3>6, <3>8 DEF ClientInv, HeaderOf, SequenceNumber, Calls!Call
  <2> QED
    BY <1>6, <2>5, <2>6 DEF TypeOK
<1> QED
  BY <1>10, <1>11, <1>12

\* A response that is not sent is answered for nobody.
LEMMA UnconvertedKeepsInv ==
  ASSUME RpcInv, NEW s \in Servers, NEW h \in taken[s], ResponseUnconverted(s, h)
  PROVE  RpcInv'
<1> USE DEF RpcInv
<1>1. h \in Headers /\ h \in served[s]
  BY DEF TypeOK, ServerInv
<1>2. RequestIdentity(h) \in Ids
  BY <1>1, HeaderRoundTrip
<1>3. Key(RequestIdentity(h)) \in Clients \X Nat
  BY <1>2, JoinedNat DEF Key, Ids
<1>4. TypeOK'
  <2>1. lost' \subseteq Clients \X Nat
    BY <1>3 DEF TypeOK, ResponseUnconverted
  <2>2. taken' \in [Servers -> SUBSET Headers] /\ responded' \in [Servers -> SUBSET Headers]
    BY <1>1 DEF TypeOK, ResponseUnconverted
  <2> QED
    BY <2>1, <2>2 DEF TypeOK, ResponseUnconverted, discovery, query
<1>5. ASSUME NEW z \in Servers
      PROVE  ServerInv(z)'
  BY <1>1 DEF TypeOK, ServerInv, ResponseUnconverted, Asked, HeaderOf, SequenceNumber
<1>6. ASSUME NEW d \in Clients
      PROVE  ClientInv(d)'
  <2>1. \A z \in Servers : responded[z] \subseteq responded'[z]
    BY DEF TypeOK, ResponseUnconverted
  <2>2. /\ answered' = answered /\ replies' = replies
        /\ \A a \in answered[d] : a[1] \in Servers
        /\ \A i \in DOMAIN replies[d] : replies[d][i].by \in Servers
    <3>1. replies[d] \in Seq(Responses) /\ answered[d] \subseteq Servers \X Nat
      BY DEF TypeOK
    <3>2. \A i \in DOMAIN replies[d] : replies[d][i] \in Responses
      BY <3>1
    <3> QED
      BY <3>1, <3>2 DEF Responses, ResponseUnconverted
  <2> QED
    BY <2>1, <2>2 DEF ClientInv, HeaderOf, SequenceNumber, Calls!Call
<1> QED
  BY <1>4, <1>5, <1>6

\* A response that is taken is gone from the reader, converted or not.
LEMMA GetResponseKeepsInv ==
  ASSUME RpcInv, NEW c \in Clients, GetResponse(c)
  PROVE  RpcInv'
<1> USE DEF RpcInv
<1>1. replies[c] \in Seq(Responses) /\ replies[c] # <<>>
  BY DEF TypeOK, GetResponse, TakeResponse, ReplyUnconverted
<1>2. PICK x \in Responses :
        x = Head(replies[c]) /\ x = replies[c][1] /\ 1 \in DOMAIN replies[c]
  BY <1>1, TailShifts
<1>3. PICK n \in Nat : n = SequenceNumber(x.id)
  BY JoinedNat DEF Responses
<1>4. PICK A \in SUBSET {<<x.by, n>>} :
        /\ replies' = [replies EXCEPT ![c] = Tail(@)]
        /\ answered' = [answered EXCEPT ![c] = @ \cup A]
        /\ lost' \subseteq lost \cup {Key(x.id)}
        /\ UNCHANGED <<discovery, query, sent, sure, inbox, taken, served, responded, gone>>
  <2>1. CASE TakeResponse(c)
    BY <1>2, <1>3, <2>1 DEF TakeResponse
  <2>2. CASE ReplyUnconverted(c)
    <3>1. answered' = [answered EXCEPT ![c] = @ \cup {}]
      BY <2>2 DEF TypeOK, ReplyUnconverted
    <3> QED
      BY <1>2, <2>2, <3>1 DEF ReplyUnconverted
  <2> QED
    BY <2>1, <2>2 DEF GetResponse
<1>5. TypeOK'
  <2>1. Tail(replies[c]) \in Seq(Responses)
    BY <1>1, TailShifts
  <2>2. <<x.by, n>> \in Servers \X Nat
    BY DEF Responses
  <2>3. Key(x.id) \in Clients \X Nat
    BY JoinedNat DEF Key, Ids, Responses
  <2> QED
    BY <1>4, <2>1, <2>2, <2>3 DEF TypeOK, discovery, query
<1>6. ASSUME NEW z \in Servers
      PROVE  ServerInv(z)'
  BY <1>4 DEF ServerInv, Asked, HeaderOf, SequenceNumber
<1>7. ASSUME NEW d \in Clients
      PROVE  ClientInv(d)'
  <2>1. CASE d # c
    <3>1. replies'[d] = replies[d] /\ answered'[d] = answered[d] /\ responded' = responded
      BY <1>4, <2>1 DEF TypeOK
    <3> QED
      BY <3>1 DEF ClientInv, HeaderOf, SequenceNumber, Calls!Call
  <2>2. CASE d = c
    <3> DEFINE q == replies[c]
               r == replies'[c]
    <3>1. r = Tail(q) /\ answered'[c] = answered[c] \cup A /\ responded' = responded
      BY <1>4 DEF TypeOK
    <3>2. \A i \in DOMAIN r : r[i] = q[i + 1] /\ i + 1 \in DOMAIN q /\ i \in Nat \ {0}
      BY <1>1, <3>1, TailShifts
    <3>3. Calls!Call(c, n) \in responded[x.by]
      BY <1>2, <1>3 DEF ClientInv, HeaderOf, Calls!Call
    <3>4. \A a \in answered'[c] : Calls!Call(c, a[2]) \in responded'[a[1]]
      BY <3>1, <3>3 DEF ClientInv
    <3>5. ASSUME NEW i \in DOMAIN r
          PROVE  /\ r[i].id.guid = c
                 /\ HeaderOf(r[i].id) \in responded'[r[i].by]
                 /\ <<r[i].by, SequenceNumber(r[i].id)>> \notin answered'[c]
      <4>1. i + 1 # 1
        BY <3>2
      <4>2. <<r[i].by, SequenceNumber(r[i].id)>> # <<x.by, n>>
        BY <1>2, <1>3, <3>2, <4>1 DEF ClientInv
      <4>3. /\ q[i + 1].id.guid = c
            /\ HeaderOf(q[i + 1].id) \in responded[q[i + 1].by]
            /\ <<q[i + 1].by, SequenceNumber(q[i + 1].id)>> \notin answered[c]
        BY <3>2 DEF ClientInv
      <4> QED
        BY <3>1, <3>2, <4>2, <4>3
    <3>6. ASSUME NEW i \in DOMAIN r, NEW j \in DOMAIN r, r[i].by = r[j].by,
                 SequenceNumber(r[i].id) = SequenceNumber(r[j].id)
          PROVE  i = j
      <4>1. i + 1 = j + 1
        BY <3>2, <3>6 DEF ClientInv
      <4> QED
        BY <3>2, <4>1
    <3> QED
      BY <2>2, <3>4, <3>5, <3>6 DEF ClientInv, HeaderOf, SequenceNumber, Calls!Call
  <2> QED
    BY <2>1, <2>2
<1> QED
  BY <1>5, <1>6, <1>7

\* No step of ServiceRpc breaks it.
LEMMA RpcStepKeepsInv ==
  ASSUME RpcInv, [Next]_vars
  PROVE  RpcInv'
<1>1. CASE Quiet
  BY <1>1, QuietKeepsTypes, DiscoveryKeepsInv DEF RpcInv
<1>2. ASSUME NEW s \in Servers,
             ServerStops(s) \/ GetRequest(s) \/ Respond(s)
      PROVE  RpcInv'
  BY <1>2, StopKeepsInv, GetRequestKeepsInv, SendResponseKeepsInv, UnconvertedKeepsInv
  DEF Respond
<1>3. ASSUME NEW c \in Clients, SendRequest(c) \/ GetResponse(c)
      PROVE  RpcInv'
  BY <1>3, SendRequestKeepsInv, GetResponseKeepsInv
<1>4. CASE UNCHANGED vars
  <2>1. TypeOK' /\ UNCHANGED messages
    BY <1>4 DEF RpcInv, TypeOK, vars, discovery, query, messages
  <2> QED
    BY <2>1, DiscoveryKeepsInv
<1> QED
  BY <1>1, <1>2, <1>3, <1>4 DEF Next, Discovery, Serve, Receive, Quiet

\* What servers and clients have is as ServerInv and ClientInv say, in every run.
THEOREM RpcInvariant == Spec => []RpcInv
  BY InitialRpcs, RpcStepKeepsInv, PTL DEF Spec

\* The state of requests and responses keeps its shape; the halves of sequence
\* numbers stay within their width (srv.em 219, 289).
THEOREM RpcTypeCorrect == Spec => []TypeOK
<1>1. RpcInv => TypeOK
  BY DEF RpcInv
<1> QED
  BY <1>1, RpcInvariant, PTL

\* A server takes only requests that were sent, a client only responses to its
\* own requests, whatever the width of the halves.
THEOREM OwnResponses == Spec => []ResponsesAreOwn
<1>1. RpcInv => ResponsesAreOwn
  <2> SUFFICES ASSUME RpcInv PROVE ResponsesAreOwn
    OBVIOUS
  <2> USE DEF RpcInv
  <2>1. \A s \in Servers : \A h \in taken[s] : Asked(h.writer_guid, h.sequence_number)
    BY DEF ServerInv
  <2>2. ASSUME NEW c \in Clients, NEW s \in Servers, NEW n \in Nat,
               Calls!Call(c, n) \in responded[s]
        PROVE  Asked(c, n)
    <3>1. Calls!Call(c, n) \in served[s]
      BY <2>2 DEF ServerInv
    <3> QED
      BY <3>1 DEF ServerInv, Calls!Call
  <2>3. ASSUME NEW c \in Clients, NEW a \in answered[c]
        PROVE  Asked(c, a[2])
    <3>1. a[1] \in Servers /\ a[2] \in Nat
      BY DEF TypeOK
    <3>2. Calls!Call(c, a[2]) \in responded[a[1]]
      BY DEF ClientInv
    <3> QED
      BY <2>2, <3>1, <3>2
  <2>4. ASSUME NEW c \in Clients, NEW i \in DOMAIN replies[c]
        PROVE  replies[c][i].id.guid = c /\ Asked(c, SequenceNumber(replies[c][i].id))
    <3>1. replies[c][i] \in Responses
      BY DEF TypeOK
    <3>2. replies[c][i].id \in Ids /\ replies[c][i].by \in Servers
      BY <3>1 DEF Responses
    <3>3. /\ replies[c][i].id.guid = c
          /\ HeaderOf(replies[c][i].id) \in responded[replies[c][i].by]
      BY DEF ClientInv
    <3>4. HeaderOf(replies[c][i].id) = Calls!Call(c, SequenceNumber(replies[c][i].id))
      BY <3>3 DEF HeaderOf, Calls!Call
    <3> QED
      BY <2>2, <3>2, <3>3, <3>4, JoinedNat
  <2> QED
    BY <2>1, <2>3, <2>4 DEF ResponsesAreOwn
<1> QED
  BY <1>1, RpcInvariant, PTL

---------------------------------------------------------------------------
(* The refinement.                                                         *)

\* Taking and answering are the steps of ServiceCall of the same kind; the halves
\* and the queues in between do not show.
LEMMA RpcStepsAreCalls ==
  ASSUME RpcInv, [Next]_vars
  PROVE  [Calls!Next]_(Calls!vars)
<1> USE DEF RpcInv
<1>1. CASE Quiet \/ UNCHANGED vars
  <2>1. UNCHANGED messages
    BY <1>1, QuietKeepsTypes DEF vars, messages
  <2> QED
    BY <2>1 DEF messages, Calls!vars
<1>2. ASSUME NEW s \in Servers, ServerStops(s)
      PROVE  Calls!Forget(s)
  BY <1>2 DEF ServerStops, Calls!Forget
<1>3. ASSUME NEW c \in Clients, SendRequest(c)
      PROVE  Calls!Ask(c)
  BY <1>3 DEF SendRequest, Calls!Ask
<1>4. ASSUME NEW s \in Servers, TakeRequest(s)
      PROVE  \E c \in Clients : \E n \in 1..sent[c] : Calls!Accept(s, c, n)
  <2>1. inbox[s] \in Seq(Ids) /\ inbox[s] # <<>>
    BY <1>4 DEF TypeOK, TakeRequest
  <2>2. PICK id \in Ids : id = Head(inbox[s]) /\ id = inbox[s][1] /\ 1 \in DOMAIN inbox[s]
    BY <2>1, TailShifts
  <2>3. /\ id.guid \in Clients
        /\ SequenceNumber(id) \in 1..sent[id.guid]
        /\ HeaderOf(id) \notin served[s]
    BY <2>2 DEF ServerInv, Asked, Ids
  <2>4. HeaderOf(id) = Calls!Call(id.guid, SequenceNumber(id))
    BY DEF HeaderOf, Calls!Call
  <2>5. Calls!Accept(s, id.guid, SequenceNumber(id))
    BY <1>4, <2>2, <2>3, <2>4 DEF TakeRequest, Calls!Accept
  <2> QED
    BY <2>3, <2>5
<1>5. ASSUME NEW s \in Servers, NEW h \in taken[s],
             SendResponse(s, h) \/ ResponseUnconverted(s, h)
      PROVE  Calls!Answer(s, h)
  BY <1>5 DEF ServerInv, SendResponse, ResponseUnconverted, Calls!Answer
<1>6. ASSUME NEW c \in Clients, TakeResponse(c)
      PROVE  \E s \in Servers : \E n \in 1..sent[c] : Calls!Receive(c, s, n)
  <2>1. replies[c] \in Seq(Responses) /\ replies[c] # <<>>
    BY <1>6 DEF TypeOK, TakeResponse
  <2>2. PICK x \in Responses :
          x = Head(replies[c]) /\ x = replies[c][1] /\ 1 \in DOMAIN replies[c]
    BY <2>1, TailShifts
  <2>3. PICK n \in Nat : n = SequenceNumber(x.id)
    BY JoinedNat DEF Responses
  <2>4. x.by \in Servers /\ <<x.by, n>> \notin answered[c] /\ Calls!Call(c, n) \in responded[x.by]
    BY <2>2, <2>3 DEF Responses, ClientInv, HeaderOf, Calls!Call
  <2>5. n \in 1..sent[c]
    <3>1. Calls!Call(c, n) \in served[x.by]
      BY <2>4 DEF ServerInv
    <3> QED
      BY <2>4, <3>1 DEF ServerInv, Asked, Calls!Call
  <2>6. Calls!Receive(c, x.by, n)
    BY <1>6, <2>2, <2>3, <2>4 DEF TakeResponse, Calls!Receive
  <2> QED
    BY <2>4, <2>5, <2>6
<1>7. [Next]_vars =>
        \/ Quiet \/ UNCHANGED vars
        \/ \E s \in Servers :
             ServerStops(s) \/ TakeRequest(s) \/ RequestUnconverted(s) \/ Respond(s)
        \/ \E c \in Clients : SendRequest(c) \/ TakeResponse(c) \/ ReplyUnconverted(c)
  BY DEF Next, Discovery, Serve, GetRequest, Receive, GetResponse, Quiet
<1>8. ASSUME NEW s \in Servers, RequestUnconverted(s)
      PROVE  UNCHANGED Calls!vars
  BY <1>8 DEF RequestUnconverted, Calls!vars
<1>9. ASSUME NEW c \in Clients, ReplyUnconverted(c)
      PROVE  UNCHANGED Calls!vars
  BY <1>9 DEF ReplyUnconverted, Calls!vars
<1> QED
  BY <1>1, <1>2, <1>3, <1>4, <1>5, <1>6, <1>7, <1>8, <1>9 DEF Respond, Calls!Next

\* Requests and responses implement ServiceCall: every server accepts a call at
\* most once and answers it at most once, and its answer is received once, by the
\* client that asked.
THEOREM RpcKeepsPromise == Spec => ImplementsServiceCall
<1>1. Init => Calls!Init
  BY DEF Init, Calls!Init
<1>2. RpcInv /\ [Next]_vars => [Calls!Next]_(Calls!vars)
  BY RpcStepsAreCalls
<1> QED
  BY <1>1, <1>2, RpcInvariant, PTL DEF Spec, ImplementsServiceCall, Calls!Spec

---------------------------------------------------------------------------
(* A server that is available, and the request that is sent to it.         *)

\* A request is somewhere on its way: at a server's reader, taken and not answered,
\* answered at the client's reader, received, or lost.
Held(c, n) ==
  \/ \E s \in Servers :
       \/ \E i \in DOMAIN inbox[s] : Key(inbox[s][i]) = <<c, n>>
       \/ Calls!Call(c, n) \in taken[s]
       \/ <<s, n>> \in answered[c]
  \/ \E i \in DOMAIN replies[c] : SequenceNumber(replies[c][i].id) = n
  \/ <<c, n>> \in lost

\* While no server has gone, no request is missing that was sent after is_available
\* had said TRUE.
SureIsHeld == stops = 0 => \A c \in Clients : \A n \in sure[c] : Held(c, n)

\* What the two counts of is_available have seen stays so while no server goes: the
\* reader and the writer that were counted are those of servers that run.
Links ==
  stops = 0 =>
    /\ \A c \in Clients, s \in Servers :
         <<c, s>> \in requestMatched \cup responseMatched => s \in running
    /\ \A c \in Clients, s \in Servers :
         /\ asking[c] => <<c, s>> \in requestMatched
         /\ available[c] \/ sure[c] # {} => <<c, s>> \in requestMatched \cap responseMatched

\* A sample that enters a reader is there; one that was there still is, or is the one
\* that was pushed out.
LEMMA EnqueueKeeps ==
  ASSUME NEW S, NEW q \in Seq(S), NEW x \in S
  PROVE  /\ \E j \in DOMAIN Enqueue(q, x) : Enqueue(q, x)[j] = x
         /\ \A i \in DOMAIN q :
              \/ q[i] \in PushedOut(q)
              \/ \E j \in DOMAIN Enqueue(q, x) : Enqueue(q, x)[j] = q[i]
<1>1. CASE Len(q) < Depth
  <2>1. /\ Enqueue(q, x) = Append(q, x)
        /\ DOMAIN Append(q, x) = 1..(Len(q) + 1)
        /\ \A i \in 1..Len(q) : Append(q, x)[i] = q[i] /\ i \in 1..(Len(q) + 1)
        /\ Append(q, x)[Len(q) + 1] = x /\ Len(q) + 1 \in 1..(Len(q) + 1)
    BY <1>1 DEF Enqueue
  <2> QED
    BY <2>1
<1>2. CASE ~(Len(q) < Depth)
  <2>1. q # <<>> /\ Len(q) \in Nat \ {0}
    BY <1>2, RpcAssumption
  <2>2. Head(q) = q[1] /\ PushedOut(q) = {q[1]}
    BY <1>2, <2>1 DEF PushedOut
  <2>3. /\ Tail(q) \in Seq(S) /\ Len(Tail(q)) = Len(q) - 1
        /\ \A i \in 1..(Len(q) - 1) : Tail(q)[i] = q[i + 1]
    BY <2>1
  <2>4. /\ Enqueue(q, x) = Append(Tail(q), x)
        /\ DOMAIN Append(Tail(q), x) = 1..Len(q)
        /\ \A i \in 1..(Len(q) - 1) : Append(Tail(q), x)[i] = q[i + 1]
        /\ Append(Tail(q), x)[Len(q)] = x /\ Len(q) \in 1..Len(q)
    BY <1>2, <2>1, <2>3 DEF Enqueue
  <2>5. ASSUME NEW i \in DOMAIN q, i # 1
        PROVE  \E j \in DOMAIN Enqueue(q, x) : Enqueue(q, x)[j] = q[i]
    <3>1. i - 1 \in 1..(Len(q) - 1) /\ i - 1 \in 1..Len(q) /\ (i - 1) + 1 = i
      BY <2>1, <2>5
    <3> QED
      BY <2>4, <3>1
  <2> QED
    BY <2>2, <2>4, <2>5
<1> QED
  BY <1>1, <1>2

\* Taking a sample leaves the others in the reader.
LEMMA OthersStay ==
  ASSUME NEW S, NEW q \in Seq(S), q # <<>>, NEW i \in DOMAIN q, i # 1
  PROVE  \E j \in DOMAIN Tail(q) : Tail(q)[j] = q[i]
<1>1. /\ Tail(q) \in Seq(S) /\ Len(Tail(q)) = Len(q) - 1 /\ Len(q) \in Nat
      /\ \A j \in 1..Len(Tail(q)) : Tail(q)[j] = q[j + 1]
  BY TailShifts
<1>2. i \in 1..Len(q)
  OBVIOUS
<1>3. PICK j \in 1..Len(Tail(q)) : j + 1 = i
  <2>1. i - 1 \in 1..Len(Tail(q)) /\ (i - 1) + 1 = i
    BY <1>1, <1>2
  <2> QED
    BY <2>1
<1>4. DOMAIN Tail(q) = 1..Len(Tail(q))
  BY <1>1
<1> QED
  BY <1>1, <1>3, <1>4

\* A request and its place in the queues have one name: a client and a number.
LEMMA Keys ==
  ASSUME NEW c \in Clients, NEW n \in Nat
  PROVE  /\ Key(Identity(c, n)) = <<c, n>>
         /\ \A id \in Ids : Key(id) = <<c, n>> <=> HeaderOf(id) = Calls!Call(c, n)
         /\ Calls!Call(c, n) \in Headers
         /\ Key(RequestIdentity(Calls!Call(c, n))) = <<c, n>>
<1>1. Calls!Call(c, n) \in Headers
  BY DEF Calls!Call, Headers
<1>2. Calls!Call(c, n).writer_guid = c /\ Calls!Call(c, n).sequence_number = n
  BY DEF Calls!Call
<1> QED
  BY <1>1, <1>2, SplitThenJoin, HeaderRoundTrip DEF Key, HeaderOf, Calls!Call

\* With one server, the counts of is_available stay true while it does not go.
LEMMA StepKeepsLinks ==
  ASSUME NEW s, Servers = {s}, RpcInv, Links, [Next]_vars
  PROVE  Links'
<1> SUFFICES ASSUME stops' = 0
             PROVE  /\ \A c \in Clients : <<c, s>> \in requestMatched' \cup responseMatched'
                                            => s \in running'
                    /\ \A c \in Clients :
                         /\ asking'[c] => <<c, s>> \in requestMatched'
                         /\ available'[c] \/ sure'[c] # {}
                              => <<c, s>> \in requestMatched' \cap responseMatched'
  BY DEF Links
<1>0. TypeOK
  BY DEF RpcInv
<1>1. stops \in Nat
  BY <1>0, RpcAssumption DEF TypeOK
<1>2. ~ServerStops(s)
  BY <1>1 DEF ServerStops
<1>3. stops = 0
  BY <1>1, <1>2 DEF Next, Discovery, ServerStarts, MatchRequests, MatchResponses, Unmatch,
     WriterGone, Ask, CountRequestReaders, CountResponseWriters, SendRequest, Serve, Receive,
     GetRequest, TakeRequest, RequestUnconverted, TakeNothing, Respond, SendResponse,
     ResponseUnconverted, GetResponse, TakeResponse, ReplyUnconverted, vars,
     discovery
<1>4. \A c \in Clients :
        /\ <<c, s>> \in requestMatched \cup responseMatched => s \in running
        /\ asking[c] => <<c, s>> \in requestMatched
        /\ available[c] \/ sure[c] # {} => <<c, s>> \in requestMatched \cap responseMatched
  BY <1>3 DEF Links
<1>5. CASE UNCHANGED <<discovery, query, sure>>
  BY <1>4, <1>5 DEF discovery, query
<1>6. ASSUME ServerStarts(s)
      PROVE  UNCHANGED <<requestMatched, responseMatched, query, sure>> /\ s \in running'
  BY <1>6 DEF ServerStarts, messages
<1>7. ASSUME NEW c \in Clients, MatchRequests(c, s) \/ MatchResponses(c, s)
      PROVE  /\ requestMatched \subseteq requestMatched'
             /\ responseMatched \subseteq responseMatched'
             /\ s \in running' /\ UNCHANGED <<query, sure>>
  BY <1>7 DEF MatchRequests, MatchResponses, messages
<1>8. ASSUME NEW c \in Clients
      PROVE  ~Unmatch(c, s)
  BY <1>4 DEF Unmatch
<1>9. ASSUME NEW c \in Clients, Ask(c)
      PROVE  \A d \in Clients :
               /\ asking'[d] => <<d, s>> \in requestMatched'
               /\ available'[d] \/ sure'[d] # {}
                    => <<d, s>> \in requestMatched' \cap responseMatched'
  <2>1. UNCHANGED <<requestMatched, responseMatched, sure>>
    BY <1>9 DEF Ask, CountRequestReaders, CountResponseWriters, discovery, messages
  <2>2. CASE CountRequestReaders(c)
    <3>1. /\ asking'[c] <=> \E t \in Servers : <<c, t>> \in requestMatched
          /\ ~available'[c]
          /\ \A d \in Clients \ {c} : asking'[d] = asking[d] /\ available'[d] = available[d]
      BY <1>0, <2>2 DEF CountRequestReaders, TypeOK
    <3>2. asking'[c] => <<c, s>> \in requestMatched
      BY <3>1
    <3>3. sure[c] # {} => <<c, s>> \in requestMatched \cap responseMatched
      BY <1>4
    <3> QED
      BY <1>4, <2>1, <3>1, <3>2, <3>3
  <2>3. CASE CountResponseWriters(c)
    <3>1. /\ asking[c] /\ ~asking'[c]
          /\ available'[c] <=> \E t \in Servers : <<c, t>> \in responseMatched
          /\ \A d \in Clients \ {c} : asking'[d] = asking[d] /\ available'[d] = available[d]
      BY <1>0, <2>3 DEF CountResponseWriters, TypeOK
    <3>2. available'[c] => <<c, s>> \in requestMatched \cap responseMatched
      BY <1>4, <3>1
    <3> QED
      BY <1>4, <2>1, <3>1, <3>2
  <2> QED
    BY <1>9, <2>2, <2>3 DEF Ask
<1>10. ASSUME NEW c \in Clients, Ask(c)
       PROVE  UNCHANGED discovery
  BY <1>10 DEF Ask, CountRequestReaders, CountResponseWriters
<1>11. ASSUME NEW c \in Clients, SendRequest(c)
       PROVE  /\ UNCHANGED <<discovery, query>>
              /\ \A d \in Clients : sure'[d] # {} => sure[d] # {} \/ available[d]
  BY <1>0, <1>11 DEF SendRequest, TypeOK
<1>12. ASSUME NEW c \in Clients, Receive(c)
       PROVE  UNCHANGED <<discovery, query, sure>>
  BY <1>12 DEF Receive, GetResponse, TakeResponse, ReplyUnconverted, TakeNothing, messages
<1>13. ASSUME Serve(s)
       PROVE  UNCHANGED <<discovery, query, sure>>
  BY <1>13 DEF Serve, GetRequest, TakeRequest, RequestUnconverted, TakeNothing, Respond,
     SendResponse, ResponseUnconverted, messages
<1>14. ASSUME NEW x \in Departures, WriterGone(x)
       PROVE  UNCHANGED <<discovery, query, sure>>
  BY <1>14 DEF WriterGone, messages
<1>15. CASE Discovery
  <2>1. \/ ServerStarts(s)
        \/ \E c \in Clients : MatchRequests(c, s) \/ MatchResponses(c, s)
        \/ \E x \in Departures : WriterGone(x)
    BY <1>2, <1>8, <1>15 DEF Discovery
  <2> QED
    BY <1>4, <1>5, <1>6, <1>7, <1>14, <2>1 DEF query
<1>16. ASSUME NEW c \in Clients, Ask(c) \/ SendRequest(c) \/ Receive(c)
       PROVE  /\ \A d \in Clients : <<d, s>> \in requestMatched' \cup responseMatched'
                                      => s \in running'
              /\ \A d \in Clients :
                   /\ asking'[d] => <<d, s>> \in requestMatched'
                   /\ available'[d] \/ sure'[d] # {}
                        => <<d, s>> \in requestMatched' \cap responseMatched'
  <2>1. CASE Ask(c)
    BY <1>4, <1>9, <1>10, <2>1 DEF discovery
  <2>2. CASE SendRequest(c)
    BY <1>4, <1>11, <2>2 DEF discovery, query
  <2>3. CASE Receive(c)
    BY <1>5, <1>12, <2>3
  <2> QED
    BY <1>16, <2>1, <2>2, <2>3
<1>17. CASE UNCHANGED vars
  BY <1>5, <1>17 DEF vars
<1> QED
  BY <1>5, <1>13, <1>15, <1>16, <1>17 DEF Next

\* A request that is held somewhere is held there still, or where the step has put it,
\* as long as no server goes.
LEMMA StepKeepsHeld ==
  ASSUME RpcInv, [Next]_vars, NEW c \in Clients, NEW n \in Nat, Held(c, n), stops' = stops,
         \A s \in Servers : Calls!Call(c, n) \in taken[s] => <<c, s>> \in responseMatched
  PROVE  Held(c, n)'
<1>0. TypeOK
  BY DEF RpcInv
<1>1. CASE UNCHANGED <<inbox, taken, replies, answered, lost>>
  BY <1>1 DEF Held, Key, SequenceNumber, Calls!Call
<1>2. CASE Quiet \/ UNCHANGED vars
  <2>1. UNCHANGED messages
    BY <1>0, <1>2, QuietKeepsTypes DEF vars, messages
  <2> QED
    BY <1>1, <2>1 DEF messages
<1>3. ASSUME NEW s \in Servers
      PROVE  ~ServerStops(s)
  <2>1. stops # stops + 1
    BY <1>0, RpcAssumption DEF TypeOK
  <2> QED
    BY <2>1 DEF ServerStops
<1>4. ASSUME NEW d \in Clients, SendRequest(d)
      PROVE  Held(c, n)'
  <2>1. UNCHANGED <<taken, replies, answered>> /\ lost \subseteq lost'
    BY <1>4 DEF SendRequest
  <2>2. sent'[d] = sent[d] + 1 /\ sent[d] + 1 \in Nat
    BY <1>0, <1>4 DEF SendRequest, TypeOK
  <2>3. PICK id \in Ids : id = Identity(d, sent'[d])
    BY <2>2, SplitThenJoin
  <2>4. ASSUME NEW s \in Servers, NEW i \in DOMAIN inbox[s], Key(inbox[s][i]) = <<c, n>>
        PROVE  Held(c, n)'
    <3>1. inbox[s] \in Seq(Ids)
      BY <1>0 DEF TypeOK
    <3>2. CASE inbox'[s] = inbox[s]
      BY <2>4, <3>2 DEF Held, Key, SequenceNumber
    <3>3. CASE inbox'[s] # inbox[s]
      <4>1. /\ s \in running /\ <<d, s>> \in requestMatched
            /\ inbox'[s] = Enqueue(inbox[s], id)
        BY <1>0, <1>4, <2>3, <3>3 DEF SendRequest, TypeOK
      <4>2. \A y \in PushedOut(inbox[s]) : Key(y) \in lost'
        BY <1>4, <4>1 DEF SendRequest
      <4>3. \/ inbox[s][i] \in PushedOut(inbox[s])
            \/ \E j \in DOMAIN inbox'[s] : inbox'[s][j] = inbox[s][i]
        BY <3>1, <4>1, EnqueueKeeps
      <4> QED
        BY <2>4, <4>2, <4>3 DEF Held, Key, SequenceNumber
    <3> QED
      BY <3>2, <3>3
  <2> QED
    BY <2>1, <2>4 DEF Held, SequenceNumber, Calls!Call
<1>5. ASSUME NEW s \in Servers, GetRequest(s)
      PROVE  Held(c, n)'
  <2>1. inbox[s] \in Seq(Ids) /\ inbox[s] # <<>>
    BY <1>0, <1>5 DEF GetRequest, TakeRequest, RequestUnconverted, TypeOK
  <2>2. /\ \A z \in Servers : taken[z] \subseteq taken'[z]
        /\ HeaderOf(Head(inbox[s])) \in taken'[s] \/ Key(Head(inbox[s])) \in lost'
        /\ \A z \in Servers \ {s} : inbox'[z] = inbox[z]
        /\ inbox'[s] = Tail(inbox[s])
        /\ UNCHANGED <<replies, answered>> /\ lost \subseteq lost'
    BY <1>0, <1>5 DEF GetRequest, TakeRequest, RequestUnconverted, TypeOK
  <2>3. ASSUME NEW z \in Servers, NEW i \in DOMAIN inbox[z], Key(inbox[z][i]) = <<c, n>>
        PROVE  Held(c, n)'
    <3>1. CASE z # s
      BY <2>2, <2>3, <3>1 DEF Held, Key, SequenceNumber
    <3>2. CASE z = s /\ i = 1
      <4>1. Head(inbox[s]) = inbox[s][1] /\ inbox[s][1] \in Ids
        BY <2>1
      <4>2. HeaderOf(Head(inbox[s])) = Calls!Call(c, n)
        BY <2>3, <3>2, <4>1, Keys
      <4>3. Key(Head(inbox[s])) = <<c, n>>
        BY <2>3, <3>2, <4>1
      <4> QED
        BY <2>2, <4>2, <4>3 DEF Held, Calls!Call
    <3>3. CASE z = s /\ i # 1
      <4>1. PICK j \in DOMAIN Tail(inbox[s]) : Tail(inbox[s])[j] = inbox[s][i]
        BY <2>1, <3>3, OthersStay
      <4>2. j \in DOMAIN inbox'[z] /\ inbox'[z][j] = inbox[z][i]
        BY <2>2, <3>3, <4>1
      <4> QED
        BY <2>3, <4>2 DEF Held, Key, SequenceNumber
    <3> QED
      BY <3>1, <3>2, <3>3
  <2> QED
    BY <2>2, <2>3 DEF Held, SequenceNumber, Calls!Call
<1>6. ASSUME NEW s \in Servers, NEW h \in taken[s], SendResponse(s, h)
      PROVE  Held(c, n)'
  <2>1. h \in Headers /\ RequestIdentity(h) \in Ids /\ RequestIdentity(h).guid \in Clients
    BY <1>0, HeaderRoundTrip DEF TypeOK, Headers
  <2>2. PICK d \in Clients : d = RequestIdentity(h).guid
    BY <2>1
  <2> DEFINE x == [id |-> RequestIdentity(h), by |-> s]
  <2>3. replies[d] \in Seq(Responses) /\ x \in Responses
    BY <1>0, <2>1 DEF TypeOK, Responses
  <2>4. /\ UNCHANGED <<inbox, answered>>
        /\ taken' = [taken EXCEPT ![s] = @ \ {h}]
        /\ \A z \in Clients \ {d} : replies'[z] = replies[z]
        /\ lost \subseteq lost'
    BY <1>0, <1>6, <2>2 DEF SendResponse, TypeOK
  <2>5. CASE <<d, s>> \in responseMatched
    <3>1. replies'[d] = Enqueue(replies[d], x)
      BY <1>0, <1>6, <2>2, <2>5 DEF SendResponse, TypeOK
    <3>2. \A y \in PushedOut(replies[d]) : Key(y.id) \in lost'
      BY <1>6, <2>2, <2>5 DEF SendResponse
    <3>3. ASSUME NEW i \in DOMAIN replies[c], SequenceNumber(replies[c][i].id) = n
          PROVE  Held(c, n)'
      <4>1. CASE c # d
        BY <2>4, <3>3, <4>1 DEF Held, SequenceNumber
      <4>2. CASE c = d
        <5>1. \/ replies[d][i] \in PushedOut(replies[d])
              \/ \E j \in DOMAIN replies'[d] : replies'[d][j] = replies[d][i]
          BY <2>3, <3>1, <4>2, EnqueueKeeps
        <5>2. replies[c][i].id.guid = c
          BY DEF RpcInv, ClientInv
        <5>3. Key(replies[c][i].id) = <<c, n>>
          BY <3>3, <5>2 DEF Key
        <5> QED
          BY <3>2, <3>3, <4>2, <5>1, <5>3 DEF Held, SequenceNumber
      <4> QED
        BY <4>1, <4>2
    <3>4. ASSUME h = Calls!Call(c, n)
          PROVE  Held(c, n)'
      <4>1. d = c /\ SequenceNumber(x.id) = n
        <5>1. h.writer_guid = c /\ h.sequence_number = n
          BY <3>4 DEF Calls!Call
        <5> QED
          BY <2>1, <2>2, <5>1, HeaderRoundTrip
      <4>2. PICK j \in DOMAIN replies'[d] : replies'[d][j] = x
        BY <2>3, <3>1, EnqueueKeeps
      <4> QED
        BY <4>1, <4>2 DEF Held, SequenceNumber
    <3>5. ASSUME NEW z \in Servers, Calls!Call(c, n) \in taken[z], h # Calls!Call(c, n)
          PROVE  Held(c, n)'
      <4>1. Calls!Call(c, n) \in taken'[z]
        BY <1>0, <2>4, <3>5 DEF TypeOK
      <4> QED
        BY <4>1 DEF Held, Calls!Call
    <3> QED
      BY <2>4, <3>3, <3>4, <3>5 DEF Held, Key, SequenceNumber
  <2>6. CASE <<d, s>> \notin responseMatched
    <3>1. UNCHANGED <<replies, lost>>
      BY <1>6, <2>2, <2>6 DEF SendResponse
    <3>2. h # Calls!Call(c, n)
      <4>1. h = Calls!Call(c, n) => d = c
        BY <2>1, <2>2, HeaderRoundTrip DEF Calls!Call
      <4> QED
        BY <2>6, <4>1
    <3>3. \A z \in Servers : Calls!Call(c, n) \in taken[z] => Calls!Call(c, n) \in taken'[z]
      BY <1>0, <2>4, <3>2 DEF TypeOK
    <3> QED
      BY <2>4, <3>1, <3>3 DEF Held, Key, SequenceNumber, Calls!Call
  <2> QED
    BY <2>5, <2>6
<1>7. ASSUME NEW s \in Servers, NEW h \in taken[s], ResponseUnconverted(s, h)
      PROVE  Held(c, n)'
  <2>1. /\ UNCHANGED <<inbox, replies, answered>>
        /\ taken' = [taken EXCEPT ![s] = @ \ {h}]
        /\ lost' = lost \cup {Key(RequestIdentity(h))}
    BY <1>7 DEF ResponseUnconverted
  <2>2. CASE h = Calls!Call(c, n)
    BY <2>1, <2>2, Keys DEF Held
  <2>3. CASE h # Calls!Call(c, n)
    <3>1. \A z \in Servers : Calls!Call(c, n) \in taken[z] => Calls!Call(c, n) \in taken'[z]
      BY <1>0, <2>1, <2>3 DEF TypeOK
    <3> QED
      BY <2>1, <3>1 DEF Held, Key, SequenceNumber, Calls!Call
  <2> QED
    BY <2>2, <2>3
<1>8. ASSUME NEW d \in Clients, GetResponse(d)
      PROVE  Held(c, n)'
  <2>1. replies[d] \in Seq(Responses) /\ replies[d] # <<>>
    BY <1>0, <1>8 DEF GetResponse, TakeResponse, ReplyUnconverted, TypeOK
  <2>2. /\ UNCHANGED <<inbox, taken>> /\ lost \subseteq lost'
        /\ \A z \in Clients \ {d} : replies'[z] = replies[z]
        /\ replies'[d] = Tail(replies[d])
        /\ \A z \in Clients : answered[z] \subseteq answered'[z]
        /\ \/ <<Head(replies[d]).by, SequenceNumber(Head(replies[d]).id)>> \in answered'[d]
           \/ Key(Head(replies[d]).id) \in lost'
    BY <1>0, <1>8 DEF GetResponse, TakeResponse, ReplyUnconverted, TypeOK
  <2>3. ASSUME NEW i \in DOMAIN replies[c], SequenceNumber(replies[c][i].id) = n
        PROVE  Held(c, n)'
    <3>1. CASE c # d
      BY <2>2, <2>3, <3>1 DEF Held, SequenceNumber
    <3>2. CASE c = d /\ i = 1
      <4>1. Head(replies[d]) = replies[d][1] /\ replies[d][1].by \in Servers
        <5>1. Head(replies[d]) = replies[d][1] /\ replies[d][1] \in Responses
          BY <2>1
        <5> QED
          BY <5>1 DEF Responses
      <4>2. replies[c][i].id.guid = c
        BY DEF RpcInv, ClientInv
      <4>3. Key(Head(replies[d]).id) = <<c, n>>
        BY <2>3, <3>2, <4>1, <4>2 DEF Key
      <4> QED
        BY <2>2, <2>3, <3>2, <4>1, <4>3 DEF Held
    <3>3. CASE c = d /\ i # 1
      <4>1. \E j \in DOMAIN Tail(replies[d]) : Tail(replies[d])[j] = replies[d][i]
        BY <2>1, <3>3, OthersStay
      <4> QED
        BY <2>2, <2>3, <3>3, <4>1 DEF Held, SequenceNumber
    <3> QED
      BY <3>1, <3>2, <3>3
  <2> QED
    BY <2>2, <2>3 DEF Held, Key, SequenceNumber, Calls!Call
<1> QED
  BY <1>2, <1>3, <1>4, <1>5, <1>6, <1>7, <1>8
  DEF Next, Discovery, Serve, Receive, Respond, Quiet

\* A request that is sent while is_available says TRUE comes to the server's reader.
LEMMA SureIsSent ==
  ASSUME RpcInv, NEW c \in Clients, SendRequest(c), NEW s \in running,
         <<c, s>> \in requestMatched, NEW n \in Nat, n = sent[c] + 1
  PROVE  Held(c, n)'
<1>0. TypeOK /\ s \in Servers
  BY DEF RpcInv, TypeOK
<1>1. sent'[c] = n
  BY <1>0 DEF SendRequest, TypeOK
<1>2. PICK id \in Ids : id = Identity(c, n) /\ Key(id) = <<c, n>>
  BY SplitThenJoin, Keys
<1>3. inbox[s] \in Seq(Ids) /\ inbox'[s] = Enqueue(inbox[s], id)
  BY <1>0, <1>1, <1>2 DEF SendRequest, TypeOK
<1>4. \E j \in DOMAIN inbox'[s] : inbox'[s][j] = id
  BY <1>3, EnqueueKeeps
<1> QED
  BY <1>0, <1>2, <1>4 DEF Held, Key, SequenceNumber

\* No step loses sight of such a request.
LEMMA StepKeepsSure ==
  ASSUME NEW s, Servers = {s}, RpcInv, Links, SureIsHeld, [Next]_vars
  PROVE  SureIsHeld'
<1> SUFFICES ASSUME stops' = 0, NEW c \in Clients, NEW n \in sure'[c]
             PROVE  Held(c, n)'
  BY DEF SureIsHeld
<1>0. TypeOK /\ stops \in Nat
  BY RpcAssumption DEF RpcInv, TypeOK
<1>1. stops = 0
  <2>1. ~ServerStops(s)
    BY <1>0 DEF ServerStops
  <2> QED
    BY <1>0, <2>1 DEF Next, Discovery, ServerStarts, MatchRequests, MatchResponses, Unmatch,
       WriterGone, Ask, CountRequestReaders, CountResponseWriters, SendRequest, Serve, Receive,
       GetRequest, TakeRequest, RequestUnconverted, TakeNothing, Respond, SendResponse,
     ResponseUnconverted, GetResponse, TakeResponse, ReplyUnconverted, vars,
       discovery
<1>2. ASSUME n \in sure[c]
      PROVE  Held(c, n)'
  <2>1. n \in Nat /\ Held(c, n)
    BY <1>0, <1>1, <1>2 DEF TypeOK, SureIsHeld
  <2>2. \A z \in Servers : <<c, z>> \in responseMatched
    BY <1>1, <1>2 DEF Links
  <2> QED
    BY <1>1, <2>1, <2>2, StepKeepsHeld
<1>3. ASSUME n \notin sure[c]
      PROVE  Held(c, n)'
  <2>1. sure' # sure
    BY <1>3
  <2>2. PICK d \in Clients : SendRequest(d)
    BY <2>1 DEF Next, Discovery, ServerStarts, ServerStops, MatchRequests, MatchResponses,
       Unmatch, WriterGone, Ask, CountRequestReaders, CountResponseWriters, Serve, Receive,
       GetRequest, TakeRequest, RequestUnconverted, TakeNothing, Respond, SendResponse,
     ResponseUnconverted, GetResponse, TakeResponse, ReplyUnconverted,
       vars, messages
  <2>3. d = c /\ available[c] /\ n \in Nat /\ n = sent[c] + 1
    BY <1>0, <1>3, <2>2 DEF SendRequest, TypeOK
  <2>4. s \in running /\ <<c, s>> \in requestMatched
    BY <1>1, <2>3 DEF Links
  <2> QED
    BY <2>2, <2>3, <2>4, SureIsSent
<1> QED
  BY <1>2, <1>3

\* With one server, a request that was sent after is_available had said TRUE is never
\* without a place: until a server goes, it is on its way to the server, or with it, or
\* its response is on the way or received, or a full reader or a conversion has lost
\* one of the two.  A match that is_available did not count would leave the request or
\* its response without a reader (rmw_service_server_is_available.cpp 163).
THEOREM AvailableIsHeld ==
  (\E s : Servers = {s}) => (Spec => []SureIsHeld)
<1> SUFFICES ASSUME NEW s, Servers = {s}
             PROVE  Spec => []SureIsHeld
  OBVIOUS
<1>1. Init => Links /\ SureIsHeld
  BY DEF Init, Links, SureIsHeld
<1>2. RpcInv /\ Links /\ SureIsHeld /\ [Next]_vars => Links' /\ SureIsHeld'
  BY StepKeepsLinks, StepKeepsSure
<1> QED
  BY <1>1, <1>2, RpcInvariant, PTL DEF Spec

===========================================================================
