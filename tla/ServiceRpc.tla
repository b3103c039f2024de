----------------------------- MODULE ServiceRpc -----------------------------
(***************************************************************************)
(* Services and clients at work: rmw_send_request, rmw_take_request,       *)
(* rmw_send_response, rmw_take_response with the service type support      *)
(* (srv__type_support.cpp.em), and rmw_service_server_is_available, by     *)
(* which a client learns that somebody will answer.                        *)
(*                                                                         *)
(* A client owns a request writer and a response reader, a service the     *)
(* other two.  Discovery matches the two pairs separately, each in its own *)
(* time; matched pairs deliver reliably.  A request carries its identity:  *)
(* the client's guid and a sequence number in two halves, which rmw joins  *)
(* in the request header and splits again for the response.                *)
(***************************************************************************)
EXTENDS Integers, Sequences, FiniteSets

CONSTANTS
  Clients, Servers,
  Half,          \* the range of a sequence number's low half (2^32)
  Depth,         \* history depth of the request and response readers
  MaxRequests,   \* bound: [Clients -> Nat], the requests of each client
  MaxStops,      \* bound: how often a server goes away
  Departures,    \* bound: the readers of which a writer may go
  Unreadable     \* bound: the clients whose requests and responses may fail to
                 \* convert

ASSUME RpcAssumption ==
  /\ Half \in Nat \ {0} /\ Depth \in Nat \ {0}
  /\ MaxRequests \in [Clients -> Nat] /\ MaxStops \in Nat
  /\ Departures \subseteq Clients \cup Servers /\ Unreadable \subseteq Clients

VARIABLES
  running,         \* the servers that exist
  requestMatched,  \* pairs of a request writer and a request reader
  responseMatched, \* pairs of a response reader and a response writer
  asking,          \* a client's is_available has counted request readers
  available,       \* its last answer
  sent,            \* the number of requests of each client
  sure,            \* history: those sent while a server was said to be available
  inbox,           \* requests at each server's reader
  taken,           \* request headers a server has still to answer
  served,          \* history: request headers a server has taken in all its lives
  responded,       \* history: request headers a server has answered
  replies,         \* responses at each client's reader, each with its writer
  answered,        \* <<s, n>>: the responses a client has taken
  lost,            \* history: <<c, n>> of which the request or the response was
                   \* pushed out of a full reader or failed to convert
  gone,            \* the readers that hold a sample without data
  stops            \* how often a server went away

discovery == <<running, requestMatched, responseMatched, stops>>
query == <<asking, available>>
vars == <<discovery, query, sent, sure, inbox, taken, served, responded, replies, answered,
          lost, gone>>

Init ==
  /\ running = {}
  /\ requestMatched = {} /\ responseMatched = {}
  /\ asking = [c \in Clients |-> FALSE]
  /\ available = [c \in Clients |-> FALSE]
  /\ sent = [c \in Clients |-> 0]
  /\ sure = [c \in Clients |-> {}]
  /\ inbox = [s \in Servers |-> <<>>]
  /\ taken = [s \in Servers |-> {}]
  /\ served = [s \in Servers |-> {}]
  /\ responded = [s \in Servers |-> {}]
  /\ replies = [c \in Clients |-> <<>>]
  /\ answered = [c \in Clients |-> {}]
  /\ lost = {}
  /\ gone = {}
  /\ stops = 0

---------------------------------------------------------------------------
(* Identities and headers.                                                 *)

Identity(c, n) == [guid |-> c, high |-> n \div Half, low |-> n % Half]

\* Faulty variant: the low half is sign-extended before it is joined.
JoinSigned(id) ==
  id.high * Half + (IF 2 * id.low >= Half THEN id.low - Half ELSE id.low)

\* take_request, take_response, send_request: (high << 32) | low.
SequenceNumber(id) == id.high * Half + id.low

HeaderOf(id) == [writer_guid |-> id.guid, sequence_number |-> SequenceNumber(id)]

\* Faulty variant: the low half is not masked.
IdentityUnmasked(h) ==
  [guid |-> h.writer_guid, high |-> h.sequence_number \div Half,
   low |-> h.sequence_number]

\* send_response takes the sequence number apart again.
RequestIdentity(h) ==
  [guid |-> h.writer_guid, high |-> h.sequence_number \div Half,
   low |-> h.sequence_number % Half]

\* KEEP_LAST: a full reader loses its oldest sample.
Enqueue(q, x) == IF Len(q) < Depth THEN Append(q, x) ELSE Append(Tail(q), x)

PushedOut(q) == IF Len(q) < Depth THEN {} ELSE {Head(q)}

Key(id) == <<id.guid, SequenceNumber(id)>>

---------------------------------------------------------------------------
(* Discovery.                                                              *)

messages == <<sent, sure, inbox, taken, served, responded, replies, answered, lost>>

\* A server is created (again), when nobody is matched with its last life.
ServerStarts(s) ==
  /\ s \notin running
  /\ \A c \in Clients : <<c, s>> \notin requestMatched \cup responseMatched
  /\ running' = running \cup {s}
  /\ UNCHANGED <<requestMatched, responseMatched, stops, query, messages, gone>>

MatchRequests(c, s) ==
  /\ s \in running
  /\ <<c, s>> \notin requestMatched
  /\ requestMatched' = requestMatched \cup {<<c, s>>}
  /\ UNCHANGED <<running, responseMatched, stops, query, messages, gone>>

MatchResponses(c, s) ==
  /\ s \in running
  /\ <<c, s>> \notin responseMatched
  /\ responseMatched' = responseMatched \cup {<<c, s>>}
  /\ UNCHANGED <<running, requestMatched, stops, query, messages, gone>>

\* A server goes, with the requests it has not answered; its clients find out
\* later.
ServerStops(s) ==
  /\ s \in running
  /\ stops < MaxStops
  /\ stops' = stops + 1
  /\ running' = running \ {s}
  /\ inbox' = [inbox EXCEPT ![s] = <<>>]
  /\ taken' = [taken EXCEPT ![s] = {}]
  /\ gone' = gone \ {s}
  /\ UNCHANGED <<requestMatched, responseMatched, query, sent, sure, served, responded,
                 replies, answered, lost>>

Unmatch(c, s) ==
  /\ s \notin running
  /\ \/ /\ <<c, s>> \in requestMatched
        /\ requestMatched' = requestMatched \ {<<c, s>>}
        /\ UNCHANGED responseMatched
     \/ /\ <<c, s>> \in responseMatched
        /\ responseMatched' = responseMatched \ {<<c, s>>}
        /\ UNCHANGED requestMatched
  /\ UNCHANGED <<running, stops, query, messages, gone>>

\* A reader is told that a writer has gone, by a sample without data.
WriterGone(x) ==
  /\ x \in (running \cup Clients) \ gone
  /\ gone' = gone \cup {x}
  /\ UNCHANGED <<discovery, query, messages>>

---------------------------------------------------------------------------
(* rmw_service_server_is_available: two counts, one after the other.  A      *)
(* client that has sent all its requests does not ask any more.             *)

\* Faulty variant: the request readers alone decide.
CountRequestsOnly(c) ==
  /\ ~asking[c]
  /\ sent[c] < MaxRequests[c]
  /\ available' = [available EXCEPT ![c] = \E s \in Servers : <<c, s>> \in requestMatched]
  /\ UNCHANGED <<asking, discovery, messages, gone>>

CountRequestReaders(c) ==
  /\ ~asking[c]
  /\ sent[c] < MaxRequests[c]
  /\ asking' = [asking EXCEPT ![c] = \E s \in Servers : <<c, s>> \in requestMatched]
  /\ available' = [available EXCEPT ![c] = FALSE]
  /\ UNCHANGED <<discovery, messages, gone>>

CountResponseWriters(c) ==
  /\ asking[c]
  /\ asking' = [asking EXCEPT ![c] = FALSE]
  /\ available' = [available EXCEPT ![c] = \E s \in Servers : <<c, s>> \in responseMatched]
  /\ UNCHANGED <<discovery, messages, gone>>

---------------------------------------------------------------------------
(* Requests and responses.                                                 *)

SendRequest(c) ==
  /\ sent[c] < MaxRequests[c]
  /\ sent' = [sent EXCEPT ![c] = @ + 1]
  /\ sure' = [sure EXCEPT ![c] = IF available[c] THEN @ \cup {sent'[c]} ELSE @]
  /\ LET reached == {s \in running : <<c, s>> \in requestMatched} IN
       /\ inbox' = [s \in Servers |->
            IF s \in reached THEN Enqueue(inbox[s], Identity(c, sent'[c])) ELSE inbox[s]]
       /\ lost' = lost \cup {Key(id) : id \in UNION {PushedOut(inbox[s]) : s \in reached}}
  /\ UNCHANGED <<discovery, query, taken, served, responded, replies, answered, gone>>

\* Faulty variant: the request is read and stays in the reader.
ReadRequest(s) ==
  /\ inbox[s] # <<>>
  /\ taken' = [taken EXCEPT ![s] = @ \cup {HeaderOf(Head(inbox[s]))}]
  /\ served' = [served EXCEPT ![s] = @ \cup {HeaderOf(Head(inbox[s]))}]
  /\ UNCHANGED <<discovery, query, sent, sure, inbox, responded, replies, answered, lost, gone>>

TakeRequest(s) ==
  /\ inbox[s] # <<>>
  /\ inbox' = [inbox EXCEPT ![s] = Tail(@)]
  /\ taken' = [taken EXCEPT ![s] = @ \cup {HeaderOf(Head(inbox[s]))}]
  /\ served' = [served EXCEPT ![s] = @ \cup {HeaderOf(Head(inbox[s]))}]
  /\ UNCHANGED <<discovery, query, sent, sure, responded, replies, answered, lost, gone>>

\* take_request has removed the sample from the reader when it finds that it
\* cannot be converted: it throws, and nobody has the request.
RequestUnconverted(s) ==
  /\ inbox[s] # <<>>
  /\ Head(inbox[s]).guid \in Unreadable
  /\ inbox' = [inbox EXCEPT ![s] = Tail(@)]
  /\ lost' = lost \cup {Key(Head(inbox[s]))}
  /\ UNCHANGED <<discovery, query, sent, sure, taken, served, responded, replies, answered, gone>>

\* rmw_take_request, when there is a request.
GetRequest(s) == TakeRequest(s) \/ RequestUnconverted(s)

\* take_request and take_response answer FALSE to a sample without data, and
\* have used it up.
TakeNothing(x) ==
  /\ x \in gone
  /\ gone' = gone \ {x}
  /\ UNCHANGED <<discovery, query, messages>>

\* The response goes to the requester it is related to, if it is matched.
SendResponse(s, h) ==
  LET id == RequestIdentity(h) IN
  /\ h \in taken[s]
  /\ taken' = [taken EXCEPT ![s] = @ \ {h}]
  /\ responded' = [responded EXCEPT ![s] = @ \cup {h}]
  /\ IF <<id.guid, s>> \in responseMatched
     THEN /\ replies' = [replies EXCEPT ![id.guid] = Enqueue(@, [id |-> id, by |-> s])]
          /\ lost' = lost \cup {Key(x.id) : x \in PushedOut(replies[id.guid])}
     ELSE UNCHANGED <<replies, lost>>
  /\ UNCHANGED <<discovery, query, sent, sure, inbox, served, answered, gone>>

\* The callback cannot convert the response; rmw_send_response does not look at what
\* it returns, and reports OK.
ResponseUnconverted(s, h) ==
  /\ h \in taken[s]
  /\ h.writer_guid \in Unreadable
  /\ taken' = [taken EXCEPT ![s] = @ \ {h}]
  /\ responded' = [responded EXCEPT ![s] = @ \cup {h}]
  /\ lost' = lost \cup {Key(RequestIdentity(h))}
  /\ UNCHANGED <<discovery, query, sent, sure, inbox, served, replies, answered, gone>>

\* rmw_send_response
Respond(s) == \E h \in taken[s] : SendResponse(s, h) \/ ResponseUnconverted(s, h)

TakeResponse(c) ==
  /\ replies[c] # <<>>
  /\ replies' = [replies EXCEPT ![c] = Tail(@)]
  /\ answered' = [answered EXCEPT ![c] =
       @ \cup {<<Head(replies[c]).by, SequenceNumber(Head(replies[c]).id)>>}]
  /\ UNCHANGED <<discovery, query, sent, sure, inbox, taken, served, responded, lost, gone>>

\* take_response throws likewise after it has removed the response.
ReplyUnconverted(c) ==
  /\ replies[c] # <<>>
  /\ c \in Unreadable
  /\ replies' = [replies EXCEPT ![c] = Tail(@)]
  /\ lost' = lost \cup {Key(Head(replies[c]).id)}
  /\ UNCHANGED <<discovery, query, sent, sure, inbox, taken, served, responded, answered, gone>>

\* rmw_take_response, when there is a response.
GetResponse(c) == TakeResponse(c) \/ ReplyUnconverted(c)

---------------------------------------------------------------------------
Discovery ==
  \/ \E s \in Servers : ServerStarts(s) \/ ServerStops(s)
  \/ \E c \in Clients, s \in Servers :
       MatchRequests(c, s) \/ MatchResponses(c, s) \/ Unmatch(c, s)
  \/ \E x \in Departures : WriterGone(x)

Ask(c) == CountRequestReaders(c) \/ CountResponseWriters(c)

Serve(s) ==
  \/ GetRequest(s)
  \/ TakeNothing(s)
  \/ Respond(s)

Receive(c) == GetResponse(c) \/ TakeNothing(c)

Next ==
  \/ Discovery
  \/ \E c \in Clients : Ask(c) \/ SendRequest(c) \/ Receive(c)
  \/ \E s \in Servers : Serve(s)

Spec == Init /\ [][Next]_vars

\* Servers and clients spin, and go on when a take has thrown.  A reader hands
\* out its samples in the order they came, so that none waits for ever behind
\* samples without data; a request that was taken is answered.
FairSpec ==
  /\ Spec
  /\ \A s \in Servers :
       WF_vars(GetRequest(s)) /\ WF_vars(Respond(s))
  /\ \A c \in Clients : WF_vars(GetResponse(c))

---------------------------------------------------------------------------
(* Properties.                                                             *)

Ids == [guid : Clients, high : Nat, low : 0..(Half - 1)]
Headers == [writer_guid : Clients, sequence_number : Nat]
Responses == [id : Ids, by : Servers]

TypeOK ==
  /\ running \subseteq Servers
  /\ requestMatched \subseteq Clients \X Servers
  /\ responseMatched \subseteq Clients \X Servers
  /\ asking \in [Clients -> BOOLEAN]
  /\ available \in [Clients -> BOOLEAN]
  /\ sent \in [Clients -> Nat]
  /\ sure \in [Clients -> SUBSET Nat]
  /\ \A c \in Clients : sent[c] <= MaxRequests[c] /\ sure[c] \subseteq 1..sent[c]
  /\ inbox \in [Servers -> Seq(Ids)]
  /\ taken \in [Servers -> SUBSET Headers]
  /\ served \in [Servers -> SUBSET Headers]
  /\ responded \in [Servers -> SUBSET Headers]
  /\ replies \in [Clients -> Seq(Responses)]
  /\ answered \in [Clients -> SUBSET (Servers \X Nat)]
  /\ lost \subseteq Clients \X Nat
  /\ gone \subseteq Departures
  /\ stops \in 0..MaxStops

Asked(c, n) == n \in 1..sent[c]

\* However a sequence number is joined and split on the way, and whatever the
\* readers lose, a server takes only requests that the client in the header has
\* sent, and a client takes responses to its own requests only (srv.em 219, 290).
ResponsesAreOwn ==
  /\ \A s \in Servers : \A h \in taken[s] : Asked(h.writer_guid, h.sequence_number)
  /\ \A c \in Clients : \A a \in answered[c] : Asked(c, a[2])
  /\ \A c \in Clients : \A i \in DOMAIN replies[c] :
       replies[c][i].id.guid = c /\ Asked(c, SequenceNumber(replies[c][i].id))

\* Requests and responses keep the promise of ServiceCall: each server takes a
\* request once, also when it is slow to answer it and when it was restarted, and
\* its answer reaches the client that asked, once.
Calls == INSTANCE ServiceCall WITH
  asked <- sent, serving <- taken, accepted <- served, answered <- responded,
  received <- answered

ImplementsServiceCall == Calls!Spec

\* With one server, a request that is sent after is_available has said TRUE is
\* answered, unless a later one pushed it or its response out of a full reader, one
\* of the two could not be converted, when it was sent or when it was taken
\* (srv.em 252, 331), or a server has gone: is_available answers for both directions.
AvailableThenAnswered ==
  \A c \in Clients : \A n \in 1..MaxRequests[c] :
    n \in sure[c] ~>
      ((\E s \in Servers : <<s, n>> \in answered[c]) \/ <<c, n>> \in lost \/ stops > 0)

===========================================================================
