---------------------------- MODULE MessageFlow ----------------------------
(***************************************************************************)
(* Publishing and taking: rmw_publish, rmw_publish_serialized_message,     *)
(* rmw_take, rmw_take_with_info, rmw_take_serialized_message(_with_info),  *)
(* with the message type supports of C++ and C (msg__type_support*.em),    *)
(* whose takes differ in what they report.                                 *)
(*                                                                         *)
(* One subscription is used by several threads.  A take borrows one sample *)
(* from the middleware's reader, which keeps the last ones, looks at it,   *)
(* converts it and returns the loan; other threads take and publish in     *)
(* between.  A serialized take writes to a buffer that its thread uses     *)
(* again and again, and that it may publish.                               *)
(***************************************************************************)
EXTENDS Integers, Sequences, FiniteSets

CONSTANTS
  Writers,       \* publishers of the topic
  LocalWriters,  \* those of the subscription's own participant
  Takers,        \* the threads that take from the subscription
  Messages,
  Default,       \* a message that was only constructed
  KindsOf,       \* [Takers -> SUBSET Kinds], the takes that each thread uses
  Size,          \* [Messages -> Nat], the size in CDR without its header
  FieldKinds,    \* the kinds of the fields of the type, in their order
  Depth,         \* of the reader's history; MaxPublished or more: KEEP_ALL
  MaxPublished,  \* bound: samples
  MaxGone,       \* bound: samples without data
  MaxFailures    \* bound: failures of the middleware, conversion or allocation

Kinds == {"take", "info", "serialized", "serialized_info"}

Serializing(k) == k \in {"serialized", "serialized_info"}
WithInfo(k) == k \in {"info", "serialized_info"}

\* What a serialized message may hold besides a message: a buffer without one,
\* and bytes that are not a message's CDR.  A message that cannot be serialized
\* leaves the buffer as it was.
Unused == "unused"
Foreign == "foreign"
Refused == "refused"

\* A thread that takes both to messages and to serialized messages is two takers.
ASSUME MessageAssumption ==
  /\ KindsOf \in [Takers -> SUBSET Kinds]
  /\ \A t \in Takers : \A j, k \in KindsOf[t] : Serializing(j) = Serializing(k)
  /\ FieldKinds \in Seq({"basic", "string", "wstring", "sequence", "nested"})
  /\ LocalWriters \subseteq Writers
  /\ Default \in Messages
  /\ {Unused, Foreign, Refused} \cap Messages = {}
  /\ Size \in [Messages -> Nat \ {0}]
  /\ Depth \in Nat \ {0}
  /\ MaxPublished \in Nat /\ MaxGone \in Nat /\ MaxFailures \in Nat

CdrHeader == 4

Fields == DOMAIN FieldKinds
Fresh == [f \in Fields |-> 0]

VARIABLES
  support,   \* the subscription's type support, "c" or "cpp"
  ignore,    \* its ignore_local_publications
  written,   \* history: the samples that came to the reader, with writer and message
  oldest,    \* the reader holds the samples from oldest to Len(written)
  empty,     \* ... and so many samples without data
  loan,      \* the sample a thread has borrowed, if any, 0 for one without data
  kind,      \* which of the takes a thread is in, or "none"
  result,    \* what a thread's last take reports
  object,    \* the message a thread converts to, its own or made for a serialized
             \* take: the number of the sample each field is from, or 0
  buffer,    \* the serialized message of each thread
  got,       \* history: the samples whose takes reported TRUE, of each thread
  lost,      \* history: samples that something happened to, and what
  gone, failures

subscription == <<support, ignore>>
bounds == <<gone, failures>>
vars == <<subscription, written, oldest, empty, loan, kind, result, object, buffer, got,
          lost, bounds>>

\* What may happen to a sample: the reader's history pushes it out, it cannot be
\* converted or serialized, or its loan cannot be returned.
Reasons == {"history", "conversion", "serialization", "loan"}

Nothing(k) == [ret |-> "ok", taken |-> FALSE, number |-> 0, kind |-> k, sender |-> "unset"]
Error(k) == [Nothing(k) EXCEPT !.ret = "error"]

Init ==
  /\ support \in {"c", "cpp"}
  /\ ignore \in BOOLEAN
  /\ written = <<>>
  /\ oldest = 1
  /\ empty = 0
  /\ loan = [t \in Takers |-> {}]
  /\ kind = [t \in Takers |-> "none"]
  /\ result = [t \in Takers |-> Nothing("none")]
  /\ object = [t \in Takers |-> Fresh]
  /\ buffer = [t \in Takers |-> [capacity |-> 0, length |-> 0, content |-> Unused]]
  /\ got = [t \in Takers |-> <<>>]
  /\ lost = {}
  /\ gone = 0
  /\ failures = 0

MayFail == failures < MaxFailures /\ failures' = failures + 1

---------------------------------------------------------------------------
(* Publishing.                                                             *)

takeVars == <<loan, kind, result, object, buffer, got>>

Full == Len(written) - oldest + 1 >= Depth

\* A reader that holds as many samples as its history is deep drops the oldest.
Write(w, m) ==
  /\ Len(written) < MaxPublished
  /\ written' = Append(written, [writer |-> w, message |-> m])
  /\ oldest' = IF Full THEN oldest + 1 ELSE oldest
  /\ lost' = IF Full THEN lost \cup {<<oldest, "history">>} ELSE lost
  /\ UNCHANGED <<subscription, empty, takeVars, gone>>

\* rmw_publish: a message that cannot be converted or written is an error, and
\* nothing has been published.
Publish(w, m) == Write(w, m) /\ UNCHANGED failures

\* deserialize: the message.  What does not begin as a CDR header leaves the
\* message that was only constructed, the others are unmarshalled as far as
\* possible and nobody asks how far; in C the message was only allocated.
Deserialized(content) == IF content \in Messages THEN {content} ELSE Messages

\* rmw_publish_serialized_message publishes what was constructed before
\* deserialize, whether deserialize succeeded or not.
PublishSerialized(w, content) ==
  /\ content # Unused
  /\ \/ /\ \E m \in Deserialized(content) : Write(w, m)
        /\ UNCHANGED failures
     \/ /\ MayFail                     \* ... or broke off at one of the fields
        /\ \E m \in Messages : Write(w, m)

\* A writer goes: its sample has no data.
WriterGone ==
  /\ gone < MaxGone
  /\ gone' = gone + 1
  /\ empty' = empty + 1
  /\ UNCHANGED <<subscription, written, oldest, takeVars, lost, failures>>

---------------------------------------------------------------------------
(* The serialized message.                                                 *)

Needed(m) == Size[m] + CdrHeader

\* Faulty variant: the header's four bytes are forgotten when the buffer grows.
GrowForData(capacity, m) == IF Size[m] > capacity THEN Size[m] ELSE capacity

Grown(capacity, m) == IF Needed(m) > capacity THEN Needed(m) ELSE capacity

\* serialize: the buffer is replaced by a larger one if it is too small; the
\* header is written when the whole message was.
Serialized(b, m) ==
  LET capacity == Grown(b.capacity, m)
      marshalled == IF Size[m] <= capacity - CdrHeader THEN Size[m] ELSE 0
      length == marshalled + CdrHeader
  IN  [capacity |-> capacity, length |-> length,
       content |-> IF length = Needed(m) THEN m ELSE Foreign]

\* rmw_serialize, by a thread that keeps a serialized message.  What its last take
\* reported is then no longer what the buffer is about.
Serialize(t, m) ==
  /\ kind[t] = "none"
  /\ \E k \in KindsOf[t] : Serializing(k)
  /\ buffer' = [buffer EXCEPT ![t] = Serialized(@, m)]
  /\ result' = [result EXCEPT ![t] = Nothing("none")]
  /\ UNCHANGED <<subscription, written, oldest, empty, loan, kind, object, got, lost, bounds>>

---------------------------------------------------------------------------
(* Converting.  A conversion goes through the fields in their order, and   *)
(* may break off at one of them.                                           *)

\* The fields whose conversion may fail: in C++ only wide strings are checked, and
\* the sequences and messages that hold them.
MayBreak(f) ==
  FieldKinds[f] \in IF support = "c" THEN {"string", "wstring", "sequence", "nested"}
                                    ELSE {"wstring", "sequence", "nested"}

\* ... and throw, which those of C++ do where memory runs out.
MayThrow(f) == support = "cpp" /\ FieldKinds[f] # "basic"

\* Faulty variant: the result of a nested message's conversion is not looked at
\* in C++, either.
BreakUntold(f) == FieldKinds[f] \in {"sequence", "nested"}

\* Whether the conversion reports TRUE nevertheless: that of C returns a string
\* where a sequence cannot be made, which is TRUE, and does not look at what the
\* conversion of a nested message returns.
BreakHidden(f) == support = "c" /\ FieldKinds[f] \in {"sequence", "nested"}

\* What the message is then: a sequence and a wide string have been emptied, or hold
\* what nobody wrote, the others are as they were; only after a nested message C
\* goes on.
Broken(fields, n, at) ==
  [f \in Fields |->
     CASE f < at -> n
       [] f = at -> IF FieldKinds[f] \in {"sequence", "wstring"}
                    THEN 0 ELSE fields[f]
       [] f > at -> IF support = "c" /\ FieldKinds[at] = "nested" THEN n ELSE fields[f]]

---------------------------------------------------------------------------
(* Taking.                                                                 *)

\* The take of thread t ends and reports r.  A serialized take that has been told
\* OK then serializes its message, whether one was taken or not, to one of M, and
\* does not look at what serialize returns.
End(t, r, M) ==
  /\ kind' = [kind EXCEPT ![t] = "none"]
  /\ loan' = [loan EXCEPT ![t] = {}]
  /\ result' = [result EXCEPT ![t] = r]
  /\ got' = IF r.ret = "ok" /\ r.taken THEN [got EXCEPT ![t] = Append(@, r.number)] ELSE got
  /\ IF r.ret = "ok" /\ Serializing(r.kind)
     THEN \E m \in M : buffer' = [buffer EXCEPT ![t] = IF m = Refused THEN @ ELSE Serialized(@, m)]
     ELSE UNCHANGED buffer

Whole(n) == [f \in Fields |-> n]

\* What a serialized take has to serialize: the message it took, or the one it made,
\* which in C is not initialised; serialize may refuse that one and one that broke.
Contents(r, fields) ==
  IF r.taken /\ fields = Whole(r.number) THEN {written[r.number].message}
  ELSE IF support = "cpp" THEN {Default}
  ELSE Messages \cup {Refused}

\* The reader lends sample n.  What the call will report is not set yet.
Lend(t, k, n) ==
  /\ kind[t] = "none"
  /\ kind' = [kind EXCEPT ![t] = k]
  /\ loan' = [loan EXCEPT ![t] = {n}]
  /\ result' = [result EXCEPT ![t] = [Nothing(k) EXCEPT !.ret = "pending"]]
  /\ object' = IF Serializing(k) THEN [object EXCEPT ![t] = Fresh] ELSE object
  /\ UNCHANGED <<subscription, written, buffer, got, lost, bounds>>

\* Faulty variant: the reader is read, and keeps its sample.
ReadSample(t, k) ==
  /\ oldest <= Len(written)
  /\ Lend(t, k, oldest)
  /\ UNCHANGED <<oldest, empty>>

TakeSample(t, k) ==
  /\ oldest <= Len(written)
  /\ Lend(t, k, oldest)
  /\ oldest' = oldest + 1
  /\ UNCHANGED empty

\* Samples without data are lent in no particular order among the others.
TakeSampleWithoutData(t, k) ==
  /\ empty > 0
  /\ Lend(t, k, 0)
  /\ empty' = empty - 1
  /\ UNCHANGED oldest

\* A take that got no loan ends.
EndWithout(t, r) ==
  /\ kind[t] = "none"
  /\ End(t, r, Contents(r, Fresh))
  /\ UNCHANGED <<subscription, written, oldest, empty, object, lost, gone>>

TakeNoData(t, k) ==
  /\ oldest > Len(written) /\ empty = 0
  /\ EndWithout(t, Nothing(k))
  /\ UNCHANGED failures

\* The reader's take fails: that of C++ returns false, the one of C what return_loan
\* says of the empty loan, so that all may be well.
TakeFails(t, k) ==
  /\ MayFail
  /\ EndWithout(t, Error(k)) \/ (support = "c" /\ EndWithout(t, Nothing(k)))

\* A serialized take that gets no message to convert to is an error.
AllocationFails(t, k) ==
  /\ Serializing(k)
  /\ MayFail
  /\ EndWithout(t, Error(k))

HasData(n) == n # 0
\* Faulty variant: the writer is compared although it is not asked for.
IgnoredAlways(n) == ~HasData(n) \/ written[n].writer \in LocalWriters

Ignored(n) == ~HasData(n) \/ (ignore /\ written[n].writer \in LocalWriters)

\* The sender's handle in the message info, which rmw_take_with_info does not
\* initialise: the type support of C stores it only when it has compared it with
\* the reader's.
SenderOf(n, k) ==
  IF WithInfo(k) /\ HasData(n) /\ (support = "cpp" \/ ignore)
  THEN written[n].writer ELSE "unset"

\* Faulty variant: taken is not set to false for a sample that is ignored.
SkipUnset(n, k) == [Nothing(k) EXCEPT !.taken = TRUE, !.sender = SenderOf(n, k)]

Skip(n, k) == [Nothing(k) EXCEPT !.sender = SenderOf(n, k)]

Taken(n, k) == [ret |-> "ok", taken |-> TRUE, number |-> n, kind |-> k,
                sender |-> SenderOf(n, k)]

\* What a take reports whose conversion broke off: an error in C++; in C the
\* result is that of return_loan, and taken is left as the caller had set it
\* unless the conversion hides it.
BrokenResult(n, k, at) ==
  IF BreakHidden(at) THEN Taken(n, k)
  ELSE IF support = "c" THEN Skip(n, k)
  ELSE [Skip(n, k) EXCEPT !.ret = "error"]

Pending(t) == result[t].ret = "pending"

\* A take that has looked at its sample, and perhaps converted it, will report r.
Looked(t, r, fields) ==
  /\ Pending(t)
  /\ result' = [result EXCEPT ![t] = r]
  /\ object' = [object EXCEPT ![t] = fields]
  /\ UNCHANGED <<subscription, written, oldest, empty, loan, kind, buffer, got, gone>>

\* A sample without data or of the own participant is skipped, another one
\* converted.
ConvertSample(t) ==
  /\ \E n \in loan[t] :
       IF Ignored(n) THEN Looked(t, Skip(n, kind[t]), object[t])
                     ELSE Looked(t, Taken(n, kind[t]), Whole(n))
  /\ UNCHANGED <<lost, failures>>

\* The conversion breaks off.
ConversionFails(t) ==
  \E n \in loan[t] : \E at \in Fields :
    /\ ~Ignored(n) /\ MayBreak(at)
    /\ MayFail
    /\ Looked(t, BrokenResult(n, kind[t], at), Broken(object[t], n, at))
    /\ lost' = lost \cup {<<n, "conversion">>}

\* ... or throws, past the return of the loan and out of the call.
ConversionThrows(t) ==
  \E n \in loan[t] : \E at \in Fields :
    /\ Pending(t) /\ ~Ignored(n) /\ MayThrow(at)
    /\ MayFail
    /\ End(t, [Skip(n, kind[t]) EXCEPT !.ret = "thrown"], {})
    /\ object' = [object EXCEPT ![t] = Broken(@, n, at)]
    /\ lost' = lost \cup ({n} \X {"conversion", "loan"})
    /\ UNCHANGED <<subscription, written, oldest, empty, gone>>

\* The loan of a sample that was looked at is given back, and what happens then
\* is lost for it.
GiveBack(t, r, M, reasons) ==
  /\ kind[t] # "none" /\ ~Pending(t)
  /\ End(t, r, M)
  /\ lost' = lost \cup (loan[t] \X reasons)
  /\ UNCHANGED <<subscription, written, oldest, empty, object, gone>>

ReturnLoan(t) ==
  /\ GiveBack(t, result[t], Contents(result[t], object[t]), {})
  /\ UNCHANGED failures

\* The loan is not taken back: nobody asks in C++, and in C the take fails although
\* its sample is gone from the reader and converted.
ReturnLoanFails(t) ==
  /\ MayFail
  /\ GiveBack(t, IF support = "c" THEN [result[t] EXCEPT !.ret = "error"] ELSE result[t],
              Contents(result[t], object[t]), {"loan"})

\* serialize cannot convert the message that was taken: nobody asks, unless it throws.
SerializeFails(t) ==
  /\ result[t].ret = "ok" /\ Serializing(kind[t])
  /\ MayFail
  /\ \/ GiveBack(t, result[t], {Refused}, {"serialization"})
     \/ /\ support = "cpp"
        /\ GiveBack(t, [result[t] EXCEPT !.ret = "thrown"], {}, {"serialization"})

Borrow(t) == \E k \in KindsOf[t] : TakeSample(t, k) \/ TakeSampleWithoutData(t, k)

Take(t) ==
  \/ Borrow(t)
  \/ \E k \in KindsOf[t] : TakeNoData(t, k) \/ TakeFails(t, k) \/ AllocationFails(t, k)
  \/ ConvertSample(t) \/ ConversionFails(t) \/ ConversionThrows(t)
  \/ ReturnLoan(t) \/ ReturnLoanFails(t) \/ SerializeFails(t)

Next ==
  \/ \E w \in Writers :
       \/ \E m \in Messages : Publish(w, m)
       \/ \E content \in {buffer[t].content : t \in Takers} \cup {Foreign} :
            PublishSerialized(w, content)
  \/ WriterGone
  \/ \E t \in Takers : Take(t) \/ \E m \in Messages : Serialize(t, m)

Spec == Init /\ [][Next]_vars

\* Threads take as long as there is something to take, as executors do, and a take
\* that has begun goes on.
FairSpec ==
  /\ Spec
  /\ \A t \in Takers :
       WF_vars(Borrow(t)) /\ WF_vars(ConvertSample(t)) /\ WF_vars(ReturnLoan(t))

---------------------------------------------------------------------------
(* Properties.                                                             *)

Samples == 1..Len(written)
Numbers == 0..Len(written)

Result ==
  [ret : {"ok", "error", "thrown", "pending"}, taken : BOOLEAN, number : Nat,
   kind : Kinds \cup {"none"}, sender : Writers \cup {"unset"}]

Buffer == [capacity : Nat, length : Nat, content : Messages \cup {Unused, Foreign}]

TypeOK ==
  /\ support \in {"c", "cpp"} /\ ignore \in BOOLEAN
  /\ written \in Seq([writer : Writers, message : Messages])
  /\ oldest \in 1..(Len(written) + 1)
  /\ empty \in Nat
  /\ loan \in [Takers -> SUBSET Numbers]
  /\ kind \in [Takers -> Kinds \cup {"none"}]
  /\ result \in [Takers -> Result]
  /\ object \in [Takers -> [Fields -> Numbers]]
  /\ buffer \in [Takers -> Buffer]
  /\ got \in [Takers -> Seq(Samples)]
  /\ lost \subseteq Numbers \X Reasons
  /\ gone \in 0..MaxGone /\ failures \in 0..MaxFailures

\* A thread that is not in a take has no loan: it has given it back on every way out,
\* or tried to.
LoansReturned == \A t \in Takers : kind[t] = "none" => loan[t] = {}

\* However many threads take from a subscription, each sample is in one place:
\* in the reader, on loan to one thread that is in a take, or reported by one
\* take, and each thread is handed its samples in the order they were written.
DeliveredOnce ==
  /\ LoansReturned
  /\ \A t, u \in Takers : t # u => loan[t] \cap loan[u] \cap Samples = {}
  /\ \A t, u \in Takers : \A i \in DOMAIN got[t], j \in DOMAIN got[u] :
       /\ got[t][i] = got[u][j] => t = u /\ i = j
       /\ t = u /\ i < j => got[t][i] < got[t][j]
  /\ \A t \in Takers : \A i \in DOMAIN got[t] :
       /\ got[t][i] < oldest
       /\ \A u \in Takers : got[t][i] \notin loan[u]

\* A thread uses its message again and again, and a conversion that breaks off
\* leaves fields of two samples in it.  No take of C++ reports such a message, and
\* one of C only where the conversion of that very sample broke off.
NoMixtureTaken ==
  \A t \in Takers :
    LET r == result[t] IN
    r.taken /\ (support = "cpp" \/ <<r.number, "conversion">> \notin lost) =>
      \A f \in Fields : object[t][f] = r.number

\* After a serialized take that reported a sample, the thread's buffer, whatever it held
\* before, holds the message of this very sample, whole and within its capacity; unless
\* the sample could not be converted or serialized, which the caller is not told.
BufferHoldsMessage ==
  \A t \in Takers :
    LET r == result[t]
        b == buffer[t]
    IN  /\ kind[t] = "none" /\ r.ret = "ok" /\ r.taken /\ Serializing(r.kind)
        /\ {<<r.number, "conversion">>, <<r.number, "serialization">>} \cap lost = {}
        => /\ b.content = written[r.number].message
           /\ b.length = Needed(b.content)
           /\ b.length <= b.capacity

\* msg__type_support_c.cpp.em:698: the sender's handle is stored for a take with
\* info (the pointer "is nullptr when being used with plain rmw_take"), so that a
\* message that was taken with its info has its publisher there.
SenderIsPublisher ==
  \A t \in Takers :
    LET r == result[t] IN
    r.ret = "ok" /\ r.taken /\ WithInfo(r.kind) => r.sender = written[r.number].writer

\* A sample that came to the reader and is not to be ignored is taken, though threads
\* compete for the reader and samples without data and ignored ones come before it; or
\* one of the things that lost tells of has happened to it.
EverySampleIsTaken ==
  \A n \in 1..MaxPublished :
    (n \in Samples /\ ~(ignore /\ written[n].writer \in LocalWriters)) ~>
      ((\E reason \in Reasons : <<n, reason>> \in lost)
       \/ \E t \in Takers : \E i \in DOMAIN got[t] : got[t][i] = n)

============================================================================
