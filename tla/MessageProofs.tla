----------------------------- MODULE MessageProofs -----------------------------
(***************************************************************************)
(* Proofs about MessageFlow for any number of threads, publishers,         *)
(* messages and fields, any depth and any bounds: types, buffers, mixtures *)
(* and senders from what holds of each thread, and then that no sample is  *)
(* taken twice or vanishes.                                                *)
(***************************************************************************)
EXTENDS MessageFlow, TLAPS

\* An element of a sequence.
LEMMA ElementOfSeq ==
  ASSUME NEW S, NEW s \in Seq(S), NEW n \in 1..Len(s)
  PROVE  s[n] \in S
  OBVIOUS

\* serialize leaves the whole message in the buffer, whatever was in it.
LEMMA SerializedIsWhole ==
  ASSUME NEW b \in Buffer, NEW m \in Messages
  PROVE  /\ Serialized(b, m) \in Buffer
         /\ Serialized(b, m).content = m
         /\ Serialized(b, m).length = Needed(m)
         /\ Serialized(b, m).length <= Serialized(b, m).capacity
<1>1. Size[m] \in Nat \ {0} /\ b.capacity \in Nat
  BY MessageAssumption DEF Buffer
<1>2. /\ Needed(m) \in Nat /\ Needed(m) = Size[m] + 4
      /\ Grown(b.capacity, m) \in Nat
      /\ Needed(m) <= Grown(b.capacity, m)
  BY <1>1 DEF Needed, Grown, CdrHeader
<1>3. Serialized(b, m) =
        [capacity |-> Grown(b.capacity, m), length |-> Needed(m), content |-> m]
  BY <1>1, <1>2 DEF Serialized, CdrHeader
<1> QED
  BY <1>2, <1>3 DEF Buffer

---------------------------------------------------------------------------
(* What a take may report.                                                 *)

\* A sample that a take reports is one that it was not to ignore, with its writer
\* where the type support looks it up.
Sound(r) ==
  r.taken => /\ r.number \in Samples /\ ~Ignored(r.number)
             /\ WithInfo(r.kind) /\ (support = "cpp" \/ ignore) =>
                  r.sender = written[r.number].writer

\* The results of a take without a sample.
LEMMA NothingIsSound ==
  ASSUME NEW k \in Kinds \cup {"none"}
  PROVE  /\ Nothing(k) \in Result /\ Error(k) \in Result
         /\ [Nothing(k) EXCEPT !.ret = "pending"] \in Result
         /\ ~Nothing(k).taken /\ ~Error(k).taken /\ ~[Nothing(k) EXCEPT !.ret = "pending"].taken
         /\ Nothing(k).ret = "ok" /\ Error(k).ret = "error"
         /\ [Nothing(k) EXCEPT !.ret = "pending"].ret = "pending"
         /\ Nothing(k).kind = k /\ Error(k).kind = k
         /\ [Nothing(k) EXCEPT !.ret = "pending"].kind = k
  BY DEF Nothing, Error, Result

\* A number on loan that has data is one of a sample.
LEMMA NumberOfSample ==
  ASSUME TypeOK, NEW n \in Numbers
  PROVE  /\ n = 0 \/ n \in Samples
         /\ n # 0 => written[n].writer \in Writers /\ written[n].message \in Messages
         /\ SenderOf(n, "none") = "unset"
         /\ \A k : SenderOf(n, k) \in Writers \cup {"unset"}
<1>1. written \in Seq([writer : Writers, message : Messages]) /\ Len(written) \in Nat
  BY DEF TypeOK
<1>2. n = 0 \/ n \in Samples
  BY <1>1 DEF Numbers, Samples
<1>3. n # 0 => written[n] \in [writer : Writers, message : Messages]
  BY <1>1, <1>2, ElementOfSeq DEF Samples
<1> QED
  BY <1>2, <1>3 DEF SenderOf, HasData, WithInfo

\* The results of skipping a sample, ...
LEMMA SkipIsSound ==
  ASSUME TypeOK, NEW n \in Numbers, NEW k \in Kinds
  PROVE  /\ Skip(n, k) \in Result /\ ~Skip(n, k).taken /\ Skip(n, k).ret = "ok"
         /\ Skip(n, k).kind = k
<1>1. SenderOf(n, k) \in Writers \cup {"unset"}
  BY NumberOfSample
<1>2. Nothing(k) \in Result /\ ~Nothing(k).taken /\ Nothing(k).ret = "ok" /\ Nothing(k).kind = k
  BY NothingIsSound
<1> QED
  BY <1>1, <1>2 DEF Skip, Nothing, Result

\* ... and of taking it.
LEMMA TakenIsSound ==
  ASSUME TypeOK, NEW n \in Numbers, ~Ignored(n), NEW k \in Kinds
  PROVE  /\ Taken(n, k) \in Result /\ Sound(Taken(n, k)) /\ n \in Samples
         /\ Taken(n, k).taken /\ Taken(n, k).ret = "ok" /\ Taken(n, k).kind = k
         /\ Taken(n, k).number = n
<1>1. n \in Samples /\ n \in Nat /\ n # 0
  BY NumberOfSample DEF Ignored, HasData, Samples, TypeOK
<1> QED
  BY <1>1, NumberOfSample DEF Taken, Result, Sound, SenderOf, HasData

\* ... and of a conversion that broke off.
LEMMA BrokenIsSound ==
  ASSUME TypeOK, NEW n \in Numbers, ~Ignored(n), NEW k \in Kinds, NEW at
  PROVE  LET r == BrokenResult(n, k, at)
         IN  /\ r \in Result /\ Sound(r) /\ r.kind = k /\ r.ret # "pending"
             /\ r.taken => BreakHidden(at) /\ r.number = n
             /\ n \in Samples
<1>1. CASE BreakHidden(at)
  BY <1>1, TakenIsSound DEF BrokenResult
<1>2. CASE ~BreakHidden(at)
  <2>1. n \in Samples
    BY TakenIsSound
  <2>2. \/ BrokenResult(n, k, at) = Skip(n, k)
        \/ BrokenResult(n, k, at) = [Skip(n, k) EXCEPT !.ret = "error"]
    BY <1>2 DEF BrokenResult
  <2> DEFINE r == BrokenResult(n, k, at)
             s == Skip(n, k)
             e == [Skip(n, k) EXCEPT !.ret = "error"]
  <2>0. /\ s \in Result /\ ~s.taken /\ s.kind = k /\ s.ret = "ok"
        /\ e \in Result /\ ~e.taken /\ e.kind = k /\ e.ret = "error"
    <3>1. s \in Result /\ ~s.taken /\ s.kind = k /\ s.ret = "ok"
      BY SkipIsSound
    <3> HIDE DEF s
    <3>2. e = [s EXCEPT !.ret = "error"]
      BY DEF s
    <3> QED
      BY <3>1, <3>2 DEF Result
  <2> HIDE DEF r, s, e
  <2>3. r \in Result /\ ~r.taken /\ r.kind = k /\ r.ret # "pending"
    <3>1. r = s \/ r = e
      BY <2>2 DEF r, s, e
    <3> QED
      BY <2>0, <3>1
  <2> QED
    BY <2>1, <2>3 DEF Sound, r
<1> QED
  BY <1>1, <1>2

---------------------------------------------------------------------------
(* The fields.                                                             *)

LEMMA FieldsAreNumbers == Fields \subseteq Nat
  BY MessageAssumption DEF Fields

LEMMA FreshType ==
  ASSUME TypeOK
  PROVE  Fresh \in [Fields -> Numbers]
  BY DEF Fresh, TypeOK, Numbers

\* What a conversion leaves in the fields are numbers of samples.
LEMMA BrokenType ==
  ASSUME NEW fields \in [Fields -> Numbers], NEW n \in Numbers, 0 \in Numbers, NEW at \in Fields
  PROVE  Broken(fields, n, at) \in [Fields -> Numbers]
<1>1. ASSUME NEW f \in Fields
      PROVE  Broken(fields, n, at)[f] \in Numbers
  <2>1. f < at \/ f = at \/ f > at
    BY FieldsAreNumbers
  <2> QED
    BY <2>1, FieldsAreNumbers DEF Broken
<1> QED
  BY <1>1 DEF Broken

---------------------------------------------------------------------------
(* What holds of each thread.                                              *)

\* A thread in a take has one loan, a thread that is in none has none.
LoanInv(t) ==
  /\ kind[t] = "none" => loan[t] = {} /\ ~Pending(t)
  /\ kind[t] # "none" => result[t].kind = kind[t] /\ \E n \in Numbers : loan[t] = {n}

\* A sample that is reported is the one on loan, and its message is whole where the
\* conversion did not hide that it broke off.
ReportInv(t) ==
  LET r == result[t] IN
  /\ Sound(r)
  /\ r.taken /\ kind[t] # "none" => loan[t] = {r.number}
  /\ r.taken /\ (support = "cpp" \/ <<r.number, "conversion">> \notin lost) =>
       object[t] = Whole(r.number)

\* A sample that was looked at and will not be reported was to be ignored, or broke.
SkipInv(t) ==
  LET r == result[t] IN
  kind[t] # "none" /\ ~Pending(t) /\ ~(r.ret = "ok" /\ r.taken) =>
    \A n \in loan[t] : Ignored(n) \/ <<n, "conversion">> \in lost

BufferInv(t) ==
  LET r == result[t]
      b == buffer[t]
  IN  /\ kind[t] = "none" /\ r.ret = "ok" /\ r.taken /\ Serializing(r.kind)
      /\ {<<r.number, "conversion">>, <<r.number, "serialization">>} \cap lost = {}
      => /\ b.content = written[r.number].message
         /\ b.length = Needed(b.content)
         /\ b.length <= b.capacity

ThreadInv(t) == LoanInv(t) /\ ReportInv(t) /\ SkipInv(t) /\ BufferInv(t)

MessageInv == TypeOK /\ \A t \in Takers : ThreadInv(t)

\* Samples are added, and nothing that happened to one is forgotten.
Longer ==
  /\ Len(written) <= Len(written') /\ \A n \in Samples : written'[n] = written[n]
  /\ UNCHANGED subscription
  /\ lost \subseteq lost'

LEMMA LongerKeeps ==
  ASSUME TypeOK, TypeOK', Longer
  PROVE  /\ Numbers \subseteq Numbers' /\ Samples \subseteq Samples'
         /\ \A n \in Numbers : Ignored(n)' <=> Ignored(n)
<1>1. Len(written) \in Nat /\ Len(written') \in Nat
  BY DEF TypeOK
<1>2. Numbers \subseteq Numbers' /\ Samples \subseteq Samples'
  BY <1>1 DEF Longer, Numbers, Samples
<1>3. \A n \in Numbers : n = 0 \/ n \in Samples
  BY NumberOfSample
<1> QED
  BY <1>2, <1>3 DEF Longer, Ignored, HasData, subscription

\* A thread that does nothing keeps what holds of it.
LEMMA OthersKeepInv ==
  ASSUME TypeOK, TypeOK', Longer, NEW u \in Takers, ThreadInv(u),
         loan'[u] = loan[u], kind'[u] = kind[u], result'[u] = result[u],
         object'[u] = object[u], buffer'[u] = buffer[u]
  PROVE  ThreadInv(u)'
<1>1. /\ Numbers \subseteq Numbers' /\ Samples \subseteq Samples'
      /\ \A n \in Numbers : Ignored(n)' <=> Ignored(n)
      /\ support' = support /\ ignore' = ignore /\ lost \subseteq lost'
      /\ \A n \in Samples : written'[n] = written[n]
  BY LongerKeeps DEF Longer, subscription
<1>2. \A n \in Samples : n \in Numbers
  BY DEF Samples, Numbers, TypeOK
<1>3. LoanInv(u)'
  BY <1>1 DEF ThreadInv, LoanInv, Pending
<1>4. ReportInv(u)'
  BY <1>1, <1>2 DEF ThreadInv, ReportInv, Sound, Whole
<1>5. SkipInv(u)'
  <2>1. loan[u] \subseteq Numbers
    BY DEF TypeOK
  <2> QED
    BY <1>1, <2>1 DEF ThreadInv, SkipInv, Pending
<1>6. BufferInv(u)'
  BY <1>1 DEF ThreadInv, BufferInv, ReportInv, Sound
<1> QED
  BY <1>3, <1>4, <1>5, <1>6 DEF ThreadInv

\* A step of one thread, and what holds of that one, is all there is to prove.
LEMMA OneThread ==
  ASSUME MessageInv, TypeOK', Longer, NEW t \in Takers,
         \A u \in Takers \ {t} : /\ loan'[u] = loan[u] /\ kind'[u] = kind[u]
                                 /\ result'[u] = result[u] /\ object'[u] = object[u]
                                 /\ buffer'[u] = buffer[u],
         ThreadInv(t)'
  PROVE  MessageInv'
<1>1. ASSUME NEW u \in Takers PROVE ThreadInv(u)'
  BY OthersKeepInv DEF MessageInv
<1> QED
  BY <1>1 DEF MessageInv

---------------------------------------------------------------------------
(* The parts that takes are made of.                                       *)

\* The end of a take keeps types, and serializes one of M.
LEMMA EndTypes ==
  ASSUME TypeOK, NEW t \in Takers, NEW r \in Result, Sound(r),
         NEW M, M \subseteq Messages \cup {Refused}, End(t, r, M)
  PROVE  /\ kind' \in [Takers -> Kinds \cup {"none"}] /\ kind'[t] = "none"
         /\ loan' \in [Takers -> SUBSET Numbers] /\ loan'[t] = {}
         /\ result' \in [Takers -> Result] /\ result'[t] = r
         /\ got' \in [Takers -> Seq(Samples)]
         /\ buffer' \in [Takers -> Buffer]
         /\ r.ret = "ok" /\ Serializing(r.kind) => \E m \in M : 
              buffer'[t] = IF m = Refused THEN buffer[t] ELSE Serialized(buffer[t], m)
         /\ \A u \in Takers \ {t} : /\ loan'[u] = loan[u] /\ kind'[u] = kind[u]
                                    /\ result'[u] = result[u] /\ buffer'[u] = buffer[u]
<1>1. /\ kind' \in [Takers -> Kinds \cup {"none"}] /\ kind'[t] = "none"
      /\ loan' \in [Takers -> SUBSET Numbers] /\ loan'[t] = {}
      /\ result' \in [Takers -> Result] /\ result'[t] = r
      /\ \A u \in Takers \ {t} : loan'[u] = loan[u] /\ kind'[u] = kind[u] /\ result'[u] = result[u]
  BY DEF TypeOK, End
<1>2. got' \in [Takers -> Seq(Samples)]
  BY DEF TypeOK, End, Sound
<1>3. CASE r.ret = "ok" /\ Serializing(r.kind)
  <2>1. PICK m \in M :
          buffer' = [buffer EXCEPT ![t] = IF m = Refused THEN @ ELSE Serialized(@, m)]
    BY <1>3 DEF End
  <2>2. buffer \in [Takers -> Buffer] /\ buffer[t] \in Buffer
    BY DEF TypeOK
  <2>3. (IF m = Refused THEN buffer[t] ELSE Serialized(buffer[t], m)) \in Buffer
    BY <2>2, SerializedIsWhole
  <2> QED
    BY <1>1, <1>2, <2>1, <2>2, <2>3
<1>4. CASE ~(r.ret = "ok" /\ Serializing(r.kind))
  <2>1. buffer' = buffer
    BY <1>4 DEF End
  <2> QED
    BY <1>1, <1>2, <1>4, <2>1 DEF TypeOK
<1> QED
  BY <1>3, <1>4

\* What a take leaves unchanged, and the types of what it may change.
Around ==
  /\ UNCHANGED <<subscription, written>>
  /\ oldest' \in 1..(Len(written) + 1) /\ empty' \in Nat
  /\ lost \subseteq lost' /\ lost' \subseteq Numbers \X Reasons
  /\ gone' \in 0..MaxGone /\ failures' \in 0..MaxFailures

\* The end of a take keeps what holds of its thread: if the message that it reports
\* is the object, and the one that it serializes.
LEMMA EndKeepsInv ==
  ASSUME MessageInv, Around, NEW t \in Takers, NEW r \in Result, Sound(r), r.ret # "pending",
         NEW M, M \subseteq Messages \cup {Refused}, End(t, r, M),
         object' \in [Takers -> [Fields -> Numbers]],
         \A u \in Takers \ {t} : object'[u] = object[u],
         r.taken /\ (support = "cpp" \/ <<r.number, "conversion">> \notin lost') =>
           object'[t] = Whole(r.number),
         /\ r.ret = "ok" /\ r.taken
         /\ {<<r.number, "conversion">>, <<r.number, "serialization">>} \cap lost' = {}
         => M = {written[r.number].message}
  PROVE  MessageInv'
<1>0. TypeOK /\ written' = written /\ support' = support /\ ignore' = ignore
  BY DEF MessageInv, Around, subscription
<1>1. TypeOK'
  BY <1>0, EndTypes DEF TypeOK, Around, Numbers, Samples
<1>2. Longer
  BY <1>0 DEF Longer, Around, TypeOK, subscription
<1>3. /\ kind'[t] = "none" /\ loan'[t] = {} /\ result'[t] = r
      /\ r.ret = "ok" /\ Serializing(r.kind) => \E m \in M :
           buffer'[t] = IF m = Refused THEN buffer[t] ELSE Serialized(buffer[t], m)
      /\ \A u \in Takers \ {t} : /\ loan'[u] = loan[u] /\ kind'[u] = kind[u]
                                 /\ result'[u] = result[u] /\ buffer'[u] = buffer[u]
  BY <1>0, EndTypes
<1>4. LoanInv(t)' /\ SkipInv(t)'
  BY <1>3 DEF LoanInv, SkipInv, Pending
<1>5. ReportInv(t)'
  BY <1>0, <1>3 DEF ReportInv, Sound, Samples, Ignored, HasData, Whole
<1>6. BufferInv(t)'
  <2> SUFFICES ASSUME r.ret = "ok", r.taken, Serializing(r.kind),
                      {<<r.number, "conversion">>, <<r.number, "serialization">>} \cap lost' = {}
               PROVE  /\ buffer'[t].content = written[r.number].message
                      /\ buffer'[t].length = Needed(buffer'[t].content)
                      /\ buffer'[t].length <= buffer'[t].capacity
    BY <1>0, <1>3 DEF BufferInv
  <2>1. PICK m \in {written[r.number].message} :
          buffer'[t] = IF m = Refused THEN buffer[t] ELSE Serialized(buffer[t], m)
    BY <1>3
  <2>2. m \in Messages /\ m # Refused
    <3>1. r.number \in Numbers /\ r.number # 0
      BY <1>0 DEF Sound, Samples, Numbers, TypeOK
    <3> QED
      BY <1>0, <2>1, <3>1, NumberOfSample, MessageAssumption
  <2>3. buffer[t] \in Buffer
    BY <1>0 DEF TypeOK
  <2>4. Serialized(buffer[t], m).content = m
    BY <2>2, <2>3, SerializedIsWhole
  <2> QED
    BY <2>1, <2>2, <2>3, <2>4, SerializedIsWhole
<1> QED
  BY <1>1, <1>2, <1>3, <1>4, <1>5, <1>6, OneThread DEF ThreadInv

\* A take that has looked at its sample has a report for it.
LEMMA LookedKeepsInv ==
  ASSUME MessageInv, NEW t \in Takers, NEW r \in Result, Sound(r), r.ret # "pending",
         r.kind = kind[t], NEW fields \in [Fields -> Numbers], Looked(t, r, fields),
         NEW n \in loan[t], r.taken => r.number = n,
         r.taken /\ (support = "cpp" \/ <<n, "conversion">> \notin lost') => fields = Whole(n),
         (r.ret = "ok" /\ r.taken) \/ Ignored(n) \/ <<n, "conversion">> \in lost',
         lost \subseteq lost', lost' \subseteq Numbers \X Reasons, failures' \in 0..MaxFailures
  PROVE  MessageInv'
<1>0. /\ TypeOK /\ UNCHANGED <<written, oldest, empty, loan, kind, buffer, got, gone>>
      /\ support' = support /\ ignore' = ignore
      /\ result' = [result EXCEPT ![t] = r] /\ object' = [object EXCEPT ![t] = fields]
  BY DEF MessageInv, Looked, subscription
<1>1. TypeOK'
  BY <1>0 DEF TypeOK, Numbers, Samples
<1>2. Longer
  BY <1>0 DEF Longer, TypeOK, subscription
<1>3. /\ result'[t] = r /\ object'[t] = fields
      /\ \A u \in Takers \ {t} : result'[u] = result[u] /\ object'[u] = object[u]
  BY <1>0 DEF TypeOK
<1>4. kind[t] # "none" /\ loan[t] = {n}
  BY DEF MessageInv, ThreadInv, LoanInv
<1>5. LoanInv(t)' /\ SkipInv(t)' /\ BufferInv(t)'
  <2>1. Numbers' = Numbers /\ (Ignored(n) => Ignored(n)')
    BY <1>0 DEF Numbers, Ignored, HasData
  <2>2. n \in Numbers
    BY <1>0 DEF TypeOK
  <2> QED
    BY <1>0, <1>3, <1>4, <2>1, <2>2 DEF LoanInv, SkipInv, BufferInv, Pending
<1>6. ReportInv(t)'
  BY <1>0, <1>3, <1>4 DEF ReportInv, Sound, Samples, Ignored, HasData, Whole
<1> QED
  BY <1>0, <1>1, <1>2, <1>3, <1>5, <1>6, OneThread DEF ThreadInv

\* A take that has got its loan has nothing to report yet.
LEMMA LendKeepsInv ==
  ASSUME MessageInv, NEW t \in Takers, NEW k \in Kinds, NEW n \in Numbers, Lend(t, k, n),
         oldest' \in 1..(Len(written) + 1), empty' \in Nat
  PROVE  MessageInv'
<1> DEFINE r == [Nothing(k) EXCEPT !.ret = "pending"]
<1>0. r \in Result /\ ~r.taken /\ r.ret = "pending" /\ r.kind = k
  BY NothingIsSound
<1>1. /\ TypeOK /\ UNCHANGED <<written, buffer, got, lost, gone, failures>>
      /\ support' = support /\ ignore' = ignore
      /\ result' = [result EXCEPT ![t] = r] /\ loan' = [loan EXCEPT ![t] = {n}]
      /\ kind' = [kind EXCEPT ![t] = k]
      /\ object' = [object EXCEPT ![t] = Fresh] \/ object' = object
  BY DEF MessageInv, Lend, subscription, bounds
<1> HIDE DEF r
<1>2. TypeOK'
  BY <1>0, <1>1, FreshType DEF TypeOK, Numbers, Samples
<1>3. Longer
  BY <1>1 DEF Longer, TypeOK, subscription
<1>4. /\ result'[t] = r /\ loan'[t] = {n} /\ kind'[t] = k
      /\ \A u \in Takers \ {t} : /\ result'[u] = result[u] /\ object'[u] = object[u]
                                 /\ loan'[u] = loan[u] /\ kind'[u] = kind[u]
  BY <1>1 DEF TypeOK
<1>5. ThreadInv(t)'
  BY <1>0, <1>1, <1>4 DEF ThreadInv, LoanInv, ReportInv, SkipInv, BufferInv, Pending, Sound,
                          Numbers, Kinds
<1> QED
  BY <1>1, <1>2, <1>3, <1>4, <1>5, OneThread

---------------------------------------------------------------------------
(* The steps.                                                              *)

LEMMA FailureCounted ==
  ASSUME TypeOK, MayFail
  PROVE  failures' \in 0..MaxFailures
  BY MessageAssumption DEF TypeOK, MayFail

\* A sample that is written has the next number; the one that it pushes out is the
\* oldest, which is one of a sample.
LEMMA WriteFacts ==
  ASSUME TypeOK, NEW w, NEW m, Write(w, m)
  PROVE  /\ Len(written) \in Nat /\ Len(written') = Len(written) + 1
         /\ \A n \in Samples : written'[n] = written[n]
         /\ oldest' \in 1..(Len(written') + 1)
         /\ lost \subseteq lost' /\ lost' \subseteq Numbers' \X Reasons
<1>1. /\ Len(written) \in Nat /\ Len(written') = Len(written) + 1
      /\ \A n \in Samples : written'[n] = written[n]
  BY DEF TypeOK, Write, Samples
<1>2. Full => oldest <= Len(written)
  BY <1>1, MessageAssumption DEF Full, TypeOK
<1>3. oldest \in Nat /\ (Full => oldest \in Numbers')
  BY <1>1, <1>2 DEF Numbers, TypeOK
<1>4. oldest' \in 1..(Len(written') + 1)
  BY <1>1, <1>2 DEF Write, TypeOK
<1>5. lost \subseteq Numbers' \X Reasons
  BY <1>1 DEF TypeOK, Numbers
<1>6. lost \subseteq lost' /\ lost' \subseteq Numbers' \X Reasons
  <2>1. CASE Full
    <3>1. lost' = lost \cup {<<oldest, "history">>} /\ oldest \in Numbers'
      BY <1>3, <2>1 DEF Write
    <3>2. <<oldest, "history">> \in Numbers' \X Reasons
      BY <3>1 DEF Reasons
    <3> QED
      BY <1>5, <3>1, <3>2
  <2>2. CASE ~Full
    BY <1>5, <2>2 DEF Write
  <2> QED
    BY <2>1, <2>2
<1> QED
  BY <1>1, <1>4, <1>6

LEMMA WriteKeepsInv ==
  ASSUME MessageInv, NEW w \in Writers, NEW m \in Messages, Write(w, m),
         failures' \in 0..MaxFailures
  PROVE  MessageInv'
<1>0. TypeOK
  BY DEF MessageInv
<1>1. /\ Len(written) \in Nat /\ Len(written') = Len(written) + 1
      /\ Numbers \subseteq Numbers' /\ Samples \subseteq Samples'
  BY <1>0, WriteFacts DEF Numbers, Samples
<1>2. TypeOK'
  <2>1. written' \in Seq([writer : Writers, message : Messages])
    BY <1>0 DEF Write, TypeOK
  <2>2. got' \in [Takers -> Seq(Samples')]
    <3>1. \A t \in Takers : got[t] \in Seq(Samples')
      BY <1>0, <1>1 DEF TypeOK
    <3> QED
      BY <1>0, <3>1 DEF TypeOK, Write, takeVars
  <2>3. loan' \in [Takers -> SUBSET Numbers'] /\ object' \in [Takers -> [Fields -> Numbers']]
    BY <1>0, <1>1 DEF TypeOK, Write, takeVars
  <2>4. oldest' \in 1..(Len(written') + 1) /\ lost' \subseteq Numbers' \X Reasons
    BY <1>0, WriteFacts
  <2>5. UNCHANGED <<support, ignore, empty, kind, result, buffer, gone>>
    BY DEF Write, takeVars, subscription
  <2> QED
    BY <1>0, <2>1, <2>2, <2>3, <2>4, <2>5 DEF TypeOK
<1>3. Longer
  <2>1. Len(written) <= Len(written') /\ UNCHANGED subscription
    BY <1>1 DEF Write
  <2>2. lost \subseteq lost' /\ \A n \in Samples : written'[n] = written[n]
    BY <1>0, WriteFacts
  <2> QED
    BY <2>1, <2>2 DEF Longer
<1>4. \A u \in Takers : ThreadInv(u)'
  BY <1>0, <1>2, <1>3, OthersKeepInv DEF MessageInv, Write, takeVars
<1> QED
  BY <1>2, <1>4 DEF MessageInv

\* What changes neither a sample nor a thread keeps everything.
LEMMA SameKeepsInv ==
  ASSUME MessageInv, UNCHANGED <<subscription, written, oldest, takeVars, lost>>,
         empty' \in Nat, gone' \in 0..MaxGone, failures' \in 0..MaxFailures
  PROVE  MessageInv'
<1>1. TypeOK /\ TypeOK'
  BY DEF MessageInv, TypeOK, subscription, takeVars, Numbers, Samples
<1>2. Longer
  BY <1>1 DEF Longer, TypeOK
<1> QED
  BY <1>1, <1>2, OthersKeepInv DEF MessageInv, takeVars

\* rmw_serialize: what the last take reported is not in the buffer any more.
LEMMA SerializeKeepsInv ==
  ASSUME MessageInv, NEW t \in Takers, NEW m \in Messages, Serialize(t, m)
  PROVE  MessageInv'
<1>0. Nothing("none") \in Result /\ ~Nothing("none").taken /\ Nothing("none").ret = "ok"
  BY NothingIsSound
<1>1. /\ TypeOK /\ buffer[t] \in Buffer
      /\ buffer' = [buffer EXCEPT ![t] = Serialized(buffer[t], m)]
      /\ result' = [result EXCEPT ![t] = Nothing("none")]
      /\ UNCHANGED <<subscription, written, oldest, empty, loan, kind, object, got, lost, bounds>>
  BY DEF MessageInv, TypeOK, Serialize
<1>2. buffer' \in [Takers -> Buffer] /\ result' \in [Takers -> Result]
  BY <1>0, <1>1, SerializedIsWhole DEF TypeOK
<1>3. TypeOK'
  BY <1>1, <1>2 DEF TypeOK, subscription, bounds, Numbers, Samples
<1>4. Longer
  BY <1>1 DEF Longer, TypeOK
<1>5. \A u \in Takers \ {t} : result'[u] = result[u] /\ buffer'[u] = buffer[u]
  BY <1>1 DEF TypeOK
<1>6. ThreadInv(t)'
  <2>1. result'[t] = Nothing("none") /\ kind[t] = "none" /\ loan[t] = {}
    BY <1>1 DEF TypeOK, Serialize, MessageInv, ThreadInv, LoanInv
  <2> QED
    BY <1>0, <1>1, <2>1
    DEF ThreadInv, LoanInv, ReportInv, SkipInv, BufferInv, Pending, Sound
<1> QED
  BY <1>1, <1>3, <1>4, <1>5, <1>6, OneThread

\* A take without a sample.
LEMMA EndWithoutKeepsInv ==
  ASSUME MessageInv, NEW t \in Takers, NEW r \in Result, ~r.taken, r.ret # "pending",
         EndWithout(t, r), failures' \in 0..MaxFailures
  PROVE  MessageInv'
<1>0. TypeOK
  BY DEF MessageInv
<1>1. Around
  BY <1>0 DEF Around, EndWithout, TypeOK
<1>2. Contents(r, Fresh) \subseteq Messages \cup {Refused}
  BY MessageAssumption DEF Contents
<1>3. Sound(r)
  BY DEF Sound
<1>4. object' \in [Takers -> [Fields -> Numbers]] /\ object' = object
  BY <1>0 DEF EndWithout, TypeOK
<1> QED
  BY <1>1, <1>2, <1>3, <1>4, EndKeepsInv DEF EndWithout

\* A sample that was looked at is given back.
LEMMA GiveBackKeepsInv ==
  ASSUME MessageInv, NEW t \in Takers, NEW r \in Result, NEW M, NEW reasons,
         reasons \subseteq Reasons, GiveBack(t, r, M, reasons), failures' \in 0..MaxFailures,
         r.ret # "pending", r.taken = result[t].taken, r.number = result[t].number,
         r.kind = result[t].kind, r.sender = result[t].sender,
         \/ M = Contents(r, object[t])
         \/ M \subseteq {Refused} /\ (r.taken => r.ret # "ok" \/ "serialization" \in reasons)
  PROVE  MessageInv'
<1>0. /\ TypeOK /\ kind[t] # "none" /\ loan[t] \subseteq Numbers
      /\ ReportInv(t) /\ LoanInv(t)
  BY DEF MessageInv, TypeOK, ThreadInv, GiveBack
<1>1. Around
  BY <1>0 DEF Around, GiveBack, TypeOK
<1>2. Sound(r)
  BY <1>0 DEF ReportInv, Sound
<1>3. M \subseteq Messages \cup {Refused}
  <2>1. r.taken => written[r.number].message \in Messages
    <3>1. r.taken => r.number \in Numbers /\ r.number # 0
      BY <1>0, <1>2 DEF Sound, Samples, Numbers, TypeOK
    <3> QED
      BY <1>0, <3>1, NumberOfSample
  <2> QED
    BY <2>1, MessageAssumption DEF Contents
<1>4. lost \subseteq lost' /\ object' = object /\ object \in [Takers -> [Fields -> Numbers]]
  BY <1>0 DEF GiveBack, TypeOK
<1>5. r.taken /\ (support = "cpp" \/ <<r.number, "conversion">> \notin lost') =>
        object'[t] = Whole(r.number)
  BY <1>0, <1>4 DEF ReportInv
<1>6. r.taken => loan[t] = {r.number}
  BY <1>0 DEF ReportInv
<1>7. ASSUME r.ret = "ok", r.taken,
             {<<r.number, "conversion">>, <<r.number, "serialization">>} \cap lost' = {}
      PROVE  M = {written[r.number].message}
  <2>1. object[t] = Whole(r.number)
    BY <1>4, <1>5, <1>7
  <2>2. "serialization" \notin reasons
    <3>1. <<r.number, "serialization">> \notin lost' /\ r.number \in loan[t]
      BY <1>6, <1>7
    <3>2. lost' = lost \cup (loan[t] \X reasons)
      BY DEF GiveBack
    <3> QED
      BY <3>1, <3>2
  <2> QED
    BY <1>7, <2>1, <2>2 DEF Contents
<1> QED
  BY <1>1, <1>2, <1>3, <1>4, <1>5, <1>7, EndKeepsInv DEF GiveBack

\* A result that returns something else is one all the same.
LEMMA OtherReturn ==
  ASSUME NEW x \in Result, NEW ret \in {"ok", "error", "thrown"}, NEW y,
         y = [x EXCEPT !.ret = ret]
  PROVE  /\ y \in Result /\ y.ret = ret /\ y.taken = x.taken /\ y.number = x.number
         /\ y.kind = x.kind /\ y.sender = x.sender
  BY DEF Result

\* Borrowing, with and without data.
LEMMA BorrowKeepsInv ==
  ASSUME MessageInv, NEW t \in Takers, Borrow(t)
  PROVE  MessageInv'
<1>0. TypeOK /\ KindsOf[t] \subseteq Kinds /\ Len(written) \in Nat
  BY MessageAssumption DEF MessageInv, TypeOK
<1>1. ASSUME NEW k \in KindsOf[t], TakeSample(t, k) PROVE MessageInv'
  <2>1. oldest \in Numbers /\ oldest' \in 1..(Len(written) + 1) /\ empty' \in Nat
    BY <1>0, <1>1 DEF TypeOK, TakeSample, Numbers
  <2> QED
    BY <1>0, <1>1, <2>1, LendKeepsInv DEF TakeSample
<1>2. ASSUME NEW k \in KindsOf[t], TakeSampleWithoutData(t, k) PROVE MessageInv'
  <2>1. 0 \in Numbers /\ oldest' \in 1..(Len(written) + 1) /\ empty' \in Nat
    BY <1>0, <1>2 DEF TypeOK, TakeSampleWithoutData, Numbers
  <2> QED
    BY <1>0, <1>2, <2>1, LendKeepsInv DEF TakeSampleWithoutData
<1> QED
  BY <1>1, <1>2 DEF Borrow

\* Converting, well and not.
LEMMA ConvertKeepsInv ==
  ASSUME MessageInv, NEW t \in Takers,
         ConvertSample(t) \/ ConversionFails(t) \/ ConversionThrows(t)
  PROVE  MessageInv'
<1>0. /\ TypeOK /\ object[t] \in [Fields -> Numbers] /\ 0 \in Numbers
      /\ \A n \in loan[t] : n \in Numbers /\ Whole(n) \in [Fields -> Numbers]
  BY DEF MessageInv, TypeOK, Whole, Numbers
<1>1. Pending(t) /\ kind[t] \in Kinds
  <2>1. Pending(t)
    BY DEF ConvertSample, ConversionFails, ConversionThrows, Looked
  <2> QED
    BY <1>0, <2>1 DEF MessageInv, TypeOK, ThreadInv, LoanInv
<1>2. CASE ConvertSample(t)
  <2>1. PICK n \in loan[t] :
          IF Ignored(n) THEN Looked(t, Skip(n, kind[t]), object[t])
                        ELSE Looked(t, Taken(n, kind[t]), Whole(n))
    BY <1>2 DEF ConvertSample
  <2>2. lost' = lost /\ lost' \subseteq Numbers \X Reasons /\ failures' \in 0..MaxFailures
    BY <1>0, <1>2 DEF ConvertSample, TypeOK
  <2>3. CASE Ignored(n)
    <3>1. /\ Skip(n, kind[t]) \in Result /\ ~Skip(n, kind[t]).taken
          /\ Skip(n, kind[t]).ret = "ok" /\ Skip(n, kind[t]).kind = kind[t]
      BY <1>0, <1>1, SkipIsSound
    <3>2. Sound(Skip(n, kind[t]))
      BY <3>1 DEF Sound
    <3> QED
      BY <1>0, <2>1, <2>2, <2>3, <3>1, <3>2, LookedKeepsInv
  <2>4. CASE ~Ignored(n)
    <3>1. /\ Taken(n, kind[t]) \in Result /\ Sound(Taken(n, kind[t]))
          /\ Taken(n, kind[t]).taken /\ Taken(n, kind[t]).ret = "ok"
          /\ Taken(n, kind[t]).kind = kind[t] /\ Taken(n, kind[t]).number = n
      BY <1>0, <1>1, <2>4, TakenIsSound
    <3> QED
      BY <1>0, <2>1, <2>2, <2>4, <3>1, LookedKeepsInv
  <2> QED
    BY <2>3, <2>4
<1>3. CASE ConversionFails(t)
  <2>1. PICK n \in loan[t], at \in Fields :
          /\ ~Ignored(n) /\ MayFail
          /\ Looked(t, BrokenResult(n, kind[t], at), Broken(object[t], n, at))
          /\ lost' = lost \cup {<<n, "conversion">>}
    BY <1>3 DEF ConversionFails
  <2> DEFINE r == BrokenResult(n, kind[t], at)
  <2>2. /\ r \in Result /\ Sound(r) /\ r.kind = kind[t] /\ r.ret # "pending"
        /\ r.taken => BreakHidden(at) /\ r.number = n
    BY <1>0, <1>1, <2>1, BrokenIsSound
  <2>3. Broken(object[t], n, at) \in [Fields -> Numbers]
    BY <1>0, BrokenType
  <2>4. failures' \in 0..MaxFailures
    BY <1>0, <2>1, FailureCounted
  <2>5. /\ lost \subseteq lost' /\ <<n, "conversion">> \in lost'
        /\ <<n, "conversion">> \in Numbers \X Reasons
    BY <1>0, <2>1 DEF Reasons
  <2>6. lost' \subseteq Numbers \X Reasons
    BY <1>0, <2>1, <2>5 DEF TypeOK
  <2>7. \E z \in loan[t] : z = n /\ (r.taken => support # "cpp")
    BY <2>2 DEF BreakHidden
  <2>8. Looked(t, r, Broken(object[t], n, at))
    BY <2>1
  <2> HIDE DEF r
  <2> QED
    BY <2>2, <2>3, <2>4, <2>5, <2>6, <2>7, <2>8, LookedKeepsInv
<1>4. CASE ConversionThrows(t)
  <2>1. PICK n \in loan[t], at \in Fields :
          /\ ~Ignored(n) /\ MayFail
          /\ End(t, [Skip(n, kind[t]) EXCEPT !.ret = "thrown"], {})
          /\ object' = [object EXCEPT ![t] = Broken(@, n, at)]
          /\ lost' = lost \cup ({n} \X {"conversion", "loan"})
          /\ UNCHANGED <<subscription, written, oldest, empty, gone>>
    BY <1>4 DEF ConversionThrows
  <2>2. PICK x \in Result : x = Skip(n, kind[t]) /\ ~x.taken
    BY <1>0, <1>1, SkipIsSound
  <2>3. PICK r \in Result : r = [x EXCEPT !.ret = "thrown"] /\ ~r.taken /\ r.ret = "thrown"
    BY <2>2, OtherReturn
  <2>4. Sound(r) /\ End(t, r, {})
    BY <2>1, <2>2, <2>3 DEF Sound
  <2>5. object' \in [Takers -> [Fields -> Numbers]] /\ \A u \in Takers \ {t} : object'[u] = object[u]
    BY <1>0, <2>1, BrokenType DEF TypeOK
  <2>6. Around
    <3>1. failures' \in 0..MaxFailures
      BY <1>0, <2>1, FailureCounted
    <3>2. {n} \X {"conversion", "loan"} \subseteq Numbers \X Reasons
      BY <1>0 DEF Reasons
    <3>3. lost' \subseteq Numbers \X Reasons /\ lost \subseteq lost'
      BY <1>0, <2>1, <3>2 DEF TypeOK
    <3> QED
      BY <1>0, <2>1, <3>1, <3>3 DEF Around, TypeOK
  <2> QED
    BY <2>3, <2>4, <2>5, <2>6, EndKeepsInv
<1> QED
  BY <1>2, <1>3, <1>4

\* Giving the loan back, well and not, and serializing.
LEMMA FinishKeepsInv ==
  ASSUME MessageInv, NEW t \in Takers, ReturnLoan(t) \/ ReturnLoanFails(t) \/ SerializeFails(t)
  PROVE  MessageInv'
<1>0. TypeOK /\ MayFail => failures' \in 0..MaxFailures
  BY FailureCounted
<1>1. PICK x \in Result : x = result[t] /\ x.ret # "pending"
  BY DEF MessageInv, TypeOK, ReturnLoan, ReturnLoanFails, SerializeFails, GiveBack, Pending
<1>2. CASE ReturnLoan(t)
  <2>1. GiveBack(t, x, Contents(x, object[t]), {}) /\ failures' \in 0..MaxFailures
    BY <1>1, <1>2 DEF ReturnLoan, MessageInv, TypeOK
  <2> QED
    BY <1>1, <2>1, GiveBackKeepsInv
<1>3. CASE ReturnLoanFails(t)
  <2> DEFINE r == IF support = "c" THEN [x EXCEPT !.ret = "error"] ELSE x
  <2>1. PICK y \in Result : y = r /\ y.ret # "pending" /\ y.taken = x.taken /\ y.number = x.number
                            /\ y.kind = x.kind /\ y.sender = x.sender
    <3>1. CASE support = "c"
      <4>1. PICK y : y = [x EXCEPT !.ret = "error"]
        OBVIOUS
      <4>2. /\ y \in Result /\ y.ret = "error" /\ y.taken = x.taken /\ y.number = x.number
            /\ y.kind = x.kind /\ y.sender = x.sender
        BY <4>1, OtherReturn
      <4>3. y = r
        BY <3>1, <4>1
      <4> HIDE DEF r
      <4> QED
        BY <4>2, <4>3
    <3>2. CASE support # "c"
      BY <1>1, <3>2
    <3> QED
      BY <3>1, <3>2
  <2>2. Contents(y, object[t]) = Contents(x, object[t])
    BY <2>1 DEF Contents
  <2>3. GiveBack(t, y, Contents(y, object[t]), {"loan"}) /\ {"loan"} \subseteq Reasons
    BY <1>1, <1>3, <2>1, <2>2 DEF ReturnLoanFails, Reasons
  <2>4. failures' \in 0..MaxFailures
    BY <1>0, <1>3 DEF ReturnLoanFails, MessageInv
  <2> QED
    BY <1>1, <2>1, <2>3, <2>4, GiveBackKeepsInv
<1>4. CASE SerializeFails(t)
  <2>1. failures' \in 0..MaxFailures /\ {"serialization"} \subseteq Reasons
    BY <1>0, <1>4 DEF SerializeFails, MessageInv, Reasons
  <2>2. CASE GiveBack(t, x, {Refused}, {"serialization"})
    BY <1>1, <2>1, <2>2, GiveBackKeepsInv
  <2>3. CASE GiveBack(t, [x EXCEPT !.ret = "thrown"], {}, {"serialization"})
    <3>1. PICK y \in Result : y = [x EXCEPT !.ret = "thrown"] /\ y.ret = "thrown"
                              /\ y.taken = x.taken /\ y.number = x.number
                              /\ y.kind = x.kind /\ y.sender = x.sender
      BY OtherReturn
    <3>2. GiveBack(t, y, {}, {"serialization"})
      BY <2>3, <3>1
    <3>3. /\ {} \subseteq {Refused} /\ y.ret # "ok" /\ y.ret # "pending"
          /\ y.taken = result[t].taken /\ y.number = result[t].number
          /\ y.kind = result[t].kind /\ y.sender = result[t].sender
      BY <1>1, <3>1
    <3> QED
      BY <2>1, <3>2, <3>3, GiveBackKeepsInv
  <2> QED
    BY <1>1, <1>4, <2>2, <2>3 DEF SerializeFails
<1> QED
  BY <1>2, <1>3, <1>4

\* A step of a taking thread keeps everything.
LEMMA TakeKeepsInv ==
  ASSUME MessageInv, NEW t \in Takers, Take(t)
  PROVE  MessageInv'
<1>0. KindsOf[t] \subseteq Kinds /\ TypeOK
  BY MessageAssumption DEF MessageInv
<1>1. ASSUME NEW k \in KindsOf[t], TakeNoData(t, k) \/ TakeFails(t, k) \/ AllocationFails(t, k)
      PROVE  MessageInv'
  <2>1. failures' \in 0..MaxFailures
    BY <1>0, <1>1, FailureCounted DEF TakeNoData, TakeFails, AllocationFails, TypeOK
  <2>2. EndWithout(t, Nothing(k)) \/ EndWithout(t, Error(k))
    BY <1>1 DEF TakeNoData, TakeFails, AllocationFails
  <2>3. /\ Nothing(k) \in Result /\ ~Nothing(k).taken /\ Nothing(k).ret = "ok"
        /\ Error(k) \in Result /\ ~Error(k).taken /\ Error(k).ret = "error"
    BY <1>0, NothingIsSound
  <2> QED
    BY <2>1, <2>2, <2>3, EndWithoutKeepsInv
<1> QED
  BY <1>1, BorrowKeepsInv, ConvertKeepsInv, FinishKeepsInv DEF Take

\* Types, loans, reports and buffers are inductive together.
LEMMA MessageInvariant == Spec => []MessageInv
<1>1. Init => MessageInv
  <2> SUFFICES ASSUME Init PROVE MessageInv
    OBVIOUS
  <2>1. Numbers = {0} /\ Samples = {} /\ Len(written) = 0
    BY DEF Init, Numbers, Samples
  <2>2. Fresh \in [Fields -> Numbers]
    BY <2>1 DEF Fresh
  <2>3. Nothing("none") \in Result /\ ~Nothing("none").taken /\ Nothing("none").ret = "ok"
    BY NothingIsSound
  <2>4. [capacity |-> 0, length |-> 0, content |-> Unused] \in Buffer
    BY DEF Buffer
  <2>5. TypeOK
    BY <2>1, <2>2, <2>3, <2>4, MessageAssumption DEF Init, TypeOK
  <2>6. ASSUME NEW t \in Takers PROVE ThreadInv(t)
    BY <2>3 DEF Init, ThreadInv, LoanInv, ReportInv, SkipInv, BufferInv, Pending, Sound
  <2> QED
    BY <2>5, <2>6 DEF MessageInv
<1>2. MessageInv /\ [Next]_vars => MessageInv'
  <2> SUFFICES ASSUME MessageInv, [Next]_vars PROVE MessageInv'
    OBVIOUS
  <2>0. TypeOK
    BY DEF MessageInv
  <2>1. ASSUME NEW w \in Writers, NEW m \in Messages, Publish(w, m) PROVE MessageInv'
    BY <2>0, <2>1, WriteKeepsInv DEF Publish, TypeOK
  <2>2. ASSUME NEW w \in Writers, NEW content, PublishSerialized(w, content)
        PROVE  MessageInv'
    <3>1. PICK m \in Messages : Write(w, m)
      BY <2>2 DEF PublishSerialized, Deserialized
    <3>2. failures' \in 0..MaxFailures
      BY <2>0, <2>2, FailureCounted DEF PublishSerialized, TypeOK
    <3> QED
      BY <3>1, <3>2, WriteKeepsInv
  <2>3. CASE WriterGone
    BY <2>0, <2>3, SameKeepsInv, MessageAssumption DEF WriterGone, TypeOK
  <2>4. ASSUME NEW t \in Takers, Take(t) PROVE MessageInv'
    BY <2>4, TakeKeepsInv
  <2>5. ASSUME NEW t \in Takers, NEW m \in Messages, Serialize(t, m) PROVE MessageInv'
    BY <2>5, SerializeKeepsInv
  <2>6. CASE UNCHANGED vars
    BY <2>0, <2>6, SameKeepsInv DEF vars, TypeOK, takeVars, bounds
  <2> QED
    BY <2>1, <2>2, <2>3, <2>4, <2>5, <2>6 DEF Next
<1> QED
  BY <1>1, <1>2, PTL DEF Spec

---------------------------------------------------------------------------
(* Where samples are.                                                      *)

\* What may have happened to sample n when a take ends that does not report it: it was
\* to be ignored, could not be converted, its loan could not be returned, or serializing
\* it threw.
Settled(n) ==
  \/ Ignored(n)
  \/ <<n, "conversion">> \in lost
  \/ <<n, "loan">> \in lost /\ support = "c"
  \/ <<n, "serialization">> \in lost /\ support = "cpp"

\* What a step of a taking thread does to samples: it borrows the next one, or none with
\* data, or it ends a take that reports its sample or has settled it.
Borrowed(t) ==
  /\ oldest \in Samples /\ oldest' = oldest + 1 /\ loan[t] = {}
  /\ loan' = [loan EXCEPT ![t] = {oldest}] /\ got' = got

Nowhere(t) ==
  /\ UNCHANGED <<oldest, got>>
  /\ \/ loan' = loan
     \/ loan[t] = {} /\ loan' = [loan EXCEPT ![t] = {0}]

Ended(t) ==
  /\ oldest' = oldest /\ loan' = [loan EXCEPT ![t] = {}]
  /\ \E n \in Numbers :
       /\ loan[t] = {n}
       /\ \/ got' = got /\ Settled(n)'
          \/ n \in Samples /\ ~Ignored(n) /\ got' = [got EXCEPT ![t] = Append(@, n)]

Histories == {n \in Numbers : <<n, "history">> \in lost}

LEMMA TakeShape ==
  ASSUME MessageInv, NEW t \in Takers, Take(t)
  PROVE  /\ Borrowed(t) \/ Nowhere(t) \/ Ended(t)
         /\ UNCHANGED <<written, subscription>> /\ lost \subseteq lost' /\ Histories' = Histories
<1>0. /\ TypeOK /\ LoanInv(t) /\ ReportInv(t) /\ SkipInv(t) /\ KindsOf[t] \subseteq Kinds
      /\ loan \in [Takers -> SUBSET Numbers]
  BY MessageAssumption DEF MessageInv, ThreadInv, TypeOK
<1> DEFINE Rest == /\ UNCHANGED <<written, subscription>> /\ lost \subseteq lost'
                   /\ Histories' = Histories
<1>1. UNCHANGED <<written, subscription, lost>> => Rest
  BY DEF Histories, Numbers
<1>2. ASSUME NEW n, NEW reasons, "history" \notin reasons, lost' = lost \cup ({n} \X reasons),
             UNCHANGED <<written, subscription>>
      PROVE  Rest
  BY <1>2 DEF Histories, Numbers
<1> SUFFICES (Borrowed(t) \/ Nowhere(t) \/ Ended(t)) /\ Rest
  OBVIOUS
<1> HIDE DEF Rest
<1>3. ASSUME NEW k \in KindsOf[t], TakeSample(t, k) PROVE Borrowed(t) /\ Rest
  <2>1. oldest \in Samples /\ loan[t] = {}
    BY <1>0, <1>3 DEF TakeSample, Lend, LoanInv, Samples, TypeOK
  <2> QED
    BY <1>1, <1>3, <2>1 DEF TakeSample, Lend, Borrowed
<1>4. ASSUME NEW k \in KindsOf[t], TakeSampleWithoutData(t, k) PROVE Nowhere(t) /\ Rest
  BY <1>0, <1>1, <1>4 DEF TakeSampleWithoutData, Lend, LoanInv, Nowhere
<1>5. ASSUME NEW k \in KindsOf[t], TakeNoData(t, k) \/ TakeFails(t, k) \/ AllocationFails(t, k)
      PROVE  Nowhere(t) /\ Rest
  <2>1. PICK r \in {Nothing(k), Error(k)} : EndWithout(t, r)
    BY <1>5 DEF TakeNoData, TakeFails, AllocationFails
  <2>2. ~r.taken
    <3>1. ~Nothing(k).taken /\ ~Error(k).taken
      BY <1>0, NothingIsSound
    <3> QED
      BY <3>1
  <2>3. loan[t] = {} /\ loan' = [loan EXCEPT ![t] = {}] /\ got' = got /\ oldest' = oldest
    BY <1>0, <2>1, <2>2 DEF EndWithout, End, LoanInv
  <2>4. loan' = loan
    BY <1>0, <2>3
  <2>5. UNCHANGED <<written, subscription, lost>>
    BY <2>1 DEF EndWithout
  <2>6. Rest
    BY <1>1, <2>5
  <2>7. Nowhere(t)
    BY <2>3, <2>4 DEF Nowhere
  <2> QED
    BY <2>6, <2>7
<1>6. CASE ConvertSample(t)
  <2>1. UNCHANGED <<written, subscription, lost, oldest, got, loan>>
    BY <1>6 DEF ConvertSample, Looked
  <2>2. Rest
    BY <1>1, <2>1
  <2>3. Nowhere(t)
    BY <2>1 DEF Nowhere
  <2> QED
    BY <2>2, <2>3
<1>7. CASE ConversionFails(t)
  <2>1. PICK n \in loan[t], at \in Fields :
          /\ Looked(t, BrokenResult(n, kind[t], at), Broken(object[t], n, at))
          /\ lost' = lost \cup {<<n, "conversion">>}
    BY <1>7 DEF ConversionFails
  <2>2. lost' = lost \cup ({n} \X {"conversion"})
    BY <2>1
  <2>3. UNCHANGED <<written, subscription, oldest, got, loan>>
    BY <2>1 DEF Looked
  <2>4. Rest
    BY <1>2, <2>2, <2>3
  <2>5. Nowhere(t)
    BY <2>3 DEF Nowhere
  <2> QED
    BY <2>4, <2>5
<1>8. CASE ConversionThrows(t)
  <2>1. PICK n \in loan[t], at \in Fields :
          /\ Pending(t)
          /\ End(t, [Skip(n, kind[t]) EXCEPT !.ret = "thrown"], {})
          /\ lost' = lost \cup ({n} \X {"conversion", "loan"})
          /\ UNCHANGED <<subscription, written, oldest, empty, gone>>
    BY <1>8 DEF ConversionThrows
  <2>2. kind[t] \in Kinds /\ n \in Numbers /\ loan[t] = {n}
    BY <1>0, <2>1 DEF LoanInv, TypeOK
  <2>3. PICK x \in Result : x = Skip(n, kind[t]) /\ ~x.taken
    BY <1>0, <2>2, SkipIsSound
  <2>4. ~[x EXCEPT !.ret = "thrown"].taken
    BY <2>3 DEF Result
  <2>5. got' = got /\ loan' = [loan EXCEPT ![t] = {}] /\ oldest' = oldest
    BY <2>1, <2>3, <2>4 DEF End
  <2>6. Settled(n)'
    BY <2>1 DEF Settled
  <2> QED
    BY <1>2, <2>1, <2>2, <2>5, <2>6 DEF Ended
<1>9. ASSUME NEW r \in Result, NEW M, NEW reasons, GiveBack(t, r, M, reasons),
             "history" \notin reasons, r.taken = result[t].taken, r.number = result[t].number,
             \/ r.ret = result[t].ret
             \/ "loan" \in reasons /\ support = "c"
             \/ "serialization" \in reasons /\ support = "cpp"
      PROVE  Ended(t) /\ Rest
  <2>1. PICK n \in Numbers : loan[t] = {n}
    BY <1>0, <1>9 DEF GiveBack, LoanInv
  <2>2. /\ kind[t] # "none" /\ ~Pending(t) /\ lost' = lost \cup ({n} \X reasons)
        /\ UNCHANGED <<subscription, written, oldest>> /\ loan' = [loan EXCEPT ![t] = {}]
    BY <1>9, <2>1 DEF GiveBack, End
  <2>3. UNCHANGED <<written, support, ignore>> /\ (Ignored(n) => Ignored(n)')
    BY <2>2 DEF subscription, Ignored, HasData
  <2>4. CASE r.ret = "ok" /\ r.taken
    <3>1. got' = [got EXCEPT ![t] = Append(@, n)]
      BY <1>0, <1>9, <2>1, <2>2, <2>4 DEF GiveBack, End, ReportInv
    <3>2. n \in Samples /\ ~Ignored(n)
      BY <1>0, <1>9, <2>1, <2>2, <2>4 DEF ReportInv, Sound
    <3> QED
      BY <1>2, <1>9, <2>1, <2>2, <3>1, <3>2 DEF Ended
  <2>5. CASE ~(r.ret = "ok" /\ r.taken)
    <3>1. got' = got
      BY <1>9, <2>5 DEF GiveBack, End
    <3>2. Settled(n)'
      <4>1. CASE ~(result[t].ret = "ok" /\ result[t].taken)
        BY <1>0, <2>1, <2>2, <2>3, <4>1 DEF SkipInv, Settled
      <4>2. CASE result[t].ret = "ok" /\ result[t].taken
        BY <1>9, <2>2, <2>3, <2>5, <4>2 DEF Settled
      <4> QED
        BY <4>1, <4>2
    <3> QED
      BY <1>2, <1>9, <2>1, <2>2, <3>1, <3>2 DEF Ended
  <2> QED
    BY <2>4, <2>5
<1>10. PICK x : x = result[t]
  OBVIOUS
<1>11. x \in Result
  BY <1>0, <1>10 DEF TypeOK
<1>12. CASE ReturnLoan(t)
  BY <1>9, <1>10, <1>11, <1>12 DEF ReturnLoan
<1>13. CASE ReturnLoanFails(t)
  <2>1. CASE support = "c"
    <3>1. PICK y : y = [x EXCEPT !.ret = "error"]
      OBVIOUS
    <3>2. y \in Result /\ y.taken = x.taken /\ y.number = x.number
      BY <1>11, <3>1, OtherReturn
    <3>3. GiveBack(t, y, Contents(x, object[t]), {"loan"})
      BY <1>10, <1>13, <2>1, <3>1 DEF ReturnLoanFails
    <3> QED
      BY <1>9, <1>10, <2>1, <3>2, <3>3
  <2>2. CASE support # "c"
    BY <1>9, <1>10, <1>11, <1>13, <2>2 DEF ReturnLoanFails
  <2> QED
    BY <2>1, <2>2
<1>14. CASE SerializeFails(t)
  <2>1. CASE GiveBack(t, x, {Refused}, {"serialization"})
    BY <1>9, <1>10, <1>11, <2>1
  <2>2. CASE support = "cpp" /\ GiveBack(t, [x EXCEPT !.ret = "thrown"], {}, {"serialization"})
    <3>1. PICK y : y = [x EXCEPT !.ret = "thrown"]
      OBVIOUS
    <3>2. y \in Result /\ y.taken = x.taken /\ y.number = x.number
      BY <1>11, <3>1, OtherReturn
    <3>3. GiveBack(t, y, {}, {"serialization"})
      BY <2>2, <3>1
    <3> QED
      BY <1>9, <1>10, <2>2, <3>2, <3>3
  <2> QED
    BY <1>10, <1>14, <2>1, <2>2 DEF SerializeFails
<1> QED
  BY <1>3, <1>4, <1>5, <1>6, <1>7, <1>8, <1>12, <1>13, <1>14 DEF Take, Borrow

---------------------------------------------------------------------------
(* No sample is taken twice: samples leave the reader in the order of their *)
(* numbers, so that whatever is on loan, was got or was pushed out came     *)
(* before what is in the reader.                                            *)

LoansInOrder ==
  \A t \in Takers : \A n \in loan[t] : n # 0 =>
    /\ n < oldest
    /\ \A u \in Takers : n \in loan[u] => t = u
    /\ \A u \in Takers : \A i \in DOMAIN got[u] : got[u][i] # n
    /\ \A i \in DOMAIN got[t] : got[t][i] < n

GotInOrder ==
  \A t \in Takers : \A i \in DOMAIN got[t] :
    /\ got[t][i] < oldest
    /\ \A j \in DOMAIN got[t] : i < j => got[t][i] < got[t][j]
    /\ \A u \in Takers : \A j \in DOMAIN got[u] : got[t][i] = got[u][j] => t = u /\ i = j

\* What the history pushed out was neither lent nor got, and as many samples as it is
\* deep came after it.
HistoryInOrder ==
  \A n \in Histories :
    /\ n # 0 /\ n < oldest /\ n + Depth <= Len(written)
    /\ \A t \in Takers : n \notin loan[t] /\ \A i \in DOMAIN got[t] : got[t][i] # n

DeliveryInv == LoansInOrder /\ GotInOrder /\ HistoryInOrder

\* The numbers that the state holds are natural numbers up to the last.
LEMMA NumbersInState ==
  ASSUME TypeOK
  PROVE  /\ Len(written) \in Nat /\ oldest \in Nat /\ oldest >= 1 /\ Depth \in Nat
         /\ \A t \in Takers : \A n \in loan[t] : n \in 0..Len(written)
         /\ \A t \in Takers : /\ Len(got[t]) \in Nat /\ DOMAIN got[t] = 1..Len(got[t])
                              /\ \A i \in DOMAIN got[t] : got[t][i] \in 1..Len(written)
         /\ \A n \in Histories : n \in 0..Len(written)
<1>1. \A t \in Takers : got[t] \in Seq(1..Len(written))
  BY DEF TypeOK, Samples
<1>2. Len(written) \in Nat /\ oldest \in 1..(Len(written) + 1) /\ Depth \in Nat
  BY MessageAssumption DEF TypeOK
<1>3. \A t \in Takers : \A n \in loan[t] : n \in 0..Len(written)
  BY DEF TypeOK, Numbers
<1>4. \A n \in Histories : n \in 0..Len(written)
  BY DEF Histories, Numbers
<1> QED
  BY <1>1, <1>2, <1>3, <1>4, ElementOfSeq

\* What a write does to samples.
LEMMA WriteShape ==
  ASSUME TypeOK, NEW w, NEW m, Write(w, m)
  PROVE  /\ Len(written') = Len(written) + 1 /\ \A n \in Samples : written'[n] = written[n]
         /\ UNCHANGED <<loan, got, support, ignore>> /\ lost \subseteq lost'
         /\ \/ oldest' = oldest /\ Histories' = Histories
            \/ /\ oldest + Depth <= Len(written) + 1 /\ oldest' = oldest + 1
               /\ oldest \in Samples /\ Histories' = Histories \cup {oldest}
               /\ <<oldest, "history">> \in lost'
<1>1. /\ Len(written) \in Nat /\ oldest \in 1..(Len(written) + 1) /\ Depth \in Nat \ {0}
      /\ lost \subseteq Numbers \X Reasons
  BY MessageAssumption DEF TypeOK
<1>2. /\ Len(written') = Len(written) + 1 /\ \A n \in Samples : written'[n] = written[n]
      /\ UNCHANGED <<loan, got, support, ignore>>
  BY DEF Write, TypeOK, Samples, takeVars, subscription
<1>3. Numbers' = Numbers \cup {Len(written) + 1} /\ Len(written) + 1 \notin Numbers
  BY <1>1, <1>2 DEF Numbers
<1>4. <<Len(written) + 1, "history">> \notin lost
  BY <1>1, <1>3
<1>5. CASE Full
  <2>1. oldest + Depth <= Len(written) + 1 /\ oldest \in Samples /\ oldest \in Numbers
    BY <1>1, <1>5 DEF Full, Samples, Numbers
  <2>2. oldest' = oldest + 1 /\ lost' = lost \cup {<<oldest, "history">>}
    BY <1>5 DEF Write
  <2>3. Histories' = Histories \cup {oldest}
    BY <1>3, <1>4, <2>1, <2>2 DEF Histories
  <2> QED
    BY <1>2, <2>1, <2>2, <2>3
<1>6. CASE ~Full
  <2>1. oldest' = oldest /\ lost' = lost
    BY <1>6 DEF Write
  <2> QED
    BY <1>2, <1>3, <1>4, <2>1 DEF Histories
<1> QED
  BY <1>5, <1>6

\* A new sample is behind all others, and the one that it pushes out was in the reader.
LEMMA WriteKeepsOrder ==
  ASSUME TypeOK, DeliveryInv, NEW w, NEW m, Write(w, m)
  PROVE  DeliveryInv'
<1>1. LoansInOrder'
  BY NumbersInState, WriteShape DEF DeliveryInv, LoansInOrder
<1>2. GotInOrder'
  BY NumbersInState, WriteShape DEF DeliveryInv, GotInOrder
<1>3. HistoryInOrder'
  <2> SUFFICES ASSUME NEW n \in Histories'
               PROVE  /\ n # 0 /\ n < oldest' /\ n + Depth <= Len(written')
                      /\ \A t \in Takers : n \notin loan[t] /\ \A i \in DOMAIN got[t] : got[t][i] # n
    BY WriteShape DEF HistoryInOrder
  <2>1. CASE n \in Histories
    BY <2>1, NumbersInState, WriteShape DEF DeliveryInv, HistoryInOrder
  <2>2. CASE n \notin Histories
    <3>1. n = oldest /\ oldest' = oldest + 1 /\ n + Depth <= Len(written')
      BY <2>2, WriteShape
    <3>2. \A t \in Takers : n \notin loan[t]
      BY <3>1, NumbersInState DEF DeliveryInv, LoansInOrder
    <3>3. \A t \in Takers : \A i \in DOMAIN got[t] : got[t][i] # n
      BY <3>1, NumbersInState DEF DeliveryInv, GotInOrder
    <3> QED
      BY <3>1, <3>2, <3>3, NumbersInState
  <2> QED
    BY <2>1, <2>2
<1> QED
  BY <1>1, <1>2, <1>3 DEF DeliveryInv

\* The oldest sample goes on loan.
LEMMA BorrowKeepsOrder ==
  ASSUME TypeOK, DeliveryInv, NEW t \in Takers, Borrowed(t),
         Len(written') = Len(written), Histories' = Histories
  PROVE  DeliveryInv'
<1>1. /\ loan' = [loan EXCEPT ![t] = {oldest}] /\ got' = got /\ oldest' = oldest + 1
      /\ loan \in [Takers -> SUBSET Numbers]
  BY DEF Borrowed, TypeOK
<1>2. \A v \in Takers : oldest \notin loan[v]
  BY NumbersInState DEF DeliveryInv, LoansInOrder
<1>3. LoansInOrder'
  <2> SUFFICES ASSUME NEW u \in Takers, NEW n \in loan'[u], n # 0
               PROVE  /\ n < oldest'
                      /\ \A v \in Takers : n \in loan'[v] => u = v
                      /\ \A v \in Takers : \A i \in DOMAIN got[v] : got[v][i] # n
                      /\ \A i \in DOMAIN got[u] : got[u][i] < n
    BY <1>1 DEF LoansInOrder
  <2>1. CASE u = t
    <3>1. n = oldest
      BY <1>1, <2>1
    <3>2. \A v \in Takers : n \in loan'[v] => u = v
      BY <1>1, <1>2, <2>1, <3>1
    <3> QED
      BY <1>1, <3>1, <3>2, NumbersInState DEF DeliveryInv, GotInOrder
  <2>2. CASE u # t
    <3>1. n \in loan[u] /\ n # oldest
      BY <1>1, <1>2, <2>2
    <3>2. \A v \in Takers : n \in loan'[v] => u = v
      BY <1>1, <3>1 DEF DeliveryInv, LoansInOrder
    <3> QED
      BY <1>1, <3>1, <3>2, NumbersInState DEF DeliveryInv, LoansInOrder
  <2> QED
    BY <2>1, <2>2
<1>4. GotInOrder'
  BY <1>1, NumbersInState DEF DeliveryInv, GotInOrder
<1>5. HistoryInOrder'
  <2> SUFFICES ASSUME NEW n \in Histories
               PROVE  /\ n # 0 /\ n < oldest' /\ n + Depth <= Len(written)
                      /\ \A u \in Takers : n \notin loan'[u] /\ \A i \in DOMAIN got[u] : got[u][i] # n
    BY <1>1 DEF HistoryInOrder
  <2>1. n < oldest /\ n \in Nat
    BY NumbersInState DEF DeliveryInv, HistoryInOrder
  <2>2. \A u \in Takers : n \notin loan'[u]
    BY <1>1, <2>1, NumbersInState DEF DeliveryInv, HistoryInOrder
  <2> QED
    BY <1>1, <2>1, <2>2, NumbersInState DEF DeliveryInv, HistoryInOrder
<1> QED
  BY <1>3, <1>4, <1>5 DEF DeliveryInv

\* A loan without data is on nobody's way.
LEMMA NowhereKeepsOrder ==
  ASSUME TypeOK, DeliveryInv, NEW t \in Takers, Nowhere(t),
         Len(written') = Len(written), Histories' = Histories
  PROVE  DeliveryInv'
<1>1. /\ oldest' = oldest /\ got' = got
      /\ \A u \in Takers : \A n \in loan'[u] : n \in loan[u] \/ n = 0
  BY DEF Nowhere, TypeOK
<1>2. LoansInOrder'
  BY <1>1 DEF DeliveryInv, LoansInOrder
<1>3. GotInOrder'
  BY <1>1 DEF DeliveryInv, GotInOrder
<1>4. HistoryInOrder'
  BY <1>1 DEF DeliveryInv, HistoryInOrder
<1> QED
  BY <1>2, <1>3, <1>4 DEF DeliveryInv

\* What was on loan is added to what its thread got: the elements of the new sequences.
LEMMA Appended ==
  ASSUME TypeOK, NEW t \in Takers, NEW n \in Samples, got' = [got EXCEPT ![t] = Append(@, n)]
  PROVE  /\ Len(got[t]) \in Nat /\ DOMAIN got[t] = 1..Len(got[t])
         /\ DOMAIN got'[t] = 1..(Len(got[t]) + 1) /\ got'[t][Len(got[t]) + 1] = n
         /\ \A u \in Takers : \A i \in DOMAIN got[u] :
              i \in DOMAIN got'[u] /\ got'[u][i] = got[u][i]
         /\ \A u \in Takers : \A i \in DOMAIN got'[u] :
              \/ i \in DOMAIN got[u] /\ got'[u][i] = got[u][i]
              \/ u = t /\ i = Len(got[t]) + 1 /\ got'[u][i] = n
<1>1. got \in [Takers -> Seq(Samples)] /\ got[t] \in Seq(Samples)
  BY DEF TypeOK
<1>2. Len(got[t]) \in Nat /\ DOMAIN got[t] = 1..Len(got[t])
  BY <1>1
<1>3. /\ \A u \in Takers \ {t} : got'[u] = got[u]
      /\ got'[t] = Append(got[t], n)
  BY <1>1
<1>4. /\ DOMAIN got'[t] = 1..(Len(got[t]) + 1) /\ got'[t][Len(got[t]) + 1] = n
      /\ \A i \in 1..Len(got[t]) : got'[t][i] = got[t][i]
  BY <1>1, <1>3
<1>5. ASSUME NEW u \in Takers, NEW i \in DOMAIN got[u]
      PROVE  i \in DOMAIN got'[u] /\ got'[u][i] = got[u][i]
  <2>1. CASE u = t
    BY <1>2, <1>4, <2>1
  <2>2. CASE u # t
    BY <1>3, <2>2
  <2> QED
    BY <2>1, <2>2
<1>6. ASSUME NEW u \in Takers, NEW i \in DOMAIN got'[u]
      PROVE  \/ i \in DOMAIN got[u] /\ got'[u][i] = got[u][i]
             \/ u = t /\ i = Len(got[t]) + 1 /\ got'[u][i] = n
  <2>1. CASE u = t
    <3>1. i \in 1..Len(got[t]) \/ i = Len(got[t]) + 1
      BY <1>2, <1>4, <2>1
    <3> QED
      BY <1>2, <1>4, <2>1, <3>1
  <2>2. CASE u # t
    BY <1>3, <2>2
  <2> QED
    BY <2>1, <2>2
<1> QED
  BY <1>2, <1>4, <1>5, <1>6

\* What was on loan goes to its thread, or is gone.
LEMMA EndKeepsOrder ==
  ASSUME TypeOK, DeliveryInv, NEW t \in Takers, Ended(t),
         Len(written') = Len(written), Histories' = Histories
  PROVE  DeliveryInv'
<1>1. /\ oldest' = oldest /\ loan'[t] = {} /\ \A u \in Takers \ {t} : loan'[u] = loan[u]
      /\ \A u \in Takers : loan'[u] \subseteq loan[u]
  BY DEF Ended, TypeOK
<1>2. CASE got' = got
  <2>1. LoansInOrder'
    BY <1>1, <1>2 DEF DeliveryInv, LoansInOrder
  <2>2. GotInOrder'
    BY <1>1, <1>2 DEF DeliveryInv, GotInOrder
  <2>3. HistoryInOrder'
    BY <1>1, <1>2 DEF DeliveryInv, HistoryInOrder
  <2> QED
    BY <2>1, <2>2, <2>3 DEF DeliveryInv
<1>3. ASSUME NEW n \in Samples, loan[t] = {n}, got' = [got EXCEPT ![t] = Append(@, n)]
      PROVE  DeliveryInv'
  <2>0. n # 0 /\ n \in Nat
    BY NumbersInState DEF Samples
  <2>1. /\ n < oldest /\ \A u \in Takers \ {t} : n \notin loan[u]
        /\ \A u \in Takers : \A i \in DOMAIN got[u] : got[u][i] # n
        /\ \A i \in DOMAIN got[t] : got[t][i] < n /\ i < Len(got[t]) + 1
    <3>1. n \in loan[t]
      BY <1>3
    <3>2. /\ n < oldest /\ \A u \in Takers \ {t} : n \notin loan[u]
          /\ \A u \in Takers : \A i \in DOMAIN got[u] : got[u][i] # n
          /\ \A i \in DOMAIN got[t] : got[t][i] < n
      BY <2>0, <3>1 DEF DeliveryInv, LoansInOrder
    <3>3. \A i \in DOMAIN got[t] : i < Len(got[t]) + 1
      BY NumbersInState
    <3> QED
      BY <3>2, <3>3
  <2> DEFINE New(u, i) == u = t /\ i = Len(got[t]) + 1 /\ got'[u][i] = n
             Old(u, i) == i \in DOMAIN got[u] /\ got'[u][i] = got[u][i]
  <2>2. \A u \in Takers : \A i \in DOMAIN got'[u] : Old(u, i) \/ New(u, i)
    BY <1>3, Appended
  <2>3. LoansInOrder'
    BY <1>1, <2>1, <2>2 DEF DeliveryInv, LoansInOrder
  <2>4. GotInOrder'
    <3>1. ASSUME NEW u \in Takers, NEW i \in DOMAIN got'[u] PROVE got'[u][i] < oldest
      BY <2>1, <2>2 DEF DeliveryInv, GotInOrder
    <3>2. ASSUME NEW u \in Takers, NEW i \in DOMAIN got'[u], NEW j \in DOMAIN got'[u], i < j
          PROVE  got'[u][i] < got'[u][j]
      <4>1. CASE Old(u, j)
        <5>1. ~New(u, i)
          BY <3>2, <4>1, NumbersInState
        <5> QED
          BY <2>2, <3>2, <4>1, <5>1 DEF DeliveryInv, GotInOrder
      <4>2. CASE New(u, j)
        <5>1. ~New(u, i)
          BY <3>2, <4>2, NumbersInState
        <5> QED
          BY <2>1, <2>2, <3>2, <4>2, <5>1
      <4> QED
        BY <2>2, <4>1, <4>2
    <3>3. ASSUME NEW u \in Takers, NEW v \in Takers, NEW i \in DOMAIN got'[u],
                 NEW j \in DOMAIN got'[v], got'[u][i] = got'[v][j]
          PROVE  u = v /\ i = j
      BY <2>1, <2>2, <3>3 DEF DeliveryInv, GotInOrder
    <3> QED
      BY <1>1, <3>1, <3>2, <3>3 DEF GotInOrder
  <2>5. HistoryInOrder'
    BY <1>1, <1>3, <2>2 DEF DeliveryInv, HistoryInOrder
  <2> QED
    BY <2>3, <2>4, <2>5 DEF DeliveryInv
<1> QED
  BY <1>2, <1>3 DEF Ended

\* Every step keeps the order.
LEMMA DeliveryInvariant == Spec => []DeliveryInv
<1>1. Init => DeliveryInv
  BY DEF Init, DeliveryInv, LoansInOrder, GotInOrder, HistoryInOrder, Histories
<1>2. MessageInv /\ DeliveryInv /\ [Next]_vars => DeliveryInv'
  <2> SUFFICES ASSUME MessageInv, DeliveryInv, [Next]_vars PROVE DeliveryInv'
    OBVIOUS
  <2>0. TypeOK
    BY DEF MessageInv
  <2>1. UNCHANGED <<written, oldest, loan, got, lost>> => DeliveryInv'
    BY DEF DeliveryInv, LoansInOrder, GotInOrder, HistoryInOrder, Histories, Numbers
  <2>2. ASSUME NEW w, NEW m, Write(w, m) PROVE DeliveryInv'
    BY <2>0, <2>2, WriteKeepsOrder
  <2>3. CASE WriterGone
    BY <2>1, <2>3 DEF WriterGone, takeVars
  <2>4. ASSUME NEW t \in Takers, Take(t) PROVE DeliveryInv'
    <3>1. /\ Borrowed(t) \/ Nowhere(t) \/ Ended(t)
          /\ Len(written') = Len(written) /\ Histories' = Histories
      BY <2>4, TakeShape
    <3> QED
      BY <2>0, <3>1, BorrowKeepsOrder, NowhereKeepsOrder, EndKeepsOrder
  <2>5. ASSUME NEW t, NEW m, Serialize(t, m) PROVE DeliveryInv'
    BY <2>1, <2>5 DEF Serialize
  <2>6. CASE UNCHANGED vars
    BY <2>1, <2>6 DEF vars
  <2> QED
    BY <2>2, <2>3, <2>4, <2>5, <2>6 DEF Next, Publish, PublishSerialized
<1> QED
  BY <1>1, <1>2, MessageInvariant, PTL DEF Spec

---------------------------------------------------------------------------
(* No sample vanishes: the safety core of EverySampleIsTaken.              *)

\* Where sample n is: in the reader, on loan to a take that goes on, reported by one,
\* pushed out of the reader's history, or settled otherwise.
Accounted(n) ==
  \/ n >= oldest
  \/ \E t \in Takers : n \in loan[t]
  \/ \E t \in Takers : \E i \in DOMAIN got[t] : got[t][i] = n
  \/ <<n, "history">> \in lost
  \/ Settled(n)

\* Every sample is somewhere, and no take has reported one that is to be ignored.
AllAccounted ==
  /\ \A n \in Samples : Accounted(n)
  /\ \A t \in Takers : \A i \in DOMAIN got[t] : ~Ignored(got[t][i])

\* ... and the history pushes out a sample only when as many as it is deep came after it.
NothingVanishes ==
  /\ AllAccounted
  /\ \A n \in Samples : <<n, "history">> \in lost => n + Depth <= Len(written)

\* What happened to a sample stays.
LEMMA SettledStays ==
  ASSUME TypeOK, NEW n \in Samples, Settled(n),
         written'[n] = written[n], UNCHANGED <<support, ignore>>, lost \subseteq lost'
  PROVE  Settled(n)'
  BY DEF Settled, Ignored, HasData

\* A sample that is written is in the reader, and the one that it pushes out is told of.
LEMMA WriteAccounts ==
  ASSUME TypeOK, AllAccounted, NEW w, NEW m, Write(w, m)
  PROVE  AllAccounted'
<1>1. /\ Len(written') = Len(written) + 1 /\ \A n \in Samples : written'[n] = written[n]
      /\ UNCHANGED <<loan, got, support, ignore>> /\ lost \subseteq lost'
      /\ \/ oldest' = oldest
         \/ oldest' = oldest + 1 /\ oldest \in Samples /\ <<oldest, "history">> \in lost'
      /\ Len(written) \in Nat /\ oldest \in 1..(Len(written) + 1)
  <2>1. Len(written) \in Nat /\ oldest \in 1..(Len(written) + 1)
    BY DEF TypeOK
  <2> QED
    BY <2>1, WriteShape
<1>2. ASSUME NEW n \in Samples' PROVE Accounted(n)'
  <2>1. n \in Samples \/ n = Len(written) + 1
    BY <1>1 DEF Samples
  <2>2. CASE n = Len(written) + 1
    BY <1>1, <2>2 DEF Accounted, Samples
  <2>3. CASE n \in Samples
    <3>1. Accounted(n)
      BY <2>3 DEF AllAccounted
    <3>2. n >= oldest => n >= oldest' \/ <<n, "history">> \in lost'
      BY <1>1, <2>3 DEF Samples
    <3>3. Settled(n) => Settled(n)'
      BY <1>1, <2>3, SettledStays
    <3> QED
      BY <1>1, <3>1, <3>2, <3>3 DEF Accounted
  <2> QED
    BY <2>1, <2>2, <2>3
<1>3. ASSUME NEW u \in Takers, NEW i \in DOMAIN got[u] PROVE ~Ignored(got[u][i])'
  <2>1. got[u][i] \in Samples
    BY NumbersInState DEF Samples
  <2> QED
    BY <1>1, <2>1 DEF AllAccounted, Ignored, HasData
<1> QED
  BY <1>1, <1>2, <1>3 DEF AllAccounted

\* The sample that the reader lends is on loan, and a take that ends has reported its
\* sample or settled it.
LEMMA TakeAccounts ==
  ASSUME TypeOK, AllAccounted, NEW t \in Takers, Borrowed(t) \/ Nowhere(t) \/ Ended(t),
         UNCHANGED <<written, support, ignore>>, lost \subseteq lost'
  PROVE  AllAccounted'
<1>1. /\ Samples' = Samples /\ \A n : Ignored(n)' <=> Ignored(n)
      /\ \A n \in Samples : Settled(n) => Settled(n)'
  BY SettledStays DEF Samples, Ignored, HasData
<1>2. loan \in [Takers -> SUBSET Numbers] /\ Len(written) \in Nat /\ oldest \in Nat
  BY NumbersInState DEF TypeOK
<1>3. CASE Borrowed(t) \/ Nowhere(t)
  <2>1. got' = got /\ \A u \in Takers : loan[u] \subseteq loan'[u]
    BY <1>2, <1>3 DEF Borrowed, Nowhere
  <2>2. ASSUME NEW n \in Samples, n >= oldest PROVE n >= oldest' \/ \E u \in Takers : n \in loan'[u]
    BY <1>2, <1>3, <2>2 DEF Borrowed, Nowhere, Samples
  <2> QED
    BY <1>1, <2>1, <2>2 DEF AllAccounted, Accounted
<1>4. ASSUME NEW n, loan[t] = {n}, oldest' = oldest, loan' = [loan EXCEPT ![t] = {}],
             got' = got, Settled(n)'
      PROVE  AllAccounted'
  <2>1. \A u \in Takers : \A k \in loan[u] : k \in loan'[u] \/ k = n
    BY <1>2, <1>4
  <2> QED
    BY <1>1, <1>4, <2>1 DEF AllAccounted, Accounted
<1>5. ASSUME NEW n \in Samples, loan[t] = {n}, oldest' = oldest, loan' = [loan EXCEPT ![t] = {}],
             ~Ignored(n), got' = [got EXCEPT ![t] = Append(@, n)]
      PROVE  AllAccounted'
  <2>1. \A u \in Takers : \A k \in loan[u] : k \in loan'[u] \/ k = n
    BY <1>2, <1>5
  <2>2. /\ Len(got[t]) + 1 \in DOMAIN got'[t] /\ got'[t][Len(got[t]) + 1] = n
        /\ \A u \in Takers : \A i \in DOMAIN got[u] :
             i \in DOMAIN got'[u] /\ got'[u][i] = got[u][i]
        /\ \A u \in Takers : \A i \in DOMAIN got'[u] :
             (i \in DOMAIN got[u] /\ got'[u][i] = got[u][i]) \/ got'[u][i] = n
    <3>1. /\ Len(got[t]) \in Nat /\ DOMAIN got'[t] = 1..(Len(got[t]) + 1)
          /\ got'[t][Len(got[t]) + 1] = n
      BY <1>5, Appended
    <3>2. \A u \in Takers : \A i \in DOMAIN got[u] :
            i \in DOMAIN got'[u] /\ got'[u][i] = got[u][i]
      BY <1>5, Appended
    <3>3. \A u \in Takers : \A i \in DOMAIN got'[u] :
            (i \in DOMAIN got[u] /\ got'[u][i] = got[u][i]) \/ got'[u][i] = n
      BY <1>5, Appended
    <3> QED
      BY <3>1, <3>2, <3>3
  <2>3. ASSUME NEW k \in Samples PROVE Accounted(k)'
    BY <1>1, <1>5, <2>1, <2>2 DEF AllAccounted, Accounted
  <2>4. ASSUME NEW u \in Takers, NEW i \in DOMAIN got'[u], NEW k, k = got'[u][i]
        PROVE  ~Ignored(k)'
    BY <1>1, <1>5, <2>2, <2>4 DEF AllAccounted
  <2> QED
    BY <1>1, <2>3, <2>4 DEF AllAccounted
<1> QED
  BY <1>3, <1>4, <1>5 DEF Ended

\* Every sample is accounted for, in every state.
LEMMA AccountInvariant == Spec => []AllAccounted
<1>1. Init => AllAccounted
  BY DEF Init, AllAccounted, Samples
<1>2. MessageInv /\ AllAccounted /\ [Next]_vars => AllAccounted'
  <2> SUFFICES ASSUME MessageInv, AllAccounted, [Next]_vars PROVE AllAccounted'
    OBVIOUS
  <2>0. TypeOK
    BY DEF MessageInv
  <2>1. UNCHANGED <<subscription, written, oldest, loan, got, lost>> => AllAccounted'
    BY DEF AllAccounted, Accounted, Settled, Samples, Ignored, HasData, subscription
  <2>2. ASSUME NEW w, NEW m, Write(w, m) PROVE AllAccounted'
    BY <2>0, <2>2, WriteAccounts
  <2>3. CASE WriterGone
    BY <2>1, <2>3 DEF WriterGone, takeVars
  <2>4. ASSUME NEW t \in Takers, Take(t) PROVE AllAccounted'
    <3>1. /\ Borrowed(t) \/ Nowhere(t) \/ Ended(t)
          /\ UNCHANGED <<written, support, ignore>> /\ lost \subseteq lost'
      BY <2>4, TakeShape DEF subscription
    <3> QED
      BY <2>0, <3>1, TakeAccounts
  <2>5. ASSUME NEW t, NEW m, Serialize(t, m) PROVE AllAccounted'
    BY <2>1, <2>5 DEF Serialize
  <2>6. CASE UNCHANGED vars
    BY <2>1, <2>6 DEF vars
  <2> QED
    BY <2>2, <2>3, <2>4, <2>5, <2>6 DEF Next, Publish, PublishSerialized
<1> QED
  BY <1>1, <1>2, MessageInvariant, PTL DEF Spec

---------------------------------------------------------------------------
(* The theorems.                                                           *)

\* The state of publishing and taking keeps its shape.
THEOREM MessageTypeCorrect == Spec => []TypeOK
  BY MessageInvariant, PTL DEF MessageInv

\* On every way out of a take (msg__type_support.cpp.em:460, the ways before a loan, and
\* a conversion that throws past it) the thread has no loan any more, or has lost it.
THEOREM LoansAreReturned == Spec => []LoansReturned
<1>1. MessageInv => LoansReturned
  BY DEF MessageInv, ThreadInv, LoanInv, LoansReturned
<1> QED
  BY <1>1, MessageInvariant, PTL

\* The buffer of a serialized take that reported a sample holds this sample's message
\* whole (serialize, msg__type_support.cpp.em:486-503, makes it large enough for any
\* sequence of messages of any sizes), unless the sample's conversion or serialization
\* failed, which rmw_take_serialized.cpp:69 does not look at.
THEOREM BuffersHoldMessages == Spec => []BufferHoldsMessage
<1>1. MessageInv => BufferHoldsMessage
  BY DEF MessageInv, ThreadInv, BufferInv, BufferHoldsMessage
<1> QED
  BY <1>1, MessageInvariant, PTL

\* A take hands out the fields of one sample only, although its thread uses the
\* message again: always in C++, and in C unless that sample's conversion broke off
\* at a field where convert_dds_to_ros hides it (msg__type_support_c.cpp.em:482).
THEOREM NoMixtureIsTaken == Spec => []NoMixtureTaken
<1>1. ASSUME MessageInv PROVE NoMixtureTaken
  <2>1. \A t \in Takers : ReportInv(t)
    BY <1>1 DEF MessageInv, ThreadInv
  <2>2. ASSUME NEW t \in Takers, result[t].taken,
               support = "cpp" \/ <<result[t].number, "conversion">> \notin lost,
               NEW f \in Fields
        PROVE  object[t][f] = result[t].number
    <3>1. object[t] = Whole(result[t].number)
      BY <2>1, <2>2 DEF ReportInv
    <3> QED
      BY <3>1 DEF Whole
  <2> QED
    BY <2>2 DEF NoMixtureTaken
<1> QED
  BY <1>1, MessageInvariant, PTL

\* No two threads, and no thread twice, get the same sample, and each gets its
\* samples in the order they were written.
THEOREM SamplesDeliveredOnce == Spec => []DeliveredOnce
<1>1. MessageInv /\ DeliveryInv => DeliveredOnce
  <2> SUFFICES ASSUME MessageInv, DeliveryInv PROVE DeliveredOnce
    OBVIOUS
  <2>0. TypeOK
    BY DEF MessageInv
  <2>1. LoansReturned
    BY DEF MessageInv, ThreadInv, LoanInv, LoansReturned
  <2>2. \A t, u \in Takers : \A i \in DOMAIN got[t], j \in DOMAIN got[u] :
          /\ got[t][i] = got[u][j] => t = u /\ i = j
          /\ t = u /\ i < j => got[t][i] < got[u][j]
    BY DEF DeliveryInv, GotInOrder
  <2>3. \A t \in Takers : \A i \in DOMAIN got[t] :
          /\ got[t][i] < oldest
          /\ \A u \in Takers : got[t][i] \notin loan[u]
    BY <2>0, NumbersInState DEF DeliveryInv, GotInOrder, LoansInOrder
  <2>4. \A t, u \in Takers : t # u => loan[t] \cap loan[u] \cap Samples = {}
    BY DEF DeliveryInv, LoansInOrder, Samples
  <2> QED
    BY <2>1, <2>2, <2>3, <2>4 DEF DeliveredOnce
<1> QED
  BY <1>1, MessageInvariant, DeliveryInvariant, PTL

\* However many threads compete for the reader, whatever fails, and whatever the depth of
\* the history, no sample disappears untold: it is in the reader, on loan to a take that
\* goes on, or reported; or the history pushed it out, with as many samples as it is deep
\* behind it (util.cpp:94-95), it is of a publisher that is ignored
\* (msg__type_support.cpp.em:388-398), which no take reports, its conversion failed, its
\* loan was not taken back in C (msg__type_support_c.cpp.em:716-750), or serializing it
\* threw in C++.
THEOREM NoSampleVanishes == Spec => []NothingVanishes
<1>1. MessageInv /\ DeliveryInv /\ AllAccounted => NothingVanishes
  BY DEF NothingVanishes, DeliveryInv, HistoryInOrder, Histories, Samples, Numbers
<1> QED
  BY <1>1, MessageInvariant, DeliveryInvariant, AccountInvariant, PTL

\* Where SenderIsPublisher holds: msg__type_support_c.cpp.em:698 stores the handle only
\* when ignore_local_publications is set; the take of C++ always does.  The run that
\* finds SenderIsPublisher violated shows the other case.
THEOREM SenderIsPublisherUnlessC ==
  Spec => []((support = "cpp" \/ ignore) => SenderIsPublisher)
<1>1. MessageInv => ((support = "cpp" \/ ignore) => SenderIsPublisher)
  BY DEF MessageInv, ThreadInv, ReportInv, Sound, SenderIsPublisher
<1> QED
  BY <1>1, MessageInvariant, PTL
=============================================================================
