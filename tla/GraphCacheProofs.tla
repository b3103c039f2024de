-------------------------- MODULE GraphCacheProofs --------------------------
(***************************************************************************)
(* Proofs about the discovery listeners' caches (GraphCache): the list and *)
(* the map of a listener always agree, whatever the middleware delivers,   *)
(* and so remove_information never erases an iterator to end(); and the    *)
(* cache, with what is still pending, makes up the endpoints that exist.   *)
(* What the queries (GraphCache, ServiceNames) answer follows from this.   *)
(***************************************************************************)
EXTENDS ServiceNames, FiniteSetTheorems, SequenceTheorems, WellFoundedInduction, TLAPS

\* A list has finitely many entries of a name and type, so they can be counted.
LEMMA MatchesFinite ==
  ASSUME NEW s \in Seq(Descriptor), NEW n, NEW t
  PROVE  /\ Matches(s, n, t) \subseteq 1..Len(s)
         /\ IsFiniteSet(Matches(s, n, t))
         /\ Cardinality(Matches(s, n, t)) \in Nat
<1>1. Matches(s, n, t) \subseteq 1..Len(s)
  BY DEF Matches
<1>2. IsFiniteSet(1..Len(s))
  BY FS_Interval
<1>3. IsFiniteSet(Matches(s, n, t))
  BY <1>1, <1>2, FS_Subset
<1>4. QED
  BY <1>1, <1>3, FS_CardinalityType

\* push_back adds one entry of the descriptor's name and type.
LEMMA MatchesAppend ==
  ASSUME NEW s \in Seq(Descriptor), NEW d \in Descriptor, NEW n, NEW t
  PROVE  Cardinality(Matches(Append(s, d), n, t)) =
           Cardinality(Matches(s, n, t)) + (IF d.name = n /\ d.type = t THEN 1 ELSE 0)
<1>1. Len(Append(s, d)) = Len(s) + 1 /\ DOMAIN Append(s, d) = 1..(Len(s) + 1)
      /\ Append(s, d)[Len(s) + 1] = d /\ \A i \in 1..Len(s) : Append(s, d)[i] = s[i]
  OBVIOUS
<1>2. CASE d.name = n /\ d.type = t
  <2>1. Matches(Append(s, d), n, t) = Matches(s, n, t) \cup {Len(s) + 1}
    BY <1>1, <1>2 DEF Matches
  <2>2. Len(s) + 1 \notin Matches(s, n, t)
    BY MatchesFinite
  <2>3. IsFiniteSet(Matches(s, n, t)) /\ Cardinality(Matches(s, n, t)) \in Nat
    BY MatchesFinite
  <2>4. Cardinality(Matches(s, n, t) \cup {Len(s) + 1}) = Cardinality(Matches(s, n, t)) + 1
    BY <2>2, <2>3, FS_AddElement
  <2>5. QED
    BY <1>2, <2>1, <2>4
<1>3. CASE ~(d.name = n /\ d.type = t)
  <2>1. Matches(Append(s, d), n, t) = Matches(s, n, t)
    BY <1>1, <1>3 DEF Matches
  <2>2. QED
    BY <1>3, <2>1, MatchesFinite
<1>4. QED
  BY <1>2, <1>3

\* list::erase moves the entries behind the erased one up by one place and
\* leaves the others where they are.
LEMMA RemoveAtFacts ==
  ASSUME NEW s \in Seq(Descriptor), NEW k \in 1..Len(s)
  PROVE  /\ RemoveAt(s, k) \in Seq(Descriptor)
         /\ Len(RemoveAt(s, k)) = Len(s) - 1
         /\ \A i \in 1..(Len(s) - 1) :
              RemoveAt(s, k)[i] = IF i < k THEN s[i] ELSE s[i + 1]
<1> DEFINE front == SubSeq(s, 1, k - 1)
           back == SubSeq(s, k + 1, Len(s))
<1>1. front \in Seq(Descriptor) /\ Len(front) = k - 1
      /\ \A i \in 1..(k - 1) : front[i] = s[i]
  OBVIOUS
<1>2. back \in Seq(Descriptor) /\ Len(back) = Len(s) - k
      /\ \A i \in 1..(Len(s) - k) : back[i] = s[k + i]
  OBVIOUS
<1> HIDE DEF front, back
<1>3. front \o back \in Seq(Descriptor) /\ Len(front \o back) = Len(s) - 1
      /\ \A i \in 1..(Len(s) - 1) :
           (front \o back)[i] = IF i <= k - 1 THEN front[i] ELSE back[i - (k - 1)]
  <2>1. front \o back \in Seq(Descriptor)
    BY <1>1, <1>2, ConcatProperties
  <2>2. Len(front \o back) = Len(front) + Len(back)
    BY <1>1, <1>2, ConcatProperties
  <2>3. \A i \in 1..(Len(front) + Len(back)) :
          (front \o back)[i] = IF i <= Len(front) THEN front[i] ELSE back[i - Len(front)]
    BY <1>1, <1>2, ConcatProperties
  <2>4. QED
    BY <1>1, <1>2, <2>1, <2>2, <2>3
<1>4. RemoveAt(s, k) = front \o back
  BY DEF RemoveAt, front, back
<1>5. \A i \in 1..(Len(s) - 1) :
        RemoveAt(s, k)[i] = IF i < k THEN s[i] ELSE s[i + 1]
  <2> SUFFICES ASSUME NEW i \in 1..(Len(s) - 1)
               PROVE  RemoveAt(s, k)[i] = IF i < k THEN s[i] ELSE s[i + 1]
    OBVIOUS
  <2>1. CASE i < k
    BY <1>1, <1>3, <1>4, <2>1
  <2>2. CASE ~(i < k)
    <3>1. i - (k - 1) \in 1..(Len(s) - k) /\ k + (i - (k - 1)) = i + 1
      BY <2>2
    <3>2. back[i - (k - 1)] = s[i + 1]
      BY <1>2, <3>1
    <3>3. RemoveAt(s, k)[i] = back[i - (k - 1)]
      BY <1>3, <1>4, <2>2
    <3>4. QED
      BY <2>2, <3>2, <3>3
  <2>3. QED
    BY <2>1, <2>2
<1>6. QED
  BY <1>3, <1>4, <1>5

\* erase(it) takes away one entry of that entry's name and type.
LEMMA MatchesRemove ==
  ASSUME NEW s \in Seq(Descriptor), NEW k \in 1..Len(s), NEW n, NEW t
  PROVE  Cardinality(Matches(RemoveAt(s, k), n, t)) =
           Cardinality(Matches(s, n, t)) - (IF s[k].name = n /\ s[k].type = t THEN 1 ELSE 0)
<1> DEFINE r == RemoveAt(s, k)
           S == Matches(s, n, t) \ {k}
           T == Matches(r, n, t)
           f == [i \in S |-> IF i < k THEN i ELSE i - 1]
<1>1. r \in Seq(Descriptor) /\ Len(r) = Len(s) - 1
      /\ \A i \in 1..(Len(s) - 1) : r[i] = IF i < k THEN s[i] ELSE s[i + 1]
  BY RemoveAtFacts
<1>2. f \in [S -> T]
  BY <1>1 DEF Matches
<1>3. \A i, j \in S : f[i] = f[j] => i = j
  BY DEF Matches
<1>4. \A j \in T : \E i \in S : f[i] = j
  <2> SUFFICES ASSUME NEW j \in T PROVE \E i \in S : f[i] = j
    OBVIOUS
  <2>1. j \in 1..(Len(s) - 1) /\ r[j].name = n /\ r[j].type = t
    BY <1>1 DEF Matches
  <2>2. CASE j < k
    <3>1. j \in S /\ f[j] = j
      BY <1>1, <2>1, <2>2 DEF Matches
    <3>2. QED
      BY <3>1
  <2>3. CASE ~(j < k)
    <3>1. j + 1 \in S /\ f[j + 1] = j
      BY <1>1, <2>1, <2>3 DEF Matches
    <3>2. QED
      BY <3>1
  <2>4. QED
    BY <2>2, <2>3
<1> HIDE DEF r, f
<1>5. ExistsBijection(S, T)
  BY <1>2, <1>3, <1>4 DEF ExistsBijection, Bijection, Injection, Surjection, IsInjective
<1>6. IsFiniteSet(S) /\ Cardinality(S) =
        IF k \in Matches(s, n, t) THEN Cardinality(Matches(s, n, t)) - 1
                                  ELSE Cardinality(Matches(s, n, t))
  BY MatchesFinite, FS_RemoveElement
<1>7. Cardinality(T) = Cardinality(S)
  BY <1>5, <1>6, FS_Bijection
<1>8. k \in Matches(s, n, t) <=> s[k].name = n /\ s[k].type = t
  BY DEF Matches
<1>9. QED
  BY <1>6, <1>7, <1>8, MatchesFinite DEF r

---------------------------------------------------------------------------
\* Changing how often one type is in one topic's multiset.
LEMMA CountUpdate ==
  ASSUME NEW c \in [Listeners -> [Names -> [Types -> Nat]]],
         NEW l \in Listeners, NEW n \in Names, NEW t \in Types, NEW v \in Nat
  PROVE  [c EXCEPT ![l][n][t] = v] \in [Listeners -> [Names -> [Types -> Nat]]]
<1>1. c[l] \in [Names -> [Types -> Nat]] /\ c[l][n] \in [Types -> Nat]
  OBVIOUS
<1>2. [c[l][n] EXCEPT ![t] = v] \in [Types -> Nat]
  BY <1>1
<1>3. [c[l] EXCEPT ![n][t] = v] \in [Names -> [Types -> Nat]]
  BY <1>1, <1>2
<1>4. QED
  BY <1>3

\* The shape of the state: the lists hold descriptors of known endpoints and no
\* multiset holds a type a negative number of times.
THEOREM CacheTypeCorrect == CacheSpec => []CacheTypeOK
<1>1. CacheInit => CacheTypeOK
  <2> SUFFICES ASSUME CacheInit PROVE CacheTypeOK
    OBVIOUS
  <2>1. queue \in [Listeners -> Seq(Sample)] /\ batch \in [Listeners -> Seq(Sample)]
        /\ descriptors \in [Listeners -> Seq(Descriptor)]
    BY DEF CacheInit
  <2>2. count \in [Listeners -> [Names -> [Types -> Nat]]]
    BY DEF CacheInit
  <2>3. phase \in [Listeners -> {"idle", "apply"}] /\ keys \in [Listeners -> SUBSET Names]
    BY DEF CacheInit
  <2>4. corrupted \in BOOLEAN
    BY Zenon DEF CacheInit
  <2>5. endpoints \subseteq Descriptor
        /\ announced \in 0..MaxAnnounced /\ updates \in 0..MaxUpdates
    BY CacheBoundAssumption DEF CacheInit
  <2>6. QED
    BY <2>1, <2>2, <2>3, <2>4, <2>5 DEF CacheTypeOK
<1>2. CacheTypeOK /\ [CacheNext]_cacheVars => CacheTypeOK'
  <2> SUFFICES ASSUME CacheTypeOK, [CacheNext]_cacheVars PROVE CacheTypeOK'
    OBVIOUS
  <2> USE CacheBoundAssumption, ListenerAssumption DEF CacheTypeOK
  <2>0. ASSUME NEW h \in Handles, NEW i \in Info
        PROVE  /\ DescriptorOf(h, i) \in Descriptor
               /\ Valid(h, i) \in Sample
               /\ Invalid(h) \in Sample
    BY DEF DescriptorOf, Valid, Invalid, Descriptor, Sample, Info
  <2>1. ASSUME NEW h \in Handles, NEW i \in Info, EndpointCreated(h, i) PROVE CacheTypeOK'
    BY <2>0, <2>1 DEF EndpointCreated, Deliver, listenerVars
  <2>2. ASSUME NEW h \in Handles, NEW i \in Info, EndpointUpdated(h, i) PROVE CacheTypeOK'
    BY <2>0, <2>2 DEF EndpointUpdated, Deliver, listenerVars
  <2>3. ASSUME NEW h \in Handles, EndpointDeleted(h) PROVE CacheTypeOK'
    <3>1. \E i : i \in Info
      <4>1. PICK d \in endpoints : d.handle = h
        BY <2>3 DEF EndpointDeleted, Exists
      <4>2. [name |-> d.name, type |-> d.type] \in Info
        BY <4>1 DEF Info, Descriptor
      <4>3. QED
        BY <4>2
    <3>2. Invalid(h) \in Sample
      BY <2>0, <3>1
    <3>3. queue' \in [Listeners -> Seq(Sample)]
      <4>1. PICK samples \in {<<Invalid(h)>>, <<Invalid(h), Invalid(h)>>} :
              Deliver(h, samples)
        BY <2>3 DEF EndpointDeleted
      <4>2. <<Invalid(h)>> \in Seq(Sample) /\ <<Invalid(h), Invalid(h)>> \in Seq(Sample)
        BY <3>2
      <4>3. samples \in Seq(Sample)
        BY <4>1, <4>2
      <4>4. QED
        BY <4>1, <4>3 DEF Deliver
    <3>4. QED
      BY <2>3, <3>3 DEF EndpointDeleted, listenerVars
  <2>4. ASSUME NEW l \in Listeners, TakeSamples(l) PROVE CacheTypeOK'
    BY <2>4 DEF TakeSamples, environmentVars
  <2>5. ASSUME NEW l \in Listeners, ApplySample(l) PROVE CacheTypeOK'
    <3>1. /\ Head(batch[l]) \in Sample
          /\ batch' \in [Listeners -> Seq(Sample)]
          /\ UNCHANGED <<endpoints, announced, updates, queue, phase>>
      BY <2>5 DEF ApplySample, environmentVars
    <3>2. Head(batch[l]).handle \in Handles /\ Head(batch[l]).info \in Info
      BY <3>1 DEF Sample
    <3>3. ASSUME NEW h \in Handles, NEW i \in Info, AddInformation(l, h, i)
          PROVE  CacheTypeOK'
      <4>1. i.name \in Names /\ i.type \in Types
        BY DEF Info
      <4>2. count[l][i.name][i.type] + 1 \in Nat
        BY <4>1
      <4>3. count' \in [Listeners -> [Names -> [Types -> Nat]]]
        BY <3>3, <4>1, <4>2, CountUpdate DEF AddInformation
      <4>4. QED
        <5>1. /\ keys' \in [Listeners -> SUBSET Names]
              /\ corrupted' = corrupted
          BY <3>3, <4>1 DEF AddInformation
        <5>2. descriptors' \in [Listeners -> Seq(Descriptor)]
          BY <2>0, <3>3 DEF AddInformation
        <5>3. QED
          BY <3>1, <4>3, <5>1, <5>2
    <3>4. ASSUME NEW h \in Handles, RemoveInformation(l, h) PROVE CacheTypeOK'
      <4>1. CASE Entries(l, h) = {}
        BY <3>1, <3>4, <4>1 DEF RemoveInformation
      <4>2. CASE Entries(l, h) # {}
        <5>1. PICK k \in Entries(l, h) : RemoveEntry(l, k)
          BY <3>4, <4>2 DEF RemoveInformation
        <5>2. k \in 1..Len(descriptors[l]) /\ descriptors[l][k] \in Descriptor
          BY <5>1 DEF Entries
        <5>3. descriptors' \in [Listeners -> Seq(Descriptor)]
          BY <5>1, <5>2, RemoveAtFacts DEF RemoveEntry
        <5> DEFINE d == descriptors[l][k]
        <5>4. d.name \in Names /\ d.type \in Types
          BY <5>2 DEF Descriptor
        <5>5. CASE count[l][d.name][d.type] = 0
          BY <3>1, <5>1, <5>3, <5>5 DEF RemoveEntry
        <5>6. CASE count[l][d.name][d.type] # 0
          <6>1. count[l][d.name][d.type] - 1 \in Nat
            BY <5>4, <5>6
          <6>2. count' \in [Listeners -> [Names -> [Types -> Nat]]]
            <7>1. count' = [count EXCEPT ![l][d.name][d.type] = count[l][d.name][d.type] - 1]
              BY <5>1, <5>6 DEF RemoveEntry
            <7>2. [count EXCEPT ![l][d.name][d.type] = count[l][d.name][d.type] - 1]
                    \in [Listeners -> [Names -> [Types -> Nat]]]
              BY <5>4, <6>1, CountUpdate
            <7>3. QED
              BY <7>1, <7>2
          <6>3. /\ \/ keys' = [keys EXCEPT ![l] = @ \ {d.name}]
                   \/ keys' = [keys EXCEPT ![l] = @ \cup {d.name}]
                /\ corrupted' = corrupted
            BY <5>1, <5>6, Zenon DEF RemoveEntry
          <6>4. QED
            <7>1. keys' \in [Listeners -> SUBSET Names]
              <8>1. keys[l] \ {d.name} \subseteq Names /\ keys[l] \cup {d.name} \subseteq Names
                BY <5>4
              <8>2. QED
                BY <6>3, <8>1
            <7>2. corrupted' \in BOOLEAN
              BY <6>3, Zenon
            <7>3. QED
              BY <3>1, <5>3, <6>2, <7>1, <7>2
        <5>7. QED
          BY <5>5, <5>6
      <4>3. QED
        BY <4>1, <4>2
    <3>5. QED
      BY <2>5, <3>2, <3>3, <3>4 DEF ApplySample
  <2>6. ASSUME NEW l \in Listeners, TriggerGraphGuardCondition(l) PROVE CacheTypeOK'
    BY <2>6 DEF TriggerGraphGuardCondition, environmentVars
  <2>7. CASE UNCHANGED cacheVars
    BY <2>7 DEF cacheVars
  <2>8. QED
    BY <2>1, <2>2, <2>3, <2>4, <2>5, <2>6, <2>7 DEF CacheNext, EndpointStep, ListenerStep
<1>3. QED
  BY <1>1, <1>2, PTL DEF CacheSpec

---------------------------------------------------------------------------
\* The list and the map of each listener agree after every sample, so the type
\* that remove_information looks up in a multiset is always there.
CacheInv == CacheConsistent /\ NoBadErase

\* What CacheInv says about one listener.
Agree(list, ks, c) ==
  \A n \in Names :
    /\ \A t \in Types : c[n][t] = Cardinality(Matches(list, n, t))
    /\ n \in ks <=> \E t \in Types : c[n][t] > 0

\* add_information keeps list and map in agreement.
LEMMA AddAgrees ==
  ASSUME CacheTypeOK, NEW l \in Listeners, NEW h \in Handles, NEW i \in Info,
         Agree(descriptors[l], keys[l], count[l]), AddInformation(l, h, i)
  PROVE  Agree(descriptors'[l], keys'[l], count'[l])
<1> DEFINE d == DescriptorOf(h, i)
<1>1. d \in Descriptor /\ d.name = i.name /\ d.type = i.type
      /\ i.name \in Names /\ i.type \in Types
  BY DEF DescriptorOf, Descriptor, Info
<1>2. /\ descriptors[l] \in Seq(Descriptor)
      /\ count[l] \in [Names -> [Types -> Nat]]
  BY DEF CacheTypeOK
<1>3. /\ descriptors'[l] = Append(descriptors[l], d)
      /\ keys'[l] = keys[l] \cup {i.name}
      /\ \A n \in Names, t \in Types :
           count'[l][n][t] = count[l][n][t] + (IF d.name = n /\ d.type = t THEN 1 ELSE 0)
  BY <1>1, <1>2 DEF AddInformation, CacheTypeOK
<1>4. ASSUME NEW n \in Names, NEW t \in Types
      PROVE  count'[l][n][t] = Cardinality(Matches(descriptors'[l], n, t))
  <2>1. Cardinality(Matches(descriptors'[l], n, t)) =
          Cardinality(Matches(descriptors[l], n, t))
            + (IF d.name = n /\ d.type = t THEN 1 ELSE 0)
    BY <1>1, <1>2, <1>3, MatchesAppend
  <2>2. QED
    BY <1>3, <2>1 DEF Agree
<1>5. ASSUME NEW n \in Names
      PROVE  n \in keys'[l] <=> \E t \in Types : count'[l][n][t] > 0
  <2>1. CASE n = i.name
    <3>1. count[l][n][i.type] \in Nat /\ count'[l][n][i.type] = count[l][n][i.type] + 1
      BY <1>1, <1>2, <1>3, <2>1
    <3>2. QED
      BY <1>1, <1>3, <2>1, <3>1
  <2>2. CASE n # i.name
    <3>1. \A t \in Types : count'[l][n][t] = count[l][n][t]
      BY <1>1, <1>2, <1>3, <2>2
    <3>2. QED
      BY <1>3, <2>2, <3>1 DEF Agree
  <2>3. QED
    BY <2>1, <2>2
<1>6. QED
  BY <1>4, <1>5 DEF Agree

\* remove_information keeps them in agreement too, and finds the type it erases.
LEMMA RemoveAgrees ==
  ASSUME CacheTypeOK, NEW l \in Listeners, NEW k \in DOMAIN descriptors[l],
         Agree(descriptors[l], keys[l], count[l]), RemoveEntry(l, k)
  PROVE  Agree(descriptors'[l], keys'[l], count'[l]) /\ corrupted' = corrupted
<1> DEFINE d == descriptors[l][k]
<1>1. /\ descriptors[l] \in Seq(Descriptor)
      /\ k \in 1..Len(descriptors[l])
      /\ count[l] \in [Names -> [Types -> Nat]]
  BY DEF CacheTypeOK
<1>2. d \in Descriptor /\ d.name \in Names /\ d.type \in Types
  <2>1. d \in Descriptor
    BY <1>1
  <2>2. QED
    BY <2>1 DEF Descriptor
<1>3. count[l][d.name][d.type] # 0
  <2>1. k \in Matches(descriptors[l], d.name, d.type)
    BY <1>1 DEF Matches
  <2>2. IsFiniteSet(Matches(descriptors[l], d.name, d.type))
    BY <1>1, MatchesFinite
  <2>3. Cardinality(Matches(descriptors[l], d.name, d.type)) # 0
    BY <2>1, <2>2, FS_EmptySet
  <2>4. QED
    BY <1>2, <2>3 DEF Agree
<1>4. /\ count' = [count EXCEPT ![l][d.name][d.type] = @ - 1]
      /\ keys' = [keys EXCEPT ![l] =
           IF \A t \in Types : count'[l][d.name][t] = 0
           THEN @ \ {d.name} ELSE @ \cup {d.name}]
      /\ descriptors' = [descriptors EXCEPT ![l] = RemoveAt(@, k)]
      /\ corrupted' = corrupted
  BY <1>3 DEF RemoveEntry
<1>5. \A n \in Names, t \in Types :
        count'[l][n][t] = count[l][n][t] - (IF d.name = n /\ d.type = t THEN 1 ELSE 0)
  BY <1>1, <1>2, <1>4 DEF CacheTypeOK
<1>6. ASSUME NEW n \in Names, NEW t \in Types
      PROVE  count'[l][n][t] = Cardinality(Matches(descriptors'[l], n, t))
             /\ count'[l][n][t] \in Nat
  <2>1. descriptors'[l] = RemoveAt(descriptors[l], k)
    BY <1>4 DEF CacheTypeOK
  <2>2. Cardinality(Matches(descriptors'[l], n, t)) =
          Cardinality(Matches(descriptors[l], n, t))
            - (IF d.name = n /\ d.type = t THEN 1 ELSE 0)
    BY <1>1, <2>1, MatchesRemove
  <2>3. Cardinality(Matches(descriptors'[l], n, t)) \in Nat
    BY <1>1, <2>1, RemoveAtFacts, MatchesFinite
  <2>4. QED
    BY <1>5, <2>2, <2>3 DEF Agree
<1>7. ASSUME NEW n \in Names
      PROVE  n \in keys'[l] <=> \E t \in Types : count'[l][n][t] > 0
  <2>1. CASE n = d.name
    <3>1. n \in keys'[l] <=> ~ \A t \in Types : count'[l][n][t] = 0
      BY <1>4, <2>1 DEF CacheTypeOK
    <3>2. QED
      BY <1>6, <3>1
  <2>2. CASE n # d.name
    <3>1. n \in keys'[l] <=> n \in keys[l]
      BY <1>4, <2>2 DEF CacheTypeOK
    <3>2. \A t \in Types : count'[l][n][t] = count[l][n][t]
      BY <1>1, <1>5, <2>2
    <3>3. QED
      BY <3>1, <3>2 DEF Agree
  <2>3. QED
    BY <2>1, <2>2
<1>8. QED
  BY <1>4, <1>6, <1>7 DEF Agree

\* The list and the map of a listener always agree, and because of that
\* remove_information never erases the end() of a multiset, whatever samples
\* the middleware sends and in whatever order.
THEOREM CacheCorrect == CacheSpec => [](CacheConsistent /\ NoBadErase)
<1>1. CacheInit => CacheInv
  <2> SUFFICES ASSUME CacheInit PROVE CacheInv
    OBVIOUS
  <2>1. ASSUME NEW l \in Listeners, NEW n \in Names, NEW t \in Types
        PROVE  count[l][n][t] = 0 /\ Cardinality(Matches(descriptors[l], n, t)) = 0
    <3>1. Matches(descriptors[l], n, t) = {}
      BY DEF CacheInit, Matches
    <3>2. QED
      BY <3>1, FS_EmptySet DEF CacheInit
  <2>2. QED
    BY <2>1 DEF CacheInit, CacheInv, CacheConsistent, NoBadErase
<1>2. CacheTypeOK /\ CacheInv /\ [CacheNext]_cacheVars => CacheInv'
  <2> SUFFICES ASSUME CacheTypeOK, CacheInv, [CacheNext]_cacheVars PROVE CacheInv'
    OBVIOUS
  <2>0. \A l \in Listeners : Agree(descriptors[l], keys[l], count[l])
    BY DEF CacheInv, CacheConsistent, Agree
  <2>1. SUFFICES /\ corrupted' = corrupted
                 /\ \A l \in Listeners : Agree(descriptors'[l], keys'[l], count'[l])
    BY DEF CacheInv, CacheConsistent, Agree, NoBadErase
  \* Every step but ApplySample leaves all caches alone.
  <2>2. CASE UNCHANGED <<descriptors, keys, count, corrupted>>
    BY <2>0, <2>2
  <2>3. ASSUME NEW l \in Listeners, ApplySample(l)
        PROVE  /\ corrupted' = corrupted
               /\ \A m \in Listeners : Agree(descriptors'[m], keys'[m], count'[m])
    <3> DEFINE s == Head(batch[l])
    <3>1. s \in Sample
      BY <2>3 DEF ApplySample, CacheTypeOK
    <3>2. s.handle \in Handles /\ s.info \in Info
      BY <3>1 DEF Sample
    <3>3. CASE AddInformation(l, s.handle, s.info)
      <4>1. Agree(descriptors'[l], keys'[l], count'[l])
        BY <2>0, <3>2, <3>3, AddAgrees
      <4>2. \A m \in Listeners \ {l} : /\ descriptors'[m] = descriptors[m]
                                        /\ keys'[m] = keys[m] /\ count'[m] = count[m]
        BY <3>3 DEF AddInformation, CacheTypeOK
      <4>3. corrupted' = corrupted
        BY <3>3 DEF AddInformation
      <4>4. QED
        BY <2>0, <4>1, <4>2, <4>3
    <3>4. CASE RemoveInformation(l, s.handle) /\ Entries(l, s.handle) # {}
      <4>1. PICK k \in Entries(l, s.handle) : RemoveEntry(l, k)
        BY <3>4 DEF RemoveInformation
      <4>2. k \in DOMAIN descriptors[l]
        BY <4>1 DEF Entries
      <4>3. Agree(descriptors'[l], keys'[l], count'[l]) /\ corrupted' = corrupted
        BY <2>0, <4>1, <4>2, RemoveAgrees
      <4>4. \A m \in Listeners \ {l} : /\ descriptors'[m] = descriptors[m]
                                        /\ keys'[m] = keys[m] /\ count'[m] = count[m]
        BY <4>1 DEF RemoveEntry, CacheTypeOK
      <4>5. QED
        BY <2>0, <4>3, <4>4
    <3>5. CASE RemoveInformation(l, s.handle) /\ Entries(l, s.handle) = {}
      BY <2>2, <3>5 DEF RemoveInformation
    <3>6. QED
      BY <2>3, <3>3, <3>4, <3>5 DEF ApplySample
  <2>4. CASE EndpointStep
    BY <2>2, <2>4 DEF EndpointStep, EndpointCreated, EndpointUpdated, EndpointDeleted,
         listenerVars
  <2>5. ASSUME NEW l \in Listeners, TakeSamples(l) \/ TriggerGraphGuardCondition(l)
        PROVE  UNCHANGED <<descriptors, keys, count, corrupted>>
    BY <2>5 DEF TakeSamples, TriggerGraphGuardCondition
  <2>6. CASE UNCHANGED cacheVars
    BY <2>2, <2>6 DEF cacheVars
  <2>7. QED
    BY <2>2, <2>3, <2>4, <2>5, <2>6 DEF CacheNext, ListenerStep
<1>3. CacheSpec => []CacheInv
  BY <1>1, <1>2, CacheTypeCorrect, PTL DEF CacheSpec
<1>4. QED
  BY <1>3, PTL DEF CacheInv

---------------------------------------------------------------------------
(* The caches and the endpoints: what a listener has still to apply makes  *)
(* up the difference.                                                      *)

\* The samples that listener l has not applied.
Pending(l) == batch[l] \o queue[l]

About(sample) == DescriptorOf(sample.handle, sample.info)

\* From place i on, p holds no sample of h; none that removes h; or one that removes h
\* before any adds it.
Silent(p, h, i) == \A j \in DOMAIN p : j > i => p[j].handle # h

NoRemoval(p, h, i) == \A j \in DOMAIN p : j > i /\ p[j].handle = h => p[j].valid

Removal(p, h, i) ==
  \E k \in DOMAIN p :
    /\ k > i /\ p[k].handle = h /\ ~p[k].valid
    /\ \A j \in DOMAIN p : i < j /\ j < k /\ p[j].handle = h => ~p[j].valid

\* Samples that are queued behind the others.
LEMMA Queued ==
  ASSUME NEW p \in Seq(Sample), NEW more \in Seq(Sample),
         NEW h \in Handles, NEW i \in Nat, i <= Len(p)
  PROVE  /\ p \o more \in Seq(Sample)
         /\ Len(p \o more) = Len(p) + Len(more)
         /\ \A j \in 1..Len(p) : (p \o more)[j] = p[j]
         /\ \A j \in 1..Len(more) : (p \o more)[Len(p) + j] = more[j]
         /\ Silent(p, h, i) /\ Silent(more, h, 0) => Silent(p \o more, h, i)
         /\ NoRemoval(p, h, i) /\ NoRemoval(more, h, 0) => NoRemoval(p \o more, h, i)
         /\ Removal(p, h, i) => Removal(p \o more, h, i)
         /\ Silent(p, h, i) /\ Removal(more, h, 0) => Removal(p \o more, h, i)
<1> DEFINE q == p \o more
<1>1. q \in Seq(Sample) /\ Len(q) = Len(p) + Len(more)
      /\ \A j \in 1..(Len(p) + Len(more)) : q[j] = IF j <= Len(p) THEN p[j] ELSE more[j - Len(p)]
  BY ConcatProperties
<1>2. Len(p) \in Nat /\ Len(more) \in Nat /\ DOMAIN p = 1..Len(p) /\ DOMAIN more = 1..Len(more)
      /\ DOMAIN q = 1..(Len(p) + Len(more))
  BY <1>1, LenProperties
<1> HIDE DEF q
<1>3. \A j \in 1..Len(p) : q[j] = p[j]
  BY <1>1, <1>2
<1>4. \A j \in 1..Len(more) : q[Len(p) + j] = more[j]
  BY <1>1, <1>2
<1>5. \A j \in DOMAIN q : j \in 1..Len(p) \/ \E k \in 1..Len(more) : j = Len(p) + k
  <2> SUFFICES ASSUME NEW j \in 1..(Len(p) + Len(more)), j \notin 1..Len(p)
               PROVE  \E k \in 1..Len(more) : j = Len(p) + k
    BY <1>2
  <2>1. j - Len(p) \in 1..Len(more) /\ j = Len(p) + (j - Len(p))
    BY <1>2
  <2> QED
    BY <2>1
<1>6. ASSUME Silent(p, h, i), Silent(more, h, 0) PROVE Silent(q, h, i)
  <2> SUFFICES ASSUME NEW j \in DOMAIN q, j > i
               PROVE  q[j].handle # h
    BY DEF Silent
  <2>1. CASE j \in 1..Len(p)
    BY <1>2, <1>3, <1>6, <2>1 DEF Silent
  <2>2. ASSUME NEW k \in 1..Len(more), j = Len(p) + k
        PROVE  q[j].handle # h
    BY <1>2, <1>4, <1>6, <2>2 DEF Silent
  <2> QED
    BY <1>5, <2>1, <2>2
<1>7. ASSUME NoRemoval(p, h, i), NoRemoval(more, h, 0) PROVE NoRemoval(q, h, i)
  <2> SUFFICES ASSUME NEW j \in DOMAIN q, j > i, q[j].handle = h
               PROVE  q[j].valid
    BY DEF NoRemoval
  <2>1. CASE j \in 1..Len(p)
    BY <1>2, <1>3, <1>7, <2>1 DEF NoRemoval
  <2>2. ASSUME NEW k \in 1..Len(more), j = Len(p) + k
        PROVE  q[j].valid
    BY <1>2, <1>4, <1>7, <2>2 DEF NoRemoval
  <2> QED
    BY <1>5, <2>1, <2>2
<1>8. ASSUME Removal(p, h, i) PROVE Removal(q, h, i)
  <2>1. PICK k \in 1..Len(p) :
          /\ k > i /\ p[k].handle = h /\ ~p[k].valid
          /\ \A j \in 1..Len(p) : i < j /\ j < k /\ p[j].handle = h => ~p[j].valid
    BY <1>2, <1>8 DEF Removal
  <2>2. \A j \in DOMAIN q : j < k => j \in 1..Len(p)
    BY <1>2
  <2>3. k \in DOMAIN q /\ q[k] = p[k]
    BY <1>2, <1>3
  <2> QED
    BY <1>3, <2>1, <2>2, <2>3 DEF Removal
<1>9. ASSUME Silent(p, h, i), Removal(more, h, 0) PROVE Removal(q, h, i)
  <2>1. PICK k \in 1..Len(more) :
          /\ k > 0 /\ more[k].handle = h /\ ~more[k].valid
          /\ \A j \in 1..Len(more) : 0 < j /\ j < k /\ more[j].handle = h => ~more[j].valid
    BY <1>2, <1>9 DEF Removal
  <2>2. Len(p) + k \in DOMAIN q /\ Len(p) + k > i /\ q[Len(p) + k] = more[k]
    BY <1>2, <1>4
  <2>3. ASSUME NEW j \in DOMAIN q, i < j, j < Len(p) + k, q[j].handle = h
        PROVE  ~q[j].valid
    <3>1. j \notin 1..Len(p)
      BY <1>2, <1>3, <1>9, <2>3 DEF Silent
    <3>2. PICK m \in 1..Len(more) : j = Len(p) + m
      BY <1>5, <3>1
    <3>3. 0 < m /\ m < k
      BY <1>2, <2>3, <3>2
    <3> QED
      BY <1>4, <2>1, <2>3, <3>2, <3>3
  <2> QED
    BY <2>1, <2>2, <2>3 DEF Removal
<1> QED
  BY <1>1, <1>3, <1>4, <1>6, <1>7, <1>8, <1>9 DEF q

\* The first sample is applied, and the others move up.
LEMMA Applied ==
  ASSUME NEW p \in Seq(Sample), p # <<>>, NEW h \in Handles, NEW i \in Nat
  PROVE  /\ Tail(p) \in Seq(Sample)
         /\ Len(Tail(p)) = Len(p) - 1
         /\ \A j \in 1..(Len(p) - 1) : Tail(p)[j] = p[j + 1]
         /\ Silent(p, h, i + 1) => Silent(Tail(p), h, i)
         /\ NoRemoval(p, h, i + 1) => NoRemoval(Tail(p), h, i)
         /\ Removal(p, h, i + 1) => Removal(Tail(p), h, i)
         /\ Removal(p, h, 0) /\ p[1].handle # h => Removal(p, h, 1)
<1> DEFINE q == Tail(p)
<1>1. q \in Seq(Sample) /\ Len(q) = Len(p) - 1 /\ \A j \in 1..Len(q) : q[j] = p[j + 1]
  BY HeadTailProperties
<1>2. Len(p) \in Nat /\ Len(p) >= 1 /\ DOMAIN p = 1..Len(p) /\ DOMAIN q = 1..(Len(p) - 1)
  BY <1>1, LenProperties, EmptySeq
<1> HIDE DEF q
<1>3. \A j \in DOMAIN q : j + 1 \in DOMAIN p /\ q[j] = p[j + 1]
  BY <1>1, <1>2
<1>4. ASSUME Silent(p, h, i + 1) PROVE Silent(q, h, i)
  BY <1>2, <1>3, <1>4 DEF Silent
<1>5. ASSUME NoRemoval(p, h, i + 1) PROVE NoRemoval(q, h, i)
  BY <1>2, <1>3, <1>5 DEF NoRemoval
<1>6. ASSUME Removal(p, h, i + 1) PROVE Removal(q, h, i)
  <2>1. PICK k \in 1..Len(p) :
          /\ k > i + 1 /\ p[k].handle = h /\ ~p[k].valid
          /\ \A j \in 1..Len(p) : i + 1 < j /\ j < k /\ p[j].handle = h => ~p[j].valid
    BY <1>2, <1>6 DEF Removal
  <2>2. k - 1 \in DOMAIN q /\ k - 1 > i /\ q[k - 1] = p[k]
    BY <1>2, <1>3, <2>1
  <2>3. ASSUME NEW j \in DOMAIN q, i < j, j < k - 1, q[j].handle = h
        PROVE  ~q[j].valid
    BY <1>2, <1>3, <2>1, <2>3
  <2> QED
    BY <2>1, <2>2, <2>3 DEF Removal
<1>7. ASSUME Removal(p, h, 0), p[1].handle # h PROVE Removal(p, h, 1)
  <2>1. PICK k \in 1..Len(p) :
          /\ k > 0 /\ p[k].handle = h /\ ~p[k].valid
          /\ \A j \in 1..Len(p) : 0 < j /\ j < k /\ p[j].handle = h => ~p[j].valid
    BY <1>2, <1>7 DEF Removal
  <2>2. k > 1
    BY <1>2, <1>7, <2>1
  <2> QED
    BY <1>2, <2>1, <2>2 DEF Removal
<1> QED
  BY <1>1, <1>4, <1>5, <1>6, <1>7 DEF q

\* An endpoint is in the list and not about to be removed, or about to be added.
KnownBy(list, p, d) ==
  \/ (\E i \in DOMAIN list : list[i] = d) /\ NoRemoval(p, d.handle, 0)
  \/ \E j \in DOMAIN p : p[j].valid /\ About(p[j]) = d /\ NoRemoval(p, d.handle, j)

\* Samples behind the others keep an endpoint known, unless they remove it.
LEMMA KnownQueued ==
  ASSUME NEW list \in Seq(Descriptor), NEW p \in Seq(Sample), NEW more \in Seq(Sample),
         NEW d \in Descriptor, KnownBy(list, p, d), NoRemoval(more, d.handle, 0)
  PROVE  KnownBy(list, p \o more, d)
<1>1. Len(p) \in Nat /\ DOMAIN p = 1..Len(p) /\ d.handle \in Handles
  BY LenProperties DEF Descriptor
<1>2. CASE (\E i \in DOMAIN list : list[i] = d) /\ NoRemoval(p, d.handle, 0)
  BY <1>1, <1>2, Queued DEF KnownBy
<1>3. ASSUME NEW j \in DOMAIN p, p[j].valid, About(p[j]) = d, NoRemoval(p, d.handle, j)
      PROVE  KnownBy(list, p \o more, d)
  <2>1. j \in Nat /\ j <= Len(p)
    BY <1>1
  <2>2. /\ p \o more \in Seq(Sample) /\ Len(p \o more) = Len(p) + Len(more)
        /\ (p \o more)[j] = p[j] /\ NoRemoval(p \o more, d.handle, j)
    BY <1>1, <1>3, <2>1, Queued
  <2>3. j \in DOMAIN (p \o more)
    BY <1>1, <2>2, LenProperties
  <2> QED
    BY <1>3, <2>2, <2>3 DEF KnownBy
<1> QED
  BY <1>2, <1>3 DEF KnownBy

\* An endpoint whose sample has been queued is known.
LEMMA KnownFromNow ==
  ASSUME NEW list, NEW p \in Seq(Sample), NEW h \in Handles, NEW info \in Info
  PROVE  KnownBy(list, p \o <<Valid(h, info)>>, DescriptorOf(h, info))
<1> DEFINE more == <<Valid(h, info)>>
           q == p \o more
<1>1. more \in Seq(Sample) /\ Len(more) = 1 /\ more[1] = Valid(h, info)
  BY DEF Valid, Sample, Info
<1>2. q \in Seq(Sample) /\ Len(q) = Len(p) + 1 /\ Len(p) \in Nat
  BY <1>1, ConcatProperties, LenProperties
<1>3. q[Len(p) + 1] = Valid(h, info)
  BY <1>1, <1>2, ConcatProperties
<1>4. DOMAIN q = 1..(Len(p) + 1)
  BY <1>2, LenProperties
<1> HIDE DEF q
<1>5. NoRemoval(q, h, Len(p) + 1)
  BY <1>2, <1>4 DEF NoRemoval
<1>6. Valid(h, info).valid /\ About(Valid(h, info)) = DescriptorOf(h, info)
      /\ DescriptorOf(h, info).handle = h
  BY DEF Valid, About, DescriptorOf
<1>7. KnownBy(list, q, DescriptorOf(h, info))
  BY <1>2, <1>3, <1>4, <1>5, <1>6 DEF KnownBy
<1> QED
  BY <1>7 DEF q

\* A sample is applied that adds an entry.
LEMMA KnownAfterAdd ==
  ASSUME NEW list \in Seq(Descriptor), NEW p \in Seq(Sample), p # <<>>, p[1].valid,
         NEW d \in Descriptor, KnownBy(list, p, d), About(p[1]) \in Descriptor
  PROVE  KnownBy(Append(list, About(p[1])), Tail(p), d)
<1> DEFINE more == Append(list, About(p[1]))
<1>1. /\ DOMAIN more = 1..(Len(list) + 1) /\ Len(list) \in Nat /\ DOMAIN list = 1..Len(list)
      /\ more[Len(list) + 1] = About(p[1]) /\ \A i \in 1..Len(list) : more[i] = list[i]
  OBVIOUS
<1>2. Len(p) \in Nat /\ DOMAIN p = 1..Len(p) /\ d.handle \in Handles
      /\ Tail(p) \in Seq(Sample) /\ Len(Tail(p)) = Len(p) - 1
      /\ DOMAIN Tail(p) = 1..(Len(p) - 1)
  BY LenProperties, HeadTailProperties DEF Descriptor
<1> HIDE DEF more
<1>3. NoRemoval(p, d.handle, 1) => NoRemoval(Tail(p), d.handle, 0)
  <2>1. NoRemoval(p, d.handle, 0 + 1) => NoRemoval(Tail(p), d.handle, 0)
    BY <1>2, Applied
  <2> QED
    BY <2>1
<1>4. CASE (\E i \in DOMAIN list : list[i] = d) /\ NoRemoval(p, d.handle, 0)
  <2>1. NoRemoval(p, d.handle, 1)
    BY <1>2, <1>4 DEF NoRemoval
  <2>2. \E i \in DOMAIN more : more[i] = d
    BY <1>1, <1>4
  <2> QED
    BY <1>3, <2>1, <2>2 DEF KnownBy, more
<1>5. ASSUME NEW j \in DOMAIN p, p[j].valid, About(p[j]) = d, NoRemoval(p, d.handle, j)
      PROVE  KnownBy(more, Tail(p), d)
  <2>1. CASE j = 1
    <3>1. \E i \in DOMAIN more : more[i] = d
      BY <1>1, <1>5, <2>1
    <3> QED
      BY <1>3, <1>5, <2>1, <3>1 DEF KnownBy
  <2>2. CASE j # 1
    <3>1. j - 1 \in DOMAIN Tail(p) /\ j - 1 \in Nat /\ (j - 1) + 1 = j
      BY <1>2, <2>2
    <3>2. NoRemoval(Tail(p), d.handle, j - 1) /\ Tail(p)[j - 1] = p[j]
      BY <1>2, <1>5, <3>1, Applied
    <3> QED
      BY <1>5, <3>1, <3>2 DEF KnownBy
  <2> QED
    BY <2>1, <2>2
<1> QED
  BY <1>4, <1>5 DEF KnownBy, more

\* A sample is applied that removes the entry of another endpoint, or none.
LEMMA KnownAfterRemoval ==
  ASSUME NEW list \in Seq(Descriptor), NEW p \in Seq(Sample), p # <<>>, ~p[1].valid,
         NEW d \in Descriptor, KnownBy(list, p, d)
  PROVE  /\ KnownBy(list, Tail(p), d)
         /\ \A k \in 1..Len(list) :
              list[k].handle = p[1].handle => KnownBy(RemoveAt(list, k), Tail(p), d)
<1>1. Len(p) \in Nat /\ Len(p) >= 1 /\ DOMAIN p = 1..Len(p) /\ d.handle \in Handles
      /\ Tail(p) \in Seq(Sample) /\ Len(Tail(p)) = Len(p) - 1
      /\ DOMAIN Tail(p) = 1..(Len(p) - 1)
  BY LenProperties, HeadTailProperties, EmptySeq DEF Descriptor
<1>2. CASE (\E i \in DOMAIN list : list[i] = d) /\ NoRemoval(p, d.handle, 0)
  <2>1. NoRemoval(p, d.handle, 0 + 1)
    BY <1>1, <1>2 DEF NoRemoval
  <2>2. NoRemoval(Tail(p), d.handle, 0)
    BY <1>1, <2>1, Applied
  <2>3. p[1].handle # d.handle
    BY <1>1, <1>2 DEF NoRemoval
  <2>4. ASSUME NEW k \in 1..Len(list), list[k].handle = p[1].handle
        PROVE  \E i \in DOMAIN RemoveAt(list, k) : RemoveAt(list, k)[i] = d
    <3>1. PICK i \in 1..Len(list) : list[i] = d
      BY <1>2
    <3>2. i # k
      BY <2>3, <2>4, <3>1
    <3>3. DOMAIN RemoveAt(list, k) = 1..(Len(list) - 1) /\ Len(list) \in Nat
      BY RemoveAtFacts, LenProperties
    <3>4. CASE i < k
      <4>1. i \in 1..(Len(list) - 1)
        BY <3>1, <3>3, <3>4
      <4>2. RemoveAt(list, k)[i] = list[i]
        BY <3>4, <4>1, RemoveAtFacts
      <4> QED
        BY <3>1, <3>3, <4>1, <4>2
    <3>5. CASE k < i
      <4>1. i - 1 \in 1..(Len(list) - 1) /\ ~(i - 1 < k) /\ (i - 1) + 1 = i
        BY <3>1, <3>3, <3>5
      <4>2. RemoveAt(list, k)[i - 1] = list[(i - 1) + 1]
        BY <4>1, RemoveAtFacts
      <4> QED
        BY <3>1, <3>3, <4>1, <4>2
    <3> QED
      BY <3>1, <3>2, <3>3, <3>4, <3>5
  <2> QED
    BY <1>2, <2>2, <2>4 DEF KnownBy
<1>3. ASSUME NEW j \in DOMAIN p, p[j].valid, About(p[j]) = d, NoRemoval(p, d.handle, j)
      PROVE  \A other : KnownBy(other, Tail(p), d)
  <2>0. j # 1
    BY <1>3
  <2>1. j - 1 \in DOMAIN Tail(p) /\ j - 1 \in Nat /\ (j - 1) + 1 = j
    BY <1>1, <2>0
  <2>2. NoRemoval(Tail(p), d.handle, j - 1) /\ Tail(p)[j - 1] = p[j]
    BY <1>1, <1>3, <2>1, Applied
  <2> QED
    BY <1>3, <2>1, <2>2 DEF KnownBy
<1> QED
  BY <1>2, <1>3 DEF KnownBy

\* An entry, or a sample at place i that adds one, stands for an endpoint of eps that
\* no further sample is about, or will be removed.
Justified(p, d, eps, i) == Removal(p, d.handle, i) \/ (d \in eps /\ Silent(p, d.handle, i))

\* A list with one entry for each handle, all entries and samples justified.
ExactFor(list, p, eps) ==
  /\ \A i, k \in DOMAIN list : list[i].handle = list[k].handle => i = k
  /\ \A i \in DOMAIN list : Justified(p, list[i], eps, 0)
  /\ \A j \in DOMAIN p : p[j].valid => Justified(p, About(p[j]), eps, j)

\* What stays justified when the first sample has been applied.
LEMMA JustifiedApplied ==
  ASSUME NEW p \in Seq(Sample), p # <<>>, NEW d \in Descriptor, NEW eps
  PROVE  /\ Justified(p, d, eps, 0) /\ p[1].handle # d.handle => Justified(Tail(p), d, eps, 0)
         /\ \A i \in Nat : Justified(p, d, eps, i + 1) => Justified(Tail(p), d, eps, i)
<1>1. d.handle \in Handles
  BY DEF Descriptor
<1>2. \A i \in Nat : Justified(p, d, eps, i + 1) => Justified(Tail(p), d, eps, i)
  BY <1>1, Applied DEF Justified
<1>3. ASSUME Justified(p, d, eps, 0), p[1].handle # d.handle
      PROVE  Justified(Tail(p), d, eps, 0)
  <2>1. Silent(p, d.handle, 0) => Silent(p, d.handle, 0 + 1)
    BY LenProperties DEF Silent
  <2>2. Removal(p, d.handle, 0) => Removal(p, d.handle, 0 + 1)
    BY <1>1, <1>3, Applied
  <2>3. Justified(p, d, eps, 0 + 1)
    BY <1>3, <2>1, <2>2 DEF Justified
  <2> QED
    BY <1>2, <2>3
<1> QED
  BY <1>2, <1>3

\* The samples that remain stay justified.
LEMMA RemainingJustified ==
  ASSUME NEW list, NEW p \in Seq(Sample), p # <<>>, NEW eps, ExactFor(list, p, eps)
  PROVE  \A j \in DOMAIN Tail(p) :
           Tail(p)[j].valid => Justified(Tail(p), About(Tail(p)[j]), eps, j)
<1> SUFFICES ASSUME NEW j \in DOMAIN Tail(p), Tail(p)[j].valid
             PROVE  Justified(Tail(p), About(Tail(p)[j]), eps, j)
  OBVIOUS
<1>1. Len(p) \in Nat /\ DOMAIN p = 1..Len(p) /\ DOMAIN Tail(p) = 1..(Len(p) - 1)
      /\ Tail(p) \in Seq(Sample) /\ Tail(p)[j] = p[j + 1]
  BY LenProperties, HeadTailProperties
<1>2. j \in Nat /\ j + 1 \in DOMAIN p
  BY <1>1
<1>3. p[j + 1].valid /\ p[j + 1] \in Sample
  BY <1>1, <1>2
<1>4. About(p[j + 1]) \in Descriptor
  BY <1>3 DEF About, DescriptorOf, Sample, Descriptor, Info
<1>5. Justified(p, About(p[j + 1]), eps, j + 1)
  BY <1>2, <1>3 DEF ExactFor
<1> QED
  BY <1>1, <1>2, <1>4, <1>5, JustifiedApplied

\* When an entry is added there is none of its handle.
LEMMA ExactAfterAdd ==
  ASSUME NEW list \in Seq(Descriptor), NEW p \in Seq(Sample), p # <<>>, p[1].valid,
         NEW eps, ExactFor(list, p, eps)
  PROVE  ExactFor(Append(list, About(p[1])), Tail(p), eps)
<1> DEFINE d == About(p[1])
           more == Append(list, d)
<1>1. /\ Len(p) \in Nat /\ DOMAIN p = 1..Len(p) /\ 1 \in DOMAIN p /\ p[1] \in Sample
  BY LenProperties, EmptySeq
<1>2. d \in Descriptor /\ d.handle = p[1].handle
  BY <1>1 DEF About, DescriptorOf, Sample, Descriptor, Info
<1> HIDE DEF d
<1>3. /\ DOMAIN more = 1..(Len(list) + 1) /\ Len(list) \in Nat /\ DOMAIN list = 1..Len(list)
      /\ more[Len(list) + 1] = d /\ \A i \in 1..Len(list) : more[i] = list[i]
  BY <1>2
<1> HIDE DEF more
<1>4. ASSUME NEW i \in DOMAIN list
      PROVE  list[i].handle # d.handle /\ list[i] \in Descriptor
  <2>1. Justified(p, list[i], eps, 0)
    BY DEF ExactFor
  <2>2. list[i].handle = p[1].handle => ~Silent(p, list[i].handle, 0)
    BY <1>1 DEF Silent
  <2>3. list[i].handle = p[1].handle => ~Removal(p, list[i].handle, 0)
    <3> SUFFICES ASSUME list[i].handle = p[1].handle, Removal(p, list[i].handle, 0)
                 PROVE  FALSE
      OBVIOUS
    <3>1. PICK k \in 1..Len(p) :
            /\ ~p[k].valid
            /\ \A j \in 1..Len(p) : 0 < j /\ j < k /\ p[j].handle = p[1].handle => ~p[j].valid
      BY <1>1 DEF Removal
    <3>2. k # 1 /\ 1 < k
      BY <1>1, <3>1
    <3> QED
      BY <1>1, <3>1, <3>2
  <2> QED
    BY <1>2, <1>3, <2>1, <2>2, <2>3 DEF Justified
<1>5. \A i, k \in DOMAIN more : more[i].handle = more[k].handle => i = k
  BY <1>3, <1>4 DEF ExactFor
<1>6. \A i \in DOMAIN list : Justified(Tail(p), list[i], eps, 0)
  BY <1>2, <1>4, JustifiedApplied DEF ExactFor
<1>7. Justified(Tail(p), d, eps, 0)
  <2>1. Justified(p, d, eps, 0 + 1)
    BY <1>1 DEF ExactFor, d
  <2> QED
    BY <1>2, <2>1, JustifiedApplied
<1>8. \A i \in DOMAIN more : Justified(Tail(p), more[i], eps, 0)
  <2> SUFFICES ASSUME NEW i \in DOMAIN more
               PROVE  Justified(Tail(p), more[i], eps, 0)
    OBVIOUS
  <2>1. i \in DOMAIN list \/ i = Len(list) + 1
    BY <1>3
  <2> QED
    BY <1>3, <1>6, <1>7, <2>1
<1>9. ExactFor(more, Tail(p), eps)
  BY <1>5, <1>8, RemainingJustified DEF ExactFor
<1> QED
  BY <1>9 DEF more, d

\* When a removal has been applied, its handle has no entry.
LEMMA ExactAfterRemoval ==
  ASSUME NEW list \in Seq(Descriptor), NEW p \in Seq(Sample), p # <<>>, NEW eps,
         ExactFor(list, p, eps)
  PROVE  /\ (\A i \in DOMAIN list : list[i].handle # p[1].handle)
              => ExactFor(list, Tail(p), eps)
         /\ \A k \in 1..Len(list) :
              list[k].handle = p[1].handle => ExactFor(RemoveAt(list, k), Tail(p), eps)
<1>1. ASSUME \A i \in DOMAIN list : list[i].handle # p[1].handle
      PROVE  ExactFor(list, Tail(p), eps)
  <2>1. \A i \in DOMAIN list : Justified(Tail(p), list[i], eps, 0)
    BY <1>1, JustifiedApplied DEF ExactFor
  <2> QED
    BY <2>1, RemainingJustified DEF ExactFor
<1>2. ASSUME NEW k \in 1..Len(list), list[k].handle = p[1].handle
      PROVE  ExactFor(RemoveAt(list, k), Tail(p), eps)
  <2> DEFINE less == RemoveAt(list, k)
  <2>1. /\ less \in Seq(Descriptor) /\ Len(list) \in Nat /\ DOMAIN list = 1..Len(list)
        /\ DOMAIN less = 1..(Len(list) - 1)
        /\ \A i \in 1..(Len(list) - 1) : less[i] = IF i < k THEN list[i] ELSE list[i + 1]
    BY RemoveAtFacts, LenProperties
  <2> HIDE DEF less
  <2>2. ASSUME NEW i \in DOMAIN less
        PROVE  \E m \in DOMAIN list :
                 m # k /\ less[i] = list[m] /\ m = (IF i < k THEN i ELSE i + 1)
    <3>1. (IF i < k THEN i ELSE i + 1) \in DOMAIN list /\ (IF i < k THEN i ELSE i + 1) # k
      BY <2>1
    <3> QED
      BY <2>1, <3>1
  <2>3. \A i, m \in DOMAIN less : less[i].handle = less[m].handle => i = m
    <3> SUFFICES ASSUME NEW i \in DOMAIN less, NEW m \in DOMAIN less,
                        less[i].handle = less[m].handle
                 PROVE  i = m
      OBVIOUS
    <3>1. (IF i < k THEN i ELSE i + 1) = (IF m < k THEN m ELSE m + 1)
      BY <2>2 DEF ExactFor
    <3> QED
      BY <2>1, <3>1
  <2>4. ASSUME NEW i \in DOMAIN less
        PROVE  Justified(Tail(p), less[i], eps, 0)
    <3>1. PICK m \in DOMAIN list : m # k /\ less[i] = list[m]
      BY <2>2
    <3>2. list[m].handle # p[1].handle /\ list[m] \in Descriptor
      BY <1>2, <2>1, <3>1 DEF ExactFor
    <3>3. Justified(p, list[m], eps, 0)
      BY DEF ExactFor
    <3> QED
      BY <3>1, <3>2, <3>3, JustifiedApplied
  <2>5. ExactFor(less, Tail(p), eps)
    BY <2>3, <2>4, RemainingJustified DEF ExactFor
  <2> QED
    BY <2>5 DEF less
<1> QED
  BY <1>1, <1>2

\* What is justified stays so when the samples of a change are queued and the endpoints
\* have changed with them.
LEMMA JustifiedQueued ==
  ASSUME NEW p \in Seq(Sample), NEW more \in Seq(Sample), NEW d \in Descriptor,
         NEW eps, NEW later, NEW i \in Nat, i <= Len(p), Justified(p, d, eps, i),
         d \in eps => \/ d \in later /\ Silent(more, d.handle, 0)
                     \/ Removal(more, d.handle, 0)
  PROVE  Justified(p \o more, d, later, i)
<1>1. d.handle \in Handles
  BY DEF Descriptor
<1> QED
  BY <1>1, Queued DEF Justified

\* A change of an endpoint keeps the list exact, if its new samples are justified.
LEMMA ExactQueued ==
  ASSUME NEW list \in Seq(Descriptor), NEW p \in Seq(Sample), NEW more \in Seq(Sample),
         NEW eps, NEW later, ExactFor(list, p, eps),
         \A d \in Descriptor : d \in eps =>
           \/ d \in later /\ Silent(more, d.handle, 0)
           \/ Removal(more, d.handle, 0),
         \A j \in DOMAIN more : more[j].valid =>
           Justified(p \o more, About(more[j]), later, Len(p) + j)
  PROVE  ExactFor(list, p \o more, later)
<1> DEFINE q == p \o more
<1>1. /\ q \in Seq(Sample) /\ Len(q) = Len(p) + Len(more)
      /\ \A j \in 1..(Len(p) + Len(more)) :
           q[j] = IF j <= Len(p) THEN p[j] ELSE more[j - Len(p)]
  BY ConcatProperties
<1>2. /\ Len(p) \in Nat /\ Len(more) \in Nat /\ DOMAIN p = 1..Len(p)
      /\ DOMAIN more = 1..Len(more) /\ DOMAIN q = 1..(Len(p) + Len(more))
      /\ DOMAIN list = 1..Len(list)
  BY <1>1, LenProperties
<1>3. \A i \in DOMAIN list : Justified(q, list[i], later, 0)
  <2> SUFFICES ASSUME NEW i \in DOMAIN list
               PROVE  Justified(q, list[i], later, 0)
    OBVIOUS
  <2>1. list[i] \in Descriptor /\ Justified(p, list[i], eps, 0) /\ 0 <= Len(p)
    BY <1>2 DEF ExactFor
  <2> QED
    BY <2>1, JustifiedQueued
<1>4. ASSUME NEW j \in DOMAIN q, q[j].valid
      PROVE  Justified(q, About(q[j]), later, j)
  <2>1. CASE j <= Len(p)
    <3>1. j \in DOMAIN p /\ q[j] = p[j] /\ p[j] \in Sample /\ j \in Nat
      BY <1>1, <1>2, <2>1
    <3>2. Justified(p, About(p[j]), eps, j)
      BY <1>4, <3>1 DEF ExactFor
    <3>3. About(p[j]) \in Descriptor
      BY <3>1 DEF About, DescriptorOf, Sample, Descriptor, Info
    <3> QED
      BY <2>1, <3>1, <3>2, <3>3, JustifiedQueued
  <2>2. CASE ~(j <= Len(p))
    <3>1. j - Len(p) \in DOMAIN more /\ q[j] = more[j - Len(p)] /\ Len(p) + (j - Len(p)) = j
      BY <1>1, <1>2, <2>2
    <3> QED
      BY <1>4, <3>1
  <2> QED
    BY <2>1, <2>2
<1>5. ExactFor(list, q, later)
  BY <1>3, <1>4 DEF ExactFor
<1> QED
  BY <1>5

---------------------------------------------------------------------------

\* Entries and samples are with the listener of their handle.
AtListener(l) ==
  /\ \A i \in DOMAIN descriptors[l] : ListenerOf[descriptors[l][i].handle] = l
  /\ \A j \in DOMAIN Pending(l) : ListenerOf[Pending(l)[j].handle] = l

ExactAt(l) == AtListener(l) /\ ExactFor(descriptors[l], Pending(l), endpoints)

KnownAt(d) == KnownBy(descriptors[ListenerOf[d.handle]], Pending(ListenerOf[d.handle]), d)

MirrorInv ==
  /\ \A l \in Listeners : phase[l] = "idle" => batch[l] = <<>>
  /\ \A d \in endpoints : KnownAt(d)
  /\ updates = 0 => \A l \in Listeners : ExactAt(l)

\* There is nothing at first.
LEMMA NothingAtFirst == CacheInit => MirrorInv
<1> SUFFICES ASSUME CacheInit
             PROVE  MirrorInv
  OBVIOUS
<1>1. \A l \in Listeners : descriptors[l] = <<>> /\ Pending(l) = <<>>
  BY DEF CacheInit, Pending
<1>2. \A l \in Listeners : ExactAt(l)
  BY <1>1 DEF ExactAt, AtListener, ExactFor
<1> QED
  BY <1>2 DEF CacheInit, MirrorInv

\* What the middleware delivers is pending at the listener of the handle.
LEMMA PendingDelivered ==
  ASSUME CacheTypeOK, NEW h \in Handles, NEW samples \in Seq(Sample),
         Deliver(h, samples), batch' = batch
  PROVE  /\ Pending(ListenerOf[h])' = Pending(ListenerOf[h]) \o samples
         /\ \A l \in Listeners : l # ListenerOf[h] => Pending(l)' = Pending(l)
         /\ \A l \in Listeners : Pending(l) \in Seq(Sample)
<1>1. ListenerOf[h] \in Listeners
  BY ListenerAssumption
<1>2. \A l \in Listeners : batch[l] \in Seq(Sample) /\ queue[l] \in Seq(Sample)
  BY DEF CacheTypeOK
<1>3. queue'[ListenerOf[h]] = queue[ListenerOf[h]] \o samples
      /\ \A l \in Listeners : l # ListenerOf[h] => queue'[l] = queue[l]
  BY <1>1 DEF Deliver, CacheTypeOK
<1>4. \A l \in Listeners : Pending(l) \in Seq(Sample)
  BY <1>2, ConcatProperties DEF Pending
<1>5. (batch[ListenerOf[h]] \o queue[ListenerOf[h]]) \o samples
        = batch[ListenerOf[h]] \o (queue[ListenerOf[h]] \o samples)
  <2>1. batch[ListenerOf[h]] \in Seq(Sample) /\ queue[ListenerOf[h]] \in Seq(Sample)
    BY <1>1, <1>2
  <2>2. \A s, t, u \in Seq(Sample) : (s \o t) \o u = s \o (t \o u)
    BY ConcatAssociative
  <2> QED
    BY <2>1, <2>2, Zenon
<1> QED
  BY <1>3, <1>4, <1>5 DEF Pending

\* Another listener has nothing to do with an endpoint that comes, changes or goes.
LEMMA ElsewhereExact ==
  ASSUME CacheTypeOK, NEW h \in Handles, NEW l \in Listeners, l # ListenerOf[h], ExactAt(l),
         Pending(l)' = Pending(l), descriptors' = descriptors,
         \A d \in endpoints : d.handle # h => d \in endpoints'
  PROVE  ExactAt(l)'
<1>1. \A i \in DOMAIN descriptors[l] : descriptors[l][i].handle # h
  BY DEF ExactAt, AtListener
<1>2. \A j \in DOMAIN Pending(l) : Pending(l)[j].handle # h
  BY DEF ExactAt, AtListener
<1>3. \A j \in DOMAIN Pending(l) : About(Pending(l)[j]).handle = Pending(l)[j].handle
  BY DEF About, DescriptorOf
<1> QED
  BY <1>1, <1>2, <1>3 DEF ExactAt, AtListener, ExactFor, Justified

\* A sample of an endpoint that is there.
LEMMA SeenKeepsMirror ==
  ASSUME CacheTypeOK, MirrorInv, NEW h \in Handles, NEW info \in Info,
         EndpointCreated(h, info) \/ EndpointUpdated(h, info)
  PROVE  MirrorInv'
<1> DEFINE l == ListenerOf[h]
           more == <<Valid(h, info)>>
           new == DescriptorOf(h, info)
<1>1. /\ endpoints' = {d \in endpoints : d.handle # h} \cup {new}
      /\ Deliver(h, more) /\ UNCHANGED listenerVars
      /\ updates' = 0 => updates = 0 /\ ~Exists(h)
  BY DEF EndpointCreated, EndpointUpdated, Exists, CacheTypeOK
<1>2. l \in Listeners /\ new \in Descriptor /\ new.handle = h
      /\ Valid(h, info).valid /\ About(Valid(h, info)) = new /\ Valid(h, info).handle = h
  BY ListenerAssumption DEF DescriptorOf, Descriptor, Info, Valid, About
<1>3. more \in Seq(Sample) /\ Len(more) = 1 /\ DOMAIN more = {1} /\ more[1] = Valid(h, info)
  BY DEF Valid, Sample, Info
<1>4. batch' = batch /\ phase' = phase /\ descriptors' = descriptors
  BY <1>1 DEF listenerVars
<1>5. /\ Pending(l)' = Pending(l) \o more
      /\ \A m \in Listeners : m # l => Pending(m)' = Pending(m)
      /\ \A m \in Listeners : Pending(m) \in Seq(Sample)
  BY <1>1, <1>3, <1>4, PendingDelivered
<1>6. \A m \in Listeners : descriptors[m] \in Seq(Descriptor)
  BY DEF CacheTypeOK
<1> HIDE DEF l, more, new
<1>7. ASSUME NEW d \in endpoints'
      PROVE  KnownAt(d)'
  <2>1. CASE d = new
    <3>1. ListenerOf[d.handle] = l
      BY <1>2, <2>1 DEF l
    <3>2. KnownBy(descriptors[l], Pending(l) \o more, new)
      BY <1>2, <1>5, KnownFromNow DEF more, new
    <3> QED
      BY <1>4, <1>5, <2>1, <3>1, <3>2 DEF KnownAt, KnownBy
  <2>2. CASE d # new
    <3>1. d \in endpoints /\ d.handle # h /\ d \in Descriptor /\ ListenerOf[d.handle] \in Listeners
      BY <1>1, <2>2, ListenerAssumption DEF CacheTypeOK, Descriptor
    <3>2. KnownBy(descriptors[ListenerOf[d.handle]], Pending(ListenerOf[d.handle]), d)
      BY <3>1 DEF MirrorInv, KnownAt
    <3>3. NoRemoval(more, d.handle, 0)
      BY <1>2, <1>3 DEF NoRemoval
    <3>4. CASE ListenerOf[d.handle] = l
      <4>1. KnownBy(descriptors[l], Pending(l) \o more, d)
        BY <1>2, <1>3, <1>5, <1>6, <3>1, <3>2, <3>3, <3>4, KnownQueued
      <4> QED
        BY <1>4, <1>5, <3>4, <4>1 DEF KnownAt, KnownBy
    <3>5. CASE ListenerOf[d.handle] # l
      BY <1>4, <1>5, <3>1, <3>2, <3>5 DEF KnownAt, KnownBy
    <3> QED
      BY <3>4, <3>5
  <2> QED
    BY <2>1, <2>2
<1>8. ASSUME updates' = 0, NEW m \in Listeners
      PROVE  ExactAt(m)'
  <2>1. ExactAt(m) /\ ~Exists(h)
    BY <1>1, <1>8 DEF MirrorInv
  <2>2. CASE m # l
    BY <1>1, <1>4, <1>5, <2>1, <2>2, ElsewhereExact DEF l
  <2>3. CASE m = l
    <3> DEFINE q == Pending(l) \o more
    <3>1. /\ q \in Seq(Sample) /\ Len(q) = Len(Pending(l)) + 1 /\ DOMAIN q = 1..Len(q)
          /\ q[Len(Pending(l)) + 1] = Valid(h, info) /\ Len(Pending(l)) \in Nat
          /\ \A j \in 1..Len(Pending(l)) : q[j] = Pending(l)[j]
      <4>1. Pending(l) \in Seq(Sample) /\ Len(Pending(l)) \in Nat
        BY <1>2, <1>5, LenProperties
      <4>2. /\ q \in Seq(Sample) /\ Len(q) = Len(Pending(l)) + Len(more)
            /\ \A j \in 1..(Len(Pending(l)) + Len(more)) :
                 q[j] = IF j <= Len(Pending(l)) THEN Pending(l)[j] ELSE more[j - Len(Pending(l))]
        BY <1>3, <4>1, ConcatProperties
      <4>3. DOMAIN q = 1..Len(q)
        BY <4>2, LenProperties
      <4> HIDE DEF q
      <4>4. q[Len(Pending(l)) + 1] = more[1]
        BY <1>3, <4>1, <4>2
      <4> QED
        BY <1>3, <4>1, <4>2, <4>3, <4>4
    <3> HIDE DEF q
    <3>2. Justified(q, new, endpoints', Len(Pending(l)) + 1)
      BY <1>1, <1>2, <3>1 DEF Justified, Silent
    <3>3. \A d \in Descriptor : d \in endpoints => d \in endpoints' /\ Silent(more, d.handle, 0)
      BY <1>1, <1>2, <1>3, <2>1 DEF Exists, Silent
    <3>4. ExactFor(descriptors[l], Pending(l), endpoints)
      BY <2>1, <2>3 DEF ExactAt
    <3>5. ExactFor(descriptors[l], q, endpoints')
      BY <1>2, <1>3, <1>5, <1>6, <3>2, <3>3, <3>4, ExactQueued DEF q
    <3>6. \A j \in DOMAIN q : ListenerOf[q[j].handle] = l
      <4> SUFFICES ASSUME NEW j \in DOMAIN q
                   PROVE  ListenerOf[q[j].handle] = l
        OBVIOUS
      <4>1. CASE j = Len(Pending(l)) + 1
        BY <1>2, <3>1, <4>1 DEF l
      <4>2. CASE j # Len(Pending(l)) + 1
        <5>1. j \in 1..Len(Pending(l)) /\ DOMAIN Pending(l) = 1..Len(Pending(l))
          BY <1>2, <1>5, <3>1, <4>2, LenProperties
        <5> QED
          BY <2>1, <2>3, <3>1, <5>1 DEF ExactAt, AtListener
      <4> QED
        BY <4>1, <4>2
    <3> QED
      BY <1>4, <1>5, <2>1, <2>3, <3>5, <3>6 DEF ExactAt, AtListener, q
  <2> QED
    BY <2>2, <2>3
<1> QED
  BY <1>4, <1>7, <1>8 DEF MirrorInv

\* The endpoint goes; its listener is told once or twice.
LEMMA DeletedKeepsMirror ==
  ASSUME CacheTypeOK, MirrorInv, NEW h \in Handles, EndpointDeleted(h)
  PROVE  MirrorInv'
<1> DEFINE l == ListenerOf[h]
<1>1. PICK more \in {<<Invalid(h)>>, <<Invalid(h), Invalid(h)>>} : Deliver(h, more)
  BY DEF EndpointDeleted
<1>2. /\ endpoints' = {d \in endpoints : d.handle # h} /\ UNCHANGED listenerVars
      /\ updates' = updates /\ l \in Listeners
  BY ListenerAssumption DEF EndpointDeleted
<1>3. Invalid(h) \in Sample /\ Invalid(h).handle = h /\ ~Invalid(h).valid
  <2>1. PICK d \in endpoints : d.handle = h
    BY DEF EndpointDeleted, Exists
  <2>2. [name |-> d.name, type |-> d.type] \in Info
    BY <2>1 DEF Info, Descriptor, CacheTypeOK
  <2> QED
    BY <2>2 DEF Invalid, Sample
<1>4. /\ more \in Seq(Sample) /\ Len(more) \in {1, 2} /\ DOMAIN more = 1..Len(more)
      /\ \A j \in DOMAIN more : more[j] = Invalid(h)
  <2>1. CASE more = <<Invalid(h)>>
    BY <1>3, <2>1
  <2>2. CASE more = <<Invalid(h), Invalid(h)>>
    BY <1>3, <2>2
  <2> QED
    BY <1>1, <2>1, <2>2
<1>5. batch' = batch /\ phase' = phase /\ descriptors' = descriptors
  BY <1>2 DEF listenerVars
<1>6. /\ Pending(l)' = Pending(l) \o more
      /\ \A m \in Listeners : m # l => Pending(m)' = Pending(m)
      /\ \A m \in Listeners : Pending(m) \in Seq(Sample)
  BY <1>1, <1>4, <1>5, PendingDelivered
<1>7. \A m \in Listeners : descriptors[m] \in Seq(Descriptor)
  BY DEF CacheTypeOK
<1> HIDE DEF l
<1>8. ASSUME NEW d \in endpoints'
      PROVE  KnownAt(d)'
  <2>1. d \in endpoints /\ d.handle # h /\ d \in Descriptor /\ ListenerOf[d.handle] \in Listeners
    BY <1>2, ListenerAssumption DEF CacheTypeOK, Descriptor
  <2>2. KnownBy(descriptors[ListenerOf[d.handle]], Pending(ListenerOf[d.handle]), d)
    BY <2>1 DEF MirrorInv, KnownAt
  <2>3. NoRemoval(more, d.handle, 0)
    BY <1>3, <1>4, <2>1 DEF NoRemoval
  <2>4. CASE ListenerOf[d.handle] = l
    <3>1. KnownBy(descriptors[l], Pending(l) \o more, d)
      BY <1>2, <1>4, <1>6, <1>7, <2>1, <2>2, <2>3, <2>4, KnownQueued
    <3> QED
      BY <1>5, <1>6, <2>4, <3>1 DEF KnownAt, KnownBy
  <2>5. CASE ListenerOf[d.handle] # l
    BY <1>5, <1>6, <2>1, <2>2, <2>5 DEF KnownAt, KnownBy
  <2> QED
    BY <2>4, <2>5
<1>9. ASSUME updates' = 0, NEW m \in Listeners
      PROVE  ExactAt(m)'
  <2>1. ExactAt(m)
    BY <1>2, <1>9 DEF MirrorInv
  <2>2. CASE m # l
    BY <1>2, <1>5, <1>6, <2>1, <2>2, ElsewhereExact DEF l
  <2>3. CASE m = l
    <3> DEFINE q == Pending(l) \o more
    <3>1. \A d \in Descriptor : d \in endpoints =>
            \/ d \in endpoints' /\ Silent(more, d.handle, 0)
            \/ Removal(more, d.handle, 0)
      BY <1>2, <1>3, <1>4 DEF Silent, Removal
    <3>2. ExactFor(descriptors[l], Pending(l), endpoints)
      BY <2>1, <2>3 DEF ExactAt
    <3>3. ExactFor(descriptors[l], q, endpoints')
      BY <1>2, <1>3, <1>4, <1>6, <1>7, <3>1, <3>2, ExactQueued
    <3>4. /\ Len(Pending(l)) \in Nat /\ DOMAIN Pending(l) = 1..Len(Pending(l))
          /\ DOMAIN q = 1..(Len(Pending(l)) + Len(more))
          /\ \A j \in 1..(Len(Pending(l)) + Len(more)) :
               q[j] = IF j <= Len(Pending(l)) THEN Pending(l)[j] ELSE more[j - Len(Pending(l))]
      <4>1. Pending(l) \in Seq(Sample)
        BY <1>2, <1>6
      <4> QED
        BY <1>4, <4>1, ConcatProperties, LenProperties
    <3>5. \A j \in DOMAIN q : ListenerOf[q[j].handle] = l
      <4> SUFFICES ASSUME NEW j \in DOMAIN q
                   PROVE  ListenerOf[q[j].handle] = l
        OBVIOUS
      <4>1. CASE j <= Len(Pending(l))
        BY <2>1, <2>3, <3>4, <4>1 DEF ExactAt, AtListener
      <4>2. CASE ~(j <= Len(Pending(l)))
        <5>1. j - Len(Pending(l)) \in DOMAIN more
          BY <1>4, <3>4, <4>2
        <5> QED
          BY <1>3, <1>4, <3>4, <4>2, <5>1 DEF l
      <4> QED
        BY <4>1, <4>2
    <3> QED
      BY <1>5, <1>6, <2>1, <2>3, <3>3, <3>5 DEF ExactAt, AtListener
  <2> QED
    BY <2>2, <2>3
<1> QED
  BY <1>2, <1>5, <1>8, <1>9 DEF MirrorInv

\* The first of two sequences gives the first element.
LEMMA TailOfConcat ==
  ASSUME NEW b \in Seq(Sample), NEW q \in Seq(Sample), b # <<>>
  PROVE  b \o q # <<>> /\ (b \o q)[1] = Head(b) /\ Tail(b \o q) = Tail(b) \o q
<1>1. Len(b) \in Nat \ {0} /\ Len(q) \in Nat
  BY LenProperties, EmptySeq
<1>2. b \o q # <<>> /\ (b \o q)[1] = Head(b)
  BY <1>1
<1>3. Tail(b \o q) = Tail(b) \o q
  BY <1>1
<1> QED
  BY <1>2, <1>3

\* The sample that is applied is the first that is pending.
LEMMA PendingApplied ==
  ASSUME CacheTypeOK, NEW l \in Listeners, ApplySample(l)
  PROVE  /\ Pending(l) \in Seq(Sample) /\ Pending(l) # <<>> /\ Pending(l)[1] = Head(batch[l])
         /\ Pending(l)' = Tail(Pending(l))
         /\ \A m \in Listeners : m # l => Pending(m)' = Pending(m)
<1>1. batch[l] \in Seq(Sample) /\ queue[l] \in Seq(Sample) /\ batch[l] # <<>>
  BY DEF ApplySample, CacheTypeOK
<1>2. /\ batch'[l] = Tail(batch[l]) /\ queue' = queue
      /\ \A m \in Listeners : m # l => batch'[m] = batch[m]
  BY DEF ApplySample, CacheTypeOK
<1>3. Pending(l) \in Seq(Sample)
  BY <1>1, ConcatProperties DEF Pending
<1>4. /\ Pending(l) # <<>> /\ Pending(l)[1] = Head(batch[l])
      /\ Tail(Pending(l)) = Tail(batch[l]) \o queue[l]
  BY <1>1, TailOfConcat DEF Pending
<1> QED
  BY <1>2, <1>3, <1>4 DEF Pending

\* How a sample changes the list of the listener that applies it.
LEMMA ListApplied ==
  ASSUME CacheTypeOK, NEW l \in Listeners, ApplySample(l), NEW s, s = Head(batch[l])
  PROVE  /\ \A m \in Listeners : m # l => descriptors'[m] = descriptors[m]
         /\ s.valid => descriptors'[l] = Append(descriptors[l], About(s))
         /\ ~s.valid =>
              \/ /\ descriptors'[l] = descriptors[l]
                 /\ \A i \in DOMAIN descriptors[l] : descriptors[l][i].handle # s.handle
              \/ \E k \in 1..Len(descriptors[l]) :
                   /\ descriptors[l][k].handle = s.handle
                   /\ descriptors'[l] = RemoveAt(descriptors[l], k)
<1>1. CASE s.valid
  <2>1. AddInformation(l, s.handle, s.info)
    BY <1>1 DEF ApplySample
  <2> QED
    BY <1>1, <2>1 DEF AddInformation, About, CacheTypeOK
<1>2. CASE ~s.valid
  <2>1. RemoveInformation(l, s.handle)
    BY <1>2 DEF ApplySample
  <2>2. CASE Entries(l, s.handle) = {}
    <3>1. descriptors' = descriptors
      BY <2>1, <2>2 DEF RemoveInformation
    <3> QED
      BY <1>2, <2>2, <3>1 DEF Entries
  <2>3. CASE Entries(l, s.handle) # {}
    <3>1. PICK k \in Entries(l, s.handle) : RemoveEntry(l, k)
      BY <2>1, <2>3 DEF RemoveInformation
    <3>2. descriptors' = [descriptors EXCEPT ![l] = RemoveAt(@, k)]
      BY <3>1 DEF RemoveEntry
    <3>3. k \in 1..Len(descriptors[l]) /\ descriptors[l][k].handle = s.handle
      BY LenProperties DEF Entries, CacheTypeOK
    <3>4. /\ \A m \in Listeners : m # l => descriptors'[m] = descriptors[m]
          /\ descriptors'[l] = RemoveAt(descriptors[l], k)
      BY <3>2 DEF CacheTypeOK
    <3> QED
      BY <1>2, <3>3, <3>4
  <2> QED
    BY <2>2, <2>3
<1> QED
  BY <1>1, <1>2

\* Applying a sample moves it from what is pending to the list.
LEMMA ApplyKeepsMirror ==
  ASSUME CacheTypeOK, MirrorInv, NEW l \in Listeners, ApplySample(l)
  PROVE  MirrorInv'
<1> DEFINE s == Head(batch[l])
           p == Pending(l)
           list == descriptors[l]
<1>1. /\ p \in Seq(Sample) /\ p # <<>> /\ p[1] = s /\ Pending(l)' = Tail(p)
      /\ \A m \in Listeners : m # l => Pending(m)' = Pending(m)
  BY PendingApplied
<1>2. /\ \A m \in Listeners : m # l => descriptors'[m] = descriptors[m]
      /\ s.valid => descriptors'[l] = Append(list, About(s))
      /\ ~s.valid => \/ /\ descriptors'[l] = list
                        /\ \A i \in DOMAIN list : list[i].handle # s.handle
                     \/ \E k \in 1..Len(list) :
                          /\ list[k].handle = s.handle
                          /\ descriptors'[l] = RemoveAt(list, k)
  BY ListApplied
<1>3. /\ endpoints' = endpoints /\ updates' = updates /\ phase' = phase
      /\ batch' = [batch EXCEPT ![l] = Tail(@)] /\ phase[l] = "apply"
  BY DEF ApplySample, environmentVars
<1>4. list \in Seq(Descriptor) /\ s \in Sample /\ About(s) \in Descriptor
  <2>1. s \in Sample
    BY <1>1, LenProperties, EmptySeq
  <2>2. About(s) \in Descriptor
    BY <2>1 DEF About, DescriptorOf, Sample, Descriptor, Info
  <2> QED
    BY <2>1, <2>2 DEF CacheTypeOK
<1> HIDE DEF s, p, list
<1>5. \A m \in Listeners : phase'[m] = "idle" => batch'[m] = <<>>
  BY <1>3 DEF MirrorInv, CacheTypeOK
<1>6. ASSUME NEW d \in endpoints'
      PROVE  KnownAt(d)'
  <2>1. d \in endpoints /\ d \in Descriptor /\ ListenerOf[d.handle] \in Listeners
    BY <1>3, ListenerAssumption DEF CacheTypeOK, Descriptor
  <2>2. KnownBy(descriptors[ListenerOf[d.handle]], Pending(ListenerOf[d.handle]), d)
    BY <2>1 DEF MirrorInv, KnownAt
  <2>3. CASE ListenerOf[d.handle] # l
    BY <1>1, <1>2, <2>1, <2>2, <2>3 DEF KnownAt, KnownBy
  <2>4. CASE ListenerOf[d.handle] = l
    <3>1. KnownBy(list, p, d)
      BY <2>2, <2>4 DEF list, p
    <3>2. KnownBy(descriptors'[l], Tail(p), d)
      <4>1. CASE s.valid
        BY <1>1, <1>2, <1>4, <2>1, <3>1, <4>1, KnownAfterAdd
      <4>2. CASE ~s.valid
        BY <1>1, <1>2, <1>4, <2>1, <3>1, <4>2, KnownAfterRemoval
      <4> QED
        BY <4>1, <4>2
    <3> QED
      BY <1>1, <2>4, <3>2 DEF KnownAt, KnownBy
  <2> QED
    BY <2>3, <2>4
<1>7. ASSUME updates' = 0, NEW m \in Listeners
      PROVE  ExactAt(m)'
  <2>1. ExactAt(m)
    BY <1>3, <1>7 DEF MirrorInv
  <2>2. CASE m # l
    BY <1>1, <1>2, <1>3, <2>1, <2>2 DEF ExactAt, AtListener, ExactFor, Justified
  <2>3. CASE m = l
    <3>1. ExactFor(list, p, endpoints) /\ AtListener(l)
      BY <2>1, <2>3 DEF ExactAt, list, p
    <3>2. ExactFor(descriptors'[l], Tail(p), endpoints)
      <4>1. CASE s.valid
        BY <1>1, <1>2, <1>4, <3>1, <4>1, ExactAfterAdd
      <4>2. CASE ~s.valid
        BY <1>1, <1>2, <1>4, <3>1, <4>2, ExactAfterRemoval
      <4> QED
        BY <4>1, <4>2
    <3>3. \A j \in DOMAIN Tail(p) : ListenerOf[Tail(p)[j].handle] = l
      <4>1. \A j \in DOMAIN Tail(p) : j + 1 \in DOMAIN p /\ Tail(p)[j] = p[j + 1]
        BY <1>1, LenProperties, HeadTailProperties
      <4> QED
        BY <3>1, <4>1 DEF AtListener, p
    <3>4. \A i \in DOMAIN descriptors'[l] : ListenerOf[descriptors'[l][i].handle] = l
      <4>1. ListenerOf[s.handle] = l /\ About(s).handle = s.handle
        <5>1. 1 \in DOMAIN p
          BY <1>1, LenProperties, EmptySeq
        <5> QED
          BY <1>1, <3>1, <5>1 DEF AtListener, p, About, DescriptorOf
      <4>2. \A i \in DOMAIN list : ListenerOf[list[i].handle] = l
        BY <3>1 DEF AtListener, list
      <4>3. \A i \in DOMAIN Append(list, About(s)) :
              \/ Append(list, About(s))[i] = About(s)
              \/ i \in DOMAIN list /\ Append(list, About(s))[i] = list[i]
        BY <1>4
      <4>4. \A k \in 1..Len(list) : \A i \in DOMAIN RemoveAt(list, k) :
              \E j \in DOMAIN list : RemoveAt(list, k)[i] = list[j]
        <5> SUFFICES ASSUME NEW k \in 1..Len(list), NEW i \in DOMAIN RemoveAt(list, k)
                     PROVE  \E j \in DOMAIN list : RemoveAt(list, k)[i] = list[j]
          OBVIOUS
        <5>1. RemoveAt(list, k) \in Seq(Descriptor) /\ Len(RemoveAt(list, k)) = Len(list) - 1
          BY <1>4, RemoveAtFacts
        <5>2. i \in 1..(Len(list) - 1) /\ DOMAIN list = 1..Len(list) /\ Len(list) \in Nat
          BY <1>4, <5>1, LenProperties
        <5>3. RemoveAt(list, k)[i] = list[i] \/ RemoveAt(list, k)[i] = list[i + 1]
          BY <1>4, <5>2, RemoveAtFacts
        <5> QED
          BY <5>2, <5>3
      <4> QED
        BY <1>2, <4>1, <4>2, <4>3, <4>4
    <3> QED
      BY <1>1, <1>3, <2>3, <3>2, <3>3, <3>4 DEF ExactAt, AtListener
  <2> QED
    BY <2>2, <2>3
<1> QED
  BY <1>3, <1>5, <1>6, <1>7 DEF MirrorInv

\* Taking the queue, and the trigger, leave what is pending alone.
LEMMA TakeKeepsMirror ==
  ASSUME CacheTypeOK, MirrorInv, NEW l \in Listeners,
         TakeSamples(l) \/ TriggerGraphGuardCondition(l)
  PROVE  MirrorInv'
<1>1. endpoints' = endpoints /\ updates' = updates /\ descriptors' = descriptors
  BY DEF TakeSamples, TriggerGraphGuardCondition, environmentVars
<1>2. \A m \in Listeners : phase'[m] = "idle" => batch'[m] = <<>>
  BY DEF TakeSamples, TriggerGraphGuardCondition, MirrorInv, CacheTypeOK
<1>3. \A m \in Listeners : Pending(m)' = Pending(m)
  <2>1. CASE TakeSamples(l)
    <3>1. batch[l] = <<>> /\ batch'[l] = queue[l] /\ queue'[l] = <<>>
          /\ \A m \in Listeners : m # l => batch'[m] = batch[m] /\ queue'[m] = queue[m]
      BY <2>1 DEF TakeSamples, MirrorInv, CacheTypeOK
    <3>2. queue[l] \in Seq(Sample)
      BY DEF CacheTypeOK
    <3>3. <<>> \o queue[l] = queue[l] \o <<>>
      BY <3>2, ConcatEmptySeq
    <3> QED
      BY <3>1, <3>3 DEF Pending
  <2>2. CASE TriggerGraphGuardCondition(l)
    BY <2>2 DEF TriggerGraphGuardCondition, Pending
  <2> QED
    BY <2>1, <2>2
<1>4. \A d \in endpoints : ListenerOf[d.handle] \in Listeners
  BY ListenerAssumption DEF CacheTypeOK, Descriptor
<1>5. \A d \in endpoints : KnownAt(d) => KnownAt(d)'
  BY <1>1, <1>3, <1>4 DEF KnownAt, KnownBy
<1>6. \A m \in Listeners : ExactAt(m) => ExactAt(m)'
  BY <1>1, <1>3 DEF ExactAt, AtListener, ExactFor, Justified
<1> QED
  BY <1>1, <1>2, <1>5, <1>6 DEF MirrorInv

\* The cache and what is pending make up the endpoints: every endpoint that exists is
\* in its listener's list or will be, whatever was re-sent; and without re-sent samples
\* every entry is of an endpoint that exists, or will be removed.
THEOREM MirrorInvariant == CacheSpec => []MirrorInv
<1>1. CacheTypeOK /\ MirrorInv /\ [CacheNext]_cacheVars => MirrorInv'
  <2> SUFFICES ASSUME CacheTypeOK, MirrorInv, [CacheNext]_cacheVars
               PROVE  MirrorInv'
    OBVIOUS
  <2>1. ASSUME NEW h \in Handles, NEW info \in Info,
               EndpointCreated(h, info) \/ EndpointUpdated(h, info)
        PROVE  MirrorInv'
    BY <2>1, SeenKeepsMirror
  <2>2. ASSUME NEW h \in Handles, EndpointDeleted(h)
        PROVE  MirrorInv'
    BY <2>2, DeletedKeepsMirror
  <2>3. ASSUME NEW l \in Listeners, ApplySample(l)
        PROVE  MirrorInv'
    BY <2>3, ApplyKeepsMirror
  <2>4. ASSUME NEW l \in Listeners, TakeSamples(l) \/ TriggerGraphGuardCondition(l)
        PROVE  MirrorInv'
    BY <2>4, TakeKeepsMirror
  <2>5. CASE UNCHANGED cacheVars
    BY <2>5 DEF cacheVars, MirrorInv, KnownAt, KnownBy, ExactAt, AtListener, ExactFor,
                Justified, Pending
  <2> QED
    BY <2>1, <2>2, <2>3, <2>4, <2>5 DEF CacheNext, EndpointStep, ListenerStep
<1> QED
  BY <1>1, NothingAtFirst, CacheTypeCorrect, PTL DEF CacheSpec

\* Nothing is pending for a listener that has settled.
LEMMA NothingPending ==
  ASSUME CacheTypeOK, NEW l \in Listeners, Settled(l)
  PROVE  Pending(l) = <<>>
BY ConcatEmptySeq DEF Settled, Pending

\* An endpoint that exists is never missing from the cache of a listener that has
\* applied all its samples, whatever was re-sent to it.
THEOREM LiveEndpointsAreKnown == CacheSpec => []LiveEndpointsKnown
<1>1. CacheTypeOK /\ MirrorInv => LiveEndpointsKnown
  <2> SUFFICES ASSUME CacheTypeOK, MirrorInv, NEW d \in endpoints, Settled(ListenerOf[d.handle])
               PROVE  \E i \in DOMAIN descriptors[ListenerOf[d.handle]] :
                        descriptors[ListenerOf[d.handle]][i] = d
    BY DEF LiveEndpointsKnown
  <2>1. ListenerOf[d.handle] \in Listeners
    BY ListenerAssumption DEF CacheTypeOK, Descriptor
  <2>2. Pending(ListenerOf[d.handle]) = <<>>
    BY <2>1, NothingPending
  <2>3. DOMAIN Pending(ListenerOf[d.handle]) = {}
    BY <2>2
  <2> QED
    BY <2>3 DEF MirrorInv, KnownAt, KnownBy
<1> QED
  BY <1>1, MirrorInvariant, CacheTypeCorrect, PTL

\* A settled listener's list holds the endpoints that are with it, and no others.
LEMMA ListIsEndpoints ==
  ASSUME CacheTypeOK, MirrorInv, updates = 0, NEW l \in Listeners, Settled(l)
  PROVE  /\ \A i \in DOMAIN descriptors[l] :
              descriptors[l][i] \in endpoints /\ ListenerOf[descriptors[l][i].handle] = l
         /\ \A d \in endpoints :
              ListenerOf[d.handle] = l => \E i \in DOMAIN descriptors[l] : descriptors[l][i] = d
<1>1. DOMAIN Pending(l) = {}
  <2>1. Pending(l) = <<>>
    BY NothingPending
  <2> QED
    BY <2>1
<1>2. ExactAt(l) /\ \A d \in endpoints : KnownAt(d)
  BY DEF MirrorInv
<1>3. \A i \in DOMAIN descriptors[l] : Justified(Pending(l), descriptors[l][i], endpoints, 0)
  BY <1>2 DEF ExactAt, ExactFor
<1>4. \A i \in DOMAIN descriptors[l] : descriptors[l][i] \in endpoints
  BY <1>1, <1>3 DEF Justified, Removal
<1> QED
  BY <1>1, <1>2, <1>4 DEF ExactAt, AtListener, KnownAt, KnownBy

\* The types a settled cache gives for a topic.
LEMMA TypesOfEndpoints ==
  ASSUME CacheTypeOK, MirrorInv, CacheConsistent, updates = 0, NEW l \in Listeners, Settled(l),
         NEW n \in Names
  PROVE  TypesOf(l, n) =
           {t \in Types : \E d \in endpoints : ListenerOf[d.handle] = l /\ d.name = n /\ d.type = t}
<1>1. ASSUME NEW t \in Types
      PROVE  count[l][n][t] > 0 <=>
               \E d \in endpoints : ListenerOf[d.handle] = l /\ d.name = n /\ d.type = t
  <2>1. count[l][n][t] = Cardinality(Matches(descriptors[l], n, t))
    BY DEF CacheConsistent
  <2>2. IsFiniteSet(Matches(descriptors[l], n, t))
        /\ Cardinality(Matches(descriptors[l], n, t)) \in Nat
    BY MatchesFinite DEF CacheTypeOK
  <2>3. count[l][n][t] > 0 <=> Matches(descriptors[l], n, t) # {}
    <3>1. Cardinality(Matches(descriptors[l], n, t)) = 0 <=> Matches(descriptors[l], n, t) = {}
      BY <2>2, FS_EmptySet
    <3> QED
      BY <2>1, <2>2, <3>1
  <2>4. Matches(descriptors[l], n, t) # {} <=>
          \E i \in DOMAIN descriptors[l] :
            descriptors[l][i].name = n /\ descriptors[l][i].type = t
    BY DEF Matches
  <2> QED
    BY <2>3, <2>4, ListIsEndpoints
<1>2. n \in keys[l] <=> \E t \in Types : count[l][n][t] > 0
  BY DEF CacheConsistent
<1> QED
  BY <1>1, <1>2 DEF TypesOf

\* The types that both settled caches give for a topic.
LEMMA TypesOfBoth ==
  ASSUME CacheTypeOK, MirrorInv, CacheConsistent, updates = 0,
         \A l \in Listeners : Settled(l), NEW n \in Names
  PROVE  UNION {TypesOf(l, n) : l \in Listeners} = {d.type : d \in {e \in endpoints : e.name = n}}
<1>1. \A d \in endpoints : d.type \in Types /\ ListenerOf[d.handle] \in Listeners
  BY ListenerAssumption DEF CacheTypeOK, Descriptor
<1>2. \A l \in Listeners : TypesOf(l, n) =
        {t \in Types : \E d \in endpoints : ListenerOf[d.handle] = l /\ d.name = n /\ d.type = t}
  BY TypesOfEndpoints
<1> QED
  BY <1>1, <1>2

\* The topics and types that the query returns are those of the endpoints that exist,
\* once every listener has applied its samples and if none was re-sent.
THEOREM TopicsAreExact == CacheSpec => []TopicsExact
<1>1. CacheTypeOK /\ MirrorInv /\ CacheConsistent => TopicsExact
  <2> SUFFICES ASSUME CacheTypeOK, MirrorInv, CacheConsistent, updates = 0,
                      \A l \in Listeners : Settled(l), NEW noDemangle \in BOOLEAN
               PROVE  TopicNamesAndTypes(noDemangle) =
                        [n \in {d.name : d \in {e \in endpoints : noDemangle \/ e.name \in RosNames}} |->
                           {d.type : d \in {e \in endpoints : e.name = n}}]
    BY DEF TopicsExact
  <2> DEFINE types(n) == UNION {TypesOf(l, n) : l \in Listeners}
             listed == {n \in UNION {keys[l] : l \in Listeners} :
                          types(n) # {} /\ (noDemangle \/ n \in RosNames)}
             there == {d.name : d \in {e \in endpoints : noDemangle \/ e.name \in RosNames}}
  <2>1. \A d \in endpoints : d.name \in Names /\ d.type \in Types /\ ListenerOf[d.handle] \in Listeners
    BY ListenerAssumption DEF CacheTypeOK, Descriptor
  <2>2. ASSUME NEW n \in Names
        PROVE  types(n) = {d.type : d \in {e \in endpoints : e.name = n}}
    BY <2>2, TypesOfBoth
  <2>3. \A n \in Names : types(n) # {} => n \in UNION {keys[l] : l \in Listeners}
    BY DEF TypesOf
  <2>4. UNION {keys[l] : l \in Listeners} \subseteq Names
    BY DEF CacheTypeOK
  <2> HIDE DEF types
  <2>5. listed = there
    <3>1. ASSUME NEW n \in listed PROVE n \in there
      BY <2>2, <2>4
    <3>2. ASSUME NEW n \in there PROVE n \in listed
      BY <2>1, <2>2, <2>3
    <3> QED
      BY <3>1, <3>2
  <2>6. \A n \in listed : types(n) = {d.type : d \in {e \in endpoints : e.name = n}}
    BY <2>2, <2>4
  <2>7. TopicNamesAndTypes(noDemangle) = [n \in listed |-> types(n)]
    BY DEF TopicNamesAndTypes, types
  <2> QED
    BY <2>5, <2>6, <2>7
<1>2. CacheSpec => []CacheConsistent
  BY CacheCorrect, PTL
<1> QED
  BY <1>1, <1>2, MirrorInvariant, CacheTypeCorrect, PTL

\* The service types that the query finds for a topic are those of the endpoints
\* that have the topic's name and a service's type name.
LEMMA ServiceTypesOfEndpoints ==
  ASSUME CacheTypeOK, MirrorInv, CacheConsistent, AllSettled, NEW n \in Names
  PROVE  ServiceTypesOf(n) =
           {PartsOfType[d.type].type :
              d \in {e \in endpoints : e.name = n /\ PartsOfType[e.type].suffix # ""}}
<1>1. ServiceTypesOf(n) =
        UNION {ServiceTypeOf(t) : t \in {d.type : d \in {e \in endpoints : e.name = n}}}
  BY TypesOfBoth DEF ServiceTypesOf, AllSettled
<1> QED
  BY <1>1 DEF ServiceTypeOf

\* The services that the query returns are those of the endpoints that exist, with
\* their types but without the last characters of their names, once every listener
\* has applied its samples and if none was re-sent
\* (rmw_get_service_names_and_types.cpp:88-191).
THEOREM ServicesAreCutShort == CacheSpec => []ServicesCutShort
<1>1. CacheTypeOK /\ MirrorInv /\ CacheConsistent => ServicesCutShort
  <2> DEFINE topics == {n \in UNION {keys[l] : l \in Listeners} : ServiceTypesOf(n) # {}}
             services == UNION {ServiceOfTopic(n) : n \in topics}
             typesFor(x) == UNION {ServiceTypesOf(n) : n \in {m \in topics : x \in ServiceOfTopic(m)}}
             cut == {CutShort(s) : s \in LiveServices}
             typesOf(x) == UNION {TypesOfService(s) : s \in {r \in LiveServices : CutShort(r) = x}}
  <2> SUFFICES ASSUME CacheTypeOK, MirrorInv, CacheConsistent, AllSettled
               PROVE  ServiceNamesAndTypes = [x \in cut |-> typesOf(x)]
    BY DEF ServicesCutShort
  <2>1. ServiceNamesAndTypes = [x \in services |-> typesFor(x)]
    BY DEF ServiceNamesAndTypes
  <2>2. \A d \in endpoints : d.name \in Names
    BY DEF CacheTypeOK, Descriptor
  <2>3. topics \subseteq Names
    BY DEF CacheTypeOK
  <2>4. \A n \in Names : ServiceTypesOf(n) # {} => n \in topics
    BY DEF ServiceTypesOf, TypesOf
  <2>5. ASSUME NEW s \in Services, NEW d \in EndpointsOf(s)
        PROVE  /\ d.name \in topics
               /\ CutShort(s) \in ServiceOfTopic(d.name)
               /\ PartsOfType[d.type].type \in ServiceTypesOf(d.name)
    <3>1. d \in endpoints /\ d.name \in Names /\ PartsOfType[d.type].suffix # ""
      BY <2>2, <2>5 DEF EndpointsOf
    <3>2. PartsOfType[d.type].type \in ServiceTypesOf(d.name)
      BY <3>1, ServiceTypesOfEndpoints
    <3>3. CutShort(s) \in ServiceOfTopic(d.name)
      BY <2>5 DEF EndpointsOf, ServiceOfTopic
    <3> QED
      BY <2>4, <3>1, <3>2, <3>3
  <2>6. ASSUME NEW n \in topics, NEW x \in ServiceOfTopic(n), NEW t \in ServiceTypesOf(n)
        PROVE  \E s \in LiveServices : x = CutShort(s) /\ t \in TypesOfService(s)
    <3>1. PICK s \in Services :
            PartsOfName[n] \in {RequestTopic(s), ResponseTopic(s)} /\ x = CutShort(s)
      BY <2>6 DEF ServiceOfTopic
    <3> DEFINE ends == {e \in endpoints : e.name = n /\ PartsOfType[e.type].suffix # ""}
    <3>a. ServiceTypesOf(n) = {PartsOfType[d.type].type : d \in ends}
      BY <2>3, ServiceTypesOfEndpoints
    <3>b. \A d \in ends : d \in EndpointsOf(s)
      BY <3>1 DEF EndpointsOf
    <3> HIDE DEF ends
    <3>2. PICK d \in ends : t = PartsOfType[d.type].type
      BY <2>6, <3>a
    <3>3. d \in EndpointsOf(s)
      BY <3>b, <3>2
    <3> QED
      BY <3>1, <3>2, <3>3 DEF LiveServices, TypesOfService
  <2>a. \A n \in topics : ServiceTypesOf(n) # {}
    OBVIOUS
  <2> HIDE DEF topics
  <2>7. services = cut
    <3>1. ASSUME NEW x \in services PROVE x \in cut
      <4>1. PICK n \in topics : x \in ServiceOfTopic(n)
        BY <3>1
      <4>2. PICK t : t \in ServiceTypesOf(n)
        BY <2>a, <4>1
      <4> QED
        BY <2>6, <4>1, <4>2
    <3>2. \A s \in LiveServices : CutShort(s) \in services
      BY <2>5 DEF LiveServices
    <3> QED
      BY <3>1, <3>2
  <2>8. ASSUME NEW x PROVE typesFor(x) = typesOf(x)
    <3>1. ASSUME NEW t \in typesFor(x) PROVE t \in typesOf(x)
      <4>1. PICK n \in topics : x \in ServiceOfTopic(n) /\ t \in ServiceTypesOf(n)
        BY <3>1
      <4> QED
        BY <2>6, <4>1
    <3>2. ASSUME NEW t \in typesOf(x) PROVE t \in typesFor(x)
      <4>1. PICK s \in LiveServices : x = CutShort(s) /\ t \in TypesOfService(s)
        BY <3>2
      <4>2. PICK d \in EndpointsOf(s) : t = PartsOfType[d.type].type
        BY <4>1 DEF TypesOfService
      <4> QED
        BY <2>5, <4>1, <4>2 DEF LiveServices
    <3> QED
      BY <3>1, <3>2
  <2> HIDE DEF services, typesFor, cut, typesOf
  <2> QED
    BY <2>1, <2>7, <2>8
<1>2. CacheSpec => []CacheConsistent
  BY CacheCorrect, PTL
<1> QED
  BY <1>1, <1>2, MirrorInvariant, CacheTypeCorrect, PTL

\* remove_information never erases an iterator to end().
THEOREM NothingErasedBadly == CacheSpec => []NoBadErase
BY CacheCorrect, PTL

---------------------------------------------------------------------------
(* The size of a multiset.                                                 *)

\* What FoldFunction adds up: it picks an element and goes on with the others.
Pick(s) == CHOOSE x \in s : TRUE

Adds(f, m, sets) ==
  f = [s \in sets |-> IF s = {} THEN 0 ELSE m[Pick(s)] + f[s \ {Pick(s)}]]

\* The subsets of S with at most n elements.
UpTo(S, n) == {s \in SUBSET S : Cardinality(s) <= n}

\* A set of numbers that is not empty has a least element.
LEMMA Least ==
  ASSUME NEW T \in SUBSET Nat, T # {}
  PROVE  \E x \in T : \A y \in T : x <= y
<1>1. IsWellFoundedOn({ss \in Nat \X Nat : ss[1] < ss[2]}, Nat)
  BY NatLessThanWellFounded DEF OpToRel
<1>2. \E x \in T : \A y \in T : <<y, x>> \notin {ss \in Nat \X Nat : ss[1] < ss[2]}
  BY <1>1, WFMin
<1>3. \A x, y \in T : y < x => <<y, x>> \in {ss \in Nat \X Nat : ss[1] < ss[2]}
  OBVIOUS
<1>4. \A x, y \in T : y < x \/ x <= y
  OBVIOUS
<1> QED
  BY <1>2, <1>3, <1>4

\* In a set of subsets of a finite set that is not empty, some have no other below them.
LEMMA LeastSubset ==
  ASSUME NEW S, IsFiniteSet(S), NEW T \in SUBSET (SUBSET S), T # {}
  PROVE  \E s \in T : \A r \in T : r \subseteq s => r = s
<1>1. IsWellFoundedOn(StrictSubsetOrdering(S), SUBSET S)
  BY FS_StrictSubsetOrderingWellFounded, FS_FiniteSubsetsOfFinite
<1>2. \E s \in T : \A r \in T : <<r, s>> \notin StrictSubsetOrdering(S)
  BY <1>1, WFMin
<1> QED
  BY <1>2 DEF StrictSubsetOrdering

\* Taking an element out of a set.
LEMMA Picked ==
  ASSUME NEW S, IsFiniteSet(S), NEW s \in SUBSET S, s # {}
  PROVE  /\ Pick(s) \in s /\ s \ {Pick(s)} \in SUBSET S
         /\ Cardinality(s) \in Nat /\ Cardinality(s) > 0
         /\ Cardinality(s \ {Pick(s)}) = Cardinality(s) - 1
<1>1. IsFiniteSet(s) /\ Pick(s) \in s
  BY FS_Subset DEF Pick
<1>2. Cardinality(s) \in Nat /\ Cardinality(s) # 0
  BY <1>1, FS_CardinalityType, FS_EmptySet
<1>3. Cardinality(s \ {Pick(s)}) = Cardinality(s) - 1
  BY <1>1, FS_RemoveElement
<1> QED
  BY <1>1, <1>2, <1>3

\* The recursion has a solution for the subsets with at most n elements, for every n.
LEMMA AddsUpTo ==
  ASSUME NEW S, IsFiniteSet(S), NEW m, NEW n \in Nat
  PROVE  \E f : Adds(f, m, UpTo(S, n))
<1> DEFINE bad == {k \in Nat : ~(\E f : Adds(f, m, UpTo(S, k)))}
<1>1. SUFFICES ASSUME bad # {} PROVE FALSE
  OBVIOUS
<1>2. PICK k \in bad : \A j \in bad : k <= j
  BY <1>1, Least
<1>3. \A s \in SUBSET S : Cardinality(s) \in Nat /\ (Cardinality(s) = 0 <=> s = {})
  BY FS_Subset, FS_CardinalityType, FS_EmptySet
<1>4. CASE k = 0
  <2> DEFINE f == [s \in UpTo(S, 0) |-> 0]
  <2>1. UpTo(S, 0) = {{}}
    BY <1>3 DEF UpTo
  <2>2. Adds(f, m, UpTo(S, 0))
    BY <2>1 DEF Adds
  <2> QED
    BY <1>4, <2>2
<1>5. CASE k # 0
  <2>1. k - 1 \in Nat /\ k - 1 \notin bad
    BY <1>2, <1>5
  <2>2. PICK f : Adds(f, m, UpTo(S, k - 1))
    BY <2>1
  <2> DEFINE value(s) == IF s = {} THEN 0 ELSE m[Pick(s)] + f[s \ {Pick(s)}]
             g == [s \in UpTo(S, k) |-> value(s)]
  <2>3. \A s \in UpTo(S, k - 1) : s \in UpTo(S, k) /\ f[s] = value(s)
    <3>1. \A s \in UpTo(S, k - 1) : s \in UpTo(S, k)
      BY <1>3 DEF UpTo
    <3>2. f = [s \in UpTo(S, k - 1) |-> value(s)]
      BY <2>2 DEF Adds
    <3> HIDE DEF value
    <3> QED
      BY <3>1, <3>2
  <2>4. \A s \in UpTo(S, k) : s # {} => s \ {Pick(s)} \in UpTo(S, k - 1)
    BY Picked DEF UpTo
  <2>5. \A s \in UpTo(S, k - 1) : g[s] = f[s]
    BY <2>3
  <2>6. \A s \in UpTo(S, k) :
          value(s) = IF s = {} THEN 0 ELSE m[Pick(s)] + g[s \ {Pick(s)}]
    BY <2>4, <2>5
  <2>7. Adds(g, m, UpTo(S, k))
    BY <2>6, Zenon DEF Adds
  <2> QED
    BY <2>7
<1> QED
  BY <1>4, <1>5

\* So FoldFunction's sum is what its recursion says.
LEMMA SizeAdds ==
  ASSUME NEW m, IsFiniteSet(DOMAIN m)
  PROVE  \E f : Adds(f, m, SUBSET (DOMAIN m)) /\ SizeOf(m) = f[DOMAIN m]
<1> DEFINE S == DOMAIN m
           f == CHOOSE g : Adds(g, m, SUBSET S)
<1>1. Cardinality(S) \in Nat /\ UpTo(S, Cardinality(S)) = SUBSET S
  BY FS_CardinalityType, FS_Subset DEF UpTo
<1>2. \E g : Adds(g, m, SUBSET S)
  <2>1. \E g : Adds(g, m, UpTo(S, Cardinality(S)))
    BY <1>1, AddsUpTo
  <2> QED
    BY <1>1, <2>1
<1>3. Adds(f, m, SUBSET S)
  BY <1>2
<1>4. SizeOf(m) = f[S]
  BY DEF SizeOf, FoldFunction, FoldFunctionOnSet, MapThenFoldSet, Adds, Pick
<1> HIDE DEF f
<1> QED
  BY <1>3, <1>4

\* multiset::size is the number of the entries of a name, when the multiset holds each
\* type as often as the list has entries of that name and type.
LEMMA SizeIsEntries ==
  ASSUME NEW list \in Seq(Descriptor), NEW n, NEW m \in [Types -> Nat],
         \A t \in Types : m[t] = Cardinality(Matches(list, n, t))
  PROVE  SizeOf(m) = Cardinality({i \in DOMAIN list : list[i].name = n})
<1> DEFINE Of(s) == {i \in DOMAIN list : list[i].name = n /\ list[i].type \in s}
<1>1. IsFiniteSet(Types) /\ DOMAIN m = Types
  BY TypesAssumption
<1>2. PICK f : Adds(f, m, SUBSET Types) /\ SizeOf(m) = f[Types]
  BY <1>1, SizeAdds
<1>3. \A s : IsFiniteSet(Of(s))
  <2>1. \A s : Of(s) \subseteq 1..Len(list)
    BY LenProperties
  <2> QED
    BY <2>1, FS_Interval, FS_Subset
<1>4. \A s \in SUBSET Types : f[s] = IF s = {} THEN 0 ELSE m[Pick(s)] + f[s \ {Pick(s)}]
  BY <1>2 DEF Adds
<1> HIDE DEF Of
<1> DEFINE bad == {s \in SUBSET Types : f[s] # Cardinality(Of(s))}
<1>5. bad = {}
  <2> SUFFICES ASSUME bad # {} PROVE FALSE
    OBVIOUS
  <2>1. PICK s \in bad : \A r \in bad : r \subseteq s => r = s
    <3>1. bad \in SUBSET (SUBSET Types)
      OBVIOUS
    <3> HIDE DEF bad
    <3> QED
      BY <1>1, <3>1, LeastSubset
  <2>2. CASE s = {}
    <3>1. Of({}) = {}
      BY DEF Of
    <3> QED
      BY <1>4, <2>1, <2>2, <3>1, FS_EmptySet
  <2>3. CASE s # {}
    <3> DEFINE t == Pick(s)
               r == s \ {t}
    <3>1. t \in s /\ r \in SUBSET Types /\ r # s /\ r \subseteq s
      BY <1>1, <2>3, Picked
    <3>2. f[r] = Cardinality(Of(r))
      BY <2>1, <3>1
    <3>3. f[s] = m[t] + f[r]
      BY <1>4, <2>3
    <3>4. m[t] = Cardinality(Matches(list, n, t)) /\ IsFiniteSet(Matches(list, n, t))
      BY <3>1, MatchesFinite
    <3>5. Of(s) = Matches(list, n, t) \cup Of(r) /\ Matches(list, n, t) \cap Of(r) = {}
      BY <3>1 DEF Of, Matches
    <3>6. /\ Cardinality(Of(r)) \in Nat /\ Cardinality(Matches(list, n, t)) \in Nat
          /\ Cardinality(Of(s)) = Cardinality(Matches(list, n, t)) + Cardinality(Of(r))
      <4>1. IsFiniteSet(Of(r)) /\ IsFiniteSet(Matches(list, n, t))
        BY <1>3, <3>4
      <4>2. Cardinality(Of(r)) \in Nat /\ Cardinality(Matches(list, n, t)) \in Nat
        BY <4>1, FS_CardinalityType
      <4> HIDE DEF r, t
      <4>3. Cardinality(Matches(list, n, t) \cup Of(r)) =
              Cardinality(Matches(list, n, t)) + Cardinality(Of(r))
                - Cardinality(Matches(list, n, t) \cap Of(r))
        BY <4>1, FS_Union
      <4>4. Cardinality(Matches(list, n, t) \cap Of(r)) = 0
        BY <3>5, FS_EmptySet
      <4> QED
        BY <3>5, <4>2, <4>3, <4>4
    <3> QED
      BY <2>1, <3>2, <3>3, <3>4, <3>6
  <2> QED
    BY <2>2, <2>3
<1>6. Of(Types) = {i \in DOMAIN list : list[i].name = n}
  <2>1. \A i \in DOMAIN list : list[i] \in Descriptor
    OBVIOUS
  <2>2. \A i \in DOMAIN list : list[i].type \in Types
    BY <2>1 DEF Descriptor
  <2> QED
    BY <2>2 DEF Of
<1> QED
  BY <1>2, <1>5, <1>6

\* The counts are the numbers of endpoints that exist, once the listener has applied
\* its samples and if none was re-sent.
THEOREM CountsAreExact == CacheSpec => []CountsExact
<1>1. CacheTypeOK /\ MirrorInv /\ CacheConsistent => CountsExact
  <2> SUFFICES ASSUME CacheTypeOK, MirrorInv, CacheConsistent, updates = 0,
                      NEW l \in Listeners, Settled(l), NEW n \in Names
               PROVE  CountOf(l, n) =
                        Cardinality({d \in endpoints : ListenerOf[d.handle] = l /\ d.name = n})
    BY DEF CountsExact
  <2> DEFINE list == descriptors[l]
             entries == {i \in DOMAIN list : list[i].name = n}
             there == {d \in endpoints : ListenerOf[d.handle] = l /\ d.name = n}
             entry == [i \in entries |-> list[i]]
  <2>1. list \in Seq(Descriptor) /\ count[l][n] \in [Types -> Nat]
    BY DEF CacheTypeOK
  <2>2. IsFiniteSet(entries) /\ \A i \in DOMAIN list : list[i].type \in Types
    <3>1. DOMAIN list = 1..Len(list) /\ \A i \in DOMAIN list : list[i] \in Descriptor
      BY <2>1, LenProperties
    <3>2. entries \subseteq 1..Len(list) /\ IsFiniteSet(1..Len(list))
      BY <2>1, <3>1, FS_Interval, LenProperties
    <3>3. \A i \in DOMAIN list : list[i].type \in Types
      BY <3>1 DEF Descriptor
    <3> HIDE DEF entries
    <3> QED
      BY <3>2, <3>3, FS_Subset
  <2>3. SizeOf(count[l][n]) = Cardinality(entries)
    <3>1. \A t \in Types : count[l][n][t] = Cardinality(Matches(list, n, t))
      BY DEF CacheConsistent
    <3> HIDE DEF list
    <3> QED
      BY <2>1, <3>1, SizeIsEntries
  <2>4. CountOf(l, n) = Cardinality(entries)
    <3>1. CASE n \in keys[l]
      BY <2>3, <3>1 DEF CountOf
    <3>2. CASE n \notin keys[l]
      <4>1. \A t \in Types : count[l][n][t] = 0
        BY <2>1, <3>2 DEF CacheConsistent
      <4>2. \A t \in Types : Matches(list, n, t) = {}
        BY <2>1, <4>1, MatchesFinite, FS_EmptySet DEF CacheConsistent
      <4>3. entries = {}
        BY <2>2, <4>2 DEF Matches
      <4> QED
        BY <3>2, <4>3, FS_EmptySet DEF CountOf
    <3> QED
      BY <3>1, <3>2
  <2>5. /\ \A i \in DOMAIN list : list[i] \in endpoints /\ ListenerOf[list[i].handle] = l
        /\ \A d \in endpoints : ListenerOf[d.handle] = l => \E i \in DOMAIN list : list[i] = d
    BY ListIsEndpoints
  <2>6. \A i, k \in DOMAIN list : list[i].handle = list[k].handle => i = k
    BY DEF MirrorInv, ExactAt, ExactFor
  <2>7. ExistsBijection(entries, there)
    <3>1. entry \in [entries -> there]
      BY <2>5
    <3>2. \A i, k \in entries : entry[i] = entry[k] => i = k
      BY <2>6
    <3>3. \A d \in there : \E i \in entries : entry[i] = d
      BY <2>5
    <3> HIDE DEF entry, entries, there
    <3> QED
      BY <3>1, <3>2, <3>3 DEF ExistsBijection, Bijection, Injection, Surjection, IsInjective
  <2>8. Cardinality(there) = Cardinality(entries)
    BY <2>2, <2>7, FS_Bijection
  <2> QED
    BY <2>4, <2>8
<1>2. CacheSpec => []CacheConsistent
  BY CacheCorrect, PTL
<1> QED
  BY <1>1, <1>2, MirrorInvariant, CacheTypeCorrect, PTL
=============================================================================
