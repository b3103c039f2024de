-------------------------- MODULE GraphEventProofs --------------------------
(***************************************************************************)
(* Proofs about graph discovery end to end (GraphEvents): beside observers *)
(* the caches keep everything that is proved of them (GraphCacheProofs),   *)
(* and no change of a cache is missed by every observer.                   *)
(***************************************************************************)
EXTENDS GraphEvents, GraphCacheProofs

\* Observers only read the caches: what holds of the caches alone
\* (CacheConsistent, NoBadErase, TopicsExact, LiveEndpointsKnown) holds here.
THEOREM ObserversOnlyRead == EventSpec => CacheSpec
<1>1. EventInit => CacheInit
  BY DEF EventInit
<1>2. [EventNext]_eventVars => [CacheNext]_cacheVars
  <2> SUFFICES ASSUME [EventNext]_eventVars PROVE [CacheNext]_cacheVars
    OBVIOUS
  <2>1. CASE Endpoints
    BY <2>1 DEF Endpoints, CacheNext
  <2>2. ASSUME NEW l \in Listeners, Listen(l) PROVE CacheNext
    BY <2>2 DEF Listen, CacheNext
  <2>3. ASSUME NEW o \in Observers, Observe(o) PROVE UNCHANGED cacheVars
    BY <2>3 DEF Observe, BeginWait, Hear, Report, Return, Look, Leave, ReadCounts
  <2>4. CASE UNCHANGED eventVars
    BY <2>4 DEF eventVars
  <2> QED
    BY <2>1, <2>2, <2>3, <2>4 DEF EventNext
<1> QED
  BY <1>1, <1>2, PTL DEF EventSpec, CacheSpec

\* What observers remember has the right shape.
ObserversOK ==
  /\ heard \in [Observers -> SUBSET {GraphGuard}]
  /\ reported \in [Observers -> SUBSET {GraphGuard}]
  /\ signal \in [{GraphGuard} -> BOOLEAN]
  /\ toRead \in [Observers -> SUBSET Listeners]
  /\ DOMAIN view = Observers
  /\ \A o \in Observers : DOMAIN view[o] = Listeners

LEMMA ObserverTypes == EventSpec => []ObserversOK
<1>1. EventInit => ObserversOK
  BY DEF EventInit, Wait!Init, ObserversOK
<1>2. ObserversOK /\ [EventNext]_eventVars => ObserversOK'
  <2> SUFFICES ASSUME ObserversOK, [EventNext]_eventVars PROVE ObserversOK'
    OBVIOUS
  <2> USE DEF ObserversOK
  <2>1. CASE Endpoints
    BY <2>1 DEF Endpoints, waitVars, observerVars
  <2>2. ASSUME NEW l \in Listeners, Listen(l) PROVE ObserversOK'
    BY <2>2 DEF Listen, Wait!Signal, waitVars, observerVars
  <2>3. ASSUME NEW o \in Observers, Observe(o) PROVE ObserversOK'
    <3>1. CASE BeginWait(o) \/ Return(o) \/ Leave(o)
      BY <3>1 DEF BeginWait, Return, Leave, Wait!Begin, Wait!Return, Wait!Leave, observerVars
    <3>2. CASE Hear(o)
      BY <3>2 DEF Hear, Wait!Hear, observerVars
    <3>3. CASE Report(o)
      BY <3>3 DEF Report, Wait!Report, observerVars
    <3>4. CASE Look(o)
      BY <3>4 DEF Look, Wait!Look
    <3>5. ASSUME NEW l \in Listeners, ReadCounts(o, l) PROVE ObserversOK'
      <4>1. /\ heard' = heard /\ reported' = reported /\ signal' = signal
            /\ toRead' = [toRead EXCEPT ![o] = @ \ {l}]
        BY <3>5 DEF ReadCounts, waitVars
      <4>2. DOMAIN view' = Observers /\ \A p \in Observers : DOMAIN view'[p] = Listeners
        BY <3>5 DEF ReadCounts
      <4> QED
        BY <4>1, <4>2
    <3> QED
      BY <2>3, <3>1, <3>2, <3>3, <3>4, <3>5 DEF Observe
  <2>4. CASE UNCHANGED eventVars
    BY <2>4 DEF eventVars, waitVars, observerVars
  <2> QED
    BY <2>1, <2>2, <2>3, <2>4 DEF EventNext
<1> QED
  BY <1>1, <1>2, PTL DEF EventSpec

\* A listener changes its own cache only.
LEMMA OthersCacheKept ==
  ASSUME CacheTypeOK, NEW l \in Listeners, NEW m \in Listeners, m # l, ApplySample(m)
  PROVE  keys'[l] = keys[l] /\ count'[l] = count[l] /\ phase' = phase
<1> DEFINE s == Head(batch[m])
<1>1. phase' = phase
  BY DEF ApplySample
<1>2. CASE s.valid
  <2>1. AddInformation(m, s.handle, s.info)
    BY <1>2 DEF ApplySample
  <2> QED
    BY <1>1, <2>1 DEF AddInformation, CacheTypeOK
<1>3. CASE ~s.valid
  <2>1. RemoveInformation(m, s.handle)
    BY <1>3 DEF ApplySample
  <2>2. CASE Entries(m, s.handle) = {}
    BY <1>1, <2>1, <2>2 DEF RemoveInformation
  <2>3. CASE Entries(m, s.handle) # {}
    <3>1. PICK k \in Entries(m, s.handle) : RemoveEntry(m, k)
      BY <2>1, <2>3 DEF RemoveInformation
    <3> QED
      BY <1>1, <3>1 DEF RemoveEntry, CacheTypeOK
  <2> QED
    BY <2>2, <2>3
<1> QED
  BY <1>2, <1>3

\* What a query returns depends on the cache only.
LEMMA CountsKept ==
  ASSUME NEW l \in Listeners, keys'[l] = keys[l], count'[l] = count[l]
  PROVE  Counts(l)' = Counts(l)
BY DEF Counts, CountOf

\* A change of the cache of l that no observer has read is announced.
Announced(l) ==
  \/ \E o \in Observers : view[o][l] = Counts(l) \/ WillRead(o, l)
  \/ signal[GraphGuard]
  \/ phase[l] = "apply"

\* No change of a cache goes unnoticed by every observer, although each listener
\* triggers the graph guard condition only after its whole batch and any observer may
\* clear it: for any number of listeners and observers, of which there is one at least.
THEOREM ChangesStayAnnounced == Observers # {} => (EventSpec => []ChangesAnnounced)
<1> SUFFICES ASSUME Observers # {}
             PROVE  EventSpec => []ChangesAnnounced
  OBVIOUS
<1>1. EventInit => ChangesAnnounced
  <2> SUFFICES ASSUME EventInit, NEW l \in Listeners
               PROVE  \E o \in Observers : view[o][l] = Counts(l)
    BY DEF ChangesAnnounced
  <2>1. \A n \in Names : CountOf(l, n) = 0
    BY DEF EventInit, CacheInit, CountOf
  <2> QED
    BY <2>1 DEF EventInit, Counts
<1>2. CacheTypeOK /\ ObserversOK /\ ChangesAnnounced /\ [EventNext]_eventVars => ChangesAnnounced'
  <2> SUFFICES ASSUME CacheTypeOK, ObserversOK, ChangesAnnounced, [EventNext]_eventVars,
                      NEW l \in Listeners
               PROVE  Announced(l)'
    BY DEF ChangesAnnounced, Announced
  <2>0. Announced(l)
    BY DEF ChangesAnnounced, Announced
  <2> DEFINE SameCache == keys'[l] = keys[l] /\ count'[l] = count[l] /\ phase'[l] = phase[l]
             SameOthers == UNCHANGED <<waitVars, observerVars>>
  <2>1. SameCache /\ SameOthers => Announced(l)'
    BY <2>0, CountsKept DEF Announced, WillRead, waitVars, observerVars
  <2>2. CASE Endpoints
    BY <2>1, <2>2 DEF Endpoints, EndpointStep, EndpointCreated, EndpointUpdated,
         EndpointDeleted, listenerVars
  <2>3. ASSUME NEW m \in Listeners, Listen(m) PROVE Announced(l)'
    <3>1. CASE TakeSamples(m) /\ SameOthers
      <4>1. CASE m = l
        BY <3>1, <4>1 DEF TakeSamples, CacheTypeOK, Announced
      <4>2. CASE m # l
        BY <2>1, <3>1, <4>2 DEF TakeSamples, CacheTypeOK
      <4> QED
        BY <4>1, <4>2
    <3>2. CASE ApplySample(m) /\ SameOthers
      <4>1. CASE m = l
        BY <3>2, <4>1 DEF ApplySample, Announced
      <4>2. CASE m # l
        BY <2>1, <3>2, <4>2, OthersCacheKept
      <4> QED
        BY <4>1, <4>2
    <3>3. CASE TriggerGraphGuardCondition(m) /\ Wait!Signal(GraphGuard)
      BY <3>3 DEF Wait!Signal, ObserversOK, Announced
    <3> QED
      BY <2>3, <3>1, <3>2, <3>3 DEF Listen, ListenerStep
  <2>4. ASSUME NEW o \in Observers, Observe(o) PROVE Announced(l)'
    <3>0. Counts(l)' = Counts(l) /\ phase' = phase
      <4>1. UNCHANGED cacheVars
        BY <2>4 DEF Observe, BeginWait, Hear, Report, Return, Look, Leave, ReadCounts
      <4> QED
        BY <4>1, CountsKept DEF cacheVars
    <3>1. CASE BeginWait(o) \/ Return(o) \/ Leave(o)
      <4>1. UNCHANGED <<heard, reported, signal, toRead, view>>
        BY <3>1 DEF BeginWait, Return, Leave, Wait!Begin, Wait!Return, Wait!Leave, observerVars
      <4> QED
        BY <2>0, <3>0, <4>1 DEF Announced, WillRead
    <3>2. CASE Hear(o)
      <4>1. heard'[o] = {GraphGuard}
        BY <3>2 DEF Hear, Wait!Hear, ObserversOK
      <4> QED
        BY <4>1 DEF Announced, WillRead
    <3>3. CASE Report(o)
      <4>1. GraphGuard \in reported'[o]
        BY <3>3 DEF Report, Wait!Report, ObserversOK
      <4> QED
        BY <4>1 DEF Announced, WillRead
    <3>4. CASE Look(o)
      <4>1. l \in toRead'[o]
        BY <3>4 DEF Look, ObserversOK
      <4> QED
        BY <4>1 DEF Announced, WillRead
    <3>5. ASSUME NEW m \in Listeners, ReadCounts(o, m) PROVE Announced(l)'
      <4>1. CASE m = l
        <5>1. view'[o][l] = Counts(l)
          BY <3>5, <4>1 DEF ReadCounts, ObserversOK
        <5> QED
          BY <3>0, <5>1 DEF Announced
      <4>2. CASE m # l
        <5>1. /\ heard' = heard /\ reported' = reported /\ signal' = signal
              /\ \A p \in Observers : l \in toRead[p] => l \in toRead'[p]
              /\ \A p \in Observers : view'[p][l] = view[p][l]
          BY <3>5, <4>2 DEF ReadCounts, ObserversOK, waitVars
        <5> QED
          BY <2>0, <3>0, <5>1 DEF Announced, WillRead
      <4> QED
        BY <4>1, <4>2
    <3> QED
      BY <2>4, <3>1, <3>2, <3>3, <3>4, <3>5 DEF Observe
  <2>5. CASE UNCHANGED eventVars
    BY <2>1, <2>5 DEF eventVars, cacheVars
  <2> QED
    BY <2>2, <2>3, <2>4, <2>5 DEF EventNext
<1>3. EventSpec => []CacheTypeOK
  BY ObserversOnlyRead, CacheTypeCorrect, PTL
<1> QED
  BY <1>1, <1>2, <1>3, ObserverTypes, PTL DEF EventSpec

\* Nothing moves: the listeners have applied and announced all their samples, and
\* the guard condition has been cleared by observers that have read every cache.
AtRest ==
  /\ \A l \in Listeners : Settled(l) /\ phase[l] = "idle"
  /\ ~signal[GraphGuard]
  /\ \A o \in Observers : \A l \in Listeners : ~WillRead(o, l)

\* What GraphSettles says of a state at rest: each cache's counts, as some observer has
\* read them, are the numbers of endpoints that exist, if no sample was re-sent.
RestIsKnown ==
  AtRest /\ updates = 0 =>
    \A l \in Listeners : \E o \in Observers : view[o][l] = LiveCounts(l)

\* Observers and listeners never come to rest with an endpoint that no observer knows of
\* or one that is gone and still counted: what rmw_count_publishers and
\* rmw_count_subscribers have last returned is then exact.
THEOREM KnownAtRest == Observers # {} => (EventSpec => []RestIsKnown)
<1>1. ChangesAnnounced /\ CountsExact => RestIsKnown
  <2> SUFFICES ASSUME ChangesAnnounced, CountsExact, AtRest, updates = 0, NEW l \in Listeners
               PROVE  \E o \in Observers : view[o][l] = LiveCounts(l)
    BY DEF RestIsKnown
  <2>1. PICK o \in Observers : view[o][l] = Counts(l)
    BY DEF ChangesAnnounced, AtRest
  <2>2. \A n \in Names : CountOf(l, n) =
          Cardinality({d \in endpoints : ListenerOf[d.handle] = l /\ d.name = n})
    BY DEF AtRest, CountsExact
  <2>3. Counts(l) = LiveCounts(l)
    BY <2>2 DEF Counts, LiveCounts
  <2> QED
    BY <2>1, <2>3
<1>2. EventSpec => []CountsExact
  BY ObserversOnlyRead, CountsAreExact, PTL
<1> QED
  BY <1>1, <1>2, ChangesStayAnnounced, PTL
=============================================================================
