----------------------------- MODULE GraphCache -----------------------------
(***************************************************************************)
(* The discovery listeners of a node (custom_listeners.cpp) and the graph  *)
(* queries that read their caches (rmw_count_publishers.cpp,               *)
(* rmw_count_subscribers.cpp, rmw_get_topic_names_and_types.cpp).          *)
(*                                                                         *)
(* A node has two listeners, one on the built-in reader for publications   *)
(* and one on the one for subscriptions.  Remote endpoints come and go;    *)
(* the middleware queues a sample for each change and calls                *)
(* on_data_available, which takes the whole queue, applies the samples one *)
(* by one to the listener's cache, and then triggers the graph guard       *)
(* condition.                                                              *)
(***************************************************************************)
EXTENDS Integers, Sequences, FiniteSets, SequencesExt

CONSTANTS
  Listeners,      \* the publication and the subscription listener
  Handles,        \* instance handles of the remote endpoints
  ListenerOf,     \* [Handles -> Listeners]
  Names,          \* fully qualified topic names
  Types,          \* type names
  RosNames,       \* the names that carry the prefix "rt"
  MaxAnnounced,   \* bound: endpoint creations
  MaxUpdates      \* bound: valid samples re-sent for an endpoint that exists

ASSUME ListenerAssumption == ListenerOf \in [Handles -> Listeners]
ASSUME TypesAssumption == IsFiniteSet(Types)
ASSUME NamesAssumption == RosNames \subseteq Names
ASSUME CacheBoundAssumption == MaxAnnounced \in Nat /\ MaxUpdates \in Nat

Info == [name : Names, type : Types]
Descriptor == [handle : Handles, name : Names, type : Types]
\* A built-in sample: valid_data tells whether the endpoint exists.  The
\* names of an invalid sample are not looked at.
Sample == [handle : Handles, valid : BOOLEAN, info : Info]

VARIABLES
  endpoints,    \* the remote endpoints that exist: a set of descriptors
  queue,        \* samples the middleware holds for each listener
  batch,        \* samples on loan to on_data_available, not yet applied
  phase,        \* where each listener's callback is
  descriptors,  \* topic_descriptors: a list, in the order of insertion
  keys,         \* the keys of the map topic_names_and_types
  count,        \* its values: how often a type is in a topic's multiset
  corrupted,    \* an iterator to end() was erased
  announced,    \* endpoint creations so far
  updates       \* re-sent samples so far

cacheVars == <<endpoints, queue, batch, phase, descriptors, keys, count, corrupted,
               announced, updates>>

CacheInit ==
  /\ endpoints = {}
  /\ queue = [l \in Listeners |-> <<>>]
  /\ batch = [l \in Listeners |-> <<>>]
  /\ phase = [l \in Listeners |-> "idle"]
  /\ descriptors = [l \in Listeners |-> <<>>]
  /\ keys = [l \in Listeners |-> {}]
  /\ count = [l \in Listeners |-> [n \in Names |-> [t \in Types |-> 0]]]
  /\ corrupted = FALSE
  /\ announced = 0
  /\ updates = 0

---------------------------------------------------------------------------
(* The remote endpoints and the middleware.                                *)

Exists(h) == \E d \in endpoints : d.handle = h

Deliver(h, samples) ==
  queue' = [queue EXCEPT ![ListenerOf[h]] = @ \o samples]

DescriptorOf(h, info) == [handle |-> h, name |-> info.name, type |-> info.type]
Valid(h, info) == [handle |-> h, valid |-> TRUE, info |-> info]
Invalid(h) == [handle |-> h, valid |-> FALSE, info |-> CHOOSE i \in Info : TRUE]

listenerVars == <<batch, phase, descriptors, keys, count, corrupted>>

EndpointCreated(h, info) ==
  /\ ~Exists(h)
  /\ announced < MaxAnnounced
  /\ announced' = announced + 1
  /\ endpoints' = endpoints \cup {DescriptorOf(h, info)}
  /\ Deliver(h, <<Valid(h, info)>>)
  /\ UNCHANGED <<listenerVars, updates>>

\* The endpoint's QoS changes: its built-in sample is sent again, under
\* another name when the partition changed.
EndpointUpdated(h, info) ==
  /\ Exists(h)
  /\ updates < MaxUpdates
  /\ updates' = updates + 1
  /\ endpoints' = {d \in endpoints : d.handle # h} \cup {DescriptorOf(h, info)}
  /\ Deliver(h, <<Valid(h, info)>>)
  /\ UNCHANGED <<listenerVars, announced>>

\* The endpoint is deleted: the instance is disposed, and may lose its writer
\* in a second invalid sample.
EndpointDeleted(h) ==
  /\ Exists(h)
  /\ endpoints' = {d \in endpoints : d.handle # h}
  /\ \E samples \in {<<Invalid(h)>>, <<Invalid(h), Invalid(h)>>} : Deliver(h, samples)
  /\ UNCHANGED <<listenerVars, announced, updates>>

---------------------------------------------------------------------------
(* The listeners.                                                          *)

environmentVars == <<endpoints, announced, updates>>

\* Faulty variant: a handle that has an entry is not entered again.
AddOncePerHandle(l, h, info) ==
  IF \E i \in DOMAIN descriptors[l] : descriptors[l][i].handle = h
  THEN UNCHANGED <<keys, count, descriptors, corrupted>>
  ELSE /\ keys' = [keys EXCEPT ![l] = @ \cup {info.name}]
       /\ count' = [count EXCEPT ![l][info.name][info.type] = @ + 1]
       /\ descriptors' = [descriptors EXCEPT ![l] = Append(@, DescriptorOf(h, info))]
       /\ UNCHANGED corrupted

\* add_information
AddInformation(l, h, info) ==
  /\ keys' = [keys EXCEPT ![l] = @ \cup {info.name}]
  /\ count' = [count EXCEPT ![l][info.name][info.type] = @ + 1]
  /\ descriptors' = [descriptors EXCEPT ![l] = Append(@, DescriptorOf(h, info))]
  /\ UNCHANGED corrupted

Entries(l, h) == {i \in DOMAIN descriptors[l] : descriptors[l][i].handle = h}

\* Faulty variants of remove_information's body: a topic is kept when its last
\* type goes; the entry is not erased from the list; neither is it erased, nor
\* is the type looked up in the multiset.
KeepTopic(l, k) ==
  LET d == descriptors[l][k] IN
  /\ count' = [count EXCEPT ![l][d.name][d.type] = @ - 1]
  /\ descriptors' = [descriptors EXCEPT ![l] = RemoveAt(@, k)]
  /\ UNCHANGED <<keys, corrupted>>

KeepEntry(l, k) ==
  LET d == descriptors[l][k] IN
  /\ IF count[l][d.name][d.type] = 0
     THEN corrupted' = TRUE /\ UNCHANGED count
     ELSE count' = [count EXCEPT ![l][d.name][d.type] = @ - 1] /\ UNCHANGED corrupted
  /\ UNCHANGED <<keys, descriptors>>

EraseBlindly(l, k) ==
  LET d == descriptors[l][k] IN
  /\ count' = [count EXCEPT ![l][d.name][d.type] = @ - 1]
  /\ UNCHANGED <<keys, descriptors, corrupted>>

\* remove_information finds the first entry of the handle, takes one occurrence
\* of its type out of the topic's multiset and drops the topic with the last one.
RemoveEntry(l, k) ==
  LET d == descriptors[l][k] IN
  /\ IF count[l][d.name][d.type] = 0
     THEN corrupted' = TRUE /\ UNCHANGED <<keys, count>>
     ELSE /\ count' = [count EXCEPT ![l][d.name][d.type] = @ - 1]
          /\ keys' = [keys EXCEPT ![l] =
               IF \A t \in Types : count'[l][d.name][t] = 0
               THEN @ \ {d.name} ELSE @ \cup {d.name}]
          /\ UNCHANGED corrupted
  /\ descriptors' = [descriptors EXCEPT ![l] = RemoveAt(@, k)]

\* Faulty variant: the first entry goes, whatever handle it has.
RemoveAnyFirst(l, h) ==
  IF Entries(l, h) = {}
  THEN UNCHANGED <<descriptors, keys, count, corrupted>>
  ELSE RemoveEntry(l, 1)

RemoveInformation(l, h) ==
  IF Entries(l, h) = {}
  THEN UNCHANGED <<descriptors, keys, count, corrupted>>
  ELSE \E k \in Entries(l, h) :
         /\ \A j \in Entries(l, h) : k <= j
         /\ RemoveEntry(l, k)

\* on_data_available: take everything that is there.  Where the reader's take fails the
\* callback returns at once and has changed nothing, which is a stutter: that samples
\* are taken in the end assumes that the middleware calls again.
TakeSamples(l) ==
  /\ phase[l] = "idle"
  /\ queue[l] # <<>>
  /\ batch' = [batch EXCEPT ![l] = queue[l]]
  /\ queue' = [queue EXCEPT ![l] = <<>>]
  /\ phase' = [phase EXCEPT ![l] = "apply"]
  /\ UNCHANGED <<environmentVars, descriptors, keys, count, corrupted>>

ApplySample(l) ==
  /\ phase[l] = "apply"
  /\ batch[l] # <<>>
  /\ LET s == Head(batch[l]) IN
       IF s.valid THEN AddInformation(l, s.handle, s.info)
                  ELSE RemoveInformation(l, s.handle)
  /\ batch' = [batch EXCEPT ![l] = Tail(@)]
  /\ UNCHANGED <<environmentVars, queue, phase>>

\* trigger_graph_guard_condition, then return_loan.
TriggerGraphGuardCondition(l) ==
  /\ phase[l] = "apply"
  /\ batch[l] = <<>>
  /\ phase' = [phase EXCEPT ![l] = "idle"]
  /\ UNCHANGED <<environmentVars, queue, batch, descriptors, keys, count, corrupted>>

EndpointStep ==
  \E h \in Handles :
    \/ \E info \in Info : EndpointCreated(h, info) \/ EndpointUpdated(h, info)
    \/ EndpointDeleted(h)

ListenerStep(l) == TakeSamples(l) \/ ApplySample(l)

CacheNext ==
  \/ EndpointStep
  \/ \E l \in Listeners : ListenerStep(l) \/ TriggerGraphGuardCondition(l)

CacheSpec == CacheInit /\ [][CacheNext]_cacheVars

---------------------------------------------------------------------------
(* The queries.                                                            *)

\* multiset::size
SizeOf(multiset) == FoldFunction(+, 0, multiset)

\* rmw_count_publishers, rmw_count_subscribers: the size of the topic's multiset.
CountOf(l, n) == IF n \in keys[l] THEN SizeOf(count[l][n]) ELSE 0

TypesOf(l, n) == {t \in Types : n \in keys[l] /\ count[l][n][t] > 0}

\* Faulty variant: the types of one cache replace those of the other.
TypesOverwritten(noDemangle) ==
  LET listed == {n \in UNION {keys[l] : l \in Listeners} : noDemangle \/ n \in RosNames}
  IN  [n \in listed |-> TypesOf(CHOOSE l \in Listeners : n \in keys[l], n)]

\* rmw_get_topic_names_and_types: the topics of both caches, with the types of
\* both; only names with the prefix "rt" unless no_demangle is set.
TopicNamesAndTypes(noDemangle) ==
  LET types(n) == UNION {TypesOf(l, n) : l \in Listeners}
      listed == {n \in UNION {keys[l] : l \in Listeners} :
                   types(n) # {} /\ (noDemangle \/ n \in RosNames)}
  IN  [n \in listed |-> types(n)]

---------------------------------------------------------------------------
(* Properties.                                                             *)

CacheTypeOK ==
  /\ endpoints \subseteq Descriptor
  /\ queue \in [Listeners -> Seq(Sample)]
  /\ batch \in [Listeners -> Seq(Sample)]
  /\ phase \in [Listeners -> {"idle", "apply"}]
  /\ descriptors \in [Listeners -> Seq(Descriptor)]
  /\ keys \in [Listeners -> SUBSET Names]
  /\ count \in [Listeners -> [Names -> [Types -> Nat]]]
  /\ corrupted \in BOOLEAN
  /\ announced \in 0..MaxAnnounced
  /\ updates \in 0..MaxUpdates

Matches(list, n, t) == {i \in DOMAIN list : list[i].name = n /\ list[i].type = t}

\* The list and the map of a listener agree: a topic's multiset holds a type as
\* often as the list has entries for it, and the map has no empty multiset.
CacheConsistent ==
  \A l \in Listeners : \A n \in Names :
    /\ \A t \in Types : count[l][n][t] = Cardinality(Matches(descriptors[l], n, t))
    /\ n \in keys[l] <=> \E t \in Types : count[l][n][t] > 0

\* remove_information never erases end(): the type it looks up in the multiset
\* (custom_listeners.cpp:63) is there.
NoBadErase == ~corrupted

Settled(l) == queue[l] = <<>> /\ batch[l] = <<>>

\* When a listener has applied all its samples, the counts are the numbers of
\* endpoints that exist, if no endpoint's sample was ever sent twice.
CountsExact ==
  updates = 0 =>
    \A l \in Listeners : Settled(l) =>
      \A n \in Names :
        CountOf(l, n) = Cardinality({d \in endpoints : ListenerOf[d.handle] = l /\ d.name = n})

\* ... and then the topics that are listed are those that have an endpoint,
\* each with exactly the types of its endpoints.
TopicsExact ==
  (updates = 0 /\ \A l \in Listeners : Settled(l)) =>
    \A noDemangle \in BOOLEAN :
      TopicNamesAndTypes(noDemangle) =
        [n \in {d.name : d \in {e \in endpoints : noDemangle \/ e.name \in RosNames}} |->
           {d.type : d \in {e \in endpoints : e.name = n}}]

\* Whatever was re-sent, an endpoint that exists is never missing from the cache
\* once its listener has applied all its samples.
LiveEndpointsKnown ==
  \A d \in endpoints : Settled(ListenerOf[d.handle]) =>
    \E i \in DOMAIN descriptors[ListenerOf[d.handle]] : descriptors[ListenerOf[d.handle]][i] = d

===========================================================================
