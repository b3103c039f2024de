----------------------------- MODULE GraphEvents -----------------------------
(***************************************************************************)
(* Graph discovery end to end: the listeners of a node (GraphCache) change *)
(* their caches in the middleware's threads and trigger the graph guard    *)
(* condition (rmw_node_get_graph_guard_condition.cpp); observers wait for  *)
(* the graph guard condition with rmw_wait, in the form of its contract    *)
(* (WaitContract), and then query the caches, one query after the other.   *)
(***************************************************************************)
EXTENDS GraphCache

CONSTANTS
  Observers,    \* the threads that wait for graph changes
  GraphGuard    \* the node's graph guard condition

VARIABLES
  call, wanted, heard, reported, signal,   \* of the contract of rmw_wait
  toRead,   \* the caches an observer has still to query
  view      \* the counts an observer has last read from each cache

Wait == INSTANCE WaitContract WITH WaitSets <- Observers, Guards <- {GraphGuard}

waitVars == <<call, wanted, heard, reported, signal>>
observerVars == <<toRead, view>>
eventVars == <<cacheVars, waitVars, observerVars>>

Counts(l) == [n \in Names |-> CountOf(l, n)]

EventInit ==
  /\ CacheInit
  /\ Wait!Init
  /\ toRead = [o \in Observers |-> {}]
  /\ view = [o \in Observers |-> [l \in Listeners |-> [n \in Names |-> 0]]]

---------------------------------------------------------------------------
(* The listeners.                                                          *)

Endpoints == EndpointStep /\ UNCHANGED <<waitVars, observerVars>>

\* Faulty variant: the guard condition is triggered before the samples are applied.
TriggerFirst(l) ==
  \/ TakeSamples(l) /\ Wait!Signal(GraphGuard) /\ UNCHANGED observerVars
  \/ ApplySample(l) /\ UNCHANGED <<waitVars, observerVars>>
  \/ TriggerGraphGuardCondition(l) /\ UNCHANGED <<waitVars, observerVars>>

Listen(l) ==
  \/ ListenerStep(l) /\ UNCHANGED <<waitVars, observerVars>>
  \/ /\ TriggerGraphGuardCondition(l)
     /\ Wait!Signal(GraphGuard)
     /\ UNCHANGED observerVars

---------------------------------------------------------------------------
(* An observer: rmw_wait on the graph guard condition without a timeout,   *)
(* then a query per cache.                                                 *)

BeginWait(o) == Wait!Begin(o, {GraphGuard}) /\ UNCHANGED <<cacheVars, observerVars>>

Hear(o) == Wait!Hear(o, {GraphGuard}) /\ UNCHANGED <<cacheVars, observerVars>>

Report(o) == Wait!Report(o, GraphGuard) /\ UNCHANGED <<cacheVars, observerVars>>

Return(o) ==
  /\ reported[o] # {}
  /\ Wait!Return(o)
  /\ UNCHANGED <<cacheVars, observerVars>>

\* Faulty variant: the observer queries one cache only.
LookAtOneCache(o) ==
  /\ GraphGuard \in reported[o]
  /\ Wait!Look(o, GraphGuard)
  /\ \E l \in Listeners : toRead' = [toRead EXCEPT ![o] = {l}]
  /\ UNCHANGED <<cacheVars, view>>

Look(o) ==
  /\ GraphGuard \in reported[o]
  /\ Wait!Look(o, GraphGuard)
  /\ toRead' = [toRead EXCEPT ![o] = Listeners]
  /\ UNCHANGED <<cacheVars, view>>

ReadCounts(o, l) ==
  /\ l \in toRead[o]
  /\ view' = [view EXCEPT ![o][l] = Counts(l)]
  /\ toRead' = [toRead EXCEPT ![o] = @ \ {l}]
  /\ UNCHANGED <<cacheVars, waitVars>>

Leave(o) ==
  /\ toRead[o] = {}
  /\ Wait!Leave(o)
  /\ UNCHANGED <<cacheVars, observerVars>>

Observe(o) ==
  \/ BeginWait(o) \/ Hear(o) \/ Report(o) \/ Return(o) \/ Look(o) \/ Leave(o)
  \/ \E l \in Listeners : ReadCounts(o, l)

EventNext ==
  \/ Endpoints
  \/ \E l \in Listeners : Listen(l)
  \/ \E o \in Observers : Observe(o)

EventSpec == EventInit /\ [][EventNext]_eventVars

\* The middleware calls a listener as long as samples are queued and a
\* callback runs to its end; an observer thread that can step does.
FairEventSpec ==
  /\ EventSpec
  /\ \A l \in Listeners : WF_eventVars(Listen(l))
  /\ \A o \in Observers : WF_eventVars(Observe(o))

---------------------------------------------------------------------------
(* Properties.                                                             *)

\* Observer o is on its way to query the cache of l.
WillRead(o, l) == heard[o] # {} \/ reported[o] # {} \/ l \in toRead[o]

\* A change of the cache that no observer has read yet is announced: the guard
\* condition is triggered, or its listener has still to trigger it
\* (custom_listeners.cpp:124), or an observer is about to query.
ChangesAnnounced ==
  \A l \in Listeners :
    \/ \E o \in Observers : view[o][l] = Counts(l) \/ WillRead(o, l)
    \/ signal[GraphGuard]
    \/ phase[l] = "apply"

LiveCounts(l) ==
  [n \in Names |->
     Cardinality({d \in endpoints : ListenerOf[d.handle] = l /\ d.name = n})]

\* When endpoints stop coming and going, an observer ends up knowing how many
\* there are on each topic, and stays so.
GraphSettles ==
  \A l \in Listeners : <>[](\E o \in Observers : view[o][l] = LiveCounts(l))

===========================================================================
