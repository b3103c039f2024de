--------------------------- MODULE EntityLifecycle ---------------------------
(***************************************************************************)
(* Creation and destruction of the entities of a node: publishers,         *)
(* subscriptions, services and clients (rmw_create_*.cpp,                  *)
(* rmw_destroy_*.cpp).  A creation makes its parts one after the other and *)
(* jumps to its "fail" block when a part cannot be made.  Threads create   *)
(* and destroy entities of one participant at the same time; the topics of *)
(* the participant are shared, and stay until the node is destroyed.  Any  *)
(* allocation or DDS call may fail, and a caller tries again.              *)
(***************************************************************************)
EXTENDS Integers, Sequences

CONSTANTS
  Publishers, Subscriptions, Services, Clients,
  TopicOf,       \* the topic of each publisher and subscription
  MaxFailures    \* bound: allocations and DDS calls that fail

PubSubs == Publishers \cup Subscriptions
Rpcs == Services \cup Clients
Entities == PubSubs \cup Rpcs

ASSUME EntitiesDisjoint ==
  /\ Publishers \cap Subscriptions = {} /\ Services \cap Clients = {}
  /\ PubSubs \cap Rpcs = {}
ASSUME TopicAssumption == DOMAIN TopicOf = PubSubs
ASSUME FailureBound == MaxFailures \in Nat

\* The DDS objects of an entity, by the order in which they must be deleted: a
\* reader or writer only without its read condition, and a group (the DDS
\* publisher or subscriber) only without its reader or writer.  The proxy of a
\* service or client is its replier or requester, which owns its readers and
\* writers; deleting it reports no failure.
Rank == [condition |-> 1, endpoint |-> 2, group |-> 3]
Objects == DOMAIN Rank
Parts == Objects \cup {"proxy", "handle", "info", "name"}

\* What each kind of entity is made of, in the order of the code.
PublisherSteps == <<"handle", "group", "lookup", "topic", "endpoint", "info", "name">>
SubscriptionSteps ==
  <<"handle", "group", "lookup", "topic", "endpoint", "condition", "info", "name">>
ServiceSteps == <<"handle", "proxy", "condition", "info", "name">>
ClientSteps == <<"handle", "proxy", "condition", "info", "name">>

Steps(e) ==
  CASE e \in Publishers -> PublisherSteps
    [] e \in Subscriptions -> SubscriptionSteps
    [] e \in Services -> ServiceSteps
    [] e \in Clients -> ClientSteps

VARIABLES
  pc,        \* where the call on each entity is
  step,      \* how far its creation is, in Steps
  parts,     \* the parts of it that exist
  fields,    \* the objects that the pointers in its info structure name
  found,     \* what lookup_topicdescription answered
  topics,    \* the topics of the participant
  refused,   \* objects whose deletion DDS refused, for good
  failures   \* failures so far

vars == <<pc, step, parts, fields, found, topics, refused, failures>>

Init ==
  /\ pc = [e \in Entities |-> "none"]
  /\ step = [e \in Entities |-> 1]
  /\ parts = [e \in Entities |-> {}]
  /\ fields = [e \in Entities |-> {}]
  /\ found = [e \in Entities |-> FALSE]
  /\ topics = {}
  /\ refused = [e \in Entities |-> {}]
  /\ failures = 0

---------------------------------------------------------------------------
(* Creation.                                                               *)

\* What an earlier entity of this name left behind is no part of the new one.
CallCreate(e) ==
  /\ pc[e] = "none"
  /\ pc' = [pc EXCEPT ![e] = "creating"]
  /\ step' = [step EXCEPT ![e] = 1]
  /\ parts' = [parts EXCEPT ![e] = {}]
  /\ refused' = [refused EXCEPT ![e] = {}]
  /\ UNCHANGED <<fields, found, topics, failures>>

At(e, s) == pc[e] = "creating" /\ Steps(e)[step[e]] = s

Advance(e) ==
  /\ step' = [step EXCEPT ![e] = @ + 1]
  /\ UNCHANGED pc

\* A replier or requester comes with the reader it has made.
MadeWith(p) == IF p = "proxy" THEN {"proxy", "endpoint"} ELSE {p}

\* Faulty variant: the last step does not end the creation.
MakeOnePartMore(e, p) ==
  /\ At(e, p)
  /\ parts' = [parts EXCEPT ![e] = @ \cup MadeWith(p)]
  /\ Advance(e)
  /\ UNCHANGED <<fields, found, topics, refused, failures>>

\* The pointers are copied into the info structure when it is made.
MakePart(e, p) ==
  /\ At(e, p)
  /\ parts' = [parts EXCEPT ![e] = @ \cup MadeWith(p)]
  /\ fields' = [fields EXCEPT ![e] = IF p = "info" THEN parts[e] \cap (Objects \cup {"proxy"}) ELSE @]
  /\ IF step[e] = Len(Steps(e))
     THEN pc' = [pc EXCEPT ![e] = "ready"] /\ UNCHANGED step
     ELSE Advance(e)
  /\ UNCHANGED <<found, topics, refused, failures>>

\* Faulty variant: the topic is taken to be new without looking it up.
AssumeNewTopic(e) ==
  /\ At(e, "lookup")
  /\ found' = [found EXCEPT ![e] = FALSE]
  /\ Advance(e)
  /\ UNCHANGED <<parts, fields, topics, refused, failures>>

LookupTopic(e) ==
  /\ At(e, "lookup")
  /\ found' = [found EXCEPT ![e] = TopicOf[e] \in topics]
  /\ Advance(e)
  /\ UNCHANGED <<parts, fields, topics, refused, failures>>

\* create_topic, or find_topic with a timeout of zero.
GetTopic(e) ==
  /\ At(e, "topic")
  /\ topics' = topics \cup {TopicOf[e]}
  /\ Advance(e)
  /\ UNCHANGED <<parts, fields, found, refused, failures>>

\* Between the lookup and create_topic another thread has created the topic:
\* create_topic refuses the second one.
LoseTopicRace(e) ==
  /\ At(e, "topic")
  /\ ~found[e]
  /\ TopicOf[e] \in topics
  /\ pc' = [pc EXCEPT ![e] = "failed"]
  /\ UNCHANGED <<step, parts, fields, found, topics, refused, failures>>

\* A step fails, and leaves no DDS object; the memory that a constructor of a requester
\* or replier leaks when it throws is not one of the parts.
MakeFails(e) ==
  /\ pc[e] = "creating"
  /\ ~At(e, "lookup")
  /\ failures < MaxFailures
  /\ failures' = failures + 1
  /\ pc' = [pc EXCEPT ![e] = "failed"]
  /\ UNCHANGED <<step, parts, fields, found, topics, refused>>

---------------------------------------------------------------------------
(* The fail blocks and the destructors of services and clients, which go   *)
(* on when DDS refuses a deletion.                                         *)

\* Of the objects S, in the order of Rank, those that a refused deletion keeps.
Kept(S, R) == {p \in S : \E q \in R : Rank[q] <= Rank[p]}

\* Everything in S is deleted except what DDS refuses; left is not touched.
Release(e, S, left) ==
  \E R \in {{}} \cup {{p} : p \in S \cap Objects} :
    /\ R # {} => failures < MaxFailures
    /\ failures' = IF R = {} THEN failures ELSE failures + 1
    /\ parts' = [parts EXCEPT ![e] = Kept(S \cap Objects, R) \cup left]
    /\ refused' = [refused EXCEPT ![e] = R]
    /\ fields' = [fields EXCEPT ![e] = {}]
    /\ pc' = [pc EXCEPT ![e] = "none"]
    /\ UNCHANGED <<step, found, topics>>

\* rmw_create_service deletes the read condition and the request reader, but
\* does not destroy the replier.
LeftByService(e) == parts[e] \cap {"proxy"}

\* rmw_create_client deletes the read condition and destroys the requester
\* through the info structure, if it was made.
LeftByClient(e) == IF "info" \in parts[e] THEN {} ELSE parts[e] \ {"handle"}

\* Faulty variant: every fail block goes through the info structure.
LeftWithoutInfo(e) == LeftByClient(e)

\* What the fail block of a creation does not touch.
Left(e) ==
  CASE e \in Services -> LeftByService(e)
    [] e \in Clients -> LeftByClient(e)
    [] OTHER -> {}

Unroll(e) ==
  /\ pc[e] = "failed"
  /\ Release(e, parts[e] \ Left(e), Left(e))

\* rmw_destroy_service, rmw_destroy_client: RMW_RET_ERROR when the read
\* condition cannot be deleted, and the handle is gone all the same.
DestroyRpc(e) ==
  /\ e \in Rpcs
  /\ pc[e] = "destroying"
  /\ Release(e, parts[e], {})

---------------------------------------------------------------------------
(* rmw_destroy_publisher, rmw_destroy_subscription.                        *)

CallDestroy(e) ==
  /\ pc[e] = "ready"
  /\ pc' = [pc EXCEPT ![e] = "destroying"]
  /\ UNCHANGED <<step, parts, fields, found, topics, refused, failures>>

\* Every object named in the info structure is deleted, then all memory.
DestroyPubSub(e) ==
  /\ e \in PubSubs
  /\ pc[e] = "destroying"
  /\ fields[e] \subseteq parts[e]
  /\ parts' = [parts EXCEPT ![e] = @ \ (fields[e] \cup {"handle", "info", "name"})]
  /\ fields' = [fields EXCEPT ![e] = {}]
  /\ pc' = [pc EXCEPT ![e] = "none"]
  /\ UNCHANGED <<step, found, topics, refused, failures>>

\* Faulty variant: a pointer is not nulled when its object is deleted.
DestroyWithoutNulling(e) ==
  /\ e \in PubSubs
  /\ pc[e] = "destroying"
  /\ failures < MaxFailures
  /\ \E p \in fields[e] :
       parts' = [parts EXCEPT ![e] = {q \in @ : q \in fields[e] => Rank[q] >= Rank[p]}]
  /\ failures' = failures + 1
  /\ UNCHANGED <<pc, step, fields, found, topics, refused>>

\* DDS refuses one deletion: RMW_RET_ERROR.  The pointers to what was deleted
\* before are null, and the caller calls again.
DestroyPubSubFails(e) ==
  /\ e \in PubSubs
  /\ pc[e] = "destroying"
  /\ failures < MaxFailures
  /\ \E p \in fields[e] :
       LET gone == {q \in fields[e] : Rank[q] < Rank[p]} IN
       /\ fields' = [fields EXCEPT ![e] = @ \ gone]
       /\ parts' = [parts EXCEPT ![e] = @ \ gone]
  /\ failures' = failures + 1
  /\ UNCHANGED <<pc, step, found, topics, refused>>

---------------------------------------------------------------------------
Create(e) ==
  \/ CallCreate(e)
  \/ \E p \in Parts : MakePart(e, p)
  \/ LookupTopic(e)
  \/ GetTopic(e)
  \/ LoseTopicRace(e)
  \/ MakeFails(e)
  \/ Unroll(e)

Destroy(e) == DestroyPubSub(e) \/ DestroyPubSubFails(e) \/ DestroyRpc(e)

Next == \E e \in Entities : Create(e) \/ CallDestroy(e) \/ Destroy(e)

Spec == Init /\ [][Next]_vars

\* A thread inside a call goes on, and one whose creation or destruction was
\* refused tries again; nobody has to destroy an entity.
FairSpec == Spec /\ \A e \in Entities : WF_vars(Create(e) \/ Destroy(e))

---------------------------------------------------------------------------
(* Properties.                                                             *)

TypeOK ==
  /\ pc \in [Entities -> {"none", "creating", "failed", "ready", "destroying"}]
  /\ step \in [Entities -> Nat] /\ \A e \in Entities : step[e] \in DOMAIN Steps(e)
  /\ parts \in [Entities -> SUBSET Parts]
  /\ fields \in [Entities -> SUBSET (Objects \cup {"proxy"})]
  /\ found \in [Entities -> BOOLEAN]
  /\ topics \subseteq {TopicOf[e] : e \in PubSubs}
  /\ refused \in [Entities -> SUBSET Objects]
  /\ failures \in 0..MaxFailures

\* What is left of an entity that is gone was kept by a refused deletion: its
\* object or one that contains it.
NothingForgotten(E) ==
  \A e \in E : pc[e] = "none" => parts[e] = Kept(parts[e] \cap Objects, refused[e])

\* Whatever step of its creation or destruction failed, a publisher or a
\* subscription that is gone has left nothing behind.
PubSubsUnroll == NothingForgotten(PubSubs)

\* The info structure of an entity names exactly the objects that exist, also
\* after a destruction that failed half-way, so that the next call deletes each
\* of them once.
FieldsAreValid ==
  \A e \in Entities : pc[e] \in {"ready", "destroying"} => fields[e] = parts[e] \ {"handle", "info", "name"}

\* A caller that tries again ends up with its publisher or subscription, also
\* when it loses the race to create the topic.
CreationSucceeds == \A e \in PubSubs : pc[e] = "creating" ~> pc[e] = "ready"

\* A destruction that is refused half-way is completed by later calls.
DestructionCompletes == \A e \in Entities : pc[e] = "destroying" ~> pc[e] = "none"

\* rmw_create_service.cpp:106, rmw_create_client.cpp:105: past the processing
\* of the names, a failure unrolls what was made.
RpcsUnroll == NothingForgotten(Rpcs)

===========================================================================
