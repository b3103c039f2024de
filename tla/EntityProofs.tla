---------------------------- MODULE EntityProofs ----------------------------
(***************************************************************************)
(* Proofs about EntityLifecycle, for any entities, topics and numbers of   *)
(* failures: creations that fail at any step and destructions that are     *)
(* refused half-way leave nothing of a publisher or subscription behind.   *)
(***************************************************************************)
EXTENDS EntityLifecycle, TLAPS

\* The parts of an entity that are memory and not objects of DDS.
Memory == {"handle", "info", "name"}

FieldsValid(e) == fields[e] = parts[e] \ Memory

\* From the moment the info structure is made, it is valid.
FieldsInv(e) ==
  \/ pc[e] \in {"ready", "destroying"}
  \/ pc[e] = "creating" /\ Steps(e)[step[e]] = "name"
  => FieldsValid(e)

GoneInv(e) == pc[e] = "none" => parts[e] = Kept(parts[e] \cap Objects, refused[e])

EntityInv ==
  /\ TypeOK
  /\ \A e \in Entities : FieldsInv(e)
  /\ \A e \in PubSubs : GoneInv(e)

\* The name comes last, after the info structure, which is made from the parts.
LEMMA StepsOfEntities ==
  ASSUME NEW e \in Entities
  PROVE  /\ Len(Steps(e)) \in Nat \ {0, 1} /\ DOMAIN Steps(e) = 1..Len(Steps(e))
         /\ Steps(e)[1] # "name"
         /\ Steps(e)[Len(Steps(e))] = "name"
         /\ \A i \in 1..(Len(Steps(e)) - 1) :
              Steps(e)[i] # "name" /\ (Steps(e)[i + 1] = "name" => Steps(e)[i] = "info")
<1>1. CASE e \in Publishers
  <2>1. Steps(e) = PublisherSteps
    BY <1>1, EntitiesDisjoint DEF Steps, PubSubs, Rpcs
  <2> QED
    BY <2>1 DEF PublisherSteps
<1>2. CASE e \in Subscriptions
  <2>1. Steps(e) = SubscriptionSteps
    BY <1>2, EntitiesDisjoint DEF Steps, PubSubs, Rpcs
  <2> QED
    BY <2>1 DEF SubscriptionSteps
<1>3. CASE e \in Services
  <2>1. Steps(e) = ServiceSteps
    BY <1>3, EntitiesDisjoint DEF Steps, PubSubs, Rpcs
  <2> QED
    BY <2>1 DEF ServiceSteps
<1>4. CASE e \in Clients
  <2>1. Steps(e) = ClientSteps
    BY <1>4, EntitiesDisjoint DEF Steps, PubSubs, Rpcs
  <2> QED
    BY <2>1 DEF ClientSteps
<1> QED
  BY <1>1, <1>2, <1>3, <1>4 DEF Entities, PubSubs, Rpcs

\* The ranks of the three kinds of objects.
LEMMA Ranks ==
  /\ Objects = {"condition", "endpoint", "group"}
  /\ \A p \in Objects : Rank[p] \in Nat
  BY DEF Objects, Rank

\* What is kept of what was kept is the same.
LEMMA KeptTwice ==
  ASSUME NEW S \in SUBSET Objects, NEW R
  PROVE  Kept(S, R) \in SUBSET Objects /\ Kept(Kept(S, R) \cap Objects, R) = Kept(S, R)
  BY DEF Kept

\* Nothing exists at first.
LEMMA InitialEntities == Init => EntityInv
<1> SUFFICES ASSUME Init PROVE EntityInv
  OBVIOUS
<1>1. TypeOK
  BY StepsOfEntities, FailureBound DEF Init, TypeOK
<1>2. \A e \in Entities : FieldsInv(e)
  BY DEF Init, FieldsInv
<1>3. \A e \in PubSubs : GoneInv(e)
  BY DEF Init, GoneInv, Kept, PubSubs, Entities
<1> QED
  BY <1>1, <1>2, <1>3 DEF EntityInv

\* A step of one entity leaves the others as they are.
Same(d) ==
  /\ pc'[d] = pc[d] /\ step'[d] = step[d] /\ parts'[d] = parts[d]
  /\ fields'[d] = fields[d] /\ refused'[d] = refused[d]

\* What a step of one entity concerns.
LEMMA OthersKeepInv ==
  ASSUME EntityInv, NEW e \in Entities, TypeOK', FieldsInv(e)', e \in PubSubs => GoneInv(e)',
         \A d \in Entities \ {e} : Same(d)
  PROVE  EntityInv'
<1>1. ASSUME NEW d \in Entities \ {e}
      PROVE  FieldsInv(d)' /\ (d \in PubSubs => GoneInv(d)')
  BY <1>1 DEF EntityInv, Same, FieldsInv, FieldsValid, GoneInv
<1> QED
  BY <1>1 DEF EntityInv, Entities

\* Every way a call ends that unrolls or destroys, whatever DDS refuses.
LEMMA ReleaseKeepsInv ==
  ASSUME EntityInv, NEW e \in Entities, NEW S \in SUBSET Parts, NEW left \in SUBSET Parts,
         e \in PubSubs => left = {}, Release(e, S, left)
  PROVE  EntityInv'
<1>1. PICK R \in SUBSET Objects :
        /\ failures' \in Nat /\ failures' <= MaxFailures
        /\ parts' = [parts EXCEPT ![e] = Kept(S \cap Objects, R) \cup left]
        /\ refused' = [refused EXCEPT ![e] = R]
        /\ fields' = [fields EXCEPT ![e] = {}]
        /\ pc' = [pc EXCEPT ![e] = "none"]
        /\ UNCHANGED <<step, found, topics>>
  <2>1. PICK R \in {{}} \cup {{p} : p \in S \cap Objects} :
          /\ R # {} => failures < MaxFailures
          /\ failures' = IF R = {} THEN failures ELSE failures + 1
          /\ parts' = [parts EXCEPT ![e] = Kept(S \cap Objects, R) \cup left]
          /\ refused' = [refused EXCEPT ![e] = R]
          /\ fields' = [fields EXCEPT ![e] = {}]
          /\ pc' = [pc EXCEPT ![e] = "none"]
          /\ UNCHANGED <<step, found, topics>>
    BY DEF Release
  <2>2. failures' \in Nat /\ failures' <= MaxFailures
    BY <2>1, FailureBound DEF EntityInv, TypeOK
  <2> QED
    BY <2>1, <2>2
<1>2. Kept(S \cap Objects, R) \in SUBSET Objects
  BY DEF Kept
<1>3. TypeOK'
  <2>1. parts' \in [Entities -> SUBSET Parts]
    BY <1>1, <1>2 DEF EntityInv, TypeOK, Parts
  <2>2. refused' \in [Entities -> SUBSET Objects]
    BY <1>1 DEF EntityInv, TypeOK
  <2>3. fields' \in [Entities -> SUBSET (Objects \cup {"proxy"})]
    BY <1>1 DEF EntityInv, TypeOK
  <2>4. pc' \in [Entities -> {"none", "creating", "failed", "ready", "destroying"}]
    BY <1>1 DEF EntityInv, TypeOK
  <2>5. failures' \in 0..MaxFailures
    BY <1>1, FailureBound
  <2> QED
    BY <1>1, <2>1, <2>2, <2>3, <2>4, <2>5 DEF EntityInv, TypeOK
<1>4. FieldsInv(e)'
  BY <1>1 DEF EntityInv, TypeOK, FieldsInv
<1>5. ASSUME e \in PubSubs
      PROVE  GoneInv(e)'
  <2>1. S \cap Objects \in SUBSET Objects
    OBVIOUS
  <2>2. parts'[e] = Kept(S \cap Objects, R) /\ refused'[e] = R
    BY <1>1, <1>5 DEF EntityInv, TypeOK
  <2> QED
    BY <2>1, <2>2, KeptTwice DEF GoneInv
<1>6. \A d \in Entities \ {e} : Same(d)
  BY <1>1 DEF EntityInv, TypeOK, Same
<1> QED
  BY <1>3, <1>4, <1>5, <1>6, OthersKeepInv

\* A part that is made: when it is the info structure, it names all objects.
LEMMA MakePartKeepsInv ==
  ASSUME EntityInv, NEW e \in Entities, NEW p \in Parts, MakePart(e, p)
  PROVE  EntityInv'
<1> DEFINE n == Len(Steps(e))
<1>1. /\ step[e] \in 1..n /\ n \in Nat \ {0, 1} /\ DOMAIN Steps(e) = 1..n
      /\ pc[e] = "creating" /\ Steps(e)[step[e]] = p
  BY StepsOfEntities DEF EntityInv, TypeOK, MakePart, At
<1>2. /\ parts' = [parts EXCEPT ![e] = @ \cup MadeWith(p)]
      /\ fields' = [fields EXCEPT ![e] =
           IF p = "info" THEN parts[e] \cap (Objects \cup {"proxy"}) ELSE @]
      /\ \/ step[e] = n /\ pc' = [pc EXCEPT ![e] = "ready"] /\ step' = step
         \/ step[e] # n /\ pc' = pc /\ step' = [step EXCEPT ![e] = @ + 1]
      /\ UNCHANGED <<found, topics, refused, failures>>
  BY DEF MakePart, Advance
<1>3. \A d \in Entities \ {e} : step'[d] = step[d]
  BY <1>1, <1>2 DEF EntityInv, TypeOK
<1>4. \/ step'[e] = step[e] /\ step[e] = n /\ pc'[e] = "ready"
      \/ step'[e] = step[e] + 1 /\ step[e] \in 1..(n - 1) /\ pc'[e] = "creating"
  BY <1>1, <1>2 DEF EntityInv, TypeOK
<1>5. TypeOK'
  <2>1. MadeWith(p) \subseteq Parts
    BY Ranks DEF MadeWith, Parts
  <2>2. parts' \in [Entities -> SUBSET Parts] /\ fields' \in [Entities -> SUBSET (Objects \cup {"proxy"})]
    BY <1>2, <2>1 DEF EntityInv, TypeOK
  <2>3. pc' \in [Entities -> {"none", "creating", "failed", "ready", "destroying"}]
    BY <1>2 DEF EntityInv, TypeOK
  <2>4. \A d \in Entities : step'[d] \in DOMAIN Steps(d)
    <3>1. step'[e] \in DOMAIN Steps(e)
      BY <1>1, <1>4
    <3> QED
      BY <1>3, <3>1 DEF EntityInv, TypeOK
  <2> QED
    BY <1>2, <2>2, <2>3, <2>4 DEF EntityInv, TypeOK
<1>6. FieldsInv(e)'
  <2>1. CASE p = "info"
    <3>1. parts'[e] = parts[e] \cup {"info"} /\ fields'[e] = parts[e] \cap (Objects \cup {"proxy"})
      BY <1>2, <2>1 DEF EntityInv, TypeOK, MadeWith
    <3>2. parts[e] \subseteq Objects \cup {"proxy", "handle", "info", "name"}
      BY DEF EntityInv, TypeOK, Parts
    <3> QED
      BY <3>1, <3>2, Ranks DEF FieldsInv, FieldsValid, Memory
  <2>2. CASE p = "name"
    <3>1. parts'[e] = parts[e] \cup {"name"} /\ fields'[e] = fields[e]
      BY <1>2, <2>2 DEF EntityInv, TypeOK, MadeWith
    <3>2. FieldsValid(e)
      BY <1>1, <2>2 DEF EntityInv, FieldsInv
    <3> QED
      BY <3>1, <3>2 DEF FieldsInv, FieldsValid, Memory
  <2>3. CASE p \notin {"info", "name"}
    <3>1. step[e] \in 1..(n - 1) /\ Steps(e)[step[e] + 1] # "name"
      BY <1>1, <2>3, StepsOfEntities
    <3>2. pc'[e] = "creating" /\ step'[e] = step[e] + 1
      BY <1>1, <1>4, <3>1
    <3> QED
      BY <3>1, <3>2 DEF FieldsInv
  <2> QED
    BY <2>1, <2>2, <2>3
<1>7. GoneInv(e)'
  BY <1>1, <1>2 DEF EntityInv, TypeOK, GoneInv
<1>8. \A d \in Entities \ {e} : Same(d)
  BY <1>2, <1>3 DEF EntityInv, TypeOK, Same
<1> QED
  BY <1>5, <1>6, <1>7, <1>8, OthersKeepInv

\* The other steps of a creation, and the call of a destruction.
LEMMA StepKeepsInv ==
  ASSUME EntityInv, NEW e \in Entities,
         \/ CallCreate(e) \/ LookupTopic(e) \/ GetTopic(e) \/ LoseTopicRace(e)
         \/ MakeFails(e) \/ CallDestroy(e)
  PROVE  EntityInv'
<1> USE DEF EntityInv, TypeOK
<1>1. CASE CallCreate(e)
  <2>1. TypeOK'
    BY <1>1, StepsOfEntities DEF CallCreate
  <2>2. FieldsInv(e)' /\ GoneInv(e)'
    BY <1>1, StepsOfEntities DEF CallCreate, FieldsInv, GoneInv
  <2>3. \A d \in Entities \ {e} : Same(d)
    BY <1>1 DEF CallCreate, Same
  <2> QED
    BY <2>1, <2>2, <2>3, OthersKeepInv
<1>2. CASE LookupTopic(e) \/ GetTopic(e)
  <2> DEFINE n == Len(Steps(e))
  <2>1. /\ pc[e] = "creating" /\ Steps(e)[step[e]] \in {"lookup", "topic"}
        /\ step' = [step EXCEPT ![e] = @ + 1]
        /\ UNCHANGED <<pc, parts, fields, refused, failures>>
    BY <1>2 DEF LookupTopic, GetTopic, At, Advance
  <2>2. n \in Nat \ {0, 1} /\ DOMAIN Steps(e) = 1..n /\ Steps(e)[n] = "name" /\ step[e] \in 1..n
    BY StepsOfEntities
  <2>3. step[e] \in 1..(n - 1)
    BY <2>1, <2>2
  <2>4. step'[e] = step[e] + 1 /\ step'[e] \in DOMAIN Steps(e) /\ step' \in [Entities -> Nat]
    BY <2>1, <2>2, <2>3
  <2>5. Steps(e)[step'[e]] # "name"
    BY <2>1, <2>3, <2>4, StepsOfEntities
  <2>6. found' \in [Entities -> BOOLEAN] /\ topics' \subseteq {TopicOf[d] : d \in PubSubs}
    <3>1. e \in PubSubs
      <4>1. e \notin Rpcs
        <5> SUFFICES ASSUME e \in Rpcs PROVE FALSE
          OBVIOUS
        <5>1. Steps(e) = ServiceSteps \/ Steps(e) = ClientSteps
          BY EntitiesDisjoint DEF Steps, Rpcs, PubSubs
        <5>2. /\ \A i \in 1..Len(ServiceSteps) : ServiceSteps[i] \notin {"lookup", "topic"}
              /\ \A i \in 1..Len(ClientSteps) : ClientSteps[i] \notin {"lookup", "topic"}
          BY DEF ServiceSteps, ClientSteps
        <5> QED
          BY <2>1, <2>2, <5>1, <5>2
      <4> QED
        BY <4>1 DEF Entities
    <3>2. CASE LookupTopic(e)
      <4>1. found' = [found EXCEPT ![e] = TopicOf[e] \in topics] /\ topics' = topics
        BY <3>2 DEF LookupTopic
      <4> DEFINE b == TopicOf[e] \in topics
      <4>2. b \in BOOLEAN
        OBVIOUS
      <4> HIDE DEF b
      <4> QED
        BY <4>1, <4>2 DEF b
    <3>3. CASE GetTopic(e)
      BY <3>1, <3>3 DEF GetTopic
    <3> QED
      BY <1>2, <3>2, <3>3
  <2>7. TypeOK'
    <3>1. \A d \in Entities : step'[d] \in DOMAIN Steps(d)
      BY <2>1, <2>4
    <3> QED
      BY <2>1, <2>4, <2>6, <3>1
  <2>8. FieldsInv(e)' /\ GoneInv(e)'
    BY <2>1, <2>5 DEF FieldsInv, GoneInv
  <2>9. \A d \in Entities \ {e} : Same(d)
    BY <2>1 DEF Same
  <2> QED
    BY <2>7, <2>8, <2>9, OthersKeepInv
<1>3. CASE LoseTopicRace(e) \/ MakeFails(e)
  <2>1. TypeOK'
    BY <1>3, FailureBound DEF LoseTopicRace, MakeFails
  <2>2. FieldsInv(e)' /\ GoneInv(e)'
    BY <1>3 DEF LoseTopicRace, MakeFails, FieldsInv, GoneInv
  <2>3. \A d \in Entities \ {e} : Same(d)
    BY <1>3 DEF LoseTopicRace, MakeFails, Same
  <2> QED
    BY <2>1, <2>2, <2>3, OthersKeepInv
<1>4. CASE CallDestroy(e)
  <2>1. TypeOK'
    BY <1>4 DEF CallDestroy
  <2>2. FieldsInv(e)' /\ GoneInv(e)'
    BY <1>4 DEF CallDestroy, FieldsInv, FieldsValid, GoneInv
  <2>3. \A d \in Entities \ {e} : Same(d)
    BY <1>4 DEF CallDestroy, Same
  <2> QED
    BY <2>1, <2>2, <2>3, OthersKeepInv
<1> QED
  BY <1>1, <1>2, <1>3, <1>4

\* A destruction, complete or refused half-way, deletes only what the info
\* structure names, and that is all there is.
LEMMA DestroyPubSubKeepsInv ==
  ASSUME EntityInv, NEW e \in Entities, DestroyPubSub(e) \/ DestroyPubSubFails(e)
  PROVE  EntityInv'
<1> USE DEF EntityInv, TypeOK
<1>1. pc[e] = "destroying" /\ fields[e] = parts[e] \ Memory /\ parts[e] \subseteq Parts
  BY DEF DestroyPubSub, DestroyPubSubFails, FieldsInv, FieldsValid
<1>2. CASE DestroyPubSub(e)
  <2>1. parts'[e] = {}
    BY <1>1, <1>2 DEF DestroyPubSub, Memory
  <2>2. TypeOK'
    BY <1>2 DEF DestroyPubSub
  <2>3. FieldsInv(e)' /\ GoneInv(e)'
    BY <1>2, <2>1 DEF DestroyPubSub, FieldsInv, GoneInv, Kept
  <2>4. \A d \in Entities \ {e} : Same(d)
    BY <1>2 DEF DestroyPubSub, Same
  <2> QED
    BY <2>2, <2>3, <2>4, OthersKeepInv
<1>3. CASE DestroyPubSubFails(e)
  <2>1. PICK G \in SUBSET fields[e] :
          /\ fields' = [fields EXCEPT ![e] = @ \ G]
          /\ parts' = [parts EXCEPT ![e] = @ \ G]
    BY <1>3 DEF DestroyPubSubFails
  <2>2. /\ failures' = failures + 1 /\ failures < MaxFailures
        /\ UNCHANGED <<pc, step, found, topics, refused>>
    BY <1>3 DEF DestroyPubSubFails
  <2>3. TypeOK'
    <3>1. fields' \in [Entities -> SUBSET (Objects \cup {"proxy"})]
      BY <2>1
    <3>2. parts' \in [Entities -> SUBSET Parts]
      BY <2>1
    <3>3. failures' \in 0..MaxFailures
      BY <2>2, FailureBound
    <3> QED
      BY <2>2, <3>1, <3>2, <3>3
  <2>4. FieldsInv(e)' /\ GoneInv(e)'
    BY <1>1, <2>1, <2>2 DEF FieldsInv, FieldsValid, GoneInv
  <2>5. \A d \in Entities \ {e} : Same(d)
    BY <2>1, <2>2 DEF Same
  <2> QED
    BY <2>3, <2>4, <2>5, OthersKeepInv
<1> QED
  BY <1>2, <1>3

\* No step of EntityLifecycle breaks it.
LEMMA EntityStepKeepsInv ==
  ASSUME EntityInv, [Next]_vars
  PROVE  EntityInv'
<1>1. ASSUME NEW e \in Entities, Create(e) \/ CallDestroy(e)
      PROVE  EntityInv'
  <2>1. CASE Unroll(e)
    <3>1. parts[e] \ Left(e) \in SUBSET Parts /\ Left(e) \in SUBSET Parts
      BY DEF EntityInv, TypeOK, Left, LeftByService, LeftByClient
    <3>2. e \in PubSubs => Left(e) = {}
      BY EntitiesDisjoint DEF Left, Rpcs
    <3> QED
      BY <2>1, <3>1, <3>2, ReleaseKeepsInv DEF Unroll
  <2> QED
    BY <1>1, <2>1, StepKeepsInv, MakePartKeepsInv DEF Create
<1>2. ASSUME NEW e \in Entities, Destroy(e)
      PROVE  EntityInv'
  <2>1. CASE DestroyRpc(e)
    <3>1. parts[e] \in SUBSET Parts
      BY DEF EntityInv, TypeOK
    <3> QED
      BY <2>1, <3>1, ReleaseKeepsInv DEF DestroyRpc
  <2> QED
    BY <1>2, <2>1, DestroyPubSubKeepsInv DEF Destroy
<1>3. CASE UNCHANGED vars
  BY <1>3 DEF vars, EntityInv, TypeOK, FieldsInv, FieldsValid, GoneInv
<1> QED
  BY <1>1, <1>2, <1>3 DEF Next

\* The invariant of all lives of all entities.
THEOREM EntityInvariant == Spec => []EntityInv
  BY InitialEntities, EntityStepKeepsInv, PTL DEF Spec

\* The state of creations and destructions keeps its shape.
THEOREM EntityTypeCorrect == Spec => []TypeOK
<1>1. EntityInv => TypeOK
  BY DEF EntityInv
<1> QED
  BY <1>1, EntityInvariant, PTL

\* A publisher or subscription that is gone has left nothing behind, whatever
\* failed (the fail blocks of rmw_create_publisher.cpp 231-265 and
\* rmw_create_subscription.cpp 221-264).
THEOREM PubSubsAreUnrolled == Spec => []PubSubsUnroll
<1>1. EntityInv => PubSubsUnroll
  BY DEF EntityInv, GoneInv, PubSubsUnroll, NothingForgotten
<1> QED
  BY <1>1, EntityInvariant, PTL

\* The info structure names what exists, also between two tries to destroy an
\* entity, so that nothing is deleted twice.
THEOREM FieldsStayValid == Spec => []FieldsAreValid
<1>1. EntityInv => FieldsAreValid
  BY DEF EntityInv, FieldsInv, FieldsValid, FieldsAreValid, Memory
<1> QED
  BY <1>1, EntityInvariant, PTL

---------------------------------------------------------------------------
(* What a creation has made, and what a service or client leaves behind.   *)

\* The parts that the first k steps of a creation make.
MadeBy(e, k) == UNION {MadeWith(p) : p \in {Steps(e)[i] : i \in 1..k} \cap Parts}

\* A creation has made the parts of the steps it has done, also when the next one
\* failed; a service or client that is destroyed in one call is whole until then.
MadeSoFar(e) ==
  /\ pc[e] \in {"creating", "failed"} => parts[e] = MadeBy(e, step[e] - 1)
  /\ pc[e] = "ready" => parts[e] = MadeBy(e, Len(Steps(e)))
  /\ pc[e] = "destroying" /\ e \in Rpcs => parts[e] = MadeBy(e, Len(Steps(e)))

\* An entity that the caller was given has every part of its kind.
ReadyIsWhole == \A e \in Entities : pc[e] = "ready" => parts[e] = MadeBy(e, Len(Steps(e)))

\* Beyond what a refused deletion kept, a service that is gone has left its replier at
\* most, and a client its requester with the reader and perhaps the read condition,
\* as after two or three steps of its creation.
RpcLeavings ==
  /\ \A e \in Services : pc[e] = "none" =>
       parts[e] \ {"proxy"} = Kept(parts[e] \cap Objects, refused[e])
  /\ \A e \in Clients : pc[e] = "none" =>
       \/ parts[e] = Kept(parts[e] \cap Objects, refused[e])
       \/ \E k \in {2, 3} : parts[e] = MadeBy(e, k) \ {"handle"}

MadeInv == RpcLeavings /\ \A e \in Entities : MadeSoFar(e)

\* One step more makes the parts of that step.
LEMMA OneStepMore ==
  ASSUME NEW e \in Entities, NEW k \in 1..Len(Steps(e)), NEW p, p = Steps(e)[k]
  PROVE  /\ p \in Parts => MadeBy(e, k) = MadeBy(e, k - 1) \cup MadeWith(p)
         /\ p \notin Parts => MadeBy(e, k) = MadeBy(e, k - 1)
<1>1. Len(Steps(e)) \in Nat
  BY StepsOfEntities
<1>2. 1..k = 1..(k - 1) \cup {k}
  BY <1>1
<1>3. {Steps(e)[i] : i \in 1..k} = {Steps(e)[i] : i \in 1..(k - 1)} \cup {p}
  BY <1>2
<1> QED
  BY <1>3 DEF MadeBy

\* Before the first step there is nothing.
LEMMA NothingMade == \A e \in Entities : MadeBy(e, 0) = {}
  BY DEF MadeBy

\* A client's steps in the order of the code.
LEMMA ClientParts ==
  ASSUME NEW e \in Clients
  PROVE  /\ Len(Steps(e)) = 5
         /\ MadeBy(e, 1) = {"handle"}
         /\ "info" \in MadeBy(e, 4) /\ "info" \in MadeBy(e, 5)
<1>1. e \in Entities /\ Steps(e) = ClientSteps
  BY EntitiesDisjoint DEF Steps, PubSubs, Rpcs, Entities
<1>2. /\ Len(Steps(e)) = 5 /\ Steps(e)[1] = "handle" /\ Steps(e)[2] = "proxy"
      /\ Steps(e)[4] = "info"
  BY <1>1 DEF ClientSteps
<1>3. "handle" \in Parts /\ "info" \in Parts
  BY DEF Parts
<1>4. MadeBy(e, 1) = {"handle"}
  <2>1. {Steps(e)[i] : i \in 1..1} \cap Parts = {"handle"}
    BY <1>2, <1>3
  <2> QED
    BY <2>1 DEF MadeBy, MadeWith
<1>5. "info" \in MadeWith("info")
  BY DEF MadeWith
<1>6. ASSUME NEW k \in {4, 5}
      PROVE  "info" \in MadeBy(e, k)
  <2>1. 4 \in 1..k
    OBVIOUS
  <2>2. "info" \in {Steps(e)[i] : i \in 1..k} \cap Parts
    BY <1>2, <1>3, <2>1
  <2> QED
    BY <1>5, <2>2 DEF MadeBy
<1> QED
  BY <1>2, <1>4, <1>6

\* What a step of one entity concerns.
LEMMA OthersKeepMade ==
  ASSUME MadeInv, NEW e \in Entities, MadeSoFar(e)', pc'[e] # "none",
         \A d \in Entities \ {e} : Same(d)
  PROVE  MadeInv'
<1>1. \A d \in Entities : MadeSoFar(d)'
  BY DEF MadeInv, MadeSoFar, MadeBy, Same
<1>2. RpcLeavings'
  <2>1. ASSUME NEW d \in Services, pc'[d] = "none"
        PROVE  parts'[d] \ {"proxy"} = Kept(parts'[d] \cap Objects, refused'[d])
    BY <2>1 DEF MadeInv, RpcLeavings, Same, Entities, Rpcs
  <2>2. ASSUME NEW d \in Clients, pc'[d] = "none"
        PROVE  \/ parts'[d] = Kept(parts'[d] \cap Objects, refused'[d])
               \/ \E k \in {2, 3} : parts'[d] = MadeBy(d, k) \ {"handle"}
    BY <2>2 DEF MadeInv, RpcLeavings, Same, Entities, Rpcs
  <2> QED
    BY <2>1, <2>2 DEF RpcLeavings, MadeBy
<1> QED
  BY <1>1, <1>2 DEF MadeInv

\* An entity that goes, and what it leaves.
LEMMA ReleaseLeaves ==
  ASSUME TypeOK, MadeInv, NEW e \in Entities, NEW S \in SUBSET Parts,
         NEW left \in SUBSET Parts, Release(e, S, left),
         e \in Services => left \subseteq {"proxy"} /\ "proxy" \notin S \cap Objects,
         e \in Clients =>
           left = {} \/ (S \cap Objects = {} /\ \E k \in {2, 3} : left = MadeBy(e, k) \ {"handle"})
  PROVE  MadeInv'
<1>1. PICK R \in SUBSET Objects :
        /\ parts' = [parts EXCEPT ![e] = Kept(S \cap Objects, R) \cup left]
        /\ refused' = [refused EXCEPT ![e] = R]
        /\ pc' = [pc EXCEPT ![e] = "none"]
        /\ fields' = [fields EXCEPT ![e] = {}]
        /\ step' = step
  <2>1. PICK R \in {{}} \cup {{p} : p \in S \cap Objects} :
          /\ parts' = [parts EXCEPT ![e] = Kept(S \cap Objects, R) \cup left]
          /\ refused' = [refused EXCEPT ![e] = R]
          /\ pc' = [pc EXCEPT ![e] = "none"]
          /\ fields' = [fields EXCEPT ![e] = {}]
          /\ step' = step
    BY DEF Release
  <2> QED
    BY <2>1
<1>2. /\ pc'[e] = "none" /\ refused'[e] = R
      /\ parts'[e] = Kept(S \cap Objects, R) \cup left
      /\ \A d \in Entities \ {e} : Same(d)
  BY <1>1 DEF TypeOK, Same
<1>3. \A d \in Entities : MadeSoFar(d)'
  BY <1>2 DEF MadeInv, MadeSoFar, MadeBy, Same
<1>4. /\ Kept(S \cap Objects, R) \subseteq Objects
      /\ Kept(Kept(S \cap Objects, R) \cap Objects, R) = Kept(S \cap Objects, R)
      /\ "proxy" \notin Objects
  BY Ranks DEF Kept
<1>5. ASSUME NEW d \in Services, pc'[d] = "none"
      PROVE  parts'[d] \ {"proxy"} = Kept(parts'[d] \cap Objects, refused'[d])
  <2>1. CASE d # e
    BY <1>2, <1>5, <2>1 DEF MadeInv, RpcLeavings, Same, Entities, Rpcs
  <2>2. CASE d = e
    <3>1. parts'[e] \cap Objects = Kept(S \cap Objects, R)
      BY <1>2, <1>4, <2>2
    <3>2. parts'[e] \ {"proxy"} = Kept(S \cap Objects, R)
      BY <1>2, <1>4, <2>2
    <3> QED
      BY <1>2, <1>4, <2>2, <3>1, <3>2
  <2> QED
    BY <2>1, <2>2
<1>6. ASSUME NEW d \in Clients, pc'[d] = "none"
      PROVE  \/ parts'[d] = Kept(parts'[d] \cap Objects, refused'[d])
             \/ \E k \in {2, 3} : parts'[d] = MadeBy(d, k) \ {"handle"}
  <2>1. CASE d # e
    BY <1>2, <1>6, <2>1 DEF MadeInv, RpcLeavings, Same, Entities, Rpcs
  <2>2. CASE d = e /\ left = {}
    BY <1>2, <1>4, <2>2
  <2>3. CASE d = e /\ left # {}
    <3>1. Kept(S \cap Objects, R) = {}
      BY <2>3 DEF Kept
    <3> QED
      BY <1>2, <2>3, <3>1
  <2> QED
    BY <2>1, <2>2, <2>3
<1>7. RpcLeavings'
  BY <1>5, <1>6 DEF RpcLeavings, MadeBy
<1> QED
  BY <1>3, <1>7 DEF MadeInv

\* No step of EntityLifecycle makes or leaves anything else.
LEMMA EntityStepKeepsMade ==
  ASSUME TypeOK, MadeInv, [Next]_vars
  PROVE  MadeInv'
<1>1. ASSUME NEW e \in Entities
      PROVE  /\ MadeSoFar(e)
             /\ Len(Steps(e)) \in Nat \ {0, 1} /\ step[e] \in 1..Len(Steps(e))
             /\ parts[e] \in SUBSET Parts
  BY StepsOfEntities DEF MadeInv, TypeOK
<1>2. ASSUME NEW e \in Entities, CallCreate(e)
      PROVE  MadeInv'
  <2>1. /\ pc'[e] = "creating" /\ step'[e] = 1 /\ parts'[e] = {}
        /\ \A d \in Entities \ {e} : Same(d)
    BY <1>2 DEF CallCreate, TypeOK, Same
  <2>2. MadeSoFar(e)'
    <3>1. parts'[e] = MadeBy(e, step'[e] - 1)
      BY <2>1, NothingMade
    <3> QED
      BY <2>1, <3>1 DEF MadeSoFar, MadeBy
  <2> QED
    BY <2>1, <2>2, OthersKeepMade
<1>3. ASSUME NEW e \in Entities, NEW p \in Parts, MakePart(e, p)
      PROVE  MadeInv'
  <2> DEFINE n == Len(Steps(e))
             k == step[e]
  <2>1. /\ pc[e] = "creating" /\ Steps(e)[k] = p
        /\ parts'[e] = parts[e] \cup MadeWith(p)
        /\ \/ k = n /\ pc'[e] = "ready" /\ step' = step
           \/ k # n /\ pc'[e] = "creating" /\ step'[e] = k + 1
        /\ \A d \in Entities \ {e} : Same(d)
    BY <1>3 DEF MakePart, At, Advance, TypeOK, Same
  <2>2. parts'[e] = MadeBy(e, k)
    BY <1>1, <2>1, OneStepMore DEF MadeSoFar
  <2>3. MadeSoFar(e)'
    <3>1. (k + 1) - 1 = k
      BY <1>1
    <3> QED
      BY <2>1, <2>2, <3>1 DEF MadeSoFar, MadeBy
  <2> QED
    BY <2>1, <2>3, OthersKeepMade
<1>4. ASSUME NEW e \in Entities, LookupTopic(e) \/ GetTopic(e)
      PROVE  MadeInv'
  <2> DEFINE k == step[e]
  <2>1. /\ pc[e] = "creating" /\ pc'[e] = "creating" /\ Steps(e)[k] \in {"lookup", "topic"}
        /\ parts'[e] = parts[e] /\ step'[e] = k + 1
        /\ \A d \in Entities \ {e} : Same(d)
    BY <1>4 DEF LookupTopic, GetTopic, At, Advance, TypeOK, Same
  <2>2. Steps(e)[k] \notin Parts
    BY <2>1, Ranks DEF Parts
  <2>3. parts'[e] = MadeBy(e, k)
    BY <1>1, <2>1, <2>2, OneStepMore DEF MadeSoFar
  <2>4. MadeSoFar(e)'
    <3>1. (k + 1) - 1 = k
      BY <1>1
    <3> QED
      BY <2>1, <2>3, <3>1 DEF MadeSoFar, MadeBy
  <2> QED
    BY <2>1, <2>4, OthersKeepMade
<1>5. ASSUME NEW e \in Entities, LoseTopicRace(e) \/ MakeFails(e)
      PROVE  MadeInv'
  <2>1. /\ pc[e] = "creating" /\ pc'[e] = "failed" /\ parts'[e] = parts[e]
        /\ step'[e] = step[e] /\ \A d \in Entities \ {e} : Same(d)
    BY <1>5 DEF LoseTopicRace, MakeFails, At, TypeOK, Same
  <2>2. MadeSoFar(e)'
    BY <1>1, <2>1 DEF MadeSoFar, MadeBy
  <2> QED
    BY <2>1, <2>2, OthersKeepMade
<1>6. ASSUME NEW e \in Entities, Unroll(e)
      PROVE  MadeInv'
  <2>1. pc[e] = "failed" /\ Release(e, parts[e] \ Left(e), Left(e))
    BY <1>6 DEF Unroll
  <2>2. parts[e] = MadeBy(e, step[e] - 1)
    BY <1>1, <2>1 DEF MadeSoFar
  <2>3. Left(e) \in SUBSET Parts /\ parts[e] \ Left(e) \in SUBSET Parts
    BY <1>1 DEF Left, LeftByService, LeftByClient
  <2>4. ASSUME e \in Services
        PROVE  Left(e) \subseteq {"proxy"} /\ "proxy" \notin (parts[e] \ Left(e)) \cap Objects
    <3>1. Left(e) = parts[e] \cap {"proxy"}
      BY <2>4, EntitiesDisjoint DEF Left, LeftByService
    <3>2. "proxy" \notin Objects
      BY Ranks
    <3> QED
      BY <3>1, <3>2
  <2>5. ASSUME e \in Clients
        PROVE  \/ Left(e) = {}
               \/ /\ (parts[e] \ Left(e)) \cap Objects = {}
                  /\ \E k \in {2, 3} : Left(e) = MadeBy(e, k) \ {"handle"}
    <3>1. Left(e) = IF "info" \in parts[e] THEN {} ELSE parts[e] \ {"handle"}
      BY <2>5, EntitiesDisjoint DEF Left, LeftByClient
    <3>2. CASE "info" \in parts[e]
      BY <3>1, <3>2
    <3>3. CASE "info" \notin parts[e]
      <4>1. step[e] - 1 \in 0..4
        <5>1. step[e] \in 1..Len(Steps(e))
          BY <1>1
        <5>2. Len(Steps(e)) = 5
          BY <2>5, ClientParts
        <5>3. step[e] \in 1..5
          BY <5>1, <5>2, Zenon
        <5> QED
          BY <5>3
      <4>2. step[e] - 1 # 4
        BY <2>2, <2>5, <3>3, ClientParts
      <4>3. CASE step[e] - 1 \in {0, 1}
        BY <2>2, <2>5, <3>1, <4>3, ClientParts, NothingMade
      <4>4. CASE step[e] - 1 \in {2, 3}
        <5>1. Left(e) = MadeBy(e, step[e] - 1) \ {"handle"}
          BY <2>2, <3>1, <3>3
        <5>2. (parts[e] \ Left(e)) \cap Objects = {}
          BY <3>1, <3>3, Ranks
        <5> QED
          BY <4>4, <5>1, <5>2
      <4> QED
        BY <4>1, <4>2, <4>3, <4>4
    <3> QED
      BY <3>2, <3>3
  <2> HIDE DEF Left
  <2> QED
    BY <2>1, <2>3, <2>4, <2>5, ReleaseLeaves
<1>7. ASSUME NEW e \in Entities, CallDestroy(e)
      PROVE  MadeInv'
  <2>1. /\ pc[e] = "ready" /\ pc'[e] = "destroying" /\ parts'[e] = parts[e]
        /\ \A d \in Entities \ {e} : Same(d)
    BY <1>7 DEF CallDestroy, TypeOK, Same
  <2>2. MadeSoFar(e)'
    BY <1>1, <2>1 DEF MadeSoFar, MadeBy
  <2> QED
    BY <2>1, <2>2, OthersKeepMade
<1>8. ASSUME NEW e \in Entities, DestroyRpc(e)
      PROVE  MadeInv'
  <2>1. Release(e, parts[e], {}) /\ parts[e] \in SUBSET Parts
    BY <1>1, <1>8 DEF DestroyRpc
  <2>2. "proxy" \notin parts[e] \cap Objects
    BY Ranks
  <2> QED
    BY <2>1, <2>2, ReleaseLeaves
<1>9. ASSUME NEW e \in Entities, DestroyPubSub(e)
      PROVE  MadeInv'
  <2>1. /\ e \in PubSubs /\ pc'[e] = "none" /\ \A d \in Entities \ {e} : Same(d)
    BY <1>9 DEF DestroyPubSub, TypeOK, Same
  <2>2. e \notin Rpcs
    BY <2>1, EntitiesDisjoint
  <2>3. \A d \in Entities : MadeSoFar(d)'
    BY <1>1, <2>1 DEF MadeSoFar, MadeBy, Same
  <2>4. RpcLeavings'
    <3>1. \A d \in Rpcs : Same(d)
      BY <2>1, <2>2 DEF Entities
    <3>2. ASSUME NEW d \in Services, pc'[d] = "none"
          PROVE  parts'[d] \ {"proxy"} = Kept(parts'[d] \cap Objects, refused'[d])
      BY <3>1, <3>2 DEF MadeInv, RpcLeavings, Same, Rpcs
    <3>3. ASSUME NEW d \in Clients, pc'[d] = "none"
          PROVE  \/ parts'[d] = Kept(parts'[d] \cap Objects, refused'[d])
                 \/ \E k \in {2, 3} : parts'[d] = MadeBy(d, k) \ {"handle"}
      BY <3>1, <3>3 DEF MadeInv, RpcLeavings, Same, Rpcs
    <3> QED
      BY <3>2, <3>3 DEF RpcLeavings, MadeBy
  <2> QED
    BY <2>3, <2>4 DEF MadeInv
<1>10. ASSUME NEW e \in Entities, DestroyPubSubFails(e)
       PROVE  MadeInv'
  <2>1. /\ e \in PubSubs /\ pc'[e] = "destroying" /\ \A d \in Entities \ {e} : Same(d)
    BY <1>10 DEF DestroyPubSubFails, TypeOK, Same
  <2>2. MadeSoFar(e)'
    BY <2>1, EntitiesDisjoint DEF MadeSoFar
  <2> QED
    BY <2>1, <2>2, OthersKeepMade
<1>11. CASE UNCHANGED vars
  BY <1>11 DEF vars, MadeInv, RpcLeavings, MadeSoFar, MadeBy
<1> QED
  BY <1>2, <1>3, <1>4, <1>5, <1>6, <1>7, <1>8, <1>9, <1>10, <1>11 DEF Next, Create, Destroy

\* What creations have made, and services and clients leave.
LEMMA MadeInvariant == Spec => []MadeInv
<1>1. Init => MadeInv
  <2>1. Init => RpcLeavings
    BY DEF Init, RpcLeavings, Kept, Entities, Rpcs
  <2> QED
    BY <2>1 DEF Init, MadeInv, MadeSoFar
<1> QED
  BY <1>1, EntityStepKeepsMade, EntityTypeCorrect, PTL DEF Spec

\* Whatever failed before and whoever else creates entities and topics, an entity that
\* rmw_create_publisher, _subscription, _service or _client returned has all its parts.
THEOREM EntitiesReadyWhole == Spec => []ReadyIsWhole
<1>1. MadeInv => ReadyIsWhole
  BY DEF MadeInv, MadeSoFar, ReadyIsWhole
<1> QED
  BY <1>1, MadeInvariant, PTL

\* How far the comments "fail" of rmw_create_service.cpp (106) and rmw_create_client.cpp
\* (105) are from the code: a service can lose its replier and nothing else, a client
\* only what it made before its info structure.
THEOREM RpcsLeaveNoMore == Spec => []RpcLeavings
<1>1. MadeInv => RpcLeavings
  BY DEF MadeInv
<1> QED
  BY <1>1, MadeInvariant, PTL

===========================================================================
