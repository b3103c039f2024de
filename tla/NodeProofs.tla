------------------------------ MODULE NodeProofs ------------------------------
(***************************************************************************)
(* Proofs about NodeLifecycle and NodeNames: types, the safety of the      *)
(* listeners' callbacks, and what the names of a query stand for, for any  *)
(* number of nodes, participants and failures.                             *)
(***************************************************************************)
EXTENDS NodeNames, FiniteSetTheorems, SequenceTheorems, TLAPS

Whole == (Memory \ {"namespace"}) \cup Listeners

\* What holds of a node at each point of its creation and destruction.
Silent(n) == participant[n] = "disabled" /\ running[n] = {} /\ ~contained[n]

AtPoint(n) ==
  /\ pc[n] \in {"none", "deleted"} =>
       participant[n] = "none" /\ installed[n] = {} /\ running[n] = {} /\ ~contained[n]
  /\ pc[n] \in {"guard", "listeners", "info", "enable", "failed", "leaked"} => Silent(n)
  /\ pc[n] \in {"none", "leaked"} => parts[n] = {}
  /\ pc[n] = "guard" => installed[n] = {}
  /\ pc[n] = "listeners" => installed[n] \cup {"guard"} \subseteq parts[n]
  /\ pc[n] = "info" => Listeners \cup {"guard", "handle", "name"} \subseteq parts[n]
  /\ pc[n] \in {"enable", "ready", "destroying", "emptied"} => Whole \subseteq parts[n]
  /\ pc[n] \in {"ready", "destroying", "emptied"} => participant[n] # "none"

NodeInv == TypeOK /\ \A n \in Nodes : AtPoint(n)

\* Every node starts out with nothing.
LEMMA InitialNodes == Init => NodeInv
  BY FailureAssumption DEF Init, NodeInv, TypeOK, AtPoint, Silent, Phases

\* A creation builds the node part by part, and its fail block takes it apart.
LEMMA CreationKeepsInv ==
  ASSUME NodeInv, NEW n \in Nodes, Create(n), UNCHANGED <<options, context>>
  PROVE  NodeInv'
<1> USE DEF NodeInv, TypeOK, AtPoint, Silent, Phases, Whole, Memory
<1>1. CASE CreateParticipant(n) \/ ContextGone(n)
  BY <1>1 DEF CreateParticipant, ContextGone
<1>2. CASE CreateGuardCondition(n)
  BY <1>2 DEF CreateGuardCondition
<1>3. CASE \E l \in Listeners : CreateListener(n, l)
  BY <1>3 DEF CreateListener
<1>4. CASE CreateHandle(n)
  BY <1>4, FailureAssumption DEF CreateHandle, Fail
<1>5. CASE NameFails(n)
  BY <1>5, FailureAssumption DEF NameFails, Fail
<1>6. CASE CreateInfo(n)
  BY <1>6 DEF CreateInfo
<1>7. CASE StepFails(n)
  BY <1>7, FailureAssumption DEF StepFails, Fail
<1>8. CASE Enable(n)
  BY <1>8, FailureAssumption DEF Enable, Fail
<1>9. CASE Unroll(n)
  BY <1>9, FailureAssumption DEF Unroll, Fail
<1> QED
  BY <1>1, <1>2, <1>3, <1>4, <1>5, <1>6, <1>7, <1>8, <1>9 DEF Create

\* A destruction frees nothing before the participant is gone.
LEMMA DestructionKeepsInv ==
  ASSUME NodeInv, NEW n \in Nodes, CallDestroy(n) \/ Destroy(n),
         UNCHANGED <<options, context>>
  PROVE  NodeInv'
<1> USE DEF NodeInv, TypeOK, AtPoint, Silent, Phases, Whole, Memory
<1>1. CASE CallDestroy(n)
  BY <1>1 DEF CallDestroy
<1>2. CASE DeleteContainedEntities(n)
  BY <1>2 DEF DeleteContainedEntities
<1>3. CASE DeleteParticipant(n)
  BY <1>3 DEF DeleteParticipant
<1>4. CASE DestroyRefused(n)
  BY <1>4, FailureAssumption DEF DestroyRefused, Fail
<1>5. CASE FreeNode(n)
  BY <1>5 DEF FreeNode
<1> QED
  BY <1>1, <1>2, <1>3, <1>4, <1>5 DEF Destroy

\* Callbacks run on installed listeners of an enabled participant only.
LEMMA UseKeepsInv ==
  ASSUME NodeInv, NEW n \in Nodes,
         UseNode(n) \/ \E l \in Listeners : CallbackBegins(n, l) \/ CallbackEnds(n, l),
         UNCHANGED <<options, context>>
  PROVE  NodeInv'
<1> USE DEF NodeInv, TypeOK, AtPoint, Silent, Phases, Whole, Memory
<1>1. CASE UseNode(n)
  BY <1>1 DEF UseNode
<1>2. ASSUME NEW l \in Listeners, CallbackBegins(n, l)
      PROVE  NodeInv'
  BY <1>2 DEF CallbackBegins, CanCallBack
<1>3. ASSUME NEW l \in Listeners, CallbackEnds(n, l)
      PROVE  NodeInv'
  BY <1>3 DEF CallbackEnds
<1> QED
  BY <1>1, <1>2, <1>3

\* Options and contexts come and go without the nodes.
LEMMA ContextKeepsInv ==
  ASSUME NodeInv, InitOrShutdown
  PROVE  NodeInv'
<1>1. options' \subseteq OptionStructures /\ context' \in {"zero", "up"}
  BY DEF NodeInv, TypeOK, InitOrShutdown, InitOptions, CopyOptions, FiniOptions, InitContext,
         Shutdown
<1>2. UNCHANGED nodes /\ failures' \in 0..MaxFailures
  BY FailureAssumption DEF NodeInv, TypeOK, InitOrShutdown, InitOptions, CopyOptions,
         FiniOptions, InitContext, Shutdown, Fail
<1> QED
  BY <1>1, <1>2 DEF NodeInv, TypeOK, AtPoint, Silent, nodes

\* The points of creation and destruction are as AtPoint says, in every run.
THEOREM NodeInvariant == Spec => []NodeInv
<1>1. ASSUME NodeInv, Next
      PROVE  NodeInv'
  BY <1>1, CreationKeepsInv, DestructionKeepsInv, UseKeepsInv, ContextKeepsInv
  DEF Next, NodeStep
<1>2. NodeInv /\ UNCHANGED vars => NodeInv'
  BY DEF NodeInv, TypeOK, AtPoint, Silent, nodes, vars
<1> QED
  BY InitialNodes, <1>1, <1>2, PTL DEF Spec

\* The state of nodes keeps its shape, and a callback runs only on a listener
\* that is installed.
THEOREM NodeTypeCorrect == Spec => []TypeOK
<1>1. NodeInv => TypeOK
  BY DEF NodeInv
<1> QED
  BY <1>1, NodeInvariant, PTL

\* Where a callback runs or may start, the node is whole.
LEMMA SafeCallbacks == NodeInv => CallbacksAreSafe
<1> SUFFICES ASSUME NodeInv, NEW n \in Nodes, NEW l \in Listeners,
                    l \in running[n] \/ CanCallBack(n, l)
             PROVE  {l, "guard"} \subseteq parts[n]
  BY DEF CallbacksAreSafe
<1>1. pc[n] \in {"ready", "destroying", "emptied"}
  BY DEF NodeInv, TypeOK, AtPoint, Silent, Phases, CanCallBack
<1> QED
  BY <1>1 DEF NodeInv, AtPoint, Whole, Memory

\* What is at rest is whole or gone.
LEMMA WholeAtRest == NodeInv => WholeOrGone
  BY DEF NodeInv, AtPoint, Silent, Whole, WholeOrGone, NothingLeft, NodeIsWhole

\* No callback of the middleware meets a freed listener or guard condition, for
\* any nodes and failures (rmw_create_node.cpp:232, rmw_destroy_node.cpp:80).
THEOREM CallbacksSafe == Spec => []CallbacksAreSafe
  BY SafeCallbacks, NodeInvariant, PTL

\* Failed creations and complete destructions leave nothing but a participant
\* that was never enabled, and what a caller holds is whole.
THEOREM NodesWholeOrGone == Spec => []WholeOrGone
  BY WholeAtRest, NodeInvariant, PTL

---------------------------------------------------------------------------
(* The names of other participants.                                        *)

QueryTypes ==
  /\ discovered \subseteq Peers
  /\ query \in [Nodes -> {"idle", "reading", "answered"}]
  /\ handles \in [Nodes -> Seq(Peers)]
  /\ names \in [Nodes -> Seq(Texts \cup {Nothing})]
  /\ namespaces \in [Nodes -> Seq(Texts \cup {Nothing})]
  /\ steady \in [Nodes -> SUBSET discovered]

\* What an entry of the arrays says of its participant.
EntryOK(n, i) ==
  LET p == handles[n][i] IN
  /\ names[n][i] = NameOf(p) \/ (names[n][i] = Nothing /\ p \notin steady[n])
  /\ names[n][i] = Nothing => namespaces[n][i] = Nothing
  /\ names[n][i] # Nothing /\ Announced[p].name # Nothing /\ Announced[p].namespace # Nothing
       => namespaces[n][i] = Announced[p].namespace

QueryOK(n) ==
  /\ Len(namespaces[n]) = Len(names[n])
  /\ Len(names[n]) <= Len(handles[n])
  /\ query[n] = "idle" => names[n] = <<>>
  /\ query[n] = "answered" => Len(names[n]) = Len(handles[n])
  /\ query[n] # "idle" => steady[n] \subseteq {handles[n][i] : i \in DOMAIN handles[n]}
  /\ \A i \in 1..Len(names[n]) : EntryOK(n, i)

NamesInv == QueryTypes /\ \A n \in Nodes : QueryOK(n)

\* What is announced is a text or nothing.
LEMMA AnnouncedTexts ==
  ASSUME NEW p \in Peers
  PROVE  /\ NameOf(p) \in Texts \cup {Nothing}
         /\ NamespacesOf(p) \subseteq Texts \cup {Nothing}
  BY AnnouncedAssumption DEF NameOf, NamespacesOf

\* No node asks at first.
LEMMA NoNamesAtFirst == NamesInit => NamesInv
  BY DEF NamesInit, NamesInv, QueryTypes, QueryOK, EntryOK

\* Participants that appear or go leave the arrays alone.
LEMMA PeersKeepNames ==
  ASSUME NamesInv, NEW p \in Peers, PeerAppears(p) \/ PeerGoes(p)
  PROVE  NamesInv'
<1>1. UNCHANGED <<query, arrays>>
  BY DEF PeerAppears, PeerGoes
<1>2. QueryTypes'
  BY <1>1 DEF NamesInv, QueryTypes, PeerAppears, PeerGoes, arrays
<1>3. \A n \in Nodes : steady'[n] \subseteq steady[n]
  BY DEF NamesInv, QueryTypes, PeerAppears, PeerGoes
<1> QED
  BY <1>1, <1>2, <1>3 DEF NamesInv, QueryOK, EntryOK, arrays, NameOf

\* A query begins with all discovered participants and empty arrays.
LEMMA ListKeepsNames ==
  ASSUME NamesInv, NEW n \in Nodes, ListParticipants(n)
  PROVE  NamesInv'
<1>1. PICK listed \in [1..Cardinality(discovered) -> discovered] :
        /\ {listed[i] : i \in DOMAIN listed} = discovered
        /\ handles' = [handles EXCEPT ![n] = listed]
  BY DEF ListParticipants
<1>2. Cardinality(discovered) \in Nat
  BY PeersFinite, FS_Subset, FS_CardinalityType DEF NamesInv, QueryTypes
<1>3. listed \in Seq(Peers)
  <2>1. PICK k \in Nat : listed \in [1..k -> discovered]
    BY <1>1, <1>2
  <2>2. listed \in [1..k -> Peers]
    BY <2>1 DEF NamesInv, QueryTypes
  <2> QED
    BY <2>2, SeqDef
<1>4. QueryTypes'
  BY <1>1, <1>3 DEF NamesInv, QueryTypes, ListParticipants
<1>5. names[n] = <<>> /\ namespaces[n] = <<>>
  BY DEF NamesInv, QueryTypes, QueryOK, ListParticipants
<1>6. QueryOK(n)'
  BY <1>1, <1>3, <1>5 DEF NamesInv, QueryTypes, QueryOK, ListParticipants
<1>7. \A m \in Nodes \ {n} : QueryOK(m)'
  BY <1>1 DEF NamesInv, QueryTypes, QueryOK, EntryOK, ListParticipants, NameOf
<1> QED
  BY <1>4, <1>6, <1>7 DEF NamesInv

\* One more entry, of the participant that is next.
LEMMA FillKeepsNames ==
  ASSUME NamesInv, NEW n \in Nodes, Reading(n),
         NEW name \in Texts \cup {Nothing}, NEW namespace \in Texts \cup {Nothing},
         Fill(n, name, namespace),
         name = NameOf(NextPeer(n)) \/ (name = Nothing /\ NextPeer(n) \notin steady[n]),
         name = Nothing => namespace = Nothing,
         name # Nothing /\ Announced[NextPeer(n)].name # Nothing
           /\ Announced[NextPeer(n)].namespace # Nothing
           => namespace = Announced[NextPeer(n)].namespace
  PROVE  NamesInv'
<1>0. PICK len \in Nat : len = Len(names[n])
  <2>1. names[n] \in Seq(Texts \cup {Nothing})
    BY DEF NamesInv, QueryTypes
  <2>2. Len(names[n]) \in Nat
    BY <2>1, LenProperties
  <2> QED
    BY <2>2
<1>1. /\ names[n] \in Seq(Texts \cup {Nothing}) /\ namespaces[n] \in Seq(Texts \cup {Nothing})
      /\ handles[n] \in Seq(Peers) /\ Len(names[n]) = len /\ Len(namespaces[n]) = len
  BY <1>0 DEF NamesInv, QueryTypes, QueryOK
<1>2. names'[n] = Append(names[n], name) /\ namespaces'[n] = Append(namespaces[n], namespace)
  BY DEF Fill, NamesInv, QueryTypes
<1>3. Len(names'[n]) = len + 1 /\ Len(namespaces'[n]) = len + 1
  BY <1>1, <1>2
<1>4. names'[n][len + 1] = name /\ namespaces'[n][len + 1] = namespace
  <2>1. Append(names[n], name)[Len(names[n]) + 1] = name
    BY <1>1, AppendProperties
  <2>2. Append(namespaces[n], namespace)[Len(namespaces[n]) + 1] = namespace
    BY <1>1, AppendProperties
  <2> QED
    BY <1>1, <1>2, <2>1, <2>2
<1>5. \A i \in 1..len : names'[n][i] = names[n][i] /\ namespaces'[n][i] = namespaces[n][i]
  BY <1>1, <1>2
<1>6. EntryOK(n, len + 1)'
  BY <1>0, <1>4 DEF EntryOK, NextPeer, Fill, NameOf
<1>7. \A i \in 1..len : EntryOK(n, i)'
  BY <1>0, <1>5 DEF NamesInv, QueryOK, EntryOK, Fill, NameOf
<1>8. \A i \in 1..Len(names'[n]) : EntryOK(n, i)'
  <2> SUFFICES ASSUME NEW i \in 1..Len(names'[n])
               PROVE  EntryOK(n, i)'
    OBVIOUS
  <2>1. i \in 1..len \/ i = len + 1
    BY <1>1, <1>3
  <2> QED
    BY <2>1, <1>6, <1>7
<1>9. QueryOK(n)'
  BY <1>1, <1>3, <1>8 DEF NamesInv, QueryOK, Reading, Fill
<1>10. QueryTypes'
  BY <1>1 DEF NamesInv, QueryTypes, Fill
<1>11. \A m \in Nodes \ {n} : QueryOK(m)'
  BY DEF NamesInv, QueryTypes, QueryOK, EntryOK, Fill, NameOf
<1> QED
  BY <1>9, <1>10, <1>11 DEF NamesInv

\* The entry is the participant's own name, or null.
LEMMA ReadKeepsNames ==
  ASSUME NamesInv, NEW n \in Nodes, ReadParticipant(n)
  PROVE  NamesInv'
<1> DEFINE p == NextPeer(n)
<1>1. p \in Peers /\ Reading(n) /\ steady[n] \subseteq discovered
  BY DEF NamesInv, QueryTypes, QueryOK, ReadParticipant, Reading, NextPeer
<1>2. CASE p \in discovered /\ NameOf(p) # Nothing
  <2>1. PICK namespace \in NamespacesOf(p) : Fill(n, NameOf(p), namespace)
    BY <1>2 DEF ReadParticipant
  <2>2. Announced[p].name # Nothing /\ Announced[p].namespace # Nothing
          => namespace = Announced[p].namespace
    BY <2>1 DEF NamespacesOf
  <2> QED
    BY <1>1, <1>2, <2>1, <2>2, AnnouncedTexts, FillKeepsNames
<1>3. CASE ~(p \in discovered /\ NameOf(p) # Nothing)
  <2>1. Fill(n, Nothing, Nothing)
    BY <1>3 DEF ReadParticipant
  <2>2. Nothing = NameOf(p) \/ p \notin steady[n]
    BY <1>1, <1>3
  <2> QED
    BY <1>1, <2>1, <2>2, FillKeepsNames
<1> QED
  BY <1>2, <1>3

\* The end of a query, with or without an answer, and of its use.
LEMMA EndKeepsNames ==
  ASSUME NamesInv, NEW n \in Nodes, CopyFails(n) \/ Answer(n) \/ UseAnswer(n)
  PROVE  NamesInv'
<1>1. CASE CopyFails(n) \/ UseAnswer(n)
  <2>1. QueryTypes'
    <3>1. /\ query' = [query EXCEPT ![n] = "idle"] /\ handles' = [handles EXCEPT ![n] = <<>>]
          /\ names' = [names EXCEPT ![n] = <<>>] /\ namespaces' = [namespaces EXCEPT ![n] = <<>>]
          /\ steady' = [steady EXCEPT ![n] = {}] /\ discovered' = discovered
      BY <1>1 DEF CopyFails, UseAnswer
    <3>2. <<>> \in Seq(Peers) /\ <<>> \in Seq(Texts \cup {Nothing})
      OBVIOUS
    <3> QED
      BY <3>1, <3>2 DEF NamesInv, QueryTypes
  <2>2. QueryOK(n)'
    BY <1>1 DEF NamesInv, QueryTypes, QueryOK, CopyFails, UseAnswer
  <2>3. \A m \in Nodes \ {n} : QueryOK(m)'
    BY <1>1 DEF NamesInv, QueryTypes, QueryOK, EntryOK, CopyFails, UseAnswer, NameOf
  <2> QED
    BY <2>1, <2>2, <2>3 DEF NamesInv
<1>2. CASE Answer(n)
  BY <1>2 DEF NamesInv, QueryTypes, QueryOK, EntryOK, Answer, arrays, NameOf
<1> QED
  BY <1>1, <1>2

\* Every entry of a query is the name of the participant at its place, and the
\* queries leave the nodes as they are.
THEOREM NamesInvariant == NamesSpec => [](NodeInv /\ NamesInv)
<1>1. NamesInit => NodeInv /\ NamesInv
  BY InitialNodes, NoNamesAtFirst DEF NamesInit
<1>2. ASSUME NodeInv, NamesInv, NamesNext
      PROVE  NodeInv'
  <2>1. CASE LifecycleStep
    BY <1>2, <2>1, CreationKeepsInv, DestructionKeepsInv, UseKeepsInv, ContextKeepsInv
    DEF LifecycleStep, Next, NodeStep
  <2>2. ASSUME NEW n \in Nodes, CopyFails(n)
        PROVE  NodeInv'
    <3>1. UNCHANGED <<options, context, nodes>> /\ failures' \in 0..MaxFailures
      BY <1>2, <2>2, FailureAssumption DEF CopyFails, Fail, NodeInv, TypeOK
    <3> QED
      BY <1>2, <3>1 DEF NodeInv, TypeOK, AtPoint, Silent, nodes
  <2>3. CASE UNCHANGED vars
    BY <1>2, <2>3 DEF NodeInv, TypeOK, AtPoint, Silent, nodes, vars
  <2> QED
    BY <1>2, <2>1, <2>2, <2>3
    DEF NamesNext, Query, PeerAppears, PeerGoes, ListParticipants, ReadParticipant, Fill,
        Answer, UseAnswer
<1>3. ASSUME NamesInv, NamesNext
      PROVE  NamesInv'
  <2>1. CASE LifecycleStep
    BY <1>3, <2>1 DEF LifecycleStep, NamesInv, QueryTypes, QueryOK, EntryOK, arrays, NameOf
  <2> QED
    BY <1>3, <2>1, PeersKeepNames, ListKeepsNames, ReadKeepsNames, EndKeepsNames
    DEF NamesNext, Query
<1>4. NodeInv /\ NamesInv /\ UNCHANGED namesVars => (NodeInv /\ NamesInv)'
  BY DEF NodeInv, TypeOK, AtPoint, Silent, nodes, vars, namesVars, arrays, NamesInv,
         QueryTypes, QueryOK, EntryOK, NameOf
<1> QED
  BY <1>1, <1>2, <1>3, <1>4, PTL DEF NamesSpec

\* Whichever participants come and go while names are collected, none is confused
\* with another (rmw_get_node_names.cpp:104).
THEOREM NamesStandForPeers == NamesSpec => []NamesAreOfPeers
<1>1. NamesInv => NamesAreOfPeers
  <2> SUFFICES ASSUME NamesInv, NEW n \in Nodes, query[n] = "answered"
               PROVE  /\ steady[n] \subseteq {handles[n][i] : i \in DOMAIN handles[n]}
                      /\ DOMAIN names[n] = DOMAIN handles[n]
                      /\ DOMAIN namespaces[n] = DOMAIN handles[n]
                      /\ \A i \in DOMAIN handles[n] : EntryOK(n, i)
    BY DEF NamesAreOfPeers, EntryOK
  <2>1. /\ DOMAIN names[n] = 1..Len(names[n]) /\ DOMAIN handles[n] = 1..Len(handles[n])
        /\ DOMAIN namespaces[n] = 1..Len(namespaces[n])
    BY DEF NamesInv, QueryTypes
  <2> QED
    BY <2>1 DEF NamesInv, QueryOK
<1> QED
  BY <1>1, NamesInvariant, PTL

\* The life cycle keeps its promises beside the queries.
THEOREM NodesBesideQueries == NamesSpec => [](TypeOK /\ CallbacksAreSafe /\ WholeOrGone)
<1>1. NodeInv => TypeOK
  BY DEF NodeInv
<1> QED
  BY <1>1, SafeCallbacks, WholeAtRest, NamesInvariant, PTL

===========================================================================
