------------------------------ MODULE NodeNames ------------------------------
(***************************************************************************)
(* rmw_get_node_names (rmw_get_node_names.cpp) on the nodes of             *)
(* NodeLifecycle.  The query lists the participants that DDS has           *)
(* discovered and then reads the data of one after the other; participants *)
(* appear and go in between.  Nodes of this implementation announce their  *)
(* name and namespace in the user data of their participant; others        *)
(* announce a name there without a namespace, only an entity name, or      *)
(* nothing.                                                                *)
(***************************************************************************)
EXTENDS NodeLifecycle, Sequences

CONSTANTS
  Peers,       \* the other participants, by their instance handles
  Announced,   \* what each announces: name, namespace, entity_name
  Texts,       \* names and namespaces
  Nothing      \* an empty text, or a null entry

ASSUME PeersFinite == IsFiniteSet(Peers)
ASSUME NothingIsNoText == Nothing \notin Texts
ASSUME AnnouncedAssumption ==
  Announced \in [Peers -> [name : Texts \cup {Nothing}, namespace : Texts \cup {Nothing},
                           entity_name : Texts \cup {Nothing}]]

VARIABLES
  discovered,  \* the participants that DDS has discovered
  query,       \* where the query of each node is
  handles,     \* the participants it has listed
  names,       \* node_names, as far as it is filled
  namespaces,  \* node_namespaces
  steady       \* history: those listed that have been discovered ever since

arrays == <<handles, names, namespaces>>
namesVars == <<vars, discovered, query, arrays, steady>>

NamesInit ==
  /\ Init
  /\ discovered = {}
  /\ query = [n \in Nodes |-> "idle"]
  /\ handles = [n \in Nodes |-> <<>>]
  /\ names = [n \in Nodes |-> <<>>]
  /\ namespaces = [n \in Nodes |-> <<>>]
  /\ steady = [n \in Nodes |-> {}]

---------------------------------------------------------------------------
(* The other participants, as long as there is a node to see them.         *)

Observed == \E n \in Nodes : pc[n] = "ready"

PeerAppears(p) ==
  /\ Observed
  /\ p \notin discovered
  /\ discovered' = discovered \cup {p}
  /\ UNCHANGED <<vars, query, arrays, steady>>

PeerGoes(p) ==
  /\ Observed
  /\ p \in discovered
  /\ discovered' = discovered \ {p}
  /\ steady' = [n \in Nodes |-> steady[n] \ {p}]
  /\ UNCHANGED <<vars, query, arrays>>

---------------------------------------------------------------------------
(* rmw_get_node_names.                                                     *)

\* The name from the user data, or else the entity name.
NameOf(p) ==
  IF Announced[p].name # Nothing THEN Announced[p].name ELSE Announced[p].entity_name

\* The namespace is taken from the user data when a *name* is found there: without
\* a namespace this reads what lies behind the map's last entry.
NamespacesOf(p) ==
  IF Announced[p].name = Nothing THEN {Nothing}
  ELSE IF Announced[p].namespace = Nothing THEN Texts
  ELSE {Announced[p].namespace}

\* get_discovered_participants, in any order; and two arrays of this length.  A
\* participant that is not enabled refuses, and nothing is changed.
ListParticipants(n) ==
  /\ pc[n] = "ready"
  /\ query[n] = "idle"
  /\ participant[n] = "enabled"
  /\ \E listed \in [1..Cardinality(discovered) -> discovered] :
       /\ {listed[i] : i \in DOMAIN listed} = discovered
       /\ handles' = [handles EXCEPT ![n] = listed]
  /\ query' = [query EXCEPT ![n] = "reading"]
  /\ steady' = [steady EXCEPT ![n] = discovered]
  /\ UNCHANGED <<vars, discovered, names, namespaces>>

Fill(n, name, namespace) ==
  /\ names' = [names EXCEPT ![n] = Append(@, name)]
  /\ namespaces' = [namespaces EXCEPT ![n] = Append(@, namespace)]
  /\ UNCHANGED <<vars, discovered, query, handles, steady>>

Reading(n) == query[n] = "reading" /\ Len(names[n]) < Len(handles[n])

NextPeer(n) == handles[n][Len(names[n]) + 1]

\* Faulty variant: the name of the last participant is kept when there is no data.
ReadStale(n) ==
  /\ Reading(n)
  /\ LET p == NextPeer(n)
         known == p \in discovered /\ NameOf(p) # Nothing
     IN IF known \/ names[n] = <<>>
        THEN known /\ \E namespace \in NamespacesOf(p) : Fill(n, NameOf(p), namespace)
        ELSE Fill(n, names[n][Len(names[n])], namespaces[n][Len(names[n])])

\* Participants that have gone, or have no name, are null in both arrays.
ReadParticipant(n) ==
  /\ Reading(n)
  /\ LET p == NextPeer(n) IN
     IF p \in discovered /\ NameOf(p) # Nothing
     THEN \E namespace \in NamespacesOf(p) : Fill(n, NameOf(p), namespace)
     ELSE Fill(n, Nothing, Nothing)

\* A name or namespace cannot be copied: both arrays are freed.
CopyFails(n) ==
  /\ Reading(n)
  /\ NextPeer(n) \in discovered /\ NameOf(NextPeer(n)) # Nothing
  /\ Fail
  /\ query' = [query EXCEPT ![n] = "idle"]
  /\ handles' = [handles EXCEPT ![n] = <<>>]
  /\ names' = [names EXCEPT ![n] = <<>>]
  /\ namespaces' = [namespaces EXCEPT ![n] = <<>>]
  /\ steady' = [steady EXCEPT ![n] = {}]
  /\ UNCHANGED <<options, context, nodes, discovered>>

Answer(n) ==
  /\ query[n] = "reading"
  /\ Len(names[n]) = Len(handles[n])
  /\ query' = [query EXCEPT ![n] = "answered"]
  /\ UNCHANGED <<vars, discovered, arrays, steady>>

\* The caller has read the arrays and frees them.
UseAnswer(n) ==
  /\ query[n] = "answered"
  /\ query' = [query EXCEPT ![n] = "idle"]
  /\ handles' = [handles EXCEPT ![n] = <<>>]
  /\ names' = [names EXCEPT ![n] = <<>>]
  /\ namespaces' = [namespaces EXCEPT ![n] = <<>>]
  /\ steady' = [steady EXCEPT ![n] = {}]
  /\ UNCHANGED <<vars, discovered>>

---------------------------------------------------------------------------
Query(n) ==
  \/ ListParticipants(n) \/ ReadParticipant(n) \/ CopyFails(n) \/ Answer(n) \/ UseAnswer(n)

\* The application does not destroy a node while it queries it.
LifecycleStep ==
  /\ Next
  /\ \A n \in Nodes : query[n] # "idle" => pc'[n] = "ready"
  /\ UNCHANGED <<discovered, query, arrays, steady>>

NamesNext ==
  \/ LifecycleStep
  \/ \E p \in Peers : PeerAppears(p) \/ PeerGoes(p)
  \/ \E n \in Nodes : Query(n)

\* A step of the life cycle that concerns this node only.
Alone(n, step) ==
  /\ step
  /\ UNCHANGED <<options, context, discovered, query, arrays, steady>>

NamesSpec == NamesInit /\ [][NamesNext]_namesVars

\* As FairSpec; and a query of finitely many participants ends, and so does what
\* the caller does with it.
FairNamesSpec ==
  /\ NamesSpec
  /\ \A n \in Nodes :
       /\ WF_namesVars(Alone(n, Destroy(n)))
       /\ \A l \in Listeners : WF_namesVars(Alone(n, CallbackEnds(n, l)))
       /\ WF_namesVars(ReadParticipant(n) \/ CopyFails(n) \/ Answer(n) \/ UseAnswer(n))

---------------------------------------------------------------------------
(* Properties.                                                             *)

\* An answer names every participant that was there all the time, confuses none
\* with another, also when some go while it is collected, and has beside each
\* announced name the namespace announced with it.
NamesAreOfPeers ==
  \A n \in Nodes : query[n] = "answered" =>
    /\ steady[n] \subseteq {handles[n][i] : i \in DOMAIN handles[n]}
    /\ DOMAIN names[n] = DOMAIN handles[n] /\ DOMAIN namespaces[n] = DOMAIN handles[n]
    /\ \A i \in DOMAIN handles[n] :
         LET p == handles[n][i] IN
         /\ names[n][i] = NameOf(p) \/ (names[n][i] = Nothing /\ p \notin steady[n])
         /\ names[n][i] = Nothing => namespaces[n][i] = Nothing
         /\ names[n][i] # Nothing /\ Announced[p].name # Nothing /\ Announced[p].namespace # Nothing
              => namespaces[n][i] = Announced[p].namespace

===========================================================================
