---------------------------- MODULE ServiceNames ----------------------------
(***************************************************************************)
(* rmw_get_service_names_and_types: the services of the graph, found among *)
(* the topics of both caches by their mangled names.                       *)
(*                                                                         *)
(* names.cpp gives a service a request topic "rq" name "Request" and a     *)
(* response topic "rr" name "Reply".  A topic is abstracted to these three *)
(* parts, a type name to the service type and its suffix.  A service's     *)
(* name is a sequence of characters, because taking it out of a topic's    *)
(* name drops its last one.                                                *)
(***************************************************************************)
EXTENDS GraphCache

CONSTANTS
  Services,      \* service names, of any node: sequences of characters
  NoService,     \* in the place of a service in other topics
  ServiceTypes,
  PartsOfName,   \* [Names -> Topic]
  PartsOfType    \* [Types -> TypeName]

Topic ==
  [prefix : {"", "rt", "rq", "rr"}, service : Services \cup {NoService},
   suffix : {"", "Request", "Reply"}]

TypeName == [type : ServiceTypes, suffix : {"", "_Request_", "_Response_"}]

ASSUME ServiceNamesAssumption ==
  /\ NoService \notin Services
  /\ \A s \in Services : Len(s) >= 2 /\ DOMAIN s = 1..Len(s)
  /\ PartsOfName \in [Names -> Topic]
  /\ PartsOfType \in [Types -> TypeName]
  /\ RosNames = {n \in Names : PartsOfName[n].prefix = "rt"}

\* rmw_coredx_process_service_name
RequestTopic(s) == [prefix |-> "rq", service |-> s, suffix |-> "Request"]
ResponseTopic(s) == [prefix |-> "rr", service |-> s, suffix |-> "Reply"]

\* substr(start, length() - 1 - start): the last character is lost.
CutShort(s) == SubSeq(s, 1, Len(s) - 1)

\* Faulty variant: the same suffix is looked for under both prefixes.
RequestSuffixOnly(n) ==
  {CutShort(s) : s \in {r \in Services : PartsOfName[n] = RequestTopic(r)}}

\* _demangle_service_from_topic: nothing, or what is left of the service's name.
ServiceOfTopic(n) ==
  {CutShort(s) : s \in {r \in Services :
     PartsOfName[n] \in {RequestTopic(r), ResponseTopic(r)}}}

\* _demangle_service_type_only
ServiceTypeOf(t) ==
  IF PartsOfType[t].suffix = "" THEN {} ELSE {PartsOfType[t].type}

ServiceTypesOf(n) ==
  UNION {ServiceTypeOf(t) : t \in UNION {TypesOf(l, n) : l \in Listeners}}

\* The services of both caches: a topic that has a service's name, with a type
\* that has a service's type name, adds to the service of that name.
ServiceNamesAndTypes ==
  LET topics == {n \in UNION {keys[l] : l \in Listeners} : ServiceTypesOf(n) # {}}
  IN  [s \in UNION {ServiceOfTopic(n) : n \in topics} |->
         UNION {ServiceTypesOf(n) : n \in {m \in topics : s \in ServiceOfTopic(m)}}]

---------------------------------------------------------------------------
(* Properties.                                                             *)

\* The services that have an endpoint in the graph.
EndpointsOf(s) ==
  {d \in endpoints : /\ PartsOfName[d.name] \in {RequestTopic(s), ResponseTopic(s)}
                     /\ PartsOfType[d.type].suffix # ""}

LiveServices == {s \in Services : EndpointsOf(s) # {}}

AllSettled == updates = 0 /\ \A l \in Listeners : Settled(l)

TypesOfService(s) == {PartsOfType[d.type].type : d \in EndpointsOf(s)}

\* When the listeners have applied all their samples, the services with an
\* endpoint are listed, whichever of the sides of a service is known and in
\* whichever cache, with exactly the types of these endpoints, and no other
\* topic is; but each without its last character, and services that differ only
\* there as one, with the types of all of them
\* (rmw_get_service_names_and_types.cpp:88).
ServicesCutShort ==
  AllSettled =>
    ServiceNamesAndTypes =
      [x \in {CutShort(s) : s \in LiveServices} |->
         UNION {TypesOfService(s) : s \in {r \in LiveServices : CutShort(r) = x}}]

===========================================================================
