---------------------------- MODULE MCGraphCache ----------------------------
(***************************************************************************)
(* Instances of GraphCache and ServiceNames for TLC: a plain topic, and a  *)
(* topic of each of two services, whose names differ in the last character *)
(* and of which one is known by its requests and one by its responses.     *)
(***************************************************************************)
EXTENDS ServiceNames

CONSTANTS pub, sub, p1, p2, s1, plain, request, response, t1, t2

MCListenerOf == [h \in Handles |-> IF h = s1 THEN sub ELSE pub]

Scan1 == <<"/", "s", "1">>
Scan2 == <<"/", "s", "2">>
MCServices == {Scan1, Scan2}

MCPartsOfName == [n \in Names |->
  CASE n = plain    -> [prefix |-> "rt", service |-> NoService, suffix |-> ""]
    [] n = request  -> RequestTopic(Scan1)
    [] n = response -> ResponseTopic(Scan2)]

\* Each side of a service is advertised with a type of its own.
MCPartsOfType == [t \in Types |->
  IF t = t1 THEN [type |-> "Scan", suffix |-> "_Request_"]
            ELSE [type |-> "Map", suffix |-> "_Response_"]]
=============================================================================
