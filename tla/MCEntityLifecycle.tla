-------------------------- MODULE MCEntityLifecycle --------------------------
(* Instances of EntityLifecycle for TLC.                                    *)
EXTENDS EntityLifecycle

CONSTANTS publisher, subscription, other, service, client, t1, t2

\* The publisher and the subscription share a topic.
MCTopicOf == [e \in PubSubs |-> IF e = other THEN t2 ELSE t1]
=============================================================================
