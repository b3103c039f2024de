------------------------------ MODULE MCWaitSet ------------------------------
(* Instances of WaitSet for TLC.                                            *)
EXTENDS WaitSet, TLC

CONSTANTS w1, w2, g1, g2, sub, service, client, x1, x2, e1, e2, e3,
          deadline, liveliness

\* e1 and e2 are two events of the subscription's reader, e3 one of a writer.
MCEventCond == [e \in Events |-> IF e = e3 THEN x2 ELSE x1]
MCEventKind == [e \in Events |-> IF e = e2 THEN liveliness ELSE deadline]

Call(subs, services, clients, guards, events, timed) ==
  [subs |-> subs, services |-> services, clients |-> clients, guards |-> guards,
   events |-> events, hasEvents |-> TRUE, timed |-> timed]

\* Two callers share a guard condition; each entity belongs to one of them,
\* as an executor that was given a callback group owns its entities.
SafetyRequests ==
  (w1 :> {Call({sub}, {}, {}, {g1}, {e1, e2}, FALSE),
          Call({sub}, {}, {}, {g1}, {e1}, TRUE),
          [Call({sub}, {}, {}, {g1}, {}, FALSE) EXCEPT !.hasEvents = FALSE]})
  @@ (w2 :> {Call({}, {service}, {client}, {g1}, {}, TRUE)})

\* Two callers share a guard condition.
LiveRequests ==
  (w1 :> {Call({sub}, {}, {}, {g1}, {e1}, FALSE), Call({sub}, {}, {}, {g1}, {}, TRUE)})
  @@ (w2 :> {Call({}, {}, {}, {g1}, {}, FALSE)})

\* One caller asks for an event in one call and not in the next one.
LeakRequests ==
  (w1 :> {Call({sub}, {}, {}, {g1}, {e1}, FALSE), Call({sub}, {}, {}, {g1}, {}, FALSE)})

\* In every run each entity belongs to one caller.
ASSUME EntitiesAreExclusive == ExclusiveReads /\ ExclusiveStatuses
=============================================================================
