-------------------------------- MODULE MCQos --------------------------------
(* Instances of Qos for TLC.                                                *)
EXTENDS Qos

CONSTANT Seconds

Time(s, n) == [sec |-> s, nsec |-> n]
Same(t) == [k \in Periods |-> t]

\* Every depth, with and without a deadline, and every time with a usual depth.
MCProfiles ==
  [history : {"last", "all", "default", "unknown"}, reliability : {"default"},
   durability : {"transient_local"}, liveliness : {"by_topic"}, depth : Size64,
   times : {Same(Time(0, 0)), [Same(Time(0, 3)) EXCEPT !["lease"] = Time(2, 5)]}]
  \cup
  [history : {"last"}, reliability : {"best_effort", "unknown"}, durability : {"volatile"},
   liveliness : {"default", "by_node"}, depth : {0, 2},
   times : {Same(Time(s, n)) : s \in Seconds, n \in Seconds}]
=============================================================================
