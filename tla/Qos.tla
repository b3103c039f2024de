--------------------------------- MODULE Qos ---------------------------------
(***************************************************************************)
(* The mapping of QoS profiles (util.cpp) and the way back                 *)
(* (rmw_publisher_get_actual_qos.cpp).  A profile holds 64-bit unsigned    *)
(* numbers, DDS keeps most of them as 32-bit signed ones.  A tool asks a   *)
(* publisher for its actual QoS and creates another publisher with it.     *)
(***************************************************************************)
EXTENDS Integers

CONSTANTS
  Wide,       \* number of values of the narrow integers (2^32)
  Asserts,    \* assertions are compiled in
  Profiles    \* the profiles that are requested

Half == Wide \div 2
Size == Wide * Wide     \* number of values of the wide integers (2^64)

\* Wide enough for the default depth of 1.
ASSUME WidthAssumption == Wide \in Nat /\ Wide >= 4 /\ Wide % 2 = 0
ASSUME AssertsAssumption == Asserts \in BOOLEAN

Signed32 == (-Half)..(Half - 1)
Size64 == 0..(Size - 1)

Periods == {"deadline", "lifespan", "lease"}
RequestedTime == [sec : Size64, nsec : Size64]
Profile == [history : {"last", "all", "default", "unknown"},
            reliability : {"best_effort", "reliable", "default", "unknown"},
            durability : {"volatile", "transient_local", "default", "unknown"},
            liveliness : {"automatic", "by_node", "by_topic", "default"},
            depth : Size64,
            times : [Periods -> RequestedTime]]

ASSUME ProfilesAssumption == Profiles \subseteq Profile

EntityQos == [history : {"last", "all"}, reliability : {"best_effort", "reliable"},
              durability : {"volatile", "transient_local"},
              liveliness : {"automatic", "by_node", "by_topic"},
              depth : Signed32,
              times : [Periods -> [sec : Signed32, nsec : 0..(Wide - 1)]]]

\* The QoS of a new data writer: keep the last sample, no deadline.
Infinite == [sec |-> Half - 1, nsec |-> Half - 1]
DefaultQos == [history |-> "last", reliability |-> "reliable", durability |-> "volatile",
               liveliness |-> "automatic", depth |-> 1, times |-> [p \in Periods |-> Infinite]]

---------------------------------------------------------------------------
(* Conversions between the widths.                                         *)

\* Faulty variant: the cast keeps the low half as it is.
LowHalf(x) == x % Wide

\* static_cast<int32_t>
Narrow(x) == LET low == x % Wide IN IF low >= Half THEN low - Wide ELSE low

\* static_cast<size_t>, and the conversion to uint64_t: the sign is extended.
Widen(x) == IF x < 0 THEN x + Size ELSE x

---------------------------------------------------------------------------
(* set_entity_qos_from_profile.                                            *)

Known(p) == "unknown" \notin {p.history, p.reliability, p.durability}

Choice(requested, default) == IF requested = "default" THEN default ELSE requested

\* An unknown liveliness, too, is taken as automatic.
Liveliness(p) == Choice(p.liveliness, "automatic")

IsTimeDefault(t) == t.sec = 0 /\ t.nsec = 0

\* Faulty variant: the nanoseconds are not set.
SecondsOnly(t, default) ==
  IF IsTimeDefault(t) THEN default ELSE [sec |-> Narrow(t.sec), nsec |-> 0]

Duration(t, default) ==
  IF IsTimeDefault(t) THEN default ELSE [sec |-> Narrow(t.sec), nsec |-> t.nsec % Wide]

Depth(p, default) == IF p.depth = 0 THEN default ELSE Narrow(p.depth)

\* Faulty variant: a depth that does not fit is not refused.
DepthUnchecked(p, history, depth) == FALSE

\* The depth is checked after the cast.
DepthRefused(p, history, depth) ==
  history = "last" /\ Widen(depth) < p.depth /\ p.depth > Half - 1

EntityQosOf(p, default) ==
  LET history == Choice(p.history, default.history)
      depth == Depth(p, default.depth)
  IN  [history |-> history,
       reliability |-> Choice(p.reliability, default.reliability),
       durability |-> Choice(p.durability, default.durability),
       liveliness |-> Liveliness(p),
       depth |-> IF history = "last" /\ Widen(depth) < p.depth THEN Narrow(p.depth) ELSE depth,
       times |-> [k \in Periods |-> Duration(p.times[k], default.times[k])]]

\* The assertion of util.cpp:99, then the check of the depth.
Outcome(p, default) ==
  LET depth == Depth(p, default.depth) IN
  CASE ~Known(p) -> "error"
    [] Known(p) /\ Asserts /\ depth < 0 -> "aborted"
    [] Known(p) /\ ~(Asserts /\ depth < 0) ->
         IF DepthRefused(p, Choice(p.history, default.history), depth) THEN "error" ELSE "created"

---------------------------------------------------------------------------
(* rmw_publisher_get_actual_qos.                                           *)

WidenTime(t) == [sec |-> Widen(t.sec), nsec |-> t.nsec]

\* Faulty variant: the lease duration of the liveliness is not reported.
ReportNoLease(q) ==
  [q EXCEPT !.depth = Widen(@),
            !.times = [k \in Periods |->
               IF k = "lease" THEN [sec |-> 0, nsec |-> 0] ELSE WidenTime(@[k])]]

ActualQos(q) ==
  [q EXCEPT !.depth = Widen(@), !.times = [k \in Periods |-> WidenTime(@[k])]]

---------------------------------------------------------------------------
VARIABLES
  requested,   \* the profile of the publisher that is created
  entity,      \* the QoS of its data writer
  outcome,     \* of its creation: none yet, created, error or aborted
  original     \* history: the QoS of the first publisher, if this is a copy

vars == <<requested, entity, outcome, original>>

Init ==
  /\ requested \in Profiles
  /\ entity = DefaultQos
  /\ outcome = "none"
  /\ original = {}

CreatePublisher ==
  /\ outcome = "none"
  /\ outcome' = Outcome(requested, DefaultQos)
  /\ entity' = IF outcome' = "created" THEN EntityQosOf(requested, DefaultQos) ELSE entity
  /\ UNCHANGED <<requested, original>>

\* A tool creates a publisher like the one that it has found.
CopyPublisher ==
  /\ outcome = "created"
  /\ original = {}
  /\ original' = {entity}
  /\ requested' = ActualQos(entity)
  /\ entity' = DefaultQos
  /\ outcome' = "none"

Next == CreatePublisher \/ CopyPublisher

Spec == Init /\ [][Next]_vars

---------------------------------------------------------------------------
(* Properties.                                                             *)

TypeOK ==
  /\ requested \in Profile
  /\ entity \in EntityQos
  /\ outcome \in {"none", "created", "error", "aborted"}
  /\ original \subseteq EntityQos

\* Where assertions are compiled in, a publisher that keeps the last samples
\* keeps as many as were requested, or does not come into being: no depth is
\* silently changed by the cast before the check (util.cpp:95, 102).
DepthIsKept ==
  (Asserts /\ outcome = "created" /\ entity.history = "last" /\ requested.depth # 0) =>
    entity.depth = requested.depth

\* The history that a profile asks for expressly, and the depth and the times that a
\* narrow integer can hold, are what the actual QoS says of the publisher.
Fits(t) == t.sec < Half /\ t.nsec < Wide /\ ~IsTimeDefault(t)

RequestIsReported ==
  outcome = "created" =>
    /\ requested.history \in {"default", ActualQos(entity).history}
    /\ requested.depth \in 1..(Half - 1) => ActualQos(entity).depth = requested.depth
    /\ \A k \in Periods :
         Fits(requested.times[k]) => ActualQos(entity).times[k] = requested.times[k]

\* A copy made from the actual QoS of a publisher comes into being with the same
\* QoS, whatever was truncated when the first one was made, unless it was truncated
\* to zero: zero asks for the default.
NothingZero(q) == q.depth # 0 /\ \A k \in Periods : ~IsTimeDefault(q.times[k])

CopyIsFaithful ==
  \A q \in original : NothingZero(q) =>
    outcome \in {"none", "created"} /\ (outcome = "created" => entity = q)

===========================================================================
