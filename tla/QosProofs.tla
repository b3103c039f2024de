------------------------------ MODULE QosProofs ------------------------------
(***************************************************************************)
(* Proofs about Qos, for any width of the integers and any profiles.       *)
(***************************************************************************)
EXTENDS Qos, TLAPS

\* A width has two equal halves.
LEMMA Halves == Half \in Nat /\ Half >= 2 /\ Wide = 2 * Half
  BY WidthAssumption DEF Half

\* A wide integer has room for every narrow one.
LEMMA SizeIsWide == Size \in Nat /\ Wide <= Size
  <1>1. Wide \in Nat /\ Wide >= 1
    BY WidthAssumption
  <1>2. Wide * Wide \in Nat /\ Wide * Wide >= Wide
    BY <1>1
  <1> QED
    BY <1>2 DEF Size

\* The low half of an integer, and of one that fits.
LEMMA LowHalves ==
  ASSUME NEW x \in Nat
  PROVE  x % Wide \in 0..(Wide - 1) /\ (x < Wide => x % Wide = x)
  BY WidthAssumption

\* The cast to int32_t: its range, and the numbers it keeps.
LEMMA NarrowRange ==
  ASSUME NEW x \in Nat
  PROVE  Narrow(x) \in Signed32 /\ (x < Half => Narrow(x) = x)
<1> DEFINE low == x % Wide
<1>1. low \in 0..(Wide - 1) /\ (x < Wide => low = x)
  BY LowHalves
<1>2. Narrow(x) = IF low >= Half THEN low - Wide ELSE low
  BY DEF Narrow
<1> HIDE DEF low
<1>3. low \in Int /\ 0 <= low /\ low < 2 * Half
  BY <1>1, Halves
<1>4. CASE low >= Half
  <2>1. Narrow(x) = low - 2 * Half
    BY <1>2, <1>4, Halves
  <2>2. Narrow(x) \in Signed32
    BY <2>1, <1>3, <1>4, Halves DEF Signed32
  <2>3. ~(x < Half)
    BY <1>1, <1>4, Halves
  <2> QED
    BY <2>2, <2>3
<1>5. CASE ~(low >= Half)
  BY <1>1, <1>2, <1>3, <1>5, Halves DEF Signed32
<1> QED
  BY <1>4, <1>5

\* An integer that fits and one that the cast turned negative are told apart.
LEMMA WidenKeeps ==
  ASSUME NEW x \in Signed32
  PROVE  Widen(x) \in Size64 /\ (x >= 0 => Widen(x) = x)
  BY Halves, SizeIsWide DEF Widen, Signed32, Size64

\* What util.cpp makes of a profile is the QoS of an entity.
LEMMA DurationType ==
  ASSUME NEW t \in RequestedTime, NEW d \in [sec : Signed32, nsec : 0..(Wide - 1)]
  PROVE  Duration(t, d) \in [sec : Signed32, nsec : 0..(Wide - 1)]
  <1>1. t.sec \in Nat /\ t.nsec \in Nat
    BY SizeIsWide DEF RequestedTime, Size64
  <1>2. Narrow(t.sec) \in Signed32 /\ t.nsec % Wide \in 0..(Wide - 1)
    BY <1>1, NarrowRange, LowHalves
  <1> QED
    BY <1>2 DEF Duration

\* The defaults of DDS are the QoS of an entity.
LEMMA DefaultType == DefaultQos \in EntityQos
  <1>1. Half - 1 \in Signed32 /\ Half - 1 \in 0..(Wide - 1) /\ 1 \in Signed32
    BY Halves DEF Signed32
  <1> QED
    BY <1>1 DEF DefaultQos, EntityQos, Infinite

\* The depth that a profile asks for, as DDS gets it.
LEMMA DepthType ==
  ASSUME NEW p \in Profile
  PROVE  Depth(p, DefaultQos.depth) \in Signed32 /\ Narrow(p.depth) \in Signed32
<1>1. p.depth \in Nat
  BY SizeIsWide DEF Profile, Size64
<1>2. DefaultQos.depth \in Signed32
  BY DefaultType DEF EntityQos
<1> QED
  BY <1>1, <1>2, NarrowRange DEF Depth

\* Every profile with known policies gives the QoS of an entity.
LEMMA EntityType ==
  ASSUME NEW p \in Profile, Known(p)
  PROVE  EntityQosOf(p, DefaultQos) \in EntityQos
<1> DEFINE q == EntityQosOf(p, DefaultQos)
<1>1. q.history \in {"last", "all"} /\ q.reliability \in {"best_effort", "reliable"}
      /\ q.durability \in {"volatile", "transient_local"}
      /\ q.liveliness \in {"automatic", "by_node", "by_topic"}
  BY DEF Known, Profile, EntityQosOf, Choice, Liveliness, DefaultQos
<1>2. q.depth \in Signed32
  BY DepthType DEF EntityQosOf
<1>3. q.times \in [Periods -> [sec : Signed32, nsec : 0..(Wide - 1)]]
  <2>1. \A k \in Periods : p.times[k] \in RequestedTime
                        /\ DefaultQos.times[k] \in [sec : Signed32, nsec : 0..(Wide - 1)]
    BY DefaultType DEF Profile, EntityQos
  <2>2. \A k \in Periods : Duration(p.times[k], DefaultQos.times[k])
                             \in [sec : Signed32, nsec : 0..(Wide - 1)]
    BY <2>1, DurationType
  <2> QED
    BY <2>2 DEF EntityQosOf
<1> QED
  BY <1>1, <1>2, <1>3 DEF EntityQosOf, EntityQos

\* The actual QoS of an entity is a profile that can be requested.
LEMMA ActualType ==
  ASSUME NEW q \in EntityQos
  PROVE  ActualQos(q) \in Profile
<1>1. Widen(q.depth) \in Size64
  BY WidenKeeps DEF EntityQos
<1>2. ASSUME NEW k \in Periods
      PROVE  WidenTime(q.times[k]) \in RequestedTime
  <2>1. q.times[k].sec \in Signed32 /\ q.times[k].nsec \in 0..(Wide - 1)
    BY DEF EntityQos
  <2>2. Widen(q.times[k].sec) \in Size64 /\ q.times[k].nsec \in Size64
    BY <2>1, WidenKeeps, SizeIsWide, Halves DEF Size64
  <2> QED
    BY <2>2 DEF WidenTime, RequestedTime
<1> QED
  BY <1>1, <1>2 DEF ActualQos, EntityQos, Profile

---------------------------------------------------------------------------
(* The invariant: a publisher that was created has the QoS of its profile. *)

Created ==
  outcome = "created" =>
    /\ Outcome(requested, DefaultQos) = "created"
    /\ entity = EntityQosOf(requested, DefaultQos)

\* A profile that is not refused has known policies.
LEMMA CreatedIsKnown ==
  ASSUME NEW p, Outcome(p, DefaultQos) = "created"
  PROVE  Known(p) /\ ~(Asserts /\ Depth(p, DefaultQos.depth) < 0)
         /\ ~DepthRefused(p, Choice(p.history, DefaultQos.history), Depth(p, DefaultQos.depth))
  BY DEF Outcome

\* The outcome of a creation is one of three.
LEMMA OutcomeType ==
  ASSUME NEW p
  PROVE  Outcome(p, DefaultQos) \in {"created", "error", "aborted"}
  BY DEF Outcome

\* The QoS keeps its type, whatever is requested and copied.
THEOREM QosTypeCorrect == Spec => [](TypeOK /\ Created)
<1>1. Init => TypeOK /\ Created
  BY DefaultType, ProfilesAssumption DEF Init, TypeOK, Created
<1>2. ASSUME TypeOK, Created, Next
      PROVE  TypeOK' /\ Created'
  <2>1. CASE CreatePublisher
    BY <1>2, <2>1, EntityType, CreatedIsKnown, OutcomeType DEF CreatePublisher, TypeOK, Created
  <2>2. CASE CopyPublisher
    BY <1>2, <2>2, ActualType, DefaultType DEF CopyPublisher, TypeOK, Created
  <2> QED
    BY <1>2, <2>1, <2>2 DEF Next
<1>3. TypeOK /\ Created /\ UNCHANGED vars => TypeOK' /\ Created'
  BY DEF TypeOK, Created, vars
<1> QED
  BY <1>1, <1>2, <1>3, PTL DEF Spec

\* What the checks of util.cpp:99-111 leave: a depth that was not changed.
LEMMA CheckedDepth ==
  ASSUME NEW p \in Profile, Asserts, Outcome(p, DefaultQos) = "created",
         EntityQosOf(p, DefaultQos).history = "last", p.depth # 0
  PROVE  EntityQosOf(p, DefaultQos).depth = p.depth
<1> DEFINE d == Narrow(p.depth)
<1>1. p.depth \in Nat /\ d \in Signed32 /\ (p.depth < Half => d = p.depth)
  BY SizeIsWide, NarrowRange DEF Profile, Size64
<1>2. Depth(p, DefaultQos.depth) = d
  BY DEF Depth
<1>3. Choice(p.history, DefaultQos.history) = "last"
  BY DEF EntityQosOf
<1>4. d >= 0 /\ ~(Widen(d) < p.depth /\ p.depth > Half - 1)
  BY <1>1, <1>2, <1>3, CreatedIsKnown, Halves DEF DepthRefused, Signed32
<1>5. Widen(d) = d
  BY <1>1, <1>4, WidenKeeps
<1>6. EntityQosOf(p, DefaultQos).depth = d
  BY <1>2 DEF EntityQosOf
<1>7. d = p.depth
  BY <1>1, <1>4, <1>5, Halves DEF Signed32
<1> QED
  BY <1>6, <1>7

\* No depth is silently changed by the cast before the check, whatever the width
\* of the integers, in a build with assertions (util.cpp:95-111).
THEOREM DepthKept == Spec => []DepthIsKept
<1>1. TypeOK /\ Created => DepthIsKept
  BY CheckedDepth DEF TypeOK, Created, DepthIsKept
<1> QED
  BY <1>1, QosTypeCorrect, PTL

\* A time that fits goes to DDS and back unchanged.
LEMMA TimeKept ==
  ASSUME NEW t \in RequestedTime, NEW default, Fits(t)
  PROVE  WidenTime(Duration(t, default)) = t
<1>1. t.sec \in Nat /\ t.nsec \in Nat /\ t.sec < Half /\ t.nsec < Wide
  BY SizeIsWide DEF RequestedTime, Size64, Fits
<1>2. Narrow(t.sec) = t.sec /\ t.nsec % Wide = t.nsec
  BY <1>1, NarrowRange, LowHalves
<1>3. Widen(t.sec) = t.sec
  BY <1>1 DEF Widen
<1> QED
  BY <1>2, <1>3 DEF Duration, WidenTime, Fits, RequestedTime

\* What a profile says and a narrow integer holds is reported, whatever the width
\* (util.cpp:94-136, rmw_publisher_get_actual_qos.cpp:68-104).
THEOREM RequestReported == Spec => []RequestIsReported
<1>1. ASSUME TypeOK, Created, outcome = "created"
      PROVE  RequestIsReported
  <2> DEFINE q == EntityQosOf(requested, DefaultQos)
  <2>1. requested \in Profile /\ entity = q /\ Known(requested)
    BY <1>1, CreatedIsKnown DEF TypeOK, Created
  <2>2. requested.history \in {"default", ActualQos(entity).history}
    BY <2>1 DEF EntityQosOf, ActualQos, Choice
  <2>3. ASSUME requested.depth \in 1..(Half - 1)
        PROVE  ActualQos(entity).depth = requested.depth
    <3>1. Narrow(requested.depth) = requested.depth /\ Widen(requested.depth) = requested.depth
      BY <2>3, Halves, NarrowRange DEF Widen
    <3>2. q.depth = requested.depth
      BY <2>3, <3>1, Halves DEF EntityQosOf, Depth
    <3> QED
      BY <2>1, <3>1, <3>2 DEF ActualQos, EntityQosOf
  <2>4. ASSUME NEW k \in Periods, Fits(requested.times[k])
        PROVE  ActualQos(entity).times[k] = requested.times[k]
    <3>1. requested.times[k] \in RequestedTime
      BY <2>1 DEF Profile
    <3>2. ActualQos(entity).times[k] = WidenTime(Duration(requested.times[k], DefaultQos.times[k]))
      BY <2>1 DEF ActualQos, EntityQosOf
    <3> QED
      BY <3>1, <3>2, <2>4, TimeKept
  <2> QED
    BY <2>2, <2>3, <2>4 DEF RequestIsReported
<1>2. TypeOK /\ Created => RequestIsReported
  BY <1>1 DEF RequestIsReported
<1> QED
  BY <1>2, QosTypeCorrect, PTL

---------------------------------------------------------------------------
(* The copy of a publisher.                                                *)

\* A multiple of a number that is smaller than it is zero.
LEMMA SmallMultiple ==
  ASSUME NEW b \in Nat, NEW k \in Int, b > 0, -b < b * k, b * k < b
  PROVE  k = 0
<1>1. CASE k >= 1
  <2>1. b * (k - 1) >= 0 /\ b * (k - 1) = b * k - b
    BY <1>1
  <2> QED
    BY <2>1
<1>2. CASE k <= -1
  <2>1. b * (-k - 1) >= 0 /\ b * (-k - 1) = -(b * k) - b
    BY <1>2
  <2> QED
    BY <2>1
<1> QED
  BY <1>1, <1>2

\* What is left of a number when a multiple of the width is added to it.
LEMMA LowOfSum ==
  ASSUME NEW y \in 0..(Wide - 1), NEW m \in Nat
  PROVE  (y + Wide * m) % Wide = y
<1> DEFINE a == y + Wide * m
           k == (a \div Wide) - m
<1>1. Wide \in Nat /\ Wide > 0
  BY WidthAssumption
<1>2. Wide * m \in Nat
  BY <1>1
<1>3. a \in Nat
  BY <1>1, <1>2
<1>4. a \div Wide \in Int /\ a % Wide \in 0..(Wide - 1) /\ a = Wide * (a \div Wide) + (a % Wide)
  <2> HIDE DEF a
  <2> QED
    BY <1>1, <1>3
<1>5. k \in Int /\ Wide * k = Wide * (a \div Wide) - Wide * m
  <2>1. a \div Wide \in Int
    BY <1>4
  <2> HIDE DEF a
  <2> QED
    BY <1>1, <2>1
<1>6. Wide * (a \div Wide) \in Int
  BY <1>1, <1>4
<1>7. Wide * k = y - (a % Wide)
  BY <1>2, <1>4, <1>5, <1>6
<1>8. k = 0
  <2>1. -Wide < Wide * k /\ Wide * k < Wide
    BY <1>1, <1>4, <1>7
  <2> HIDE DEF k
  <2> QED
    BY <1>1, <1>5, <2>1, SmallMultiple
<1>9. Wide * k = 0
  BY <1>1, <1>8
<1> QED
  BY <1>4, <1>7, <1>9

\* The way through the wide integers gives a narrow one back.
LEMMA NarrowWidens ==
  ASSUME NEW x \in Signed32
  PROVE  Narrow(Widen(x)) = x /\ (Widen(x) = 0 => x = 0)
<1>1. x \in Int /\ -Half <= x /\ x < Half
  BY Halves DEF Signed32
<1>2. CASE x >= 0
  BY <1>1, <1>2, NarrowRange DEF Widen
<1>3. CASE x < 0
  <2>1. Wide \in Nat /\ Wide >= 1 /\ x + Wide \in 0..(Wide - 1)
    BY <1>1, <1>3, Halves
  <2>2. Wide * Wide = Wide + Wide * (Wide - 1)
    BY <2>1
  <2>3. Wide * (Wide - 1) \in Nat
    BY <2>1
  <2>4. Widen(x) = (x + Wide) + Wide * (Wide - 1)
    BY <1>1, <1>3, <2>1, <2>2, <2>3 DEF Widen, Size
  <2>5. Widen(x) % Wide = x + Wide
    BY <2>1, <2>4, LowOfSum
  <2>6. Narrow(Widen(x)) = (x + Wide) - Wide
    BY <1>1, <2>5, Halves DEF Narrow
  <2>7. Widen(x) # 0
    BY <1>1, <2>1, <2>3, <2>4, Halves
  <2> QED
    BY <1>1, <2>1, <2>6, <2>7
<1> QED
  BY <1>1, <1>2, <1>3

\* A time that is not zero comes back as the time it was.
LEMMA TimeComesBack ==
  ASSUME NEW t \in [sec : Signed32, nsec : 0..(Wide - 1)], NEW default, ~IsTimeDefault(t)
  PROVE  Duration(WidenTime(t), default) = t
<1>1. Narrow(Widen(t.sec)) = t.sec /\ (Widen(t.sec) = 0 => t.sec = 0)
  BY NarrowWidens
<1>2. t.nsec % Wide = t.nsec
  BY Halves, LowHalves
<1>3. ~IsTimeDefault(WidenTime(t))
  BY <1>1 DEF IsTimeDefault, WidenTime
<1> QED
  BY <1>1, <1>2, <1>3 DEF Duration, WidenTime

\* What the actual QoS of a publisher asks for is this publisher.
LEMMA CopyOf ==
  ASSUME NEW q \in EntityQos, NothingZero(q), Asserts => q.depth >= 0
  PROVE  /\ Outcome(ActualQos(q), DefaultQos) = "created"
         /\ EntityQosOf(ActualQos(q), DefaultQos) = q
<1> DEFINE p == ActualQos(q)
           c == EntityQosOf(p, DefaultQos)
<1>1. /\ q.depth \in Signed32 /\ q.history \in {"last", "all"}
      /\ q.reliability \in {"best_effort", "reliable"}
      /\ q.durability \in {"volatile", "transient_local"}
      /\ q.liveliness \in {"automatic", "by_node", "by_topic"}
      /\ q.times \in [Periods -> [sec : Signed32, nsec : 0..(Wide - 1)]]
  BY DEF EntityQos
<1>2. /\ p.history = q.history /\ p.reliability = q.reliability /\ p.durability = q.durability
      /\ p.liveliness = q.liveliness /\ p.depth = Widen(q.depth)
      /\ \A k \in Periods : p.times[k] = WidenTime(q.times[k])
  BY DEF ActualQos, EntityQos
<1>3. Known(p)
  BY <1>1, <1>2 DEF Known
<1>4. Depth(p, DefaultQos.depth) = q.depth /\ Narrow(p.depth) = q.depth
  BY <1>1, <1>2, NarrowWidens DEF Depth, NothingZero
<1>5. ~(Asserts /\ q.depth < 0)
  BY <1>1, Halves DEF Signed32
<1>6. ~(Widen(q.depth) < p.depth)
  <2>1. Widen(q.depth) \in Int
    BY <1>1, WidenKeeps, SizeIsWide DEF Size64
  <2> QED
    BY <1>2, <2>1
<1>7. Outcome(p, DefaultQos) = "created"
  <2>1. ~DepthRefused(p, Choice(p.history, DefaultQos.history), q.depth)
    BY <1>6 DEF DepthRefused
  <2> QED
    BY <1>3, <1>4, <1>5, <2>1 DEF Outcome
<1>8. \A k \in Periods : Duration(p.times[k], DefaultQos.times[k]) = q.times[k]
  BY <1>1, <1>2, TimeComesBack DEF NothingZero
<1>9. c.times = q.times
  <2>1. c.times = [k \in Periods |-> Duration(p.times[k], DefaultQos.times[k])]
    BY DEF EntityQosOf
  <2> HIDE DEF c, p
  <2>2. c.times = [k \in Periods |-> q.times[k]]
    BY <2>1, <1>8
  <2> QED
    BY <1>1, <2>2
<1>10. c.history = q.history /\ c.reliability = q.reliability /\ c.durability = q.durability
       /\ c.liveliness = q.liveliness /\ c.depth = q.depth
  BY <1>1, <1>2, <1>4, <1>6 DEF EntityQosOf, Choice, Liveliness
<1>11. c \in EntityQos
  BY <1>3, ActualType, EntityType
<1>12. c = q
  <2> HIDE DEF c
  <2> QED
    BY <1>9, <1>10, <1>11 DEF EntityQos
<1> QED
  BY <1>7, <1>12

\* A copy is on its way with the QoS that was reported, or is as the original; and
\* no original has a depth that the assertion stops.
Copied ==
  \A q \in original :
    /\ Asserts => q.depth >= 0
    /\ NothingZero(q) =>
         \/ outcome = "none" /\ requested = ActualQos(q)
         \/ outcome = "created" /\ entity = q

\* A publisher that was created has a depth that the assertion let pass.
LEMMA CreatedDepth ==
  ASSUME NEW p \in Profile, Asserts, Outcome(p, DefaultQos) = "created"
  PROVE  EntityQosOf(p, DefaultQos).depth >= 0
<1>1. Depth(p, DefaultQos.depth) \in Signed32 /\ ~(Depth(p, DefaultQos.depth) < 0)
  BY CreatedIsKnown, DepthType
<1>2. CASE p.depth = 0
  <2>1. Depth(p, DefaultQos.depth) = 1
    BY <1>2 DEF Depth, DefaultQos
  <2>2. Widen(1) = 1
    BY DEF Widen
  <2> QED
    BY <1>2, <2>1, <2>2 DEF EntityQosOf
<1>3. CASE p.depth # 0
  <2>1. Depth(p, DefaultQos.depth) = Narrow(p.depth)
    BY <1>3 DEF Depth
  <2>2. EntityQosOf(p, DefaultQos).depth = Depth(p, DefaultQos.depth)
    BY <2>1 DEF EntityQosOf
  <2> QED
    BY <1>1, <2>2, Halves DEF Signed32
<1> QED
  BY <1>2, <1>3

\* A publisher that is created with the actual QoS of another one has the same QoS,
\* whatever was truncated for the first one, unless it was truncated to zero
\* (util.cpp:94-136, rmw_publisher_get_actual_qos.cpp:68-104).
THEOREM CopiesAreFaithful == Spec => []CopyIsFaithful
<1>1. Init => Copied
  BY DEF Init, Copied
<1>2. ASSUME TypeOK, Created, Copied, Next
      PROVE  Copied'
  <2>1. CASE CreatePublisher
    <3> SUFFICES ASSUME NEW q \in original
                 PROVE  /\ Asserts => q.depth >= 0
                        /\ NothingZero(q) => outcome' = "created" /\ entity' = q
      BY <2>1 DEF CreatePublisher, Copied
    <3>1. q \in EntityQos /\ (Asserts => q.depth >= 0)
      BY <1>2 DEF TypeOK, Copied
    <3>2. NothingZero(q) => requested = ActualQos(q)
      BY <1>2, <2>1 DEF CreatePublisher, Copied
    <3> QED
      BY <2>1, <3>1, <3>2, CopyOf DEF CreatePublisher
  <2>2. CASE CopyPublisher
    <3>1. Asserts => entity.depth >= 0
      BY <1>2, <2>2, CreatedDepth DEF CopyPublisher, TypeOK, Created
    <3> QED
      BY <2>2, <3>1 DEF CopyPublisher, Copied
  <2> QED
    BY <1>2, <2>1, <2>2 DEF Next
<1>3. Copied /\ UNCHANGED vars => Copied'
  BY DEF Copied, vars
<1>4. Copied => CopyIsFaithful
  BY DEF Copied, CopyIsFaithful
<1> QED
  BY <1>1, <1>2, <1>3, <1>4, QosTypeCorrect, PTL DEF Spec

===========================================================================
