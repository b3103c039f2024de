--------------------------- MODULE WaitSetProofs ---------------------------
(***************************************************************************)
(* Proofs about rmw_wait (WaitSet), for every set of wait sets, conditions *)
(* and requests.                                                           *)
(***************************************************************************)
EXTENDS WaitSet, TLAPS

\* A call's arguments name handles of the right kinds.
LEMMA RequestFacts ==
  ASSUME NEW r \in Request
  PROVE  /\ ReadsOf(r) \subseteq Reads
         /\ StatusesOf(r) \subseteq Statuses
         /\ r.guards \subseteq Guards
         /\ r.events \subseteq Events
         /\ r.subs \subseteq ReadsOf(r)
         /\ r.services \subseteq ReadsOf(r)
         /\ r.clients \subseteq ReadsOf(r)
         /\ Handles(r) \subseteq Conditions \cup Events
<1>1. r.subs \subseteq Reads /\ r.services \subseteq Reads /\ r.clients \subseteq Reads
      /\ r.guards \subseteq Guards /\ r.events \subseteq Events
  BY DEF Request
<1>2. StatusesOf(r) \subseteq Statuses
  BY <1>1, EventAssumption DEF StatusesOf
<1>3. QED
  BY <1>1, <1>2 DEF ReadsOf, Handles, Conditions

\* Between two calls the arguments are those of a call without conditions.
LEMMA EmptyRequestIsRequest == EmptyRequest \in Request
BY DEF EmptyRequest, Request

\* What the detaching loops of wait set w do: they detach all of S but what DDS
\* refuses, which needs failures, and touch no other wait set.
LEMMA DetachFacts ==
  ASSUME TypeOK, NEW w \in WaitSets, NEW S \in SUBSET Conditions, Detach(w, S)
  PROVE  /\ attached' \in [WaitSets -> SUBSET Conditions]
         /\ refused' \in [WaitSets -> SUBSET Conditions]
         /\ failures' \in 0..MaxFailures
         /\ \A v \in WaitSets : v # w =>
              attached'[v] = attached[v] /\ refused'[v] = refused[v]
         /\ attached'[w] \subseteq attached[w]
         /\ attached'[w] \cap S \subseteq refused'[w]
         /\ refused[w] \subseteq refused'[w]
         /\ MaxFailures = 0 => attached'[w] = attached[w] \ S
<1>1. PICK stuck \in SUBSET S :
        /\ IF stuck = {} THEN UNCHANGED failures
           ELSE failures < MaxFailures /\ failures' = failures + 1
        /\ attached' = [attached EXCEPT ![w] = @ \ (S \ stuck)]
        /\ refused' = [refused EXCEPT ![w] = @ \cup stuck]
  BY DEF Detach
<1>2. /\ attached' \in [WaitSets -> SUBSET Conditions]
      /\ refused' \in [WaitSets -> SUBSET Conditions]
      /\ attached'[w] = attached[w] \ (S \ stuck)
      /\ refused'[w] = refused[w] \cup stuck
      /\ \A v \in WaitSets : v # w =>
           attached'[v] = attached[v] /\ refused'[v] = refused[v]
  BY <1>1 DEF TypeOK
<1>3. failures' \in 0..MaxFailures
  BY <1>1, BoundAssumption DEF TypeOK
<1>4. MaxFailures = 0 => stuck = {}
  BY <1>1, BoundAssumption DEF TypeOK
<1> QED
  BY <1>2, <1>3, <1>4

\* The state has the right shape: among others, only conditions are ever
\* attached to a wait set and masks only hold status kinds.
THEOREM TypeCorrect == Spec => []TypeOK
<1>1. Init => TypeOK
  BY EmptyRequestIsRequest, BoundAssumption DEF Init, TypeOK, Phases
<1>2. TypeOK /\ [Next]_vars => TypeOK'
  <2> SUFFICES ASSUME TypeOK, [Next]_vars PROVE TypeOK'
    OBVIOUS
  <2> USE DEF TypeOK
  <2>1. ASSUME NEW w \in WaitSets, NEW r \in Requests[w], CallWait(w, r) PROVE TypeOK'
    <3>1. r \in Request
      BY RequestAssumption
    <3>2. QED
      BY <2>1, <3>1 DEF CallWait, environment, Phases
  <2>2. ASSUME NEW w \in WaitSets, Attaching(w) PROVE TypeOK'
    <3>1. request[w] \in Request
      OBVIOUS
    <3> USE <3>1, RequestFacts
    <3>2. CASE AttachSubscriptions(w)
      BY <3>2 DEF AttachSubscriptions, environment, Phases, Conditions
    <3>3. CASE EventsMissing(w)
      BY <3>3, EmptyRequestIsRequest DEF EventsMissing, Leave, environment, Phases
    <3>4. ASSUME NEW x \in Statuses, SetEnabledStatuses(w, x) PROVE TypeOK'
      <4>1. MaskFor(w, x) \subseteq Kinds
        BY EventAssumption DEF MaskFor
      <4>2. QED
        BY <3>4, <4>1 DEF SetEnabledStatuses, environment
    <3>5. CASE AttachRemaining(w)
      BY <3>5 DEF AttachRemaining, environment, Phases, Conditions
    <3>6. CASE AttachFails(w)
      <4>1. \A i \in DOMAIN AttachGroups(w) : AttachGroups(w)[i] \subseteq Conditions
        BY DEF AttachGroups, Conditions
      <4>2. attached' \in [WaitSets -> SUBSET Conditions]
        <5>1. PICK i \in DOMAIN AttachGroups(w) : \E done \in SUBSET AttachGroups(w)[i] :
                attached' = [attached EXCEPT ![w] =
                  @ \cup done \cup UNION {AttachGroups(w)[j] : j \in 1..(i-1)}]
          BY <3>6 DEF AttachFails
        <5>2. \A j \in 1..(i-1) : j \in DOMAIN AttachGroups(w)
          BY DEF AttachGroups
        <5>3. UNION {AttachGroups(w)[j] : j \in 1..(i-1)} \subseteq Conditions
          BY <4>1, <5>2
        <5>4. AttachGroups(w)[i] \subseteq Conditions
          BY <4>1
        <5>5. QED
          BY <5>1, <5>3, <5>4
      <4>3. failures' \in 0..MaxFailures
        BY <3>6, BoundAssumption DEF AttachFails
      <4>4. Leave(w)
        BY <3>6 DEF AttachFails
      <4>5. QED
        BY <4>2, <4>3, <4>4, EmptyRequestIsRequest DEF Leave, environment, Phases
    <3>7. QED
      BY <2>2, <3>2, <3>3, <3>4, <3>5, <3>6 DEF Attaching
  <2>3. ASSUME NEW w \in WaitSets, Waiting(w) PROVE TypeOK'
    <3>1. request[w] \in Request /\ Handles(request[w]) \subseteq Conditions \cup Events
      BY RequestFacts
    <3>2. CASE WaitReturns(w)
      BY <3>1, <3>2 DEF WaitReturns, LeaveWait, TriggeredIn, environment, Phases
    <3>3. CASE WaitTimesOut(w)
      BY <3>1, <3>3 DEF WaitTimesOut, LeaveWait, environment, Phases
    <3>4. CASE WaitFails(w)
      BY <3>4, EmptyRequestIsRequest, BoundAssumption
         DEF WaitFails, Leave, environment, Phases
    <3>5. QED
      BY <2>3, <3>2, <3>3, <3>4 DEF Waiting
  <2>4. ASSUME NEW w \in WaitSets, Examining(w) PROVE TypeOK'
    <3>1. request[w] \in Request
      OBVIOUS
    <3> USE <3>1, RequestFacts
    <3>2. CASE HandleSubscriptions(w)
      <4>1. request[w].subs \cap pending[w] \in SUBSET Conditions
        BY DEF Conditions
      <4> QED
        BY <3>2, <4>1, DetachFacts DEF HandleSubscriptions, environment, Conditions
    <3>3. ASSUME NEW e \in Events, HandleEvent(w, e) PROVE TypeOK'
      BY <3>3 DEF HandleEvent, environment
    <3>4. ASSUME NEW g \in Guards, HandleGuard(w, g) PROVE TypeOK'
      <4>1. trigger' \in [Guards -> BOOLEAN]
        BY <3>4 DEF HandleGuard
      <4>2. result' \in [WaitSets -> SUBSET (Conditions \cup Events)]
        <5>1. result' = result \/ result' = [result EXCEPT ![w] = @ \cup {g}]
          BY <3>4 DEF HandleGuard
        <5> QED
          BY <5>1 DEF Conditions
      <4>3. {g} \in SUBSET Conditions /\ Detach(w, {g})
        BY <3>4 DEF Conditions, HandleGuard
      <4>4. /\ attached' \in [WaitSets -> SUBSET Conditions]
            /\ refused' \in [WaitSets -> SUBSET Conditions]
            /\ failures' \in 0..MaxFailures
        BY <4>3, DetachFacts
      <4>5. QED
        BY <3>4, <4>1, <4>2, <4>4 DEF HandleGuard, environment
    <3>5. CASE HandleServicesAndClients(w)
      <4> DEFINE rest == request[w].services \cup request[w].clients
      <4>1. rest \in SUBSET Conditions /\ Detach(w, rest)
        BY <3>5 DEF Conditions, HandleServicesAndClients
      <4>2. /\ attached' \in [WaitSets -> SUBSET Conditions]
            /\ refused' \in [WaitSets -> SUBSET Conditions]
            /\ failures' \in 0..MaxFailures
        BY <4>1, DetachFacts
      <4> QED
        BY <3>5, <4>2 DEF HandleServicesAndClients, environment, Conditions, Phases
    <3>6. QED
      BY <2>4, <3>2, <3>3, <3>4, <3>5 DEF Examining
  <2>5. ASSUME NEW w \in WaitSets, Dispatching(w) PROVE TypeOK'
    <3>1. ASSUME NEW r \in Reads, TakeSample(w, r) PROVE TypeOK'
      BY <3>1, BoundAssumption DEF TakeSample
    <3>2. ASSUME NEW e \in Events, TakeEvent(w, e) PROVE TypeOK'
      BY <3>2 DEF TakeEvent, environment
    <3>3. ASSUME NEW g \in Guards, SeeWork(w, g) PROVE TypeOK'
      BY <3>3 DEF SeeWork
    <3>4. CASE Finish(w)
      BY <3>4, EmptyRequestIsRequest DEF Finish, Leave, environment, Phases
    <3>5. QED
      BY <2>5, <3>1, <3>2, <3>3, <3>4 DEF Dispatching
  <2>6. ASSUME Environment PROVE TypeOK'
    <3>1. ASSUME NEW r \in Reads, DataArrives(r) PROVE TypeOK'
      BY <3>1, BoundAssumption DEF DataArrives, waiters
    <3>2. ASSUME NEW g \in Guards, PostWork(g) PROVE TypeOK'
      BY <3>2 DEF PostWork, waiters
    <3>3. ASSUME NEW g \in Guards, TriggerGuardCondition(g) PROVE TypeOK'
      BY <3>3 DEF TriggerGuardCondition, waiters
    <3>4. ASSUME NEW x \in Statuses, NEW k \in Kinds, StatusChanges(x, k) PROVE TypeOK'
      BY <3>4 DEF StatusChanges, waiters
    <3>5. QED
      BY <2>6, <3>1, <3>2, <3>3, <3>4 DEF Environment
  <2>7. CASE UNCHANGED vars
    BY <2>7 DEF vars
  <2>8. QED
    BY <2>1, <2>2, <2>3, <2>4, <2>5, <2>6, <2>7 DEF Next, Waiter
<1>3. QED
  BY <1>1, <1>2, PTL DEF Spec

---------------------------------------------------------------------------
\* No wake-up is lost: what a guard condition announces stays announced until
\* a caller has looked, although rmw_wait clears the trigger value some time
\* after the DDS wait saw it.
THEOREM NoWorkIsLost == Spec => []NoLostWork
<1>1. Init => NoLostWork
  BY DEF Init, NoLostWork
<1>2. TypeOK /\ NoLostWork /\ [Next]_vars => NoLostWork'
  <2> SUFFICES ASSUME TypeOK, NoLostWork, [Next]_vars,
                      NEW g \in Guards, work'[g]
               PROVE  posting'[g] \/ trigger'[g] \/ \E w \in WaitSets : g \in result'[w]
    BY DEF NoLostWork
  <2>0. work[g] => posting[g] \/ trigger[g] \/ \E w \in WaitSets : g \in result[w]
    BY DEF NoLostWork
  <2> USE DEF TypeOK
  \* A step that leaves the announcement alone and takes g out of no result.
  <2> DEFINE Keeps == /\ work' = work /\ posting' = posting
                      /\ trigger[g] => trigger'[g]
                      /\ \A w \in WaitSets : g \in result[w] => g \in result'[w]
      Goal == posting'[g] \/ trigger'[g] \/ \E w \in WaitSets : g \in result'[w]
  <2>1. Keeps => Goal
    BY <2>0
  <2> HIDE DEF Keeps, Goal
  <2>2. SUFFICES ASSUME TRUE PROVE Goal
    BY DEF Goal
  <2>3. ASSUME NEW w \in WaitSets, \E r \in Requests[w] : CallWait(w, r) PROVE Goal
    BY <2>3, <2>1 DEF CallWait, environment, Keeps
  <2>4. ASSUME NEW w \in WaitSets, Attaching(w) PROVE Goal
    BY <2>4, <2>1 DEF Attaching, AttachSubscriptions, EventsMissing, SetEnabledStatuses,
         AttachRemaining, AttachFails, Leave, environment, Keeps
  <2>5. ASSUME NEW w \in WaitSets, Waiting(w) PROVE Goal
    BY <2>5, <2>1 DEF Waiting, WaitReturns, WaitTimesOut, WaitFails, LeaveWait, Leave,
         environment, Keeps
  <2>6. ASSUME NEW w \in WaitSets, Examining(w) PROVE Goal
    <3>1. CASE HandleSubscriptions(w)
      BY <3>1, <2>1 DEF HandleSubscriptions, environment, Keeps
    <3>2. ASSUME NEW e \in Events, HandleEvent(w, e) PROVE Goal
      BY <3>2, <2>1 DEF HandleEvent, environment, Keeps
    <3>3. ASSUME NEW h \in Guards, HandleGuard(w, h) PROVE Goal
      <4>1. CASE h = g /\ g \in active[w]
        BY <3>3, <4>1 DEF HandleGuard, Goal
      <4>2. CASE h # g \/ g \notin active[w]
        BY <3>3, <4>2, <2>1 DEF HandleGuard, environment, Keeps
      <4>3. QED
        BY <4>1, <4>2
    <3>4. CASE HandleServicesAndClients(w)
      BY <3>4, <2>1 DEF HandleServicesAndClients, environment, Keeps
    <3>5. QED
      BY <2>6, <3>1, <3>2, <3>3, <3>4 DEF Examining
  <2>7. ASSUME NEW w \in WaitSets, Dispatching(w) PROVE Goal
    <3>1. ASSUME NEW r \in Reads, TakeSample(w, r) PROVE Goal
      <4>1. r # g
        BY ConditionsDisjoint
      <4>2. QED
        BY <3>1, <4>1, <2>1 DEF TakeSample, Keeps
    <3>2. ASSUME NEW e \in Events, TakeEvent(w, e) PROVE Goal
      <4>1. e # g
        BY ConditionsDisjoint
      <4>2. QED
        BY <3>2, <4>1, <2>1 DEF TakeEvent, environment, Keeps
    <3>3. ASSUME NEW h \in Guards, SeeWork(w, h) PROVE Goal
      <4>1. h # g
        BY <3>3 DEF SeeWork
      <4>2. work'[g] = work[g] /\ posting' = posting /\ trigger' = trigger
            /\ \A v \in WaitSets : g \in result[v] => g \in result'[v]
        BY <3>3, <4>1 DEF SeeWork
      <4>3. QED
        BY <4>2, <2>0 DEF Goal
    <3>4. CASE Finish(w)
      BY <3>4, <2>1 DEF Finish, Leave, environment, Keeps
    <3>5. QED
      BY <2>7, <3>1, <3>2, <3>3, <3>4 DEF Dispatching
  <2>8. ASSUME NEW h \in Guards, PostWork(h) PROVE Goal
    <3>1. CASE h = g
      BY <2>8, <3>1 DEF PostWork, Goal
    <3>2. CASE h # g
      BY <2>8, <3>2, <2>0 DEF PostWork, waiters, Goal
    <3>3. QED
      BY <3>1, <3>2
  <2>9. ASSUME NEW h \in Guards, TriggerGuardCondition(h) PROVE Goal
    <3>1. CASE h = g
      BY <2>9, <3>1 DEF TriggerGuardCondition, Goal
    <3>2. CASE h # g
      BY <2>9, <3>2, <2>0 DEF TriggerGuardCondition, waiters, Goal
    <3>3. QED
      BY <3>1, <3>2
  <2>10. CASE (\E r \in Reads : DataArrives(r))
              \/ (\E x \in Statuses, k \in Kinds : StatusChanges(x, k))
    BY <2>10, <2>1 DEF DataArrives, StatusChanges, waiters, Keeps
  <2>11. CASE UNCHANGED vars
    BY <2>11, <2>1 DEF vars, Keeps
  <2>12. QED
    BY <2>3, <2>4, <2>5, <2>6, <2>7, <2>8, <2>9, <2>10, <2>11
       DEF Next, Waiter, Environment
<1>3. QED
  BY <1>1, <1>2, TypeCorrect, PTL DEF Spec

---------------------------------------------------------------------------
\* A call blocks with everything it asked for attached, and a call that has
\* returned RMW_RET_OK has detached all the read and guard conditions it asked
\* for but those that DDS refused to detach.
THEOREM CallsOwnTheirConditions == Spec => []CallOwnsConditions
<1>1. Init => CallOwnsConditions
  BY DEF Init, CallOwnsConditions, CallOwns
<1>2. TypeOK /\ CallOwnsConditions /\ [Next]_vars => CallOwnsConditions'
  <2> SUFFICES ASSUME TypeOK, CallOwnsConditions, [Next]_vars, NEW v \in WaitSets
               PROVE  CallOwns(v)'
    BY DEF CallOwnsConditions
  <2>0. CallOwns(v)
    BY DEF CallOwnsConditions
  <2> USE DEF TypeOK
  \* A step that does not concern wait set v.
  <2> DEFINE Same == /\ pc'[v] = pc[v] /\ request'[v] = request[v]
                     /\ attached'[v] = attached[v] /\ pending'[v] = pending[v]
                     /\ refused'[v] = refused[v]
  <2>1. Same => CallOwns(v)'
    BY <2>0 DEF CallOwns, ReadsOf, StatusesOf
  <2>2. request[v] \in Request /\ ReadsOf(request[v]) \subseteq Reads
        /\ request[v].guards \subseteq Guards
    BY RequestFacts
  <2> HIDE DEF Same
  <2>3. ASSUME NEW w \in WaitSets, w # v, Waiter(w) PROVE CallOwns(v)'
    <3>1. ASSUME NEW r \in Requests[w], CallWait(w, r) PROVE Same
      BY <2>3, <3>1 DEF CallWait, Same
    <3>2. CASE Attaching(w)
      BY <2>3, <3>2, <2>1 DEF Attaching, AttachSubscriptions, EventsMissing,
           SetEnabledStatuses, AttachRemaining, AttachFails, Leave, Same
    <3>3. CASE Waiting(w)
      BY <2>3, <3>3, <2>1 DEF Waiting, WaitReturns, WaitTimesOut, WaitFails, LeaveWait,
           Leave, Same
    <3>4. CASE Examining(w)
      BY <2>3, <3>4, <2>1 DEF Examining, HandleSubscriptions, HandleEvent, HandleGuard,
           HandleServicesAndClients, Detach, Same
    <3>5. CASE Dispatching(w)
      BY <2>3, <3>5, <2>1 DEF Dispatching, TakeSample, TakeEvent, SeeWork, Finish, Leave, Same
    <3>6. QED
      BY <2>3, <3>1, <3>2, <3>3, <3>4, <3>5, <2>1 DEF Waiter
  <2>4. ASSUME \E r \in Requests[v] : CallWait(v, r) PROVE CallOwns(v)'
    BY <2>4 DEF CallWait, CallOwns
  <2>5. ASSUME Attaching(v) PROVE CallOwns(v)'
    <3>1. CASE AttachSubscriptions(v)
      BY <3>1 DEF AttachSubscriptions, CallOwns
    <3>2. ASSUME NEW x \in Statuses, SetEnabledStatuses(v, x) PROVE CallOwns(v)'
      BY <3>2, <2>0 DEF SetEnabledStatuses, CallOwns
    <3>3. CASE AttachRemaining(v)
      BY <3>3, <2>0 DEF AttachRemaining, CallOwns, ReadsOf, StatusesOf
    <3>4. CASE Leave(v)
      BY <3>4 DEF Leave, CallOwns
    <3>5. QED
      BY <2>5, <3>1, <3>2, <3>3, <3>4 DEF Attaching, EventsMissing, AttachFails
  <2>6. ASSUME Waiting(v) PROVE CallOwns(v)'
    <3>1. CASE Leave(v)
      BY <3>1 DEF Leave, CallOwns
    <3>2. ASSUME NEW S, LeaveWait(v, S) PROVE CallOwns(v)'
      BY <3>2 DEF LeaveWait, CallOwns, Handles, ReadsOf
    <3>3. QED
      BY <2>6, <3>1, <3>2 DEF Waiting, WaitReturns, WaitTimesOut, WaitFails
  <2>7. ASSUME Examining(v) PROVE CallOwns(v)'
    <3> DEFINE own == ReadsOf(request[v]) \cup request[v].guards
    <3>0. /\ pc[v] = "examine" /\ request'[v] = request[v] /\ own' = own
          /\ own \cap attached[v] \subseteq pending[v] \cup refused[v]
      BY <2>7, <2>0 DEF Examining, HandleSubscriptions, HandleEvent, HandleGuard,
         HandleServicesAndClients, CallOwns, ReadsOf
    <3>a. ASSUME NEW S \in SUBSET Conditions, Detach(v, S), pending[v] \ S \subseteq pending'[v],
                 pc'[v] = "returned" => pending'[v] = {}, pc'[v] \in {"examine", "returned"}
          PROVE  CallOwns(v)'
      <4>1. own \cap attached'[v] \subseteq pending'[v] \cup refused'[v]
        BY <3>0, <3>a, DetachFacts
      <4> QED
        BY <3>0, <3>a, <4>1 DEF CallOwns
    <3>1. CASE HandleSubscriptions(v)
      <4> DEFINE S == request[v].subs \cap pending[v]
      <4>1. /\ Detach(v, S) /\ pending[v] \ S \subseteq pending'[v]
            /\ pc'[v] = "examine" /\ S \in SUBSET Conditions
        BY <3>0, <3>1, <2>2, RequestFacts DEF HandleSubscriptions, Conditions
      <4> QED
        BY <3>a, <4>1
    <3>2. ASSUME NEW e \in Events, HandleEvent(v, e) PROVE CallOwns(v)'
      <4>1. e \notin ReadsOf(request[v]) \cup request[v].guards
        BY <2>2, ConditionsDisjoint
      <4>2. QED
        BY <3>2, <4>1, <2>0 DEF HandleEvent, CallOwns, ReadsOf
    <3>3. ASSUME NEW g \in Guards, HandleGuard(v, g) PROVE CallOwns(v)'
      <4>1. /\ Detach(v, {g}) /\ pending[v] \ {g} \subseteq pending'[v]
            /\ pc'[v] = "examine" /\ {g} \in SUBSET Conditions
        BY <3>0, <3>3 DEF HandleGuard, Conditions
      <4> QED
        BY <3>a, <4>1
    <3>4. CASE HandleServicesAndClients(v)
      <4> DEFINE S == request[v].services \cup request[v].clients
      <4>1. /\ Detach(v, S) /\ pending[v] \subseteq S /\ pending'[v] = {}
            /\ pc'[v] = "returned" /\ S \in SUBSET Conditions
        BY <3>0, <3>4, <2>2, RequestFacts DEF HandleServicesAndClients, Conditions
      <4> QED
        BY <3>a, <4>1
    <3>5. QED
      BY <2>7, <3>1, <3>2, <3>3, <3>4 DEF Examining
  <2>8. ASSUME Dispatching(v) PROVE CallOwns(v)'
    BY <2>8, <2>0 DEF Dispatching, TakeSample, TakeEvent, SeeWork, Finish, Leave,
         CallOwns, ReadsOf
  <2>9. ASSUME Environment PROVE CallOwns(v)'
    BY <2>9, <2>1 DEF Environment, PostWork, TriggerGuardCondition, DataArrives,
         StatusChanges, waiters, Same
  <2>10. CASE UNCHANGED vars
    BY <2>10, <2>1 DEF vars, Same
  <2>11. QED
    BY <2>3, <2>4, <2>5, <2>6, <2>7, <2>8, <2>9, <2>10 DEF Next, Waiter
<1>3. QED
  BY <1>1, <1>2, TypeCorrect, PTL DEF Spec

---------------------------------------------------------------------------
\* Handles are reported only by a call that has left the DDS wait.
ResultsOnlyInCall ==
  \A w \in WaitSets : pc[w] \notin {"examine", "returned"} => result[w] = {}

\* A call that has not left the DDS wait, or has failed, has no results.
LEMMA ResultsInvariant == Spec => []ResultsOnlyInCall
<1>1. Init => ResultsOnlyInCall
  BY DEF Init, ResultsOnlyInCall
<1>2. TypeOK /\ ResultsOnlyInCall /\ [Next]_vars => ResultsOnlyInCall'
  <2> SUFFICES ASSUME TypeOK, ResultsOnlyInCall, [Next]_vars PROVE ResultsOnlyInCall'
    OBVIOUS
  <2> USE DEF TypeOK, ResultsOnlyInCall
  <2>1. ASSUME NEW w \in WaitSets, \E r \in Requests[w] : CallWait(w, r)
        PROVE  ResultsOnlyInCall'
    BY <2>1 DEF CallWait
  <2>2. ASSUME NEW w \in WaitSets, Attaching(w) PROVE ResultsOnlyInCall'
    BY <2>2 DEF Attaching, AttachSubscriptions, EventsMissing, SetEnabledStatuses,
         AttachRemaining, AttachFails, Leave
  <2>3. ASSUME NEW w \in WaitSets, Waiting(w) PROVE ResultsOnlyInCall'
    BY <2>3 DEF Waiting, WaitReturns, WaitTimesOut, WaitFails, LeaveWait, Leave
  <2>4. ASSUME NEW w \in WaitSets, Examining(w) PROVE ResultsOnlyInCall'
    BY <2>4 DEF Examining, HandleSubscriptions, HandleEvent, HandleGuard,
         HandleServicesAndClients
  <2>5. ASSUME NEW w \in WaitSets, Dispatching(w) PROVE ResultsOnlyInCall'
    BY <2>5 DEF Dispatching, TakeSample, TakeEvent, SeeWork, Finish, Leave
  <2>6. ASSUME Environment PROVE ResultsOnlyInCall'
    BY <2>6 DEF Environment, PostWork, TriggerGuardCondition, DataArrives, StatusChanges,
         waiters
  <2>7. CASE UNCHANGED vars
    BY <2>7 DEF vars
  <2>8. QED
    BY <2>1, <2>2, <2>3, <2>4, <2>5, <2>6, <2>7 DEF Next, Waiter
<1>3. QED
  BY <1>1, <1>2, TypeCorrect, PTL DEF Spec

\* rmw_wait implements the promise about guard conditions: it hears all the
\* requested ones that are triggered at one moment, reports every one it heard,
\* and clears no trigger value that it does not report.
THEOREM WaitKeepsContract == Spec => ImplementsContract
<1> DEFINE Bars == <<callBar, wantedBar, heardBar, reportedBar, trigger>>
<1>1. Init => Contract!Init
  BY DEF Init, Contract!Init, callBar, wantedBar, heardBar, reportedBar, EmptyRequest
<1>2. TypeOK /\ CallOwnsConditions /\ ResultsOnlyInCall /\ [Next]_vars
        => Contract!Next \/ UNCHANGED Bars
  <2> SUFFICES ASSUME TypeOK, CallOwnsConditions, ResultsOnlyInCall, [Next]_vars
               PROVE  Contract!Next \/ UNCHANGED Bars
    OBVIOUS
  <2> DEFINE Maps == Contract!Next \/ UNCHANGED Bars
  <2> USE DEF TypeOK
  <2>0. ASSUME NEW w \in WaitSets
        PROVE  /\ request[w] \in Request
               /\ ReadsOf(request[w]) \cap Guards = {}
               /\ request[w].guards \subseteq Guards
               /\ request[w].subs \cap Guards = {}
               /\ request[w].services \cap Guards = {}
               /\ request[w].clients \cap Guards = {}
    BY RequestFacts, ConditionsDisjoint
  \* Steps inside a call that touch neither its results nor what it heard.
  <2>1. ASSUME NEW w \in WaitSets, NEW r \in Requests[w], CallWait(w, r) PROVE Maps
    <3>1. r \in Request /\ r.guards \in SUBSET Guards
      BY RequestAssumption, RequestFacts
    <3>2. /\ callBar[w] = "idle"
          /\ callBar' = [callBar EXCEPT ![w] = "waiting"]
      BY <2>1 DEF CallWait, callBar
    <3>3. /\ wantedBar' = [wantedBar EXCEPT ![w] = r.guards]
          /\ UNCHANGED <<heardBar, reportedBar, trigger>>
      BY <2>1, <3>1 DEF CallWait, wantedBar, heardBar, reportedBar, environment
    <3>4. Contract!Begin(w, r.guards)
      BY <3>2, <3>3 DEF Contract!Begin
    <3>5. QED
      BY <3>1, <3>4 DEF Contract!Next
  <2>2. ASSUME NEW w \in WaitSets, Leave(w), pc[w] \in {"attach", "gather", "wait"} PROVE Maps
    <3>1. callBar[w] = "waiting" /\ heardBar[w] = {} /\ reportedBar[w] = {}
      BY <2>2 DEF callBar, heardBar, reportedBar, ResultsOnlyInCall
    <3>2. /\ callBar' = [callBar EXCEPT ![w] = "idle"]
          /\ wantedBar' = [wantedBar EXCEPT ![w] = {}]
          /\ UNCHANGED <<heardBar, reportedBar, trigger>>
      BY <2>2 DEF Leave, callBar, wantedBar, heardBar, reportedBar, EmptyRequest
    <3>3. Contract!Fail(w)
      BY <3>1, <3>2 DEF Contract!Fail
    <3>4. QED
      BY <3>3 DEF Contract!Next
  <2>3. ASSUME NEW w \in WaitSets, Attaching(w) PROVE Maps
    <3>1. CASE AttachSubscriptions(w)
      BY <3>1 DEF AttachSubscriptions, callBar, wantedBar, heardBar, reportedBar
    <3>2. ASSUME NEW x \in Statuses, SetEnabledStatuses(w, x) PROVE Maps
      BY <3>2 DEF SetEnabledStatuses, callBar, wantedBar, heardBar, reportedBar
    <3>3. CASE AttachRemaining(w)
      BY <3>3 DEF AttachRemaining, callBar, wantedBar, heardBar, reportedBar
    <3>4. CASE EventsMissing(w)
      BY <3>4, <2>2 DEF EventsMissing
    <3>5. CASE AttachFails(w)
      BY <3>5, <2>2 DEF AttachFails
    <3>6. QED
      BY <2>3, <3>1, <3>2, <3>3, <3>4, <3>5 DEF Attaching
  <2>4. ASSUME NEW w \in WaitSets, NEW S, LeaveWait(w, S),
               S \cap request[w].guards = {g \in request[w].guards : trigger[g]}
        PROVE  Maps
    <3> DEFINE G == {g \in wantedBar[w] : trigger[g]}
    <3>1. callBar[w] = "waiting" /\ heardBar[w] = {} /\ reportedBar[w] = {}
      BY <2>4 DEF LeaveWait, callBar, heardBar, reportedBar, ResultsOnlyInCall
    <3>2. UNCHANGED <<callBar, wantedBar, reportedBar, trigger>>
      BY <2>4 DEF LeaveWait, callBar, wantedBar, reportedBar
    <3>3. S \cap Handles(request[w]) \cap Guards = G
      BY <2>0, <2>4, ConditionsDisjoint DEF Handles, wantedBar, Request
    <3>4. heardBar' = [heardBar EXCEPT ![w] = G]
      BY <2>4, <3>3 DEF LeaveWait, heardBar
    <3>5. Contract!Hear(w, G) /\ G \in SUBSET Guards
      BY <2>0, <3>1, <3>2, <3>4 DEF Contract!Hear, wantedBar
    <3>6. QED
      BY <3>5 DEF Contract!Next
  <2>5. ASSUME NEW w \in WaitSets, Waiting(w) PROVE Maps
    <3>1. ASSUME pc[w] = "wait"
          PROVE  TriggeredIn(w) \cap request[w].guards = {g \in request[w].guards : trigger[g]}
      BY <2>0, <3>1, ConditionsDisjoint
         DEF CallOwnsConditions, CallOwns, TriggeredIn, Triggered
    <3>2. CASE WaitReturns(w)
      BY <3>1, <3>2, <2>4 DEF WaitReturns, LeaveWait
    <3>3. CASE WaitTimesOut(w)
      <4>1. pc[w] = "wait" /\ {} \cap request[w].guards = {g \in request[w].guards : trigger[g]}
        BY <3>1, <3>3 DEF WaitTimesOut, LeaveWait
      <4>2. QED
        BY <3>3, <4>1, <2>4 DEF WaitTimesOut
    <3>4. CASE WaitFails(w)
      BY <3>4, <2>2 DEF WaitFails
    <3>5. QED
      BY <2>5, <3>2, <3>3, <3>4 DEF Waiting
  <2>6. ASSUME NEW w \in WaitSets, Examining(w) PROVE Maps
    <3>1. CASE HandleSubscriptions(w)
      <4>1. UNCHANGED <<callBar, wantedBar, trigger>>
        BY <3>1 DEF HandleSubscriptions, callBar, wantedBar
      <4>2. heardBar' = heardBar
        BY <3>1, <2>0 DEF HandleSubscriptions, heardBar
      <4>3. reportedBar' = reportedBar
        BY <3>1, <2>0 DEF HandleSubscriptions, reportedBar
      <4>4. QED
        BY <4>1, <4>2, <4>3
    <3>2. ASSUME NEW e \in Events, HandleEvent(w, e) PROVE Maps
      <4>0. e \notin Guards
        BY ConditionsDisjoint
      <4>1. UNCHANGED <<callBar, wantedBar, trigger>>
        BY <3>2 DEF HandleEvent, callBar, wantedBar
      <4>2. heardBar' = heardBar
        <5>1. \A v \in WaitSets : active'[v] \cap pending'[v] \cap Guards
                                  = active[v] \cap pending[v] \cap Guards
          BY <3>2, <4>0 DEF HandleEvent
        <5>2. pc' = pc
          BY <3>2 DEF HandleEvent
        <5>3. QED
          BY <5>1, <5>2 DEF heardBar
      <4>3. reportedBar' = reportedBar
        BY <3>2, <4>0 DEF HandleEvent, reportedBar
      <4>4. QED
        BY <4>1, <4>2, <4>3
    <3>3. ASSUME NEW g \in Guards, HandleGuard(w, g) PROVE Maps
      <4>1. UNCHANGED <<callBar, wantedBar>> /\ callBar[w] = "waiting"
        BY <3>3 DEF HandleGuard, callBar, wantedBar
      <4>2. CASE g \in active[w]
        <5>1. g \in heardBar[w] /\ heardBar' = [heardBar EXCEPT ![w] = @ \ {g}]
          <6>1. /\ active'[w] \cap pending'[w] \cap Guards
                   = (active[w] \cap pending[w] \cap Guards) \ {g}
                /\ \A v \in WaitSets \ {w} : active'[v] \cap pending'[v] \cap Guards
                                            = active[v] \cap pending[v] \cap Guards
            BY <3>3 DEF HandleGuard
          <6>2. pc' = pc /\ pc[w] = "examine" /\ g \in active[w] \cap pending[w] \cap Guards
            BY <3>3, <4>2 DEF HandleGuard
          <6>3. QED
            BY <6>1, <6>2 DEF heardBar
        <5>2. reportedBar' = [reportedBar EXCEPT ![w] = @ \cup {g}]
          <6>1. /\ result'[w] \cap Guards = (result[w] \cap Guards) \cup {g}
                /\ \A v \in WaitSets \ {w} : result'[v] = result[v]
            BY <3>3, <4>2 DEF HandleGuard
          <6>2. QED
            BY <6>1 DEF reportedBar
        <5>3. trigger' = [trigger EXCEPT ![g] = FALSE]
          BY <3>3, <4>2 DEF HandleGuard
        <5>4. Contract!Report(w, g)
          BY <4>1, <5>1, <5>2, <5>3 DEF Contract!Report
        <5>5. QED
          BY <5>4 DEF Contract!Next
      <4>3. CASE g \notin active[w]
        <5>1. \A v \in WaitSets : active'[v] \cap pending'[v] \cap Guards
                                  = active[v] \cap pending[v] \cap Guards
          BY <3>3, <4>3 DEF HandleGuard
        <5>2. pc' = pc /\ result' = result /\ trigger' = trigger
          BY <3>3, <4>3 DEF HandleGuard
        <5>3. heardBar' = heardBar /\ reportedBar' = reportedBar
          BY <5>1, <5>2 DEF heardBar, reportedBar
        <5>4. QED
          BY <4>1, <5>2, <5>3
      <4>4. QED
        BY <4>2, <4>3
    <3>4. CASE HandleServicesAndClients(w)
      <4>1. /\ callBar[w] = "waiting" /\ heardBar[w] = {}
            /\ callBar' = [callBar EXCEPT ![w] = "done"]
        BY <3>4, <2>0 DEF HandleServicesAndClients, callBar, heardBar
      <4>2. UNCHANGED <<wantedBar, heardBar, trigger>>
        <5>1. UNCHANGED <<request, trigger>> /\ pc'[w] = "returned" /\ heardBar[w] = {}
              /\ \A v \in WaitSets \ {w} :
                   pc'[v] = pc[v] /\ active'[v] = active[v] /\ pending'[v] = pending[v]
          BY <3>4, <4>1 DEF HandleServicesAndClients
        <5>2. QED
          BY <5>1 DEF wantedBar, heardBar
      <4>3. reportedBar' = reportedBar
        BY <3>4, <2>0 DEF HandleServicesAndClients, reportedBar
      <4>4. Contract!Return(w)
        BY <4>1, <4>2, <4>3 DEF Contract!Return
      <4>5. QED
        BY <4>4 DEF Contract!Next
    <3>5. QED
      BY <2>6, <3>1, <3>2, <3>3, <3>4 DEF Examining
  <2>7. ASSUME NEW w \in WaitSets, Dispatching(w) PROVE Maps
    <3>1. ASSUME NEW r \in Reads, TakeSample(w, r) PROVE Maps
      <4>1. r \notin Guards
        BY ConditionsDisjoint
      <4>2. QED
        BY <3>1, <4>1 DEF TakeSample, callBar, wantedBar, heardBar, reportedBar
    <3>2. ASSUME NEW e \in Events, TakeEvent(w, e) PROVE Maps
      <4>1. e \notin Guards
        BY ConditionsDisjoint
      <4>2. QED
        BY <3>2, <4>1 DEF TakeEvent, callBar, wantedBar, heardBar, reportedBar
    <3>3. ASSUME NEW g \in Guards, SeeWork(w, g) PROVE Maps
      <4>1. UNCHANGED <<callBar, wantedBar, heardBar, trigger>> /\ callBar[w] = "done"
        BY <3>3 DEF SeeWork, callBar, wantedBar, heardBar
      <4>2. reportedBar' = [reportedBar EXCEPT ![w] = @ \ {g}]
        BY <3>3 DEF SeeWork, reportedBar
      <4>3. Contract!Look(w, g)
        BY <4>1, <4>2 DEF Contract!Look
      <4>4. QED
        BY <4>3 DEF Contract!Next
    <3>4. CASE Finish(w)
      <4>1. callBar[w] = "done" /\ reportedBar[w] = {}
        BY <3>4 DEF Finish, callBar, reportedBar
      <4>2. /\ callBar' = [callBar EXCEPT ![w] = "idle"]
            /\ wantedBar' = [wantedBar EXCEPT ![w] = {}]
            /\ UNCHANGED <<heardBar, reportedBar, trigger>>
        BY <3>4 DEF Finish, Leave, callBar, wantedBar, heardBar, reportedBar, EmptyRequest
      <4>3. Contract!Leave(w)
        BY <4>1, <4>2 DEF Contract!Leave
      <4>4. QED
        BY <4>3 DEF Contract!Next
    <3>5. QED
      BY <2>7, <3>1, <3>2, <3>3, <3>4 DEF Dispatching
  <2>8. ASSUME Environment PROVE Maps
    <3>1. ASSUME NEW g \in Guards, TriggerGuardCondition(g) PROVE Maps
      <4>1. UNCHANGED <<callBar, wantedBar, heardBar, reportedBar>>
        BY <3>1 DEF TriggerGuardCondition, waiters, callBar, wantedBar, heardBar, reportedBar
      <4>2. Contract!Signal(g)
        BY <3>1, <4>1 DEF TriggerGuardCondition, Contract!Signal
      <4>3. QED
        BY <4>2 DEF Contract!Next
    <3>2. CASE \/ \E g \in Guards : PostWork(g)
               \/ \E r \in Reads : DataArrives(r)
               \/ \E x \in Statuses, k \in Kinds : StatusChanges(x, k)
      BY <3>2 DEF PostWork, DataArrives, StatusChanges, waiters, callBar, wantedBar,
           heardBar, reportedBar
    <3>3. QED
      BY <2>8, <3>1, <3>2 DEF Environment
  <2>9. CASE UNCHANGED vars
    BY <2>9 DEF vars, callBar, wantedBar, heardBar, reportedBar
  <2>10. QED
    BY <2>1, <2>3, <2>5, <2>6, <2>7, <2>8, <2>9 DEF Next, Waiter
<1>3. TypeOK /\ CallOwnsConditions /\ ResultsOnlyInCall /\ [Next]_vars
        => [Contract!Next]_(Contract!vars)
  BY <1>2 DEF Contract!vars
<1>4. QED
  BY <1>1, <1>3, TypeCorrect, CallsOwnTheirConditions, ResultsInvariant, PTL
     DEF Spec, ImplementsContract, Contract!Spec

---------------------------------------------------------------------------
(* Entities that belong to one caller each, as those of an executor do.    *)

\* The call in progress is one that its caller makes.
OwnRequest == \A w \in WaitSets : pc[w] # "idle" => request[w] \in Requests[w]

\* Arguments are kept until the call is over.
LEMMA RequestInvariant == Spec => []OwnRequest
<1>1. Init => OwnRequest
  BY DEF Init, OwnRequest
<1>2. TypeOK /\ OwnRequest /\ [Next]_vars => OwnRequest'
  <2> SUFFICES ASSUME TypeOK, OwnRequest, [Next]_vars PROVE OwnRequest'
    OBVIOUS
  <2> USE DEF TypeOK, OwnRequest
  <2>1. ASSUME NEW w \in WaitSets, \E r \in Requests[w] : CallWait(w, r) PROVE OwnRequest'
    BY <2>1 DEF CallWait
  <2>2. ASSUME NEW w \in WaitSets, Attaching(w) PROVE OwnRequest'
    BY <2>2 DEF Attaching, AttachSubscriptions, EventsMissing, SetEnabledStatuses,
         AttachRemaining, AttachFails, Leave
  <2>3. ASSUME NEW w \in WaitSets, Waiting(w) PROVE OwnRequest'
    BY <2>3 DEF Waiting, WaitReturns, WaitTimesOut, WaitFails, LeaveWait, Leave
  <2>4. ASSUME NEW w \in WaitSets, Examining(w) PROVE OwnRequest'
    BY <2>4 DEF Examining, HandleSubscriptions, HandleEvent, HandleGuard,
         HandleServicesAndClients
  <2>5. ASSUME NEW w \in WaitSets, Dispatching(w) PROVE OwnRequest'
    BY <2>5 DEF Dispatching, TakeSample, TakeEvent, SeeWork, Finish, Leave
  <2>6. ASSUME Environment PROVE OwnRequest'
    BY <2>6 DEF Environment, PostWork, TriggerGuardCondition, DataArrives, StatusChanges,
         waiters
  <2>7. CASE UNCHANGED vars
    BY <2>7 DEF vars
  <2>8. QED
    BY <2>1, <2>2, <2>3, <2>4, <2>5, <2>6, <2>7 DEF Next, Waiter
<1>3. QED
  BY <1>1, <1>2, TypeCorrect, PTL DEF Spec

\* What a caller has been told of its readers, or is about to be told.
ToldOf(w) ==
  /\ result[w] \cap Reads \subseteq ReadsOf(request[w])
  /\ pc[w] \in {"examine", "returned"} \/ result[w] = {}
  /\ \A r \in result[w] \cap Reads : unread[r] > 0
  /\ pc[w] = "examine" => \A r \in active[w] \cap ReadsOf(request[w]) : unread[r] > 0

Told == \A w \in WaitSets : ToldOf(w)

\* A reader that a caller owns and whose handle rmw_wait left non-null holds a sample:
\* no one else has taken it since the wait.
THEOREM ReportedReaders == ExclusiveReads => (Spec => []ReportedReadersHaveData)
<1> SUFFICES ASSUME ExclusiveReads
             PROVE  Spec => []ReportedReadersHaveData
  OBVIOUS
<1>1. Init => Told
  BY DEF Init, Told, ToldOf
<1>2. TypeOK /\ OwnRequest /\ Told /\ [Next]_vars => Told'
  <2> SUFFICES ASSUME TypeOK, OwnRequest, Told, [Next]_vars, NEW v \in WaitSets
               PROVE  ToldOf(v)'
    BY DEF Told
  <2>0. ToldOf(v)
    BY DEF Told
  <2> DEFINE Same == /\ pc'[v] = pc[v] /\ request'[v] = request[v]
                     /\ active'[v] = active[v] /\ result'[v] = result[v]
             More == \A r \in Reads : unread[r] > 0 => unread'[r] > 0
  <2>1. Same /\ More => ToldOf(v)'
    <3>1. ReadsOf(request[v]) \subseteq Reads
      BY RequestFacts DEF TypeOK
    <3> QED
      BY <2>0, <3>1 DEF ToldOf, ReadsOf, TypeOK
  <2> HIDE DEF Same
  <2> USE DEF TypeOK
  <2>a. unread' = unread => More
    OBVIOUS
  <2> HIDE DEF More
  <2>2. ASSUME NEW w \in WaitSets, w # v, Waiter(w) PROVE ToldOf(v)'
    <3>1. ASSUME NEW r \in Requests[w], CallWait(w, r) PROVE Same /\ More
      BY <2>2, <2>a, <3>1 DEF CallWait, Same, environment
    <3>2. CASE Attaching(w)
      BY <2>2, <2>a, <3>2, <2>1 DEF Attaching, AttachSubscriptions, EventsMissing,
           SetEnabledStatuses, AttachRemaining, AttachFails, Leave, Same, environment
    <3>3. CASE Waiting(w)
      BY <2>2, <2>a, <3>3, <2>1 DEF Waiting, WaitReturns, WaitTimesOut, WaitFails, LeaveWait,
           Leave, Same, environment
    <3>4. CASE Examining(w)
      BY <2>2, <2>a, <3>4, <2>1 DEF Examining, HandleSubscriptions, HandleEvent, HandleGuard,
           HandleServicesAndClients, Same, environment
    <3>5. ASSUME NEW r \in Reads, TakeSample(w, r) PROVE ToldOf(v)'
      <4>1. Same /\ \A q \in Reads \ {r} : unread'[q] = unread[q]
        BY <2>2, <3>5 DEF TakeSample, Same
      <4>2. CASE pc[v] = "idle"
        BY <2>0, <4>1, <4>2 DEF ToldOf, Same
      <4>3. CASE pc[v] # "idle"
        <5>1. request[v] \in Requests[v] /\ request[w] \in Requests[w]
          BY <3>5, <4>3 DEF OwnRequest, TakeSample
        <5>2. r \in ReadsOf(request[w])
          BY <3>5 DEF TakeSample, Told, ToldOf
        <5>3. r \notin ReadsOf(request[v])
          BY <2>2, <5>1, <5>2 DEF ExclusiveReads
        <5>4. ReadsOf(request[v]) \subseteq Reads
          BY RequestFacts
        <5> QED
          BY <2>0, <4>1, <5>3, <5>4 DEF ToldOf, Same, ReadsOf
      <4> QED
        BY <4>2, <4>3
    <3>6. CASE Dispatching(w) /\ ~\E r \in Reads : TakeSample(w, r)
      BY <2>2, <2>a, <3>6, <2>1 DEF Dispatching, TakeEvent, SeeWork, Finish, Leave, Same, environment
    <3> QED
      BY <2>1, <2>2, <3>1, <3>2, <3>3, <3>4, <3>5, <3>6 DEF Waiter, Dispatching
  <2>3. ASSUME \E r \in Requests[v] : CallWait(v, r) PROVE ToldOf(v)'
    BY <2>0, <2>3 DEF CallWait, ToldOf
  <2>4. ASSUME Attaching(v) PROVE ToldOf(v)'
    BY <2>0, <2>4 DEF Attaching, AttachSubscriptions, EventsMissing, SetEnabledStatuses,
         AttachRemaining, AttachFails, Leave, ToldOf
  <2>5. ASSUME Waiting(v) PROVE ToldOf(v)'
    <3>1. CASE WaitReturns(v)
      <4>1. /\ pc'[v] = "examine" /\ active'[v] = TriggeredIn(v) /\ request' = request
            /\ result'[v] = {} /\ unread' = unread
        BY <2>0, <3>1 DEF WaitReturns, LeaveWait, ToldOf, environment
      <4>2. \A r \in TriggeredIn(v) \cap Reads : unread[r] > 0
        BY ConditionsDisjoint DEF TriggeredIn, Triggered
      <4>3. ReadsOf(request[v]) \subseteq Reads
        BY RequestFacts
      <4> QED
        BY <4>1, <4>2, <4>3 DEF ToldOf, ReadsOf
    <3>2. CASE WaitTimesOut(v)
      BY <2>0, <3>2 DEF WaitTimesOut, LeaveWait, ToldOf, environment
    <3>3. CASE WaitFails(v)
      BY <2>0, <3>3 DEF WaitFails, Leave, ToldOf, environment
    <3> QED
      BY <2>5, <3>1, <3>2, <3>3 DEF Waiting
  <2>6. ASSUME Examining(v) PROVE ToldOf(v)'
    <3>0. request[v] \in Request /\ ReadsOf(request[v]) \subseteq Reads
          /\ request[v].subs \subseteq ReadsOf(request[v])
          /\ request[v].services \cup request[v].clients \subseteq ReadsOf(request[v])
      BY RequestFacts
    <3>1. CASE HandleSubscriptions(v)
      <4>1. /\ pc' = pc /\ active' = active /\ request' = request /\ unread' = unread
            /\ pc[v] = "examine"
            /\ result'[v] = result[v] \cup (request[v].subs \cap pending[v] \cap active[v])
        BY <3>1 DEF HandleSubscriptions, environment
      <4> QED
        BY <2>0, <3>0, <4>1 DEF ToldOf, ReadsOf
    <3>2. ASSUME NEW e \in Events, HandleEvent(v, e) PROVE ToldOf(v)'
      <4>1. /\ pc' = pc /\ active' = active /\ request' = request /\ unread' = unread
            /\ pc[v] = "examine" /\ result'[v] \in {result[v], result[v] \cup {e}}
        BY <3>2 DEF HandleEvent, environment
      <4>2. e \notin Reads
        BY ConditionsDisjoint
      <4> QED
        BY <2>0, <4>1, <4>2 DEF ToldOf, ReadsOf
    <3>3. ASSUME NEW g \in Guards, HandleGuard(v, g) PROVE ToldOf(v)'
      <4>1. /\ pc' = pc /\ active' = active /\ request' = request /\ unread' = unread
            /\ pc[v] = "examine" /\ result'[v] \in {result[v], result[v] \cup {g}}
        BY <3>3 DEF HandleGuard, environment
      <4>2. g \notin Reads
        BY ConditionsDisjoint
      <4> QED
        BY <2>0, <4>1, <4>2 DEF ToldOf, ReadsOf
    <3>4. CASE HandleServicesAndClients(v)
      <4>1. /\ pc'[v] = "returned" /\ pc[v] = "examine" /\ request' = request /\ unread' = unread
            /\ result'[v] = result[v]
                 \cup ((request[v].services \cup request[v].clients) \cap active[v])
        BY <3>4 DEF HandleServicesAndClients, environment
      <4> QED
        BY <2>0, <3>0, <4>1 DEF ToldOf, ReadsOf
    <3> QED
      BY <2>6, <3>1, <3>2, <3>3, <3>4 DEF Examining
  <2>7. ASSUME Dispatching(v) PROVE ToldOf(v)'
    <3>1. ASSUME NEW r \in Reads, TakeSample(v, r) PROVE ToldOf(v)'
      BY <2>0, <3>1 DEF TakeSample, ToldOf, ReadsOf
    <3>2. ASSUME NEW e \in Events, TakeEvent(v, e) PROVE ToldOf(v)'
      BY <2>0, <3>2 DEF TakeEvent, ToldOf, ReadsOf, environment
    <3>3. ASSUME NEW g \in Guards, SeeWork(v, g) PROVE ToldOf(v)'
      BY <2>0, <3>3 DEF SeeWork, ToldOf, ReadsOf
    <3>4. CASE Finish(v)
      BY <2>0, <3>4 DEF Finish, Leave, ToldOf, environment
    <3> QED
      BY <2>7, <3>1, <3>2, <3>3, <3>4 DEF Dispatching
  <2>8. ASSUME Environment PROVE ToldOf(v)'
    <3>1. ASSUME NEW r \in Reads, DataArrives(r) PROVE Same /\ More
      <4>1. \A q \in Reads : unread[q] \in Int /\ unread'[q] \in {unread[q], unread[q] + 1}
        BY <3>1, BoundAssumption DEF DataArrives
      <4> QED
        BY <3>1, <4>1 DEF DataArrives, waiters, Same, More
    <3> QED
      BY <2>1, <2>8, <2>a, <3>1 DEF Environment, PostWork, TriggerGuardCondition,
           StatusChanges, waiters, Same
  <2>9. CASE UNCHANGED vars
    BY <2>1, <2>9, <2>a DEF vars, Same
  <2> QED
    BY <2>2, <2>3, <2>4, <2>5, <2>6, <2>7, <2>8, <2>9 DEF Next, Waiter
<1>3. Told => ReportedReadersHaveData
  BY DEF Told, ToldOf, ReportedReadersHaveData
<1> QED
  BY <1>1, <1>2, <1>3, TypeCorrect, RequestInvariant, PTL DEF Spec

\* The masks that a call has set so far are the ones it asks for.
MasksSet(w) ==
  /\ pc[w] = "gather" =>
       /\ pending[w] \subseteq StatusesOf(request[w])
       /\ \A x \in StatusesOf(request[w]) \ pending[w] : enabled[x] = MaskFor(w, x)
  /\ pc[w] = "wait" => \A x \in StatusesOf(request[w]) : enabled[x] = MaskFor(w, x)

\* A blocked call has enabled exactly the status kinds it asks for, if no other caller
\* waits for events of the same entity: no other call has replaced the mask.
THEOREM MasksAreEnabled == ExclusiveStatuses => (Spec => []EventsEnabled)
<1> DEFINE Set == \A w \in WaitSets : MasksSet(w)
<1> SUFFICES ASSUME ExclusiveStatuses
             PROVE  Spec => []EventsEnabled
  OBVIOUS
<1>1. Init => Set
  BY DEF Init, MasksSet
<1>2. TypeOK /\ OwnRequest /\ Set /\ [Next]_vars => Set'
  <2> SUFFICES ASSUME TypeOK, OwnRequest, Set, [Next]_vars, NEW v \in WaitSets
               PROVE  MasksSet(v)'
    OBVIOUS
  <2>0. MasksSet(v)
    OBVIOUS
  <2> DEFINE Same == /\ pc'[v] = pc[v] /\ request'[v] = request[v] /\ pending'[v] = pending[v]
                     /\ pc[v] \in {"gather", "wait"} =>
                          \A x \in StatusesOf(request[v]) : enabled'[x] = enabled[x]
  <2>1. Same => MasksSet(v)'
    BY <2>0 DEF MasksSet, MaskFor, StatusesOf
  <2> HIDE DEF Same
  <2> USE DEF TypeOK
  <2>2. ASSUME NEW w \in WaitSets, w # v, Waiter(w) PROVE Same
    <3>1. ASSUME NEW r \in Requests[w], CallWait(w, r) PROVE Same
      BY <2>2, <3>1 DEF CallWait, Same
    <3>2. CASE Attaching(w) /\ ~\E x \in Statuses : SetEnabledStatuses(w, x)
      BY <2>2, <3>2 DEF Attaching, AttachSubscriptions, EventsMissing, AttachRemaining,
           AttachFails, Leave, Same
    <3>3. CASE Waiting(w)
      BY <2>2, <3>3 DEF Waiting, WaitReturns, WaitTimesOut, WaitFails, LeaveWait, Leave, Same
    <3>4. CASE Examining(w)
      BY <2>2, <3>4 DEF Examining, HandleSubscriptions, HandleEvent, HandleGuard,
           HandleServicesAndClients, Same
    <3>5. CASE Dispatching(w)
      BY <2>2, <3>5 DEF Dispatching, TakeSample, TakeEvent, SeeWork, Finish, Leave, Same
    <3>6. ASSUME NEW x \in Statuses, SetEnabledStatuses(w, x) PROVE Same
      <4>1. /\ pc' = pc /\ request' = request /\ pending'[v] = pending[v]
            /\ \A y \in Statuses \ {x} : enabled'[y] = enabled[y]
        BY <2>2, <3>6 DEF SetEnabledStatuses
      <4>2. ASSUME pc[v] \in {"gather", "wait"} PROVE x \notin StatusesOf(request[v])
        <5>1. request[v] \in Requests[v] /\ request[w] \in Requests[w]
          BY <3>6, <4>2 DEF OwnRequest, SetEnabledStatuses
        <5>2. x \in StatusesOf(request[w])
          BY <3>6 DEF SetEnabledStatuses, MasksSet
        <5> QED
          BY <2>2, <5>1, <5>2 DEF ExclusiveStatuses
      <4>3. StatusesOf(request[v]) \subseteq Statuses
        BY RequestFacts
      <4> QED
        BY <4>1, <4>2, <4>3 DEF Same
    <3> QED
      BY <2>2, <3>1, <3>2, <3>3, <3>4, <3>5, <3>6 DEF Waiter
  <2>3. ASSUME Waiter(v) PROVE MasksSet(v)'
    <3>1. CASE AttachSubscriptions(v)
      BY <3>1 DEF AttachSubscriptions, MasksSet
    <3>2. ASSUME NEW x \in Statuses, SetEnabledStatuses(v, x) PROVE MasksSet(v)'
      <4>1. /\ pc' = pc /\ request' = request /\ pc[v] = "gather" /\ x \in pending[v]
            /\ pending'[v] = pending[v] \ {x}
            /\ enabled'[x] = MaskFor(v, x) /\ \A y \in Statuses \ {x} : enabled'[y] = enabled[y]
        BY <3>2 DEF SetEnabledStatuses
      <4>2. StatusesOf(request[v]) \subseteq Statuses
        BY RequestFacts
      <4>3. \A y \in StatusesOf(request[v]) \ pending'[v] : enabled'[y] = MaskFor(v, y)
        BY <2>0, <4>1, <4>2 DEF MasksSet
      <4> QED
        BY <2>0, <4>1, <4>3 DEF MasksSet, MaskFor, StatusesOf
    <3>3. CASE AttachRemaining(v)
      <4>1. /\ pc[v] = "gather" /\ pc'[v] = "wait" /\ request' = request /\ enabled' = enabled
            /\ pending[v] = {}
        BY <3>3 DEF AttachRemaining
      <4>2. \A x \in StatusesOf(request[v]) : enabled[x] = MaskFor(v, x)
        BY <2>0, <4>1 DEF MasksSet
      <4> QED
        BY <4>1, <4>2 DEF MasksSet, MaskFor, StatusesOf
    <3>4. CASE Leave(v)
      BY <3>4 DEF Leave, MasksSet
    <3>5. ASSUME NEW r \in Requests[v], CallWait(v, r) PROVE MasksSet(v)'
      BY <3>5 DEF CallWait, MasksSet
    <3>6. ASSUME NEW S, LeaveWait(v, S) PROVE MasksSet(v)'
      BY <3>6 DEF LeaveWait, MasksSet
    <3>7. CASE Examining(v)
      <4>1. pc'[v] \in {"examine", "returned"}
        BY <3>7 DEF Examining, HandleSubscriptions, HandleEvent, HandleGuard,
             HandleServicesAndClients
      <4> QED
        BY <4>1 DEF MasksSet
    <3>8. CASE Dispatching(v)
      <4>1. pc'[v] \in {"returned", "idle"}
        BY <3>8 DEF Dispatching, TakeSample, TakeEvent, SeeWork, Finish, Leave
      <4> QED
        BY <4>1 DEF MasksSet
    <3>9. CASE Attaching(v)
      <4>1. EventsMissing(v) \/ AttachFails(v) => Leave(v)
        BY DEF EventsMissing, AttachFails
      <4> QED
        BY <3>1, <3>2, <3>3, <3>4, <3>9, <4>1 DEF Attaching
    <3>10. ASSUME Waiting(v) PROVE MasksSet(v)'
      <4>1. WaitReturns(v) => LeaveWait(v, TriggeredIn(v))
        BY DEF WaitReturns
      <4>2. WaitTimesOut(v) => LeaveWait(v, {})
        BY DEF WaitTimesOut
      <4>3. WaitFails(v) => Leave(v)
        BY DEF WaitFails
      <4> QED
        BY <3>4, <3>6, <3>10, <4>1, <4>2, <4>3 DEF Waiting
    <3> QED
      <4>1. CASE \E r \in Requests[v] : CallWait(v, r)
        BY <3>5, <4>1
      <4> QED
        BY <2>3, <3>7, <3>8, <3>9, <3>10, <4>1 DEF Waiter
  <2>4. ASSUME Environment PROVE Same
    BY <2>4 DEF Environment, PostWork, TriggerGuardCondition, DataArrives, StatusChanges,
         waiters, Same
  <2>5. CASE UNCHANGED vars
    BY <2>1, <2>5 DEF vars, Same
  <2>6. ASSUME NEW w \in WaitSets, Waiter(w) PROVE MasksSet(v)'
    <3>1. CASE w = v
      BY <2>3, <2>6, <3>1
    <3>2. CASE w # v
      BY <2>1, <2>2, <2>6, <3>2
    <3> QED
      BY <3>1, <3>2
  <2>7. MasksSet(v)'
    <3>1. CASE Next
      BY <2>1, <2>4, <2>6, <3>1 DEF Next
    <3> QED
      BY <2>1, <2>5, <3>1
  <2> QED
    BY <2>7
<1>3. Set => EventsEnabled
  BY DEF MasksSet, EventsEnabled
<1> QED
  BY <1>1, <1>2, <1>3, TypeCorrect, RequestInvariant, PTL DEF Spec

---------------------------------------------------------------------------
(* Who sleeps, and what wakes him.                                         *)

\* A call that blocks has nothing to wait for among the readers and the guard
\* conditions it was given: a sample or work that was announced is in its DDS wait's
\* trigger set, unless the work is still being posted or a caller was told of it.
NobodySleepsOnWork ==
  \A w \in WaitSets : pc[w] = "wait" =>
    /\ \A r \in ReadsOf(request[w]) : unread[r] > 0 => r \in TriggeredIn(w)
    /\ \A g \in request[w].guards :
         work[g] => posting[g] \/ g \in TriggeredIn(w) \/ \E v \in WaitSets : g \in result[v]

\* No caller sleeps in rmw_wait while what it waits for is there and nobody was told,
\* however many callers share a guard condition and whatever failed before (wait.hpp
\* 343, 431): whoever is woken first, the others lose nothing by it.
THEOREM NoSleepOnWork == Spec => []NobodySleepsOnWork
<1>1. TypeOK /\ NoLostWork /\ CallOwnsConditions => NobodySleepsOnWork
  <2> SUFFICES ASSUME TypeOK, NoLostWork, CallOwnsConditions,
                      NEW w \in WaitSets, pc[w] = "wait"
               PROVE  /\ \A r \in ReadsOf(request[w]) : unread[r] > 0 => r \in TriggeredIn(w)
                      /\ \A g \in request[w].guards :
                           work[g] => \/ posting[g] \/ g \in TriggeredIn(w)
                                      \/ \E v \in WaitSets : g \in result[v]
    BY DEF NobodySleepsOnWork
  <2>1. ReadsOf(request[w]) \cup request[w].guards \subseteq attached[w]
    BY DEF CallOwnsConditions, CallOwns
  <2>2. ReadsOf(request[w]) \subseteq Reads /\ request[w].guards \subseteq Guards
    BY RequestFacts DEF TypeOK
  <2>3. \A r \in ReadsOf(request[w]) : unread[r] > 0 => r \in TriggeredIn(w)
    BY <2>1, <2>2 DEF TriggeredIn, Triggered
  <2>4. \A g \in request[w].guards : trigger[g] => g \in TriggeredIn(w)
    BY <2>1, <2>2 DEF TriggeredIn, Triggered
  <2> QED
    BY <2>2, <2>3, <2>4 DEF NoLostWork
<1> QED
  BY <1>1, TypeCorrect, NoWorkIsLost, CallsOwnTheirConditions, PTL

\* A call that blocks has none of its events raised.
NobodySleepsOnEvents ==
  \A w \in WaitSets : pc[w] = "wait" =>
    \A e \in request[w].events :
      EventKind[e] \in changed[EventCond[e]] => EventCond[e] \in TriggeredIn(w)

\* If each entity's events are waited on through one wait set, no caller sleeps in
\* rmw_wait while one of the events it asked for is there: the mask that it has set is
\* still in force (wait.hpp 131).
THEOREM NoSleepOnEvents == ExclusiveStatuses => (Spec => []NobodySleepsOnEvents)
<1> SUFFICES ASSUME ExclusiveStatuses
             PROVE  Spec => []NobodySleepsOnEvents
  OBVIOUS
<1>1. TypeOK /\ EventsEnabled /\ CallOwnsConditions => NobodySleepsOnEvents
  <2> SUFFICES ASSUME TypeOK, EventsEnabled, CallOwnsConditions,
                      NEW w \in WaitSets, pc[w] = "wait", NEW e \in request[w].events,
                      EventKind[e] \in changed[EventCond[e]]
               PROVE  EventCond[e] \in TriggeredIn(w)
    BY DEF NobodySleepsOnEvents
  <2> DEFINE x == EventCond[e]
  <2>1. x \in StatusesOf(request[w]) /\ x \in Statuses
    BY RequestFacts DEF TypeOK, StatusesOf
  <2>2. x \in attached[w]
    BY <2>1 DEF CallOwnsConditions, CallOwns
  <2>3. EventKind[e] \in enabled[x]
    BY <2>1 DEF EventsEnabled, MaskFor
  <2> QED
    BY <2>1, <2>2, <2>3 DEF TriggeredIn, Triggered
<1> QED
  BY <1>1, TypeCorrect, MasksAreEnabled, CallsOwnTheirConditions, PTL

---------------------------------------------------------------------------
(* What calls leave attached, and when it does no harm.                    *)

\* The conditions a call asks for.
Own(r) == ReadsOf(r) \cup r.guards \cup StatusesOf(r)

\* Those that it can leave attached: the status conditions of its events, which no
\* call detaches; the subscriptions of a call without an event list; anything, when
\* DDS fails.
Leaves(r) ==
  StatusesOf(r) \cup (IF r.hasEvents THEN {} ELSE r.subs)
    \cup (IF MaxFailures > 0 THEN Own(r) ELSE {})

LeftBehind(w) == UNION {Leaves(r) : r \in Requests[w]}

\* Everything on a wait set was left behind by some call, or is of the call in
\* progress.
Attachments(w) ==
  /\ pc[w] \in {"idle", "attach", "returned"} => attached[w] \subseteq LeftBehind(w)
  /\ pc[w] = "gather" => attached[w] \subseteq LeftBehind(w) \cup request[w].subs
  /\ pc[w] = "wait" => attached[w] \subseteq LeftBehind(w) \cup Own(request[w])
  /\ pc[w] = "examine" =>
       /\ attached[w] \subseteq LeftBehind(w) \cup pending[w]
       /\ active[w] \subseteq LeftBehind(w) \cup Own(request[w])
       /\ pending[w] \subseteq Handles(request[w])

NothingElseAttached == \A w \in WaitSets : Attachments(w)

\* What a call of a caller leaves is left behind.
LEMMA LeavesFacts ==
  ASSUME NEW w \in WaitSets, NEW r \in Requests[w]
  PROVE  /\ Leaves(r) \subseteq LeftBehind(w)
         /\ StatusesOf(r) \subseteq LeftBehind(w)
         /\ ~r.hasEvents => r.subs \subseteq LeftBehind(w)
         /\ MaxFailures > 0 => Own(r) \subseteq LeftBehind(w)
<1>1. Leaves(r) \subseteq LeftBehind(w)
  BY DEF LeftBehind
<1>2. /\ StatusesOf(r) \subseteq Leaves(r)
      /\ ~r.hasEvents => r.subs \subseteq Leaves(r)
      /\ MaxFailures > 0 => Own(r) \subseteq Leaves(r)
  BY DEF Leaves
<1> QED
  BY <1>1, <1>2

\* No step attaches anything else.
LEMMA AttachmentsInvariant == Spec => []NothingElseAttached
<1>1. Init => NothingElseAttached
  BY DEF Init, NothingElseAttached, Attachments
<1>2. TypeOK /\ OwnRequest /\ NothingElseAttached /\ [Next]_vars => NothingElseAttached'
  <2> SUFFICES ASSUME TypeOK, OwnRequest, NothingElseAttached,
                      [Next]_vars, NEW v \in WaitSets
               PROVE  Attachments(v)'
    BY DEF NothingElseAttached
  <2>0. Attachments(v)
    BY DEF NothingElseAttached
  <2> USE DEF TypeOK
  \* A step that does not concern wait set v.
  <2> DEFINE Same == /\ pc'[v] = pc[v] /\ request'[v] = request[v]
                     /\ attached'[v] = attached[v] /\ pending'[v] = pending[v]
                     /\ active'[v] = active[v]
  <2>1. Same => Attachments(v)'
    BY <2>0 DEF Attachments, LeftBehind, Leaves, Own, ReadsOf, StatusesOf, Handles
  <2>2. pc[v] # "idle" => request[v] \in Requests[v]
    BY DEF OwnRequest
  <2>3. LeftBehind(v)' = LeftBehind(v)
    BY DEF LeftBehind, Leaves, Own, ReadsOf, StatusesOf
  <2>4. /\ request[v] \in Request
        /\ request[v].subs \subseteq Own(request[v])
        /\ request[v].guards \subseteq Own(request[v])
        /\ request[v].services \subseteq Own(request[v])
        /\ request[v].clients \subseteq Own(request[v])
        /\ StatusesOf(request[v]) \subseteq Own(request[v])
        /\ Own(request[v]) \subseteq Handles(request[v]) \cup StatusesOf(request[v])
    BY DEF Own, ReadsOf, Handles
  <2> HIDE DEF Same
  <2>5. ASSUME NEW w \in WaitSets, w # v, Waiter(w) PROVE Same
    <3>1. ASSUME NEW r \in Requests[w], CallWait(w, r) PROVE Same
      BY <2>5, <3>1 DEF CallWait, Same
    <3>2. CASE Attaching(w)
      BY <2>5, <3>2 DEF Attaching, AttachSubscriptions, EventsMissing,
           SetEnabledStatuses, AttachRemaining, AttachFails, Leave, Same
    <3>3. CASE Waiting(w)
      BY <2>5, <3>3 DEF Waiting, WaitReturns, WaitTimesOut, WaitFails, LeaveWait,
           Leave, Same
    <3>4. CASE Examining(w)
      BY <2>5, <3>4 DEF Examining, HandleSubscriptions, HandleEvent, HandleGuard,
           HandleServicesAndClients, Detach, Same
    <3>5. CASE Dispatching(w)
      BY <2>5, <3>5 DEF Dispatching, TakeSample, TakeEvent, SeeWork, Finish, Leave, Same
    <3>6. QED
      BY <2>5, <3>1, <3>2, <3>3, <3>4, <3>5 DEF Waiter
  <2>6. ASSUME NEW r \in Requests[v], CallWait(v, r) PROVE Attachments(v)'
    <3>1. pc[v] = "idle" /\ pc'[v] = "attach" /\ attached'[v] = attached[v]
      BY <2>6 DEF CallWait
    <3> QED
      BY <2>0, <2>3, <3>1 DEF Attachments
  <2>7. ASSUME Attaching(v) PROVE Attachments(v)'
    <3>1. CASE AttachSubscriptions(v)
      <4>1. /\ pc[v] = "attach" /\ pc'[v] = "gather" /\ request'[v] = request[v]
            /\ attached'[v] = attached[v] \cup request[v].subs
        BY <3>1 DEF AttachSubscriptions
      <4> QED
        BY <2>0, <2>3, <4>1 DEF Attachments
    <3>2. CASE EventsMissing(v)
      <4>1. /\ pc[v] = "gather" /\ pc'[v] = "idle" /\ attached'[v] = attached[v]
            /\ ~request[v].hasEvents
        BY <3>2 DEF EventsMissing, Leave
      <4>2. request[v].subs \subseteq LeftBehind(v)
        BY <2>2, <4>1, LeavesFacts
      <4> QED
        BY <2>0, <2>3, <4>1, <4>2 DEF Attachments
    <3>3. ASSUME NEW x \in Statuses, SetEnabledStatuses(v, x) PROVE Attachments(v)'
      <4>1. /\ pc[v] = "gather" /\ pc'[v] = "gather" /\ request'[v] = request[v]
            /\ attached'[v] = attached[v]
        BY <3>3 DEF SetEnabledStatuses
      <4> QED
        BY <2>0, <2>3, <4>1 DEF Attachments
    <3>4. CASE AttachRemaining(v)
      <4>1. /\ pc[v] = "gather" /\ pc'[v] = "wait" /\ request'[v] = request[v]
            /\ attached'[v] = attached[v] \cup StatusesOf(request[v]) \cup request[v].guards
                 \cup request[v].services \cup request[v].clients
        BY <3>4 DEF AttachRemaining
      <4>2. attached'[v] \subseteq LeftBehind(v) \cup Own(request[v])
        BY <2>0, <2>4, <4>1 DEF Attachments
      <4>3. Own(request[v])' = Own(request[v])
        BY <4>1 DEF Own, ReadsOf, StatusesOf
      <4> QED
        BY <2>3, <4>1, <4>2, <4>3 DEF Attachments
    <3>5. CASE AttachFails(v)
      <4>1. pc[v] # "idle" /\ pc'[v] = "idle" /\ pc[v] \in {"attach", "gather"}
        BY <3>5 DEF AttachFails, Leave
      <4>2. Own(request[v]) \subseteq LeftBehind(v)
        <5>1. MaxFailures > 0
          BY <3>5, BoundAssumption DEF AttachFails
        <5> QED
          BY <2>2, <4>1, <5>1, LeavesFacts
      <4>3. attached'[v] \subseteq attached[v] \cup Own(request[v])
        <5>1. \A i \in DOMAIN AttachGroups(v) : AttachGroups(v)[i] \subseteq Own(request[v])
          BY <2>4 DEF AttachGroups
        <5>2. PICK i \in DOMAIN AttachGroups(v) : \E done \in SUBSET AttachGroups(v)[i] :
                attached' = [attached EXCEPT ![v] =
                  @ \cup done \cup UNION {AttachGroups(v)[j] : j \in 1..(i-1)}]
          BY <3>5 DEF AttachFails
        <5>3. \A j \in 1..(i-1) : j \in DOMAIN AttachGroups(v)
          BY DEF AttachGroups
        <5>4. UNION {AttachGroups(v)[j] : j \in 1..(i-1)} \subseteq Own(request[v])
          BY <5>1, <5>3
        <5> QED
          BY <5>1, <5>2, <5>4
      <4>4. attached[v] \subseteq LeftBehind(v) \cup Own(request[v])
        BY <2>0, <2>4, <4>1 DEF Attachments
      <4> QED
        BY <2>3, <4>1, <4>2, <4>3, <4>4 DEF Attachments
    <3> QED
      BY <2>7, <3>1, <3>2, <3>3, <3>4, <3>5 DEF Attaching
  <2>8. ASSUME Waiting(v) PROVE Attachments(v)'
    <3>1. CASE WaitFails(v)
      <4>1. pc[v] = "wait" /\ pc'[v] = "idle" /\ attached'[v] = attached[v] /\ MaxFailures > 0
        BY <3>1, BoundAssumption DEF WaitFails, Leave
      <4>2. Own(request[v]) \subseteq LeftBehind(v)
        BY <2>2, <4>1, LeavesFacts
      <4> QED
        BY <2>0, <2>3, <4>1, <4>2 DEF Attachments
    <3>2. ASSUME NEW S \in SUBSET attached[v], LeaveWait(v, S) PROVE Attachments(v)'
      <4>1. /\ pc[v] = "wait" /\ pc'[v] = "examine" /\ request'[v] = request[v]
            /\ attached'[v] = attached[v] /\ active'[v] = S
            /\ pending'[v] = Handles(request[v])
        BY <3>2 DEF LeaveWait
      <4>2. Own(request[v])' = Own(request[v]) /\ Handles(request[v])' = Handles(request[v])
        BY <4>1 DEF Own, ReadsOf, StatusesOf, Handles
      <4>3. StatusesOf(request[v]) \subseteq LeftBehind(v)
        BY <2>2, <4>1, LeavesFacts
      <4>4. /\ attached[v] \subseteq LeftBehind(v) \cup Own(request[v])
            /\ attached[v] \subseteq LeftBehind(v) \cup Handles(request[v])
        BY <2>0, <2>4, <4>1, <4>3 DEF Attachments
      <4> QED
        BY <2>3, <4>1, <4>2, <4>4 DEF Attachments
    <3>3. TriggeredIn(v) \in SUBSET attached[v] /\ {} \in SUBSET attached[v]
      BY DEF TriggeredIn
    <3> QED
      BY <2>8, <3>1, <3>2, <3>3 DEF Waiting, WaitReturns, WaitTimesOut
  <2>9. ASSUME Examining(v) PROVE Attachments(v)'
    <3>1. pc[v] = "examine" /\ request'[v] = request[v]
      BY <2>9 DEF Examining, HandleSubscriptions, HandleEvent, HandleGuard,
         HandleServicesAndClients
    <3>2. /\ attached[v] \subseteq LeftBehind(v) \cup pending[v]
          /\ active[v] \subseteq LeftBehind(v) \cup Own(request[v])
          /\ pending[v] \subseteq Handles(request[v])
      BY <2>0, <3>1 DEF Attachments
    <3>3. Own(request[v])' = Own(request[v]) /\ Handles(request[v])' = Handles(request[v])
      BY <3>1 DEF Own, ReadsOf, StatusesOf, Handles
    <3>4. ASSUME pc'[v] = "examine", active'[v] = active[v], pending'[v] \subseteq pending[v],
                 attached'[v] \subseteq LeftBehind(v) \cup pending'[v]
          PROVE  Attachments(v)'
      BY <2>3, <3>2, <3>3, <3>4 DEF Attachments
    <3>a. ASSUME NEW S \in SUBSET Conditions, Detach(v, S), S \subseteq Own(request[v])
          PROVE  attached'[v] \subseteq LeftBehind(v) \cup (pending[v] \ S)
      <4>1. CASE MaxFailures = 0
        BY <3>2, <3>a, <4>1, DetachFacts
      <4>2. CASE MaxFailures > 0
        <5>1. Own(request[v]) \subseteq LeftBehind(v)
          BY <2>2, <3>1, <4>2, LeavesFacts
        <5> QED
          BY <3>2, <3>a, <5>1, DetachFacts
      <4> QED
        BY <4>1, <4>2, BoundAssumption
    <3>b. Own(request[v]) \subseteq Conditions
      BY <2>4, RequestFacts DEF Own, Conditions
    <3>5. CASE HandleSubscriptions(v)
      <4> DEFINE S == request[v].subs \cap pending[v]
      <4>1. /\ pc'[v] = "examine" /\ active'[v] = active[v]
            /\ Detach(v, S) /\ pending'[v] = pending[v] \ S
        BY <3>1, <3>5 DEF HandleSubscriptions
      <4>2. S \in SUBSET Conditions /\ S \subseteq Own(request[v])
        BY <2>4, <3>b
      <4> QED
        BY <3>4, <3>a, <4>1, <4>2
    <3>6. ASSUME NEW e \in Events, HandleEvent(v, e) PROVE Attachments(v)'
      <4>1. /\ pc'[v] = "examine" /\ active'[v] = active[v] /\ attached'[v] = attached[v]
            /\ pending'[v] = pending[v] \ {e}
        BY <3>1, <3>6 DEF HandleEvent
      <4>2. e \notin attached[v]
        BY ConditionsDisjoint DEF Conditions
      <4> QED
        BY <3>2, <3>4, <4>1, <4>2
    <3>7. ASSUME NEW g \in Guards, HandleGuard(v, g) PROVE Attachments(v)'
      <4>1. /\ pc'[v] = "examine" /\ active'[v] = active[v]
            /\ Detach(v, {g}) /\ pending'[v] = pending[v] \ {g} /\ g \in pending[v]
        BY <3>1, <3>7 DEF HandleGuard
      <4>2. {g} \in SUBSET Conditions /\ {g} \subseteq Own(request[v])
        <5>1. g \in Handles(request[v]) /\ g \notin request[v].events
          BY <3>2, <4>1, RequestFacts, ConditionsDisjoint
        <5> QED
          BY <5>1 DEF Conditions, Handles, Own
      <4> QED
        BY <3>4, <3>a, <4>1, <4>2
    <3>8. CASE HandleServicesAndClients(v)
      <4>1. /\ pc'[v] = "returned"
            /\ pending[v] \subseteq request[v].services \cup request[v].clients
            /\ Detach(v, request[v].services \cup request[v].clients)
        BY <3>8 DEF HandleServicesAndClients
      <4>2. attached'[v] \subseteq LeftBehind(v)
        <5>1. request[v].services \cup request[v].clients \subseteq Own(request[v])
          BY <2>4
        <5> QED
          BY <3>a, <3>b, <4>1, <5>1
      <4> QED
        BY <2>3, <4>1, <4>2 DEF Attachments
    <3> QED
      BY <2>9, <3>5, <3>6, <3>7, <3>8 DEF Examining
  <2>10. ASSUME Dispatching(v) PROVE Attachments(v)'
    <3>1. pc[v] = "returned" /\ pc'[v] \in {"returned", "idle"} /\ attached'[v] = attached[v]
      BY <2>10 DEF Dispatching, TakeSample, TakeEvent, SeeWork, Finish, Leave
    <3> QED
      BY <2>0, <2>3, <3>1 DEF Attachments
  <2>11. ASSUME Environment PROVE Same
    BY <2>11 DEF Environment, PostWork, TriggerGuardCondition, DataArrives,
       StatusChanges, waiters, Same
  <2>12. CASE UNCHANGED vars
    BY <2>12, <2>1 DEF vars, Same
  <2>13. ASSUME NEW w \in WaitSets, Waiter(w) PROVE Attachments(v)'
    <3>1. CASE w # v
      BY <2>1, <2>5, <2>13, <3>1
    <3>2. CASE w = v
      BY <2>6, <2>7, <2>8, <2>9, <2>10, <2>13, <3>2 DEF Waiter
    <3> QED
      BY <3>1, <3>2
  <2> QED
    BY <2>1, <2>11, <2>12, <2>13 DEF Next
<1> QED
  BY <1>1, <1>2, TypeCorrect, RequestInvariant, PTL DEF Spec

\* If every call of a caller asks for whatever the caller's calls can leave attached
\* (the same events each time; an event list always; with DDS failures the same
\* handles each time), a call leaves the DDS wait only for a condition it was given,
\* as wait.hpp 343 says: the leak of conditions is all that can make it untrue.
THEOREM WokenByOwnUnlessLeft ==
  (\A w \in WaitSets : \A q, r \in Requests[w] : Leaves(q) \subseteq Own(r))
    => (Spec => []WokenByOwnCondition)
<1> SUFFICES ASSUME \A w \in WaitSets : \A q, r \in Requests[w] : Leaves(q) \subseteq Own(r)
             PROVE  Spec => []WokenByOwnCondition
  OBVIOUS
<1>1. OwnRequest /\ NothingElseAttached => WokenByOwnCondition
  <2> SUFFICES ASSUME OwnRequest, NEW w \in WaitSets, Attachments(w), pc[w] = "examine",
                      active[w] # {}
               PROVE  active[w] \cap Own(request[w]) # {}
    BY DEF WokenByOwnCondition, Own, NothingElseAttached
  <2>1. request[w] \in Requests[w]
    BY DEF OwnRequest
  <2>2. LeftBehind(w) \subseteq Own(request[w])
    BY <2>1 DEF LeftBehind
  <2>3. active[w] \subseteq Own(request[w])
    BY <2>2 DEF Attachments
  <2> QED
    BY <2>3
<1> QED
  BY <1>1, RequestInvariant, AttachmentsInvariant, PTL

=============================================================================
