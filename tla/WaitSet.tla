------------------------------ MODULE WaitSet ------------------------------
(***************************************************************************)
(* rmw_wait (wait.hpp, rmw_wait.cpp): one call of rmw_wait on a wait set   *)
(* attaches the conditions of the entities it is given, blocks in the DDS  *)
(* wait, nulls the handles whose conditions did not trigger and detaches   *)
(* what it attached.  A wait set is used by one thread at a time, so a     *)
(* waiter is named by its wait set.  Guard conditions, status masks and    *)
(* reader caches are shared: other threads trigger guard conditions and    *)
(* the middleware delivers samples and status changes between any two      *)
(* steps of a call.                                                        *)
(***************************************************************************)
EXTENDS Integers, FiniteSets

CONSTANTS
  WaitSets,      \* the wait sets, each with a caller that spins on it
  Guards,        \* guard conditions
  Reads,         \* read conditions of subscriptions, services and clients
  Statuses,      \* status conditions of data readers and data writers
  Kinds,         \* the status kinds an event can ask for
  Events,        \* event handles
  EventCond,     \* [Events -> Statuses]: the entity an event belongs to
  EventKind,     \* [Events -> Kinds]: the status bit it asks for
  Requests,      \* [WaitSets -> SUBSET Request]: the calls a caller makes
  MaxSamples,    \* bound: samples a reader cache holds
  MaxFailures    \* bound: loops of a call in which DDS refuses an attach or a
                 \* detach, and waits that fail

Request == [subs : SUBSET Reads, services : SUBSET Reads, clients : SUBSET Reads,
            guards : SUBSET Guards, events : SUBSET Events,
            hasEvents : BOOLEAN, timed : BOOLEAN]

ASSUME ConditionsDisjoint ==
  /\ Guards \cap Reads = {} /\ Guards \cap Statuses = {}
  /\ Guards \cap Events = {} /\ Reads \cap Statuses = {}
  /\ Reads \cap Events = {} /\ Statuses \cap Events = {}
ASSUME EventAssumption ==
  EventCond \in [Events -> Statuses] /\ EventKind \in [Events -> Kinds]
ASSUME RequestAssumption == Requests \in [WaitSets -> SUBSET Request]
ASSUME BoundAssumption == MaxSamples \in Nat /\ MaxFailures \in Nat

VARIABLES
  trigger,   \* trigger value of each guard condition
  unread,    \* number of samples a read condition's reader holds
  changed,   \* the status bits that are set (get_status_changes)
  enabled,   \* mask of each status condition (set_enabled_statuses)
  attached,  \* conditions attached to each wait set
  active,    \* active_conditions of the call in progress
  pc,        \* where the call in progress is
  request,   \* its arguments
  pending,   \* what its current loops have still to visit
  result,    \* handles left non-null; after the return, not yet dispatched
  work,      \* something was done that this guard condition announces
  posting,   \* ... and rmw_trigger_guard_condition is about to be called
  refused,   \* history: conditions that DDS refused to detach from the call
  failures   \* DDS failures so far

environment == <<unread, changed, work, posting>>
vars == <<trigger, unread, changed, enabled, attached, active, pc, request,
          pending, result, work, posting, refused, failures>>

EmptyRequest == [subs |-> {}, services |-> {}, clients |-> {}, guards |-> {},
                 events |-> {}, hasEvents |-> TRUE, timed |-> FALSE]

Init ==
  /\ trigger = [g \in Guards |-> FALSE]
  /\ unread = [r \in Reads |-> 0]
  /\ changed = [x \in Statuses |-> {}]
  /\ enabled = [x \in Statuses |-> Kinds]     \* DDS enables every status
  /\ attached = [w \in WaitSets |-> {}]
  /\ active = [w \in WaitSets |-> {}]
  /\ pc = [w \in WaitSets |-> "idle"]
  /\ request = [w \in WaitSets |-> EmptyRequest]
  /\ pending = [w \in WaitSets |-> {}]
  /\ result = [w \in WaitSets |-> {}]
  /\ work = [g \in Guards |-> FALSE]
  /\ posting = [g \in Guards |-> FALSE]
  /\ refused = [w \in WaitSets |-> {}]
  /\ failures = 0

ReadsOf(r) == r.subs \cup r.services \cup r.clients
StatusesOf(r) == {EventCond[e] : e \in r.events}
Handles(r) == ReadsOf(r) \cup r.guards \cup r.events

Triggered(c) ==
  \/ c \in Guards /\ trigger[c]
  \/ c \in Reads /\ unread[c] > 0
  \/ c \in Statuses /\ changed[c] \cap enabled[c] # {}

---------------------------------------------------------------------------
(* The call: attaching.                                                    *)

CallWait(w, r) ==
  /\ pc[w] = "idle"
  /\ pc' = [pc EXCEPT ![w] = "attach"]
  /\ request' = [request EXCEPT ![w] = r]
  /\ UNCHANGED <<environment, trigger, enabled, attached, active, pending, result, refused, failures>>

\* The call is over, and its arguments are gone.
Leave(w) ==
  /\ pc' = [pc EXCEPT ![w] = "idle"]
  /\ request' = [request EXCEPT ![w] = EmptyRequest]
  /\ pending' = [pending EXCEPT ![w] = {}]
  /\ refused' = [refused EXCEPT ![w] = {}]
  /\ UNCHANGED <<environment, trigger, enabled, active, result>>

\* Faulty variant: the read conditions of the subscriptions are forgotten.
AttachNoSubscription(w) ==
  /\ pc[w] = "attach"
  /\ pc' = [pc EXCEPT ![w] = "gather"]
  /\ pending' = [pending EXCEPT ![w] = StatusesOf(request[w])]
  /\ UNCHANGED <<environment, trigger, enabled, attached, active, request, result, refused, failures>>

\* The loop over the subscriptions; then __gather_event_conditions builds
\* the map from status conditions to masks.
AttachSubscriptions(w) ==
  /\ pc[w] = "attach"
  /\ attached' = [attached EXCEPT ![w] = @ \cup request[w].subs]
  /\ pc' = [pc EXCEPT ![w] = "gather"]
  /\ pending' = [pending EXCEPT ![w] = StatusesOf(request[w])]
  /\ UNCHANGED <<environment, trigger, enabled, active, request, result, refused, failures>>

\* __gather_event_conditions(NULL): RMW_RET_INVALID_ARGUMENT, and the
\* subscriptions' read conditions stay attached.
EventsMissing(w) ==
  /\ pc[w] = "gather"
  /\ ~request[w].hasEvents
  /\ Leave(w)
  /\ UNCHANGED <<attached, failures>>

\* The status kinds the events of a call ask of one status condition.
MaskFor(w, x) == {EventKind[e] : e \in {f \in request[w].events : EventCond[f] = x}}

\* Faulty variant: the mask of the last event replaces those of the others.
SetOneEnabledStatus(w, x) ==
  /\ pc[w] = "gather"
  /\ request[w].hasEvents
  /\ x \in pending[w]
  /\ \E k \in MaskFor(w, x) : enabled' = [enabled EXCEPT ![x] = {k}]
  /\ pending' = [pending EXCEPT ![w] = @ \ {x}]
  /\ UNCHANGED <<environment, trigger, attached, active, pc, request, result, refused, failures>>

SetEnabledStatuses(w, x) ==
  /\ pc[w] = "gather"
  /\ request[w].hasEvents
  /\ x \in pending[w]
  /\ enabled' = [enabled EXCEPT ![x] = MaskFor(w, x)]
  /\ pending' = [pending EXCEPT ![w] = @ \ {x}]
  /\ UNCHANGED <<environment, trigger, attached, active, pc, request, result, refused, failures>>

\* Status conditions, guard conditions, services and clients, in this order.
AttachRemaining(w) ==
  /\ pc[w] = "gather"
  /\ request[w].hasEvents
  /\ pending[w] = {}
  /\ attached' = [attached EXCEPT ![w] =
       @ \cup StatusesOf(request[w]) \cup request[w].guards
         \cup request[w].services \cup request[w].clients]
  /\ pc' = [pc EXCEPT ![w] = "wait"]
  /\ UNCHANGED <<environment, trigger, enabled, active, request, pending, result, refused, failures>>

\* attach_condition fails at some point of the current loops: the call
\* returns RMW_RET_ERROR and leaves attached what it had attached.
AttachGroups(w) ==
  IF pc[w] = "attach" THEN <<request[w].subs>>
  ELSE <<StatusesOf(request[w]), request[w].guards, request[w].services,
         request[w].clients>>

AttachFails(w) ==
  LET groups == AttachGroups(w) IN
  /\ \/ pc[w] = "attach"
     \/ pc[w] = "gather" /\ pending[w] = {} /\ request[w].hasEvents
  /\ failures < MaxFailures
  /\ \E i \in DOMAIN groups : \E done \in SUBSET groups[i] :
       /\ done # groups[i]
       /\ attached' = [attached EXCEPT ![w] =
            @ \cup done \cup UNION {groups[j] : j \in 1..(i-1)}]
  /\ failures' = failures + 1
  /\ Leave(w)

---------------------------------------------------------------------------
(* The DDS wait.  active_conditions is a copy that starts with no          *)
(* condition in it, and DDS fills it with the attached conditions whose    *)
(* trigger value is TRUE.                                                  *)

TriggeredIn(w) == {c \in attached[w] : Triggered(c)}

LeaveWait(w, S) ==
  /\ pc[w] = "wait"
  /\ active' = [active EXCEPT ![w] = S]
  /\ pc' = [pc EXCEPT ![w] = "examine"]
  /\ pending' = [pending EXCEPT ![w] = Handles(request[w])]
  /\ UNCHANGED <<environment, trigger, enabled, attached, request, result, refused, failures>>

WaitReturns(w) == TriggeredIn(w) # {} /\ LeaveWait(w, TriggeredIn(w))

\* RETCODE_TIMEOUT is not an error: the results are examined as usual.
WaitTimesOut(w) ==
  /\ request[w].timed
  /\ TriggeredIn(w) = {}
  /\ LeaveWait(w, {})

\* Any other return code: RMW_RET_ERROR, and everything stays attached.
WaitFails(w) ==
  /\ pc[w] = "wait"
  /\ failures < MaxFailures
  /\ failures' = failures + 1
  /\ Leave(w)
  /\ UNCHANGED attached

---------------------------------------------------------------------------
(* The results: one loop per kind of handle, in the order of the code.     *)

\* detach_condition for every condition of S.  Where DDS refuses it the loop sets
\* the error message and goes on, and so does the call, to RMW_RET_OK.
Detach(w, S) ==
  \E stuck \in SUBSET S :
    /\ IF stuck = {} THEN UNCHANGED failures
       ELSE failures < MaxFailures /\ failures' = failures + 1
    /\ attached' = [attached EXCEPT ![w] = @ \ (S \ stuck)]
    /\ refused' = [refused EXCEPT ![w] = @ \cup stuck]

\* Faulty variant: no handle is nulled.
KeepAllSubscriptions(w) ==
  LET subs == request[w].subs \cap pending[w] IN
  /\ pc[w] = "examine"
  /\ subs # {}
  /\ result' = [result EXCEPT ![w] = @ \cup subs]
  /\ Detach(w, subs)
  /\ pending' = [pending EXCEPT ![w] = @ \ subs]
  /\ UNCHANGED <<environment, trigger, enabled, active, pc, request>>

HandleSubscriptions(w) ==
  LET subs == request[w].subs \cap pending[w] IN
  /\ pc[w] = "examine"
  /\ subs # {}
  /\ result' = [result EXCEPT ![w] = @ \cup (subs \cap active[w])]
  /\ Detach(w, subs)
  /\ pending' = [pending EXCEPT ![w] = @ \ subs]
  /\ UNCHANGED <<environment, trigger, enabled, active, pc, request>>

\* __handle_active_event_conditions reads the status, not active_conditions,
\* and does not detach the status condition.
HandleEvent(w, e) ==
  /\ pc[w] = "examine"
  /\ pending[w] \cap request[w].subs = {}
  /\ e \in pending[w] \cap Events
  /\ result' = [result EXCEPT ![w] =
       IF EventKind[e] \in changed[EventCond[e]] THEN @ \cup {e} ELSE @]
  /\ pending' = [pending EXCEPT ![w] = @ \ {e}]
  /\ UNCHANGED <<environment, trigger, enabled, attached, active, pc, request, refused, failures>>

\* Faulty variants of the loop over the guard conditions, which differ in how
\* they clear the trigger value and report the handle.
VisitGuard(w, g, clear, report) ==
  /\ pc[w] = "examine"
  /\ pending[w] \cap (request[w].subs \cup Events) = {}
  /\ g \in pending[w] \cap Guards
  /\ trigger' = IF clear THEN [trigger EXCEPT ![g] = FALSE] ELSE trigger
  /\ result' = IF report THEN [result EXCEPT ![w] = @ \cup {g}] ELSE result
  /\ Detach(w, {g})
  /\ pending' = [pending EXCEPT ![w] = @ \ {g}]
  /\ UNCHANGED <<environment, enabled, active, pc, request>>

\* ... clears also what the call has not heard,
ClearEveryGuard(w, g) == VisitGuard(w, g, TRUE, g \in active[w])
\* ... clears nothing,
KeepGuardTriggered(w, g) == VisitGuard(w, g, FALSE, g \in active[w])
\* ... nulls the handle that it has cleared.
DropGuard(w, g) == VisitGuard(w, g, g \in active[w], FALSE)

\* A guard condition found in the active set is cleared and kept.
HandleGuard(w, g) ==
  /\ pc[w] = "examine"
  /\ pending[w] \cap (request[w].subs \cup Events) = {}
  /\ g \in pending[w] \cap Guards
  /\ IF g \in active[w]
     THEN /\ trigger' = [trigger EXCEPT ![g] = FALSE]
          /\ result' = [result EXCEPT ![w] = @ \cup {g}]
     ELSE UNCHANGED <<trigger, result>>
  /\ Detach(w, {g})
  /\ pending' = [pending EXCEPT ![w] = @ \ {g}]
  /\ UNCHANGED <<environment, enabled, active, pc, request>>

\* Faulty variant: the read conditions of services and clients stay attached.
LeaveServicesAttached(w) ==
  LET rest == request[w].services \cup request[w].clients IN
  /\ pc[w] = "examine"
  /\ pending[w] \subseteq rest
  /\ result' = [result EXCEPT ![w] = @ \cup (rest \cap active[w])]
  /\ pending' = [pending EXCEPT ![w] = {}]
  /\ active' = [active EXCEPT ![w] = {}]
  /\ pc' = [pc EXCEPT ![w] = "returned"]
  /\ UNCHANGED <<environment, trigger, enabled, attached, request, refused, failures>>

\* Services, then clients; the call returns RMW_RET_OK.
HandleServicesAndClients(w) ==
  LET rest == request[w].services \cup request[w].clients IN
  /\ pc[w] = "examine"
  /\ pending[w] \subseteq rest
  /\ result' = [result EXCEPT ![w] = @ \cup (rest \cap active[w])]
  /\ Detach(w, rest)
  /\ pending' = [pending EXCEPT ![w] = {}]
  /\ active' = [active EXCEPT ![w] = {}]
  /\ pc' = [pc EXCEPT ![w] = "returned"]
  /\ UNCHANGED <<environment, trigger, enabled, request>>

---------------------------------------------------------------------------
(* The caller, between two calls: it takes from what was reported.         *)

\* Faulty variant: the caller takes again from the same handle, and does not
\* look whether a sample was there.
TakeUnchecked(w, r) ==
  /\ pc[w] = "returned"
  /\ r \in result[w] \cap Reads
  /\ unread' = [unread EXCEPT ![r] = @ - 1]
  /\ UNCHANGED <<trigger, changed, enabled, attached, active, pc, request, pending,
                 result, work, posting, refused, failures>>

\* rmw_take, rmw_take_request, rmw_take_response: at most one sample.
TakeSample(w, r) ==
  /\ pc[w] = "returned"
  /\ r \in result[w] \cap Reads
  /\ unread' = [unread EXCEPT ![r] = IF @ > 0 THEN @ - 1 ELSE @]
  /\ result' = [result EXCEPT ![w] = @ \ {r}]
  /\ UNCHANGED <<trigger, changed, enabled, attached, active, pc, request, pending,
                 work, posting, refused, failures>>

\* rmw_take_event is not implemented, it throws: nothing is taken, the status
\* bits stay as they are, and the caller that catches it goes on with the next
\* handle.
TakeEvent(w, e) ==
  /\ pc[w] = "returned"
  /\ e \in result[w] \cap Events
  /\ result' = [result EXCEPT ![w] = @ \ {e}]
  /\ UNCHANGED <<environment, trigger, enabled, attached, active, pc, request, pending, refused, failures>>

\* The caller looks at what the guard condition announces, all of it.
SeeWork(w, g) ==
  /\ pc[w] = "returned"
  /\ g \in result[w] \cap Guards
  /\ work' = [work EXCEPT ![g] = FALSE]
  /\ result' = [result EXCEPT ![w] = @ \ {g}]
  /\ UNCHANGED <<trigger, unread, changed, enabled, attached, active, pc, request,
                 pending, posting, refused, failures>>

Finish(w) ==
  /\ pc[w] = "returned"
  /\ result[w] = {}
  /\ Leave(w)
  /\ UNCHANGED <<attached, failures>>

---------------------------------------------------------------------------
(* Other threads and the middleware.                                       *)

waiters == <<enabled, attached, active, pc, request, pending, result, refused, failures>>

\* A thread changes the state a guard condition stands for, then ...
PostWork(g) ==
  /\ ~posting[g]
  /\ work' = [work EXCEPT ![g] = TRUE]
  /\ posting' = [posting EXCEPT ![g] = TRUE]
  /\ UNCHANGED <<waiters, trigger, unread, changed>>

\* ... calls rmw_trigger_guard_condition.
TriggerGuardCondition(g) ==
  /\ posting[g]
  /\ trigger' = [trigger EXCEPT ![g] = TRUE]
  /\ posting' = [posting EXCEPT ![g] = FALSE]
  /\ UNCHANGED <<waiters, unread, changed, work>>

DataArrives(r) ==
  /\ unread[r] < MaxSamples
  /\ unread' = [unread EXCEPT ![r] = @ + 1]
  /\ UNCHANGED <<waiters, trigger, changed, work, posting>>

StatusChanges(x, k) ==
  /\ k \notin changed[x]
  /\ changed' = [changed EXCEPT ![x] = @ \cup {k}]
  /\ UNCHANGED <<waiters, trigger, unread, work, posting>>

---------------------------------------------------------------------------
Attaching(w) ==
  \/ AttachSubscriptions(w)
  \/ EventsMissing(w)
  \/ \E x \in Statuses : SetEnabledStatuses(w, x)
  \/ AttachRemaining(w)
  \/ AttachFails(w)

Waiting(w) == WaitReturns(w) \/ WaitTimesOut(w) \/ WaitFails(w)

Examining(w) ==
  \/ HandleSubscriptions(w)
  \/ \E e \in Events : HandleEvent(w, e)
  \/ \E g \in Guards : HandleGuard(w, g)
  \/ HandleServicesAndClients(w)

Dispatching(w) ==
  \/ \E r \in Reads : TakeSample(w, r)
  \/ \E e \in Events : TakeEvent(w, e)
  \/ \E g \in Guards : SeeWork(w, g)
  \/ Finish(w)

Waiter(w) ==
  \/ \E r \in Requests[w] : CallWait(w, r)
  \/ Attaching(w)
  \/ Waiting(w)
  \/ Examining(w)
  \/ Dispatching(w)

Environment ==
  \/ \E g \in Guards : PostWork(g) \/ TriggerGuardCondition(g)
  \/ \E r \in Reads : DataArrives(r)
  \/ \E x \in Statuses, k \in Kinds : StatusChanges(x, k)

Next == (\E w \in WaitSets : Waiter(w)) \/ Environment

Spec == Init /\ [][Next]_vars

\* An executor spins: a caller that can step does.  A thread that has posted
\* work goes on to trigger the guard condition.
FairSpec ==
  /\ Spec
  /\ \A w \in WaitSets : WF_vars(Waiter(w))
  /\ \A g \in Guards : WF_vars(TriggerGuardCondition(g))

---------------------------------------------------------------------------
(* Type invariant.                                                         *)

Conditions == Guards \cup Reads \cup Statuses
Phases == {"idle", "attach", "gather", "wait", "examine", "returned"}

TypeOK ==
  /\ trigger \in [Guards -> BOOLEAN]
  /\ unread \in [Reads -> 0..MaxSamples]
  /\ changed \in [Statuses -> SUBSET Kinds]
  /\ enabled \in [Statuses -> SUBSET Kinds]
  /\ attached \in [WaitSets -> SUBSET Conditions]
  /\ active \in [WaitSets -> SUBSET Conditions]
  /\ pc \in [WaitSets -> Phases]
  /\ request \in [WaitSets -> Request]
  /\ pending \in [WaitSets -> SUBSET (Conditions \cup Events)]
  /\ result \in [WaitSets -> SUBSET (Conditions \cup Events)]
  /\ work \in [Guards -> BOOLEAN]
  /\ posting \in [Guards -> BOOLEAN]
  /\ refused \in [WaitSets -> SUBSET Conditions]
  /\ failures \in 0..MaxFailures

---------------------------------------------------------------------------
(* Safety.                                                                 *)

\* No wake-up is lost.  rmw_wait clears a guard condition after the DDS wait
\* returned (wait.hpp:431), so a second trigger may be cleared together with
\* the first one: whatever was announced is still announced by the trigger
\* value, or is about to be, or has been reported to a caller that has not
\* looked yet.
NoLostWork ==
  \A g \in Guards : work[g] =>
    \/ posting[g]
    \/ trigger[g]
    \/ \E w \in WaitSets : g \in result[w]

\* While a call blocks, every condition it asked for is attached; while it
\* examines, only the read and guard conditions it has still to visit are, and
\* those that DDS refused to detach; and when it has returned RMW_RET_OK only
\* the latter are, whatever earlier calls left behind (wait.hpp:397, 441).
CallOwns(w) ==
  LET own == ReadsOf(request[w]) \cup request[w].guards IN
  /\ pc[w] = "gather" => request[w].subs \subseteq attached[w]
  /\ pc[w] = "wait" => own \cup StatusesOf(request[w]) \subseteq attached[w]
  /\ pc[w] = "examine" => own \cap attached[w] \subseteq pending[w] \cup refused[w]
  /\ pc[w] = "returned" => own \cap attached[w] \subseteq refused[w]

CallOwnsConditions == \A w \in WaitSets : CallOwns(w)

\* An executor gives the entities of a callback group to one caller at a time.
ExclusiveReads ==
  \A v, w \in WaitSets : v # w =>
    \A q \in Requests[v], r \in Requests[w] : ReadsOf(q) \cap ReadsOf(r) = {}

ExclusiveStatuses ==
  \A v, w \in WaitSets : v # w =>
    \A q \in Requests[v], r \in Requests[w] : StatusesOf(q) \cap StatusesOf(r) = {}

\* If each reader is waited on and taken from by one caller only
\* (ExclusiveReads), a reader whose handle rmw_wait left non-null still holds
\* a sample to take.
ReportedReadersHaveData ==
  \A w \in WaitSets : \A r \in result[w] \cap Reads : unread[r] > 0

\* If each entity's events are waited on through one wait set
\* (ExclusiveStatuses), a blocked call has enabled exactly the status kinds it
\* asks for (wait.hpp:131).
EventsEnabled ==
  \A w \in WaitSets : pc[w] = "wait" =>
    \A x \in StatusesOf(request[w]) : enabled[x] = MaskFor(w, x)

(* Liveness.                                                               *)

\* Whatever a guard condition announces is seen by a caller, if some caller
\* asks for the guard condition in every call.
WorkIsSeen == \A g \in Guards : work[g] ~> ~work[g]

\* A sample that is there while its reader's caller is in a call is reported.
DataIsReported ==
  \A w \in WaitSets : \A r \in Reads :
    (pc[w] = "wait" /\ r \in ReadsOf(request[w]) /\ unread[r] > 0)
      ~> r \in result[w]

(* Refinement: the promise that rmw_wait makes about guard conditions.     *)

callBar == [w \in WaitSets |->
              CASE pc[w] = "idle" -> "idle"
                [] pc[w] = "returned" -> "done"
                [] OTHER -> "waiting"]
wantedBar == [w \in WaitSets |-> request[w].guards]
heardBar == [w \in WaitSets |->
               IF pc[w] = "examine" THEN active[w] \cap pending[w] \cap Guards ELSE {}]
reportedBar == [w \in WaitSets |-> result[w] \cap Guards]

Contract == INSTANCE WaitContract WITH
  call <- callBar, wanted <- wantedBar, heard <- heardBar, reported <- reportedBar,
  signal <- trigger

\* rmw_wait keeps its promise about guard conditions (WaitContract).
ImplementsContract == Contract!Spec

---------------------------------------------------------------------------
(* What a comment of wait.hpp says and the code does not do.               *)

\* wait.hpp:343: a call leaves the DDS wait when one of the conditions it
\* was given triggers (or its timeout expires).
WokenByOwnCondition ==
  \A w \in WaitSets :
    (pc[w] = "examine" /\ pending[w] = Handles(request[w]) /\ active[w] # {}) =>
      active[w] \cap (ReadsOf(request[w]) \cup request[w].guards
                        \cup StatusesOf(request[w])) # {}

===========================================================================
