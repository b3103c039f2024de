# A verification project for rmw_coredx

`rmw_coredx` implements the ROS 2 middleware interface (`rmw`) on the CoreDX DDS:
nodes, publishers, subscriptions, services, clients, wait sets and graph queries.
These TLA+ modules model its control, TLC checks them on small instances, and
TLAPS proves the central invariants for every instance. Paths below are relative
to the repository; `R/` stands for `rmw_coredx_cpp/src/` and `srv.em` for
`rosidl_typesupport_coredx_cpp/resource/srv__type_support.cpp.em`.

## Inventory

| Component | State | Operations | What is hard | What makes it correct |
|---|---|---|---|---|
| Waiting (`R/wait.hpp`, `R/rmw_trigger_guard_condition.cpp`) | conditions attached to a DDS wait set; trigger values; status masks; the active set of a call | `rmw_wait`, `rmw_trigger_guard_condition`, takes after the wait | other threads trigger, take and wait between any two steps; error returns in the middle; conditions shared by callers | no wake-up is lost; a call blocks on exactly what it asked for; reported handles have something to take |
| Graph discovery (`R/custom_listeners.cpp`) | per listener a list of descriptors and a map from topics to multisets of types | `on_data_available`: add, remove, trigger | callbacks on middleware threads; samples sent again, removals without data, any order | list and map agree; they agree with the endpoints that exist; every change is announced |
| Graph queries (`R/rmw_count_*.cpp`, `R/rmw_get_topic_names_and_types.cpp`, `R/rmw_get_service_names_and_types.cpp`, `R/rmw_get_node_names.cpp`) | none | read the caches; list the participants and read them one by one | two caches read one after the other, without a lock; participants that go during a query | answers equal the endpoints' numbers, names and types; each node name is at the place of its participant |
| Life cycle of publishers, subscriptions, services, clients (`R/rmw_create_*.cpp`, `R/rmw_destroy_*.cpp`) | DDS objects, handle, info structure | create, destroy | each step may fail; topics shared by threads; destruction fails half-way | nothing is left behind; nothing is deleted twice; trying again succeeds |
| Requests and responses (`R/rmw_send_request.cpp`, ..., `srv.em`, `R/rmw_service_server_is_available.cpp`) | readers' queues; request identities; matched endpoints | send/take request/response; is available | two directions are matched separately; sequence numbers split in halves; servers come and go | responses reach their own requests; each request is served once; an available server answers |
| Life cycle of nodes (`R/rmw_create_node.cpp`, `R/rmw_destroy_node.cpp`), init and shutdown (`R/rmw_init.cpp`, `R/rmw_shutdown.cpp`) | participant, listeners, guard condition; options, context | create, destroy; set up, shut down | callbacks while they are being built or torn down; a shutdown in the middle of a creation | a callback finds its listener and guard condition; a node is whole or gone |
| Names (`R/names.cpp`, `R/rmw_get_service_names_and_types.cpp`) | none | mangle, demangle | off-by-one, collisions | demangling inverts mangling |
| QoS (`R/util.cpp`) | none | profile to DDS QoS | 64-bit depth in a 32-bit field | the depth is what was requested, or an error |
| Publish, take, serialize (`R/rmw_publish*.cpp`, `R/take.h`, `R/rmw_serialize.cpp`, `msg__type_support*.em`) | loans; messages and buffers that are used again | write, take, convert and serialize one sample | loans on error paths, invalid samples, conversions that break off at a field | a loan is returned; nothing is reported taken that was not, and no mixture of two samples |
| GIDs, matched counts, liveliness, wide strings, identifiers, logging, build files and generators | none or constant | copies, comparisons, one forwarded DDS call | nothing | - |

How they interact: an application thread calls `rmw_wait` with handles of its
entities; DDS blocks it until a condition's trigger value is true; the handles
left non-null tell it what to take. The listeners of a node run in DDS threads,
fill the caches that graph queries read, and call `rmw_trigger_guard_condition`
on the node's graph guard condition, which other threads wait for. Entities are
created in the node's participant and share its topics. A client asks
`rmw_service_server_is_available` before it sends.

## Plan

The order of work, most important first. All of it exists; what is left is named.

1. `WaitContract`, `WaitSet`: the promise about guard conditions, and `rmw_wait`
   as its implementation; proofs in `WaitSetProofs`.
2. `GraphCache`: the listeners and the queries, and `ServiceNames`, the service query
   on top of the caches, with `GraphCacheProofs`; `GraphEvents`: listeners, guard
   condition and observers composed through `WaitContract`, with `GraphEventProofs`.
3. `EntityLifecycle`: creation and destruction of the four kinds of entities, with
   `EntityProofs`.
4. `ServiceCall`, `ServiceRpc`: the promise of a service, and requests, responses and
   availability as its implementation, with `ServiceRpcProofs`.
5. `NodeLifecycle`, `NodeNames`: contexts, nodes, listeners and callbacks, and the query
   of node names beside them, with `NodeProofs`.
6. `Qos`: profiles and DDS QoS, with `QosProofs`.
7. `MessageFlow`: publishing, taking and serializing with both type supports, with
   `MessageProofs`.
8. Left: wait sets and guard conditions that are destroyed (see "Not modelled").

## Modules

### WaitSet and WaitContract

A *waiter* is a wait set with the one thread that uses it. `pc[w]` is where its
call is: `attach` (the loop over the subscriptions, `R/wait.hpp` 204-229),
`gather` (`__gather_event_conditions` and the remaining attach loops), `wait` (the
DDS wait), `examine` (the result loops) and `returned` (the caller takes from the
handles left non-null). `attached`, `active` and `result` are the DDS wait set's
conditions, `active_conditions`, and the handles that are not nulled; `enabled` and
`changed` are the masks and status bits of the status conditions; `trigger` and
`unread` the guard conditions' trigger values and the readers' caches.

| Action | Code |
|---|---|
| `CallWait` | argument checks, `wait.hpp` 179-202 |
| `AttachSubscriptions`, `AttachRemaining` | attach loops 204-229, 239-337 |
| `SetEnabledStatuses`, `EventsMissing` | `__gather_event_conditions` 90-135 |
| `AttachFails` | any of the returns after `check_attach_condition_error` |
| `WaitReturns`, `WaitTimesOut`, `WaitFails` | 343-363 |
| `HandleSubscriptions`, `HandleEvent`, `HandleGuard`, `HandleServicesAndClients` | 365-401, 137-166, 411-446, 448-529 |
| `TriggerGuardCondition` | `rmw_trigger_guard_condition` |
| `TakeSample`, `TakeEvent` | `_take` and the other takes; `rmw_take_event`, which throws |
| `PostWork`, `SeeWork`, `DataArrives`, `StatusChanges`, `Finish` | the application and the middleware (external) |

Attaching a group of conditions is one step when it succeeds, because until the
DDS wait only this thread looks at them; an error may stop it anywhere. Guard
conditions and events are examined one by one, because other threads change
them in between; handles of subscriptions only lose or keep their place by the
active set, which is the call's own. DDS may refuse to detach a condition (`Detach`): each
loop then sets the error message and goes on, and the call ends with `RMW_RET_OK` and the
condition still attached, which the history `refused` remembers (`R/wait.hpp` 397-400,
441-444, 483-486, 524-527). `CallOwnsConditions` says that a successful call leaves behind
these read and guard conditions, and no others. `rmw_take_event` throws: `TakeEvent` takes
nothing, and the caller goes on with its next handle.

`WaitContract` is what `rmw_wait` promises about guard conditions: a call hears
all of its triggered guard conditions at one moment, clears and reports exactly
those, and a successful one leaves none heard and unreported. `WaitSet`
implements it under the refinement mapping `callBar`, `wantedBar`, `heardBar`,
`reportedBar`, with `signal <- trigger`; `GraphEvents` is built on the contract.

`ExclusiveReads` and `ExclusiveStatuses` say that callers share no reader and no
entity's events, as an executor sees to with its callback groups;
`ReportedReadersHaveData` and `EventsEnabled` depend on it, and TLC checks that the
instances satisfy it (`EntitiesAreExclusive`).

### GraphCache and GraphEvents

A listener's state is the list `descriptors`, the map's `keys` and the `count` of
each type in each topic's multiset; `count` says what the map holds for a key and
`keys` whether the key is there. `batch` is the loan of `on_data_available`:
`TakeSamples` takes all that is queued, `ApplySample` handles one sample
(`add_information`, `remove_information`), `TriggerGraphGuardCondition` ends the
callback. Erasing `end()` sets `corrupted`. The endpoints and the queue are the
environment: a creation sends a valid sample, a deletion one or two without data,
an update (bounded by `MaxUpdates`) a valid one again. A take of the callback that fails
(102-105, 150-153) changes nothing and is a stutter. Names are the fully
qualified ones the listener builds from partition and topic; `RosNames` are those
with the prefix `rt`. `SizeOf` is the size of a multiset, which the two counts return.
Queries are atomic: the code has no lock there, which is a
data race outside the model. A sample that is sent again leaves a second entry of its
handle, of which a deletion removes one; `CountsExact`, `TopicsExact` and
`ServicesCutShort` therefore speak of histories without updates, `LiveEndpointsKnown` of
all.

`GraphEvents` composes the listeners with observers that call `rmw_wait` on the
graph guard condition and then query one cache after the other.

### ServiceNames

`RequestTopic` and `ResponseTopic` are the names that `rmw_coredx_process_service_name`
makes, `ServiceOfTopic` and `ServiceTypeOf` take topic and type names apart, and
`ServiceNamesAndTypes` is the answer of `rmw_get_service_names_and_types` over both
caches. A topic's name is a record of prefix, service and suffix, and a service's name a
sequence of characters, because the code cuts off one character more than the suffix
(`CutShort`, `R/rmw_get_service_names_and_types.cpp` 88) although the comments above it
(84-87) only speak of suffix and prefix. `ServicesCutShort` says what comes of it: every
service that has an endpoint is listed, whichever side is known and in whichever cache,
with exactly the types of its endpoints and nothing else, but without its last character,
and services that differ only there are one.

### EntityLifecycle

`Steps` lists what each kind of entity is made of, in the order of the code;
`step` is how far a creation is, `parts` what exists, `fields` which objects the
info structure names, `refused` which deletions DDS refused. A failure at any
step leads to the `failed` state and from there to the fail block (`Unroll`, with
what each kind leaves: `LeftByService`, `LeftByClient`, `Left`). Setting QoS and registering
types belong to the step that follows them. `LookupTopic` and `GetTopic` are
separate steps, as `lookup_topicdescription` and `create_topic` are separate
calls. A DDS object can be deleted only when what it contains is gone (`Rank`).
`DestroyPubSub` and `DestroyPubSubFails` are the two outcomes of one destruction;
a refused one leaves the handle ready for the next. At most one deletion is refused
in each call. The two topic strings of services and clients are left out (they are
freed only on failure).

### ServiceCall and ServiceRpc

`ServiceCall` is what a service promises: a call that was made is accepted at most once
in all lives of a server, answered at most once, and its answer is received at most once,
by the client that called. `ServiceRpc` implements it (`ImplementsServiceCall`) with
`accepted <- served`, `answered <- responded` and `received <- answered`, of which the
first two are histories.

A client has a request writer and a response reader, a service the other two;
`requestMatched` and `responseMatched` are the pairs that discovery has matched.
Sequence numbers travel in two halves: `Half` stands for 2^32 and is small, so that
the instances cross it; `SequenceNumber` joins them (`srv.em` 219, 259, 325) and
`RequestIdentity` splits them (289-290). Readers keep the last `Depth` samples.
`CountRequestReaders` and `CountResponseWriters` are the two counts of
`rmw_service_server_is_available`. A sample without data (`WriterGone`) makes a take
answer FALSE.
`PushedOut` are the requests and responses that a full reader loses, `lost` their
history; `sure` are the requests sent after `is_available` said TRUE. `Respond` is
`rmw_send_response`: `SendResponse`, or `ResponseUnconverted` for the clients in
`Unreadable`, whose responses cannot be converted: the code does not look at what its
callback returns (`R/rmw_send_response.cpp` 81), tells the server OK, and the response
is `lost`. So is a request or a response of such a client that is taken from its reader and
only then cannot be converted: the take throws (`srv.em` 249-254, 329-332), and the sample
is gone (`RequestUnconverted`, `ReplyUnconverted`). A request that cannot be converted
when it is sent changes nothing and has no action; the type support of C answers -1 for
it, which `rmw_send_request` passes on with OK.

### NodeLifecycle and NodeNames

`options` and `context` are the structures of an application: `rmw_init` sets the context
up also when there is no participant factory and its result is an error, and
`rmw_shutdown` does not look whether nodes exist. `pc[n]` follows `rmw_create_node`
(`guard`, `listeners`, `info`, `enable`, `failed`) and `rmw_destroy_node` (`destroying`,
`emptied`, `deleted`); `parts` is the memory of the node, `installed` the listeners on the
built-in readers, `running` those whose callback runs in a thread of the middleware. A
callback may begin whenever the participant is enabled (`CanCallBack`). `StepFails`,
`NameFails` and `ContextGone` (the context was shut down after the participant was made)
lead to the fail block, `Unroll`, which frees everything whether DDS deletes the
participant or not: a participant that it refuses to delete is `leaked`, but was never
enabled and is silent. An enabling that fails only leaves a node that hears nothing.
`DestroyRefused` are the two error returns of `rmw_destroy_node` before anything was
freed. Its third error return (102) needs a null guard condition and is not reachable.
The middleware is assumed to wait for its callbacks before it deletes a participant.

`NodeNames` adds `rmw_get_node_names`: `ListParticipants` takes the handles of the
participants, in any order, and `ReadParticipant` reads one after the other, while
`PeerAppears` and `PeerGoes` change what is there. `names` and `namespaces` are the two
arrays as far as they are filled, `steady` the history of the participants that stayed.
What a participant announces is a constant. The namespace is looked up when the *name* was
found (`R/rmw_get_node_names.cpp` 119 tests `name_found` in place of `ns_found`), and for a
participant that announces no namespace this reads behind the end of the map: the model
then takes any text. A name that is announced empty counts as not announced. That the
first array leaks when the second cannot be initialized (97) is left out.

### Qos

`Wide` stands for 2^32; a profile's numbers go up to `Wide`^2, DDS fields hold
signed or unsigned numbers of `Wide` values. `Narrow` and `Widen` are the casts.
`EntityQosOf` and `Outcome` are `set_entity_qos_from_profile`, `ActualQos` the way back
in `rmw_publisher_get_actual_qos`; `CopyPublisher` is a tool that creates a publisher
with the QoS another one reports. With `Asserts` the assertion of `R/util.cpp` 99 is
compiled in. Without it a depth whose bit 31 is set becomes negative, passes the check
of 102 and is handed to DDS; the properties are about builds with assertions.

### MessageFlow

One subscription, of either type support (`support`) and with or without
`ignore_local_publications`, is used by several threads. Its reader keeps the last `Depth`
samples (`R/util.cpp` 51-55, 94-95): it holds those from `oldest` to the last of `written`,
and one more pushes out the oldest (`Full`, `Write`). Samples without data (`empty`) are
lent in no particular order among them.

A take has up to three steps. `Borrow` (`TakeSample`, `TakeSampleWithoutData`) is the loan;
`ConvertSample` or `ConversionFails` look at the sample and convert it; `ReturnLoan` gives
the loan back, reports and, for a serialized take, serializes. Without a loan it ends at
once (`TakeNoData`, `TakeFails`, `AllocationFails`). What can go wrong on the way is a step
of its own, and `lost` records it for the sample:

| `lost` | Step | Code |
|---|---|---|
| `history` | `Write` | the reader is full |
| `conversion` | `ConversionFails`, `ConversionThrows` | C++ reports an error or throws (`msg__type_support.cpp.em` 453), C reports OK with nothing taken or with a mixture |
| `loan` | `ConversionThrows`, `ReturnLoanFails` | an exception leaves the call past `return_loan` (460); one that fails is ignored by C++, and makes the take of C an error although its sample has been consumed and converted (`msg__type_support_c.cpp.em` 715-750) |
| `serialization` | `SerializeFails` | the message that was taken cannot be serialized, and the caller is told OK nevertheless (`R/rmw_take_serialized.cpp` 69, 108), or C++ throws |

`kind` is which of `rmw_take`, `rmw_take_with_info` and their serialized forms runs; a
thread that uses both plain and serialized takes counts as two. `result` is what the call
reports, `pending` until it has looked at its sample. The type supports differ where a take
fails: that of C then returns what `return_loan` says, and reports OK with nothing taken.

`object` is the message that a thread converts to, field by field: it holds for each
field the number of the sample that the field is from. A thread uses its message again,
so that a conversion that breaks off (`Broken`) leaves fields of two samples.
`FieldKinds` are the kinds of the fields, where a "sequence" is one of elements of a basic
type; `MayBreak` and `MayThrow` say which conversions can fail and throw. That of C hides
two failures (`BreakHidden`): it returns a string, which is TRUE, when a sequence cannot be
made (`msg__type_support_c.cpp.em` 482), and does not look at the result of a nested
message. Values are opaque, apart from the sample they come from.

`buffer` is the serialized message of a thread, which is used again for messages of other
sizes, is written by serialized takes and by `Serialize` (`rmw_serialize`), and may be
published (`PublishSerialized`). A serialized take serializes also when nothing was taken
or the message is not whole (`Contents`): in C++ the message that was constructed; in C the
message was only allocated (`msg__type_support_c.cpp.em` 877) and may be any, or one that
serialize refuses, which leaves the buffer as it was. In the same way `Deserialized` makes
any message of bytes that are no CDR, or a corrupt one, because what `unmarshal_cdr` says
is not looked at, nor what `deserialize` returns. `written`, `got` and `lost` are histories.

## Runs

| Run | Instance and bounds | What it shows |
|---|---|---|
| `waitset_safety` | 2 callers, 1 shared guard condition, subscription, service, client, 2 events of one reader, reader cache of 1, 1 refusal of DDS to attach, wait or detach | no lost wake-up; conditions attached and detached; reported readers have data; masks. The last two hold because each entity has one caller, as in an executor |
| `waitset_live` | 2 callers that share a guard condition, a subscription, an event, 1 failure | work is seen, data is reported; `rmw_wait` implements `WaitContract` |
| `waitset_leak` | 1 caller | disagreement, see below |
| `graph` | 3 endpoints of which 2 are announced, 3 topics (a plain one and a request and a response topic of two services that differ in the last character), 2 types, 1 sample sent again | caches and queries are exact; live endpoints stay known; services are listed cut short |
| `graph_events` | 2 observers, 1 endpoint for each listener | changes are announced; counts settle |
| `entity` | publisher and subscription of one topic, and a client; 2 failures | fail blocks, retry, the race for the topic |
| `entity_rpcs` | a service and a client, 1 failure | disagreement, see below |
| `rpc` | 2 clients (2 and 1 requests), 1 server that restarts once, depth 1, `Half` 2, samples without data, one client whose requests and responses may not be converted, on any of the three ways | identities; `ServiceCall` is implemented; available implies answered |
| `node` | 1 node with both listeners, the context, 2 other participants (one without a namespace) that come and go, 3 failures | callbacks, unrolling, shutdown in a creation, retried destruction, node names |
| `qos` | `Wide` 8, every depth from 0 to 63, times around the limits | depth, report, copy |
| `messages` | 2 writers (one local), 2 threads (one plain, one serialized with info), 2 messages of different size, 2 fields (a nested message, whose failure C hides, and a wide string, whose failure it reports), a reader of depth 1, 2 samples, 1 without data, 1 failure, both type supports | delivery and loans, no mixture of samples, buffers, progress |
| `message_sender` | the same with 1 sample and no failure | disagreement, see below |

The bounds are the smallest at which the hazard occurs: two callers to clear each
other's guard condition, two events to merge masks, an update and a deletion to
leave an entry, two threads to race for one topic, two failures to fail in a
creation and again in its fail block, a sequence number beyond `Half`, a depth of 1 so
that a second request pushes out the first, three failures to fail a creation, its
fail block and a destruction of the next node, two threads and two samples to reorder
deliveries, a depth of 1 so that the second pushes out the first unless it is on loan, a
buffer that has held the shorter message when the longer one comes, a field of each way to
fail with another before or behind it, two participants to confuse, two services to be
taken for one. Nodes
share only the context in the code, so that one is enough.
`CHECK_DEADLOCK FALSE` is set where the environment is bounded (endpoints, requests,
publishers) and observers may rightly block for ever, and for nodes because a leaked
participant is the end of a node.

Disagreements between the code and its comments, each shown by a run:
- `graph`: services are reported without their last character
  (`R/rmw_get_service_names_and_types.cpp` 88, against the comments of 84-87). The run
  passes: `ServicesCutShort` states what is reported instead.
- `waitset_leak`: status conditions are attached and never detached, and wake later
  calls that did not ask for them (`R/wait.hpp` 241, 343).
- `entity_rpcs`: the fail blocks of services and clients do not unroll everything
  (`R/rmw_create_service.cpp` 106, 190; `R/rmw_create_client.cpp` 105, 186).
- `message_sender`: the C type support does not store the sender's handle unless local
  publications are ignored (`msg__type_support_c.cpp.em` 686-703), and
  `rmw_take_with_info` copies an uninitialised one.

Met while modelling, and part of the models:
- a condition that DDS refuses to detach stays attached, and `rmw_wait` reports OK
  (`R/wait.hpp` 398);
- an endpoint whose sample is sent twice leaves an entry behind when it is deleted
  (`R/custom_listeners.cpp` 69);
- `set_enabled_statuses` replaces the mask that another caller of the same entity has set
  (`R/wait.hpp` 131), and events are reported from the entity's status, not from the
  active set (155);
- the two counts of `rmw_service_server_is_available` may be of different servers, so that
  `AvailableThenAnswered` is checked with one;
- `rmw_send_response` reports OK for a response that could not be converted (81), and
  requests and responses that cannot be converted are consumed (`srv.em` 251);
- a serialized take reports OK when nothing was serialized
  (`R/rmw_take_serialized.cpp` 69, 108), and a take of C fails after it has consumed and
  converted its sample when the loan is not taken back (`msg__type_support_c.cpp.em` 717);
- a namespace is read from an iterator that may be the map's end
  (`R/rmw_get_node_names.cpp` 119);
- the type support of C reports as taken what it could not convert
  (`msg__type_support_c.cpp.em` 482, and every nested message).

Met while reading, and outside of the models:
- a serialized buffer that cannot be allocated has a null pointer and keeps its capacity
  (`msg__type_support.cpp.em` 494), and C++ serialization reports TRUE also when
  marshalling failed;
- C++ publishing does not free the DDS message when a conversion throws, and a requester or
  replier whose constructor throws leaks its memory (`srv.em` 115-121, 174-180);
- the conversion of wide strings writes the terminator one place behind the text's
  allocation (`wstring_conversion.cpp`);
- the two condition sequences of a wait set's info structure are resized and cleared but
  never constructed (`R/rmw_create_wait_set.cpp`, which allocates the structure as raw
  memory and constructs only the DDS wait set).

## Fairness

- `WaitSet!FairSpec`: a caller that can step does (executors spin, and a call of
  `rmw_wait` runs to its end once DDS lets it), and a thread that has changed what a
  guard condition stands for goes on to trigger it. A caller whose call failed spins on,
  too. Nothing is assumed of samples and status changes.
- `GraphEvents!FairEventSpec`: DDS calls a listener as long as samples are queued, also
  after a take of its callback failed, and a callback ends; observers step. Endpoints may change for ever or stop.
- `EntityLifecycle!FairSpec`: a thread in a call goes on, and a caller whose call
  failed calls again. Nobody has to destroy.
- `ServiceRpc!FairSpec`: servers and clients take what is at their readers, in the
  order it came, well or badly, and a server answers what it took, well or badly. Discovery and sending
  are not fair.
- `NodeLifecycle!FairSpec`, `NodeNames!FairNamesSpec`: a destruction that was begun is
  carried on, with a new call after a refusal, and a callback ends; a query of node names,
  which reads finitely many participants, ends, and its caller frees the answer. Nobody has
  to create or destroy a node, and contexts, other participants and new queries are not
  fair.
- `MessageFlow!FairSpec`: a thread in a take goes on (`ConvertSample`, `ReturnLoan`), and
  takes again while there is something to take (`Borrow`), as executors do; which kind of
  take is its choice. Publishing is not fair, and failures happen when they like.

## Proofs

The theorems of `WaitSetProofs`, `GraphCacheProofs`, `GraphEventProofs`, `EntityProofs`,
`ServiceRpcProofs`, `NodeProofs`, `QosProofs` and `MessageProofs` hold for every value of
the constants under the `ASSUME`s of their modules (disjoint kinds of conditions,
functions of the right type, natural bounds, finitely many listeners and participants,
finitely many type names: a process uses finitely many, and the size of a multiset is
that of a finite one).

Three groups of theorems go beyond the invariants that the runs check. Liveness cannot be
proved here, but its *safety core* can: that the system is never at rest, or a participant
asleep, with something undone (`NoSleepOnWork`, `NoSleepOnEvents`, `KnownAtRest`,
`NoSampleVanishes`, `AvailableIsHeld`). And for each disagreement that a run shows, a
theorem says how far it goes: under which condition the comment is true, or what it is
that is left (`WokenByOwnUnlessLeft`, `RpcsLeaveNoMore`, `SenderIsPublisherUnlessC`).

- `TypeCorrect`, `CacheTypeCorrect`: the type invariants, inductive as they stand.
- `NoWorkIsLost`: `NoLostWork` is not inductive, because `HandleGuard` clears what is
  in `active`. The proof adds that what is in the active set and still to be visited
  during `examine` is a guard condition of the call, so that clearing it and
  reporting it go together.
- `CallsOwnTheirConditions`: follows each loop of a call; the conjunct for `examine`
  says that what is still attached is still to be visited, or DDS refused to detach it.
- `WaitKeepsContract`: the refinement. Each action of `WaitSet` is mapped to an
  action of `WaitContract` or to a stutter; it needs that only a call that has left
  the DDS wait has results (`ResultsInvariant`).
- `ReportedReaders`, `MasksAreEnabled`: under `ExclusiveReads` and `ExclusiveStatuses`. What
  a call was told (its active set while it examines, its result after that) has a sample,
  and nobody else takes it (`Told`); the masks that a call has set while it gathers are
  not replaced by others before it blocks (`MasksSet`). Both need `OwnRequest`: a call's
  arguments are one of its caller's requests, so that exclusivity speaks of them.
- `NoSleepOnWork`, `NoSleepOnEvents`: from `NoLostWork`, `CallOwnsConditions` and
  `EventsEnabled`. A call that blocks has attached everything it asked for, so that a
  trigger value, a sample or an enabled status is in `TriggeredIn`; work whose guard
  condition is not triggered is still being posted or was reported to somebody.
- `WokenByOwnUnlessLeft`: from `NothingElseAttached`, which accounts for every condition on
  a wait set: left behind by some call of its caller (`Leaves`: the status conditions of
  its events, the subscriptions of a call without an event list, anything when DDS
  fails), or of the call in progress and still to be visited. If all calls of the caller
  ask for what is left, a foreign condition cannot wake them.
- `CacheCorrect`, `NothingErasedBadly`: list and map agree, hence the type that
  `remove_information` looks up is in the multiset. The lemmas compute what appending to
  and erasing from the list does to the number of entries with a name and type.
- `MirrorInvariant`: the list of a listener and the samples that are still pending
  (`batch` and then `queue`) together make up the endpoints that exist. Each endpoint is
  known from an entry that no pending removal reaches, or from a pending valid sample; and
  without samples sent again each entry is an endpoint's or about to be removed.
  When nothing is pending, list and endpoints are the same: `LiveEndpointsAreKnown`,
  `TopicsAreExact` and, through the names of topics and types, `ServicesAreCutShort`.
- `CountsAreExact`: `SizeOf` is a fold over a function, which chooses an element, adds its
  number and goes on with the rest. `SizeIsEntries` shows that, for each number of list
  entries, the size of the multiset of a topic is their number. The library's induction
  cannot be cited, so that the two inductions it needs are arguments about a least
  counterexample: of the naturals below which the fold's recursion has a solution
  (`UpTo`, `AddsUpTo`), and of the sets of types by inclusion, which are well founded
  because there are finitely many types (`Least`, `LeastSubset`).
- `ObserversOnlyRead`, `ChangesStayAnnounced`: a step of `GraphEvents` is one of
  `GraphCache` or changes no cache, so that what is proved there holds here; and
  `ChangesAnnounced` is kept by each step, if there is an observer at all, because hearing
  the guard condition and setting out to query go together.
- `KnownAtRest`: from `ChangesAnnounced` and `CountsExact`. With nothing pending and the
  guard condition cleared, some observer has read each cache after its last change, and
  the cache is then exact.
- `EntityTypeCorrect`, `PubSubsAreUnrolled`, `FieldsStayValid`: from `EntityInv`, which
  adds to the type that an info structure names exactly the DDS objects that exist, from
  the step that makes it on and through refused destructions (`FieldsInv`), and that a
  publisher or subscription that is gone has left only what DDS refused to delete and
  what that keeps (`GoneInv`).
- `EntitiesReadyWhole`, `RpcsLeaveNoMore`: from `MadeInv`. A creation has made exactly the
  parts of the steps it has done (`MadeBy`), so that it returns an entity that is whole;
  and what the fail block of a client does not reach is what two or three steps have made,
  that of a service the replier.
- `RpcTypeCorrect`, `OwnResponses`, `RpcKeepsPromise`: from `RpcInv`. On the server's side
  (`ServerInv`) each request is at one place, once: at the reader, taken, or answered; on
  the client's side (`ClientInv`) the responses at the reader and those taken are answers
  that were given, each once. The lemmas about identities show that joining and splitting
  a sequence number are inverse for every width; those about queues, which samples are left
  when one enters a full reader.
- `AvailableIsHeld`: from `Links`, which says that while the one server does not go, what
  `is_available` has counted stays matched, so that a request reaches the server's reader
  and its response the client's. `StepKeepsHeld` then follows a request from place to
  place; a place is left only for the next one or for `lost`.
- `NodeTypeCorrect`, `CallbacksSafe`, `NodesWholeOrGone`: all from `NodeInv`, which says
  what a node has at each point of its life (`AtPoint`). The properties alone are not
  inductive: that a callback is safe after `Enable` needs that the parts were made
  before, and that `Unroll` may free them needs that the participant was never enabled.
- `NamesStandForPeers`: from `NamesInv`, which says of the arrays as far as they are
  filled what the property says of the answer, and that a participant that stayed is
  still discovered. `NodesBesideQueries` carries the three properties of nodes over to
  `NamesSpec`, whose steps are steps of the life cycle or leave it alone.
- `QosTypeCorrect`, `DepthKept`, `RequestReported`, `CopiesAreFaithful`: arithmetic about
  `Narrow` and `Widen` (`NarrowRange`, `WidenKeeps`, `NarrowWidens`), with the products of
  the width abstracted by lemmas because the solver is weak on them. `CheckedDepth` is the
  core of the second: a depth that passes the assertion and the check is its own cast.
  `CopyOf` is that of the last: what a publisher reports asks for just this publisher,
  because casting to 64 bits with the sign extended and back is the identity.
- `MessageTypeCorrect`, `LoansAreReturned`, `BuffersHoldMessages`, `NoMixtureIsTaken`,
  `SenderIsPublisherUnlessC`: from `MessageInv`, which adds to the type what holds of each
  thread (`ThreadInv`): it has one loan while it is in a take; a sample that it will report
  is the one on loan, not to be ignored and with its writer, and its message whole unless
  its own conversion broke off (`ReportInv`); one that it will not report was to be ignored
  or broke (`SkipInv`). The properties alone are not inductive, because the steps of a take
  decide at different times what it reports. A step changes one thread (`OneThread`), so
  that each lemma about a step speaks of that one; `SerializedIsWhole` shows that a buffer
  that was grown holds its message whole, whatever it held before.
- `TakeShape`, `WriteShape`: what the steps mean for samples. A step of a take lends the
  oldest, or moves none, or ends with its sample reported or `Settled`.
- `SamplesDeliveredOnce`: from `DeliveryInv`. Samples leave the reader in ascending order,
  so that all that were lent, reported or pushed out are below `oldest`, each in one of
  these places, and those of one thread in order.
- `NoSampleVanishes`: every sample is `Accounted` for, and one that was pushed out has
  `Depth` others behind it, which is part of `DeliveryInv`.

Only model-checked: liveness (fairness and ENABLED are beyond the prover). Every invariant
and every action property that a passing run checks is a theorem.

## Not modelled

- The values of fields: their conversion is generated code that copies them; the
  truncation of strings that are longer than their bound is left out. So are wide strings,
  of which `MessageFlow` keeps only that their conversion may fail or throw.
- Creation and destruction of wait sets and guard conditions (`R/rmw_create_wait_set.cpp`,
  `R/rmw_destroy_wait_set.cpp`, `R/rmw_destroy_guard_condition.cpp`): each is one
  allocation or one destructor. The interesting case, a condition that is deleted while a
  wait set still holds it, is decided inside CoreDX, and the sources do not tell how; this
  is why the component is only partly modelled. `WaitSet` does show what stays attached.
- GIDs (a copy and a comparison), matched counts and liveliness (one forwarded DDS call
  each), the queries by node (`R/rmw_get_node_info_and_types.cpp` only reports that they
  are not implemented), identifiers, logging and error strings.
- Argument checks that reject null or foreign handles, durations, allocation of the
  answers of queries over the caches, a serialized buffer that cannot grow.
- The data race between listeners and queries: both are atomic in the models.
- Build files and generators.

CoreDX itself is modelled only as the code uses it: wait sets, conditions, readers with a
history, discovery, topics, and the order in which entities can be deleted.
