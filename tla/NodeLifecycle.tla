---------------------------- MODULE NodeLifecycle ----------------------------
(***************************************************************************)
(* Creation and destruction of nodes (rmw_create_node.cpp,                 *)
(* rmw_destroy_node.cpp), in a context that is set up and shut down at any *)
(* time (rmw_init.cpp, rmw_shutdown.cpp).  A node owns a DDS participant,  *)
(* a listener on each of the participant's two built-in readers, and the   *)
(* graph guard condition that the listeners trigger.  From the moment a    *)
(* participant is enabled, the middleware's threads run the listeners'     *)
(* callbacks at any time: they go through raw pointers to the listener and *)
(* from there to the guard condition.  Any step may fail; whoever destroys *)
(* a node tries again when DDS refuses.                                    *)
(***************************************************************************)
EXTENDS Integers, FiniteSets

CONSTANTS
  Nodes,        \* nodes, each with the thread that creates and destroys it
  Listeners,    \* the publication and the subscription listener
  MaxFailures   \* bound: allocations and DDS calls that fail

ASSUME FailureAssumption == MaxFailures \in Nat
ASSUME ListenersFinite == IsFiniteSet(Listeners)

Memory == {"guard", "handle", "name", "namespace", "info"}
ASSUME MemoryAssumption == Memory \cap Listeners = {}

\* The structures for options of an application.
OptionStructures == {"own", "copy"}

VARIABLES
  options,      \* the option structures that are initialized
  context,      \* whether the context is set up, or zero
  pc,           \* where the creation or destruction of a node is
  participant,  \* the node's participant: none, disabled or enabled
  parts,        \* the memory that is allocated for the node
  installed,    \* listeners set on the built-in readers of the participant
  running,      \* listeners whose callback is running
  contained,    \* the participant holds entities or topics
  failures      \* failures so far

nodes == <<pc, participant, parts, installed, running, contained>>
vars == <<options, context, nodes, failures>>

Init ==
  /\ options = {}
  /\ context = "zero"
  /\ pc = [n \in Nodes |-> "none"]
  /\ participant = [n \in Nodes |-> "none"]
  /\ parts = [n \in Nodes |-> {}]
  /\ installed = [n \in Nodes |-> {}]
  /\ running = [n \in Nodes |-> {}]
  /\ contained = [n \in Nodes |-> FALSE]
  /\ failures = 0

---------------------------------------------------------------------------
(* Options and contexts.                                                   *)

Fail == failures < MaxFailures /\ failures' = failures + 1

\* Options are initialized only when they are zero,
InitOptions(o) ==
  /\ o \notin options
  /\ options' = options \cup {o}
  /\ UNCHANGED <<context, nodes, failures>>

\* and copied only from initialized ones.
CopyOptions(o) ==
  /\ o \notin options
  /\ options # {}
  /\ options' = options \cup {o}
  /\ UNCHANGED <<context, nodes, failures>>

FiniOptions(o) ==
  /\ o \in options
  /\ options' = options \ {o}
  /\ UNCHANGED <<context, nodes, failures>>

\* rmw_init: the context is set up also when there is no participant factory
\* and the result is an error.
InitContext ==
  /\ options # {}
  /\ context' = "up"
  /\ UNCHANGED failures \/ Fail
  /\ UNCHANGED <<options, nodes>>

\* rmw_shutdown does not look for nodes.
Shutdown ==
  /\ context = "up"
  /\ context' = "zero"
  /\ UNCHANGED <<options, nodes, failures>>

---------------------------------------------------------------------------
(* rmw_create_node.                                                        *)

\* The factory creates participants that are not enabled.
CreateParticipant(n) ==
  /\ pc[n] = "none"
  /\ context = "up"
  /\ pc' = [pc EXCEPT ![n] = "guard"]
  /\ participant' = [participant EXCEPT ![n] = "disabled"]
  /\ UNCHANGED <<parts, installed, running, contained, failures>>

\* Faulty variant: the participant is enabled as soon as it can call back.
EnableEarly(n) ==
  /\ pc[n] = "guard"
  /\ pc' = [pc EXCEPT ![n] = "listeners"]
  /\ participant' = [participant EXCEPT ![n] = "enabled"]
  /\ parts' = [parts EXCEPT ![n] = @ \cup {"guard"}]
  /\ UNCHANGED <<installed, running, contained, failures>>

\* Faulty variant: the context is gone, and nothing seems to be made yet.
ReturnAtOnce(n) ==
  /\ pc[n] = "guard"
  /\ context = "zero"
  /\ pc' = [pc EXCEPT ![n] = "none"]
  /\ UNCHANGED <<participant, parts, installed, running, contained, failures>>

\* rmw_create_guard_condition looks at the context once more: it was shut down.
ContextGone(n) ==
  /\ pc[n] = "guard"
  /\ context = "zero"
  /\ pc' = [pc EXCEPT ![n] = "failed"]
  /\ UNCHANGED <<participant, parts, installed, running, contained, failures>>

\* rmw_create_guard_condition: handle and DDS object, or nothing.
CreateGuardCondition(n) ==
  /\ pc[n] = "guard"
  /\ context = "up"
  /\ pc' = [pc EXCEPT ![n] = "listeners"]
  /\ parts' = [parts EXCEPT ![n] = @ \cup {"guard"}]
  /\ UNCHANGED <<participant, installed, running, contained, failures>>

\* The listener of publications, then the one of subscriptions.
CreateListener(n, l) ==
  /\ pc[n] = "listeners"
  /\ l \notin installed[n]
  /\ parts' = [parts EXCEPT ![n] = @ \cup {l}]
  /\ installed' = [installed EXCEPT ![n] = @ \cup {l}]
  /\ UNCHANGED <<pc, participant, running, contained, failures>>

\* A namespace that cannot be copied is not noticed.
CreateHandle(n) ==
  /\ pc[n] = "listeners"
  /\ installed[n] = Listeners
  /\ pc' = [pc EXCEPT ![n] = "info"]
  /\ \/ parts' = [parts EXCEPT ![n] = @ \cup {"handle", "name", "namespace"}] /\ UNCHANGED failures
     \/ parts' = [parts EXCEPT ![n] = @ \cup {"handle", "name"}] /\ Fail
  /\ UNCHANGED <<participant, installed, running, contained>>

\* The handle is there, but not the copy of the name.
NameFails(n) ==
  /\ pc[n] = "listeners"
  /\ installed[n] = Listeners
  /\ Fail
  /\ pc' = [pc EXCEPT ![n] = "failed"]
  /\ parts' = [parts EXCEPT ![n] = @ \cup {"handle", "namespace"}]
  /\ UNCHANGED <<participant, installed, running, contained>>

CreateInfo(n) ==
  /\ pc[n] = "info"
  /\ pc' = [pc EXCEPT ![n] = "enable"]
  /\ parts' = [parts EXCEPT ![n] = @ \cup {"info"}]
  /\ UNCHANGED <<participant, installed, running, contained, failures>>

StepFails(n) ==
  /\ pc[n] \in {"guard", "listeners", "info"}
  /\ Fail
  /\ pc' = [pc EXCEPT ![n] = "failed"]
  /\ UNCHANGED <<participant, parts, installed, running, contained>>

\* The node is returned whether it could be enabled or not.
Enable(n) ==
  /\ pc[n] = "enable"
  /\ pc' = [pc EXCEPT ![n] = "ready"]
  /\ \/ participant' = [participant EXCEPT ![n] = "enabled"] /\ UNCHANGED failures
     \/ UNCHANGED participant /\ Fail
  /\ UNCHANGED <<parts, installed, running, contained>>

\* Faulty variant: the names go unnoticed when the handle is freed.
UnrollWithoutNames(n) ==
  /\ pc[n] = "failed"
  /\ parts' = [parts EXCEPT ![n] = @ \cap {"name", "namespace"}]
  /\ pc' = [pc EXCEPT ![n] = "none"]
  /\ participant' = [participant EXCEPT ![n] = "none"]
  /\ installed' = [installed EXCEPT ![n] = {}]
  /\ UNCHANGED <<running, contained, failures>>

\* The fail block: delete_participant, which DDS may refuse, and then everything
\* else all the same.
Unroll(n) ==
  /\ pc[n] = "failed"
  /\ parts' = [parts EXCEPT ![n] = {}]
  /\ \/ /\ pc' = [pc EXCEPT ![n] = "none"]
        /\ participant' = [participant EXCEPT ![n] = "none"]
        /\ installed' = [installed EXCEPT ![n] = {}]
        /\ UNCHANGED failures
     \/ /\ Fail
        /\ pc' = [pc EXCEPT ![n] = "leaked"]
        /\ UNCHANGED <<participant, installed>>
  /\ UNCHANGED <<running, contained>>

---------------------------------------------------------------------------
(* rmw_destroy_node.                                                       *)

CallDestroy(n) ==
  /\ pc[n] = "ready"
  /\ pc' = [pc EXCEPT ![n] = "destroying"]
  /\ UNCHANGED <<participant, parts, installed, running, contained, failures>>

\* Faulty variant: the listeners are freed before the participant is deleted.
FreeListenersFirst(n) ==
  /\ pc[n] = "destroying"
  /\ pc' = [pc EXCEPT ![n] = "emptied"]
  /\ contained' = [contained EXCEPT ![n] = FALSE]
  /\ parts' = [parts EXCEPT ![n] = @ \ Listeners]
  /\ UNCHANGED <<participant, installed, running, failures>>

\* Faulty variant: what the participant contains is left to delete_participant.
SkipContainedEntities(n) ==
  /\ pc[n] = "destroying"
  /\ pc' = [pc EXCEPT ![n] = "emptied"]
  /\ UNCHANGED <<participant, parts, installed, running, contained, failures>>

\* A participant with topics or entities cannot be deleted.
DeleteContainedEntities(n) ==
  /\ pc[n] = "destroying"
  /\ pc' = [pc EXCEPT ![n] = "emptied"]
  /\ contained' = [contained EXCEPT ![n] = FALSE]
  /\ UNCHANGED <<participant, parts, installed, running, failures>>

\* Faulty variant: nobody waits for the callbacks that are running.
DeleteWithoutWaiting(n) ==
  /\ pc[n] = "emptied"
  /\ ~contained[n]
  /\ pc' = [pc EXCEPT ![n] = "deleted"]
  /\ participant' = [participant EXCEPT ![n] = "none"]
  /\ installed' = [installed EXCEPT ![n] = {}]
  /\ UNCHANGED <<parts, running, contained, failures>>

\* DDS deletes an empty participant when none of its callbacks is running.
DeleteParticipant(n) ==
  /\ pc[n] = "emptied"
  /\ ~contained[n]
  /\ running[n] = {}
  /\ pc' = [pc EXCEPT ![n] = "deleted"]
  /\ participant' = [participant EXCEPT ![n] = "none"]
  /\ installed' = [installed EXCEPT ![n] = {}]
  /\ UNCHANGED <<parts, running, contained, failures>>

\* RMW_RET_ERROR; the caller calls again.
DestroyRefused(n) ==
  /\ pc[n] \in {"destroying", "emptied"}
  /\ Fail
  /\ pc' = [pc EXCEPT ![n] = "destroying"]
  /\ UNCHANGED <<participant, parts, installed, running, contained>>

\* Listeners, guard condition, info structure, names and handle.
FreeNode(n) ==
  /\ pc[n] = "deleted"
  /\ pc' = [pc EXCEPT ![n] = "none"]
  /\ parts' = [parts EXCEPT ![n] = {}]
  /\ UNCHANGED <<participant, installed, running, contained, failures>>

---------------------------------------------------------------------------
(* The middleware and the users of the node.                               *)

CanCallBack(n, l) == participant[n] = "enabled" /\ l \in installed[n]

\* None starts while the participant is being deleted.
CallbackBegins(n, l) ==
  /\ CanCallBack(n, l)
  /\ pc[n] # "emptied"
  /\ l \notin running[n]
  /\ running' = [running EXCEPT ![n] = @ \cup {l}]
  /\ UNCHANGED <<pc, participant, parts, installed, contained, failures>>

\* ... with trigger_graph_guard_condition.
CallbackEnds(n, l) ==
  /\ l \in running[n]
  /\ running' = [running EXCEPT ![n] = @ \ {l}]
  /\ UNCHANGED <<pc, participant, parts, installed, contained, failures>>

\* Publishers, subscriptions, services or clients are created in the node.
UseNode(n) ==
  /\ pc[n] = "ready"
  /\ ~contained[n]
  /\ contained' = [contained EXCEPT ![n] = TRUE]
  /\ UNCHANGED <<pc, participant, parts, installed, running, failures>>

---------------------------------------------------------------------------
Create(n) ==
  \/ CreateParticipant(n) \/ CreateGuardCondition(n) \/ ContextGone(n)
  \/ \E l \in Listeners : CreateListener(n, l)
  \/ CreateHandle(n) \/ NameFails(n) \/ CreateInfo(n) \/ StepFails(n)
  \/ Enable(n) \/ Unroll(n)

Destroy(n) ==
  \/ DeleteContainedEntities(n) \/ DeleteParticipant(n) \/ DestroyRefused(n) \/ FreeNode(n)

InitOrShutdown ==
  \/ \E o \in OptionStructures : InitOptions(o) \/ CopyOptions(o) \/ FiniOptions(o)
  \/ InitContext
  \/ Shutdown

\* What happens to a node changes no option and no context.
NodeStep(n) ==
  /\ \/ Create(n) \/ CallDestroy(n) \/ Destroy(n) \/ UseNode(n)
     \/ \E l \in Listeners : CallbackBegins(n, l) \/ CallbackEnds(n, l)
  /\ UNCHANGED <<options, context>>

Next == InitOrShutdown \/ \E n \in Nodes : NodeStep(n)

Spec == Init /\ [][Next]_vars

\* A destruction that was begun is carried on, with new calls when DDS refuses,
\* and a callback ends.
FairSpec ==
  /\ Spec
  /\ \A n \in Nodes :
       /\ WF_vars(NodeStep(n) /\ Destroy(n))
       /\ \A l \in Listeners : WF_vars(NodeStep(n) /\ CallbackEnds(n, l))

---------------------------------------------------------------------------
(* Properties.                                                             *)

Phases == {"none", "guard", "listeners", "info", "enable", "failed", "leaked", "ready",
           "destroying", "emptied", "deleted"}

TypeOK ==
  /\ options \subseteq OptionStructures
  /\ context \in {"zero", "up"}
  /\ pc \in [Nodes -> Phases]
  /\ participant \in [Nodes -> {"none", "disabled", "enabled"}]
  /\ parts \in [Nodes -> SUBSET (Memory \cup Listeners)]
  /\ installed \in [Nodes -> SUBSET Listeners]
  /\ running \in [Nodes -> SUBSET Listeners]
  /\ \A n \in Nodes : running[n] \subseteq installed[n]
  /\ contained \in [Nodes -> BOOLEAN]
  /\ failures \in 0..MaxFailures

\* Whenever a callback runs or may start, in creation, use and destruction, also
\* after a failure, its listener and the guard condition it triggers exist.
CallbacksAreSafe ==
  \A n \in Nodes : \A l \in Listeners :
    l \in running[n] \/ CanCallBack(n, l) => {l, "guard"} \subseteq parts[n]

\* A creation that failed and a destruction that is complete leave nothing, but
\* for a participant that DDS refused to delete, which is silent.
NothingLeft ==
  \A n \in Nodes :
    /\ pc[n] \in {"none", "leaked"} => parts[n] = {} /\ running[n] = {}
    /\ pc[n] = "none" => participant[n] = "none" /\ ~contained[n]
    /\ pc[n] = "leaked" => participant[n] = "disabled"

\* A node that the caller holds is whole, also when a destruction was refused and
\* is called again; only its namespace may be missing.
NodeIsWhole ==
  \A n \in Nodes : pc[n] \in {"ready", "destroying", "emptied"} =>
    /\ participant[n] # "none"
    /\ (Memory \ {"namespace"}) \cup Listeners \subseteq parts[n]

\* A node exists whole or not at all, although every step may fail and the context
\* may be shut down in the middle of a creation.
WholeOrGone == NothingLeft /\ NodeIsWhole

\* However often DDS refuses and whatever was created in the node, a destruction
\* that is called again and again is completed.
DestructionCompletes == \A n \in Nodes : pc[n] = "destroying" ~> pc[n] = "none"

===========================================================================
