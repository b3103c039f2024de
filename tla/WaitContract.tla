---------------------------- MODULE WaitContract ----------------------------
(***************************************************************************)
(* What rmw_wait promises about guard conditions, without wait sets: a     *)
(* call hears some of the guard conditions that are signalled at one       *)
(* moment, reports every one it heard and clears no signal it does not     *)
(* report.  A call that fails has cleared nothing.                         *)
(***************************************************************************)
CONSTANTS WaitSets, Guards

VARIABLES
  call,      \* "idle", "waiting" or "done", for each caller
  wanted,    \* the guard conditions a call asked for
  heard,     \* heard by the call, still to be reported
  reported,  \* reported by the call, not yet looked at by the caller
  signal     \* the guard conditions' trigger values

vars == <<call, wanted, heard, reported, signal>>

Init ==
  /\ call = [w \in WaitSets |-> "idle"]
  /\ wanted = [w \in WaitSets |-> {}]
  /\ heard = [w \in WaitSets |-> {}]
  /\ reported = [w \in WaitSets |-> {}]
  /\ signal = [g \in Guards |-> FALSE]

Begin(w, G) ==
  /\ call[w] = "idle"
  /\ call' = [call EXCEPT ![w] = "waiting"]
  /\ wanted' = [wanted EXCEPT ![w] = G]
  /\ UNCHANGED <<heard, reported, signal>>

Hear(w, G) ==
  /\ call[w] = "waiting"
  /\ heard[w] = {} /\ reported[w] = {}
  /\ G = {g \in wanted[w] : signal[g]}
  /\ heard' = [heard EXCEPT ![w] = G]
  /\ UNCHANGED <<call, wanted, reported, signal>>

Report(w, g) ==
  /\ call[w] = "waiting"
  /\ g \in heard[w]
  /\ heard' = [heard EXCEPT ![w] = @ \ {g}]
  /\ reported' = [reported EXCEPT ![w] = @ \cup {g}]
  /\ signal' = [signal EXCEPT ![g] = FALSE]
  /\ UNCHANGED <<call, wanted>>

Return(w) ==
  /\ call[w] = "waiting"
  /\ heard[w] = {}
  /\ call' = [call EXCEPT ![w] = "done"]
  /\ UNCHANGED <<wanted, heard, reported, signal>>

Fail(w) ==
  /\ call[w] = "waiting"
  /\ heard[w] = {} /\ reported[w] = {}
  /\ call' = [call EXCEPT ![w] = "idle"]
  /\ wanted' = [wanted EXCEPT ![w] = {}]
  /\ UNCHANGED <<heard, reported, signal>>

Look(w, g) ==
  /\ call[w] = "done"
  /\ reported' = [reported EXCEPT ![w] = @ \ {g}]
  /\ UNCHANGED <<call, wanted, heard, signal>>

Leave(w) ==
  /\ call[w] = "done"
  /\ reported[w] = {}
  /\ call' = [call EXCEPT ![w] = "idle"]
  /\ wanted' = [wanted EXCEPT ![w] = {}]
  /\ UNCHANGED <<heard, reported, signal>>

Signal(g) ==
  /\ signal' = [signal EXCEPT ![g] = TRUE]
  /\ UNCHANGED <<call, wanted, heard, reported>>

Next ==
  \/ \E w \in WaitSets :
       \/ \E G \in SUBSET Guards : Begin(w, G) \/ Hear(w, G)
       \/ \E g \in Guards : Report(w, g) \/ Look(w, g)
       \/ Return(w) \/ Fail(w) \/ Leave(w)
  \/ \E g \in Guards : Signal(g)

Spec == Init /\ [][Next]_vars
===========================================================================
