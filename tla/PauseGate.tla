------------------------------ MODULE PauseGate ------------------------------
(***************************************************************************)
(* What a DownloadHandle promises to the tasks that share it, with none of *)
(* the atomics, tokens and notifications it is made of.                    *)
(*                                                                         *)
(* The operation is running, paused or cancelled; cancelled is for good.   *)
(* A task that asks to go on (wait_if_paused) is let through only while    *)
(* the operation is running, is turned away only once it is cancelled, and *)
(* one of the two happens as soon as the operation stays out of PAUSED.    *)
(***************************************************************************)
CONSTANT Tasks      \* the tasks that share the handle

VARIABLES
  state,            \* "RUNNING", "PAUSED" or "CANCELLED"
  gate              \* gate[t]: "out", "in" (asking), "passed" or "refused"

vars == <<state, gate>>

TypeOK ==
  /\ state \in {"RUNNING", "PAUSED", "CANCELLED"}
  /\ gate \in [Tasks -> {"out", "in", "passed", "refused"}]

Init ==
  /\ state = "RUNNING"
  /\ gate = [t \in Tasks |-> "out"]

Pause ==
  /\ state = "RUNNING"
  /\ state' = "PAUSED"
  /\ UNCHANGED gate

Resume ==
  /\ state = "PAUSED"
  /\ state' = "RUNNING"
  /\ UNCHANGED gate

Cancel ==
  /\ state' = "CANCELLED"
  /\ UNCHANGED gate

Ask(t) ==
  /\ gate[t] # "in"
  /\ gate' = [gate EXCEPT ![t] = "in"]
  /\ UNCHANGED state

Pass(t) ==
  /\ gate[t] = "in"
  /\ state = "RUNNING"
  /\ gate' = [gate EXCEPT ![t] = "passed"]
  /\ UNCHANGED state

Refuse(t) ==
  /\ gate[t] = "in"
  /\ state = "CANCELLED"
  /\ gate' = [gate EXCEPT ![t] = "refused"]
  /\ UNCHANGED state

Next ==
  \/ Pause \/ Resume \/ Cancel
  \/ \E t \in Tasks : Ask(t) \/ Pass(t) \/ Refuse(t)

(***************************************************************************)
(* A gate that could be answered from some point on is answered.           *)
(***************************************************************************)
Fairness == \A t \in Tasks : WF_vars(Pass(t)) /\ WF_vars(Refuse(t))

SafeSpec == Init /\ [][Next]_vars
Spec == SafeSpec /\ Fairness
=============================================================================
