---------------------------- MODULE GatedExecution ----------------------------
(***************************************************************************)
(* What the orchestrator promises about a task's handler, with nothing     *)
(* said about statuses, agents, clocks or commands: it is called at most   *)
(* once, and for a task the approval policy gates only after its request   *)
(* was granted; a request is decided at most once.                         *)
(***************************************************************************)
CONSTANTS
    Tasks,             \* task ids
    RequiresApproval   \* the tasks the approval policy gates

VARIABLES
    phase,      \* where the handler of each task stands
    decision    \* what became of its approval request

gateVars == <<phase, decision>>

Init ==
    /\ phase = [t \in Tasks |-> "new"]
    /\ decision = [t \in Tasks |-> "open"]

(* The handler of an ungated task simply starts.                           *)
StartUngated(t) ==
    /\ phase[t] = "new"
    /\ t \notin RequiresApproval
    /\ phase' = [phase EXCEPT ![t] = "executing"]
    /\ UNCHANGED decision

(* A gated task is set aside.                                              *)
Park(t) ==
    /\ phase[t] = "new"
    /\ t \in RequiresApproval
    /\ phase' = [phase EXCEPT ![t] = "parked"]
    /\ UNCHANGED decision

(* The request of a task that is, or was, parked is granted; its handler   *)
(* may start in the same step.                                             *)
Grant(t) ==
    /\ decision[t] = "open"
    /\ phase[t] \in {"parked", "closed"}
    /\ decision' = [decision EXCEPT ![t] = "granted"]
    /\ \/ UNCHANGED phase
       \/ /\ phase[t] = "parked"
          /\ phase' = [phase EXCEPT ![t] = "executing"]

StartGranted(t) ==
    /\ phase[t] = "parked"
    /\ decision[t] = "granted"
    /\ phase' = [phase EXCEPT ![t] = "executing"]
    /\ UNCHANGED decision

(* Requests are denied, by a human or by their expiry, and a parked task   *)
(* whose request is denied may end in the same step.                       *)
Deny(S) ==
    /\ \A t \in S : decision[t] = "open" /\ phase[t] \in {"parked", "closed"}
    /\ decision' = [t \in Tasks |-> IF t \in S THEN "denied" ELSE decision[t]]
    /\ \/ UNCHANGED phase
       \/ \E t \in Tasks :
             /\ phase[t] = "parked"
             /\ decision'[t] = "denied"
             /\ phase' = [phase EXCEPT ![t] = "closed"]

(* A handler settles, or a task ends without its handler being called.     *)
Close(t) ==
    /\ phase[t] # "closed"
    /\ phase' = [phase EXCEPT ![t] = "closed"]
    /\ UNCHANGED decision

Next ==
    \/ \E t \in Tasks :
          \/ StartUngated(t)
          \/ Park(t)
          \/ Grant(t)
          \/ StartGranted(t)
          \/ Close(t)
    \/ \E S \in SUBSET Tasks : Deny(S)

Spec == Init /\ [][Next]_gateVars
===============================================================================
