--------------------------- MODULE MCWorkflowEngine ---------------------------
(***************************************************************************)
(* Instance of WorkflowEngine for TLC: "build" depends on "plan", "ship"   *)
(* is independent; build and ship need an approval.  The drafts differ in  *)
(* what a failure does, who takes part, and which limit is reached.        *)
(***************************************************************************)
EXTENDS WorkflowEngine

CONSTANTS plan, build, ship, a1, a2

MCSpecs == {plan, build, ship}
MCPosition == [s \in MCSpecs |-> CASE s = plan -> 1 [] s = build -> 2 [] s = ship -> 3]
MCDependsOn == [s \in MCSpecs |-> IF s = build THEN {plan} ELSE {}]
MCSpecAgentId == [s \in MCSpecs |-> IF s = build THEN a2 ELSE NoAgent]
MCEligibleFor == [s \in MCSpecs |-> IF s = plan THEN {a1} ELSE IF s = build THEN {a1, a2} ELSE {a2}]
AllAgents == [s \in MCSpecs |-> {a1, a2}]

Draft(behavior, participants, executions, hops, calls) ==
    [failureBehavior |-> behavior, participatingAgents |-> participants,
     maxAgentExecutions |-> executions, maxHandoffs |-> hops, maxToolCalls |-> calls]
MCDrafts ==
    {Draft("abort", {a1, a2}, 6, 1, 2), Draft("continue", {a1, a2}, 3, 1, 3),
     Draft("continue", {a1}, 6, 1, 3), Draft("abort", {a1, a2}, 6, 0, 3)}
===============================================================================
