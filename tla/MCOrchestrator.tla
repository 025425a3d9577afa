---------------------------- MODULE MCOrchestrator ----------------------------
(***************************************************************************)
(* Instance of Orchestrator for TLC: a gated and an ungated task that one  *)
(* agent may run, and a workflow task nobody is eligible for.              *)
(***************************************************************************)
EXTENDS Orchestrator

CONSTANTS gated, plain, orphan, agent, project

MCTasks == {gated, plain, orphan}
MCProjectOf == [t \in MCTasks |-> project]
MCEligible == [t \in MCTasks |-> IF t = orphan THEN {} ELSE {agent}]
===============================================================================
