------------------------ MODULE MCExecutionSessions --------------------------
(***************************************************************************)
(* Instance of ExecutionSessions for TLC: two createSession calls with one *)
(* key.  The run of the invariants asks for two persistent sessions, one   *)
(* with a single tool call; the liveness run for one that is not.          *)
(***************************************************************************)
EXTENDS ExecutionSessions, TLC

MCKeyOf == [s \in Sessions |-> "k1"]
MCMaxToolCalls == [s \in Sessions |-> IF s = "tight" THEN 1 ELSE 2]

\* Calls and instances are interchangeable.
Symmetry == Permutations(Calls) \cup Permutations(Instances)
===============================================================================
