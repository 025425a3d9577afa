--------------------- MODULE MCSpecialistAssignments --------------------------
(***************************************************************************)
(* Instance of SpecialistAssignments for TLC: two tasks of one project, a  *)
(* directory, the same directory spelled with "./" and "/", and a file     *)
(* beneath it.                                                             *)
(***************************************************************************)
EXTENDS SpecialistAssignments, TLC

MCProjectOf == [t \in Tasks |-> "p1"]
MCPaths == {<<"src">>, <<".", "src", "">>, <<"src", "api">>, <<"src", "api", "x">>, <<"docs">>}
MCScopes == {{<<".", "src", "">>}, {<<"src", "api">>}}

\* Ids, tasks and agents are interchangeable.
Symmetry == Permutations(Assignments) \cup Permutations(Leases) \cup Permutations(Tasks)
            \cup Permutations(Agents)
===============================================================================
