------------------------- MODULE MCDestructiveActions -------------------------
(***************************************************************************)
(* Instance of DestructiveActions for TLC: one request, one operator who   *)
(* asks and two who may approve, and two policies, of which one asks for   *)
(* two persons.                                                            *)
(***************************************************************************)
EXTENDS DestructiveActions, TLC

CONSTANT asker

MCProjectOf == [t \in Targets |-> CHOOSE p \in Projects : TRUE]

Decision(allowed, risk, two) ==
    [allowed |-> allowed, risk |-> risk, requiresMfa |-> two,
     requiresReauthentication |-> FALSE, requiresTwoPersonApproval |-> two]

MCDecisions == {Decision(TRUE, 3, FALSE), Decision(TRUE, 4, TRUE), Decision(FALSE, 4, TRUE)}
MCRequesters == {asker} \X Projects
MCApprovers == (Operators \ {asker}) \X Projects

\* Calls and the two other operators are interchangeable.
Symmetry == Permutations(Calls) \cup Permutations(Operators \ {asker})
===============================================================================
