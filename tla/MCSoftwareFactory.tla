-------------------------- MODULE MCSoftwareFactory ---------------------------
(***************************************************************************)
(* Instance of SoftwareFactory for TLC.                                    *)
(***************************************************************************)
EXTENDS SoftwareFactory, TLC

\* The requests are interchangeable.
Symmetry == Permutations(Ticks)
===============================================================================
