--------------------------- MODULE MCExecutionJobs ----------------------------
(***************************************************************************)
(* Instance of ExecutionJobs for TLC: two POSTs that carry the same        *)
(* idempotency key, and two workers.                                       *)
(***************************************************************************)
EXTENDS ExecutionJobs

MCJobs == 1..2
MCKeyOf == [j \in MCJobs |-> "k1"]
===============================================================================
