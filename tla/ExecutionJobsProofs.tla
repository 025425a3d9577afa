------------------------- MODULE ExecutionJobsProofs --------------------------
(***************************************************************************)
(* Proofs about ExecutionJobs for any jobs, keys and workers and any       *)
(* number of failures and overruns: at most one worker runs the current    *)
(* attempt of a job, the attempts bound the handler calls, and nothing but *)
(* the current attempt settles a job.                                      *)
(***************************************************************************)
EXTENDS ExecutionJobs, TLAPS

(* What the properties need to be inductive.  A claim a worker works on is *)
(* never ahead of its job, is behind it once the job is back in the queue, *)
(* and is the current one as long as the lease still names the worker.     *)
ClaimsFollowJobs ==
    \A w \in Workers : at[w] = "executing" =>
        /\ job[w].id \in Jobs
        /\ status[job[w].id] # "absent"
        /\ job[w].attempt <= attempt[job[w].id]
        /\ status[job[w].id] = "queued" => job[w].attempt < attempt[job[w].id]
        /\ lease[job[w].id] = w =>
              status[job[w].id] = "leased" /\ job[w].attempt = attempt[job[w].id]

(* A POST that is not answered has created nothing; no job is "running" or *)
(* in the dead letter queue; an unleased job is in the queue or settled.   *)
JobsCoherent ==
    \A j \in Jobs :
        /\ post[j] # "answered" => status[j] = "absent"
        /\ status[j] \in {"absent", "queued", "leased", "succeeded", "failed", "cancelled"}

IInv ==
    /\ TypeOK
    /\ CurrentAttemptIsExclusive
    /\ DispatchesWithinAttempts
    /\ ClaimsFollowJobs
    /\ JobsCoherent

USE JobsAssumption

LEMMA InitEstablishes == Init => IInv
  BY DEF Init, IInv, TypeOK, CurrentAttemptIsExclusive, DispatchesWithinAttempts, ClaimsFollowJobs,
         JobsCoherent, Executing, Statuses, Claims, NoJob

LEMMA RequestPreserves ==
  ASSUME IInv, NEW j \in Jobs,
         LookUpKey(j) \/ Enqueue(j) \/ RequestCancellation(j) \/ LeaseExpires(j)
  PROVE  IInv'
<1> USE DEF IInv, TypeOK, CurrentAttemptIsExclusive, DispatchesWithinAttempts, ClaimsFollowJobs,
            JobsCoherent, Executing, Statuses, jobVars, workerVars, bounds
<1>1. CASE LookUpKey(j)
  BY <1>1 DEF LookUpKey
<1>2. CASE Enqueue(j)
  BY <1>2 DEF Enqueue
<1>3. CASE RequestCancellation(j)
  BY <1>3 DEF RequestCancellation
<1>4. CASE LeaseExpires(j)
  <2>1. overruns' \in 0..MaxOverruns
    BY <1>4 DEF LeaseExpires
  <2>2. QED
    BY <1>4, <2>1 DEF LeaseExpires
<1>5. QED
  BY <1>1, <1>2, <1>3, <1>4

LEMMA AcquirePreserves ==
  ASSUME IInv, NEW w \in Workers,
         \/ Scan(w)
         \/ Rescan(w)
         \/ NothingClaimed(w)
         \/ \E j \in Jobs : SweepExpired(w, j) \/ TryClaim(w, j) \/ ClaimLost(w, j)
         \/ \E j \in Jobs : ClaimUnanswered(w, j) \/ TransactionFails(w, j)
  PROVE  IInv'
<1> USE DEF IInv, TypeOK, CurrentAttemptIsExclusive, DispatchesWithinAttempts, ClaimsFollowJobs,
            JobsCoherent, Executing, Statuses, Claims, jobVars, workerVars, bounds
<1>1. CASE Scan(w)
  BY <1>1 DEF Scan, Claimable, Oldest
<1>2. CASE Rescan(w)
  BY <1>2 DEF Rescan, Claimable, Oldest
<1>3. CASE NothingClaimed(w)
  BY <1>3 DEF NothingClaimed
<1>4. ASSUME NEW j \in Jobs, SweepExpired(w, j) PROVE IInv'
  <2>1. CASE LeaseOver(j) /\ CanTransition(status[j], "queued")
    <3>1. status[j] = "leased"
      BY <2>1 DEF LeaseOver
    <3>2. /\ status' = [status EXCEPT ![j] = "queued"]
          /\ attempt' = [attempt EXCEPT ![j] = attempt[j] + 1]
          /\ lease' = [lease EXCEPT ![j] = NoWorker]
          /\ expired' = [expired EXCEPT ![j] = FALSE]
          /\ toSweep' \in [Workers -> SUBSET Jobs]
          /\ UNCHANGED <<post, cancellationRequested, at, toClaim, job, dispatched, bounds>>
      BY <1>4, <2>1 DEF SweepExpired, NextAttempt
    <3>3. TypeOK'
      BY <3>2
    <3>4. JobsCoherent' /\ DispatchesWithinAttempts'
      BY <3>1, <3>2
    <3>5. ClaimsFollowJobs'
      BY <3>1, <3>2
    <3>6. CurrentAttemptIsExclusive'
      BY <3>1, <3>2
    <3>7. QED
      BY <3>3, <3>4, <3>5, <3>6
  <2>2. CASE ~(LeaseOver(j) /\ CanTransition(status[j], "queued"))
    BY <1>4, <2>2 DEF SweepExpired
  <2>3. QED
    BY <2>1, <2>2
<1>5. ASSUME NEW j \in Jobs, TryClaim(w, j) PROVE IInv'
  <2>1. TypeOK' /\ DispatchesWithinAttempts' /\ JobsCoherent'
    BY <1>5 DEF TryClaim, StillQueued
  <2>2. ClaimsFollowJobs'
    BY <1>5 DEF TryClaim, StillQueued
  <2>3. CurrentAttemptIsExclusive'
    BY <1>5 DEF TryClaim, StillQueued
  <2>4. QED
    BY <2>1, <2>2, <2>3
<1>6. ASSUME NEW j \in Jobs, ClaimLost(w, j) PROVE IInv'
  BY <1>6 DEF ClaimLost
<1>7. ASSUME NEW j \in Jobs, ClaimUnanswered(w, j) PROVE IInv'
  <2>1. TypeOK' /\ DispatchesWithinAttempts' /\ JobsCoherent'
    BY <1>7 DEF ClaimUnanswered, StillQueued
  <2>2. ClaimsFollowJobs'
    BY <1>7 DEF ClaimUnanswered, StillQueued
  <2>3. CurrentAttemptIsExclusive'
    BY <1>7 DEF ClaimUnanswered, StillQueued
  <2>4. QED
    BY <2>1, <2>2, <2>3
<1>8. ASSUME NEW j \in Jobs, TransactionFails(w, j) PROVE IInv'
  <2>1. failures' \in 0..MaxFailures
    BY <1>8 DEF TransactionFails
  <2>2. UNCHANGED <<post, jobVars, at, job, dispatched, overruns>>
    BY <1>8 DEF TransactionFails
  <2>3. toSweep' \in [Workers -> SUBSET Jobs] /\ toClaim' \in [Workers -> SUBSET Jobs]
    <3>1. CASE toSweep' = [toSweep EXCEPT ![w] = toSweep[w] \ {j}] /\ UNCHANGED toClaim
      BY <3>1
    <3>2. CASE toClaim' = [toClaim EXCEPT ![w] = toClaim[w] \ {j}] /\ UNCHANGED toSweep
      BY <3>2
    <3>3. QED
      BY <1>8, <3>1, <3>2 DEF TransactionFails
  <2>4. QED
    BY <2>1, <2>2, <2>3
<1>9. QED
  BY <1>1, <1>2, <1>3, <1>4, <1>5, <1>6, <1>7, <1>8

LEMMA SettlePreserves ==
  ASSUME IInv, NEW w \in Workers,
         \/ \E result \in Results : Complete(w, result)
         \/ CompleteDenied(w)
         \/ Crash(w)
         \/ Restart(w)
  PROVE  IInv'
<1> USE DEF IInv, TypeOK, CurrentAttemptIsExclusive, DispatchesWithinAttempts, ClaimsFollowJobs,
            JobsCoherent, Executing, Statuses, Claims, NoJob, Results, jobVars, workerVars, bounds
<1>1. ASSUME NEW result \in Results, Complete(w, result) PROVE IInv'
  BY <1>1 DEF Complete, Owns
<1>2. CASE CompleteDenied(w)
  BY <1>2 DEF CompleteDenied
<1>3. CASE Crash(w)
  BY <1>3 DEF Crash
<1>4. CASE Restart(w)
  BY <1>4 DEF Restart
<1>5. QED
  BY <1>1, <1>2, <1>3, <1>4

LEMMA NextPreserves == IInv /\ [Next]_vars => IInv'
<1> SUFFICES ASSUME IInv, [Next]_vars PROVE IInv'
  OBVIOUS
<1>1. CASE UNCHANGED vars
  BY <1>1 DEF IInv, TypeOK, CurrentAttemptIsExclusive, DispatchesWithinAttempts, ClaimsFollowJobs,
              JobsCoherent, Executing, vars, jobVars, workerVars, bounds
<1>2. ASSUME NEW j \in Jobs,
             LookUpKey(j) \/ Enqueue(j) \/ RequestCancellation(j) \/ LeaseExpires(j)
      PROVE  IInv'
  BY <1>2, RequestPreserves
<1>3. ASSUME NEW w \in Workers,
             \/ WorkerStep(w)
             \/ Crash(w)
             \/ \E j \in Jobs : ClaimUnanswered(w, j) \/ TransactionFails(w, j)
      PROVE  IInv'
  BY <1>3, AcquirePreserves, SettlePreserves DEF WorkerStep
<1>4. QED
  BY <1>1, <1>2, <1>3 DEF Next

LEMMA InvariantHolds == Spec => []IInv
<1>1. QED
  BY InitEstablishes, NextPreserves, PTL DEF Spec

(* The state of the queue and of its workers is well typed in every        *)
(* reachable state.                                                        *)
THEOREM TypeCorrect == Spec => []TypeOK
<1>1. IInv => TypeOK
  BY DEF IInv
<1>2. QED
  BY <1>1, InvariantHolds, PTL

(* One worker at most executes the current attempt of a job, and it holds  *)
(* the lease on the document: tryClaim, sweepExpired and complete keep     *)
(* their promise however often workers die or outlast their leases.        *)
THEOREM CurrentAttemptIsExclusiveHolds == Spec => []CurrentAttemptIsExclusive
<1>1. IInv => CurrentAttemptIsExclusive
  BY DEF IInv
<1>2. QED
  BY <1>1, InvariantHolds, PTL

(* ExecutionJob.attempt bounds the handler calls ever made for a job.      *)
THEOREM DispatchesWithinAttemptsHolds == Spec => []DispatchesWithinAttempts
<1>1. IInv => DispatchesWithinAttempts
  BY DEF IInv
<1>2. QED
  BY <1>1, InvariantHolds, PTL

(* A settled job stays settled, and a job is settled only by the worker    *)
(* that executes its current attempt (complete's owner check).             *)
THEOREM OnlyCurrentAttemptSettlesHolds == Spec => OnlyCurrentAttemptSettles
<1> DEFINE Settles(j) ==
        /\ status[j] \in Final => status'[j] = status[j]
        /\ status[j] \notin Final /\ status'[j] \in Final =>
              \E w \in Workers : Executing(w, j) /\ ~Executing(w, j)'
<1>1. ASSUME IInv, [Next]_vars, NEW j \in Jobs PROVE Settles(j)
  <2> USE DEF Final, JobsCoherent, IInv
  <2>1. CASE UNCHANGED status
    BY <2>1
  <2>2. ASSUME NEW k \in Jobs, Enqueue(k) PROVE Settles(j)
    BY <1>1, <2>2 DEF Enqueue, TypeOK
  <2>3. ASSUME NEW w \in Workers, NEW k \in Jobs, SweepExpired(w, k), ~UNCHANGED status
        PROVE  Settles(j)
    BY <1>1, <2>3 DEF SweepExpired, LeaseOver, TypeOK
  <2>4. ASSUME NEW w \in Workers, NEW k \in Jobs, TryClaim(w, k) PROVE Settles(j)
    BY <1>1, <2>4 DEF TryClaim, StillQueued, TypeOK
  <2>5. ASSUME NEW w \in Workers, NEW result \in Results, Complete(w, result)
        PROVE  Settles(j)
    <3>1. Executing(w, job[w].id) /\ job[w].id \in Jobs /\ status[job[w].id] = "leased"
      BY <1>1, <2>5 DEF Complete, Owns, Executing, ClaimsFollowJobs, TypeOK, Claims
    <3>2. at'[w] # "executing"
      BY <1>1, <2>5 DEF Complete, Executing, TypeOK
    <3>3. CASE j = job[w].id
      BY <1>1, <2>5, <3>1, <3>2, <3>3 DEF Complete, Executing
    <3>4. CASE j # job[w].id
      BY <1>1, <2>5, <3>4 DEF Complete, TypeOK
    <3>5. QED
      BY <3>3, <3>4
  <2>6. ASSUME NEW w \in Workers, NEW k \in Jobs, ClaimUnanswered(w, k) PROVE Settles(j)
    BY <1>1, <2>6 DEF ClaimUnanswered, StillQueued, TypeOK
  <2>7. QED
    BY <1>1, <2>1, <2>2, <2>3, <2>4, <2>5, <2>6
       DEF Next, WorkerStep, LookUpKey, RequestCancellation, LeaseExpires, Scan, Rescan,
           ClaimLost, TransactionFails, NothingClaimed, CompleteDenied, Crash, Restart, vars, jobVars
<1>2. IInv /\ [Next]_vars => [\A j \in Jobs : Settles(j)]_vars
  BY <1>1
<1>3. QED
  BY <1>2, InvariantHolds, PTL DEF Spec, OnlyCurrentAttemptSettles
===============================================================================
