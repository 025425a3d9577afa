---------------------------- MODULE ExecutionJobs -----------------------------
(***************************************************************************)
(* The durable execution-job queue: POST /execution-jobs and its cancel    *)
(* route (api/http-api.ts), FirestoreExecutionJobQueue                     *)
(* (adapters/firebase/firestore-execution-job-queue.ts) over the job state *)
(* machine (contracts/execution-job.ts), and the worker processes that     *)
(* poll it (core/execution/worker-loop.ts, worker/index.ts).               *)
(*                                                                         *)
(* Each Firestore transaction, and each scan of the collection, is one     *)
(* action; workers and requests interleave between them and a worker may   *)
(* die between any two.  Clocks enter only through whether a lease has     *)
(* run out.                                                                *)
(***************************************************************************)
EXTENDS Naturals, FiniteSets

CONSTANTS
    Jobs,             \* jobs by createdAt; each is what one POST creates (a fresh jobId)
    Keys, KeyOf,      \* idempotency keys, and the one each POST carries
    Workers,          \* worker processes, each with a WORKER_ID of its own
    NoWorker,
    ScanLimit,        \* options.scanLimit ?? 25
    MaxFailures,      \* bound: workers that die and transactions that fail
    MaxOverruns       \* bound: handlers that outlast their lease

ASSUME JobsAssumption ==
    /\ Jobs \subseteq Nat
    /\ KeyOf \in [Jobs -> Keys]
    /\ NoWorker \notin Workers
    /\ ScanLimit \in Nat /\ MaxFailures \in Nat /\ MaxOverruns \in Nat

VARIABLES
    post,        \* where the POST that creates the job stands
    status,      \* ExecutionJob.status, "absent" before enqueue
    attempt,     \* ExecutionJob.attempt
    lease,       \* ExecutionJob.lease.workerId, NoWorker without a lease
    expired,     \* lease.expiresAt has passed
    cancellationRequested,
    at,          \* where each worker stands
    toSweep,     \* acquire's `sweepable` still to be tried
    toClaim,     \* acquire's `claimable` still to be tried
    job,         \* runOnce's `job`: id and attempt as claimed
    dispatched,  \* handler calls ever made for the job
    failures, overruns

jobVars == <<status, attempt, lease, expired, cancellationRequested>>
workerVars == <<at, toSweep, toClaim, job>>
bounds == <<failures, overruns>>
vars == <<post, jobVars, workerVars, dispatched, bounds>>

Statuses == {"queued", "leased", "running", "succeeded", "failed", "cancelled", "dead_letter"}
Final == {"succeeded", "failed", "cancelled", "dead_letter"}
NoJob == [id |-> 0, attempt |-> 0]
Claims == [id : Nat, attempt : Nat]

TypeOK ==
    /\ post \in [Jobs -> {"unsent", "looked_up", "answered"}]
    /\ status \in [Jobs -> Statuses \cup {"absent"}]
    /\ attempt \in [Jobs -> Nat]
    /\ lease \in [Jobs -> Workers \cup {NoWorker}]
    /\ expired \in [Jobs -> BOOLEAN]
    /\ cancellationRequested \in [Jobs -> BOOLEAN]
    /\ at \in [Workers -> {"idle", "sweeping", "claiming", "executing", "down"}]
    /\ toSweep \in [Workers -> SUBSET Jobs]
    /\ toClaim \in [Workers -> SUBSET Jobs]
    /\ job \in [Workers -> Claims]
    /\ dispatched \in [Jobs -> Nat]
    /\ failures \in 0..MaxFailures
    /\ overruns \in 0..MaxOverruns

Init ==
    /\ post = [j \in Jobs |-> "unsent"]
    /\ status = [j \in Jobs |-> "absent"]
    /\ attempt = [j \in Jobs |-> 0]
    /\ lease = [j \in Jobs |-> NoWorker]
    /\ expired = [j \in Jobs |-> FALSE]
    /\ cancellationRequested = [j \in Jobs |-> FALSE]
    /\ at = [w \in Workers |-> "idle"]
    /\ toSweep = [w \in Workers |-> {}]
    /\ toClaim = [w \in Workers |-> {}]
    /\ job = [w \in Workers |-> NoJob]
    /\ dispatched = [j \in Jobs |-> 0]
    /\ failures = 0 /\ overruns = 0

LEGAL_EXECUTION_JOB_TRANSITIONS ==
    [queued      |-> {"leased", "cancelled"},
     leased      |-> {"running", "queued", "cancelled", "failed", "succeeded", "dead_letter"},
     running     |-> {"succeeded", "failed", "cancelled", "queued", "dead_letter"},
     succeeded   |-> {},
     failed      |-> {"queued", "dead_letter"},
     cancelled   |-> {},
     dead_letter |-> {}]

CanTransition(from, to) == from \in Statuses /\ to \in LEGAL_EXECUTION_JOB_TRANSITIONS[from]

-------------------------------------------------------------------------------
(* The HTTP routes.                                                        *)

\* findByIdempotencyKey: a job with the key answers the request at once.
LookUpKey(j) ==
    /\ post[j] = "unsent"
    /\ post' = [post EXCEPT ![j] =
                   IF \E k \in Jobs : KeyOf[k] = KeyOf[j] /\ status[k] # "absent"
                   THEN "answered" ELSE "looked_up"]
    /\ UNCHANGED <<jobVars, workerVars, dispatched, bounds>>

\* The document id is fresh, so enqueue's own existence check finds nothing.
Enqueue(j) ==
    /\ post[j] = "looked_up"
    /\ post' = [post EXCEPT ![j] = "answered"]
    /\ status' = [status EXCEPT ![j] = "queued"]
    /\ UNCHANGED <<attempt, lease, expired, cancellationRequested, workerVars, dispatched, bounds>>

\* Faulty variant: the request is written as a status the machine does not know.
RequestCancellationAsStatus(j) ==
    /\ status[j] \notin Final \cup {"absent"}
    /\ status' = [status EXCEPT ![j] = "cancelling"]
    /\ UNCHANGED <<post, attempt, lease, expired, cancellationRequested, workerVars, dispatched, bounds>>

RequestCancellation(j) ==
    /\ status[j] \notin Final \cup {"absent"}
    /\ ~cancellationRequested[j]
    /\ cancellationRequested' = [cancellationRequested EXCEPT ![j] = TRUE]
    /\ UNCHANGED <<post, status, attempt, lease, expired, workerVars, dispatched, bounds>>

-------------------------------------------------------------------------------
(* acquire: scan, sweep what has expired, scan again, claim the oldest.    *)

\* Faulty variant: only jobs that reported "running" are swept.
LeaseOverWhenRunning(j) == status[j] = "running" /\ lease[j] # NoWorker /\ expired[j]

LeaseOver(j) == status[j] \in {"leased", "running"} /\ lease[j] # NoWorker /\ expired[j]
Oldest(S) == {j \in S : Cardinality({k \in S : k < j}) < ScanLimit}
Claimable == Oldest({j \in Jobs : status[j] = "queued"})

Scan(w) ==
    /\ at[w] = "idle"
    /\ LET sweepable == {j \in Jobs : LeaseOver(j)}
       IN /\ toSweep' = [toSweep EXCEPT ![w] = sweepable]
          /\ toClaim' = [toClaim EXCEPT ![w] = IF sweepable = {} THEN Claimable ELSE {}]
          /\ at' = [at EXCEPT ![w] = IF sweepable = {} THEN "claiming" ELSE "sweeping"]
    /\ UNCHANGED <<post, jobVars, job, dispatched, bounds>>

\* Faulty variant: a swept job keeps its attempt number.
SameAttempt(j) == attempt[j]

NextAttempt(j) == attempt[j] + 1

\* The transaction looks again; the attempt is counted whatever maxAttempts says.
SweepExpired(w, j) ==
    /\ at[w] = "sweeping"
    /\ j \in toSweep[w]
    /\ toSweep' = [toSweep EXCEPT ![w] = @ \ {j}]
    /\ IF LeaseOver(j) /\ CanTransition(status[j], "queued")
       THEN /\ status' = [status EXCEPT ![j] = "queued"]
            /\ attempt' = [attempt EXCEPT ![j] = NextAttempt(j)]
            /\ lease' = [lease EXCEPT ![j] = NoWorker]
            /\ expired' = [expired EXCEPT ![j] = FALSE]
       ELSE UNCHANGED <<status, attempt, lease, expired>>
    /\ UNCHANGED <<post, cancellationRequested, at, toClaim, job, dispatched, bounds>>

Rescan(w) ==
    /\ at[w] = "sweeping"
    /\ toSweep[w] = {}
    /\ toClaim' = [toClaim EXCEPT ![w] = Claimable]
    /\ at' = [at EXCEPT ![w] = "claiming"]
    /\ UNCHANGED <<post, jobVars, toSweep, job, dispatched, bounds>>

\* Faulty variant: the transaction trusts the scan.
NotSettled(j) == status[j] \notin Final

StillQueued(j) == status[j] = "queued" /\ CanTransition(status[j], "leased")

\* tryClaim on the oldest job of the snapshot, and the dispatch that follows.
TryClaim(w, j) ==
    /\ at[w] = "claiming"
    /\ j \in toClaim[w]
    /\ \A k \in toClaim[w] : j <= k
    /\ StillQueued(j)
    /\ status' = [status EXCEPT ![j] = "leased"]
    /\ lease' = [lease EXCEPT ![j] = w]
    /\ expired' = [expired EXCEPT ![j] = FALSE]
    /\ at' = [at EXCEPT ![w] = "executing"]
    /\ toClaim' = [toClaim EXCEPT ![w] = {}]
    /\ job' = [job EXCEPT ![w] = [id |-> j, attempt |-> attempt[j]]]
    /\ dispatched' = [dispatched EXCEPT ![j] = @ + 1]
    /\ UNCHANGED <<post, attempt, cancellationRequested, toSweep, bounds>>

\* The claim is committed but its answer lost: tryClaim's catch makes it a
\* claim that did not happen, and nobody executes the job until its lease ends.
ClaimUnanswered(w, j) ==
    /\ at[w] = "claiming"
    /\ j \in toClaim[w]
    /\ \A k \in toClaim[w] : j <= k
    /\ StillQueued(j)
    /\ failures < MaxFailures
    /\ failures' = failures + 1
    /\ status' = [status EXCEPT ![j] = "leased"]
    /\ lease' = [lease EXCEPT ![j] = w]
    /\ expired' = [expired EXCEPT ![j] = FALSE]
    /\ toClaim' = [toClaim EXCEPT ![w] = @ \ {j}]
    /\ UNCHANGED <<post, attempt, cancellationRequested, at, toSweep, job, dispatched, overruns>>

\* A sweep or a claim that fails outright is caught, and acquire goes on.
TransactionFails(w, j) ==
    /\ failures < MaxFailures
    /\ failures' = failures + 1
    /\ \/ /\ at[w] = "sweeping"
          /\ j \in toSweep[w]
          /\ toSweep' = [toSweep EXCEPT ![w] = @ \ {j}]
          /\ UNCHANGED toClaim
       \/ /\ at[w] = "claiming"
          /\ j \in toClaim[w]
          /\ \A k \in toClaim[w] : j <= k
          /\ toClaim' = [toClaim EXCEPT ![w] = @ \ {j}]
          /\ UNCHANGED toSweep
    /\ UNCHANGED <<post, jobVars, at, job, dispatched, overruns>>

\* Another worker was faster: acquire goes on with the next one.
ClaimLost(w, j) ==
    /\ at[w] = "claiming"
    /\ j \in toClaim[w]
    /\ \A k \in toClaim[w] : j <= k
    /\ ~StillQueued(j)
    /\ toClaim' = [toClaim EXCEPT ![w] = @ \ {j}]
    /\ UNCHANGED <<post, jobVars, at, toSweep, job, dispatched, bounds>>

NothingClaimed(w) ==
    /\ at[w] = "claiming"
    /\ toClaim[w] = {}
    /\ at' = [at EXCEPT ![w] = "idle"]
    /\ UNCHANGED <<post, jobVars, toSweep, toClaim, job, dispatched, bounds>>

-------------------------------------------------------------------------------
(* complete, in a transaction that asks who holds the lease.               *)

\* Faulty variant: any lease will do.
SomebodyOwns(w, j) == lease[j] # NoWorker

Owns(w, j) == lease[j] = w

Complete(w, result) ==
    /\ at[w] = "executing"
    /\ LET j == job[w].id
       IN /\ Owns(w, j)
          /\ CanTransition(status[j], result)
          /\ status' = [status EXCEPT ![j] = result]
    /\ at' = [at EXCEPT ![w] = "idle"]
    /\ job' = [job EXCEPT ![w] = NoJob]
    /\ UNCHANGED <<post, attempt, lease, expired, cancellationRequested, toSweep, toClaim,
                   dispatched, bounds>>

\* complete throws, nothing catches it, and the process exits (bootWorker).
CompleteDenied(w) ==
    /\ at[w] = "executing"
    /\ ~Owns(w, job[w].id)
    /\ at' = [at EXCEPT ![w] = "down"]
    /\ job' = [job EXCEPT ![w] = NoJob]
    /\ UNCHANGED <<post, jobVars, toSweep, toClaim, dispatched, bounds>>

-------------------------------------------------------------------------------
(* Time, and the processes' lives.                                         *)

\* The worker loop sends no heartbeat, so a lease ends while its handler runs
\* (an overrun), or after its worker died.
Executing(w, j) == at[w] = "executing" /\ job[w] = [id |-> j, attempt |-> attempt[j]]

LeaseExpires(j) ==
    /\ status[j] = "leased"
    /\ ~expired[j]
    /\ expired' = [expired EXCEPT ![j] = TRUE]
    /\ IF \E w \in Workers : Executing(w, j)
       THEN overruns < MaxOverruns /\ overruns' = overruns + 1
       ELSE UNCHANGED overruns
    /\ UNCHANGED <<post, status, attempt, lease, cancellationRequested, workerVars, dispatched,
                   failures>>

Crash(w) ==
    /\ at[w] # "down"
    /\ failures < MaxFailures
    /\ failures' = failures + 1
    /\ at' = [at EXCEPT ![w] = "down"]
    /\ toSweep' = [toSweep EXCEPT ![w] = {}]
    /\ toClaim' = [toClaim EXCEPT ![w] = {}]
    /\ job' = [job EXCEPT ![w] = NoJob]
    /\ UNCHANGED <<post, jobVars, dispatched, overruns>>

Restart(w) ==
    /\ at[w] = "down"
    /\ at' = [at EXCEPT ![w] = "idle"]
    /\ UNCHANGED <<post, jobVars, toSweep, toClaim, job, dispatched, bounds>>

-------------------------------------------------------------------------------

\* mapResultStatus yields these three.
Results == {"succeeded", "failed", "cancelled"}

WorkerStep(w) ==
    \/ Scan(w)
    \/ \E j \in Jobs : SweepExpired(w, j) \/ TryClaim(w, j) \/ ClaimLost(w, j)
    \/ Rescan(w)
    \/ NothingClaimed(w)
    \/ \E result \in Results : Complete(w, result)
    \/ CompleteDenied(w)
    \/ Restart(w)

Next ==
    \/ \E j \in Jobs :
          \/ LookUpKey(j)
          \/ Enqueue(j)
          \/ RequestCancellation(j)
          \/ LeaseExpires(j)
    \/ \E w \in Workers :
          \/ WorkerStep(w)
          \/ Crash(w)
          \/ \E j \in Jobs : ClaimUnanswered(w, j) \/ TransactionFails(w, j)

\* A worker that is up goes on polling and its handlers return, one that died
\* is started again by the platform, and time passes.
Fairness ==
    /\ \A w \in Workers : WF_vars(WorkerStep(w))
    /\ \A j \in Jobs : WF_vars(LeaseExpires(j))

Spec == Init /\ [][Next]_vars /\ Fairness

-------------------------------------------------------------------------------
(* Properties.                                                             *)

\* However sweeps, claims, failures and overruns interleave, one worker at most
\* is executing a job's current attempt, and it is the one whose lease is on
\* the document (tryClaim and sweepExpired look again in their transactions).
CurrentAttemptIsExclusive ==
    \A w \in Workers : \A j \in Jobs : Executing(w, j) =>
        /\ lease[j] = w
        /\ status[j] = "leased"
        /\ \A v \in Workers : Executing(v, j) => v = w

\* A handler is called at most once per attempt, so the attempt number bounds
\* how often the tool action may have been carried out: a sweep that races a
\* claim, a lost answer or a dead worker never hides a call.
DispatchesWithinAttempts ==
    \A j \in Jobs :
        /\ status[j] \in {"absent", "queued"} => dispatched[j] <= attempt[j]
        /\ status[j] \notin {"absent", "queued"} => dispatched[j] <= attempt[j] + 1

\* Only the worker that executes the current attempt settles a job: the late
\* answer of one that lost its lease is refused (complete's owner check).
\* A settled job is never taken up again.
OnlyCurrentAttemptSettles ==
    [][\A j \in Jobs :
          /\ status[j] \in Final => status'[j] = status[j]
          /\ status[j] \notin Final /\ status'[j] \in Final =>
                \E w \in Workers : Executing(w, j) /\ ~Executing(w, j)']_vars

\* Every queued job is settled, through failures and lost leases, once those
\* stop: the sweep inside acquire puts an abandoned job back in the queue.
QueuedJobsSettle ==
    \A j \in Jobs : status[j] = "queued" ~> status[j] \in Final

\* "The next heartbeat check and the next acquire will see the flag so the
\* worker can stop early": a job cancelled in the queue is not claimed.
CancelledJobIsNotClaimed ==
    [][\A j \in Jobs :
          cancellationRequested[j] /\ status[j] = "queued" => status'[j] # "leased"]_vars
===============================================================================
