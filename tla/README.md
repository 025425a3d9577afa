# Verification of the AI Workforce orchestration core

TLA+ models of the parts of this repository that decide what runs, when, and
how often: the task orchestrator and its approval gate, the workflow engine on
top of it, the durable queue of execution jobs with its worker processes, the
governed execution sessions, the assignments and write-scope leases of
specialists, the software factory over its write-behind store, and the approval
gate of destructive actions. TLC checks them on small instances; TLAPS proves
the safety properties of all seven for every size.

Paths below are relative to the repository's root. `PROJECT.json` lists, for
machines, the components, runs, definitions with their source lines, findings,
hazards and theorems.

## 1. The system

The server is one Node process: HTTP requests, operator commands and agent
handlers interleave at `await`s, and everything between two awaits is atomic.
Worker processes share nothing with it but Firestore documents.

| Part | State it keeps | Operations | What makes it hard |
| --- | --- | --- | --- |
| `TaskSystem` (core/tasks) | task status, agent, errors, metadata | create, assign, complete, fail, cancel, transition | a status machine written to by the orchestrator, the engine and operators |
| `ApprovalSystem` (core/approvals) | request status, expiry | request, decide, expire, expireStale | a decision races its expiry |
| `Orchestrator` (core/orchestrator/orchestrator.ts) | none of its own | submit, dispatch, recordApprovalDecision, resume | the handler is awaited; the task may be cancelled under it |
| `WorkforceCommandService`, control stores (control) | per-agent enabled flag, per-workflow paused flag | approve, reject, cancel_task, retry_task, enable/disable_agent, pause/resume/cancel_workflow | a command may arrive at any await; follow-ups are "best effort" |
| `WorkflowEngine`, `WorkflowSystem`, `workflow-graph` (core/workflows) | workflow status, one record per spec, counters | submit, run, resume, schedule, dispatch, applyTaskOutcome, ensureHandoffs, propagateSkip, finalize | a scheduler that sleeps inside its loops and must find its place again |
| Execution jobs (contracts/execution-job.ts, adapters/firebase/firestore-execution-job-queue.ts, core/execution/worker-loop.ts, worker/) | a document per job: status, attempt, lease, cancellation flag | POST, cancel, acquire (scan, sweep, claim), complete, heartbeat | several processes, leases, crashes, lost answers |
| Write-scope leases, assignments (core/orchestrator) | leases, assignments, in memory and in Firestore | assign, transition, reassign, release, expire | overlap of path prefixes, half-done reassignment, writes nobody orders |
| Software factory (core/orchestrator) over `CachedRepository` (core/persistence) | programs, workstreams, planned tasks, aliases; a cache and a queue of writes per collection | create, addTask, planFromObjective, tick; upsert, delete, hydrate | ticks sleep inside two loops over lists others change; failed writes are dropped |
| `ExecutionManager` (core/execution), its session store (adapters/firebase) | session documents with revision and attempts; running invocations of an instance | createSession, invoke, cancel, kill, complete, reconcile | several instances, compare-and-set, death of an invocation's owner |
| `DestructiveActionService` (core/security) over `ApprovalSystem` | requests, their revisions and approvals | request, revise, decide, cancel, assertApproved, markExecuted, markFailed | policy, approvers and revisions change between approval and execution |
| Release, planning, tools, routing, cost, access, billing, onboarding, secrets | their own records | many | see section 8 |

How they interact: an HTTP handler calls a command, which calls
`ApprovalSystem` and `Orchestrator`; the workflow engine calls
`Orchestrator.submit` and `resume` and awaits them; `approve` does both, first
the task and then its workflow. The orchestrator calls an agent's handler and
is the only one to write its result into the task. Workers are reached through
job documents only. A tick of the software factory submits tasks through the
same `Orchestrator`. The approvals of destructive actions are records of the
same `ApprovalSystem`, so that the generic approve command reaches them too.
Sessions and leases are shared through Firestore documents, the former with a
compare-and-set on their revision, the latter without.

What makes each part right:

- *orchestrator*: a handler is called at most once and never before a required
  approval; a task says "running" exactly while a handler call is behind it; a
  settled task stays settled; a running one settles;
- *workflow engine*: dependencies first, retries only for retryable failures,
  limits kept, final status true to the tasks, a stop is never silent;
- *execution jobs*: one executor per attempt, late answers refused, attempts
  count calls, no job is lost;
- *sessions*: one invocation at a time over all instances, limits kept, one
  session per key, a cancellation is never overtaken, an ended session stays as
  it is, none stays running for ever;
- *assignments*: no path has two writers, a lease is held for work under way;
- *software factory*: dependencies first, each planned task submitted once,
  dependencies stay known when ids change, drained writes survive a restart;
- *destructive actions*: run as approved, by enough people who still may
  approve, once per revision.

## 2. Modules

| Module | Models |
| --- | --- |
| `GatedExecution` | abstract: what the orchestrator promises about handlers and approval requests |
| `Orchestrator` | tasks, approvals, orchestrator, operator commands on them |
| `WorkflowEngine` | one workflow over an `INSTANCE` of `Orchestrator`, and the commands on it |
| `ExecutionJobs` | job queue, HTTP routes, worker processes |
| `ExecutionSessions` | execution sessions, invocations and requests of several server instances |
| `SpecialistAssignments` | assignments, write-scope leases, their repositories |
| `SoftwareFactory` | programs, workstreams, ticks, over `CachedRepository` |
| `DestructiveActions` | requests, approvals, policies and executions of destructive actions |
| `MC...` | the instance of each that TLC checks |
| `...Proofs` | theorems and proofs |

### Orchestrator

`status`, `assignedAgentId`, `failure`, `retryCount` are the fields of a task
(`failure` is what `extractFailureReason` would read off its last error);
`approval` and `expiry` its request; `agentOps` the operational store.
`inFlight` counts the handler calls `dispatch` awaits and `executed` those ever
made. `submit` is one action per outcome (no candidate, agent disabled, denied,
parked, dispatched), since it has no await before the handler call; `dispatch`
after the await is `HandlerReturns` / `HandlerThrows`; `resume` is
`ResumeApproved` / `ResumeRefused` / `ResumePending`, with the expiry sweep it
makes when given `asOf`. `Approve` is decision and resume in one step, as in
`decideApproval`. Permissions are a free choice (`SubmitDenied`), the agent any
eligible one.

Two next-state relations: `ControlPlaneNext` is what the deployed server can
do; `Next` adds direct calls of `recordApprovalDecision` and `resume`, which
the docs describe as the library's interface.

### WorkflowEngine

The engine is a coroutine: `pc` says where it stands (`pass` at the top of
`schedule`, `next` in its inner loop, `submitted` and `resuming` at the two
awaits, `resume` in the loop of `resume`), `todo` what is left of the loop it is
in. Everything not waiting for a handler runs before anything else happens
(`Loop`): other requests only arrive while the engine awaits a handler. Records
are `recStatus`, `recTask`, `recRetries`. Limits and `failureBehavior` are part
of the `draft` chosen in `Init`. `EndSpec` covers a record's end with
`propagateSkip` and `fail`; `ApplyTaskOutcome` the four outcomes; `Escape` an
error nobody in the engine catches. `Approve` and `ApproveContinues` are the two
halves of `decideApproval` around its await.

### ExecutionJobs

One action per Firestore transaction or scan. `acquire` is `Scan`, a
`SweepExpired` per expired job, `Rescan`, then `TryClaim` / `ClaimLost` down the
snapshot; each looks at the document again, as the code's transactions do.
`ClaimUnanswered` and `TransactionFails` are the errors the two catch blocks
swallow. `Complete` checks the owner; a refused answer ends the process
(`CompleteDenied`), as nothing catches the error. A lease may run out at any
time (`LeaseExpires`): the loop sends no heartbeat. Time is reduced to whether a
lease has run out, so a worker with an older `now` may sweep or claim here a
little earlier than in the code, which adds behaviours and removes none.

### ExecutionSessions

The session document is `status`, `revision`, `attempts`, `cancellation` and
the `attempt` of each call; `active` and `invocations` are the maps of one
instance and die with it (`Crash`). An action ends at each await. A handler
keeps the revision it read (`read`, `op`) and `CommitAllowed` is the store's
compare-and-set. `Invoke`, `Evaluate`, `CommitBegin`, `Activate`, `Execute`,
`ReadLatest`, `CommitFinish`, `ReleaseAfterCall`, `RecordReceipt` are
`performInvocation` between its awaits; `BeginCancel`, `PlanAgain`,
`CommitCancel` are `stop` with its retries; `BeginReconcile`, `CommitReconcile`
what each read of a session does for one whose owner is gone. Eligibility is a
free choice. The deployment sets one instance and one request at a time
(functions/index.ts:23-25), but a deploy or a kill lets instances overlap; the
model allows any number.

### SpecialistAssignments

`cache` holds what the two repositories have in memory, `stored` what is in
Firestore, `flight` the writes in between, which settle in any order or fail;
`ColdStart` loads `stored`. Paths are sequences of segments and `normalize` does
what the code does to them. `Assign` is the whole of `assign`: the conflict
test, the assignment, the lease, and the second write that records it.
`Reassign` supersedes first and assigns then; `ReassignFails` is the throw in
between. `loaded` marks what a cold start brought in: two leases of different
instances may conflict, and nothing re-checks them.

### SoftwareFactory

`cache`, `stored` and `queue` are the four collections of `CachedRepository`,
each with a queue of its own, drained in order. A tick is the walk of
`tickProgram`: `local` is the list of the workstream it works with, `left` and
`todo` what is before it. `Stretch` is what it does between two awaits, up to the next
task it submits. `SubmitReturns` writes the alias, the list and the deletion.
A cancelled submission rejects the tick (`SubmitRejected`), and the next one
submits the planned task again. `Restart` is enabled only if `validateState`
accepts what landed: otherwise the Control Plane does not start.

### DestructiveActions

A request carries its revision, the target, the pinned policy decision and the
ids of its approvals; an approval carries what it was bound to. `Revise` makes
a new revision with approvals of its own. The decisions of `decide` are actions
of their own; `DecideByCommand` is the generic command on the same approval.
An execution is a `call`: `BeginExecution` reads the approvers' ids,
`LoadApprover` their accounts one await at a time, `AssertApproved` is the guard
and the transition to executing, `MarkExecuted`, `MarkFailed` and `OutcomeLost`
its end. `PolicyChanges`, `Grant`, `Revoke` happen at any time. `since` and
`runs` are history variables.

Operators marked "Faulty variant" are plausible mistakes; each is used only to
confirm that some property notices it.

## 3. Runs

| Run | Shows |
| --- | --- |
| `Orchestrator.cfg` | type, `RunningIsExecuting`, `ParkedIsResumable`, `SettledIsFinal`, `RunningSettles`, and that the lifecycle implements `GatedExecution` |
| `OrchestratorReject.cfg` | **violated**: a rejected task stays parked (finding 1) |
| `WorkflowEngine.cfg` | order, retries, limits, final statuses, quiescence when parked, no silent stop, `EndedStaysEnded`, `SchedulerReturns` |
| `WorkflowApprove.cfg` | **violated**: an approved task never reaches its workflow (finding 2) |
| `ExecutionJobs.cfg` | exclusive attempts, attempts bound calls, late answers refused, every queued job settles, no deadlock |
| `JobsCancel.cfg` | **violated**: a job cancelled in the queue is executed (finding 3) |
| `ExecutionSessions.cfg` | one invocation per session, limits, cancellation wins, one session per key, history is final, no deadlock |
| `SessionsRecovery.cfg` | a session whose instance died does not stay running for ever |
| `SpecialistAssignments.cfg` | no path has two writers, leases are held for work under way |
| `SoftwareFactory.cfg` | dependencies first, submitted once, dependencies stay known, drained writes are durable |
| `FactoryList.cfg` | **violated**: a task added during a tick is lost from its workstream (finding 4) |
| `DestructiveActions.cfg` | approved requests are backed, executions authorised, one run per revision |

Findings, each with the sentence it contradicts, are in `PROJECT.json`:

1. `reject` never resumes the task, so it waits for ever
   (workforce-command-service.ts:329; docs/control-plane.md:158).
2. `approve` resumes the task itself and then `engine.resume`, which throws on
   the task that is no longer parked; the workflow is left "running" with no
   scheduler (workforce-command-service.ts:331-377; docs/workflows.md:221).
3. Nothing reads `cancellationRequested` (firestore-execution-job-queue.ts:277).
4. A tick writes back the list of tasks it read before its await
   (software-factory-orchestrator.ts:366; docs/software-factory-api.md:134).

Met while modelling, and left without a run: `submit` asks the agent gate
without the project (orchestrator.ts:131); `dispatch` does not pass the
validated agent to `submit` (workflow-engine.ts:310); the idempotency key of a
job is looked up outside the transaction that creates it (http-api.ts:3013).

`CHECK_DEADLOCK FALSE` for the orchestrator, the workflow, assignments, the
factory and destructive actions: their work ends, and nobody has to send a
command. The job queue and the sessions are checked for deadlock: workers and
clients poll for ever.

### Bounds, and why they suffice

- *Orchestrator*: three tasks, one gated, one not, one of a workflow without an
  eligible agent; one agent, one project, two operator retries (the second is
  never made, as nothing dispatches a re-queued task). Tasks do not
  interact except through the expiry sweep and the agent's flag, so one of each
  kind shows every interaction.
- *Workflow*: `build` depends on `plan`, `ship` is independent; `build` and
  `ship` are gated, so two requests can be open at once; one retry per spec
  (`MaxRetries`), so a spec can fail, be retried and fail again; four drafts,
  one of which meets each limit. `MaxInterventions` = 1 lets one cancel, pause,
  disable or expiry happen at any point, besides any number of decisions and
  resumes. `MaxToolCallsPerTask` = 1 is enough to meet `maxToolCalls`.
- *Jobs*: two POSTs with one key, two workers, one failure (`MaxFailures`: a
  crash or a failed transaction) and two overruns (`MaxOverruns`): both workers
  can lose a lease on one job, which is the case where a late answer, a sweep
  and a fresh claim meet.

- *Sessions*: two creations under one key, both of persistent sessions, one
  limited to a single tool call (so that the limit is met), the other to two (so
  that an attempt may follow a closed one); two instances and two calls, one
  client who polls, cancels, kills or completes, one crash or failing call. Two
  calls and a request are what the compare-and-set must keep apart; a third adds
  no new pair. The liveness run has one call, which is enough for an owner to
  die, and a session that its only call ends.
- *Assignments*: two tasks, two agents, two leases, a directory spelled in a
  second way and a file under it; one cold start or failed write. Conflicts are
  between pairs. `MaxBacklog` = 0: an operation starts when earlier writes have
  settled, as the API flushes before it answers (http-api.ts:3448-3460) and
  serves one request at a time; a crash in the middle is covered, overlapping
  requests are not.
- *Factory*: one program and workstream, four tasks (two planned, one depending
  on the other, and the two submitted for them), plans of two, two tick requests,
  a cancellation, and a restart or a failed write.
- *Destructive actions*: one request with two revisions, a requester and two
  approvers, three policy decisions (one person, two persons, forbidden), two
  overlapping executions, one change of policy or of rights.

### Fairness

- An agent's handler settles: `RunningSettles`, `SchedulerReturns` are about
  what follows from that. Nobody is assumed to decide a request, cancel or
  resume anything.
- The event loop runs what is ready (`EngineStep`, `ApproveContinues`).
- A worker that is up goes on polling and its handler returns; one that exited
  is started again by the platform; time passes, so leases end. Failures and
  overruns are finitely many: a job whose worker dies every time is retried for
  ever, since the sweep never looks at `maxAttempts`.
- Calls and requests of live instances proceed, a session's time budget passes,
  and some client reads a session that is again and again there to be read
  (strong fairness of `Poll`): reconciliation happens in reads, and a session
  nobody looks at stays as it is.

## 4. What is proved

For all tasks, agents, projects, policies and retry ceilings
(`OrchestratorProofs`): `TypeOK`, `RunningIsExecuting`, `ParkedIsResumable`,
`SettledIsFinal`, and `ImplementsGate`: every step of the lifecycle is a step of
`GatedExecution` or leaves it unchanged. `RunningIsExecuting` is not inductive
by itself: that no second handler call can be made rests on a parked task never
having been executed and on requests existing for gated tasks only. The inductive
invariant adds this as `Coherent`: what is known of `executed`, `inFlight` and
`approval` for each status. The refinement maps a task with a call in flight to "executing"
whatever its status, so that a cancelled task's late result is a `Close`.

For all jobs, keys, workers and numbers of failures (`ExecutionJobsProofs`):
`TypeOK`, `CurrentAttemptIsExclusive`, `DispatchesWithinAttempts`,
`OnlyCurrentAttemptSettles`. What makes them inductive is `ClaimsFollowJobs`: a
worker's claim is never ahead of its job, is behind it once the job is queued
again, and is current as long as the lease names the worker. The owner check of
`complete` compares worker ids only; that this is enough is exactly this
invariant, together with every worker having an id of its own.

For all sessions, keys, instances, calls, clients and limits
(`ExecutionSessionsProofs`): `TypeOK`, `OneInvocationPerSession`,
`ToolCallsWithinLimit`, `CancelWins`, `OneSessionPerKey`, `HistoryIsFinal`. The
invariant adds `Coherent`: every change of a stored session raises its revision,
what a handler read is of a revision no later than the stored one, and when the two are equal
what it read is still so. A commit that succeeds therefore acts on what it
looked at. `AttemptsFollowCalls` ties an open attempt to the call that made it.

For all paths, scopes, tasks and agents (`SpecialistAssignmentsProofs`):
`TypeOK`, `GrantedAlone`, `HeldByTheWorking`. That disjoint scopes share no path
rests on two roots of one path being comparable, a chain of lemmas on prefixes
of sequences (`NormalizedPath`, `RootsComparable`, `SharedPathConflicts`).

For all requests, operators, policies and calls (`DestructiveActionsProofs`):
`TypeOK`, `ApprovedIsBacked`, `RunsOncePerRevision`, `ExecutionIsAuthorised`.
The invariant says of each request what its status implies of its approvals and
of the runs of its revision (`Rows`), and that a call's approvers are among
those there were since it began (`CallsFollow`).

For all workflow graphs, drafts, limits, retry policies and agents
(`WorkflowEngineProofs`): every invariant of the run and `EndedStaysEnded`. The
proof stands on `OrchestratorProofs`: apart from `NextDispatch`, each step of
the engine and of the operators is below a step that creates no task and moves
no settled one (`Kept`), and `NextDispatch` creates exactly one (`NewTask`). The
inductive invariant adds what the engine relies on across its awaits: `Records`
ties each record to the tasks of its spec (those before the last failed for a
retryable reason, none exists beyond `recRetries` + 1, none before the
dependencies completed); `Todo` says that what a loop still has before it is as
it was when the loop began; `Count` that the number of tasks is at most one
ahead of `agentExecutions`, and only while a submit is awaited or after an
error that ended the engine for good. `SkippedHasCause` for any graph rests on
`Downstream` being the least closed set: a spec without an upstream cause could
be taken out of it (`DownstreamHasCause`). Acyclicity is not needed.

For all programs, workstreams, tick requests, plans and bounds
(`SoftwareFactoryProofs`): `TypeOK`, `DependenciesFirst`, `SubmittedOnce`,
`DependenciesStayKnown`, `DrainedIsDurable`. A restart makes any stored document
the current one, and any queued write may be the last that landed, so that the
invariant speaks of every copy of a document at once:

- `Placed`: there is a *home* for each task, the workstream it was made for, such
  that every value in the cache, the store, the queues and the waiting ticks
  `Fits` it. The model has no variable for it; a step that makes tasks extends
  it, and all other values fit as before (`Agree`, `FitsGrows`).
- `Lossless`: while no write was lost, the cache is the store with the queues
  applied (`Synced`), a completed task is not written again (`Final`), and the
  write of a submitted task is behind those that complete its dependencies
  (`InOrder`). The last two are what a restart in the middle of the queue needs.
- `Once`: an open planned task for which no tick waits has a submission to spare.
  When a tick submits it, no other can be waiting for it: the other's workstream
  would be of the same program, and a program has one tick (`NoTick`).
- `Known`, `Trees`: dependencies and workstreams are where they are looked for.
  That an alias never leads to an aliased task (`AliasesAreShort`) is why
  `resolveTaskId` ends after one step and can meet no cycle.

`PlannedIsListed`, which finding 4 refutes, is no part of it: the lists of a
workstream are only known to hold tasks that belong there, not all of them.

Where a definition recurses over a sequence of writes (`Of`, `AddedAll`), the
proofs use induction for sets of numbers, from the well-foundedness of `<`
(`Induction`): a set that holds 0 and is closed under successor holds 0..N. The
library's own induction rules take operators, which the provers cannot
instantiate. The function each of them defines is shown to exist first
(`OfUnfolds`, `AddedAllUnfolds`).

The assumptions are those named in each module (`...Assumption`): types of the
constants, that "no agent", "no worker", "absent" are not one, and, of the
factory, that ids of workstreams are not states of a plan and that the absence
of a document is no document.

## 5. What is only model-checked

All liveness (`RunningSettles`, `SchedulerReturns`, `QueuedJobsSettle`,
`NeverStuckRunning`): fairness is out of the prover's reach. Every invariant and
every action property of the passing runs is also a theorem. The four runs that expect a
violation are counterexamples, which TLC finds.

## 6. Hazards

`PROJECT.json` lists them at their lines with the properties that watch them.
Those without a property contradict no sentence of the docs, or are shown by the
shape of the model alone; their notes say which. Smaller ones met on the way:

- a retried task stays queued, as nothing dispatches it
  (workforce-command-service.ts:1635); a resume does not ask the agent gate
  again (orchestrator.ts:260); `pause_workflow` sets a flag the engine never
  reads (workforce-command-service.ts:1702); `maxDurationMs` starts anew with
  every resume (workflow-engine.ts:144);
- `WORKER_ID` defaults to `worker-<pid>`, which two containers may share
  (worker/index.ts:41), while the owner check compares only that id;
- a planner's subtasks that name each other as dependencies never resolve, and
  the plan is added in part (software-factory-orchestrator.ts:294); a tick
  without a program id bypasses the map of running ticks, but no server code
  makes one (:318);
- `hasValidLease` ignores the project (lease-manager.ts:227); a transition of an
  older assignment releases the leases of the newer one of its task;
- `markExecuted` does not look at the revision, and a decision that arrives while
  the action runs makes it throw, so that an action which was carried out is
  recorded as rejected (destructive-action-service.ts:1128); a crash leaves a
  request executing for ever.

## 7. Plan

1. Release and deployment (`deployment-orchestrator`,
   `source-control-orchestrator`, `durable-ledger`): steps recorded in a ledger,
   what a crash between two of them leaves.
2. The tool execution engine, and the cost center's reservations.
3. Secret rotation and access.

## 8. Not modelled, and why

The user interface, prompts, the SDK and generated output hold no state of
interest. Registry, permissions, routing and qualification are look-ups over
configuration: the models take their answers as constants or as free choices.
Planning and onboarding transform data. Tool actions of the worker are file and
process I/O, of which a job sees the outcome. Release, secrets, cost, access,
billing and the tool execution engine are state machines of their own and wait
for the plan above. Within the modelled parts: the engine's `planFromObjective`, the clock behind
`maxDurationMs` (the limit may strike at any pass), `heartbeat` and the requeue
of `complete` (no code calls them), audit records, verification of receipts,
which agent qualifies for an assignment, and who may send which command.
