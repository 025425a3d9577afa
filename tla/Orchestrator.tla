----------------------------- MODULE Orchestrator -----------------------------
(***************************************************************************)
(* The task lifecycle: TaskSystem (core/tasks/task-system.ts),             *)
(* ApprovalSystem (core/approvals/approval-system.ts), the Orchestrator    *)
(* that drives both (core/orchestrator/orchestrator.ts) and the operator   *)
(* commands on tasks, approvals and agents                                 *)
(* (control/services/workforce-command-service.ts, control/stores.ts).     *)
(*                                                                         *)
(* The server is one Node process: an action is what runs from one await   *)
(* to the next. Orchestrator.submit and resume run without a pause up to   *)
(* `await executor.execute(...)`, so the only thing that is ever pending   *)
(* is a handler call, counted in inFlight; everything else can happen      *)
(* while it is.  The statuses a method passes through within one action    *)
(* (created, queued and running in submit) are not visible to any other.   *)
(***************************************************************************)
EXTENDS Naturals

CONSTANTS
    Tasks,              \* task ids
    Agents, NoAgent,    \* registered agents, and "not assigned"
    Projects,           \* project ids
    ProjectOf,          \* task |-> its project
    Eligible,           \* task |-> agents AgentRegistry.eligible and the capability filter leave
    RequiresApproval,   \* the tasks approvalPolicy.evaluate gates
    WorkflowTasks,      \* the tasks whose metadata names a workflow
    MaxOperatorRetries  \* ctx.maxOperatorRetries ?? 3

ASSUME OrchestratorAssumption ==
    /\ NoAgent \notin Agents
    /\ ProjectOf \in [Tasks -> Projects]
    /\ Eligible \in [Tasks -> SUBSET Agents]
    /\ RequiresApproval \subseteq Tasks
    /\ WorkflowTasks \subseteq Tasks
    /\ MaxOperatorRetries \in Nat
    /\ "global" \notin Projects

VARIABLES
    status,           \* Task.status, "absent" until the task is created
    assignedAgentId,  \* Task.assignedAgentId
    failure,          \* what extractFailureReason finds in the last of Task.errors
    retryCount,       \* Task.metadata.controlRetryCount
    approval,         \* status of the approval Task.approvalId names, "none" without one
    expiry,           \* Approval.expiresAt, against the clock
    inFlight,         \* handler calls awaited by Orchestrator.dispatch
    executed,         \* agent_executed records in the audit log: handler calls ever made
    agentOps          \* AgentOperationalStore: agent |-> scope |-> record

taskVars == <<status, assignedAgentId, failure, retryCount>>
approvalVars == <<approval, expiry>>
execVars == <<inFlight, executed>>
orchVars == <<taskVars, approvalVars, execVars, agentOps>>

TaskStatuses == {"created", "queued", "running", "blocked", "awaiting_approval",
                 "completed", "failed", "cancelled"}
ApprovalStatuses == {"requested", "approved", "rejected", "expired"}
\* "unclassified": the message carries no "[agent:reason]" prefix.
Failures == {"none", "unclassified", "retryable", "fatal"}
Expiries == {"none", "ahead", "lapsed"}
OpsRecords == {"unset", "enabled", "disabled"}
Scopes == Projects \cup {"global"}

TypeOK ==
    /\ status \in [Tasks -> TaskStatuses \cup {"absent"}]
    /\ assignedAgentId \in [Tasks -> Agents \cup {NoAgent}]
    /\ failure \in [Tasks -> Failures]
    /\ retryCount \in [Tasks -> 0..MaxOperatorRetries]
    /\ approval \in [Tasks -> ApprovalStatuses \cup {"none"}]
    /\ expiry \in [Tasks -> Expiries]
    /\ inFlight \in [Tasks -> Nat]
    /\ executed \in [Tasks -> Nat]
    /\ agentOps \in [Agents -> [Scopes -> OpsRecords]]

Init ==
    /\ status = [t \in Tasks |-> "absent"]
    /\ assignedAgentId = [t \in Tasks |-> NoAgent]
    /\ failure = [t \in Tasks |-> "none"]
    /\ retryCount = [t \in Tasks |-> 0]
    /\ approval = [t \in Tasks |-> "none"]
    /\ expiry = [t \in Tasks |-> "none"]
    /\ inFlight = [t \in Tasks |-> 0]
    /\ executed = [t \in Tasks |-> 0]
    /\ agentOps = [a \in Agents |-> [s \in Scopes |-> "unset"]]

-------------------------------------------------------------------------------
(* TaskSystem and AgentOperationalStore.                                   *)

TRANSITIONS ==
    [created           |-> {"queued", "cancelled"},
     queued            |-> {"running", "blocked", "awaiting_approval", "cancelled"},
     running           |-> {"blocked", "awaiting_approval", "completed", "failed", "cancelled"},
     blocked           |-> {"queued", "running", "cancelled"},
     awaiting_approval |-> {"running", "queued", "failed", "cancelled"},
     completed         |-> {},
     failed            |-> {"queued"},
     cancelled         |-> {}]

CanTransition(from, to) == from \in TaskStatuses /\ to \in TRANSITIONS[from]

\* Without a project only the global record is consulted; with one, the most
\* specific record decides. An agent without a record is enabled.
IsEnabled(a, scope) ==
    IF agentOps[a][scope] = "unset"
    THEN agentOps[a]["global"] # "disabled"
    ELSE agentOps[a][scope] = "enabled"

-------------------------------------------------------------------------------
(* Orchestrator.submit, one action per way it can end.                     *)

SubmitUnassigned(t) ==
    /\ status[t] = "absent"
    /\ Eligible[t] = {}
    /\ status' = [status EXCEPT ![t] = "blocked"]
    /\ UNCHANGED <<assignedAgentId, failure, retryCount, approvalVars, execVars, agentOps>>

SubmitToDisabledAgent(t, a) ==
    /\ status[t] = "absent"
    /\ a \in Eligible[t]
    /\ ~IsEnabled(a, "global")
    /\ status' = [status EXCEPT ![t] = "blocked"]
    /\ UNCHANGED <<assignedAgentId, failure, retryCount, approvalVars, execVars, agentOps>>

\* create, queue, and tasks.assign: what the remaining outcomes share.
Assign(t, a) ==
    /\ status[t] = "absent"
    /\ a \in Eligible[t]
    /\ IsEnabled(a, "global")
    /\ assignedAgentId' = [assignedAgentId EXCEPT ![t] = a]
    /\ UNCHANGED <<retryCount, agentOps>>

\* enforcePermissions refused: the task fails and the handler is never called.
SubmitDenied(t, a) ==
    /\ Assign(t, a)
    /\ status' = [status EXCEPT ![t] = "failed"]
    /\ failure' = [failure EXCEPT ![t] = "unclassified"]
    /\ UNCHANGED <<approvalVars, execVars>>

\* Faulty variant: the task is parked but no approval is requested.
SubmitParkedWithoutRequest(t, a) ==
    /\ Assign(t, a)
    /\ t \in RequiresApproval
    /\ status' = [status EXCEPT ![t] = "awaiting_approval"]
    /\ UNCHANGED <<failure, approvalVars, execVars>>

\* A request without expiresAt is one whose expiry never comes to pass.
SubmitParked(t, a) ==
    /\ Assign(t, a)
    /\ t \in RequiresApproval
    /\ status' = [status EXCEPT ![t] = "awaiting_approval"]
    /\ approval' = [approval EXCEPT ![t] = "requested"]
    /\ expiry' = [expiry EXCEPT ![t] = "ahead"]
    /\ UNCHANGED <<failure, execVars>>

\* Orchestrator.dispatch up to its await: the handler call is made.
Dispatch(t) ==
    /\ status' = [status EXCEPT ![t] = "running"]
    /\ inFlight' = [inFlight EXCEPT ![t] = @ + 1]
    /\ executed' = [executed EXCEPT ![t] = @ + 1]

SubmitDispatched(t, a) ==
    /\ Assign(t, a)
    /\ t \notin RequiresApproval
    /\ Dispatch(t)
    /\ UNCHANGED <<failure, approvalVars>>

Submit(t) ==
    \/ SubmitUnassigned(t)
    \/ \E a \in Agents :
          \/ SubmitToDisabledAgent(t, a)
          \/ SubmitDenied(t, a)
          \/ SubmitParked(t, a)
          \/ SubmitDispatched(t, a)

-------------------------------------------------------------------------------
(* Orchestrator.dispatch after its await.  When the task was cancelled     *)
(* meanwhile, tasks.complete throws, the catch block's tasks.fail throws   *)
(* again, and the error escapes to the caller: the task keeps its status.  *)

\* Faulty variant: the transition is not checked.
HandlerReturnsUnchecked(t) ==
    /\ inFlight[t] > 0
    /\ inFlight' = [inFlight EXCEPT ![t] = @ - 1]
    /\ status' = [status EXCEPT ![t] = "completed"]
    /\ UNCHANGED <<assignedAgentId, failure, retryCount, approvalVars, executed, agentOps>>

HandlerReturns(t) ==
    /\ inFlight[t] > 0
    /\ inFlight' = [inFlight EXCEPT ![t] = @ - 1]
    /\ status' = [status EXCEPT ![t] =
                     IF CanTransition(@, "completed") THEN "completed" ELSE @]
    /\ UNCHANGED <<assignedAgentId, failure, retryCount, approvalVars, executed, agentOps>>

\* Faulty variant: the error is swallowed and the task left as it was.
HandlerErrorSwallowed(t) ==
    /\ inFlight[t] > 0
    /\ inFlight' = [inFlight EXCEPT ![t] = @ - 1]
    /\ UNCHANGED <<taskVars, approvalVars, executed, agentOps>>

HandlerThrows(t) ==
    /\ inFlight[t] > 0
    /\ inFlight' = [inFlight EXCEPT ![t] = @ - 1]
    /\ \/ /\ CanTransition(status[t], "failed")
          /\ status' = [status EXCEPT ![t] = "failed"]
          /\ \E f \in Failures \ {"none"} : failure' = [failure EXCEPT ![t] = f]
       \/ /\ ~CanTransition(status[t], "failed")
          /\ UNCHANGED <<status, failure>>
    /\ UNCHANGED <<assignedAgentId, retryCount, approvalVars, executed, agentOps>>

HandlerSettles(t) == HandlerReturns(t) \/ HandlerThrows(t)

-------------------------------------------------------------------------------
(* Orchestrator.resume(taskId, { asOf }): `swept` are the pending          *)
(* approvals expireStale(asOf) expires, none when asOf is not given.       *)

Stale == {t \in Tasks : approval[t] = "requested" /\ expiry[t] = "lapsed"}

\* Faulty variant: any decision lets the task run.
ResumeDecided(t) ==
    /\ status[t] = "awaiting_approval"
    /\ approval[t] # "requested"
    /\ Dispatch(t)
    /\ UNCHANGED <<assignedAgentId, failure, retryCount, approvalVars, agentOps>>

ResumeApproved(t) ==
    /\ status[t] = "awaiting_approval"
    /\ approval[t] = "approved"
    /\ Dispatch(t)
    /\ UNCHANGED <<assignedAgentId, failure, retryCount, approvalVars, agentOps>>

ResumeRefused(t, swept) ==
    /\ status[t] = "awaiting_approval"
    /\ approval' = [s \in Tasks |-> IF s \in swept THEN "expired" ELSE approval[s]]
    /\ approval'[t] \in {"rejected", "expired"}
    /\ status' = [status EXCEPT ![t] = "failed"]
    /\ failure' = [failure EXCEPT ![t] = "unclassified"]
    /\ UNCHANGED <<assignedAgentId, retryCount, expiry, execVars, agentOps>>

\* The decision is still open: resume throws, but the sweep has been made.
ResumePending(t, swept) ==
    /\ status[t] = "awaiting_approval"
    /\ approval[t] = "requested"
    /\ t \notin swept
    /\ approval' = [s \in Tasks |-> IF s \in swept THEN "expired" ELSE approval[s]]
    /\ UNCHANGED <<taskVars, expiry, execVars, agentOps>>

\* recordApprovalDecision called on the orchestrator itself: ApprovalSystem.decide
\* asks only that the request is pending, not that it has not lapsed.
RecordApprovalDecision(t, decided) ==
    /\ approval[t] = "requested"
    /\ approval' = [approval EXCEPT ![t] = decided]
    /\ UNCHANGED <<taskVars, expiry, execVars, agentOps>>

Resume(t) ==
    \/ ResumeApproved(t)
    \/ \E swept \in {{}, Stale} : ResumeRefused(t, swept) \/ ResumePending(t, swept)

-------------------------------------------------------------------------------
(* The clock, and the operator commands.                                   *)

ApprovalLapses(t) ==
    /\ approval[t] = "requested"
    /\ expiry[t] = "ahead"
    /\ expiry' = [expiry EXCEPT ![t] = "lapsed"]
    /\ UNCHANGED <<taskVars, approval, execVars, agentOps>>

\* Faulty variant: a status the approval system does not know.
DecideLapsedUnknown(t) ==
    /\ approval[t] = "requested"
    /\ expiry[t] = "lapsed"
    /\ approval' = [approval EXCEPT ![t] = "lapsed"]
    /\ UNCHANGED <<taskVars, expiry, execVars, agentOps>>

\* approve / reject of a lapsed request: it is expired and nothing else.
DecideLapsed(t) ==
    /\ approval[t] = "requested"
    /\ expiry[t] = "lapsed"
    /\ approval' = [approval EXCEPT ![t] = "expired"]
    /\ UNCHANGED <<taskVars, expiry, execVars, agentOps>>

\* The decision and the task's resume happen without an await between them;
\* the resume of a task that is no longer parked throws and is swallowed.
Approve(t) ==
    /\ approval[t] = "requested"
    /\ expiry[t] # "lapsed"
    /\ approval' = [approval EXCEPT ![t] = "approved"]
    /\ IF status[t] = "awaiting_approval"
       THEN Dispatch(t)
       ELSE UNCHANGED <<status, inFlight, executed>>
    /\ UNCHANGED <<assignedAgentId, failure, retryCount, expiry, agentOps>>

\* A rejection is recorded; the task is resumed for an approval only.
Reject(t) ==
    /\ approval[t] = "requested"
    /\ expiry[t] # "lapsed"
    /\ approval' = [approval EXCEPT ![t] = "rejected"]
    /\ UNCHANGED <<taskVars, expiry, execVars, agentOps>>

\* Refused for a completed or cancelled task, and for a failed one: there is
\* no transition from "failed" to "cancelled".
CancelTask(t) ==
    /\ CanTransition(status[t], "cancelled")
    /\ status' = [status EXCEPT ![t] = "cancelled"]
    /\ UNCHANGED <<assignedAgentId, failure, retryCount, approvalVars, execVars, agentOps>>

\* Nothing dispatches a task that was re-queued, so it cannot fail again and
\* the ceiling on retries is not met.
RetryTask(t) ==
    /\ status[t] = "failed"
    /\ t \notin WorkflowTasks
    /\ failure[t] # "fatal"
    /\ retryCount[t] < MaxOperatorRetries
    /\ status' = [status EXCEPT ![t] = "queued"]
    /\ retryCount' = [retryCount EXCEPT ![t] = @ + 1]
    /\ UNCHANGED <<assignedAgentId, failure, approvalVars, execVars, agentOps>>

\* disable_agent / enable_agent, refused when the scope already reads so.
SetAgentEnabled(a, scope, enabled) ==
    /\ IsEnabled(a, scope) # enabled
    /\ agentOps' = [agentOps EXCEPT ![a][scope] = IF enabled THEN "enabled" ELSE "disabled"]
    /\ UNCHANGED <<taskVars, approvalVars, execVars>>

-------------------------------------------------------------------------------

\* What the deployed server can do: tasks are submitted, handlers settle,
\* operators send commands.
ControlPlaneNext ==
    \/ \E t \in Tasks :
          \/ Submit(t)
          \/ HandlerSettles(t)
          \/ ApprovalLapses(t)
          \/ DecideLapsed(t)
          \/ Approve(t)
          \/ Reject(t)
          \/ CancelTask(t)
          \/ RetryTask(t)
    \/ \E a \in Agents, s \in Scopes, enabled \in BOOLEAN :
          SetAgentEnabled(a, s, enabled)

\* And code that holds the Orchestrator may record a decision and resume.
Next ==
    \/ ControlPlaneNext
    \/ \E t \in Tasks :
          \/ Resume(t)
          \/ \E decided \in {"approved", "rejected"} : RecordApprovalDecision(t, decided)

\* An executor's promise settles; nobody is obliged to send a command.
Fairness == \A t \in Tasks : WF_orchVars(HandlerSettles(t))

Spec == Init /\ [][Next]_orchVars /\ Fairness
ControlPlaneSpec == Init /\ [][ControlPlaneNext]_orchVars /\ Fairness

-------------------------------------------------------------------------------
(* Properties.                                                             *)

Terminal == {"completed", "cancelled"}

\* The refinement mapping to GatedExecution: a handler call counts as
\* executing until it settles, whatever has become of the task meanwhile.
PhaseOf(taskStatus, calls) ==
    IF calls > 0 THEN "executing"
    ELSE IF taskStatus = "absent" THEN "new"
    ELSE IF taskStatus = "awaiting_approval" THEN "parked"
    ELSE "closed"
DecisionOf(approvalStatus) ==
    IF approvalStatus \in {"none", "requested"} THEN "open"
    ELSE IF approvalStatus = "approved" THEN "granted"
    ELSE "denied"
HandlerPhase == [t \in Tasks |-> PhaseOf(status[t], inFlight[t])]
HandlerDecision == [t \in Tasks |-> DecisionOf(approval[t])]

Gate == INSTANCE GatedExecution WITH
            phase <- HandlerPhase, decision <- HandlerDecision

\* However submits, decisions, resumes, cancellations and late handler results
\* interleave, a handler is called at most once, for a gated task only once its
\* request was granted, and a request is decided once (orchestrator.ts submit,
\* resume and dispatch; decideApproval; ApprovalSystem.mustBePending).
ImplementsGate == Gate!Spec

\* A task says "running" exactly when one handler call stands behind it; a
\* call without a running task belongs to a task cancelled under it, whose
\* late result dispatch must drop.
RunningIsExecuting ==
    \A t \in Tasks :
        /\ status[t] = "running" => inFlight[t] = 1
        /\ inFlight[t] # 0 => inFlight[t] = 1 /\ status[t] \in {"running", "cancelled"}

\* A parked task always has a request behind it and an agent to run it, which
\* is what resume relies on (approvals.require, registry.require).
ParkedIsResumable ==
    \A t \in Tasks :
        status[t] = "awaiting_approval" =>
            /\ approval[t] # "none"
            /\ assignedAgentId[t] \in Agents
            /\ executed[t] = 0

\* No late handler result, resume or decision moves a task out of completed
\* or cancelled, and a failed task is only ever re-queued, at the price of one
\* of its bounded operator retries.
SettledIsFinal ==
    [][\A t \in Tasks :
          /\ status[t] \in Terminal => status'[t] = status[t]
          /\ status[t] = "failed" /\ status'[t] # "failed" =>
                /\ status'[t] = "queued"
                /\ retryCount'[t] = retryCount[t] + 1]_orchVars

\* A task that runs ends, or is cancelled, once its handler settles.
RunningSettles ==
    \A t \in Tasks :
        status[t] = "running" ~> status[t] \in {"completed", "failed", "cancelled"}

\* A rejected request fails its task, as docs/control-plane.md says of the
\* reject command (the decision, "then best-effort `*.resume`").
RejectedTaskFails ==
    \A t \in Tasks :
        approval[t] = "rejected" ~> status[t] # "awaiting_approval"
===============================================================================
