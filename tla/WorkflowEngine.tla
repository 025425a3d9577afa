---------------------------- MODULE WorkflowEngine ----------------------------
(***************************************************************************)
(* One workflow driven by WorkflowEngine (core/workflows/workflow-engine,  *)
(* workflow-graph, workflow-system) over the Orchestrator, and the         *)
(* operator commands that act on it (workforce-command-service.ts).        *)
(*                                                                         *)
(* The engine is a coroutine: pc is where it stands, "idle" when no call   *)
(* of run or resume is active.  It gives up the event loop only while it   *)
(* awaits a handler (Loop below); the awaits in between are on promises    *)
(* that are already settled, and no other request can slip into those.     *)
(* The local `workflow` of the code is re-read by every update, so it is   *)
(* the stored one whenever it is looked at.                                *)
(***************************************************************************)
EXTENDS Naturals, FiniteSets

CONSTANTS
    Specs,                 \* Workflow.tasks, as spec ids
    Position,              \* spec |-> its place in that list
    DependsOn,             \* spec |-> specs it depends on
    SpecAgentId,           \* spec |-> its explicit agentId, or NoAgent
    EligibleFor,           \* spec |-> agents AgentRegistry.eligible yields
    Capable,               \* spec |-> agents that hold its capability
    ToolAuthorized,        \* spec |-> agents its expectedTools allow
    WantsHandoff,          \* the specs with acceptance criteria
    Drafts,                \* what a WorkflowDraft chooses besides: see DraftType
    MaxRetries,            \* retryPolicy.maxRetries
    GatedSpecs,            \* specs whose tasks the approval policy gates
    Agents, NoAgent, Project, NoTask,
    MaxToolCallsPerTask,   \* bound: tool calls one completed task reports
    MaxInterventions       \* bound: operator commands besides decisions and resumes, and expiries

DraftType ==
    [failureBehavior : {"abort", "continue"}, participatingAgents : SUBSET Agents,
     maxAgentExecutions : Nat, maxHandoffs : Nat, maxToolCalls : Nat]

ASSUME WorkflowAssumption ==
    /\ MaxRetries \in Nat /\ MaxToolCallsPerTask \in Nat /\ MaxInterventions \in Nat
    /\ Drafts \subseteq DraftType
    /\ IsFiniteSet(Specs)
    /\ Position \in [Specs -> Nat]
    /\ DependsOn \in [Specs -> SUBSET Specs]
    /\ SpecAgentId \in [Specs -> Agents \cup {NoAgent}]
    /\ EligibleFor \in [Specs -> SUBSET Agents]
    /\ GatedSpecs \subseteq Specs
    /\ NoAgent \notin Agents
    /\ Project # "global"

\* Every submit creates a task: its id is the spec and which submit it was.
Tasks == Specs \X (1..(MaxRetries + 1))
SpecOf(t) == t[1]

VARIABLES
    \* the Orchestrator's, see there
    status, assignedAgentId, failure, retryCount, approval, expiry,
    inFlight, executed, agentOps,
    \* Workflow: status, what its draft said, taskRecords, counters
    wf, draft, recStatus, recTask, recRetries,
    agentExecutions, handoffs, toolCalls,
    handedOff,     \* HandoffSystem: the (task, destination agent) pairs accepted
    paused,        \* WorkflowControlStore.isPaused
    pc, pass,      \* where the engine stands, and schedule's pass counter
    todo,          \* specs left in the loop it is in, taken by position
    escaped,       \* its last call was rejected with an error
    approving,     \* tasks an approve command is awaiting the resume of
    interventions  \* how many of those there were

orchVars == <<status, assignedAgentId, failure, retryCount, approval, expiry,
              inFlight, executed, agentOps>>
recVars == <<recStatus, recTask, recRetries>>
counterVars == <<agentExecutions, handoffs, toolCalls, handedOff>>
engineVars == <<pc, pass, todo, escaped>>
vars == <<orchVars, wf, draft, recVars, counterVars, paused, engineVars, approving, interventions>>

O == INSTANCE Orchestrator WITH
        Projects <- {Project},
        ProjectOf <- [t \in Tasks |-> Project],
        Eligible <- [t \in Tasks |-> EligibleFor[SpecOf(t)]],
        RequiresApproval <- {t \in Tasks : SpecOf(t) \in GatedSpecs},
        WorkflowTasks <- Tasks,
        MaxOperatorRetries <- 0

WorkflowStatuses == {"created", "planned", "running", "awaiting_approval", "blocked",
                     "completed", "failed", "cancelled"}
RecordStatuses == {"pending", "awaiting_approval", "completed", "failed", "blocked", "skipped"}
TerminalWorkflow == {"completed", "failed", "cancelled"}
MaxPasses == Cardinality(Specs) * (MaxRetries + 1) + 5

TypeOK ==
    /\ O!TypeOK
    /\ wf \in WorkflowStatuses
    /\ draft \in Drafts
    /\ recStatus \in [Specs -> RecordStatuses]
    /\ recTask \in [Specs -> Tasks \cup {NoTask}]
    /\ recRetries \in [Specs -> 0..MaxRetries]
    /\ agentExecutions \in Nat /\ handoffs \in Nat /\ toolCalls \in Nat
    /\ handedOff \subseteq Tasks \X Agents
    /\ paused \in BOOLEAN /\ escaped \in BOOLEAN
    /\ pc \in {"idle", "pass", "next", "submitted", "resume", "resuming"}
    /\ pass \in 0..MaxPasses
    /\ todo \subseteq Specs
    /\ approving \subseteq Tasks
    /\ interventions \in 0..MaxInterventions

Init ==
    /\ O!Init
    /\ wf = "created"
    /\ draft \in Drafts
    /\ recStatus = [s \in Specs |-> "pending"]
    /\ recTask = [s \in Specs |-> NoTask]
    /\ recRetries = [s \in Specs |-> 0]
    /\ agentExecutions = 0 /\ handoffs = 0 /\ toolCalls = 0
    /\ handedOff = {}
    /\ paused = FALSE
    /\ pc = "idle" /\ pass = 0 /\ todo = {} /\ escaped = FALSE
    /\ approving = {}
    /\ interventions = 0

-------------------------------------------------------------------------------
(* The workflow's state machine and its graph.                             *)

TRANSITIONS ==
    [created           |-> {"planned", "cancelled"},
     planned           |-> {"running", "cancelled"},
     running           |-> {"awaiting_approval", "blocked", "completed", "failed", "cancelled"},
     awaiting_approval |-> {"running", "cancelled"},
     blocked           |-> {"running", "failed", "cancelled"},
     completed         |-> {},
     failed            |-> {},
     cancelled         |-> {}]

CanTransition(to) == to \in TRANSITIONS[wf]

\* Faulty variant: a dependency counts unless it has failed.
ReadyUnlessFailed ==
    {s \in Specs : recStatus[s] = "pending" /\
        \A d \in DependsOn[s] : recStatus[d] \notin {"failed", "blocked", "skipped"}}

ComputeReadySpecs ==
    {s \in Specs : recStatus[s] = "pending" /\ \A d \in DependsOn[s] : recStatus[d] = "completed"}

\* The loops go through Workflow.tasks in order.
First(S) == CHOOSE s \in S : \A x \in S : Position[s] <= Position[x]

\* Faulty variant: a failure skips all that is pending.
EverythingPending(s) == {x \in Specs \ {s} : recStatus[x] = "pending"}

\* Sets of pending specs with all that depends on s or on one of them.
ClosedUnder(s) ==
    {D \in SUBSET {x \in Specs : recStatus[x] = "pending"} :
        \A x \in Specs : recStatus[x] = "pending" /\ (\E d \in DependsOn[x] : d = s \/ d \in D)
                            => x \in D}

\* The pending specs that depend on s, directly or through other such specs:
\* the smallest of those sets.
Downstream(s) == {x \in Specs : \A D \in ClosedUnder(s) : x \in D}

\* assignAgent: an explicit agent, or an eligible participant with the
\* capability, whichever the registry lists first; then every requirement is
\* checked again, tools included, and a candidate that fails has no successor.
Candidates(s) ==
    IF SpecAgentId[s] # NoAgent
    THEN {SpecAgentId[s]}
    ELSE EligibleFor[s] \cap draft.participatingAgents \cap Capable[s]
Assignments(s) ==
    Candidates(s) \cap draft.participatingAgents \cap EligibleFor[s] \cap Capable[s] \cap ToolAuthorized[s]
Unassignable(s) == Candidates(s) = {} \/ Candidates(s) # Assignments(s)

\* Faulty variants: no ceiling on retries; no look at the reason.
ShouldRetryUnbounded(s, t) == status[t] = "failed" /\ failure[t] = "retryable"
ShouldRetryAnyReason(s, t) == status[t] \in {"failed", "blocked"} /\ recRetries[s] < MaxRetries

ShouldRetry(s, t) ==
    /\ status[t] = "failed"
    /\ failure[t] = "retryable"
    /\ recRetries[s] < MaxRetries

\* The task the engine is waiting for.
Awaited == recTask[First(todo)]

\* Nothing is queued to run at once: the engine is idle or awaits a handler,
\* and so does every approve command.
EngineWaits == pc = "idle" \/ (pc \in {"submitted", "resuming"} /\ inFlight[Awaited] > 0)
Loop ==
    /\ EngineWaits
    /\ \A t \in approving : inFlight[t] > 0

-------------------------------------------------------------------------------
(* How a call of the engine ends.                                          *)

Return ==
    /\ pc' = "idle" /\ pass' = 0 /\ todo' = {} /\ escaped' = FALSE

\* The call is rejected with an error nobody in the engine catches.
Escape ==
    /\ pc' = "idle" /\ pass' = 0 /\ todo' = {} /\ escaped' = TRUE

Finish(final) == wf' = final /\ Return

\* fail: the transition itself throws when the workflow is already terminal.
Fail ==
    IF CanTransition("failed")
    THEN Finish("failed")
    ELSE Escape /\ UNCHANGED wf

\* Faulty variant: a workflow of which something completed is completed.
FinalizePartial ==
    IF \E s \in Specs : recStatus[s] = "completed" THEN Finish("completed") ELSE Fail

\* finalize: completed when every task is; otherwise the workflow fails,
\* whether some task failed or nothing was left that could run.
Finalize ==
    IF \A s \in Specs : recStatus[s] = "completed" THEN Finish("completed") ELSE Fail

-------------------------------------------------------------------------------
(* run and schedule.                                                       *)

Run ==
    /\ Loop
    /\ pc = "idle"
    /\ wf = "created"
    /\ wf' = "running"
    /\ pc' = "pass" /\ pass' = 0 /\ todo' = {} /\ escaped' = FALSE
    /\ UNCHANGED <<orchVars, draft, recVars, counterVars, paused, approving, interventions>>

\* limits.maxDurationMs, which may be over at any pass: how long handlers take
\* is not bounded; and the end of schedule's loop when it does not converge.
PassLimit ==
    /\ pc = "pass"
    /\ Fail
    /\ UNCHANGED <<orchVars, draft, recVars, counterVars, paused, approving, interventions>>

PassNothingReady ==
    /\ pc = "pass"
    /\ pass < MaxPasses
    /\ ComputeReadySpecs = {}
    /\ IF \E s \in Specs : recStatus[s] = "awaiting_approval"
       THEN Finish("awaiting_approval")
       ELSE Finalize
    /\ UNCHANGED <<orchVars, draft, recVars, counterVars, paused, approving, interventions>>

PassReady ==
    /\ pc = "pass"
    /\ pass < MaxPasses
    /\ ComputeReadySpecs # {}
    /\ pc' = "next"
    /\ pass' = pass + 1
    /\ todo' = ComputeReadySpecs
    /\ UNCHANGED <<orchVars, wf, draft, recVars, counterVars, paused, escaped, approving, interventions>>

NextPass ==
    /\ pc = "next"
    /\ todo = {}
    /\ pc' = "pass"
    /\ UNCHANGED <<orchVars, wf, draft, recVars, counterVars, paused, pass, todo,
                   escaped, approving, interventions>>

\* Faulty variant: one execution too many.
WithinExecutionsOrOneMore == agentExecutions <= draft.maxAgentExecutions

WithinExecutions == agentExecutions < draft.maxAgentExecutions

NextOverExecutions ==
    /\ pc = "next"
    /\ todo # {}
    /\ ~WithinExecutions
    /\ Fail
    /\ UNCHANGED <<orchVars, draft, recVars, counterVars, paused, approving, interventions>>

\* Record s ends as `ended`, everything downstream of it is skipped, and in
\* abort mode the workflow fails with it; `goOn` is how the engine proceeds.
EndSpec(s, ended, goOn) ==
    /\ recStatus' = [x \in Specs |-> CASE x = s -> ended
                                       [] x \in Downstream(s) \ {s} -> "skipped"
                                       [] OTHER -> recStatus[x]]
    /\ IF draft.failureBehavior = "abort" THEN Fail ELSE goOn

NextUnassignable ==
    /\ pc = "next"
    /\ todo # {}
    /\ WithinExecutions
    /\ Unassignable(First(todo))
    /\ EndSpec(First(todo), "blocked",
               /\ todo' = todo \ {First(todo)}
               /\ UNCHANGED <<wf, pc, pass, escaped>>)
    /\ UNCHANGED <<orchVars, draft, recTask, recRetries, counterVars, paused, approving, interventions>>

\* ensureHandoffs: one for each completed dependency another agent worked on,
\* unless it was already handed to this agent.
NewHandoffs(s, a) ==
    {<<recTask[d], a>> : d \in {d \in DependsOn[s] :
        /\ s \in WantsHandoff
        /\ recStatus[d] = "completed"
        /\ assignedAgentId[recTask[d]] # a}} \ handedOff

HandOff(s, a) ==
    /\ handedOff' = handedOff \cup NewHandoffs(s, a)
    /\ handoffs' = handoffs + Cardinality(NewHandoffs(s, a))

NextOverHandoffs ==
    /\ pc = "next"
    /\ todo # {}
    /\ WithinExecutions
    /\ \E a \in Assignments(First(todo)) : HandOff(First(todo), a)
    /\ handoffs' > draft.maxHandoffs
    /\ Fail
    /\ UNCHANGED <<orchVars, draft, recVars, agentExecutions, toolCalls, paused, approving, interventions>>

\* The submit of the spec's next task. The record itself still says pending
\* and keeps its old taskId until the outcome is applied; recTask is set here
\* already because nothing reads it before.
NextDispatch ==
    /\ pc = "next"
    /\ todo # {}
    /\ WithinExecutions
    /\ LET s == First(todo)
           t == <<s, recRetries[s] + 1>>
       IN /\ \E a \in Assignments(s) : HandOff(s, a)
          /\ handoffs' <= draft.maxHandoffs
          /\ O!Submit(t)
          /\ recTask' = [recTask EXCEPT ![s] = t]
    /\ pc' = "submitted"
    /\ UNCHANGED <<wf, draft, recStatus, recRetries, agentExecutions, toolCalls, paused,
                   pass, todo, escaped, approving, interventions>>

-------------------------------------------------------------------------------
(* applyTaskOutcome, and the continuation of dispatch and resume.          *)

\* Faulty variants: the workflow's status is not looked at after the await; the
\* engine returns with the last spec of its loop.
GoOnRegardless(back) ==
    /\ pc' = back
    /\ todo' = todo \ {First(todo)}
    /\ UNCHANGED <<wf, pass, escaped>>
GoOnUntilLast(back) ==
    IF wf # "running" \/ todo = {First(todo)}
    THEN Return /\ UNCHANGED wf
    ELSE /\ pc' = back
         /\ todo' = todo \ {First(todo)}
         /\ UNCHANGED <<wf, pass, escaped>>

\* `back` is the loop the engine was in: schedule's or resume's. Both stop
\* when the workflow is no longer running.
GoOn(back) ==
    IF wf # "running"
    THEN Return /\ UNCHANGED wf
    ELSE /\ pc' = back
         /\ todo' = todo \ {First(todo)}
         /\ UNCHANGED <<wf, pass, escaped>>

ApplyTaskOutcome(s, t, back) ==
    \/ /\ status[t] \in {"awaiting_approval", "completed"}
       /\ recStatus' = [recStatus EXCEPT ![s] = status[t]]
       /\ UNCHANGED recRetries
       /\ GoOn(back)
    \/ /\ ShouldRetry(s, t)
       /\ recStatus' = [recStatus EXCEPT ![s] = "pending"]
       /\ recRetries' = [recRetries EXCEPT ![s] = @ + 1]
       /\ GoOn(back)
    \/ /\ status[t] \in {"failed", "blocked"}
       /\ ~ShouldRetry(s, t)
       /\ EndSpec(s, "failed", GoOn(back))
       /\ UNCHANGED recRetries

\* Faulty variant: the error of a task cancelled under its handler is lost.
SettledWithoutError(at) == pc = at /\ inFlight[Awaited] = 0 /\ status[Awaited] # "cancelled"

\* The awaited call settled; it was rejected when the task was cancelled
\* under its handler (Orchestrator.dispatch lets that error out).
Settled(at) == pc = at /\ inFlight[Awaited] = 0

SubmitSettled ==
    /\ Settled("submitted")
    /\ status[Awaited] # "cancelled"
    /\ agentExecutions' = agentExecutions + 1
    /\ \E n \in IF status[Awaited] = "completed" THEN 0..MaxToolCallsPerTask ELSE {0} :
          toolCalls' = toolCalls + n
    /\ IF toolCalls' > draft.maxToolCalls
       THEN Fail /\ UNCHANGED <<recStatus, recRetries>>
       ELSE ApplyTaskOutcome(First(todo), Awaited, "next")
    /\ UNCHANGED <<orchVars, draft, recTask, handoffs, handedOff, paused, approving, interventions>>

ResumeSettled ==
    /\ Settled("resuming")
    /\ status[Awaited] # "cancelled"
    /\ ApplyTaskOutcome(First(todo), Awaited, "resume")
    /\ UNCHANGED <<orchVars, draft, recTask, counterVars, paused, approving, interventions>>

AwaitedRejected ==
    /\ Settled("submitted") \/ Settled("resuming")
    /\ status[Awaited] = "cancelled"
    /\ Escape
    /\ UNCHANGED <<orchVars, wf, draft, recVars, counterVars, paused, approving, interventions>>

-------------------------------------------------------------------------------
(* WorkflowEngine.resume.                                                  *)

\* Faulty variant: the workflow is not set running again.
StartResumeStillParked ==
    IF wf = "awaiting_approval"
    THEN /\ pc' = "resume" /\ pass' = 0 /\ escaped' = FALSE
         /\ todo' = {s \in Specs : recStatus[s] = "awaiting_approval"}
         /\ UNCHANGED wf
    ELSE UNCHANGED <<wf, engineVars>>

\* Its synchronous start; a workflow that is not parked makes it throw.
StartResume ==
    IF wf = "awaiting_approval"
    THEN /\ wf' = "running"
         /\ pc' = "resume" /\ pass' = 0 /\ escaped' = FALSE
         /\ todo' = {s \in Specs : recStatus[s] = "awaiting_approval"}
    ELSE UNCHANGED <<wf, engineVars>>

ResumeNext ==
    /\ pc = "resume"
    /\ todo # {}
    /\ \/ O!ResumeApproved(Awaited)
       \/ O!ResumeRefused(Awaited, {})
    /\ pc' = "resuming"
    /\ UNCHANGED <<wf, draft, recVars, counterVars, paused, pass, todo, escaped, approving, interventions>>

\* The decision is still open, or the task is not parked any more.
ResumeThrows ==
    /\ pc = "resume"
    /\ todo # {}
    /\ status[Awaited] # "awaiting_approval" \/ approval[Awaited] = "requested"
    /\ Escape
    /\ UNCHANGED <<orchVars, wf, draft, recVars, counterVars, paused, approving, interventions>>

ResumeScheduled ==
    /\ pc = "resume"
    /\ todo = {}
    /\ pc' = "pass"
    /\ UNCHANGED <<orchVars, wf, draft, recVars, counterVars, paused, pass, todo,
                   escaped, approving, interventions>>

-------------------------------------------------------------------------------
(* The operators, and callers of the engine.                               *)

EngineUnchanged == UNCHANGED <<draft, recVars, counterVars>>

Intervene ==
    /\ Loop
    /\ interventions < MaxInterventions
    /\ interventions' = interventions + 1

\* An error without a classification is to the engine what a fatal one is.
HandlerSettles(t) ==
    /\ Loop
    /\ O!HandlerSettles(t)
    /\ failure'[t] # "unclassified"
    /\ EngineUnchanged
    /\ UNCHANGED <<wf, paused, engineVars, approving, interventions>>

\* approve: decision and task resume, then an await for the task.
Approve(t) ==
    /\ Loop
    /\ O!Approve(t)
    /\ approving' = approving \cup {t}
    /\ EngineUnchanged
    /\ UNCHANGED <<wf, paused, engineVars, interventions>>

\* ... and the continuation of the workflow the task belongs to; its error,
\* and the task's own, are reported in the command's result.
ApproveContinues(t) ==
    /\ t \in approving
    /\ inFlight[t] = 0
    /\ EngineWaits
    /\ approving' = approving \ {t}
    /\ StartResume
    /\ EngineUnchanged
    /\ UNCHANGED <<orchVars, paused, interventions>>

Decide(t) ==
    /\ Loop
    /\ \/ O!Reject(t)
       \/ O!DecideLapsed(t)
       \/ \E decided \in {"approved", "rejected"} : O!RecordApprovalDecision(t, decided)
    /\ EngineUnchanged
    /\ UNCHANGED <<wf, paused, engineVars, approving, interventions>>

CancelTask(t) ==
    /\ Intervene
    /\ O!CancelTask(t)
    /\ EngineUnchanged
    /\ UNCHANGED <<wf, paused, engineVars, approving>>

ApprovalLapses(t) ==
    /\ Intervene
    /\ O!ApprovalLapses(t)
    /\ EngineUnchanged
    /\ UNCHANGED <<wf, paused, engineVars, approving>>

DisableAgent(a) ==
    /\ Intervene
    /\ O!SetAgentEnabled(a, "global", FALSE)
    /\ EngineUnchanged
    /\ UNCHANGED <<wf, paused, engineVars, approving>>

PauseWorkflow ==
    /\ Intervene
    /\ wf \notin TerminalWorkflow
    /\ ~paused
    /\ paused' = TRUE
    /\ EngineUnchanged
    /\ UNCHANGED <<orchVars, wf, engineVars, approving>>

\* resume_workflow: lifts the pause, and resumes a parked workflow.
ResumeWorkflow ==
    /\ Loop
    /\ wf \notin TerminalWorkflow
    /\ paused \/ wf = "awaiting_approval"
    /\ paused' = FALSE
    /\ StartResume
    /\ EngineUnchanged
    /\ UNCHANGED <<orchVars, approving, interventions>>

CancelWorkflow ==
    /\ Intervene
    /\ CanTransition("cancelled")
    /\ wf' = "cancelled"
    /\ EngineUnchanged
    /\ UNCHANGED <<orchVars, paused, engineVars, approving>>

-------------------------------------------------------------------------------

EngineStep ==
    \/ PassLimit
    \/ PassNothingReady
    \/ PassReady
    \/ NextPass
    \/ NextOverExecutions
    \/ NextUnassignable
    \/ NextOverHandoffs
    \/ NextDispatch
    \/ SubmitSettled
    \/ ResumeSettled
    \/ AwaitedRejected
    \/ ResumeNext
    \/ ResumeThrows
    \/ ResumeScheduled

Next ==
    \/ Run
    \/ EngineStep
    \/ \E t \in Tasks :
          \/ HandlerSettles(t)
          \/ Approve(t)
          \/ ApproveContinues(t)
          \/ Decide(t)
          \/ ApprovalLapses(t)
          \/ CancelTask(t)
    \/ \E a \in Agents : DisableAgent(a)
    \/ PauseWorkflow
    \/ ResumeWorkflow
    \/ CancelWorkflow

\* The event loop runs what is ready to run, and handlers settle.
Fairness ==
    /\ WF_vars(EngineStep)
    /\ \A t \in Tasks : WF_vars(HandlerSettles(t)) /\ WF_vars(ApproveContinues(t))

Spec == Init /\ [][Next]_vars /\ Fairness

-------------------------------------------------------------------------------
(* Properties.                                                             *)

Created(t) == status[t] # "absent"

\* No task of a spec exists before everything the spec depends on completed,
\* whichever of run, resume and retry came to it (computeReadySpecs over the
\* records schedule re-reads after each await).
DependencyOrder ==
    \A t \in Tasks : Created(t) => \A d \in DependsOn[SpecOf(t)] : recStatus[d] = "completed"

\* A spec is attempted again only after its last attempt failed for a reason
\* the retry policy names; so it never has two live tasks (applyTaskOutcome).
RetryReplacesFailure ==
    \A s \in Specs : \A n \in 2..(MaxRetries + 1) :
        Created(<<s, n>>) => status[<<s, n - 1>>] = "failed" /\ failure[<<s, n - 1>>] = "retryable"

\* A workflow completes only when the handler behind each spec's last attempt
\* did; a late completion or a skipped branch cannot stand in (finalize).
CompletedMeansAll ==
    wf = "completed" =>
        \A s \in Specs : recTask[s] \in Tasks /\ status[recTask[s]] = "completed"

\* A spec is skipped because of an upstream spec that will never complete,
\* and never once it has a task of its own (propagateSkip).
SkippedHasCause ==
    \A s \in Specs : recStatus[s] = "skipped" =>
        /\ \A n \in 1..(MaxRetries + 1) : ~Created(<<s, n>>)
        /\ \E d \in DependsOn[s] : recStatus[d] \in {"failed", "blocked", "skipped"}

\* maxAgentExecutions bounds the tasks a workflow ever creates, over all its
\* runs and resumes (the check in schedule, the count in dispatch).
ExecutionsWithinLimit ==
    Cardinality({t \in Tasks : Created(t)}) <= draft.maxAgentExecutions

\* A parked workflow has a parked record for resume to take up and no
\* scheduler at work, so a resume never starts a second one.
ParkedIsQuiescent ==
    wf = "awaiting_approval" =>
        /\ pc = "idle"
        /\ \E s \in Specs : recStatus[s] = "awaiting_approval"

\* The engine leaves a workflow "running" only by an error its caller saw.
NoSilentStop == wf = "running" /\ pc = "idle" => escaped

\* A workflow that ended, cancelled under a handler included, keeps its
\* status, and no task is created for it any more.
EndedStaysEnded ==
    [][(wf \in TerminalWorkflow) =>
          /\ wf' = wf
          /\ \A t \in Tasks : Created(t)' = Created(t)]_vars

\* Every call of run or resume returns, or is rejected, once handlers settle.
SchedulerReturns == pc # "idle" ~> pc = "idle"

\* A parked task that was approved and has completed reaches its workflow's
\* record, or the workflow has ended: "resumes every parked task ... and
\* continues scheduling" (docs/workflows.md).
ApprovedTaskIsRecorded ==
    \A s \in Specs :
        (recStatus[s] = "awaiting_approval" /\ status[recTask[s]] = "completed")
            ~> (recStatus[s] = "completed" \/ wf \in TerminalWorkflow)
===============================================================================
