------------------------- MODULE WorkflowEngineProofs -------------------------
(***************************************************************************)
(* Proofs about WorkflowEngine for any workflow graph, limits, retry       *)
(* policy and agents.  What the orchestrator below keeps is taken from     *)
(* OrchestratorProofs; what remains is that the engine's records, its loop *)
(* and its counters agree with the tasks the orchestrator has.             *)
(***************************************************************************)
EXTENDS WorkflowEngine, FiniteSetTheorems, WellFoundedInduction, TLAPS

P == INSTANCE OrchestratorProofs WITH
        Tasks <- Tasks,
        Projects <- {Project},
        ProjectOf <- [t \in Tasks |-> Project],
        Eligible <- [t \in Tasks |-> EligibleFor[SpecOf(t)]],
        RequiresApproval <- {t \in Tasks : SpecOf(t) \in GatedSpecs},
        WorkflowTasks <- Tasks,
        MaxOperatorRetries <- 0

-------------------------------------------------------------------------------
(* The inductive invariant.                                                *)

EngineTypes ==
    /\ wf \in WorkflowStatuses
    /\ draft \in Drafts
    /\ recStatus \in [Specs -> RecordStatuses]
    /\ recTask \in [Specs -> Tasks \cup {NoTask}]
    /\ recRetries \in [Specs -> 0..MaxRetries]
    /\ agentExecutions \in Nat /\ handoffs \in Nat /\ toolCalls \in Nat
    /\ handedOff \subseteq Tasks \X Agents
    /\ paused \in BOOLEAN /\ escaped \in BOOLEAN
    /\ pc \in {"idle", "pass", "next", "submitted", "resume", "resuming"}
    /\ pass \in 0..MaxPasses
    /\ todo \subseteq Specs
    /\ approving \subseteq Tasks
    /\ interventions \in 0..MaxInterventions

\* Where the engine stands agrees with the workflow's status.
Place ==
    /\ pc \in {"pass", "next", "resume"} => wf = "running"
    /\ pc # "idle" => wf \in {"running", "cancelled"}
    /\ ParkedIsQuiescent
    /\ NoSilentStop
    /\ wf = "completed" => \A s \in Specs : recStatus[s] = "completed"

\* A record agrees with the tasks of its spec: which were created, how those
\* before the last ended, and what the last one did.
RecordOK(s) ==
    /\ recStatus[s] = "awaiting_approval" => recTask[s] = <<s, recRetries[s] + 1>>
    /\ recStatus[s] = "completed" => recTask[s] \in Tasks /\ status[recTask[s]] = "completed"
    /\ \A n \in 1..recRetries[s] :
          status[<<s, n>>] = "failed" /\ failure[<<s, n>>] = "retryable"
    /\ \A n \in 1..(MaxRetries + 1) : Created(<<s, n>>) =>
          /\ n <= recRetries[s] + 1
          /\ \A d \in DependsOn[s] : recStatus[d] = "completed"
    /\ recStatus[s] = "skipped" =>
          /\ \A n \in 1..(MaxRetries + 1) : ~Created(<<s, n>>)
          /\ \E d \in DependsOn[s] : recStatus[d] \in {"failed", "blocked", "skipped"}

Records == \A s \in Specs : RecordOK(s)

Ready(s) == recStatus[s] = "pending" /\ \A d \in DependsOn[s] : recStatus[d] = "completed"

\* What the engine's loop still has before it was right when the loop began
\* and has stayed so across the awaits.
Todo ==
    /\ pc \in {"next", "submitted"} => \A s \in todo : Ready(s)
    /\ pc \in {"resume", "resuming"} => \A s \in todo : recStatus[s] = "awaiting_approval"
    /\ pc \in {"submitted", "resuming"} => todo # {}
    /\ pc = "submitted" => Awaited = <<First(todo), recRetries[First(todo)] + 1>>

CreatedTasks == {t \in Tasks : Created(t)}

\* A task is counted after its submit returned: while the engine waits for
\* that, and after an error, the count is one behind.
Count ==
    /\ ExecutionsWithinLimit
    /\ pc = "submitted" => Cardinality(CreatedTasks) <= agentExecutions + 1
    /\ pc # "submitted" /\ (pc # "idle" \/ wf \in {"created", "awaiting_approval"}) =>
          Cardinality(CreatedTasks) <= agentExecutions

EngineInv == EngineTypes /\ Place /\ Records /\ Todo /\ Count

IInv == P!IInv /\ EngineInv

-------------------------------------------------------------------------------
(* Constants, and the helpers on sets.                                     *)

LEMMA Assumptions == P!OrchestratorAssumption
  BY WorkflowAssumption DEF P!OrchestratorAssumption, Tasks, SpecOf

LEMMA FirstIn ==
  ASSUME NEW S \in SUBSET Specs, S # {}
  PROVE  First(S) \in S
<1> DEFINE T == {Position[s] : s \in S}
           R == OpToRel(<, Nat)
<1>1. T \subseteq Nat /\ T # {}
  BY WorkflowAssumption
<1>2. IsWellFoundedOn(R, Nat)
  BY NatLessThanWellFounded
<1> HIDE DEF R
<1>3. PICK x \in T : \A y \in T : <<y, x>> \notin R
  BY <1>1, <1>2, WFMin, Zenon
<1>4. \A y \in T : ~(y < x)
  BY <1>3, <1>1 DEF R, OpToRel
<1>5. PICK s \in S : x = Position[s]
  BY <1>3
<1>6. \A z \in S : Position[s] <= Position[z]
  <2> SUFFICES ASSUME NEW z \in S PROVE Position[s] <= Position[z]
    OBVIOUS
  <2>1. Position[z] \in T /\ Position[s] \in Nat /\ Position[z] \in Nat
    BY WorkflowAssumption
  <2>2. ~(Position[z] < Position[s])
    BY <2>1, <1>4, <1>5
  <2>3. QED
    BY <2>1, <2>2
<1>7. QED
  BY <1>5, <1>6 DEF First

LEMMA TasksFinite == IsFiniteSet(Tasks)
<1>1. IsFiniteSet(1..(MaxRetries + 1))
  BY FS_Interval, WorkflowAssumption
<1>2. QED
  BY <1>1, FS_Product, WorkflowAssumption DEF Tasks

LEMMA CreatedFinite == IsFiniteSet(CreatedTasks) /\ Cardinality(CreatedTasks) \in Nat
<1>1. IsFiniteSet(CreatedTasks)
  BY TasksFinite, FS_Subset DEF CreatedTasks
<1>2. QED
  BY <1>1, FS_CardinalityType

LEMMA PassesType == MaxPasses \in Nat
<1>1. Cardinality(Specs) \in Nat
  BY FS_CardinalityType, WorkflowAssumption
<1>2. QED
  BY <1>1, WorkflowAssumption DEF MaxPasses

(* What is skipped was pending, and for a reason: were x in Downstream     *)
(* without a dependency on s or into Downstream, the set without x would   *)
(* still be closed.                                                        *)
LEMMA DownstreamHasCause ==
  ASSUME NEW s \in Specs, NEW x \in Downstream(s)
  PROVE  /\ x \in Specs /\ recStatus[x] = "pending"
         /\ \E d \in DependsOn[x] : d = s \/ d \in Downstream(s)
<1> DEFINE Pending == {y \in Specs : recStatus[y] = "pending"}
<1>1. Pending \in ClosedUnder(s)
  BY DEF ClosedUnder
<1>2. x \in Specs /\ recStatus[x] = "pending"
  BY <1>1 DEF Downstream
<1>3. ASSUME \A d \in DependsOn[x] : d # s /\ d \notin Downstream(s)
      PROVE  FALSE
  <2> DEFINE D == Downstream(s) \ {x}
  <2>1. Downstream(s) \subseteq Pending
    BY <1>1 DEF Downstream
  <2>2. ASSUME NEW y \in Specs, recStatus[y] = "pending",
               NEW d \in DependsOn[y], d = s \/ d \in D
        PROVE  y \in D
    <3>1. y # x
      BY <1>3, <2>2
    <3>2. ASSUME NEW E \in ClosedUnder(s) PROVE y \in E
      <4>1. d = s \/ d \in E
        BY <2>2, <3>2 DEF Downstream
      <4>2. QED
        BY <2>2, <4>1 DEF ClosedUnder
    <3>3. QED
      BY <3>1, <3>2 DEF Downstream
  <2>3. D \in ClosedUnder(s)
    BY <2>1, <2>2 DEF ClosedUnder
  <2>4. QED
    BY <2>3 DEF Downstream
<1>4. QED
  BY <1>2, <1>3

-------------------------------------------------------------------------------
(* What the orchestrator does under the engine.                            *)

\* The spec whose task the engine waits for, or takes up, and that task.
LEMMA AwaitedFacts ==
  ASSUME IInv, pc \in {"submitted", "resume", "resuming"}, todo # {}
  PROVE  /\ First(todo) \in todo /\ First(todo) \in Specs
         /\ Awaited = <<First(todo), recRetries[First(todo)] + 1>>
         /\ Awaited \in Tasks
         /\ recStatus[First(todo)] \in {"pending", "awaiting_approval"}
<1> DEFINE s == First(todo)
<1>1. s \in todo /\ s \in Specs
  BY FirstIn DEF IInv, EngineInv, EngineTypes
<1> HIDE DEF s
<1>2. Awaited = <<s, recRetries[s] + 1>> /\ recStatus[s] \in {"pending", "awaiting_approval"}
  BY <1>1 DEF s, IInv, EngineInv, Todo, Ready, Records, RecordOK, Awaited
<1>3. recRetries[s] + 1 \in 1..(MaxRetries + 1)
  BY <1>1, WorkflowAssumption DEF IInv, EngineInv, EngineTypes
<1>4. QED
  BY <1>1, <1>2, <1>3 DEF s, Tasks

LEMMA LinkSubmit ==
  ASSUME NEW t \in Tasks, O!Submit(t)
  PROVE  P!Submit(t)
  BY DEF O!Submit, O!SubmitUnassigned, O!SubmitToDisabledAgent, O!SubmitDenied, O!SubmitParked,
         O!SubmitDispatched, O!Assign, O!Dispatch, O!IsEnabled, O!approvalVars, O!execVars,
         P!Submit, P!SubmitUnassigned, P!SubmitToDisabledAgent, P!SubmitDenied, P!SubmitParked,
         P!SubmitDispatched, P!Assign, P!Dispatch, P!IsEnabled, P!approvalVars, P!execVars

LEMMA LinkHandler ==
  ASSUME NEW t \in Tasks, O!HandlerSettles(t)
  PROVE  P!OtherSteps
<1>1. P!HandlerSettles(t)
  BY DEF O!HandlerSettles, O!HandlerReturns, O!HandlerThrows, O!CanTransition, O!TRANSITIONS,
         O!TaskStatuses, O!Failures, O!approvalVars,
         P!HandlerSettles, P!HandlerReturns, P!HandlerThrows, P!CanTransition, P!TRANSITIONS,
         P!TaskStatuses, P!Failures, P!approvalVars
<1>2. QED
  BY <1>1 DEF P!OtherSteps

LEMMA LinkResume ==
  ASSUME NEW t \in Tasks, O!ResumeApproved(t) \/ O!ResumeRefused(t, {})
  PROVE  P!OtherSteps
<1>1. P!ResumeApproved(t) \/ P!ResumeRefused(t, {})
  BY DEF O!ResumeApproved, O!ResumeRefused, O!Dispatch, O!approvalVars, O!execVars,
         P!ResumeApproved, P!ResumeRefused, P!Dispatch, P!approvalVars, P!execVars
<1>2. P!Resume(t)
  BY <1>1 DEF P!Resume
<1>3. QED
  BY <1>2 DEF P!OtherSteps

LEMMA LinkCommand ==
  ASSUME NEW t \in Tasks,
         \/ O!Approve(t)
         \/ O!Reject(t)
         \/ O!DecideLapsed(t)
         \/ O!ApprovalLapses(t)
         \/ O!CancelTask(t)
         \/ \E decided \in {"approved", "rejected"} : O!RecordApprovalDecision(t, decided)
  PROVE  P!OtherSteps
<1> USE DEF O!taskVars, O!approvalVars, O!execVars, P!taskVars, P!approvalVars, P!execVars
<1>1. CASE O!Approve(t)
  BY <1>1 DEF O!Approve, O!Dispatch, P!Approve, P!Dispatch, P!OtherSteps
<1>2. CASE O!Reject(t)
  BY <1>2 DEF O!Reject, P!Reject, P!OtherSteps
<1>3. CASE O!DecideLapsed(t)
  BY <1>3 DEF O!DecideLapsed, P!DecideLapsed, P!OtherSteps
<1>4. CASE O!ApprovalLapses(t)
  BY <1>4 DEF O!ApprovalLapses, P!ApprovalLapses, P!OtherSteps
<1>5. CASE O!CancelTask(t)
  BY <1>5 DEF O!CancelTask, O!CanTransition, O!TRANSITIONS, O!TaskStatuses,
              P!CancelTask, P!CanTransition, P!TRANSITIONS, P!TaskStatuses, P!OtherSteps
<1>6. ASSUME NEW decided \in {"approved", "rejected"}, O!RecordApprovalDecision(t, decided)
      PROVE  P!OtherSteps
  BY <1>6 DEF O!RecordApprovalDecision, P!RecordApprovalDecision, P!OtherSteps
<1>7. QED
  BY <1>1, <1>2, <1>3, <1>4, <1>5, <1>6

LEMMA LinkDisable ==
  ASSUME NEW a \in Agents, O!SetAgentEnabled(a, "global", FALSE)
  PROVE  P!OtherSteps
<1>1. P!SetAgentEnabled(a, "global", FALSE)
  BY DEF O!SetAgentEnabled, O!IsEnabled, O!taskVars, O!approvalVars, O!execVars,
         P!SetAgentEnabled, P!IsEnabled, P!taskVars, P!approvalVars, P!execVars
<1>2. "global" \in P!Scopes /\ FALSE \in BOOLEAN
  BY DEF P!Scopes
<1>3. QED
  BY <1>1, <1>2 DEF P!OtherSteps

LEMMA OtherActions ==
  ASSUME IInv, [Next]_vars, ~NextDispatch
  PROVE  [P!OtherSteps]_(P!orchVars)
<1>1. ASSUME UNCHANGED orchVars PROVE UNCHANGED P!orchVars
  BY <1>1 DEF orchVars, P!orchVars, P!taskVars, P!approvalVars, P!execVars
<1>2. CASE ResumeNext
  BY <1>2, AwaitedFacts, LinkResume DEF ResumeNext
<1>3. CASE EngineStep /\ ~ResumeNext
  BY <1>1, <1>3 DEF EngineStep, PassLimit, PassNothingReady, PassReady, NextPass,
     NextOverExecutions, NextUnassignable, NextOverHandoffs, SubmitSettled, ResumeSettled,
     AwaitedRejected, ResumeThrows, ResumeScheduled
<1>4. ASSUME NEW t \in Tasks,
             \/ HandlerSettles(t) \/ Approve(t) \/ ApproveContinues(t)
             \/ Decide(t) \/ ApprovalLapses(t) \/ CancelTask(t)
      PROVE  [P!OtherSteps]_(P!orchVars)
  BY <1>1, <1>4, LinkHandler, LinkCommand
     DEF HandlerSettles, Approve, ApproveContinues, Decide, ApprovalLapses, CancelTask
<1>5. ASSUME NEW a \in Agents, DisableAgent(a) PROVE P!OtherSteps
  BY <1>5, LinkDisable DEF DisableAgent
<1>6. CASE Run \/ PauseWorkflow \/ ResumeWorkflow \/ CancelWorkflow
  BY <1>1, <1>6 DEF Run, PauseWorkflow, ResumeWorkflow, CancelWorkflow
<1>7. CASE UNCHANGED vars
  BY <1>1, <1>7 DEF vars
<1>8. QED
  BY <1>2, <1>3, <1>4, <1>5, <1>6, <1>7 DEF Next

\* Submit(t) below the engine: one task more, the others as they were.
NewTask(t) ==
    /\ status[t] = "absent" /\ status'[t] # "absent"
    /\ \A u \in Tasks \ {t} : status'[u] = status[u] /\ failure'[u] = failure[u]

LEMMA DispatchFacts ==
  ASSUME IInv, NextDispatch
  PROVE  LET s == First(todo)
             t == <<s, recRetries[s] + 1>>
         IN /\ s \in todo /\ s \in Specs /\ t \in Tasks
            /\ P!Submit(t) /\ NewTask(t)
            /\ recTask' = [recTask EXCEPT ![s] = t]
            /\ \E a \in Assignments(s) : HandOff(s, a)
<1> DEFINE s == First(todo)
           t == <<s, recRetries[s] + 1>>
<1>1. s \in todo /\ s \in Specs
  BY FirstIn DEF IInv, EngineInv, EngineTypes, NextDispatch
<1>2. /\ O!Submit(t)
      /\ recTask' = [recTask EXCEPT ![s] = t]
      /\ \E a \in Assignments(s) : HandOff(s, a)
  BY DEF NextDispatch
<1> HIDE DEF s
<1>3. recRetries[s] + 1 \in 1..(MaxRetries + 1)
  BY <1>1, WorkflowAssumption DEF IInv, EngineInv, EngineTypes
<1>4. t \in Tasks
  BY <1>1, <1>3 DEF Tasks
<1>5. P!Submit(t)
  BY <1>2, <1>4, LinkSubmit
<1>6. NewTask(t)
  BY <1>4, <1>5, Assumptions, P!SubmitCreates DEF NewTask, IInv
<1>7. QED
  BY <1>1, <1>2, <1>4, <1>5, <1>6 DEF s

LEMMA OrchestratorPreserves ==
  ASSUME IInv, [Next]_vars
  PROVE  P!IInv'
<1>1. CASE NextDispatch
  <2>1. PICK t \in Tasks : P!Submit(t)
    BY <1>1, DispatchFacts
  <2>2. QED
    BY <2>1, Assumptions, P!SubmitPreserves DEF IInv
<1>2. CASE ~NextDispatch
  <2>1. [P!OtherSteps]_(P!orchVars)
    BY <1>2, OtherActions
  <2>2. [P!Next]_(P!orchVars)
    BY <2>1, Assumptions, P!OtherStepsAreSteps
  <2>3. QED
    BY <2>2, Assumptions, P!NextPreserves DEF IInv
<1>3. QED
  BY <1>1, <1>2

LEMMA TasksKept ==
  ASSUME IInv, [Next]_vars, ~NextDispatch
  PROVE  /\ \A t \in Tasks : P!Kept(t)
         /\ CreatedTasks' = CreatedTasks
<1>1. \A t \in Tasks : P!Kept(t)
  BY OtherActions, Assumptions, P!OtherStepsKeep DEF IInv
<1>2. \A t \in Tasks : Created(t)' = Created(t)
  BY <1>1 DEF P!Kept, Created
<1>3. QED
  BY <1>1, <1>2 DEF CreatedTasks, Tasks

-------------------------------------------------------------------------------
(* The records.                                                            *)

LEMMA RecordsKept ==
  ASSUME IInv, \A t \in Tasks : P!Kept(t), UNCHANGED recVars
  PROVE  Records'
<1> SUFFICES ASSUME NEW s \in Specs PROVE RecordOK(s)'
  BY DEF Records
<1>1. recStatus' = recStatus /\ recTask' = recTask /\ recRetries' = recRetries
  BY DEF recVars
<1>2. RecordOK(s) /\ recRetries[s] \in 0..MaxRetries
  BY DEF IInv, EngineInv, Records, EngineTypes
<1>3. \A n \in 1..(MaxRetries + 1) : <<s, n>> \in Tasks
  BY DEF Tasks
<1>4. 1..recRetries[s] \subseteq 1..(MaxRetries + 1)
  BY <1>2, WorkflowAssumption
<1>5. QED
  BY <1>1, <1>2, <1>3, <1>4 DEF RecordOK, P!Kept, Created

\* What a change to the record of s means for the others.
OthersKept(s) ==
    \A x \in Specs \ {s} :
        /\ recStatus[x] \in {"completed", "awaiting_approval"} => recStatus'[x] = recStatus[x]
        /\ Ready(x) => recStatus'[x] = "pending"

LEMMA OthersStayReady ==
  ASSUME NEW s \in Specs, recStatus[s] # "completed", OthersKept(s),
         NEW x \in Specs \ {s}, Ready(x)
  PROVE  Ready(x)'
<1>1. \A d \in DependsOn[x] : d \in Specs \ {s}
  BY WorkflowAssumption DEF Ready
<1>2. QED
  BY <1>1 DEF OthersKept, Ready

LEMMA EndSpecRecords ==
  ASSUME IInv, NEW s \in Specs, recStatus[s] \in {"pending", "awaiting_approval"},
         NEW ended \in {"failed", "blocked"},
         recStatus' = [x \in Specs |-> CASE x = s -> ended
                                         [] x \in Downstream(s) \ {s} -> "skipped"
                                         [] OTHER -> recStatus[x]],
         UNCHANGED <<status, failure, recTask, recRetries>>
  PROVE  /\ recStatus' \in [Specs -> RecordStatuses]
         /\ Records'
         /\ OthersKept(s)
<1>1. recStatus \in [Specs -> RecordStatuses] /\ \A x \in Specs : RecordOK(x)
  BY DEF IInv, EngineInv, EngineTypes, Records
<1>2. /\ recStatus'[s] = ended
      /\ \A x \in Specs \ {s} :
            recStatus'[x] = IF x \in Downstream(s) THEN "skipped" ELSE recStatus[x]
  OBVIOUS
<1>3. recStatus' \in [Specs -> RecordStatuses]
  BY <1>1 DEF RecordStatuses
<1>4. \A x \in Downstream(s) :
         /\ x \in Specs /\ recStatus[x] = "pending"
         /\ \E d \in DependsOn[x] : d = s \/ d \in Downstream(s)
  BY DownstreamHasCause
<1>5. OthersKept(s)
  <2> SUFFICES ASSUME NEW x \in Specs \ {s}, recStatus'[x] # recStatus[x]
               PROVE  recStatus[x] = "pending" /\ ~Ready(x)
    BY DEF OthersKept, Ready
  <2>1. x \in Downstream(s)
    BY <1>2
  <2>2. PICK d \in DependsOn[x] : d = s \/ d \in Downstream(s)
    BY <1>4, <2>1
  <2>3. recStatus[d] # "completed"
    BY <1>4, <2>2
  <2>4. QED
    BY <1>4, <2>1, <2>2, <2>3 DEF Ready
<1>6. \A d \in Specs : recStatus[d] = "completed" => recStatus'[d] = "completed"
  BY <1>5 DEF OthersKept
<1>7. ASSUME NEW x \in Specs PROVE RecordOK(x)'
  <2>1. RecordOK(x) /\ DependsOn[x] \subseteq Specs
    BY <1>1, WorkflowAssumption
  <2>2. (recStatus'[x] \in {"completed", "awaiting_approval"}) => recStatus'[x] = recStatus[x]
    BY <1>2
  <2>3. ASSUME recStatus'[x] = "skipped"
        PROVE  /\ \A n \in 1..(MaxRetries + 1) : ~Created(<<x, n>>)
               /\ \E d \in DependsOn[x] : recStatus'[d] \in {"failed", "blocked", "skipped"}
    <3>1. CASE x \in Downstream(s)
      <4>1. PICK d \in DependsOn[x] : d = s \/ d \in Downstream(s)
        BY <1>4, <3>1
      <4>2. recStatus[d] # "completed" /\ d \in Specs
        BY <1>4, <4>1
      <4>3. recStatus'[d] \in {"failed", "blocked", "skipped"}
        BY <1>2, <4>1, <4>2
      <4>4. QED
        BY <2>1, <4>1, <4>2, <4>3 DEF RecordOK
    <3>2. CASE x \notin Downstream(s)
      <4>1. recStatus[x] = "skipped" /\ x # s
        BY <1>2, <2>3, <3>2
      <4>2. PICK d \in DependsOn[x] : recStatus[d] \in {"failed", "blocked", "skipped"}
        BY <2>1, <4>1 DEF RecordOK
      <4>3. d \in Specs \ {s} /\ d \notin Downstream(s)
        BY <1>4, <2>1, <4>2
      <4>4. QED
        BY <1>2, <2>1, <4>1, <4>2, <4>3 DEF RecordOK
    <3>3. QED
      BY <3>1, <3>2
  <2>4. QED
    BY <1>6, <2>1, <2>2, <2>3 DEF RecordOK, Created
<1>8. QED
  BY <1>3, <1>5, <1>7 DEF Records

\* The outcome of the last task of s is recorded, or s is to be tried again.
LEMMA OutcomeRecords ==
  ASSUME IInv, NEW s \in Specs, recStatus[s] \in {"pending", "awaiting_approval"},
         NEW t, t = <<s, recRetries[s] + 1>>, t \in Tasks, recTask[s] = t,
         UNCHANGED <<status, failure, recTask>>,
         \/ /\ status[t] \in {"awaiting_approval", "completed"}
            /\ recStatus' = [recStatus EXCEPT ![s] = status[t]]
            /\ UNCHANGED recRetries
         \/ /\ ShouldRetry(s, t)
            /\ recStatus' = [recStatus EXCEPT ![s] = "pending"]
            /\ recRetries' = [recRetries EXCEPT ![s] = @ + 1]
  PROVE  /\ recStatus' \in [Specs -> RecordStatuses]
         /\ recRetries' \in [Specs -> 0..MaxRetries]
         /\ Records'
         /\ OthersKept(s)
<1>1. /\ recStatus \in [Specs -> RecordStatuses]
      /\ recRetries \in [Specs -> 0..MaxRetries]
      /\ \A x \in Specs : RecordOK(x)
  BY DEF IInv, EngineInv, EngineTypes, Records
<1>2. /\ recStatus' \in [Specs -> RecordStatuses]
      /\ \A x \in Specs \ {s} : recStatus'[x] = recStatus[x] /\ recRetries'[x] = recRetries[x]
      /\ \A d \in Specs : recStatus[d] = "completed" => recStatus'[d] = "completed"
      /\ \A d \in Specs : recStatus[d] \in {"failed", "blocked", "skipped"} =>
            recStatus'[d] = recStatus[d]
  BY <1>1 DEF RecordStatuses
<1>3. recRetries' \in [Specs -> 0..MaxRetries]
  BY <1>1, WorkflowAssumption DEF ShouldRetry
<1>4. OthersKept(s)
  BY <1>2 DEF OthersKept, Ready
<1>5. ASSUME NEW x \in Specs \ {s} PROVE RecordOK(x)'
  <2>1. RecordOK(x) /\ DependsOn[x] \subseteq Specs
    BY <1>1, WorkflowAssumption
  <2>2. QED
    BY <1>2, <2>1 DEF RecordOK, Created
<1>6. RecordOK(s)'
  <2>1. RecordOK(s) /\ DependsOn[s] \subseteq Specs
    BY <1>1, WorkflowAssumption
  <2>2. CASE /\ status[t] \in {"awaiting_approval", "completed"}
             /\ recStatus' = [recStatus EXCEPT ![s] = status[t]]
             /\ UNCHANGED recRetries
    <3>1. recStatus'[s] = status[t] /\ status[t] \in {"awaiting_approval", "completed"}
      BY <1>1, <2>2
    <3>2. QED
      BY <1>2, <2>1, <2>2, <3>1 DEF RecordOK, Created
  <2>3. CASE /\ ShouldRetry(s, t)
             /\ recStatus' = [recStatus EXCEPT ![s] = "pending"]
             /\ recRetries' = [recRetries EXCEPT ![s] = @ + 1]
    <3>1. recStatus'[s] = "pending" /\ recRetries'[s] = recRetries[s] + 1
      BY <1>1, <2>3
    <3>2. recRetries[s] \in 0..MaxRetries
      BY <1>1
    <3>3. \A n \in 1..(recRetries[s] + 1) : n \in 1..recRetries[s] \/ <<s, n>> = t
      BY <3>2, WorkflowAssumption
    <3>4. \A n \in 1..recRetries'[s] :
             status[<<s, n>>] = "failed" /\ failure[<<s, n>>] = "retryable"
      BY <2>1, <2>3, <3>1, <3>3 DEF RecordOK, ShouldRetry
    <3>5. \A n \in 1..(MaxRetries + 1) : n <= recRetries[s] + 1 => n <= recRetries'[s] + 1
      BY <3>1, <3>2, WorkflowAssumption
    <3>6. QED
      BY <1>2, <2>1, <3>1, <3>4, <3>5 DEF RecordOK, Created
  <2>4. QED
    BY <2>2, <2>3
<1>7. QED
  BY <1>2, <1>3, <1>4, <1>5, <1>6 DEF Records

-------------------------------------------------------------------------------
(* How a call goes on or ends.                                             *)

LEMMA FailFacts ==
  ASSUME wf \in {"running", "cancelled"}, Fail
  PROVE  /\ pc' = "idle" /\ pass' = 0 /\ todo' = {} /\ escaped' \in BOOLEAN
         /\ wf' \in {"failed", "cancelled"}
<1>1. CASE wf = "running"
  BY <1>1 DEF Fail, CanTransition, TRANSITIONS, Finish, Return
<1>2. CASE wf = "cancelled"
  BY <1>2 DEF Fail, CanTransition, TRANSITIONS, Escape
<1>3. QED
  BY <1>1, <1>2

\* A call that ended, and with it the workflow: nothing is left to agree with.
Stopped ==
    /\ pc' = "idle" /\ pass' = 0 /\ todo' = {} /\ escaped' \in BOOLEAN
    /\ wf' \in {"failed", "cancelled"}

LEMMA StoppedAgrees ==
  ASSUME IInv, Stopped, CreatedTasks' = CreatedTasks, draft' = draft
  PROVE  /\ wf' \in WorkflowStatuses /\ pass' \in 0..MaxPasses
         /\ Place' /\ Todo' /\ Count'
<1>1. wf' \in WorkflowStatuses /\ pass' \in 0..MaxPasses
  BY PassesType DEF Stopped, WorkflowStatuses
<1>2. Place' /\ Todo'
  BY DEF Stopped, Place, ParkedIsQuiescent, NoSilentStop, Todo
<1>3. ExecutionsWithinLimit /\ Cardinality(CreatedTasks)' = Cardinality(CreatedTasks)
  BY DEF IInv, EngineInv, Count
<1>4. ExecutionsWithinLimit'
  BY <1>3 DEF ExecutionsWithinLimit, CreatedTasks
<1>5. Count'
  BY <1>4 DEF Stopped, Count
<1>6. QED
  BY <1>1, <1>2, <1>5

\* The loop goes on without its first spec.
Continues(back) ==
    /\ wf = "running" /\ wf' = wf
    /\ pc' = back /\ todo' = todo \ {First(todo)} /\ pass' = pass /\ escaped' = escaped

LEMMA GoOnFacts ==
  ASSUME wf \in {"running", "cancelled"}, NEW back, GoOn(back)
  PROVE  Stopped \/ Continues(back)
  BY DEF GoOn, Return, Stopped, Continues

LEMMA EndSpecFacts ==
  ASSUME wf \in {"running", "cancelled"}, NEW s \in Specs, NEW ended, NEW back,
         EndSpec(s, ended, GoOn(back))
  PROVE  Stopped \/ Continues(back)
<1>1. Fail \/ GoOn(back)
  BY DEF EndSpec
<1>2. QED
  BY <1>1, FailFacts, GoOnFacts DEF Stopped

LEMMA ContinuesAgrees ==
  ASSUME IInv, NEW back \in {"next", "resume"}, Continues(back), todo # {},
         IF back = "next" THEN pc \in {"next", "submitted"} ELSE pc = "resuming",
         recStatus[First(todo)] # "completed", OthersKept(First(todo))
  PROVE  Place' /\ Todo'
<1> DEFINE s == First(todo)
<1>1. s \in todo /\ s \in Specs /\ todo \subseteq Specs
  BY FirstIn DEF IInv, EngineInv, EngineTypes
<1>2. Place'
  BY DEF Continues, Place, ParkedIsQuiescent, NoSilentStop
<1>3. ASSUME back = "next", NEW x \in todo \ {s} PROVE Ready(x)'
  <2>1. Ready(x) /\ x \in Specs \ {s}
    BY <1>1, <1>3 DEF IInv, EngineInv, Todo
  <2>2. QED
    BY <1>1, <2>1, OthersStayReady
<1>4. ASSUME back = "resume", NEW x \in todo \ {s} PROVE recStatus'[x] = "awaiting_approval"
  BY <1>1, <1>4 DEF IInv, EngineInv, Todo, OthersKept
<1>5. Todo'
  BY <1>3, <1>4 DEF Todo, Continues
<1>6. QED
  BY <1>2, <1>5

LEMMA OutcomeFacts ==
  ASSUME IInv, NEW back \in {"next", "resume"}, todo # {},
         IF back = "next" THEN pc = "submitted" ELSE pc = "resuming",
         ApplyTaskOutcome(First(todo), Awaited, back),
         UNCHANGED <<status, failure, recTask>>
  PROVE  /\ recStatus' \in [Specs -> RecordStatuses]
         /\ recRetries' \in [Specs -> 0..MaxRetries]
         /\ Records'
         /\ \/ Stopped
            \/ Continues(back) /\ Place' /\ Todo'
<1> DEFINE s == First(todo)
           t == Awaited
<1>1. /\ s \in todo /\ s \in Specs
      /\ t = <<s, recRetries[s] + 1>> /\ t \in Tasks /\ recTask[s] = t
      /\ recStatus[s] \in {"pending", "awaiting_approval"}
  BY AwaitedFacts DEF Awaited
<1>2. wf \in {"running", "cancelled"}
  BY DEF IInv, EngineInv, Place
<1>3. ApplyTaskOutcome(s, t, back)
  OBVIOUS
<1>4. recRetries \in [Specs -> 0..MaxRetries]
  BY DEF IInv, EngineInv, EngineTypes
<1> HIDE DEF s, t
<1>5. /\ recStatus' \in [Specs -> RecordStatuses]
      /\ recRetries' \in [Specs -> 0..MaxRetries]
      /\ Records' /\ OthersKept(s)
      /\ Stopped \/ Continues(back)
  <2>1. CASE /\ status[t] \in {"failed", "blocked"}
             /\ EndSpec(s, "failed", GoOn(back))
             /\ UNCHANGED recRetries
    <3>1. recStatus' = [x \in Specs |-> CASE x = s -> "failed"
                                          [] x \in Downstream(s) \ {s} -> "skipped"
                                          [] OTHER -> recStatus[x]]
      BY <2>1 DEF EndSpec
    <3>2. Stopped \/ Continues(back)
      BY <1>1, <1>2, <2>1, EndSpecFacts
    <3>3. recStatus' \in [Specs -> RecordStatuses] /\ Records' /\ OthersKept(s)
      BY <1>1, <2>1, <3>1, EndSpecRecords
    <3>4. QED
      BY <1>4, <2>1, <3>2, <3>3
  <2>2. CASE /\ \/ /\ status[t] \in {"awaiting_approval", "completed"}
                   /\ recStatus' = [recStatus EXCEPT ![s] = status[t]]
                   /\ UNCHANGED recRetries
                \/ /\ ShouldRetry(s, t)
                   /\ recStatus' = [recStatus EXCEPT ![s] = "pending"]
                   /\ recRetries' = [recRetries EXCEPT ![s] = @ + 1]
             /\ GoOn(back)
    <3>1. Stopped \/ Continues(back)
      BY <1>2, <2>2, GoOnFacts
    <3>2. QED
      BY <1>1, <2>2, <3>1, OutcomeRecords
  <2>3. QED
    BY <1>3, <2>1, <2>2 DEF ApplyTaskOutcome
<1>6. ASSUME Continues(back) PROVE Place' /\ Todo'
  BY <1>1, <1>5, <1>6, ContinuesAgrees DEF s
<1>7. QED
  BY <1>5, <1>6

-------------------------------------------------------------------------------
(* The steps.                                                              *)

\* A step that changes neither records nor counters: what is left to show is
\* where the engine goes.
LEMMA QuietKeeps ==
  ASSUME IInv, [Next]_vars, ~NextDispatch, UNCHANGED <<draft, recVars, counterVars>>
  PROVE  /\ recStatus' = recStatus /\ recTask' = recTask /\ recRetries' = recRetries
         /\ agentExecutions' = agentExecutions /\ draft' = draft
         /\ handoffs' = handoffs /\ toolCalls' = toolCalls /\ handedOff' = handedOff
         /\ Records'
         /\ CreatedTasks' = CreatedTasks
         /\ ExecutionsWithinLimit'
<1>1. /\ recStatus' = recStatus /\ recTask' = recTask /\ recRetries' = recRetries
      /\ agentExecutions' = agentExecutions /\ draft' = draft
      /\ handoffs' = handoffs /\ toolCalls' = toolCalls /\ handedOff' = handedOff
  BY DEF recVars, counterVars
<1>2. (\A t \in Tasks : P!Kept(t)) /\ CreatedTasks' = CreatedTasks
  BY TasksKept
<1>3. Records'
  BY <1>2, RecordsKept
<1>4. ExecutionsWithinLimit'
  BY <1>1, <1>2 DEF IInv, EngineInv, Count, ExecutionsWithinLimit, CreatedTasks
<1>5. QED
  BY <1>1, <1>2, <1>3, <1>4

\* The engine does not move; the workflow may be cancelled while it waits.
LEMMA BystanderPreserves ==
  ASSUME IInv, [Next]_vars, ~NextDispatch, UNCHANGED <<draft, recVars, counterVars, engineVars>>,
         paused' \in BOOLEAN, approving' \subseteq Tasks, interventions' \in 0..MaxInterventions,
         wf' = wf \/ (wf' = "cancelled" /\ pc \in {"idle", "submitted", "resuming"})
  PROVE  EngineInv'
<1>1. pc' = pc /\ pass' = pass /\ todo' = todo /\ escaped' = escaped
  BY DEF engineVars
<1>2. EngineTypes'
  BY <1>1, QuietKeeps DEF IInv, EngineInv, EngineTypes, WorkflowStatuses
<1>3. Place'
  BY <1>1, QuietKeeps DEF IInv, EngineInv, Place, ParkedIsQuiescent, NoSilentStop
<1>4. Todo'
  BY <1>1, QuietKeeps DEF IInv, EngineInv, Todo, Ready, Awaited
<1>5. Count'
  BY <1>1, QuietKeeps DEF IInv, EngineInv, Count
<1>6. QED
  BY <1>2, <1>3, <1>4, <1>5, QuietKeeps DEF EngineInv

LEMMA OperatorPreserves ==
  ASSUME IInv, [Next]_vars, ~NextDispatch,
         \/ \E t \in Tasks : \/ HandlerSettles(t) \/ Approve(t) \/ Decide(t)
                             \/ ApprovalLapses(t) \/ CancelTask(t)
         \/ \E a \in Agents : DisableAgent(a)
         \/ PauseWorkflow
         \/ CancelWorkflow
         \/ UNCHANGED vars
  PROVE  EngineInv'
<1>1. /\ UNCHANGED <<draft, recVars, counterVars, engineVars>>
      /\ wf' = wf \/ (wf' = "cancelled" /\ pc \in {"idle", "submitted", "resuming"})
  BY DEF HandlerSettles, Approve, Decide, ApprovalLapses, CancelTask, DisableAgent,
         PauseWorkflow, CancelWorkflow, EngineUnchanged, Intervene, Loop, EngineWaits, vars
<1>2. paused' \in BOOLEAN /\ approving' \subseteq Tasks
  BY DEF IInv, EngineInv, EngineTypes, HandlerSettles, Approve, Decide, ApprovalLapses,
         CancelTask, DisableAgent, PauseWorkflow, CancelWorkflow, vars
<1>3. interventions' = interventions
      \/ (interventions < MaxInterventions /\ interventions' = interventions + 1)
  BY DEF HandlerSettles, Approve, Decide, ApprovalLapses, CancelTask, DisableAgent,
         PauseWorkflow, CancelWorkflow, Intervene, vars
<1>4. interventions' \in 0..MaxInterventions
  BY <1>3, WorkflowAssumption DEF IInv, EngineInv, EngineTypes
<1>5. QED
  BY <1>1, <1>2, <1>4, BystanderPreserves

LEMMA StartPreserves ==
  ASSUME IInv, [Next]_vars, ~NextDispatch,
         Run \/ ResumeWorkflow \/ \E t \in Tasks : ApproveContinues(t)
  PROVE  EngineInv'
<1>1. /\ UNCHANGED <<draft, recVars, counterVars, interventions>>
      /\ paused' \in BOOLEAN /\ approving' \subseteq Tasks
  BY DEF Run, ResumeWorkflow, ApproveContinues, EngineUnchanged, IInv, EngineInv, EngineTypes
<1>2. interventions' \in 0..MaxInterventions
  BY <1>1 DEF IInv, EngineInv, EngineTypes
<1>3. CASE Run
  <2>1. /\ pc = "idle" /\ wf = "created"
        /\ wf' = "running" /\ pc' = "pass" /\ pass' = 0 /\ todo' = {}
        /\ escaped' = FALSE /\ escaped' \in BOOLEAN
    BY <1>3 DEF Run
  <2>2. EngineTypes'
    BY <1>1, <1>2, <2>1, QuietKeeps, PassesType DEF IInv, EngineInv, EngineTypes, WorkflowStatuses
  <2>3. Place' /\ Todo'
    BY <2>1 DEF Place, ParkedIsQuiescent, NoSilentStop, Todo
  <2>4. Count'
    BY <1>1, <2>1, QuietKeeps DEF IInv, EngineInv, Count
  <2>5. QED
    BY <1>1, <2>2, <2>3, <2>4, QuietKeeps DEF EngineInv
<1>4. CASE StartResume /\ wf = "awaiting_approval"
  <2>1. /\ pc = "idle"
        /\ wf' = "running" /\ pc' = "resume" /\ pass' = 0
        /\ escaped' = FALSE /\ escaped' \in BOOLEAN
        /\ todo' = {s \in Specs : recStatus[s] = "awaiting_approval"}
    BY <1>4 DEF StartResume, IInv, EngineInv, Place, ParkedIsQuiescent
  <2>2. EngineTypes'
    BY <1>1, <1>2, <2>1, QuietKeeps, PassesType DEF IInv, EngineInv, EngineTypes, WorkflowStatuses
  <2>3. Place' /\ Todo'
    BY <1>1, <2>1, QuietKeeps DEF Place, ParkedIsQuiescent, NoSilentStop, Todo
  <2>4. Count'
    BY <1>1, <1>4, <2>1, QuietKeeps DEF IInv, EngineInv, Count
  <2>5. QED
    BY <1>1, <2>2, <2>3, <2>4, QuietKeeps DEF EngineInv
<1>5. CASE StartResume /\ wf # "awaiting_approval"
  BY <1>1, <1>2, <1>5, BystanderPreserves DEF StartResume
<1>6. QED
  BY <1>3, <1>4, <1>5 DEF ResumeWorkflow, ApproveContinues

\* The steps of the engine that leave the records and counters alone.
LEMMA QuietEnginePreserves ==
  ASSUME IInv, [Next]_vars, ~NextDispatch,
         \/ PassLimit \/ PassNothingReady \/ PassReady \/ NextPass \/ NextOverExecutions
         \/ AwaitedRejected \/ ResumeNext \/ ResumeThrows \/ ResumeScheduled
  PROVE  EngineInv'
<1>1. UNCHANGED <<draft, recVars, counterVars, paused, approving, interventions>>
  BY DEF PassLimit, PassNothingReady, PassReady, NextPass, NextOverExecutions,
         AwaitedRejected, ResumeNext, ResumeThrows, ResumeScheduled
<1>2. pc # "idle" /\ wf \in {"running", "cancelled"}
  BY DEF IInv, EngineInv, Place, PassLimit, PassNothingReady, PassReady, NextPass,
         NextOverExecutions, AwaitedRejected, ResumeNext, ResumeThrows, ResumeScheduled, Settled
<1>3. SUFFICES /\ wf' \in WorkflowStatuses /\ escaped' \in BOOLEAN
               /\ pc' \in {"idle", "pass", "next", "submitted", "resume", "resuming"}
               /\ pass' \in 0..MaxPasses /\ todo' \subseteq Specs
               /\ Place' /\ Todo' /\ Count'
  <2>1. EngineTypes'
    BY <1>1, <1>3, QuietKeeps DEF IInv, EngineInv, EngineTypes
  <2>2. QED
    BY <1>1, <1>3, <2>1, QuietKeeps DEF EngineInv
<1>4. CASE Stopped
  BY <1>1, <1>4, QuietKeeps, StoppedAgrees DEF Stopped
<1>5. CASE Escape /\ wf' = wf
  <2>1. pc' = "idle" /\ pass' = 0 /\ todo' = {} /\ escaped' = TRUE
    BY <1>5 DEF Escape
  <2>2. Place' /\ Todo' /\ Count'
    BY <1>1, <1>2, <1>5, <2>1, QuietKeeps
       DEF Place, ParkedIsQuiescent, NoSilentStop, Todo, Count
  <2>3. QED
    BY <1>2, <1>5, <2>1, <2>2, PassesType DEF WorkflowStatuses
<1>6. CASE PassLimit \/ NextOverExecutions
  BY <1>2, <1>4, <1>6, FailFacts DEF PassLimit, NextOverExecutions, Stopped
<1>7. CASE PassNothingReady
  <2>1. pc = "pass" /\ wf = "running"
    BY <1>7 DEF PassNothingReady, IInv, EngineInv, Place
  <2>2. CASE \E s \in Specs : recStatus[s] = "awaiting_approval"
    <3>1. /\ wf' = "awaiting_approval" /\ pc' = "idle" /\ pass' = 0 /\ todo' = {}
          /\ escaped' \in BOOLEAN
      BY <1>7, <2>2 DEF PassNothingReady, Finish, Return
    <3>2. Place' /\ Todo'
      BY <1>1, <2>2, <3>1, QuietKeeps DEF Place, ParkedIsQuiescent, NoSilentStop, Todo
    <3>3. Count'
      BY <1>1, <2>1, <3>1, QuietKeeps DEF IInv, EngineInv, Count
    <3>4. QED
      BY <3>1, <3>2, <3>3, PassesType DEF WorkflowStatuses
  <2>3. CASE Fail
    BY <1>2, <1>4, <2>3, FailFacts DEF Stopped
  <2>4. CASE (\A s \in Specs : recStatus[s] = "completed") /\ Finish("completed")
    <3>1. /\ wf' = "completed" /\ pc' = "idle" /\ pass' = 0 /\ todo' = {}
          /\ escaped' \in BOOLEAN
      BY <2>4 DEF Finish, Return
    <3>2. Place' /\ Todo'
      BY <1>1, <2>4, <3>1, QuietKeeps DEF Place, ParkedIsQuiescent, NoSilentStop, Todo
    <3>3. Count'
      BY <1>1, <2>1, <3>1, QuietKeeps DEF IInv, EngineInv, Count
    <3>4. QED
      BY <3>1, <3>2, <3>3, PassesType DEF WorkflowStatuses
  <2>5. QED
    BY <1>7, <2>2, <2>3, <2>4 DEF PassNothingReady, Finalize
<1>8. CASE PassReady
  <2>1. /\ pc = "pass" /\ wf = "running" /\ pass < MaxPasses
        /\ wf' = wf /\ escaped' = escaped
        /\ pc' = "next" /\ pass' = pass + 1 /\ todo' = ComputeReadySpecs
    BY <1>8 DEF PassReady, IInv, EngineInv, Place
  <2>2. Place' /\ Todo'
    BY <1>1, <2>1, QuietKeeps
       DEF Place, ParkedIsQuiescent, NoSilentStop, Todo, Ready, ComputeReadySpecs
  <2>3. Count'
    BY <1>1, <2>1, QuietKeeps DEF IInv, EngineInv, Count
  <2>4. QED
    BY <2>1, <2>2, <2>3, PassesType
       DEF WorkflowStatuses, ComputeReadySpecs, IInv, EngineInv, EngineTypes
<1>9. CASE NextPass \/ ResumeScheduled
  <2>1. /\ pc \in {"next", "resume"} /\ wf = "running" /\ todo = {}
        /\ wf' = wf /\ escaped' = escaped /\ pc' = "pass" /\ pass' = pass /\ todo' = todo
    BY <1>9 DEF NextPass, ResumeScheduled, IInv, EngineInv, Place
  <2>2. Place' /\ Todo'
    BY <2>1 DEF Place, ParkedIsQuiescent, NoSilentStop, Todo
  <2>3. Count'
    BY <1>1, <2>1, QuietKeeps DEF IInv, EngineInv, Count
  <2>4. QED
    BY <2>1, <2>2, <2>3 DEF WorkflowStatuses, IInv, EngineInv, EngineTypes
<1>10. CASE ResumeNext
  <2>1. /\ pc = "resume" /\ wf = "running" /\ todo # {}
        /\ wf' = wf /\ escaped' = escaped /\ pc' = "resuming" /\ pass' = pass /\ todo' = todo
    BY <1>10 DEF ResumeNext, IInv, EngineInv, Place
  <2>2. Place' /\ Todo'
    BY <1>1, <2>1, QuietKeeps DEF IInv, EngineInv, Place, ParkedIsQuiescent, NoSilentStop, Todo
  <2>3. Count'
    BY <1>1, <2>1, QuietKeeps DEF IInv, EngineInv, Count
  <2>4. QED
    BY <2>1, <2>2, <2>3 DEF WorkflowStatuses, IInv, EngineInv, EngineTypes
<1>11. QED
  BY <1>5, <1>6, <1>7, <1>8, <1>9, <1>10 DEF AwaitedRejected, ResumeThrows

LEMMA NextUnassignablePreserves ==
  ASSUME IInv, [Next]_vars, ~NextDispatch, NextUnassignable
  PROVE  EngineInv'
<1> DEFINE s == First(todo)
<1>1. pc = "next" /\ todo # {} /\ wf = "running"
  BY DEF NextUnassignable, IInv, EngineInv, Place
<1>2. s \in todo /\ s \in Specs /\ recStatus[s] = "pending"
  BY <1>1, FirstIn DEF IInv, EngineInv, EngineTypes, Todo, Ready
<1>3. /\ UNCHANGED <<draft, recTask, recRetries, paused, approving, interventions>>
      /\ UNCHANGED <<agentExecutions, handoffs, toolCalls, handedOff, status, failure>>
      /\ recStatus' = [x \in Specs |-> CASE x = s -> "blocked"
                                         [] x \in Downstream(s) \ {s} -> "skipped"
                                         [] OTHER -> recStatus[x]]
      /\ \/ Fail
         \/ todo' = todo \ {s} /\ UNCHANGED <<wf, pc, pass, escaped>>
  BY DEF NextUnassignable, EndSpec, counterVars, orchVars
<1>4. recStatus' \in [Specs -> RecordStatuses] /\ Records' /\ OthersKept(s)
  BY <1>2, <1>3, EndSpecRecords
<1>5. CreatedTasks' = CreatedTasks /\ ExecutionsWithinLimit'
  BY <1>3, TasksKept DEF IInv, EngineInv, Count, ExecutionsWithinLimit, CreatedTasks
<1>6. Stopped \/ Continues("next")
  BY <1>1, <1>3, FailFacts DEF Stopped, Continues
<1>7. CASE Stopped
  <2>1. wf' \in WorkflowStatuses /\ pass' \in 0..MaxPasses /\ Place' /\ Todo' /\ Count'
    BY <1>3, <1>5, <1>7, StoppedAgrees
  <2>2. EngineTypes'
    BY <1>3, <1>4, <1>7, <2>1 DEF IInv, EngineInv, EngineTypes, Stopped
  <2>3. QED
    BY <1>4, <2>1, <2>2 DEF EngineInv
<1>8. CASE Continues("next")
  <2>1. Place' /\ Todo'
    BY <1>1, <1>2, <1>4, <1>8, ContinuesAgrees
  <2>2. Count'
    BY <1>1, <1>3, <1>5, <1>8 DEF IInv, EngineInv, Count, Continues
  <2>3. EngineTypes'
    BY <1>3, <1>4, <1>8 DEF IInv, EngineInv, EngineTypes, Continues
  <2>4. QED
    BY <1>4, <2>1, <2>2, <2>3 DEF EngineInv
<1>9. QED
  BY <1>6, <1>7, <1>8

(* What is handed over are completed tasks, finitely many.                 *)
LEMMA HandOffTypes ==
  ASSUME IInv, NEW s \in Specs, NEW a \in Assignments(s), HandOff(s, a)
  PROVE  handoffs' \in Nat /\ handedOff' \subseteq Tasks \X Agents
<1>1. a \in Agents /\ DependsOn[s] \subseteq Specs
  BY WorkflowAssumption DEF Assignments
<1>2. NewHandoffs(s, a) \subseteq Tasks \X {a}
  BY <1>1 DEF NewHandoffs, IInv, EngineInv, Records, RecordOK
<1>3. IsFiniteSet(Tasks \X {a})
  BY TasksFinite, FS_Product, FS_Singleton
<1>4. Cardinality(NewHandoffs(s, a)) \in Nat
  BY <1>2, <1>3, FS_Subset, FS_CardinalityType
<1>5. QED
  BY <1>1, <1>2, <1>4 DEF HandOff, IInv, EngineInv, EngineTypes

LEMMA NextOverHandoffsPreserves ==
  ASSUME IInv, [Next]_vars, ~NextDispatch, NextOverHandoffs
  PROVE  EngineInv'
<1>1. pc = "next" /\ todo # {} /\ wf = "running"
  BY DEF NextOverHandoffs, IInv, EngineInv, Place
<1>2. First(todo) \in Specs
  BY <1>1, FirstIn DEF IInv, EngineInv, EngineTypes
<1>3. handoffs' \in Nat /\ handedOff' \subseteq Tasks \X Agents
  BY <1>2, HandOffTypes DEF NextOverHandoffs
<1>4. /\ UNCHANGED <<draft, recVars, paused, approving, interventions>>
      /\ UNCHANGED <<agentExecutions, toolCalls>>
      /\ Fail
  BY DEF NextOverHandoffs
<1>5. Stopped
  BY <1>1, <1>4, FailFacts DEF Stopped
<1>6. (\A t \in Tasks : P!Kept(t)) /\ CreatedTasks' = CreatedTasks
  BY TasksKept
<1>7. Records'
  BY <1>4, <1>6, RecordsKept
<1>8. wf' \in WorkflowStatuses /\ pass' \in 0..MaxPasses /\ Place' /\ Todo' /\ Count'
  BY <1>4, <1>5, <1>6, StoppedAgrees
<1>9. EngineTypes'
  BY <1>3, <1>4, <1>5, <1>8 DEF IInv, EngineInv, EngineTypes, Stopped, recVars
<1>10. QED
  BY <1>7, <1>8, <1>9 DEF EngineInv

LEMMA NextDispatchPreserves ==
  ASSUME IInv, NextDispatch
  PROVE  EngineInv'
<1> DEFINE s == First(todo)
           t == <<s, recRetries[s] + 1>>
<1>1. /\ s \in todo /\ s \in Specs /\ t \in Tasks
      /\ NewTask(t)
      /\ recTask' = [recTask EXCEPT ![s] = t]
      /\ \E a \in Assignments(s) : HandOff(s, a)
  BY DispatchFacts
<1>2. /\ pc = "next" /\ todo # {} /\ wf = "running"
      /\ agentExecutions < draft.maxAgentExecutions
      /\ pc' = "submitted"
      /\ UNCHANGED <<wf, draft, recStatus, recRetries, agentExecutions, toolCalls, paused,
                     pass, todo, escaped, approving, interventions>>
  BY DEF NextDispatch, WithinExecutions, IInv, EngineInv, Place
<1>3. Ready(s)
  BY <1>1, <1>2 DEF IInv, EngineInv, Todo
<1> HIDE DEF s
<1>4. handoffs' \in Nat /\ handedOff' \subseteq Tasks \X Agents
  BY <1>1, HandOffTypes
<1>5. EngineTypes'
  BY <1>1, <1>2, <1>4 DEF IInv, EngineInv, EngineTypes
<1>6. Place'
  BY <1>2 DEF Place, ParkedIsQuiescent, NoSilentStop
<1>7. Todo'
  BY <1>1, <1>2 DEF s, IInv, EngineInv, EngineTypes, Todo, Ready, Awaited
<1>8. ASSUME NEW x \in Specs PROVE RecordOK(x)'
  <2>1. RecordOK(x) /\ recRetries[x] \in 0..MaxRetries /\ recRetries[s] \in 0..MaxRetries
    BY <1>1 DEF IInv, EngineInv, Records, EngineTypes
  <2>2. ASSUME NEW n \in 1..(MaxRetries + 1), <<x, n>> # t
        PROVE  /\ status'[<<x, n>>] = status[<<x, n>>]
               /\ failure'[<<x, n>>] = failure[<<x, n>>]
    BY <1>1, <2>2 DEF NewTask, Tasks
  <2>3. \A n \in 1..recRetries[x] : n \in 1..(MaxRetries + 1) /\ <<x, n>> # t
    BY <2>1, WorkflowAssumption
  <2>4. \A n \in 1..recRetries[x] :
           status'[<<x, n>>] = "failed" /\ failure'[<<x, n>>] = "retryable"
    BY <2>1, <2>2, <2>3 DEF RecordOK
  <2>5. \A n \in 1..(MaxRetries + 1) : status'[<<x, n>>] # "absent" =>
           /\ n <= recRetries[x] + 1
           /\ \A d \in DependsOn[x] : recStatus[d] = "completed"
    <3> TAKE n \in 1..(MaxRetries + 1)
    <3>1. CASE <<x, n>> # t
      BY <2>1, <2>2, <3>1 DEF RecordOK, Created
    <3>2. CASE <<x, n>> = t
      BY <1>3, <2>1, <3>2 DEF Ready
    <3>3. QED
      BY <3>1, <3>2
  <2>6. recStatus[x] = "skipped" => \A n \in 1..(MaxRetries + 1) : status'[<<x, n>>] = "absent"
    BY <1>3, <2>1, <2>2 DEF RecordOK, Created, Ready
  <2>7. recStatus[x] \in {"completed", "awaiting_approval"} => x # s /\ recTask'[x] = recTask[x]
    BY <1>1, <1>3 DEF Ready, IInv, EngineInv, EngineTypes
  <2>8. recStatus[x] = "completed" => recTask[x] # t
    <3>1. status[t] # "completed"
      BY <1>1 DEF NewTask
    <3>2. QED
      BY <2>1, <3>1 DEF RecordOK
  <2>9. recStatus[x] = "completed" => status'[recTask[x]] = "completed"
    BY <1>1, <2>1, <2>8 DEF RecordOK, NewTask
  <2>10. QED
    BY <1>2, <2>1, <2>4, <2>5, <2>6, <2>7, <2>9 DEF RecordOK, Created
<1>9. CreatedTasks' = CreatedTasks \cup {t} /\ t \notin CreatedTasks
  BY <1>1 DEF CreatedTasks, Created, NewTask
<1>10. Cardinality(CreatedTasks)' = Cardinality(CreatedTasks) + 1
  BY <1>9, CreatedFinite, FS_AddElement
<1>11. /\ Cardinality(CreatedTasks) <= agentExecutions
       /\ agentExecutions \in Nat /\ draft.maxAgentExecutions \in Nat
  BY <1>2, WorkflowAssumption DEF IInv, EngineInv, EngineTypes, Count, DraftType
<1>12. Cardinality(CreatedTasks)' <= agentExecutions' + 1
       /\ Cardinality(CreatedTasks)' <= draft'.maxAgentExecutions
  BY <1>2, <1>10, <1>11, CreatedFinite
<1>13. Count'
  BY <1>2, <1>12 DEF Count, ExecutionsWithinLimit, CreatedTasks
<1>14. QED
  BY <1>5, <1>6, <1>7, <1>8, <1>13 DEF EngineInv, Records

LEMMA SettledPreserves ==
  ASSUME IInv, [Next]_vars, ~NextDispatch, SubmitSettled \/ ResumeSettled
  PROVE  EngineInv'
<1>1. /\ pc \in {"submitted", "resuming"} /\ todo # {}
      /\ wf \in {"running", "cancelled"}
  BY DEF SubmitSettled, ResumeSettled, Settled, IInv, EngineInv, Todo, Place
<1>2. /\ UNCHANGED <<draft, recTask, handoffs, handedOff, paused, approving, interventions>>
      /\ UNCHANGED <<status, failure>>
  BY DEF SubmitSettled, ResumeSettled, orchVars, counterVars
<1>3. (\A t \in Tasks : P!Kept(t)) /\ CreatedTasks' = CreatedTasks
  BY TasksKept
<1>4. toolCalls' \in Nat
  BY WorkflowAssumption DEF SubmitSettled, ResumeSettled, counterVars, IInv, EngineInv, EngineTypes
<1>5. \/ pc = "submitted" /\ agentExecutions' = agentExecutions + 1
      \/ pc = "resuming" /\ agentExecutions' = agentExecutions
  BY DEF SubmitSettled, ResumeSettled, Settled, counterVars
<1>6. agentExecutions \in Nat /\ agentExecutions' \in Nat
  BY <1>5 DEF IInv, EngineInv, EngineTypes
<1> DEFINE back == IF pc = "submitted" THEN "next" ELSE "resume"
<1>7. /\ recStatus' \in [Specs -> RecordStatuses]
      /\ recRetries' \in [Specs -> 0..MaxRetries]
      /\ Records'
      /\ \/ Stopped
         \/ Continues(back) /\ Place' /\ Todo'
  <2>1. CASE ApplyTaskOutcome(First(todo), Awaited, back)
    BY <1>1, <1>2, <2>1, OutcomeFacts
  <2>2. CASE Fail /\ UNCHANGED <<recStatus, recRetries>>
    <3>1. UNCHANGED recVars
      BY <1>2, <2>2 DEF recVars
    <3>2. Records'
      BY <1>3, <3>1, RecordsKept
    <3>3. Stopped
      BY <1>1, <2>2, FailFacts DEF Stopped
    <3>4. QED
      BY <2>2, <3>2, <3>3 DEF IInv, EngineInv, EngineTypes
  <2>3. QED
    BY <1>1, <2>1, <2>2 DEF SubmitSettled, ResumeSettled, Settled
<1>8. CASE Stopped
  <2>1. wf' \in WorkflowStatuses /\ pass' \in 0..MaxPasses /\ Place' /\ Todo' /\ Count'
    BY <1>2, <1>3, <1>8, StoppedAgrees
  <2>2. EngineTypes'
    BY <1>2, <1>4, <1>6, <1>7, <1>8, <2>1 DEF IInv, EngineInv, EngineTypes, Stopped
  <2>3. QED
    BY <1>7, <2>1, <2>2 DEF EngineInv
<1>9. CASE Continues(back) /\ Place' /\ Todo'
  <2>1. ExecutionsWithinLimit'
    BY <1>2, <1>3 DEF IInv, EngineInv, Count, ExecutionsWithinLimit, CreatedTasks
  <2>2. Cardinality(CreatedTasks) <= agentExecutions'
    BY <1>1, <1>5, <1>6 DEF IInv, EngineInv, Count
  <2>3. Count'
    BY <1>3, <1>9, <2>1, <2>2 DEF Count, Continues
  <2>4. EngineTypes'
    BY <1>2, <1>4, <1>6, <1>7, <1>9 DEF IInv, EngineInv, EngineTypes, Continues
  <2>5. QED
    BY <1>7, <1>9, <2>3, <2>4 DEF EngineInv
<1>10. QED
  BY <1>7, <1>8, <1>9

-------------------------------------------------------------------------------
(* The invariant, and what follows from it.                                *)

LEMMA InitEstablishes == Init => IInv
<1> SUFFICES ASSUME Init PROVE IInv
  OBVIOUS
<1>1. P!IInv
  <2>1. P!Init
    BY DEF Init, O!Init, P!Init, O!Scopes, P!Scopes
  <2>2. QED
    BY <2>1, Assumptions, P!InitEstablishes
<1>2. \A t \in Tasks : ~Created(t)
  BY DEF Init, O!Init, Created
<1>3. CreatedTasks = {} /\ Cardinality(CreatedTasks) = 0
  BY <1>2, FS_EmptySet DEF CreatedTasks
<1>4. paused \in BOOLEAN /\ escaped \in BOOLEAN
  BY DEF Init
<1>5. EngineTypes
  BY <1>4, PassesType, WorkflowAssumption DEF Init, EngineTypes, WorkflowStatuses, RecordStatuses
<1>6. Place /\ Todo
  BY DEF Init, Place, ParkedIsQuiescent, NoSilentStop, Todo
<1>7. Records
  <2> SUFFICES ASSUME NEW s \in Specs PROVE RecordOK(s)
    BY DEF Records
  <2>1. \A n \in 1..(MaxRetries + 1) : <<s, n>> \in Tasks
    BY DEF Tasks
  <2>2. recStatus[s] = "pending" /\ recRetries[s] = 0
    BY DEF Init
  <2>3. QED
    BY <1>2, <2>1, <2>2 DEF RecordOK
<1>8. Count
  <2>1. draft.maxAgentExecutions \in Nat /\ agentExecutions = 0
    BY WorkflowAssumption DEF Init, DraftType
  <2>2. QED
    BY <1>3, <2>1 DEF Count, ExecutionsWithinLimit, CreatedTasks
<1>9. QED
  BY <1>1, <1>5, <1>6, <1>7, <1>8 DEF IInv, EngineInv

LEMMA NextPreserves == IInv /\ [Next]_vars => IInv'
<1> SUFFICES ASSUME IInv, [Next]_vars PROVE IInv'
  OBVIOUS
<1>1. P!IInv'
  BY OrchestratorPreserves
<1>2. CASE NextDispatch
  BY <1>1, <1>2, NextDispatchPreserves DEF IInv
<1>3. CASE ~NextDispatch
  <2>1. EngineInv'
    BY <1>3, OperatorPreserves, StartPreserves, QuietEnginePreserves, NextUnassignablePreserves,
       NextOverHandoffsPreserves, SettledPreserves DEF Next, EngineStep
  <2>2. QED
    BY <1>1, <2>1 DEF IInv
<1>4. QED
  BY <1>2, <1>3

LEMMA Invariance == Spec => []IInv
<1>1. Init => IInv
  BY InitEstablishes
<1>2. IInv /\ [Next]_vars => IInv'
  BY NextPreserves
<1>3. QED
  BY <1>1, <1>2, PTL DEF Spec

(* Every variable keeps its type: the records of run, resume and retry,    *)
(* schedule's pass counter and the orchestrator's tasks below.             *)
THEOREM TypeCorrect == Spec => []TypeOK
<1>1. IInv => TypeOK
  <2> SUFFICES ASSUME IInv PROVE TypeOK
    OBVIOUS
  <2>1. O!TypeOK
    BY DEF IInv, P!IInv, P!TypeOK, O!TypeOK, P!TaskStatuses, O!TaskStatuses, P!Failures, O!Failures,
           P!ApprovalStatuses, O!ApprovalStatuses, P!Expiries, O!Expiries, P!OpsRecords,
           O!OpsRecords, P!Scopes, O!Scopes
  <2>2. QED
    BY <2>1 DEF IInv, EngineInv, EngineTypes, TypeOK
<1>2. QED
  BY <1>1, Invariance, PTL

(* Whatever the graph, no task of a spec exists before everything the spec *)
(* depends on completed (computeReadySpecs, schedule, resume).             *)
THEOREM DependencyOrderHolds == Spec => []DependencyOrder
<1>1. IInv => DependencyOrder
  BY DEF IInv, EngineInv, Records, RecordOK, DependencyOrder, Tasks, SpecOf
<1>2. QED
  BY <1>1, Invariance, PTL

(* Whatever maxRetries is, a spec is attempted again only after its last   *)
(* attempt failed for a retryable reason (applyTaskOutcome).               *)
THEOREM RetryReplacesFailureHolds == Spec => []RetryReplacesFailure
<1>1. IInv => RetryReplacesFailure
  <2> SUFFICES ASSUME IInv, NEW s \in Specs, NEW n \in 2..(MaxRetries + 1), Created(<<s, n>>)
               PROVE  status[<<s, n - 1>>] = "failed" /\ failure[<<s, n - 1>>] = "retryable"
    BY DEF RetryReplacesFailure
  <2>1. RecordOK(s) /\ recRetries[s] \in 0..MaxRetries
    BY DEF IInv, EngineInv, Records, EngineTypes
  <2>2. n \in 1..(MaxRetries + 1)
    BY WorkflowAssumption
  <2>3. n <= recRetries[s] + 1
    BY <2>1, <2>2 DEF RecordOK
  <2>4. n - 1 \in 1..recRetries[s]
    BY <2>1, <2>3, WorkflowAssumption
  <2>5. QED
    BY <2>1, <2>4 DEF RecordOK
<1>2. QED
  BY <1>1, Invariance, PTL

(* A completed workflow has a completed task behind every spec (finalize). *)
THEOREM CompletedMeansAllHolds == Spec => []CompletedMeansAll
<1>1. IInv => CompletedMeansAll
  BY DEF IInv, EngineInv, Place, Records, RecordOK, CompletedMeansAll
<1>2. QED
  BY <1>1, Invariance, PTL

(* What propagateSkip skips never had a task, and has an upstream spec     *)
(* that will not complete, in a graph of any shape.                        *)
THEOREM SkippedHasCauseHolds == Spec => []SkippedHasCause
<1>1. IInv => SkippedHasCause
  BY DEF IInv, EngineInv, Records, RecordOK, SkippedHasCause
<1>2. QED
  BY <1>1, Invariance, PTL

(* maxAgentExecutions bounds the tasks ever created, over every run and    *)
(* resume, although a task is counted only when its submit returned.       *)
THEOREM ExecutionsWithinLimitHolds == Spec => []ExecutionsWithinLimit
<1>1. IInv => ExecutionsWithinLimit
  BY DEF IInv, EngineInv, Count
<1>2. QED
  BY <1>1, Invariance, PTL

(* A parked workflow has a parked record and no scheduler at work.         *)
THEOREM ParkedIsQuiescentHolds == Spec => []ParkedIsQuiescent
<1>1. IInv => ParkedIsQuiescent
  BY DEF IInv, EngineInv, Place
<1>2. QED
  BY <1>1, Invariance, PTL

(* The engine leaves a workflow running only by an error its caller saw.   *)
THEOREM NoSilentStopHolds == Spec => []NoSilentStop
<1>1. IInv => NoSilentStop
  BY DEF IInv, EngineInv, Place
<1>2. QED
  BY <1>1, Invariance, PTL

\* One step of a workflow that has ended.
StaysEnded ==
    (wf \in TerminalWorkflow) =>
        /\ wf' = wf
        /\ \A t \in Tasks : Created(t)' = Created(t)

LEMMA StepStaysEnded ==
  ASSUME IInv, [Next]_vars
  PROVE  StaysEnded
<1> SUFFICES ASSUME wf \in TerminalWorkflow
             PROVE  wf' = wf /\ \A t \in Tasks : Created(t)' = Created(t)
  BY DEF StaysEnded
<1> USE DEF TerminalWorkflow
<1>1. pc \in {"idle", "submitted", "resuming"} /\ wf # "running"
  BY DEF IInv, EngineInv, Place, EngineTypes
<1>2. ~NextDispatch
  BY <1>1 DEF NextDispatch
<1>3. \A t \in Tasks : Created(t)' = Created(t)
  BY <1>2, TasksKept DEF P!Kept, Created
<1>4. \A to \in {"failed", "cancelled"} : ~CanTransition(to)
  BY DEF CanTransition, TRANSITIONS
<1>5. Fail => wf' = wf
  BY <1>4 DEF Fail
<1>6. ASSUME NEW back, ApplyTaskOutcome(First(todo), Awaited, back) PROVE wf' = wf
  BY <1>1, <1>5, <1>6 DEF GoOn, ApplyTaskOutcome, EndSpec
<1>7. CASE SubmitSettled \/ ResumeSettled
  <2>1. \/ Fail
        \/ ApplyTaskOutcome(First(todo), Awaited, "next")
        \/ ApplyTaskOutcome(First(todo), Awaited, "resume")
    BY <1>7 DEF SubmitSettled, ResumeSettled
  <2>2. QED
    BY <1>3, <1>5, <1>6, <2>1
<1>8. CASE AwaitedRejected \/ UNCHANGED vars
  BY <1>3, <1>8 DEF AwaitedRejected, vars
<1>9. ASSUME NEW t \in Tasks,
             \/ HandlerSettles(t) \/ Approve(t) \/ ApproveContinues(t)
             \/ Decide(t) \/ ApprovalLapses(t) \/ CancelTask(t)
      PROVE  wf' = wf
  BY <1>9 DEF HandlerSettles, Approve, ApproveContinues, Decide, ApprovalLapses, CancelTask,
              StartResume
<1>10. ASSUME NEW a \in Agents, DisableAgent(a) PROVE wf' = wf
  BY <1>10 DEF DisableAgent
<1>11. CASE Run \/ PauseWorkflow \/ ResumeWorkflow \/ CancelWorkflow
  BY <1>4, <1>11 DEF Run, PauseWorkflow, ResumeWorkflow, CancelWorkflow
<1>12. CASE \/ PassLimit \/ PassNothingReady \/ PassReady \/ NextPass \/ NextOverExecutions
            \/ NextUnassignable \/ NextOverHandoffs \/ ResumeNext \/ ResumeThrows
            \/ ResumeScheduled
  BY <1>1, <1>12 DEF PassLimit, PassNothingReady, PassReady, NextPass, NextOverExecutions,
     NextUnassignable, NextOverHandoffs, ResumeNext, ResumeThrows, ResumeScheduled
<1>13. QED
  BY <1>2, <1>3, <1>7, <1>8, <1>9, <1>10, <1>11, <1>12 DEF Next, EngineStep

(* A workflow that ended, cancelled under a handler included, keeps its    *)
(* status, and no task is created for it any more.                         *)
THEOREM EndedStaysEndedHolds == Spec => EndedStaysEnded
<1>1. IInv /\ [Next]_vars => [StaysEnded]_vars
  BY StepStaysEnded
<1>2. QED
  BY <1>1, Invariance, PTL DEF Spec, EndedStaysEnded, StaysEnded
===============================================================================
