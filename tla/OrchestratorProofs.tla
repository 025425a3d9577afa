-------------------------- MODULE OrchestratorProofs --------------------------
(***************************************************************************)
(* Proofs about Orchestrator for any tasks, agents, projects and policy:   *)
(* its invariants, that settled tasks stay settled, and that it implements *)
(* GatedExecution.                                                         *)
(***************************************************************************)
EXTENDS Orchestrator, TLAPS

(* What the invariants need to be inductive: a task that does not exist    *)
(* has no history; an open request belongs to a gated task that is parked, *)
(* or was cancelled while parked, and whose handler was not yet called.    *)
Coherent ==
    \A t \in Tasks :
        /\ status[t] # "created"
        /\ status[t] = "absent" => approval[t] = "none" /\ executed[t] = 0
        /\ approval[t] # "none" => t \in RequiresApproval
        /\ approval[t] = "requested" =>
              status[t] \in {"awaiting_approval", "cancelled"} /\ executed[t] = 0
        /\ executed[t] = 0 => inFlight[t] = 0
        /\ executed[t] \in {0, 1}

IInv == TypeOK /\ RunningIsExecuting /\ ParkedIsResumable /\ Coherent

USE OrchestratorAssumption

LEMMA InitEstablishes == Init => IInv
  BY DEF Init, IInv, TypeOK, RunningIsExecuting, ParkedIsResumable, Coherent,
         TaskStatuses, ApprovalStatuses, Failures, Expiries, OpsRecords

LEMMA SubmitPreserves ==
  ASSUME IInv, NEW t \in Tasks, Submit(t)
  PROVE  IInv'
<1> USE DEF IInv, TypeOK, RunningIsExecuting, ParkedIsResumable, Coherent,
            TaskStatuses, ApprovalStatuses, Failures, Expiries, OpsRecords,
            taskVars, approvalVars, execVars
<1>1. CASE SubmitUnassigned(t)
  BY <1>1 DEF SubmitUnassigned
<1>2. ASSUME NEW a \in Agents, SubmitToDisabledAgent(t, a) PROVE IInv'
  BY <1>2 DEF SubmitToDisabledAgent
<1>3. ASSUME NEW a \in Agents, SubmitDenied(t, a) PROVE IInv'
  BY <1>3 DEF SubmitDenied, Assign
<1>4. ASSUME NEW a \in Agents, SubmitParked(t, a) PROVE IInv'
  BY <1>4 DEF SubmitParked, Assign
<1>5. ASSUME NEW a \in Agents, SubmitDispatched(t, a) PROVE IInv'
  BY <1>5 DEF SubmitDispatched, Assign, Dispatch
<1>6. QED
  BY <1>1, <1>2, <1>3, <1>4, <1>5 DEF Submit

(* The entries of TRANSITIONS that decide what a late handler result does. *)
LEMMA TransitionFacts ==
  /\ CanTransition("running", "completed")
  /\ CanTransition("running", "failed")
  /\ ~CanTransition("cancelled", "completed")
  /\ ~CanTransition("cancelled", "failed")
  /\ ~CanTransition("completed", "cancelled")
  /\ ~CanTransition("cancelled", "cancelled")
  /\ ~CanTransition("failed", "cancelled")
  /\ ~CanTransition("absent", "cancelled")
  BY DEF CanTransition, TRANSITIONS, TaskStatuses

LEMMA HandlerPreserves ==
  ASSUME IInv, NEW t \in Tasks, HandlerSettles(t)
  PROVE  IInv'
<1> USE DEF IInv, TypeOK, RunningIsExecuting, ParkedIsResumable, Coherent,
            TaskStatuses, ApprovalStatuses, Failures, Expiries, OpsRecords,
            taskVars, approvalVars, execVars
<1>1. inFlight[t] = 1 /\ status[t] \in {"running", "cancelled"}
  BY DEF HandlerSettles, HandlerReturns, HandlerThrows
<1>2. CASE HandlerReturns(t) /\ status[t] = "running"
  BY <1>1, <1>2, TransitionFacts DEF HandlerReturns
<1>3. CASE HandlerReturns(t) /\ status[t] = "cancelled"
  BY <1>1, <1>3, TransitionFacts DEF HandlerReturns
<1>4. CASE HandlerThrows(t) /\ status[t] = "running"
  BY <1>1, <1>4, TransitionFacts DEF HandlerThrows
<1>5. CASE HandlerThrows(t) /\ status[t] = "cancelled"
  BY <1>1, <1>5, TransitionFacts DEF HandlerThrows
<1>6. QED
  BY <1>1, <1>2, <1>3, <1>4, <1>5 DEF HandlerSettles

LEMMA ResumePreserves ==
  ASSUME IInv, NEW t \in Tasks, Resume(t)
  PROVE  IInv'
<1> USE DEF IInv, TypeOK, RunningIsExecuting, ParkedIsResumable, Coherent,
            TaskStatuses, ApprovalStatuses, Failures, Expiries, OpsRecords,
            taskVars, approvalVars, execVars
<1>1. CASE ResumeApproved(t)
  BY <1>1 DEF ResumeApproved, Dispatch
<1>2. ASSUME NEW swept \in {{}, Stale}, ResumeRefused(t, swept) PROVE IInv'
  BY <1>2 DEF ResumeRefused, Stale
<1>3. ASSUME NEW swept \in {{}, Stale}, ResumePending(t, swept) PROVE IInv'
  BY <1>3 DEF ResumePending, Stale
<1>4. QED
  BY <1>1, <1>2, <1>3 DEF Resume

LEMMA CommandPreserves ==
  ASSUME IInv, NEW t \in Tasks,
         \/ ApprovalLapses(t)
         \/ DecideLapsed(t)
         \/ Approve(t)
         \/ Reject(t)
         \/ CancelTask(t)
         \/ RetryTask(t)
         \/ \E decided \in {"approved", "rejected"} : RecordApprovalDecision(t, decided)
  PROVE  IInv'
<1> USE DEF IInv, TypeOK, RunningIsExecuting, ParkedIsResumable, Coherent,
            TaskStatuses, ApprovalStatuses, Failures, Expiries, OpsRecords,
            taskVars, approvalVars, execVars
<1>1. CASE ApprovalLapses(t)
  BY <1>1 DEF ApprovalLapses
<1>2. CASE DecideLapsed(t)
  BY <1>2 DEF DecideLapsed
<1>3. CASE Approve(t)
  <2>1. CASE status[t] = "awaiting_approval"
    BY <1>3, <2>1 DEF Approve, Dispatch
  <2>2. CASE status[t] # "awaiting_approval"
    BY <1>3, <2>2 DEF Approve
  <2>3. QED
    BY <2>1, <2>2
<1>4. CASE Reject(t)
  BY <1>4 DEF Reject
<1>5. CASE CancelTask(t)
  BY <1>5 DEF CancelTask, CanTransition, TRANSITIONS
<1>6. CASE RetryTask(t)
  BY <1>6 DEF RetryTask
<1>7. ASSUME NEW decided \in {"approved", "rejected"}, RecordApprovalDecision(t, decided)
      PROVE  IInv'
  BY <1>7 DEF RecordApprovalDecision
<1>8. QED
  BY <1>1, <1>2, <1>3, <1>4, <1>5, <1>6, <1>7

LEMMA SetAgentEnabledPreserves ==
  ASSUME IInv, NEW a \in Agents, NEW s \in Scopes, NEW enabled \in BOOLEAN,
         SetAgentEnabled(a, s, enabled)
  PROVE  IInv'
  BY DEF IInv, TypeOK, RunningIsExecuting, ParkedIsResumable, Coherent, OpsRecords,
         taskVars, approvalVars, execVars, SetAgentEnabled

LEMMA NextPreserves == IInv /\ [Next]_orchVars => IInv'
<1> SUFFICES ASSUME IInv, [Next]_orchVars PROVE IInv'
  OBVIOUS
<1>1. CASE UNCHANGED orchVars
  BY <1>1 DEF orchVars, taskVars, approvalVars, execVars, IInv, TypeOK,
              RunningIsExecuting, ParkedIsResumable, Coherent
<1>2. CASE Next
  <2>1. ASSUME NEW t \in Tasks, Submit(t) PROVE IInv'
    BY <2>1, SubmitPreserves
  <2>2. ASSUME NEW t \in Tasks, HandlerSettles(t) PROVE IInv'
    BY <2>2, HandlerPreserves
  <2>3. ASSUME NEW t \in Tasks, Resume(t) PROVE IInv'
    BY <2>3, ResumePreserves
  <2>4. ASSUME NEW a \in Agents, NEW s \in Scopes, NEW enabled \in BOOLEAN,
               SetAgentEnabled(a, s, enabled)
        PROVE  IInv'
    BY <2>4, SetAgentEnabledPreserves
  <2>5. QED
    BY <1>2, <2>1, <2>2, <2>3, <2>4, CommandPreserves DEF Next, ControlPlaneNext
<1>3. QED
  BY <1>1, <1>2

(* The invariant is inductive, for every instance of the constants.        *)
LEMMA Invariance == Spec => []IInv
<1>1. Init => IInv
  BY InitEstablishes
<1>2. IInv /\ [Next]_orchVars => IInv'
  BY NextPreserves
<1>3. QED
  BY <1>1, <1>2, PTL DEF Spec

(* Every variable keeps its type: no sequence of submits, commands and     *)
(* handler results takes the task store outside its statuses or the retry  *)
(* count above the operator's cap.                                         *)
THEOREM TypeCorrect == Spec => []TypeOK
<1>1. IInv => TypeOK
  BY DEF IInv
<1>2. QED
  BY <1>1, Invariance, PTL

(* A running task has exactly one handler call behind it, and a call       *)
(* without a running task belongs to a cancelled one (dispatch, resume,    *)
(* cancelTask), whatever the number of tasks.                              *)
THEOREM RunningIsExecutingHolds == Spec => []RunningIsExecuting
<1>1. IInv => RunningIsExecuting
  BY DEF IInv
<1>2. QED
  BY <1>1, Invariance, PTL

(* A parked task has the request and the agent resume relies on, and its   *)
(* handler was never called.                                               *)
THEOREM ParkedIsResumableHolds == Spec => []ParkedIsResumable
<1>1. IInv => ParkedIsResumable
  BY DEF IInv
<1>2. QED
  BY <1>1, Invariance, PTL

-------------------------------------------------------------------------------
(* Settled tasks.                                                          *)

Settled(t) ==
    /\ status[t] \in Terminal => status'[t] = status[t]
    /\ status[t] = "failed" /\ status'[t] # "failed" =>
          /\ status'[t] = "queued"
          /\ retryCount'[t] = retryCount[t] + 1

LEMMA StepsSettle ==
  ASSUME IInv, [Next]_orchVars, NEW t \in Tasks
  PROVE  Settled(t)
<1> USE DEF Settled, Terminal, IInv, TypeOK, RunningIsExecuting, ParkedIsResumable,
            Coherent, taskVars, approvalVars, execVars
<1>1. CASE UNCHANGED orchVars
  BY <1>1 DEF orchVars
<1>2. ASSUME NEW u \in Tasks, Submit(u) PROVE Settled(t)
  BY <1>2 DEF Submit, SubmitUnassigned, SubmitToDisabledAgent, SubmitDenied,
              SubmitParked, SubmitDispatched, Assign, Dispatch
<1>3. ASSUME NEW u \in Tasks, HandlerSettles(u) PROVE Settled(t)
  <2>1. inFlight[u] = 1 /\ status[u] \in {"running", "cancelled"}
    BY <1>3 DEF HandlerSettles, HandlerReturns, HandlerThrows
  <2>2. CASE HandlerReturns(u)
    BY <2>1, <2>2, TransitionFacts DEF HandlerReturns
  <2>3. CASE HandlerThrows(u)
    BY <2>1, <2>3, TransitionFacts DEF HandlerThrows
  <2>4. QED
    BY <1>3, <2>2, <2>3 DEF HandlerSettles
<1>4. ASSUME NEW u \in Tasks, Resume(u) PROVE Settled(t)
  BY <1>4 DEF Resume, ResumeApproved, ResumeRefused, ResumePending, Dispatch
<1>5. ASSUME NEW u \in Tasks,
             ApprovalLapses(u) \/ DecideLapsed(u) \/ Approve(u) \/ Reject(u)
      PROVE  Settled(t)
  BY <1>5 DEF ApprovalLapses, DecideLapsed, Approve, Reject, Dispatch
<1>6. ASSUME NEW u \in Tasks, CancelTask(u) PROVE Settled(t)
  BY <1>6, TransitionFacts DEF CancelTask
<1>7. ASSUME NEW u \in Tasks, RetryTask(u) PROVE Settled(t)
  BY <1>7 DEF RetryTask
<1>8. ASSUME NEW u \in Tasks, NEW decided \in {"approved", "rejected"},
             RecordApprovalDecision(u, decided)
      PROVE  Settled(t)
  BY <1>8 DEF RecordApprovalDecision
<1>9. ASSUME NEW a \in Agents, NEW s \in Scopes, NEW enabled \in BOOLEAN,
             SetAgentEnabled(a, s, enabled)
      PROVE  Settled(t)
  BY <1>9 DEF SetAgentEnabled
<1>10. QED
  BY <1>1, <1>2, <1>3, <1>4, <1>5, <1>6, <1>7, <1>8, <1>9 DEF Next, ControlPlaneNext

(* No interleaving of decisions, resumes, cancellations and late handler   *)
(* results moves a completed or cancelled task, and a failed one is only   *)
(* re-queued, by retry_task and at the price of one retry.                 *)
THEOREM SettledIsFinalHolds == Spec => SettledIsFinal
<1>1. IInv /\ [Next]_orchVars => [\A t \in Tasks : Settled(t)]_orchVars
  BY StepsSettle
<1>2. QED
  BY <1>1, Invariance, PTL DEF Spec, SettledIsFinal, Settled

-------------------------------------------------------------------------------
(* What the workflow engine relies on.                                     *)

\* Every step that does not submit a task.
OtherSteps ==
    \/ \E t \in Tasks :
          \/ HandlerSettles(t)
          \/ ApprovalLapses(t)
          \/ DecideLapsed(t)
          \/ Approve(t)
          \/ Reject(t)
          \/ CancelTask(t)
          \/ Resume(t)
          \/ \E decided \in {"approved", "rejected"} : RecordApprovalDecision(t, decided)
    \/ \E a \in Agents, s \in Scopes, enabled \in BOOLEAN :
          SetAgentEnabled(a, s, enabled)

\* Task t neither comes into being nor goes; when it is settled it stays so,
\* with the failure it had.
Kept(t) ==
    /\ status'[t] = "absent" <=> status[t] = "absent"
    /\ status[t] = "completed" => status'[t] = "completed"
    /\ status[t] = "failed" => status'[t] = "failed" /\ failure'[t] = failure[t]

LEMMA OtherStepsAreSteps == OtherSteps => Next
  BY DEF OtherSteps, Next, ControlPlaneNext

LEMMA OtherStepsKeep ==
  ASSUME IInv, [OtherSteps]_orchVars, NEW t \in Tasks
  PROVE  Kept(t)
<1> USE DEF Kept, IInv, TypeOK, RunningIsExecuting, ParkedIsResumable, Coherent,
            taskVars, approvalVars, execVars
<1>1. CASE UNCHANGED orchVars
  BY <1>1 DEF orchVars
<1>2. ASSUME NEW u \in Tasks, HandlerSettles(u) PROVE Kept(t)
  <2>1. inFlight[u] = 1 /\ status[u] \in {"running", "cancelled"}
    BY <1>2 DEF HandlerSettles, HandlerReturns, HandlerThrows
  <2>2. CASE HandlerReturns(u)
    BY <2>1, <2>2, TransitionFacts DEF HandlerReturns
  <2>3. CASE HandlerThrows(u)
    BY <2>1, <2>3, TransitionFacts DEF HandlerThrows
  <2>4. QED
    BY <1>2, <2>2, <2>3 DEF HandlerSettles
<1>3. ASSUME NEW u \in Tasks, Resume(u) PROVE Kept(t)
  BY <1>3 DEF Resume, ResumeApproved, ResumeRefused, ResumePending, Dispatch
<1>4. ASSUME NEW u \in Tasks,
             ApprovalLapses(u) \/ DecideLapsed(u) \/ Approve(u) \/ Reject(u)
      PROVE  Kept(t)
  BY <1>4 DEF ApprovalLapses, DecideLapsed, Approve, Reject, Dispatch
<1>5. ASSUME NEW u \in Tasks, CancelTask(u) PROVE Kept(t)
  BY <1>5, TransitionFacts DEF CancelTask
<1>6. ASSUME NEW u \in Tasks, NEW decided \in {"approved", "rejected"},
             RecordApprovalDecision(u, decided)
      PROVE  Kept(t)
  BY <1>6 DEF RecordApprovalDecision
<1>7. ASSUME NEW a \in Agents, NEW s \in Scopes, NEW enabled \in BOOLEAN,
             SetAgentEnabled(a, s, enabled)
      PROVE  Kept(t)
  BY <1>7 DEF SetAgentEnabled
<1>8. QED
  BY <1>1, <1>2, <1>3, <1>4, <1>5, <1>6, <1>7 DEF OtherSteps

LEMMA SubmitCreates ==
  ASSUME IInv, NEW t \in Tasks, Submit(t)
  PROVE  /\ status[t] = "absent" /\ status'[t] # "absent"
         /\ \A u \in Tasks \ {t} : status'[u] = status[u] /\ failure'[u] = failure[u]
  BY DEF Submit, SubmitUnassigned, SubmitToDisabledAgent, SubmitDenied, SubmitParked,
         SubmitDispatched, Assign, Dispatch, IInv, TypeOK, approvalVars, execVars

-------------------------------------------------------------------------------
(* The refinement.                                                         *)

LEMMA InitRefines == Init => Gate!Init
  BY DEF Init, Gate!Init, HandlerPhase, HandlerDecision, PhaseOf, DecisionOf

(* The mapping is pointwise, so a step is mapped task by task.             *)
LEMMA PhaseUpdate ==
  ASSUME NEW t \in Tasks, NEW to,
         PhaseOf(status'[t], inFlight'[t]) = to,
         \A u \in Tasks \ {t} : status'[u] = status[u] /\ inFlight'[u] = inFlight[u]
  PROVE  HandlerPhase' = [HandlerPhase EXCEPT ![t] = to]
  BY DEF HandlerPhase, PhaseOf

LEMMA DecisionUpdate ==
  ASSUME NEW t \in Tasks, NEW to,
         DecisionOf(approval'[t]) = to,
         \A u \in Tasks \ {t} : approval'[u] = approval[u]
  PROVE  HandlerDecision' = [HandlerDecision EXCEPT ![t] = to]
  BY DEF HandlerDecision, DecisionOf

LEMMA SubmitRefines ==
  ASSUME IInv, NEW t \in Tasks, Submit(t)
  PROVE  Gate!Next
<1> USE DEF IInv, TypeOK, RunningIsExecuting, ParkedIsResumable, Coherent,
            taskVars, approvalVars, execVars
<1>1. status[t] = "absent" /\ inFlight[t] = 0 /\ approval[t] = "none"
  BY DEF Submit, SubmitUnassigned, SubmitToDisabledAgent, SubmitDenied,
         SubmitParked, SubmitDispatched, Assign
<1>2. HandlerPhase[t] = "new"
  BY <1>1 DEF HandlerPhase, PhaseOf
<1>3. \A u \in Tasks \ {t} :
         /\ status'[u] = status[u]
         /\ inFlight'[u] = inFlight[u]
         /\ approval'[u] = approval[u]
  BY DEF Submit, SubmitUnassigned, SubmitToDisabledAgent, SubmitDenied,
         SubmitParked, SubmitDispatched, Assign, Dispatch
<1>4. approval'[t] \in {"none", "requested"}
  BY <1>1 DEF Submit, SubmitUnassigned, SubmitToDisabledAgent, SubmitDenied,
         SubmitParked, SubmitDispatched, Assign
<1>5. HandlerDecision' = HandlerDecision
  BY <1>1, <1>3, <1>4 DEF HandlerDecision, DecisionOf
<1>6. CASE \/ SubmitUnassigned(t)
           \/ \E a \in Agents : SubmitToDisabledAgent(t, a) \/ SubmitDenied(t, a)
  <2>1. PhaseOf(status'[t], inFlight'[t]) = "closed"
    BY <1>1, <1>6 DEF SubmitUnassigned, SubmitToDisabledAgent, SubmitDenied, PhaseOf
  <2>2. HandlerPhase' = [HandlerPhase EXCEPT ![t] = "closed"]
    BY <1>3, <2>1, PhaseUpdate
  <2>3. QED
    BY <1>2, <1>5, <2>2 DEF Gate!Next, Gate!Close
<1>7. CASE \E a \in Agents : SubmitParked(t, a)
  <2>1. PhaseOf(status'[t], inFlight'[t]) = "parked"
    BY <1>1, <1>7 DEF SubmitParked, PhaseOf
  <2>2. HandlerPhase' = [HandlerPhase EXCEPT ![t] = "parked"]
    BY <1>3, <2>1, PhaseUpdate
  <2>3. QED
    BY <1>2, <1>5, <1>7, <2>2 DEF Gate!Next, Gate!Park, SubmitParked
<1>8. CASE \E a \in Agents : SubmitDispatched(t, a)
  <2>1. PhaseOf(status'[t], inFlight'[t]) = "executing"
    BY <1>1, <1>8 DEF SubmitDispatched, Dispatch, PhaseOf
  <2>2. HandlerPhase' = [HandlerPhase EXCEPT ![t] = "executing"]
    BY <1>3, <2>1, PhaseUpdate
  <2>3. QED
    BY <1>2, <1>5, <1>8, <2>2 DEF Gate!Next, Gate!StartUngated, SubmitDispatched
<1>9. QED
  BY <1>6, <1>7, <1>8 DEF Submit

LEMMA HandlerRefines ==
  ASSUME IInv, NEW t \in Tasks, HandlerSettles(t)
  PROVE  Gate!Next
<1> USE DEF IInv, TypeOK, RunningIsExecuting, ParkedIsResumable, Coherent,
            taskVars, approvalVars, execVars
<1>1. inFlight[t] = 1 /\ status[t] \in {"running", "cancelled"}
  BY DEF HandlerSettles, HandlerReturns, HandlerThrows
<1>2. /\ inFlight' = [inFlight EXCEPT ![t] = 0]
      /\ status'[t] \in {"completed", "failed", "cancelled"}
      /\ \A u \in Tasks \ {t} : status'[u] = status[u]
      /\ approval' = approval
  <2>1. CASE HandlerReturns(t)
    BY <1>1, <2>1, TransitionFacts DEF HandlerReturns
  <2>2. CASE HandlerThrows(t)
    BY <1>1, <2>2, TransitionFacts DEF HandlerThrows
  <2>3. QED
    BY <2>1, <2>2 DEF HandlerSettles
<1>3. HandlerPhase[t] = "executing"
  BY <1>1 DEF HandlerPhase, PhaseOf
<1>4. PhaseOf(status'[t], inFlight'[t]) = "closed"
  BY <1>2 DEF PhaseOf
<1>5. HandlerPhase' = [HandlerPhase EXCEPT ![t] = "closed"]
  BY <1>2, <1>4, PhaseUpdate
<1>6. HandlerDecision' = HandlerDecision
  BY <1>2 DEF HandlerDecision
<1>7. QED
  BY <1>3, <1>5, <1>6 DEF Gate!Next, Gate!Close

(* A request that is still open belongs to a task that is parked or closed.*)
LEMMA OpenRequest ==
  ASSUME IInv, NEW t \in Tasks, approval[t] = "requested"
  PROVE  /\ HandlerDecision[t] = "open"
         /\ HandlerPhase[t] \in {"parked", "closed"}
  BY DEF IInv, TypeOK, RunningIsExecuting, Coherent, HandlerDecision, HandlerPhase,
         DecisionOf, PhaseOf

LEMMA DispatchRefines ==
  ASSUME IInv, NEW t \in Tasks, status[t] = "awaiting_approval", Dispatch(t)
  PROVE  /\ HandlerPhase[t] = "parked"
         /\ HandlerPhase' = [HandlerPhase EXCEPT ![t] = "executing"]
<1> USE DEF IInv, TypeOK, RunningIsExecuting, Dispatch
<1>1. inFlight[t] = 0 /\ inFlight'[t] = 1
  OBVIOUS
<1>2. HandlerPhase[t] = "parked"
  BY <1>1 DEF HandlerPhase, PhaseOf
<1>3. PhaseOf(status'[t], inFlight'[t]) = "executing"
  BY <1>1 DEF PhaseOf
<1>4. QED
  BY <1>2, <1>3, PhaseUpdate

(* Denying the requests in S, and closing t when its status says so.       *)
LEMMA DenyRefines ==
  ASSUME IInv, NEW S \in SUBSET Tasks, NEW refusal \in {"rejected", "expired"},
         \A u \in S : approval[u] = "requested",
         approval' = [u \in Tasks |-> IF u \in S THEN refusal ELSE approval[u]],
         inFlight' = inFlight,
         \/ status' = status
         \/ \E t \in Tasks :
               /\ status[t] = "awaiting_approval"
               /\ approval'[t] \in {"rejected", "expired"}
               /\ status' = [status EXCEPT ![t] = "failed"]
  PROVE  Gate!Next
<1>1. \A u \in S : HandlerDecision[u] = "open" /\ HandlerPhase[u] \in {"parked", "closed"}
  BY OpenRequest
<1>2. HandlerDecision' = [u \in Tasks |-> IF u \in S THEN "denied" ELSE HandlerDecision[u]]
  BY DEF HandlerDecision, DecisionOf
<1>3. CASE status' = status
  <2>1. HandlerPhase' = HandlerPhase
    BY <1>3 DEF HandlerPhase
  <2>2. QED
    BY <1>1, <1>2, <2>1 DEF Gate!Next, Gate!Deny
<1>4. ASSUME NEW t \in Tasks,
             status[t] = "awaiting_approval",
             approval'[t] \in {"rejected", "expired"},
             status' = [status EXCEPT ![t] = "failed"]
      PROVE  Gate!Next
  <2>1. inFlight[t] = 0 /\ inFlight'[t] = 0 /\ status'[t] = "failed"
    BY <1>4 DEF IInv, TypeOK, RunningIsExecuting
  <2>2. HandlerPhase[t] = "parked" /\ PhaseOf(status'[t], inFlight'[t]) = "closed"
    BY <1>4, <2>1 DEF HandlerPhase, PhaseOf
  <2>3. HandlerPhase' = [HandlerPhase EXCEPT ![t] = "closed"]
    BY <1>4, <2>2, PhaseUpdate DEF IInv, TypeOK
  <2>4. HandlerDecision'[t] = "denied"
    BY <1>4 DEF HandlerDecision, DecisionOf
  <2>5. QED
    BY <1>1, <1>2, <2>2, <2>3, <2>4 DEF Gate!Next, Gate!Deny
<1>5. QED
  BY <1>3, <1>4

LEMMA ResumeRefines ==
  ASSUME IInv, NEW t \in Tasks, Resume(t)
  PROVE  Gate!Next
<1>1. CASE ResumeApproved(t)
  <2>1. /\ HandlerPhase[t] = "parked"
        /\ HandlerPhase' = [HandlerPhase EXCEPT ![t] = "executing"]
    BY <1>1, DispatchRefines DEF ResumeApproved
  <2>2. HandlerDecision' = HandlerDecision /\ HandlerDecision[t] = "granted"
    BY <1>1 DEF ResumeApproved, approvalVars, HandlerDecision, DecisionOf
  <2>3. QED
    BY <2>1, <2>2 DEF Gate!Next, Gate!StartGranted
<1>2. ASSUME NEW swept \in {{}, Stale},
             ResumeRefused(t, swept) \/ ResumePending(t, swept)
      PROVE  Gate!Next
  <2>1. swept \in SUBSET Tasks /\ \A u \in swept : approval[u] = "requested"
    BY <1>2 DEF Stale
  <2>2. /\ approval' = [u \in Tasks |-> IF u \in swept THEN "expired" ELSE approval[u]]
        /\ inFlight' = inFlight
    BY <1>2 DEF ResumeRefused, ResumePending, execVars
  <2>3. \/ status' = status
        \/ /\ status[t] = "awaiting_approval"
           /\ approval'[t] \in {"rejected", "expired"}
           /\ status' = [status EXCEPT ![t] = "failed"]
    BY <1>2 DEF ResumeRefused, ResumePending, taskVars
  <2>4. QED
    BY <2>1, <2>2, <2>3, DenyRefines
<1>3. QED
  BY <1>1, <1>2 DEF Resume

(* A refusal of one request, by whichever command.                         *)
LEMMA RefusalRefines ==
  ASSUME IInv, NEW t \in Tasks, NEW refusal \in {"rejected", "expired"},
         approval[t] = "requested",
         approval' = [approval EXCEPT ![t] = refusal],
         UNCHANGED <<status, inFlight>>
  PROVE  Gate!Next
<1>1. approval' = [u \in Tasks |-> IF u \in {t} THEN refusal ELSE approval[u]]
  BY DEF IInv, TypeOK
<1>2. QED
  BY <1>1, DenyRefines

LEMMA GrantRefines ==
  ASSUME IInv, NEW t \in Tasks, approval[t] = "requested",
         approval' = [approval EXCEPT ![t] = "approved"],
         \/ UNCHANGED <<status, inFlight>>
         \/ status[t] = "awaiting_approval" /\ Dispatch(t)
  PROVE  Gate!Next
<1>1. HandlerDecision[t] = "open" /\ HandlerPhase[t] \in {"parked", "closed"}
  BY OpenRequest
<1>2. DecisionOf(approval'[t]) = "granted"
  BY DEF DecisionOf, IInv, TypeOK
<1>3. HandlerDecision' = [HandlerDecision EXCEPT ![t] = "granted"]
  BY <1>2, DecisionUpdate DEF IInv, TypeOK
<1>4. CASE UNCHANGED <<status, inFlight>>
  <2>1. HandlerPhase' = HandlerPhase
    BY <1>4 DEF HandlerPhase
  <2>2. QED
    BY <1>1, <1>3, <2>1 DEF Gate!Next, Gate!Grant
<1>5. CASE status[t] = "awaiting_approval" /\ Dispatch(t)
  <2>1. /\ HandlerPhase[t] = "parked"
        /\ HandlerPhase' = [HandlerPhase EXCEPT ![t] = "executing"]
    BY <1>5, DispatchRefines
  <2>2. QED
    BY <1>1, <1>3, <2>1 DEF Gate!Next, Gate!Grant
<1>6. QED
  BY <1>4, <1>5

LEMMA CancelRefines ==
  ASSUME IInv, NEW t \in Tasks, CancelTask(t)
  PROVE  [Gate!Next]_(Gate!gateVars)
<1> USE DEF IInv, TypeOK, RunningIsExecuting, ParkedIsResumable, Coherent,
            CancelTask, approvalVars, execVars
<1>1. HandlerDecision' = HandlerDecision
  BY DEF HandlerDecision
<1>2. status[t] # "absent"
  BY TransitionFacts
<1>3. CASE status[t] = "awaiting_approval"
  <2>1. HandlerPhase[t] = "parked" /\ PhaseOf(status'[t], inFlight'[t]) = "closed"
    BY <1>3 DEF HandlerPhase, PhaseOf
  <2>2. HandlerPhase' = [HandlerPhase EXCEPT ![t] = "closed"]
    BY <2>1, PhaseUpdate
  <2>3. QED
    BY <1>1, <2>1, <2>2 DEF Gate!Next, Gate!Close
<1>4. CASE status[t] # "awaiting_approval"
  <2>1. HandlerPhase' = HandlerPhase
    BY <1>2, <1>4 DEF HandlerPhase, PhaseOf
  <2>2. QED
    BY <1>1, <2>1 DEF Gate!gateVars
<1>5. QED
  BY <1>3, <1>4

LEMMA StutterRefines ==
  ASSUME IInv, UNCHANGED <<inFlight, approval>>,
         \/ UNCHANGED status
         \/ \E t \in Tasks : RetryTask(t)
  PROVE  UNCHANGED Gate!gateVars
<1>1. HandlerDecision' = HandlerDecision
  BY DEF HandlerDecision
<1>2. HandlerPhase' = HandlerPhase
  BY DEF HandlerPhase, PhaseOf, RetryTask, IInv, TypeOK
<1>3. QED
  BY <1>1, <1>2 DEF Gate!gateVars

LEMMA StepRefines == IInv /\ [Next]_orchVars => [Gate!Next]_(Gate!gateVars)
<1> SUFFICES ASSUME IInv, [Next]_orchVars PROVE [Gate!Next]_(Gate!gateVars)
  OBVIOUS
<1>1. CASE UNCHANGED orchVars
  BY <1>1, StutterRefines DEF orchVars, taskVars, approvalVars, execVars
<1>2. ASSUME NEW t \in Tasks, Submit(t) \/ HandlerSettles(t) \/ Resume(t)
      PROVE  Gate!Next
  BY <1>2, SubmitRefines, HandlerRefines, ResumeRefines
<1>3. ASSUME NEW t \in Tasks, DecideLapsed(t) \/ Reject(t) PROVE Gate!Next
  BY <1>3, RefusalRefines DEF DecideLapsed, Reject, taskVars, execVars
<1>4. ASSUME NEW t \in Tasks, Approve(t) PROVE Gate!Next
  BY <1>4, GrantRefines DEF Approve
<1>5. ASSUME NEW t \in Tasks, NEW decided \in {"approved", "rejected"},
             RecordApprovalDecision(t, decided)
      PROVE  Gate!Next
  BY <1>5, RefusalRefines, GrantRefines DEF RecordApprovalDecision, taskVars, execVars
<1>6. ASSUME NEW t \in Tasks, CancelTask(t) PROVE [Gate!Next]_(Gate!gateVars)
  BY <1>6, CancelRefines
<1>7. ASSUME NEW t \in Tasks, ApprovalLapses(t) \/ RetryTask(t)
      PROVE  UNCHANGED Gate!gateVars
  BY <1>7, StutterRefines DEF ApprovalLapses, RetryTask, taskVars, approvalVars, execVars
<1>8. ASSUME NEW a \in Agents, NEW s \in Scopes, NEW enabled \in BOOLEAN,
             SetAgentEnabled(a, s, enabled)
      PROVE  UNCHANGED Gate!gateVars
  BY <1>8, StutterRefines DEF SetAgentEnabled, taskVars, approvalVars, execVars
<1>9. QED
  BY <1>1, <1>2, <1>3, <1>4, <1>5, <1>6, <1>7, <1>8 DEF Next, ControlPlaneNext

(* The orchestrator implements GatedExecution: whatever the policy, the    *)
(* number of tasks and the interleaving, a handler is called at most once  *)
(* and a gated task's handler only after its request was granted.          *)
THEOREM GateImplemented == Spec => ImplementsGate
<1>1. Init => Gate!Init
  BY InitRefines
<1>2. IInv /\ [Next]_orchVars => [Gate!Next]_(Gate!gateVars)
  BY StepRefines
<1>3. QED
  BY <1>1, <1>2, Invariance, PTL DEF Spec, ImplementsGate, Gate!Spec
===============================================================================
