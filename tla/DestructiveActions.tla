-------------------------- MODULE DestructiveActions --------------------------
(***************************************************************************)
(* The approval gate for destructive actions: DestructiveActionService     *)
(* (core/security/destructive-action-service.ts) over the shared           *)
(* ApprovalSystem, the security policy engine and the operator accounts,   *)
(* with the callers that execute an approved action (api/http-api.ts and   *)
(* the two mutation authorizers in core/security).                         *)
(*                                                                         *)
(* Each method of the service runs without an await.  A caller awaits      *)
(* twice: while it loads the accounts of the approvers, before the guard   *)
(* assertApproved, and while the action itself runs, after it.  Decisions, *)
(* revisions, policies and accounts may change in between.                 *)
(*                                                                         *)
(* A target stands for the fields the fingerprint is taken of (action,     *)
(* type, resource, environment, project, production, irreversible); the    *)
(* SHA-256 fingerprints are taken to be injective.                         *)
(***************************************************************************)
EXTENDS Naturals, Sequences

CONSTANTS
    Requests, Operators, Targets, Projects,
    ProjectOf,      \* the project of each target
    Grave,          \* targets that are irreversible or in production
    Decisions,      \* what the policy engine may answer
    Requesters,     \* <<operator, project>> pairs that may request and execute
    Approvers,      \* pairs that may approve when the server starts
    Calls,          \* HTTP requests that execute an approved action
    None,
    MaxRevisions,   \* bound on the revisions of a request
    MaxChanges      \* bound on changes of policies and accounts

\* SecurityPolicyDecision.  requiresApproval is left out: the service always
\* evaluates with destructive = true, and then the engine never allows an
\* action without requiring its approval.
DecisionRecords == [allowed : BOOLEAN, risk : 1..4, requiresMfa : BOOLEAN,
                    requiresReauthentication : BOOLEAN, requiresTwoPersonApproval : BOOLEAN]

ASSUME DestructiveAssumption ==
    /\ ProjectOf \in [Targets -> Projects]
    /\ Grave \subseteq Targets
    /\ Decisions \subseteq DecisionRecords
    /\ Requesters \subseteq Operators \X Projects
    /\ Approvers \subseteq Operators \X Projects
    /\ None \notin Operators
    /\ MaxRevisions \in Nat \ {0} /\ MaxChanges \in Nat

VARIABLES
    request,      \* the DestructiveActionRequest records
    approvals,    \* the records of ApprovalSystem, in the order of their requests
    policy,       \* what the engine answers for each target
    approvers,    \* <<operator, project>>: active, approve_destructive_action, access
    granted,      \* those that were ever so: a caller's principal may be old
    call,         \* where each execution stands
    since,        \* history: the approvers there were since the call began
    runs,         \* history: executions begun under each revision
    changes

vars == <<request, approvals, policy, approvers, granted, call, since, runs, changes>>

Revisions == 1..MaxRevisions
Pairs == Operators \X Projects

\* Without "requested", "under_review" and "expired", which no code sets.
DESTRUCTIVE_TERMINAL_STATUSES == {"executed", "failed", "rejected", "cancelled"}
DESTRUCTIVE_ACTION_STATUSES ==
    DESTRUCTIVE_TERMINAL_STATUSES
    \cup {"awaiting_approval", "changes_requested", "approved", "executing"}

RequestRecords == [status : DESTRUCTIVE_ACTION_STATUSES, revision : Revisions, target : Targets,
                   requestedBy : Operators, policyDecision : DecisionRecords,
                   recovery : BOOLEAN,       \* backupAvailable or rollbackAvailable
                   approvalId : Nat, secondaryApprovalId : Nat]     \* 0 is undefined

\* An approval with the binding metadata it was requested with.
ApprovalRecords == [request : Requests, revision : Revisions, target : Targets,
                    requesterId : Operators, policyFingerprint : DecisionRecords,
                    status : {"requested", "approved", "rejected"},
                    decidedBy : Operators \cup {None}]

CallRecords == [at : {"idle", "resolving", "executing"}, request : Requests \cup {None},
                wanted : SUBSET Operators,   \* approver ids read when the call began
                loaded : SUBSET Operators,   \* accounts read so far
                resolves : SUBSET Pairs]     \* the principals they gave

ASSUME AbsentAssumption == None \notin RequestRecords \cup Requests

Idle == [at |-> "idle", request |-> None, wanted |-> {}, loaded |-> {}, resolves |-> {}]

TypeOK ==
    /\ request \in [Requests -> RequestRecords \cup {None}]
    /\ approvals \in Seq(ApprovalRecords)
    /\ policy \in [Targets -> DecisionRecords]
    /\ approvers \subseteq Pairs /\ granted \subseteq Pairs
    /\ call \in [Calls -> CallRecords]
    /\ since \in [Calls -> SUBSET Pairs]
    /\ runs \in [Requests -> [Revisions -> Nat]]
    /\ changes \in 0..MaxChanges

Init ==
    /\ request = [r \in Requests |-> None]
    /\ approvals = <<>>
    /\ policy \in [Targets -> Decisions]
    /\ approvers = Approvers
    /\ granted = Approvers
    /\ call = [c \in Calls |-> Idle]
    /\ since = [c \in Calls |-> {}]
    /\ runs = [r \in Requests |-> [v \in Revisions |-> 0]]
    /\ changes = 0

isDestructiveTerminal(r) == request[r].status \in DESTRUCTIVE_TERMINAL_STATUSES

-------------------------------------------------------------------------------
(* Policies.                                                               *)

strongestOf(a, b) ==
    [allowed |-> a.allowed /\ b.allowed,
     risk |-> IF a.risk >= b.risk THEN a.risk ELSE b.risk,
     requiresMfa |-> a.requiresMfa \/ b.requiresMfa,
     requiresReauthentication |-> a.requiresReauthentication \/ b.requiresReauthentication,
     requiresTwoPersonApproval |-> a.requiresTwoPersonApproval \/ b.requiresTwoPersonApproval]

policyIsStricter(approved, current) ==
    \/ approved.allowed /\ ~current.allowed
    \/ current.risk > approved.risk
    \/ ~approved.requiresMfa /\ current.requiresMfa
    \/ ~approved.requiresReauthentication /\ current.requiresReauthentication
    \/ ~approved.requiresTwoPersonApproval /\ current.requiresTwoPersonApproval

\* A high (3) or critical (4) risk to a grave target asks for a way back.
NeedsRecovery(t, decision) == t \in Grave /\ decision.risk >= 3

-------------------------------------------------------------------------------
(* The approvals of a request.                                             *)

\* approvals.request with the binding metadata of the request's revision.
Requested(r, v, t, o, decision) ==
    [request |-> r, revision |-> v, target |-> t, requesterId |-> o,
     policyFingerprint |-> decision, status |-> "requested", decidedBy |-> None]

\* Faulty variant: a second approval of what was approved is let through.
MayStillDecide(id) == approvals[id].status # "rejected"

\* ApprovalSystem.mustBePending.
Pending(id) == approvals[id].status = "requested"

\* ApprovalSystem.decide.
Decided(store, id, outcome, o) == [store EXCEPT ![id].status = outcome, ![id].decidedBy = o]

\* currentApproverIds.
currentApproverIds(r) ==
    {approvals[id].decidedBy : id \in {request[r].approvalId, request[r].secondaryApprovalId} \ {0}}
      \ {None}

-------------------------------------------------------------------------------
(* request, revise, decide, cancel.                                        *)

Request(r, o, t, recovery) ==
    /\ request[r] = None
    /\ <<o, ProjectOf[t]>> \in Requesters
    /\ policy[t].allowed
    /\ NeedsRecovery(t, policy[t]) => recovery
    /\ approvals' = Append(approvals, Requested(r, 1, t, o, policy[t]))
    /\ request' = [request EXCEPT ![r] =
                     [status |-> "awaiting_approval", revision |-> 1, target |-> t,
                      requestedBy |-> o, policyDecision |-> policy[t], recovery |-> recovery,
                      approvalId |-> Len(approvals'), secondaryApprovalId |-> 0]]
    /\ UNCHANGED <<policy, approvers, granted, call, since, runs, changes>>

\* revise and cancel are open to the requester and to every operator with
\* approve_destructive_action, whatever the project.
MayChange(o, r) == o = request[r].requestedBy \/ \E p \in Projects : <<o, p>> \in granted

\* A material change; t and recovery may be what they were, the
\* justification has other material fields.  An immaterial one changes
\* nothing that is modelled.
Revise(r, o, t, recovery) ==
    /\ request[r] # None
    /\ MayChange(o, r)
    /\ ~isDestructiveTerminal(r)
    /\ policy[t].allowed
    /\ request[r].revision < MaxRevisions
    /\ approvals' = Append(approvals, Requested(r, request[r].revision + 1, t,
                                                request[r].requestedBy, policy[t]))
    /\ request' = [request EXCEPT ![r] =
                     [status |-> "awaiting_approval", revision |-> request[r].revision + 1,
                      target |-> t, requestedBy |-> request[r].requestedBy,
                      policyDecision |-> policy[t], recovery |-> recovery,
                      approvalId |-> Len(approvals'), secondaryApprovalId |-> 0]]
    /\ UNCHANGED <<policy, approvers, granted, call, since, runs, changes>>

\* The checks decide begins with.
MayDecide(o, r) ==
    /\ request[r] # None
    /\ <<o, ProjectOf[request[r].target]>> \in granted
    /\ ~isDestructiveTerminal(r)
    /\ o # request[r].requestedBy

\* One approval is enough.
ApproveAlone(r, o) ==
    /\ MayDecide(o, r)
    /\ ~request[r].policyDecision.requiresTwoPersonApproval
    /\ Pending(request[r].approvalId)
    /\ approvals' = Decided(approvals, request[r].approvalId, "approved", o)
    /\ request' = [request EXCEPT ![r].status = "approved"]
    /\ UNCHANGED <<policy, approvers, granted, call, since, runs, changes>>

\* The first of two: the second approval is requested.
ApproveFirst(r, o) ==
    /\ MayDecide(o, r)
    /\ request[r].policyDecision.requiresTwoPersonApproval
    /\ approvals[request[r].approvalId].status = "requested"
    /\ approvals' = Append(Decided(approvals, request[r].approvalId, "approved", o),
                           Requested(r, request[r].revision, request[r].target,
                                     request[r].requestedBy, request[r].policyDecision))
    /\ request' = [request EXCEPT ![r].status = "awaiting_approval",
                                  ![r].secondaryApprovalId = Len(approvals')]
    /\ UNCHANGED <<policy, approvers, granted, call, since, runs, changes>>

\* Faulty variant: the second approver may be the first.
AnybodyIsSecond(r, o) == TRUE

\* Two-person approval requires a distinct second approver.
DistinctSecond(r, o) == approvals[request[r].approvalId].decidedBy # o

ApproveSecond(r, o) ==
    /\ MayDecide(o, r)
    /\ request[r].policyDecision.requiresTwoPersonApproval
    /\ approvals[request[r].approvalId].status # "requested"
    /\ DistinctSecond(r, o)
    /\ request[r].secondaryApprovalId # 0
    /\ Pending(request[r].secondaryApprovalId)
    /\ approvals' = Decided(approvals, request[r].secondaryApprovalId, "approved", o)
    /\ request' = [request EXCEPT ![r].status = "approved"]
    /\ UNCHANGED <<policy, approvers, granted, call, since, runs, changes>>

Reject(r, o) ==
    /\ MayDecide(o, r)
    /\ Pending(request[r].approvalId)
    /\ approvals' = Decided(approvals, request[r].approvalId, "rejected", o)
    /\ request' = [request EXCEPT ![r].status = "rejected"]
    /\ UNCHANGED <<policy, approvers, granted, call, since, runs, changes>>

\* Faulty variant: the decision is kept as the status.
StatusAsDecided(decision) == decision

\* The decisions that leave the approval records alone.
NextStatus(decision) ==
    IF decision = "request_changes" THEN "changes_requested" ELSE "rejected"

SendBack(r, o, decision) ==
    /\ MayDecide(o, r)
    /\ request' = [request EXCEPT ![r].status = NextStatus(decision)]
    /\ UNCHANGED <<approvals, policy, approvers, granted, call, since, runs, changes>>

\* The approve and reject commands of the Control Plane decide any pending
\* approval of the shared store, a destructive action's too
\* (decideApproval); the request is not told.
DecideByCommand(id, o, outcome) ==
    /\ id \in DOMAIN approvals
    /\ Pending(id)
    /\ approvals' = Decided(approvals, id, outcome, o)
    /\ UNCHANGED <<request, policy, approvers, granted, call, since, runs, changes>>

Cancel(r, o) ==
    /\ request[r] # None
    /\ MayChange(o, r)
    /\ ~isDestructiveTerminal(r)
    /\ request' = [request EXCEPT ![r].status = "cancelled"]
    /\ UNCHANGED <<approvals, policy, approvers, granted, call, since, runs, changes>>

-------------------------------------------------------------------------------
(* Execution.                                                              *)

\* The caller reads the ids of the approvers and begins to load their
\* accounts (createRequestScopedApproverResolver).
BeginExecution(c, r) ==
    /\ call[c].at = "idle"
    /\ request[r] # None
    /\ call' = [call EXCEPT ![c] = [Idle EXCEPT !.at = "resolving", !.request = r,
                                                !.wanted = currentApproverIds(r)]]
    /\ since' = [since EXCEPT ![c] = approvers]
    /\ UNCHANGED <<request, approvals, policy, approvers, granted, runs, changes>>

\* loadApproverSnapshot: one account after the other.
LoadApprover(c, o) ==
    /\ call[c].at = "resolving"
    /\ o \in call[c].wanted \ call[c].loaded
    /\ call' = [call EXCEPT ![c].loaded = @ \cup {o},
                            ![c].resolves = @ \cup {pair \in approvers : pair[1] = o}]
    /\ UNCHANGED <<request, approvals, policy, approvers, granted, since, runs, changes>>

\* validateApprovalBinding.
BoundApproval(r, id) ==
    LET approval == approvals[id] IN
    /\ approval.status = "approved"
    /\ approval.request = r
    /\ approval.revision = request[r].revision
    /\ approval.target = request[r].target
    /\ approval.requesterId = request[r].requestedBy
    /\ approval.policyFingerprint = request[r].policyDecision

\* Faulty variant: whoever decided is taken to be an approver still.
ResolvesById(c, o) == o \in call[c].loaded

\* resolver.resolve gives a principal that may approve in the project.
Resolves(c, o) == <<o, ProjectOf[request[call[c].request].target]>> \in call[c].resolves

Evidence == {"mfa", "reauth"}

Loaded(c) == call[c].at = "resolving" /\ call[c].loaded = call[c].wanted

\* What assertApproved checks, given the target and the executor the caller
\* names and the MFA and reauthentication evidence it has.
Assertable(c, o, t, evidence) ==
    LET r == call[c].request
        current == policy[request[r].target]
        effective == strongestOf(request[r].policyDecision, current)
        primary == approvals[request[r].approvalId]
        secondary == approvals[request[r].secondaryApprovalId]
    IN
    /\ request[r].status = "approved"
    /\ <<o, ProjectOf[request[r].target]>> \in Requesters
    /\ t = request[r].target
    /\ current.allowed
    /\ ~policyIsStricter(request[r].policyDecision, current)
    /\ BoundApproval(r, request[r].approvalId)
    /\ primary.decidedBy # request[r].requestedBy
    /\ Resolves(c, primary.decidedBy)
    /\ effective.requiresTwoPersonApproval =>
         /\ request[r].secondaryApprovalId # 0
         /\ BoundApproval(r, request[r].secondaryApprovalId)
         /\ secondary.decidedBy # primary.decidedBy
         /\ secondary.decidedBy # request[r].requestedBy
         /\ Resolves(c, secondary.decidedBy)
    /\ effective.requiresMfa => "mfa" \in evidence
    /\ effective.requiresReauthentication => "reauth" \in evidence
    /\ NeedsRecovery(request[r].target, effective) => request[r].recovery

AssertApproved(c, o, t, evidence) ==
    /\ Loaded(c)
    /\ Assertable(c, o, t, evidence)
    /\ request' = [request EXCEPT ![call[c].request].status = "executing"]
    /\ call' = [call EXCEPT ![c] = [Idle EXCEPT !.at = "executing", !.request = call[c].request]]
    /\ runs' = [runs EXCEPT ![call[c].request][request[call[c].request].revision] = @ + 1]
    /\ UNCHANGED <<approvals, policy, approvers, granted, since, changes>>

\* Some input is refused.
AssertRefused(c) ==
    /\ Loaded(c)
    /\ ~\A o \in Operators, t \in Targets, evidence \in SUBSET Evidence : Assertable(c, o, t, evidence)
    /\ call' = [call EXCEPT ![c] = Idle]
    /\ since' = [since EXCEPT ![c] = {}]
    /\ UNCHANGED <<request, approvals, policy, approvers, granted, runs, changes>>

\* The action came to its end and the outcome is recorded, unless the
\* request has moved on: then markExecuted and markFailed throw.
EndCall(c, r, status) ==
    /\ call' = [call EXCEPT ![c] = Idle]
    /\ since' = [since EXCEPT ![c] = {}]
    /\ request' = [request EXCEPT ![r].status = status]
    /\ UNCHANGED <<approvals, policy, approvers, granted, runs, changes>>

MarkExecuted(c) ==
    /\ call[c].at = "executing"
    /\ request[call[c].request].status = "executing"
    /\ EndCall(c, call[c].request, "executed")

\* markFailed also takes a request that is approved.
MarkFailed(c) ==
    /\ call[c].at = "executing"
    /\ request[call[c].request].status \in {"executing", "approved"}
    /\ EndCall(c, call[c].request, "failed")

\* The command route lets the error of markExecuted escape; the authorizers'
\* callers try markFailed, which is MarkFailed or throws as well.
OutcomeLost(c) ==
    /\ call[c].at = "executing"
    /\ request[call[c].request].status # "executing"
    /\ EndCall(c, call[c].request, request[call[c].request].status)

\* The server stops: the calls are gone, the records stay.
Restart ==
    /\ \E c \in Calls : call[c].at # "idle"
    /\ call' = [c \in Calls |-> Idle]
    /\ since' = [c \in Calls |-> {}]
    /\ UNCHANGED <<request, approvals, policy, approvers, granted, runs, changes>>

-------------------------------------------------------------------------------
(* Policies and accounts change.                                           *)

PolicyChanges(t, decision) ==
    /\ changes < MaxChanges
    /\ decision # policy[t]
    /\ policy' = [policy EXCEPT ![t] = decision]
    /\ changes' = changes + 1
    /\ UNCHANGED <<request, approvals, approvers, granted, call, since, runs>>

Grant(pair) ==
    /\ changes < MaxChanges
    /\ pair \notin approvers
    /\ approvers' = approvers \cup {pair}
    /\ granted' = granted \cup {pair}
    /\ since' = [c \in Calls |-> IF call[c].at = "idle" THEN since[c] ELSE since[c] \cup {pair}]
    /\ changes' = changes + 1
    /\ UNCHANGED <<request, approvals, policy, call, runs>>

Revoke(pair) ==
    /\ changes < MaxChanges
    /\ pair \in approvers
    /\ approvers' = approvers \ {pair}
    /\ changes' = changes + 1
    /\ UNCHANGED <<request, approvals, policy, granted, call, since, runs>>

RequestStep ==
    \E r \in Requests, o \in Operators :
      \/ \E t \in Targets, recovery \in BOOLEAN :
           Request(r, o, t, recovery) \/ Revise(r, o, t, recovery)
      \/ ApproveAlone(r, o) \/ ApproveFirst(r, o) \/ ApproveSecond(r, o)
      \/ Reject(r, o)
      \/ \E decision \in {"request_changes", "prefer_safer_alternative"} : SendBack(r, o, decision)
      \/ Cancel(r, o)

CallStep ==
    \E c \in Calls :
      \/ \E r \in Requests : BeginExecution(c, r)
      \/ \E o \in Operators : LoadApprover(c, o)
      \/ \E o \in Operators, t \in Targets, evidence \in SUBSET Evidence :
           AssertApproved(c, o, t, evidence)
      \/ AssertRefused(c)
      \/ MarkExecuted(c) \/ MarkFailed(c) \/ OutcomeLost(c)

Drift ==
    \/ \E t \in Targets, decision \in Decisions : PolicyChanges(t, decision)
    \/ \E pair \in Pairs : Grant(pair) \/ Revoke(pair)

Next ==
    \/ RequestStep
    \/ CallStep
    \/ \E id \in DOMAIN approvals, o \in Operators, outcome \in {"approved", "rejected"} :
         DecideByCommand(id, o, outcome)
    \/ Restart
    \/ Drift

Spec == Init /\ [][Next]_vars

-------------------------------------------------------------------------------
(* Properties.                                                             *)

\* Who approved the current revision of r, exactly as it now stands.
Backers(r) ==
    {approvals[id].decidedBy :
       id \in {i \in {request[r].approvalId, request[r].secondaryApprovalId} \cap DOMAIN approvals :
                 BoundApproval(r, i)}}

\* Enough of them for a decision, none of them the requester.
BackedFor(r, decision) ==
    /\ request[r].requestedBy \notin Backers(r)
    /\ Backers(r) # {}
    /\ decision.requiresTwoPersonApproval => \E a, b \in Backers(r) : a # b

\* A request that is approved, executing or executed has the approvals its
\* pinned policy asks for: of this very revision and target, from as many
\* distinct operators, none of them the requester; whatever revisions,
\* sent-back decisions, decisions by command and restarts came before.
ApprovedIsBacked ==
    \A r \in Requests :
      request[r] # None /\ request[r].status \in {"approved", "executing", "executed"} =>
        BackedFor(r, request[r].policyDecision)

\* An execution begins only for a call under way whose approvers were all
\* approvers of the target's project at some moment since that call began,
\* under a policy that allows the action and demands no more than was
\* approved (assertApproved against revocations and policy changes).
ExecutionIsAuthorised ==
    [][\A r \in Requests :
         request[r] # None /\ request[r].status # "executing" /\ request'[r].status = "executing" =>
           /\ \E c \in Calls : /\ call[c].request = r
                               /\ \A o \in Backers(r) : <<o, ProjectOf[request[r].target]>> \in since[c]
           /\ policy[request[r].target].allowed
           /\ BackedFor(r, policy[request[r].target])]_vars

\* An approved revision is executed at most once: no sequence of decisions,
\* failures and repeated calls makes its approvals good for a second run.
RunsOncePerRevision == \A r \in Requests, v \in Revisions : runs[r][v] <= 1
===============================================================================
