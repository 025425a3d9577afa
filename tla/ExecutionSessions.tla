-------------------------- MODULE ExecutionSessions ---------------------------
(***************************************************************************)
(* Governed execution sessions: ExecutionManager                           *)
(* (core/execution/execution-manager.ts) over the session lifecycle        *)
(* (core/execution/execution-sessions.ts, contracts/execution.ts) and the  *)
(* compare-and-swap store every Function instance shares                   *)
(* (adapters/firebase/firestore-execution-state.ts).                       *)
(*                                                                         *)
(* The sessions are shared; the map of running invocations and the         *)
(* idempotency ledger belong to one instance and die with it.  An action   *)
(* ends at each await, so everything else may happen between a handler's   *)
(* read of a session and its commit.  A handler keeps the revision it      *)
(* read, and of the session only what it looks at before it commits.       *)
(***************************************************************************)
EXTENDS Naturals, FiniteSets

CONSTANTS
    Sessions,         \* sessions by id; each is what one createSession call makes
    Keys, KeyOf,      \* idempotency keys, and the one each createSession carries
    Persistent,       \* the sessions asked for with several operations
    Instances,        \* Function instances of the Control Plane
    Calls,            \* calls of invoke; a call's attempt carries its name
    Invocations,      \* invocationIds
    Operators,        \* clients that poll, cancel, kill or complete sessions
    NoCall,
    MaxToolCalls,     \* limits.maxToolCalls of each session
    MaxConcurrent,    \* min of maxConcurrentPerEnvironment and the provider's own
    MaxFaults         \* bound: crashes and calls that throw

ASSUME SessionsAssumption ==
    /\ KeyOf \in [Sessions -> Keys]
    /\ Persistent \subseteq Sessions
    /\ NoCall \notin Calls
    /\ MaxToolCalls \in [Sessions -> Nat] /\ MaxConcurrent \in Nat /\ MaxFaults \in Nat

VARIABLES
    creating,      \* where the createSession that makes the session stands
    status,        \* ExecutionSession.status, "absent" before the commit
    revision,      \* ExecutionSession.revision
    attempts,      \* ExecutionSession.attempts.length
    cancellation,  \* ExecutionSession.cancellation is set
    attempt,       \* ExecutionAttempt.status of the attempt a call opened
    budget,        \* createdAt + sessionTimeoutMs has passed
    overdue,       \* the open attempt is past operationTimeoutMs + ORPHAN_GRACE_MS
    callAt,        \* where each invocation stands
    call,          \* its session, instance and invocationId
    read,          \* its locals: what it read of the session, tries, how it went
    active,        \* ExecutionManager.active, per instance
    invocations,   \* ExecutionManager.invocations, per instance
    released,      \* sessions whose workspace was handed back
    receipts,      \* calls whose receipt is in the durable store
    op,            \* the operators' requests
    faults

storeVars == <<status, revision, attempts, cancellation, attempt>>
timeVars == <<budget, overdue>>
callVars == <<callAt, call, read>>
instanceVars == <<active, invocations>>
evidence == <<released, receipts>>
vars == <<creating, storeVars, timeVars, callVars, instanceVars, evidence, op, faults>>

Statuses == {"ready", "running", "cancelling", "cancelled", "succeeded", "failed", "timed_out",
             "denied"}
TERMINAL_SESSION_STATUSES == {"cancelled", "succeeded", "failed", "timed_out", "denied"}
ATTEMPT_TERMINAL == {"succeeded", "failed", "timed_out", "cancelled"}

isTerminalSession(s) == status[s] \in TERMINAL_SESSION_STATUSES

OpenAttempts(s) == {c \in Calls : attempt[c] = "running" /\ call[c].session = s}

CallStates == {"unsent", "evaluating", "denying", "committing", "begun", "executing", "finishing",
               "closing", "releasing", "recording", "answered"}
Targets == [session : Sessions, instance : Instances, id : Invocations]
Reads == [revision : Nat, made : Nat, open : SUBSET Calls, tries : 0..3,
          aborted : BOOLEAN, exit : ATTEMPT_TERMINAL \cup {"none"}]
Requests == [at : {"reconciling", "planning", "cancelling", "completing", "releasing"},
             kind : {"view", "cancel", "kill", "complete"}, instance : Instances,
             session : Sessions, revision : Nat, budget : BOOLEAN, tries : 0..3]

\* What a call and an operator hold before their first request.
NoRead == [revision |-> 0, made |-> 0, open |-> {}, tries |-> 0, aborted |-> FALSE,
           exit |-> "none"]
NoRequest == [at |-> "idle"]

TypeOK ==
    /\ creating \in [Sessions -> {"unsent", "evaluating", "answered"}]
    /\ status \in [Sessions -> Statuses \cup {"absent"}]
    /\ revision \in [Sessions -> Nat]
    /\ attempts \in [Sessions -> Nat]
    /\ cancellation \in [Sessions -> BOOLEAN]
    /\ attempt \in [Calls -> ATTEMPT_TERMINAL \cup {"none", "running"}]
    /\ budget \in [Sessions -> BOOLEAN]
    /\ overdue \in [Sessions -> BOOLEAN]
    /\ callAt \in [Calls -> CallStates]
    /\ call \in [Calls -> Targets \cup {NoCall}]
    /\ \A c \in Calls : callAt[c] # "unsent" => call[c] \in Targets
    /\ read \in [Calls -> Reads]
    /\ active \in [Instances -> [Sessions -> Calls \cup {NoCall}]]
    /\ invocations \in [Instances -> [Sessions \X Invocations -> {"none", "in_progress", "done"}]]
    /\ released \subseteq Sessions
    /\ receipts \subseteq Calls
    /\ op \in [Operators -> Requests \cup {NoRequest}]
    /\ faults \in 0..MaxFaults

Init ==
    /\ creating = [s \in Sessions |-> "unsent"]
    /\ status = [s \in Sessions |-> "absent"]
    /\ revision = [s \in Sessions |-> 0]
    /\ attempts = [s \in Sessions |-> 0]
    /\ cancellation = [s \in Sessions |-> FALSE]
    /\ attempt = [c \in Calls |-> "none"]
    /\ budget = [s \in Sessions |-> FALSE]
    /\ overdue = [s \in Sessions |-> FALSE]
    /\ callAt = [c \in Calls |-> "unsent"]
    /\ call = [c \in Calls |-> NoCall]
    /\ read = [c \in Calls |-> NoRead]
    /\ active = [i \in Instances |-> [s \in Sessions |-> NoCall]]
    /\ invocations = [i \in Instances |-> [k \in Sessions \X Invocations |-> "none"]]
    /\ released = {}
    /\ receipts = {}
    /\ op = [o \in Operators |-> NoRequest]
    /\ faults = 0

-------------------------------------------------------------------------------
(* createSession.                                                          *)

\* Faulty variant: the insert looks at its own document only.
NeverTaken(s) == FALSE

KeyTaken(s) == \E r \in Sessions : KeyOf[r] = KeyOf[s] /\ status[r] # "absent"

\* findByIdempotencyKey: a session under the key is replayed, or refused when
\* it was asked for differently.
LookUpKey(s) ==
    /\ creating[s] = "unsent"
    /\ creating' = [creating EXCEPT ![s] = IF KeyTaken(s) THEN "answered" ELSE "evaluating"]
    /\ UNCHANGED <<storeVars, timeVars, callVars, instanceVars, evidence, op, faults>>

\* evaluate, then commit without an expected revision: created, validating
\* and ready or denied are three revisions of which only the last is stored.
\* A conflict replays the session that won.
CommitSession(s, eligible) ==
    /\ creating[s] = "evaluating"
    /\ creating' = [creating EXCEPT ![s] = "answered"]
    /\ IF KeyTaken(s)
       THEN UNCHANGED <<status, revision>>
       ELSE /\ status' = [status EXCEPT ![s] = IF eligible THEN "ready" ELSE "denied"]
            /\ revision' = [revision EXCEPT ![s] = 3]
    /\ UNCHANGED <<attempts, cancellation, attempt, timeVars, callVars, instanceVars, evidence,
                   op, faults>>

-------------------------------------------------------------------------------
(* invoke and performInvocation.                                           *)

Key(c) == <<call[c].session, call[c].id>>

\* The call is over, with entry v in the ledger.
Return(c, v) ==
    /\ callAt' = [callAt EXCEPT ![c] = "answered"]
    /\ read' = [read EXCEPT ![c] = NoRead]
    /\ invocations' = [invocations EXCEPT ![call[c].instance][Key(c)] = v]

\* The session is read, and the ledger asked.  An id in progress is refused, one
\* that is done replayed.
Invoke(c, i, s, v) ==
    /\ callAt[c] = "unsent"
    /\ status[s] # "absent"
    /\ call' = [call EXCEPT ![c] = [session |-> s, instance |-> i, id |-> v]]
    /\ IF invocations[i][<<s, v>>] = "none"
       THEN /\ invocations' = [invocations EXCEPT ![i][<<s, v>>] = "in_progress"]
            /\ read' = [read EXCEPT ![c] =
                          [revision |-> revision[s], made |-> attempts[s],
                           open |-> OpenAttempts(s), tries |-> 0, aborted |-> FALSE,
                           exit |-> "none"]]
            /\ callAt' = [callAt EXCEPT ![c] =
                            IF status[s] \in {"ready", "running"} THEN "evaluating" ELSE "denying"]
       ELSE /\ callAt' = [callAt EXCEPT ![c] = "answered"]
            /\ UNCHANGED <<read, invocations>>
    /\ UNCHANGED <<creating, storeVars, timeVars, active, evidence, op, faults>>

\* Faulty variant: one call more than the limit.
WithinLimitsLate(c) ==
    /\ ~budget[call[c].session]
    /\ read[c].made <= MaxToolCalls[call[c].session]
    /\ active[call[c].instance][call[c].session] = NoCall
    /\ Cardinality({s \in Sessions : active[call[c].instance][s] # NoCall}) < MaxConcurrent

\* Limits and concurrency: what the session's snapshot
\* and this instance's own map of running invocations say.
WithinLimits(c) ==
    /\ ~budget[call[c].session]
    /\ read[c].made < MaxToolCalls[call[c].session]
    /\ active[call[c].instance][call[c].session] = NoCall
    /\ Cardinality({s \in Sessions : active[call[c].instance][s] # NoCall}) < MaxConcurrent

\* Faulty variant: an open attempt is no obstacle.
MayBeginUnchecked(c) == TRUE

\* beginAttempt throws when the session as it was read has an open attempt.
MayBegin(c) == read[c].open = {}

\* Every pre-flight gate again; whether they pass is up to plans, approvals,
\* policies, agents and environments.
Evaluate(c, eligible) ==
    /\ callAt[c] = "evaluating"
    /\ IF ~(eligible /\ WithinLimits(c))
       THEN callAt' = [callAt EXCEPT ![c] = "denying"] /\ UNCHANGED <<read, invocations>>
       ELSE IF MayBegin(c)
       THEN callAt' = [callAt EXCEPT ![c] = "committing"] /\ UNCHANGED <<read, invocations>>
       ELSE Return(c, "none")
    /\ UNCHANGED <<creating, storeVars, timeVars, call, active, evidence, op, faults>>

\* denied: a receipt, and the session untouched.
Denied(c) ==
    /\ callAt[c] = "denying"
    /\ Return(c, "done")
    /\ receipts' = receipts \cup {c}
    /\ UNCHANGED <<creating, storeVars, timeVars, call, active, released, op, faults>>

\* Faulty variant: the store takes whatever it is given.
AnyRevision(s, expected) == TRUE

\* FirestoreExecutionSessionStore.commit's precondition.
CommitAllowed(s, expected) == revision[s] = expected

\* The session with a new attempt of c: ready is first moved to running.
StoreBegin(c) ==
    LET s == call[c].session
    IN /\ status' = [status EXCEPT ![s] = "running"]
       /\ attempts' = [attempts EXCEPT ![s] = read[c].made + 1]
       /\ attempt' = [attempt EXCEPT ![c] = "running"]
       /\ revision' = [revision EXCEPT ![s] = @ + IF status[s] = "ready" THEN 2 ELSE 1]
       /\ overdue' = [overdue EXCEPT ![s] = FALSE]

CommitBegin(c) ==
    /\ callAt[c] = "committing"
    /\ IF CommitAllowed(call[c].session, read[c].revision)
       THEN /\ StoreBegin(c)
            /\ callAt' = [callAt EXCEPT ![c] = "begun"]
            /\ UNCHANGED <<read, invocations>>
       ELSE /\ Return(c, "none")
            /\ UNCHANGED <<status, attempts, attempt, revision, overdue>>
    /\ UNCHANGED <<creating, cancellation, budget, call, active, evidence, op, faults>>

\* The commit has answered: the controller is registered and the sandbox started.
Activate(c) ==
    /\ callAt[c] = "begun"
    /\ callAt' = [callAt EXCEPT ![c] = "executing"]
    /\ active' = [active EXCEPT ![call[c].instance][call[c].session] = c]
    /\ UNCHANGED <<creating, storeVars, timeVars, call, read, invocations, evidence, op, faults>>

\* The tool engine answers, with whatever outcome; a signalled sandbox that did
\* not succeed is classified as cancelled.  The controller is dropped.
Execute(c, result) ==
    /\ callAt[c] = "executing"
    /\ result = "cancelled" => read[c].aborted
    /\ callAt' = [callAt EXCEPT ![c] = "finishing"]
    /\ read' = [read EXCEPT ![c].exit = result]
    /\ active' = [active EXCEPT ![call[c].instance][call[c].session] = NoCall]
    /\ UNCHANGED <<creating, storeVars, timeVars, call, invocations, evidence, op, faults>>

\* The final loop reads the session again; an ended one is left alone.
ReadLatest(c) ==
    /\ callAt[c] = "finishing"
    /\ callAt' = [callAt EXCEPT ![c] =
                    IF isTerminalSession(call[c].session) THEN "recording" ELSE "closing"]
    /\ read' = [read EXCEPT ![c].revision = revision[call[c].session]]
    /\ UNCHANGED <<creating, storeVars, timeVars, call, instanceVars, evidence, op, faults>>

\* Faulty variant: the outcome decides, whatever was asked meanwhile.
EndStatusByOutcome(s, result) == result

\* Faulty variant: a word of the workflows instead of one of the sessions.
EndStatusCompleted(s, result) == "completed"

\* A cancel or kill that arrived mid-run always ends as cancelled; a persistent
\* session that still runs stays open.
EndStatus(s, result) ==
    IF status[s] = "cancelling" THEN "cancelled"
    ELSE IF s \in Persistent THEN "running" ELSE result

\* finishAttempt, then the transitions to the target: one, none when the session
\* stays open, two when a running session ends as cancelled.
StoreFinish(c) ==
    LET s == call[c].session
        target == EndStatus(s, read[c].exit)
        moves == IF target = status[s] THEN 0
                 ELSE IF target = "cancelled" /\ status[s] = "running" THEN 2 ELSE 1
    IN /\ attempt' = [attempt EXCEPT ![c] = read[c].exit]
       /\ status' = [status EXCEPT ![s] = target]
       /\ revision' = [revision EXCEPT ![s] = @ + 1 + moves]

CommitFinish(c) ==
    /\ callAt[c] = "closing"
    /\ IF CommitAllowed(call[c].session, read[c].revision)
       THEN /\ StoreFinish(c)
            /\ callAt' = [callAt EXCEPT ![c] =
                            IF EndStatus(call[c].session, read[c].exit) = "running"
                            THEN "recording" ELSE "releasing"]
            /\ UNCHANGED read
       ELSE /\ read' = [read EXCEPT ![c].tries = @ + 1]
            /\ callAt' = [callAt EXCEPT ![c] =
                            IF read[c].tries + 1 < 3 THEN "finishing" ELSE "recording"]
            /\ UNCHANGED <<status, revision, attempt>>
    /\ UNCHANGED <<creating, attempts, cancellation, timeVars, call, instanceVars,
                   evidence, op, faults>>

\* The call that ended the session hands its workspace back.
ReleaseAfterCall(c) ==
    /\ callAt[c] = "releasing"
    /\ callAt' = [callAt EXCEPT ![c] = "recording"]
    /\ released' = released \cup {call[c].session}
    /\ UNCHANGED <<creating, storeVars, timeVars, call, read, instanceVars, receipts, op, faults>>

\* persistReceipt, and the answer that is kept for a retry of the same id.
RecordReceipt(c) ==
    /\ callAt[c] = "recording"
    /\ Return(c, "done")
    /\ receipts' = receipts \cup {c}
    /\ UNCHANGED <<creating, storeVars, timeVars, call, active, released, op, faults>>

\* An await of the call throws: evaluate's 403 or 404, the store, the engine.
\* Nothing undoes the attempt; a commit may have been carried out unanswered.
CallThrows(c) ==
    /\ faults < MaxFaults
    /\ faults' = faults + 1
    /\ callAt[c] \in {"evaluating", "committing", "executing", "finishing", "closing"}
    /\ Return(c, "none")
    /\ active' = IF callAt[c] = "executing"
                 THEN [active EXCEPT ![call[c].instance][call[c].session] = NoCall] ELSE active
    /\ \/ UNCHANGED <<status, attempts, attempt, revision, overdue>>
       \/ /\ callAt[c] = "committing"
          /\ CommitAllowed(call[c].session, read[c].revision)
          /\ StoreBegin(c)
    /\ UNCHANGED <<creating, cancellation, budget, call, evidence, op>>

-------------------------------------------------------------------------------
(* Operators: getSession and listSessions, cancel and kill, completeSession.*)

Idle(o) == op' = [op EXCEPT ![o] = NoRequest]

Ask(o, where, kind, i, s, tries) ==
    op' = [op EXCEPT ![o] = [at |-> where, kind |-> kind, instance |-> i, session |-> s,
                             revision |-> revision[s], budget |-> budget[s], tries |-> tries]]

\* Faulty variant: a cancelled session waits for its own invocation to end it.
OrphanedRunning(i, s) ==
    /\ status[s] = "running"
    /\ active[i][s] = NoCall
    /\ budget[s] \/ (overdue[s] /\ OpenAttempts(s) # {})

\* reconcile's early returns: the session runs or winds down, no invocation of
\* it is live in THIS instance, and its time is up.
Orphaned(i, s) ==
    /\ status[s] \in {"running", "cancelling"}
    /\ active[i][s] = NoCall
    /\ budget[s] \/ (overdue[s] /\ OpenAttempts(s) # {})

BeginReconcile(o, i, s, kind) ==
    /\ op[o].at = "idle"
    /\ Orphaned(i, s)
    /\ Ask(o, "reconciling", kind, i, s, 0)
    /\ UNCHANGED <<creating, storeVars, timeVars, callVars, instanceVars, evidence, faults>>

\* The open attempt is closed and the session ended, or somebody else moved it:
\* then a cancel goes on with the session as it is stored now.
CommitReconcile(o) ==
    LET s == op[o].session
    IN /\ op[o].at = "reconciling"
       /\ IF CommitAllowed(s, op[o].revision)
          THEN /\ attempt' = [c \in Calls |->
                               IF c \notin OpenAttempts(s) THEN attempt[c]
                               ELSE IF op[o].budget THEN "timed_out" ELSE "failed"]
               /\ status' = [status EXCEPT ![s] =
                               IF @ = "cancelling" THEN "cancelled"
                               ELSE IF op[o].budget THEN "timed_out" ELSE "failed"]
               /\ revision' = [revision EXCEPT ![s] =
                                 @ + IF OpenAttempts(s) = {} THEN 1 ELSE 2]
               /\ op' = [op EXCEPT ![o].at = "releasing"]
          ELSE /\ IF op[o].kind = "view"
                  THEN Idle(o) ELSE op' = [op EXCEPT ![o].at = "planning"]
               /\ UNCHANGED <<attempt, status, revision>>
       /\ UNCHANGED <<creating, attempts, cancellation, timeVars, callVars, instanceVars, evidence,
                      faults>>

\* controller.abort() of the invocation that runs in instance i, if there is one.
Abort(i, s) ==
    read' = [c \in Calls |->
               IF active[i][s] = c THEN [read[c] EXCEPT !.aborted = TRUE] ELSE read[c]]

\* planCancellation on the session read by request o: nothing to plan for one
\* that ended or is winding down already, which a kill signals once more.
Plan(o, kind, i, s, tries) ==
    IF status[s] \in {"ready", "running"}
    THEN Ask(o, "cancelling", kind, i, s, tries) /\ UNCHANGED read
    ELSE /\ Idle(o)
         /\ IF kind = "kill" /\ status[s] = "cancelling" THEN Abort(i, s) ELSE UNCHANGED read

BeginCancel(o, i, s, kind) ==
    /\ op[o].at = "idle"
    /\ status[s] # "absent"
    /\ ~Orphaned(i, s)
    /\ Plan(o, kind, i, s, 0)
    /\ UNCHANGED <<creating, storeVars, timeVars, callAt, call, instanceVars, evidence, faults>>

PlanAgain(o) ==
    /\ op[o].at = "planning"
    /\ Plan(o, op[o].kind, op[o].instance, op[o].session, op[o].tries)
    /\ UNCHANGED <<creating, storeVars, timeVars, callAt, call, instanceVars, evidence, faults>>

\* A running session winds down and its invocation in this instance is
\* signalled; any other is cancelled at once.  Three conflicts are refused.
CommitCancel(o) ==
    LET s == op[o].session
    IN /\ op[o].at = "cancelling"
       /\ IF CommitAllowed(s, op[o].revision)
          THEN /\ status' = [status EXCEPT ![s] =
                               IF @ = "running" THEN "cancelling" ELSE "cancelled"]
               /\ cancellation' = [cancellation EXCEPT ![s] = TRUE]
               /\ revision' = [revision EXCEPT ![s] = @ + 1]
               /\ IF status[s] = "running"
                  THEN Idle(o) /\ Abort(op[o].instance, s)
                  ELSE op' = [op EXCEPT ![o].at = "releasing"] /\ UNCHANGED read
          ELSE /\ IF op[o].tries < 2
                  THEN op' = [op EXCEPT ![o].at = "planning", ![o].tries = @ + 1]
                  ELSE Idle(o)
               /\ UNCHANGED <<status, cancellation, revision, read>>
       /\ UNCHANGED <<creating, attempts, attempt, timeVars, callAt, call, instanceVars,
                      evidence, faults>>

\* completeSession: not while an invocation of THIS instance runs.
BeginComplete(o, i, s) ==
    /\ op[o].at = "idle"
    /\ status[s] \in {"ready", "running"}
    /\ active[i][s] = NoCall
    /\ Ask(o, "completing", "complete", i, s, 0)
    /\ UNCHANGED <<creating, storeVars, timeVars, callVars, instanceVars, evidence, faults>>

CommitComplete(o) ==
    LET s == op[o].session
    IN /\ op[o].at = "completing"
       /\ IF CommitAllowed(s, op[o].revision)
          THEN /\ status' = [status EXCEPT ![s] = "succeeded"]
               /\ revision' = [revision EXCEPT ![s] = @ + IF status[s] = "ready" THEN 2 ELSE 1]
               /\ op' = [op EXCEPT ![o].at = "releasing"]
          ELSE Idle(o) /\ UNCHANGED <<status, revision>>
       /\ UNCHANGED <<creating, attempts, cancellation, attempt, timeVars, callVars, instanceVars,
                      evidence, faults>>

ReleaseAfterRequest(o) ==
    /\ op[o].at = "releasing"
    /\ released' = released \cup {op[o].session}
    /\ Idle(o)
    /\ UNCHANGED <<creating, storeVars, timeVars, callVars, instanceVars, receipts, faults>>

-------------------------------------------------------------------------------
(* The world: time, and the instances' lives.                       *)

BudgetEnds(s) ==
    /\ status[s] \in {"ready", "running", "cancelling"}
    /\ ~budget[s]
    /\ budget' = [budget EXCEPT ![s] = TRUE]
    /\ UNCHANGED <<creating, storeVars, overdue, callVars, instanceVars, evidence, op,
                   faults>>

AttemptOverdue(s) ==
    /\ status[s] \in {"running", "cancelling"}
    /\ OpenAttempts(s) # {}
    /\ ~overdue[s]
    /\ overdue' = [overdue EXCEPT ![s] = TRUE]
    /\ UNCHANGED <<creating, storeVars, budget, callVars, instanceVars, evidence, op,
                   faults>>

RunsIn(c, i) == callAt[c] # "unsent" /\ call[c].instance = i

\* An instance goes, and with it its invocations, its ledger and its requests.
Crash(i) ==
    /\ faults < MaxFaults
    /\ faults' = faults + 1
    /\ callAt' = [c \in Calls |-> IF RunsIn(c, i) THEN "answered" ELSE callAt[c]]
    /\ read' = [c \in Calls |-> IF RunsIn(c, i) THEN NoRead ELSE read[c]]
    /\ active' = [active EXCEPT ![i] = [s \in Sessions |-> NoCall]]
    /\ invocations' = [invocations EXCEPT ![i] = [k \in Sessions \X Invocations |-> "none"]]
    /\ op' = [o \in Operators |->
                IF op[o].at # "idle" /\ op[o].instance = i THEN NoRequest ELSE op[o]]
    /\ UNCHANGED <<creating, storeVars, timeVars, call, evidence>>

-------------------------------------------------------------------------------

CallStep(c) ==
    \/ \E eligible \in BOOLEAN : Evaluate(c, eligible)
    \/ Denied(c)
    \/ CommitBegin(c)
    \/ Activate(c)
    \/ \E result \in ATTEMPT_TERMINAL : Execute(c, result)
    \/ ReadLatest(c)
    \/ CommitFinish(c)
    \/ ReleaseAfterCall(c)
    \/ RecordReceipt(c)

RequestStep(o) ==
    \/ CommitReconcile(o)
    \/ PlanAgain(o)
    \/ CommitCancel(o)
    \/ CommitComplete(o)
    \/ ReleaseAfterRequest(o)

Poll(s) == \E o \in Operators, i \in Instances : BeginReconcile(o, i, s, "view")

Next ==
    \/ \E s \in Sessions :
          \/ LookUpKey(s)
          \/ \E eligible \in BOOLEAN : CommitSession(s, eligible)
          \/ Poll(s)
          \/ BudgetEnds(s)
          \/ AttemptOverdue(s)
    \/ \E c \in Calls :
          \/ \E i \in Instances, s \in Sessions, v \in Invocations : Invoke(c, i, s, v)
          \/ CallStep(c)
          \/ CallThrows(c)
    \/ \E o \in Operators :
          \/ RequestStep(o)
          \/ \E i \in Instances, s \in Sessions :
                \/ BeginComplete(o, i, s)
                \/ \E kind \in {"cancel", "kill"} :
                      BeginReconcile(o, i, s, kind) \/ BeginCancel(o, i, s, kind)
    \/ \E i \in Instances : Crash(i)

\* Handlers that were started go on and their sandboxes return, the store
\* answers, time passes, and somebody keeps looking at the sessions.
Fairness ==
    /\ \A c \in Calls : WF_vars(CallStep(c))
    /\ \A o \in Operators : WF_vars(RequestStep(o))
    /\ \A s \in Sessions : WF_vars(BudgetEnds(s)) /\ SF_vars(Poll(s))

Spec == Init /\ [][Next]_vars /\ Fairness

-------------------------------------------------------------------------------
(* Properties.                                                             *)

Begun(c) == callAt[c] \in {"begun", "executing"}

\* Whatever the instances do at once, a session has one open attempt at most,
\* and one invocation at most is between its begin and the end of its sandbox:
\* `active` is per instance, so this rests on commit and on beginAttempt.
OneInvocationPerSession ==
    \A c, d \in Calls :
        \/ attempt[c] = "running" /\ attempt[d] = "running"
        \/ Begun(c) /\ Begun(d)
        => c = d \/ call[c].session # call[d].session

\* limits.maxToolCalls bounds a session's attempts although the check is made
\* on a copy that is stale by the time the attempt is committed.
ToolCallsWithinLimit == \A s \in Sessions : attempts[s] <= MaxToolCalls[s]

\* A cancel or kill that was accepted is never overtaken: not by the outcome of
\* the invocation it met, a reconciliation or a completion.
CancelWins == \A s \in Sessions : cancellation[s] => status[s] \in {"cancelling", "cancelled"}

\* createSession is idempotent per key, however many run at once.
OneSessionPerKey ==
    \A r, s \in Sessions :
        KeyOf[r] = KeyOf[s] /\ status[r] # "absent" /\ status[s] # "absent" => r = s

EndedStays ==
    /\ \A s \in Sessions : isTerminalSession(s) =>
          status'[s] = status[s] /\ revision'[s] = revision[s] /\ attempts'[s] = attempts[s]
    /\ \A c \in Calls : attempt[c] \in ATTEMPT_TERMINAL => attempt'[c] = attempt[c]

\* History is never rewritten: an ended session stays as it is, and so does a
\* closed attempt, however late an invocation or a request commits.
HistoryIsFinal == [][EndedStays]_vars

\* "A session must never stay RUNNING (or CANCELLING) forever because the
\* instance / runner / process that owned its invocation disappeared."
NeverStuckRunning ==
    \A s \in Sessions : status[s] \in {"running", "cancelling"} ~> isTerminalSession(s)
===============================================================================
