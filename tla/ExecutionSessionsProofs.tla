----------------------- MODULE ExecutionSessionsProofs ------------------------
(***************************************************************************)
(* Proofs about ExecutionSessions for any sessions, instances, calls and   *)
(* operators: the compare-and-swap store alone, whatever the instances'    *)
(* own maps say, gives every session one invocation at a time, a bounded   *)
(* number of attempts, a history that is not rewritten, and cancellations  *)
(* that win.                                                               *)
(***************************************************************************)
EXTENDS ExecutionSessions, TLAPS

(* A session that was not committed is not there, and nobody holds it.     *)
CreationCoherent ==
    /\ \A s \in Sessions : creating[s] # "answered" => status[s] = "absent"
    /\ \A s \in Sessions : status[s] = "absent" => revision[s] = 0
    /\ \A c \in Calls : callAt[c] # "unsent" => status[call[c].session] # "absent"
    /\ \A o \in Operators : op[o].at # "idle" => status[op[o].session] # "absent"

(* What was read of a session is still true as long as the revision that   *)
(* was read is the one that is stored, and no stored revision is older.    *)
ReadOK(c) ==
    /\ callAt[c] \in {"evaluating", "committing", "closing"} =>
          read[c].revision <= revision[call[c].session]
    /\ callAt[c] \in {"evaluating", "committing"}
       /\ read[c].revision = revision[call[c].session] =>
          /\ status[call[c].session] \in {"ready", "running"}
          /\ read[c].made = attempts[call[c].session]
          /\ read[c].open = {} => \A d \in Calls :
                attempt[d] = "running" => call[d].session # call[c].session
    /\ callAt[c] = "closing" /\ read[c].revision = revision[call[c].session] =>
          ~isTerminalSession(call[c].session)
    /\ callAt[c] = "committing" =>
          read[c].open = {} /\ read[c].made < MaxToolCalls[call[c].session]
    /\ callAt[c] \notin {"recording", "answered", "releasing"} => read[c].tries < 3
    /\ callAt[c] \in {"finishing", "closing"} => read[c].exit # "none"

RequestOK(o) ==
    /\ op[o].at \in {"reconciling", "cancelling", "completing"} =>
          op[o].revision <= revision[op[o].session]
    /\ op[o].at = "reconciling" /\ op[o].revision = revision[op[o].session] =>
          status[op[o].session] \in {"running", "cancelling"}
    /\ op[o].at \in {"cancelling", "completing"}
       /\ op[o].revision = revision[op[o].session] =>
          status[op[o].session] \in {"ready", "running"}

(* An attempt is open from its begin until the call or a request closes it *)
(* together with the session.                                              *)
AttemptOK(c) ==
    /\ callAt[c] \in {"unsent", "evaluating", "denying", "committing"} => attempt[c] = "none"
    /\ attempt[c] = "running" => status[call[c].session] \notin {"absent", "ready"}
    /\ callAt[c] \in {"begun", "executing", "finishing", "closing"} =>
          attempt[c] = "running" \/ isTerminalSession(call[c].session)

ReadsFollowStore == \A c \in Calls : ReadOK(c)
RequestsFollowStore == \A o \in Operators : RequestOK(o)
AttemptsFollowCalls == \A c \in Calls : AttemptOK(c)

Coherent ==
    /\ CreationCoherent
    /\ ReadsFollowStore
    /\ RequestsFollowStore
    /\ AttemptsFollowCalls

Promises ==
    /\ OneInvocationPerSession
    /\ ToolCallsWithinLimit
    /\ CancelWins
    /\ OneSessionPerKey

IInv == TypeOK /\ Coherent /\ Promises

USE SessionsAssumption

LEMMA InitEstablishes == Init => IInv
<1> SUFFICES ASSUME Init PROVE IInv
  OBVIOUS
<1>1. TypeOK
  BY DEF Init, TypeOK, Reads, NoRead, Statuses, ATTEMPT_TERMINAL, CallStates
<1>2. Coherent /\ Promises
  BY DEF Init, Coherent, CreationCoherent, ReadsFollowStore, RequestsFollowStore,
         AttemptsFollowCalls, ReadOK, RequestOK, AttemptOK, Promises, OneInvocationPerSession,
         Begun, ToolCallsWithinLimit, CancelWins, OneSessionPerKey, NoRequest, NoRead
<1>3. QED
  BY <1>1, <1>2 DEF IInv

-------------------------------------------------------------------------------
(* Typing.                                                                 *)

LEMMA ReturnTyped ==
  ASSUME TypeOK, NEW c \in Calls, callAt[c] # "unsent", NEW v \in {"none", "done"}, Return(c, v)
  PROVE  /\ read' \in [Calls -> Reads]
         /\ invocations' \in
              [Instances -> [Sessions \X Invocations -> {"none", "in_progress", "done"}]]
         /\ callAt' = [callAt EXCEPT ![c] = "answered"]
<1>1. call[c].session \in Sessions /\ call[c].instance \in Instances /\ call[c].id \in Invocations
  BY DEF TypeOK, Targets
<1>2. Key(c) \in Sessions \X Invocations
  BY <1>1 DEF Key
<1>3. NoRead \in Reads
  BY DEF NoRead, Reads
<1>4. QED
  BY <1>1, <1>2, <1>3 DEF Return, TypeOK

LEMMA StoreBeginTyped ==
  ASSUME TypeOK, NEW c \in Calls, callAt[c] # "unsent", StoreBegin(c)
  PROVE  /\ status' \in [Sessions -> Statuses \cup {"absent"}]
         /\ revision' \in [Sessions -> Nat]
         /\ attempts' \in [Sessions -> Nat]
         /\ attempt' \in [Calls -> ATTEMPT_TERMINAL \cup {"none", "running"}]
         /\ overdue' \in [Sessions -> BOOLEAN]
<1>1. call[c].session \in Sessions /\ read[c].made \in Nat
  BY DEF TypeOK, Targets, Reads
<1>2. QED
  BY <1>1 DEF StoreBegin, TypeOK, Statuses

LEMMA CreateTyped ==
  ASSUME TypeOK, NEW s \in Sessions,
         LookUpKey(s) \/ \E eligible \in BOOLEAN : CommitSession(s, eligible)
  PROVE  TypeOK'
<1> USE DEF TypeOK, storeVars, timeVars, callVars, instanceVars, evidence
<1>1. CASE LookUpKey(s)
  BY <1>1 DEF LookUpKey
<1>2. ASSUME NEW eligible \in BOOLEAN, CommitSession(s, eligible) PROVE TypeOK'
  <2>1. status' \in [Sessions -> Statuses \cup {"absent"}] /\ revision' \in [Sessions -> Nat]
    BY <1>2 DEF CommitSession, Statuses
  <2>2. QED
    BY <1>2, <2>1 DEF CommitSession
<1>3. QED
  BY <1>1, <1>2

LEMMA InvokeTyped ==
  ASSUME TypeOK, NEW c \in Calls, NEW i \in Instances, NEW s \in Sessions, NEW v \in Invocations,
         Invoke(c, i, s, v)
  PROVE  TypeOK'
<1>1. call' \in [Calls -> Targets \cup {NoCall}] /\ call'[c] \in Targets
  BY DEF Invoke, TypeOK, Targets
<1>2. <<s, v>> \in Sessions \X Invocations
  OBVIOUS
<1>3. invocations' \in [Instances -> [Sessions \X Invocations -> {"none", "in_progress", "done"}]]
  <2>1. CASE UNCHANGED invocations
    BY <2>1 DEF TypeOK
  <2>2. CASE invocations' = [invocations EXCEPT ![i][<<s, v>>] = "in_progress"]
    <3> DEFINE k == <<s, v>>
    <3>1. k \in Sessions \X Invocations
      BY <1>2
    <3>2. invocations' = [invocations EXCEPT ![i][k] = "in_progress"]
      BY <2>2
    <3> HIDE DEF k
    <3>3. QED
      BY <3>1, <3>2 DEF TypeOK
  <2>3. QED
    BY <2>1, <2>2 DEF Invoke
<1>4. read' \in [Calls -> Reads]
  <2>1. revision[s] \in Nat /\ attempts[s] \in Nat /\ OpenAttempts(s) \in SUBSET Calls
    BY DEF TypeOK, OpenAttempts
  <2>2. [revision |-> revision[s], made |-> attempts[s], open |-> OpenAttempts(s), tries |-> 0,
         aborted |-> FALSE, exit |-> "none"] \in Reads
    BY <2>1 DEF Reads
  <2>3. QED
    BY <2>2 DEF Invoke, TypeOK
<1>5. callAt' \in [Calls -> CallStates] /\ \A d \in Calls \ {c} : callAt'[d] = callAt[d]
  <2>1. PICK x \in {"evaluating", "denying", "answered"} : callAt' = [callAt EXCEPT ![c] = x]
    BY DEF Invoke
  <2>2. QED
    BY <2>1 DEF TypeOK, CallStates
<1>6. \A d \in Calls : callAt'[d] # "unsent" => call'[d] \in Targets
  BY <1>1, <1>5 DEF Invoke, TypeOK
<1>7. QED
  BY <1>1, <1>3, <1>4, <1>5, <1>6 DEF Invoke, TypeOK, storeVars, timeVars, evidence

LEMMA CallTyped ==
  ASSUME TypeOK, ReadsFollowStore, NEW c \in Calls, CallStep(c) \/ CallThrows(c)
  PROVE  TypeOK'
<1> USE DEF storeVars, timeVars, callVars, instanceVars, evidence, CallStates
<1>0. /\ callAt[c] # "unsent"
      /\ call[c].session \in Sessions /\ call[c].instance \in Instances
      /\ read[c] \in Reads
  <2>1. callAt[c] # "unsent"
    BY DEF CallStep, Evaluate, Denied, CommitBegin, Activate, Execute, ReadLatest, CommitFinish,
           ReleaseAfterCall, RecordReceipt, CallThrows
  <2>2. QED
    BY <2>1 DEF TypeOK, Targets
<1>1. ASSUME NEW eligible \in BOOLEAN, Evaluate(c, eligible) PROVE TypeOK'
  <2>1. CASE Return(c, "none")
    BY <1>0, <1>1, <2>1, ReturnTyped DEF Evaluate, TypeOK
  <2>2. CASE UNCHANGED <<read, invocations>> /\ \E x \in {"denying", "committing"} :
             callAt' = [callAt EXCEPT ![c] = x]
    <3>1. PICK x \in {"denying", "committing"} : callAt' = [callAt EXCEPT ![c] = x]
      BY <2>2
    <3>2. QED
      BY <1>0, <1>1, <2>2, <3>1 DEF Evaluate, TypeOK
  <2>3. QED
    BY <1>1, <2>1, <2>2 DEF Evaluate
<1>2. CASE Denied(c) \/ RecordReceipt(c)
  BY <1>0, <1>2, ReturnTyped DEF Denied, RecordReceipt, TypeOK
<1>3. CASE CommitBegin(c)
  <2>1. CASE CommitAllowed(call[c].session, read[c].revision)
    BY <1>0, <1>3, <2>1, StoreBeginTyped DEF CommitBegin, TypeOK
  <2>2. CASE ~CommitAllowed(call[c].session, read[c].revision)
    <3>1. Return(c, "none")
      BY <1>3, <2>2 DEF CommitBegin
    <3>2. read' \in [Calls -> Reads] /\ callAt' = [callAt EXCEPT ![c] = "answered"]
          /\ invocations' \in
               [Instances -> [Sessions \X Invocations -> {"none", "in_progress", "done"}]]
      BY <1>0, <3>1, ReturnTyped
    <3>3. QED
      BY <1>0, <1>3, <2>2, <3>2 DEF CommitBegin, TypeOK
  <2>3. QED
    BY <2>1, <2>2
<1>4. CASE Activate(c)
  BY <1>0, <1>4 DEF Activate, TypeOK
<1>5. ASSUME NEW result \in ATTEMPT_TERMINAL, Execute(c, result) PROVE TypeOK'
  <2>1. read' \in [Calls -> Reads]
    BY <1>0, <1>5 DEF Execute, TypeOK, Reads
  <2>2. active' \in [Instances -> [Sessions -> Calls \cup {NoCall}]]
    BY <1>0, <1>5 DEF Execute, TypeOK
  <2>3. QED
    BY <1>0, <1>5, <2>1, <2>2 DEF Execute, TypeOK
<1>6. CASE ReadLatest(c)
  <2>1. read' \in [Calls -> Reads]
    BY <1>0, <1>6 DEF ReadLatest, TypeOK, Reads
  <2>2. QED
    BY <1>0, <1>6, <2>1 DEF ReadLatest, TypeOK
<1>7. CASE CommitFinish(c)
  <2>1. CASE CommitAllowed(call[c].session, read[c].revision)
    <3>1. read[c].exit \in ATTEMPT_TERMINAL
      BY <1>0, <1>7 DEF CommitFinish, ReadsFollowStore, ReadOK, Reads
    <3>2. EndStatus(call[c].session, read[c].exit) \in Statuses
      BY <3>1 DEF EndStatus, Statuses, ATTEMPT_TERMINAL
    <3>3. attempt' \in [Calls -> ATTEMPT_TERMINAL \cup {"none", "running"}]
      BY <1>7, <2>1, <3>1 DEF CommitFinish, StoreFinish, TypeOK
    <3>4. status' \in [Sessions -> Statuses \cup {"absent"}]
      BY <1>0, <1>7, <2>1, <3>2 DEF CommitFinish, StoreFinish, TypeOK
    <3>6. revision' \in [Sessions -> Nat]
      <4>1. PICK m \in Nat : revision' = [revision EXCEPT ![call[c].session] = @ + 1 + m]
        BY <1>7, <2>1 DEF CommitFinish, StoreFinish
      <4>2. QED
        BY <1>0, <4>1 DEF TypeOK
    <3>5. QED
      BY <1>0, <1>7, <2>1, <3>3, <3>4, <3>6 DEF CommitFinish, TypeOK
  <2>2. CASE ~CommitAllowed(call[c].session, read[c].revision)
    <3>1. PICK x \in {"finishing", "recording"} : callAt' = [callAt EXCEPT ![c] = x]
      BY <1>7, <2>2 DEF CommitFinish
    <3>2. read' \in [Calls -> Reads]
      <4>1. read[c].tries \in 0..2
        BY <1>0, <1>7 DEF CommitFinish, ReadsFollowStore, ReadOK, Reads
      <4>2. PICK n \in 0..3 : read' = [read EXCEPT ![c].tries = n]
        BY <1>7, <2>2, <4>1 DEF CommitFinish
      <4>3. QED
        BY <1>0, <4>2 DEF TypeOK, Reads
    <3>3. QED
      BY <1>0, <1>7, <2>2, <3>1, <3>2 DEF CommitFinish, TypeOK
  <2>3. QED
    BY <2>1, <2>2
<1>8. CASE ReleaseAfterCall(c)
  BY <1>0, <1>8 DEF ReleaseAfterCall, TypeOK
<1>9. CASE CallThrows(c)
  <2>1. faults' \in 0..MaxFaults
    BY <1>9 DEF CallThrows, TypeOK
  <2>2. active' \in [Instances -> [Sessions -> Calls \cup {NoCall}]]
    BY <1>0, <1>9 DEF CallThrows, TypeOK
  <2>3. Return(c, "none")
    BY <1>9 DEF CallThrows
  <2>4. /\ read' \in [Calls -> Reads] /\ callAt' = [callAt EXCEPT ![c] = "answered"]
        /\ invocations' \in
             [Instances -> [Sessions \X Invocations -> {"none", "in_progress", "done"}]]
    BY <1>0, <2>3, ReturnTyped
  <2>5. CASE UNCHANGED <<status, attempts, attempt, revision, overdue>>
    BY <1>0, <1>9, <2>1, <2>2, <2>4, <2>5 DEF CallThrows, TypeOK
  <2>6. CASE StoreBegin(c)
    <3>1. /\ status' \in [Sessions -> Statuses \cup {"absent"}]
          /\ revision' \in [Sessions -> Nat]
          /\ attempts' \in [Sessions -> Nat]
          /\ attempt' \in [Calls -> ATTEMPT_TERMINAL \cup {"none", "running"}]
          /\ overdue' \in [Sessions -> BOOLEAN]
      BY <1>0, <2>6, StoreBeginTyped
    <3>2. QED
      BY <1>0, <1>9, <2>1, <2>2, <2>4, <3>1 DEF CallThrows, TypeOK
  <2>7. QED
    BY <1>9, <2>5, <2>6 DEF CallThrows
<1>10. QED
  BY <1>1, <1>2, <1>3, <1>4, <1>5, <1>6, <1>7, <1>8, <1>9 DEF CallStep

LEMMA RequestFields ==
  ASSUME TypeOK, NEW o \in Operators, op[o].at # "idle"
  PROVE  /\ op[o] \in Requests
         /\ op[o].session \in Sessions /\ op[o].instance \in Instances
         /\ op[o].revision \in Nat /\ op[o].tries \in 0..3
  BY DEF TypeOK, Requests, NoRequest

LEMMA AskTyped ==
  ASSUME TypeOK, NEW o \in Operators, NEW i \in Instances, NEW s \in Sessions, NEW tries \in 0..3,
         NEW where \in {"reconciling", "cancelling", "completing"},
         NEW kind \in {"view", "cancel", "kill", "complete"}, Ask(o, where, kind, i, s, tries)
  PROVE  op' \in [Operators -> Requests \cup {NoRequest}]
<1>1. [at |-> where, kind |-> kind, instance |-> i, session |-> s, revision |-> revision[s],
       budget |-> budget[s], tries |-> tries] \in Requests
  BY DEF Requests, TypeOK
<1>2. QED
  BY <1>1 DEF Ask, TypeOK

LEMMA IdleTyped ==
  ASSUME TypeOK, NEW o \in Operators, Idle(o)
  PROVE  op' \in [Operators -> Requests \cup {NoRequest}]
  BY DEF Idle, TypeOK

LEMMA MoveTyped ==
  ASSUME TypeOK, NEW o \in Operators, op[o].at # "idle", NEW where \in {"planning", "releasing"},
         op' = [op EXCEPT ![o].at = where]
  PROVE  op' \in [Operators -> Requests \cup {NoRequest}]
<1>1. [op[o] EXCEPT !.at = where] \in Requests
  BY RequestFields DEF Requests
<1>2. QED
  BY <1>1 DEF TypeOK

LEMMA AbortTyped ==
  ASSUME TypeOK, NEW i \in Instances, NEW s \in Sessions, Abort(i, s)
  PROVE  read' \in [Calls -> Reads]
<1>1. ASSUME NEW c \in Calls PROVE [read[c] EXCEPT !.aborted = TRUE] \in Reads
  <2>1. read[c] \in Reads
    BY DEF TypeOK
  <2>2. QED
    BY <2>1 DEF Reads
<1>2. QED
  BY <1>1 DEF Abort, TypeOK

LEMMA PlanTyped ==
  ASSUME TypeOK, NEW o \in Operators, NEW i \in Instances, NEW s \in Sessions, NEW tries \in 0..3,
         NEW kind \in {"view", "cancel", "kill", "complete"}, Plan(o, kind, i, s, tries)
  PROVE  op' \in [Operators -> Requests \cup {NoRequest}] /\ read' \in [Calls -> Reads]
<1>1. CASE status[s] \in {"ready", "running"}
  <2>1. Ask(o, "cancelling", kind, i, s, tries) /\ UNCHANGED read
    BY <1>1 DEF Plan
  <2>2. op' \in [Operators -> Requests \cup {NoRequest}]
    BY <2>1, AskTyped
  <2>3. QED
    BY <2>1, <2>2 DEF TypeOK
<1>2. CASE status[s] \notin {"ready", "running"}
  <2>1. read' \in [Calls -> Reads]
    BY <1>2, AbortTyped DEF Plan, TypeOK
  <2>2. QED
    BY <1>2, <2>1, IdleTyped DEF Plan
<1>3. QED
  BY <1>1, <1>2

LEMMA RequestTyped ==
  ASSUME TypeOK, NEW o \in Operators,
         \/ RequestStep(o)
         \/ \E i \in Instances, s \in Sessions :
              \/ BeginComplete(o, i, s)
              \/ \E kind \in {"view", "cancel", "kill"} : BeginReconcile(o, i, s, kind)
              \/ \E kind \in {"cancel", "kill"} : BeginCancel(o, i, s, kind)
  PROVE  TypeOK'
<1> USE DEF storeVars, timeVars, callVars, instanceVars, evidence
<1>1. ASSUME NEW i \in Instances, NEW s \in Sessions, BeginComplete(o, i, s) PROVE TypeOK'
  <2>1. Ask(o, "completing", "complete", i, s, 0)
    BY <1>1 DEF BeginComplete
  <2>2. op' \in [Operators -> Requests \cup {NoRequest}]
    BY <2>1, AskTyped
  <2>3. QED
    BY <1>1, <2>2 DEF BeginComplete, TypeOK
<1>2. ASSUME NEW i \in Instances, NEW s \in Sessions, NEW kind \in {"view", "cancel", "kill"},
             BeginReconcile(o, i, s, kind) PROVE TypeOK'
  <2>1. Ask(o, "reconciling", kind, i, s, 0)
    BY <1>2 DEF BeginReconcile
  <2>2. op' \in [Operators -> Requests \cup {NoRequest}]
    BY <2>1, AskTyped
  <2>3. QED
    BY <1>2, <2>2 DEF BeginReconcile, TypeOK
<1>3. ASSUME NEW i \in Instances, NEW s \in Sessions, NEW kind \in {"cancel", "kill"},
             BeginCancel(o, i, s, kind) PROVE TypeOK'
  <2>1. Plan(o, kind, i, s, 0)
    BY <1>3 DEF BeginCancel
  <2>2. op' \in [Operators -> Requests \cup {NoRequest}] /\ read' \in [Calls -> Reads]
    BY <2>1, PlanTyped
  <2>3. QED
    BY <1>3, <2>2 DEF BeginCancel, TypeOK
<1>4. CASE PlanAgain(o)
  <2>1. op[o] \in Requests /\ op[o].session \in Sessions
    BY <1>4, RequestFields DEF PlanAgain
  <2>2. /\ op[o].kind \in {"view", "cancel", "kill", "complete"}
        /\ op[o].instance \in Instances /\ op[o].tries \in 0..3
    BY <2>1 DEF Requests
  <2>3. op' \in [Operators -> Requests \cup {NoRequest}] /\ read' \in [Calls -> Reads]
    BY <1>4, <2>1, <2>2, PlanTyped DEF PlanAgain
  <2>4. QED
    BY <1>4, <2>3 DEF PlanAgain, TypeOK
<1>5. CASE CommitReconcile(o)
  <2>1. op[o].session \in Sessions /\ op[o].at # "idle"
    BY <1>5, RequestFields DEF CommitReconcile
  <2>2. op' \in [Operators -> Requests \cup {NoRequest}]
    BY <1>5, <2>1, IdleTyped, MoveTyped DEF CommitReconcile
  <2>3. attempt' \in [Calls -> ATTEMPT_TERMINAL \cup {"none", "running"}]
    <3>1. CASE UNCHANGED attempt
      BY <3>1 DEF TypeOK
    <3>2. CASE attempt' = [c \in Calls |->
                  IF c \notin OpenAttempts(op[o].session) THEN attempt[c]
                  ELSE IF op[o].budget THEN "timed_out" ELSE "failed"]
      BY <3>2 DEF TypeOK, ATTEMPT_TERMINAL
    <3>3. QED
      BY <1>5, <3>1, <3>2 DEF CommitReconcile
  <2>4. status' \in [Sessions -> Statuses \cup {"absent"}]
    <3>1. UNCHANGED status \/ \E x \in Statuses : status' = [status EXCEPT ![op[o].session] = x]
      BY <1>5 DEF CommitReconcile, Statuses
    <3>2. QED
      BY <2>1, <3>1 DEF TypeOK
  <2>5. revision' \in [Sessions -> Nat]
    <3>1. UNCHANGED revision
          \/ \E x \in 1..2 : revision' = [revision EXCEPT ![op[o].session] = @ + x]
      BY <1>5 DEF CommitReconcile
    <3>2. QED
      BY <2>1, <3>1 DEF TypeOK
  <2>6. QED
    BY <1>5, <2>2, <2>3, <2>4, <2>5 DEF CommitReconcile, TypeOK
<1>6. CASE CommitCancel(o)
  <2>1. op[o].session \in Sessions /\ op[o].instance \in Instances /\ op[o].at # "idle"
    BY <1>6, RequestFields DEF CommitCancel
  <2>2. op' \in [Operators -> Requests \cup {NoRequest}]
    <3>1. CASE CommitAllowed(op[o].session, op[o].revision)
      BY <1>6, <2>1, <3>1, IdleTyped, MoveTyped DEF CommitCancel
    <3>2. CASE ~CommitAllowed(op[o].session, op[o].revision)
      <4>1. CASE op[o].tries < 2
        <5>1. PICK n \in 0..3 : op' = [op EXCEPT ![o].at = "planning", ![o].tries = n]
          BY <1>6, <3>2, <4>1, <2>1, RequestFields DEF CommitCancel
        <5>2. [op[o] EXCEPT !.at = "planning", !.tries = n] \in Requests
          BY <2>1, RequestFields DEF Requests
        <5>3. QED
          BY <5>1, <5>2 DEF TypeOK
      <4>2. QED
        BY <1>6, <3>2, <4>1, IdleTyped DEF CommitCancel
    <3>3. QED
      BY <3>1, <3>2
  <2>6. status' \in [Sessions -> Statuses \cup {"absent"}]
    <3>1. UNCHANGED status \/ \E x \in Statuses : status' = [status EXCEPT ![op[o].session] = x]
      BY <1>6 DEF CommitCancel, Statuses
    <3>2. QED
      BY <2>1, <3>1 DEF TypeOK
  <2>3. revision' \in [Sessions -> Nat] /\ cancellation' \in [Sessions -> BOOLEAN]
    <3>1. UNCHANGED revision \/ revision' = [revision EXCEPT ![op[o].session] = @ + 1]
      BY <1>6 DEF CommitCancel
    <3>2. UNCHANGED cancellation \/ cancellation' = [cancellation EXCEPT ![op[o].session] = TRUE]
      BY <1>6 DEF CommitCancel
    <3>3. revision' \in [Sessions -> Nat]
      <4>1. CASE UNCHANGED revision
        BY <4>1 DEF TypeOK
      <4>2. CASE revision' = [revision EXCEPT ![op[o].session] = @ + 1]
        BY <2>1, <4>2 DEF TypeOK
      <4>3. QED
        BY <3>1, <4>1, <4>2
    <3>4. QED
      BY <2>1, <3>2, <3>3 DEF TypeOK
  <2>4. read' \in [Calls -> Reads]
    BY <1>6, <2>1, AbortTyped DEF CommitCancel, TypeOK
  <2>5. QED
    BY <1>6, <2>2, <2>3, <2>4, <2>6 DEF CommitCancel, TypeOK
<1>7. CASE CommitComplete(o)
  <2>1. op[o].session \in Sessions /\ op[o].at # "idle"
    BY <1>7, RequestFields DEF CommitComplete
  <2>2. op' \in [Operators -> Requests \cup {NoRequest}]
    BY <1>7, <2>1, IdleTyped, MoveTyped DEF CommitComplete
  <2>3. status' \in [Sessions -> Statuses \cup {"absent"}] /\ revision' \in [Sessions -> Nat]
    <3>1. UNCHANGED status \/ status' = [status EXCEPT ![op[o].session] = "succeeded"]
      BY <1>7 DEF CommitComplete
    <3>2. revision' \in [Sessions -> Nat]
      BY <1>7, <2>1 DEF CommitComplete, TypeOK
    <3>3. QED
      BY <2>1, <3>1, <3>2 DEF TypeOK, Statuses
  <2>4. QED
    BY <1>7, <2>2, <2>3 DEF CommitComplete, TypeOK
<1>8. CASE ReleaseAfterRequest(o)
  <2>1. op[o].session \in Sessions
    BY <1>8, RequestFields DEF ReleaseAfterRequest
  <2>2. QED
    BY <1>8, <2>1, IdleTyped DEF ReleaseAfterRequest, TypeOK
<1>9. QED
  BY <1>1, <1>2, <1>3, <1>4, <1>5, <1>6, <1>7, <1>8 DEF RequestStep

LEMMA WorldTyped ==
  ASSUME TypeOK,
         \/ \E s \in Sessions : BudgetEnds(s) \/ AttemptOverdue(s)
         \/ \E i \in Instances : Crash(i)
  PROVE  TypeOK'
<1> USE DEF storeVars, timeVars, callVars, instanceVars, evidence
<1>1. ASSUME NEW s \in Sessions, BudgetEnds(s) \/ AttemptOverdue(s) PROVE TypeOK'
  BY <1>1 DEF BudgetEnds, AttemptOverdue, TypeOK
<1>2. ASSUME NEW i \in Instances, Crash(i) PROVE TypeOK'
  <2>1. faults' \in 0..MaxFaults
    BY <1>2 DEF Crash, TypeOK
  <2>2. /\ callAt' \in [Calls -> CallStates]
        /\ \A c \in Calls : callAt'[c] # "unsent" => callAt[c] # "unsent"
    BY <1>2 DEF Crash, TypeOK, CallStates, RunsIn
  <2>3. read' \in [Calls -> Reads]
    BY <1>2 DEF Crash, TypeOK, NoRead, Reads
  <2>4. active' \in [Instances -> [Sessions -> Calls \cup {NoCall}]]
    BY <1>2 DEF Crash, TypeOK
  <2>5. invocations' \in [Instances -> [Sessions \X Invocations -> {"none", "in_progress", "done"}]]
    BY <1>2 DEF Crash, TypeOK
  <2>6. op' \in [Operators -> Requests \cup {NoRequest}]
    BY <1>2 DEF Crash, TypeOK
  <2>7. QED
    BY <1>2, <2>1, <2>2, <2>3, <2>4, <2>5, <2>6 DEF Crash, TypeOK
<1>3. QED
  BY <1>1, <1>2

LEMMA NextTyped ==
  ASSUME TypeOK, ReadsFollowStore, Next
  PROVE  TypeOK'
  BY CreateTyped, InvokeTyped, CallTyped, RequestTyped, WorldTyped DEF Next, Poll

-------------------------------------------------------------------------------
(* How the store may move: a document stays as it is or gets a higher      *)
(* revision, and what has ended stays.                                     *)

Kept(s) ==
    /\ status'[s] = status[s] /\ attempts'[s] = attempts[s]
    /\ \A d \in Calls : attempt'[d] = "running" /\ call'[d].session = s =>
                        attempt[d] = "running" /\ call[d].session = s

StoreFrame ==
    /\ \A s \in Sessions :
          /\ revision'[s] > revision[s] \/ (revision'[s] = revision[s] /\ Kept(s))
          /\ status[s] # "absent" => status'[s] # "absent"
          /\ status'[s] = "absent" => revision'[s] = revision[s]
          /\ status[s] \notin {"absent", "ready"} => status'[s] \notin {"absent", "ready"}
          /\ isTerminalSession(s) => /\ status'[s] = status[s]
                                     /\ revision'[s] = revision[s]
                                     /\ attempts'[s] = attempts[s]
    /\ \A c \in Calls : attempt[c] \in ATTEMPT_TERMINAL => attempt'[c] = attempt[c]

(* No attempt is opened, and no call gets past its begin.                  *)
NoBegin ==
    \A d \in Calls :
        /\ attempt'[d] = "running" => attempt[d] = "running" /\ call'[d] = call[d]
        /\ Begun(d)' => Begun(d) /\ call'[d] = call[d]

LEMMA NoBeginKeeps ==
  ASSUME OneInvocationPerSession, NoBegin
  PROVE  OneInvocationPerSession'
  BY DEF OneInvocationPerSession, NoBegin

LEMMA FrameRead ==
  ASSUME TypeOK, TypeOK', StoreFrame, NEW c \in Calls, ReadOK(c),
         callAt'[c] = callAt[c], call'[c] = call[c],
         read'[c].revision = read[c].revision, read'[c].made = read[c].made,
         read'[c].open = read[c].open, read'[c].tries = read[c].tries, read'[c].exit = read[c].exit
  PROVE  ReadOK(c)'
<1>1. CASE callAt[c] = "unsent"
  BY <1>1 DEF ReadOK
<1>2. CASE callAt[c] # "unsent"
  <2>1. call[c].session \in Sessions /\ read[c].revision \in Nat
    BY <1>2 DEF TypeOK, Targets, Reads
  <2>2. revision[call[c].session] \in Nat /\ revision'[call[c].session] \in Nat
    BY <2>1 DEF TypeOK
  <2>3. \/ revision'[call[c].session] > revision[call[c].session]
        \/ revision'[call[c].session] = revision[call[c].session] /\ Kept(call[c].session)
    BY <2>1 DEF StoreFrame
  <2>4. CASE revision'[call[c].session] > revision[call[c].session]
    BY <2>1, <2>2, <2>4 DEF ReadOK
  <2>5. CASE revision'[call[c].session] = revision[call[c].session] /\ Kept(call[c].session)
    BY <2>1, <2>2, <2>5 DEF ReadOK, Kept, isTerminalSession
  <2>6. QED
    BY <2>3, <2>4, <2>5
<1>3. QED
  BY <1>1, <1>2

LEMMA FrameRequest ==
  ASSUME TypeOK, TypeOK', StoreFrame, NEW o \in Operators, RequestOK(o), op'[o] = op[o]
  PROVE  RequestOK(o)'
<1>1. CASE op[o].at = "idle"
  BY <1>1 DEF RequestOK
<1>2. CASE op[o].at # "idle"
  <2>1. op[o].session \in Sessions /\ op[o].revision \in Nat
    BY <1>2, RequestFields
  <2>2. revision[op[o].session] \in Nat /\ revision'[op[o].session] \in Nat
    BY <2>1 DEF TypeOK
  <2>3. \/ revision'[op[o].session] > revision[op[o].session]
        \/ revision'[op[o].session] = revision[op[o].session] /\ Kept(op[o].session)
    BY <2>1 DEF StoreFrame
  <2>4. QED
    BY <2>1, <2>2, <2>3 DEF RequestOK, Kept
<1>3. QED
  BY <1>1, <1>2

LEMMA FrameAttempt ==
  ASSUME TypeOK, StoreFrame, NEW c \in Calls, AttemptOK(c), callAt'[c] = callAt[c],
         call'[c] = call[c], callAt[c] # "unsent",
         \/ attempt'[c] = attempt[c]
         \/ attempt[c] = "running" /\ attempt'[c] # "running" /\ isTerminalSession(call[c].session)'
  PROVE  AttemptOK(c)'
<1>1. call[c].session \in Sessions
  BY DEF TypeOK, Targets
<1>2. QED
  BY <1>1 DEF StoreFrame, AttemptOK, isTerminalSession

LEMMA CallCoherent ==
  ASSUME IInv, TypeOK', StoreFrame, NEW c \in Calls, UNCHANGED <<creating, op>>,
         \A d \in Calls \ {c} : /\ callAt'[d] = callAt[d] /\ call'[d] = call[d]
                                /\ read'[d] = read[d] /\ attempt'[d] = attempt[d],
         \A s \in Sessions : status[s] = "absent" => status'[s] = "absent",
         callAt'[c] # "unsent" => status'[call'[c].session] # "absent",
         ReadOK(c)', AttemptOK(c)'
  PROVE  Coherent'
<1>1. CreationCoherent'
  <2>1. /\ \A s \in Sessions : creating'[s] # "answered" => status'[s] = "absent"
        /\ \A s \in Sessions : status'[s] = "absent" => revision'[s] = 0
    BY DEF IInv, Coherent, CreationCoherent, StoreFrame, Kept
  <2>2. ASSUME NEW d \in Calls, callAt'[d] # "unsent" PROVE status'[call'[d].session] # "absent"
    <3>1. CASE d # c
      <4>1. call[d].session \in Sessions
        BY <2>2, <3>1 DEF IInv, TypeOK, Targets
      <4>2. QED
        BY <2>2, <3>1, <4>1 DEF IInv, Coherent, CreationCoherent, StoreFrame
    <3>2. QED
      BY <2>2, <3>1
  <2>3. ASSUME NEW o \in Operators, op'[o].at # "idle" PROVE status'[op'[o].session] # "absent"
    <3>1. op[o].session \in Sessions
      BY <2>3, RequestFields DEF IInv
    <3>2. QED
      BY <2>3, <3>1 DEF IInv, Coherent, CreationCoherent, StoreFrame
  <2>4. QED
    BY <2>1, <2>2, <2>3 DEF CreationCoherent
<1>2. ReadsFollowStore'
  <2>1. ASSUME NEW d \in Calls PROVE ReadOK(d)'
    BY FrameRead DEF IInv, Coherent, ReadsFollowStore
  <2>2. QED
    BY <2>1 DEF ReadsFollowStore
<1>3. RequestsFollowStore'
  BY FrameRequest DEF IInv, Coherent, RequestsFollowStore
<1>4. AttemptsFollowCalls'
  <2>1. ASSUME NEW d \in Calls, d # c PROVE AttemptOK(d)'
    <3>1. CASE callAt[d] = "unsent"
      BY <2>1, <3>1 DEF IInv, Coherent, AttemptsFollowCalls, AttemptOK
    <3>2. CASE callAt[d] # "unsent"
      BY <2>1, <3>2, FrameAttempt DEF IInv, Coherent, AttemptsFollowCalls
    <3>3. QED
      BY <3>1, <3>2
  <2>2. QED
    BY <2>1 DEF AttemptsFollowCalls
<1>5. QED
  BY <1>1, <1>2, <1>3, <1>4 DEF Coherent

LEMMA RequestCoherent ==
  ASSUME IInv, TypeOK', StoreFrame, NEW o \in Operators, UNCHANGED <<creating, callAt, call>>,
         \A p \in Operators \ {o} : op'[p] = op[p],
         \A s \in Sessions : status[s] = "absent" => status'[s] = "absent",
         \A d \in Calls :
            /\ read'[d].revision = read[d].revision /\ read'[d].made = read[d].made
            /\ read'[d].open = read[d].open /\ read'[d].tries = read[d].tries
            /\ read'[d].exit = read[d].exit
            /\ \/ attempt'[d] = attempt[d]
               \/ /\ attempt[d] = "running" /\ attempt'[d] # "running"
                  /\ isTerminalSession(call[d].session)',
         op'[o].at # "idle" => status'[op'[o].session] # "absent",
         RequestOK(o)'
  PROVE  Coherent'
<1>1. CreationCoherent'
  <2>1. /\ \A s \in Sessions : creating'[s] # "answered" => status'[s] = "absent"
        /\ \A s \in Sessions : status'[s] = "absent" => revision'[s] = 0
    BY DEF IInv, Coherent, CreationCoherent, StoreFrame, Kept
  <2>2. ASSUME NEW d \in Calls, callAt'[d] # "unsent" PROVE status'[call'[d].session] # "absent"
    <3>1. call[d].session \in Sessions
      BY <2>2 DEF IInv, TypeOK, Targets
    <3>2. QED
      BY <2>2, <3>1 DEF IInv, Coherent, CreationCoherent, StoreFrame
  <2>3. ASSUME NEW p \in Operators, op'[p].at # "idle" PROVE status'[op'[p].session] # "absent"
    <3>1. CASE p # o
      <4>1. op[p].session \in Sessions
        BY <2>3, <3>1, RequestFields DEF IInv
      <4>2. QED
        BY <2>3, <3>1, <4>1 DEF IInv, Coherent, CreationCoherent, StoreFrame
    <3>2. QED
      BY <2>3, <3>1
  <2>4. QED
    BY <2>1, <2>2, <2>3 DEF CreationCoherent
<1>2. ReadsFollowStore'
  <2>1. ASSUME NEW d \in Calls PROVE ReadOK(d)'
    <3>1. ReadOK(d)
      BY DEF IInv, Coherent, ReadsFollowStore
    <3>2. QED
      BY <3>1, FrameRead DEF IInv
  <2>2. QED
    BY <2>1 DEF ReadsFollowStore
<1>3. RequestsFollowStore'
  BY FrameRequest DEF IInv, Coherent, RequestsFollowStore
<1>4. AttemptsFollowCalls'
  <2>1. ASSUME NEW d \in Calls PROVE AttemptOK(d)'
    <3>0. AttemptOK(d)
      BY DEF IInv, Coherent, AttemptsFollowCalls
    <3>1. CASE callAt[d] = "unsent"
      BY <3>0, <3>1 DEF AttemptOK
    <3>2. CASE callAt[d] # "unsent"
      BY <3>0, <3>2, FrameAttempt DEF IInv
    <3>3. QED
      BY <3>1, <3>2
  <2>2. QED
    BY <2>1 DEF AttemptsFollowCalls
<1>5. QED
  BY <1>1, <1>2, <1>3, <1>4 DEF Coherent

-------------------------------------------------------------------------------
(* Each step keeps the invariant and moves the store within its frame.     *)

LEMMA QuietStore ==
  ASSUME IInv, UNCHANGED storeVars, \A d \in Calls : attempt[d] = "running" => call'[d] = call[d]
  PROVE  StoreFrame /\ ToolCallsWithinLimit' /\ CancelWins' /\ OneSessionPerKey'
<1>1. StoreFrame
  BY DEF StoreFrame, Kept, storeVars
<1>2. ToolCallsWithinLimit' /\ CancelWins' /\ OneSessionPerKey'
  BY DEF IInv, Promises, ToolCallsWithinLimit, CancelWins, OneSessionPerKey, storeVars
<1>3. QED
  BY <1>1, <1>2

LEMMA BeginStores ==
  ASSUME IInv, NEW c \in Calls, callAt[c] = "committing", StoreBegin(c),
         CommitAllowed(call[c].session, read[c].revision),
         UNCHANGED <<call, cancellation>>,
         \A d \in Calls : Begun(d)' => Begun(d) \/ d = c
  PROVE  /\ StoreFrame /\ Promises'
         /\ \A s \in Sessions : status[s] = "absent" => status'[s] = "absent"
         /\ status'[call[c].session] = "running"
<1> DEFINE s == call[c].session
<1>1. /\ s \in Sessions /\ revision[s] \in Nat /\ attempts[s] \in Nat /\ read[c].made \in Nat
      /\ MaxToolCalls[s] \in Nat
  BY DEF IInv, TypeOK, Targets, Reads
<1>2. /\ status[s] \in {"ready", "running"} /\ read[c].made = attempts[s]
      /\ read[c].made < MaxToolCalls[s]
      /\ \A d \in Calls : attempt[d] = "running" => call[d].session # s
      /\ attempt[c] = "none"
  BY DEF IInv, Coherent, ReadsFollowStore, ReadOK, AttemptsFollowCalls, AttemptOK, CommitAllowed
<1>3. /\ status' = [status EXCEPT ![s] = "running"]
      /\ attempts' = [attempts EXCEPT ![s] = read[c].made + 1]
      /\ attempt' = [attempt EXCEPT ![c] = "running"]
      /\ \E n \in 1..2 : revision' = [revision EXCEPT ![s] = @ + n]
  <2>1. CASE status[s] = "ready"
    BY <2>1 DEF StoreBegin
  <2>2. CASE status[s] # "ready"
    BY <2>2 DEF StoreBegin
  <2>3. QED
    BY <2>1, <2>2
<1> HIDE DEF s
<1>4. revision'[s] > revision[s] /\ \A r \in Sessions \ {s} : revision'[r] = revision[r]
  BY <1>1, <1>3 DEF IInv, TypeOK
<1>5. \A r \in Sessions \ {s} : Kept(r)
  BY <1>1, <1>3 DEF Kept, IInv, TypeOK, s
<1>6. \A d \in Calls : attempt[d] \in ATTEMPT_TERMINAL => attempt'[d] = attempt[d]
  BY <1>2, <1>3 DEF IInv, TypeOK, ATTEMPT_TERMINAL
<1>7. StoreFrame
  BY <1>1, <1>2, <1>3, <1>4, <1>5, <1>6
     DEF StoreFrame, isTerminalSession, TERMINAL_SESSION_STATUSES, IInv, TypeOK
<1>8. ToolCallsWithinLimit' /\ CancelWins' /\ OneSessionPerKey'
  BY <1>1, <1>2, <1>3
     DEF IInv, TypeOK, Promises, ToolCallsWithinLimit, CancelWins, OneSessionPerKey
<1>9. OneInvocationPerSession'
  <2>1. ASSUME NEW d \in Calls, d # c, attempt'[d] = "running" \/ Begun(d)'
        PROVE  call[d].session # s
    <3>1. CASE attempt'[d] = "running"
      BY <1>2, <1>3, <2>1, <3>1 DEF IInv, TypeOK
    <3>2. CASE Begun(d)'
      <4>1. attempt[d] = "running" \/ isTerminalSession(call[d].session)
        BY <2>1, <3>2 DEF Begun, IInv, Coherent, AttemptsFollowCalls, AttemptOK
      <4>2. QED
        BY <1>2, <4>1 DEF isTerminalSession, TERMINAL_SESSION_STATUSES
    <3>3. QED
      BY <2>1, <3>1, <3>2
  <2>2. \A d \in Calls \ {c} : /\ attempt'[d] = "running" => attempt[d] = "running"
                               /\ Begun(d)' => Begun(d)
    BY <1>3 DEF IInv, TypeOK
  <2>3. QED
    BY <2>1, <2>2 DEF IInv, Promises, OneInvocationPerSession, s
<1>10. QED
  BY <1>1, <1>2, <1>3, <1>7, <1>8, <1>9 DEF IInv, TypeOK, Promises, s

LEMMA FinishStores ==
  ASSUME IInv, NEW c \in Calls, callAt[c] = "closing", StoreFinish(c),
         CommitAllowed(call[c].session, read[c].revision),
         UNCHANGED <<call, cancellation, attempts>>, \A d \in Calls : Begun(d)' => Begun(d)
  PROVE  /\ StoreFrame /\ Promises'
         /\ \A s \in Sessions : status[s] = "absent" => status'[s] = "absent"
         /\ \A d \in Calls \ {c} : attempt'[d] = attempt[d]
         /\ attempt'[c] \in ATTEMPT_TERMINAL
<1> DEFINE s == call[c].session
<1>1. s \in Sessions /\ revision[s] \in Nat /\ read[c].exit \in ATTEMPT_TERMINAL
  BY DEF IInv, TypeOK, Targets, Reads, Coherent, ReadsFollowStore, ReadOK
<1>2. /\ ~isTerminalSession(s) /\ attempt[c] = "running" /\ status[s] \notin {"absent", "ready"}
      /\ status[s] \in Statuses
  BY <1>1 DEF IInv, TypeOK, Coherent, ReadsFollowStore, ReadOK, AttemptsFollowCalls, AttemptOK,
              CommitAllowed
<1>3. status[s] \in {"running", "cancelling"}
  BY <1>2 DEF Statuses, isTerminalSession, TERMINAL_SESSION_STATUSES
<1>4. PICK target \in {"running"} \cup ATTEMPT_TERMINAL :
         /\ status' = [status EXCEPT ![s] = target]
         /\ status[s] = "cancelling" => target = "cancelled"
  BY <1>1 DEF StoreFinish, EndStatus, ATTEMPT_TERMINAL
<1>5. /\ attempt' = [attempt EXCEPT ![c] = read[c].exit]
      /\ \E n \in Nat : revision' = [revision EXCEPT ![s] = @ + 1 + n]
  BY DEF StoreFinish
<1> HIDE DEF s
<1>6. revision'[s] > revision[s] /\ \A r \in Sessions \ {s} : revision'[r] = revision[r]
  BY <1>1, <1>5 DEF IInv, TypeOK
<1>7. \A d \in Calls : attempt'[d] = "running" => attempt[d] = "running"
  BY <1>1, <1>5 DEF IInv, TypeOK, ATTEMPT_TERMINAL
<1>8. \A r \in Sessions \ {s} : Kept(r)
  BY <1>1, <1>4, <1>7 DEF Kept, IInv, TypeOK
<1>9. \A d \in Calls : attempt[d] \in ATTEMPT_TERMINAL => attempt'[d] = attempt[d]
  BY <1>2, <1>5 DEF IInv, TypeOK, ATTEMPT_TERMINAL
<1>10. StoreFrame
  <2>1. target \notin {"absent", "ready"}
    BY <1>4 DEF ATTEMPT_TERMINAL
  <2>2. QED
    BY <1>1, <1>2, <1>4, <1>6, <1>8, <1>9, <2>1 DEF StoreFrame, isTerminalSession, IInv, TypeOK
<1>11. ToolCallsWithinLimit' /\ CancelWins' /\ OneSessionPerKey'
  BY <1>1, <1>2, <1>3, <1>4
     DEF IInv, TypeOK, Promises, ToolCallsWithinLimit, CancelWins, OneSessionPerKey
<1>12. OneInvocationPerSession'
  BY <1>7 DEF IInv, Promises, OneInvocationPerSession
<1>13. QED
  BY <1>1, <1>2, <1>4, <1>5, <1>10, <1>11, <1>12 DEF IInv, TypeOK, Promises, s

LEMMA CallKeeps ==
  ASSUME IInv, NEW c \in Calls, CallStep(c) \/ CallThrows(c)
  PROVE  IInv' /\ StoreFrame
<1> USE DEF storeVars, timeVars, callVars, instanceVars, evidence
<1>1. TypeOK /\ TypeOK'
  BY CallTyped DEF IInv, Coherent
<1>2. callAt[c] # "unsent" /\ call' = call /\ UNCHANGED <<creating, op, cancellation>>
  BY DEF CallStep, Evaluate, Denied, CommitBegin, Activate, Execute, ReadLatest, CommitFinish,
         ReleaseAfterCall, RecordReceipt, CallThrows
<1>3. /\ call[c].session \in Sessions /\ revision[call[c].session] \in Nat
      /\ status[call[c].session] # "absent" /\ read[c] \in Reads
      /\ ReadOK(c) /\ AttemptOK(c)
  BY <1>1, <1>2 DEF TypeOK, Targets, IInv, Coherent, CreationCoherent, ReadsFollowStore,
                    AttemptsFollowCalls
<1>4. \A d \in Calls \ {c} : callAt'[d] = callAt[d] /\ read'[d] = read[d]
  BY <1>1 DEF CallStep, Evaluate, Denied, CommitBegin, Activate, Execute, ReadLatest, CommitFinish,
              ReleaseAfterCall, RecordReceipt, CallThrows, Return, TypeOK
<1>5. ASSUME UNCHANGED storeVars, callAt'[c] # "unsent", Begun(c)' => Begun(c),
             ReadOK(c)', AttemptOK(c)'
      PROVE  IInv' /\ StoreFrame
  <2>1. StoreFrame /\ ToolCallsWithinLimit' /\ CancelWins' /\ OneSessionPerKey'
    BY <1>2, <1>5, QuietStore
  <2>2. NoBegin
    BY <1>2, <1>4, <1>5 DEF NoBegin, Begun
  <2>3. Coherent'
    BY <1>1, <1>2, <1>3, <1>4, <1>5, <2>1, CallCoherent
  <2>4. QED
    BY <1>1, <2>1, <2>2, <2>3, NoBeginKeeps DEF IInv, Promises
<1>6. ASSUME callAt'[c] = "answered", UNCHANGED storeVars PROVE ReadOK(c)' /\ AttemptOK(c)'
  <2>1. AttemptOK(c)'
    BY <1>2, <1>3, <1>6 DEF AttemptOK
  <2>2. QED
    BY <1>6, <2>1 DEF ReadOK
<1>7. ASSUME NEW eligible \in BOOLEAN, Evaluate(c, eligible) PROVE IInv' /\ StoreFrame
  <2>1. callAt'[c] \in {"denying", "committing", "answered"}
    BY <1>1, <1>7 DEF Evaluate, Return, TypeOK
  <2>2. CASE callAt'[c] = "committing"
    <3>1. WithinLimits(c) /\ MayBegin(c) /\ UNCHANGED read
      BY <1>1, <1>7, <2>2 DEF Evaluate, Return, TypeOK
    <3>2. ReadOK(c)' /\ AttemptOK(c)'
      BY <1>2, <1>3, <1>7, <2>2, <3>1
         DEF Evaluate, ReadOK, AttemptOK, WithinLimits, MayBegin, isTerminalSession
    <3>3. QED
      BY <1>5, <1>7, <2>2, <3>2 DEF Evaluate, Begun
  <2>3. CASE callAt'[c] = "denying"
    <3>1. UNCHANGED read
      BY <1>1, <1>7, <2>3 DEF Evaluate, Return, TypeOK
    <3>2. ReadOK(c)' /\ AttemptOK(c)'
      BY <1>2, <1>3, <1>7, <2>3, <3>1 DEF Evaluate, ReadOK, AttemptOK
    <3>3. QED
      BY <1>5, <1>7, <2>3, <3>2 DEF Evaluate, Begun
  <2>4. CASE callAt'[c] = "answered"
    BY <1>5, <1>6, <1>7, <2>4 DEF Evaluate, Begun
  <2>5. QED
    BY <2>1, <2>2, <2>3, <2>4
<1>8. CASE Denied(c) \/ RecordReceipt(c)
  <2>1. callAt'[c] = "answered" /\ UNCHANGED storeVars
    BY <1>1, <1>8 DEF Denied, RecordReceipt, Return, TypeOK
  <2>2. QED
    BY <1>5, <1>6, <2>1 DEF Begun
<1>9. CASE CommitBegin(c)
  <2>1. CASE CommitAllowed(call[c].session, read[c].revision)
    <3>1. StoreBegin(c) /\ callAt'[c] = "begun" /\ callAt[c] = "committing" /\ UNCHANGED read
      BY <1>1, <1>9, <2>1 DEF CommitBegin, TypeOK
    <3>2. \A d \in Calls : Begun(d)' => Begun(d) \/ d = c
      BY <1>4 DEF Begun
    <3>3. /\ StoreFrame /\ Promises' /\ status'[call[c].session] = "running"
          /\ \A s \in Sessions : status[s] = "absent" => status'[s] = "absent"
      BY <1>2, <2>1, <3>1, <3>2, BeginStores
    <3>4. /\ \A d \in Calls \ {c} : attempt'[d] = attempt[d]
          /\ attempt'[c] = "running"
      BY <1>1, <3>1 DEF StoreBegin, TypeOK
    <3>5. ReadOK(c)' /\ AttemptOK(c)'
      BY <1>2, <1>3, <3>1, <3>3, <3>4 DEF ReadOK, AttemptOK
    <3>6. Coherent'
      BY <1>1, <1>2, <1>4, <3>3, <3>4, <3>5, CallCoherent
    <3>7. QED
      BY <1>1, <3>3, <3>6 DEF IInv
  <2>2. CASE ~CommitAllowed(call[c].session, read[c].revision)
    <3>1. callAt'[c] = "answered" /\ UNCHANGED storeVars
      BY <1>1, <1>9, <2>2 DEF CommitBegin, Return, TypeOK
    <3>2. QED
      BY <1>5, <1>6, <3>1 DEF Begun
  <2>3. QED
    BY <2>1, <2>2
<1>10. CASE Activate(c)
  <2>1. callAt[c] = "begun" /\ callAt'[c] = "executing" /\ UNCHANGED <<read, storeVars>>
    BY <1>1, <1>10 DEF Activate, TypeOK
  <2>2. ReadOK(c)' /\ AttemptOK(c)'
    BY <1>2, <1>3, <2>1 DEF ReadOK, AttemptOK, isTerminalSession
  <2>3. QED
    BY <1>5, <2>1, <2>2 DEF Begun
<1>11. ASSUME NEW result \in ATTEMPT_TERMINAL, Execute(c, result) PROVE IInv' /\ StoreFrame
  <2>1. /\ callAt[c] = "executing" /\ callAt'[c] = "finishing" /\ UNCHANGED storeVars
        /\ read'[c].exit = result /\ read'[c].tries = read[c].tries
    BY <1>1, <1>3, <1>11 DEF Execute, TypeOK, Reads
  <2>2. ReadOK(c)'
    BY <1>2, <1>3, <2>1 DEF ReadOK, ATTEMPT_TERMINAL
  <2>3. AttemptOK(c)'
    BY <1>2, <1>3, <2>1 DEF AttemptOK, isTerminalSession
  <2>4. QED
    BY <1>5, <2>1, <2>2, <2>3 DEF Begun
<1>12. CASE ReadLatest(c)
  <2>1. /\ callAt[c] = "finishing" /\ UNCHANGED storeVars
        /\ callAt'[c] = IF isTerminalSession(call[c].session) THEN "recording" ELSE "closing"
        /\ read'[c].exit = read[c].exit /\ read'[c].tries = read[c].tries
        /\ read'[c].revision = revision[call[c].session]
    BY <1>1, <1>3, <1>12 DEF ReadLatest, TypeOK, Reads
  <2>2. ReadOK(c)'
    BY <1>2, <1>3, <2>1 DEF ReadOK, isTerminalSession
  <2>3. AttemptOK(c)'
    BY <1>2, <1>3, <2>1 DEF AttemptOK, isTerminalSession
  <2>4. QED
    BY <1>5, <2>1, <2>2, <2>3 DEF Begun
<1>13. CASE CommitFinish(c)
  <2>1. CASE CommitAllowed(call[c].session, read[c].revision)
    <3>1. /\ StoreFinish(c) /\ callAt'[c] \in {"recording", "releasing"} /\ callAt[c] = "closing"
          /\ UNCHANGED <<read, attempts>>
      BY <1>1, <1>13, <2>1 DEF CommitFinish, TypeOK
    <3>2. \A d \in Calls : Begun(d)' => Begun(d)
      BY <1>4, <3>1 DEF Begun
    <3>3. /\ StoreFrame /\ Promises'
          /\ \A s \in Sessions : status[s] = "absent" => status'[s] = "absent"
          /\ \A d \in Calls \ {c} : attempt'[d] = attempt[d]
          /\ attempt'[c] \in ATTEMPT_TERMINAL
      BY <1>2, <2>1, <3>1, <3>2, FinishStores
    <3>4. ReadOK(c)' /\ AttemptOK(c)'
      BY <1>2, <1>3, <3>1, <3>3 DEF ReadOK, AttemptOK, ATTEMPT_TERMINAL
    <3>5. status'[call'[c].session] # "absent"
      BY <1>2, <1>3, <3>3 DEF StoreFrame
    <3>6. Coherent'
      BY <1>1, <1>2, <1>4, <3>3, <3>4, <3>5, CallCoherent
    <3>7. QED
      BY <1>1, <3>3, <3>6 DEF IInv
  <2>2. CASE ~CommitAllowed(call[c].session, read[c].revision)
    <3>1. /\ callAt[c] = "closing" /\ UNCHANGED storeVars
          /\ callAt'[c] = IF read[c].tries + 1 < 3 THEN "finishing" ELSE "recording"
          /\ read'[c].exit = read[c].exit /\ read'[c].tries = read[c].tries + 1
      BY <1>1, <1>3, <1>13, <2>2 DEF CommitFinish, TypeOK, Reads
    <3>2. ReadOK(c)' /\ AttemptOK(c)'
      BY <1>2, <1>3, <3>1 DEF ReadOK, AttemptOK, isTerminalSession
    <3>3. QED
      BY <1>5, <3>1, <3>2 DEF Begun
  <2>3. QED
    BY <2>1, <2>2
<1>14. CASE ReleaseAfterCall(c)
  <2>1. callAt'[c] = "recording" /\ UNCHANGED storeVars /\ callAt[c] = "releasing"
    BY <1>1, <1>14 DEF ReleaseAfterCall, TypeOK
  <2>2. ReadOK(c)' /\ AttemptOK(c)'
    BY <1>2, <1>3, <2>1 DEF ReadOK, AttemptOK
  <2>3. QED
    BY <1>5, <2>1, <2>2 DEF Begun
<1>15. CASE CallThrows(c)
  <2>1. callAt'[c] = "answered"
    BY <1>1, <1>15 DEF CallThrows, Return, TypeOK
  <2>2. CASE UNCHANGED storeVars
    BY <1>5, <1>6, <2>1, <2>2 DEF Begun
  <2>3. CASE /\ callAt[c] = "committing" /\ StoreBegin(c)
             /\ CommitAllowed(call[c].session, read[c].revision)
    <3>1. \A d \in Calls : Begun(d)' => Begun(d) \/ d = c
      BY <1>4 DEF Begun
    <3>2. /\ StoreFrame /\ Promises' /\ status'[call[c].session] = "running"
          /\ \A s \in Sessions : status[s] = "absent" => status'[s] = "absent"
      BY <1>2, <2>3, <3>1, BeginStores
    <3>3. /\ \A d \in Calls \ {c} : attempt'[d] = attempt[d]
          /\ attempt'[c] = "running"
      BY <1>1, <2>3 DEF StoreBegin, TypeOK
    <3>4. ReadOK(c)' /\ AttemptOK(c)'
      BY <1>2, <2>1, <3>2, <3>3 DEF ReadOK, AttemptOK
    <3>5. Coherent'
      BY <1>1, <1>2, <1>4, <3>2, <3>3, <3>4, CallCoherent
    <3>6. QED
      BY <1>1, <3>2, <3>5 DEF IInv
  <2>4. QED
    BY <1>15, <2>2, <2>3 DEF CallThrows
<1>16. QED
  BY <1>7, <1>8, <1>9, <1>10, <1>11, <1>12, <1>13, <1>14, <1>15 DEF CallStep

LEMMA InvokeKeeps ==
  ASSUME IInv, NEW c \in Calls, NEW i \in Instances, NEW s \in Sessions, NEW v \in Invocations,
         Invoke(c, i, s, v)
  PROVE  IInv' /\ StoreFrame
<1> USE DEF storeVars, timeVars, callVars, instanceVars, evidence
<1>1. TypeOK /\ TypeOK'
  BY InvokeTyped DEF IInv
<1>2. /\ callAt[c] = "unsent" /\ attempt[c] = "none" /\ call'[c].session = s
      /\ UNCHANGED <<creating, storeVars, op>> /\ status[s] # "absent"
  BY <1>1 DEF Invoke, TypeOK, IInv, Coherent, AttemptsFollowCalls, AttemptOK
<1>3. \A d \in Calls \ {c} : callAt'[d] = callAt[d] /\ call'[d] = call[d] /\ read'[d] = read[d]
  BY <1>1 DEF Invoke, TypeOK
<1>4. callAt'[c] \in {"evaluating", "denying", "answered"}
  BY <1>1 DEF Invoke, TypeOK
<1>5. StoreFrame /\ ToolCallsWithinLimit' /\ CancelWins' /\ OneSessionPerKey'
  BY <1>2, <1>3, QuietStore
<1>6. NoBegin
  BY <1>2, <1>3, <1>4 DEF NoBegin, Begun
<1>7. ReadOK(c)'
  <2>1. CASE callAt'[c] = "evaluating"
    <3>1. /\ status[s] \in {"ready", "running"}
          /\ read'[c].revision = revision[s] /\ read'[c].made = attempts[s]
          /\ read'[c].open = OpenAttempts(s) /\ read'[c].tries = 0
      BY <1>1, <2>1 DEF Invoke, TypeOK
    <3>2. \A d \in Calls : attempt'[d] = "running" => d # c /\ call'[d] = call[d]
      BY <1>2, <1>3
    <3>3. revision[s] \in Nat
      BY <1>1 DEF TypeOK
    <3>4. OpenAttempts(s) = {} =>
            \A d \in Calls : attempt'[d] = "running" => call'[d].session # s
      BY <1>2, <3>2 DEF OpenAttempts
    <3>5. QED
      BY <1>2, <2>1, <3>1, <3>3, <3>4 DEF ReadOK
  <2>2. CASE callAt'[c] = "denying"
    <3>1. read'[c].tries = 0
      BY <1>1, <2>2 DEF Invoke, TypeOK
    <3>2. QED
      BY <2>2, <3>1 DEF ReadOK
  <2>3. CASE callAt'[c] = "answered"
    BY <2>3 DEF ReadOK
  <2>4. QED
    BY <1>4, <2>1, <2>2, <2>3
<1>8. AttemptOK(c)'
  BY <1>2, <1>4 DEF AttemptOK
<1>9. Coherent'
  BY <1>1, <1>2, <1>3, <1>5, <1>7, <1>8, CallCoherent
<1>10. QED
  BY <1>1, <1>5, <1>6, <1>9, NoBeginKeeps DEF IInv, Promises

LEMMA CreateKeeps ==
  ASSUME IInv, NEW s \in Sessions,
         LookUpKey(s) \/ \E eligible \in BOOLEAN : CommitSession(s, eligible)
  PROVE  IInv' /\ StoreFrame
<1> USE DEF storeVars, timeVars, callVars, instanceVars, evidence
<1>1. TypeOK /\ TypeOK'
  BY CreateTyped DEF IInv
<1>2. /\ UNCHANGED <<callAt, call, read, op, attempts, attempt, cancellation>>
      /\ creating[s] # "answered" /\ status[s] = "absent"
      /\ \A r \in Sessions \ {s} :
            creating'[r] = creating[r] /\ status'[r] = status[r] /\ revision'[r] = revision[r]
  BY <1>1 DEF LookUpKey, CommitSession, IInv, Coherent, CreationCoherent, TypeOK
<1>3. /\ revision'[s] = revision[s] /\ status'[s] = "absent"
      \/ /\ creating'[s] = "answered" /\ ~KeyTaken(s) /\ revision'[s] = 3
         /\ status'[s] \in {"ready", "denied"}
  BY <1>1, <1>2 DEF LookUpKey, CommitSession, TypeOK
<1>4. \A c \in Calls : callAt[c] # "unsent" => call[c].session \in Sessions \ {s}
  BY <1>1, <1>2 DEF IInv, Coherent, CreationCoherent, TypeOK, Targets
<1>5. \A o \in Operators : op[o].at # "idle" => op[o].session \in Sessions \ {s}
  BY <1>1, <1>2, RequestFields DEF IInv, Coherent, CreationCoherent
<1>6. \A c \in Calls : attempt[c] = "running" => call[c].session # s
  BY <1>2 DEF IInv, Coherent, AttemptsFollowCalls, AttemptOK
<1>7. CreationCoherent'
  BY <1>2, <1>3, <1>4, <1>5 DEF IInv, Coherent, CreationCoherent
<1>8. ReadsFollowStore'
  <2>1. ASSUME NEW c \in Calls PROVE ReadOK(c)'
    BY <1>2, <1>4 DEF ReadOK, IInv, Coherent, ReadsFollowStore, isTerminalSession
  <2>2. QED
    BY <2>1 DEF ReadsFollowStore
<1>9. RequestsFollowStore'
  <2>1. ASSUME NEW o \in Operators PROVE RequestOK(o)'
    BY <1>2, <1>5 DEF RequestOK, IInv, Coherent, RequestsFollowStore
  <2>2. QED
    BY <2>1 DEF RequestsFollowStore
<1>10. AttemptsFollowCalls'
  <2>1. ASSUME NEW c \in Calls PROVE AttemptOK(c)'
    BY <1>1, <1>2, <1>4 DEF AttemptOK, IInv, Coherent, AttemptsFollowCalls, isTerminalSession
  <2>2. QED
    BY <2>1 DEF AttemptsFollowCalls
<1>11. Promises'
  <2>1. OneInvocationPerSession'
    BY <1>2 DEF IInv, Promises, OneInvocationPerSession, Begun
  <2>2. ToolCallsWithinLimit'
    BY <1>2 DEF IInv, Promises, ToolCallsWithinLimit
  <2>3. CancelWins'
    BY <1>2 DEF IInv, Promises, CancelWins
  <2>4. OneSessionPerKey'
    BY <1>2, <1>3 DEF IInv, Promises, OneSessionPerKey, KeyTaken
  <2>5. QED
    BY <2>1, <2>2, <2>3, <2>4 DEF Promises
<1>12. StoreFrame
  <2>1. \A r \in Sessions \ {s} : Kept(r)
    BY <1>2 DEF Kept
  <2>2. revision'[s] > revision[s] \/ (revision'[s] = revision[s] /\ Kept(s))
    <3>1. CASE revision'[s] = revision[s] /\ status'[s] = "absent"
      BY <1>2, <3>1 DEF Kept
    <3>2. CASE revision'[s] = 3
      BY <1>2, <3>2 DEF IInv, Coherent, CreationCoherent
    <3>3. QED
      BY <1>3, <3>1, <3>2
  <2>3. QED
    BY <1>2, <1>3, <2>1, <2>2 DEF StoreFrame, isTerminalSession, TERMINAL_SESSION_STATUSES
<1>13. QED
  BY <1>1, <1>7, <1>8, <1>9, <1>10, <1>11, <1>12 DEF IInv, Coherent

LEMMA RequestQuiet ==
  ASSUME IInv, TypeOK', NEW o \in Operators, UNCHANGED <<creating, storeVars, callAt, call>>,
         \A p \in Operators \ {o} : op'[p] = op[p],
         \A d \in Calls : read'[d] = read[d] \/ read'[d] = [read[d] EXCEPT !.aborted = TRUE],
         op'[o].at # "idle" => status[op'[o].session] # "absent", RequestOK(o)'
  PROVE  IInv' /\ StoreFrame
<1>1. StoreFrame /\ ToolCallsWithinLimit' /\ CancelWins' /\ OneSessionPerKey'
  BY QuietStore
<1>2. OneInvocationPerSession'
  BY NoBeginKeeps DEF NoBegin, Begun, storeVars, IInv, Promises
<1>3. ASSUME NEW d \in Calls
      PROVE  /\ read'[d].revision = read[d].revision /\ read'[d].made = read[d].made
             /\ read'[d].open = read[d].open /\ read'[d].tries = read[d].tries
             /\ read'[d].exit = read[d].exit /\ attempt'[d] = attempt[d]
  <2>1. read[d] \in Reads
    BY DEF IInv, TypeOK
  <2>2. QED
    BY <2>1 DEF Reads, storeVars
<1>4. Coherent'
  BY <1>1, <1>3, RequestCoherent DEF storeVars
<1>5. QED
  BY <1>1, <1>2, <1>4 DEF IInv, Promises

LEMMA PlanKeeps ==
  ASSUME IInv, TypeOK', NEW o \in Operators, NEW i \in Instances, NEW s \in Sessions,
         NEW tries, NEW kind, Plan(o, kind, i, s, tries), status[s] # "absent",
         UNCHANGED <<creating, storeVars, callAt, call>>
  PROVE  IInv' /\ StoreFrame
<1>1. \A p \in Operators \ {o} : op'[p] = op[p]
  BY DEF Plan, Ask, Idle, IInv, TypeOK
<1>2. \A d \in Calls : read'[d] = read[d] \/ read'[d] = [read[d] EXCEPT !.aborted = TRUE]
  BY DEF Plan, Abort
<1>3. CASE status[s] \in {"ready", "running"}
  <2>1. op'[o].at = "cancelling" /\ op'[o].session = s /\ op'[o].revision = revision[s]
    BY <1>3 DEF Plan, Ask, IInv, TypeOK
  <2>2. revision[s] \in Nat
    BY DEF IInv, TypeOK
  <2>3. RequestOK(o)'
    BY <1>3, <2>1, <2>2 DEF RequestOK, storeVars
  <2>4. QED
    BY <1>1, <1>2, <2>1, <2>3, RequestQuiet
<1>4. CASE status[s] \notin {"ready", "running"}
  <2>1. op'[o].at = "idle"
    BY <1>4 DEF Plan, Idle, IInv, TypeOK, NoRequest
  <2>2. RequestOK(o)'
    BY <2>1 DEF RequestOK
  <2>3. QED
    BY <1>1, <1>2, <2>1, <2>2, RequestQuiet
<1>5. QED
  BY <1>3, <1>4

LEMMA RequestKeeps ==
  ASSUME IInv, NEW o \in Operators,
         \/ RequestStep(o)
         \/ \E i \in Instances, s \in Sessions :
              \/ BeginComplete(o, i, s)
              \/ \E kind \in {"view", "cancel", "kill"} : BeginReconcile(o, i, s, kind)
              \/ \E kind \in {"cancel", "kill"} : BeginCancel(o, i, s, kind)
  PROVE  IInv' /\ StoreFrame
<1> USE DEF storeVars, timeVars, callVars, instanceVars, evidence
<1>1. TypeOK /\ TypeOK' /\ RequestOK(o)
  BY RequestTyped DEF IInv, Coherent, RequestsFollowStore
<1>2. ASSUME NEW i \in Instances, NEW s \in Sessions, BeginComplete(o, i, s)
      PROVE  IInv' /\ StoreFrame
  <2>1. /\ op'[o].at = "completing" /\ op'[o].session = s /\ op'[o].revision = revision[s]
        /\ status[s] \in {"ready", "running"} /\ revision[s] \in Nat
        /\ \A p \in Operators \ {o} : op'[p] = op[p]
    BY <1>1, <1>2 DEF BeginComplete, Ask, TypeOK
  <2>2. RequestOK(o)'
    BY <1>2, <2>1 DEF RequestOK, BeginComplete
  <2>3. QED
    BY <1>1, <1>2, <2>1, <2>2, RequestQuiet DEF BeginComplete
<1>3. ASSUME NEW i \in Instances, NEW s \in Sessions, NEW kind \in {"view", "cancel", "kill"},
             BeginReconcile(o, i, s, kind)
      PROVE  IInv' /\ StoreFrame
  <2>1. /\ op'[o].at = "reconciling" /\ op'[o].session = s /\ op'[o].revision = revision[s]
        /\ status[s] \in {"running", "cancelling"} /\ revision[s] \in Nat
        /\ \A p \in Operators \ {o} : op'[p] = op[p]
    BY <1>1, <1>3 DEF BeginReconcile, Orphaned, Ask, TypeOK
  <2>2. RequestOK(o)'
    BY <1>3, <2>1 DEF RequestOK, BeginReconcile
  <2>3. QED
    BY <1>1, <1>3, <2>1, <2>2, RequestQuiet DEF BeginReconcile
<1>4. ASSUME NEW i \in Instances, NEW s \in Sessions, NEW kind \in {"cancel", "kill"},
             BeginCancel(o, i, s, kind)
      PROVE  IInv' /\ StoreFrame
  BY <1>1, <1>4, PlanKeeps DEF BeginCancel
<1>5. CASE PlanAgain(o)
  <2>1. op[o].session \in Sessions /\ op[o].instance \in Instances
    BY <1>1, <1>5, RequestFields DEF PlanAgain
  <2>2. status[op[o].session] # "absent"
    BY <1>5 DEF PlanAgain, IInv, Coherent, CreationCoherent
  <2>3. QED
    BY <1>1, <1>5, <2>1, <2>2, PlanKeeps DEF PlanAgain
<1>6. CASE ReleaseAfterRequest(o)
  <2>1. op'[o].at = "idle" /\ \A p \in Operators \ {o} : op'[p] = op[p]
    BY <1>1, <1>6 DEF ReleaseAfterRequest, Idle, TypeOK, NoRequest
  <2>2. RequestOK(o)'
    BY <2>1 DEF RequestOK
  <2>3. QED
    BY <1>1, <1>6, <2>1, <2>2, RequestQuiet DEF ReleaseAfterRequest
<1>7. CASE CommitReconcile(o) \/ CommitCancel(o) \/ CommitComplete(o)
  <2>1. /\ op[o].at # "idle" /\ op[o].session \in Sessions /\ op[o].revision \in Nat
        /\ revision[op[o].session] \in Nat
    BY <1>1, <1>7, RequestFields DEF CommitReconcile, CommitCancel, CommitComplete, TypeOK
  <2>2. status[op[o].session] # "absent"
    BY <2>1 DEF IInv, Coherent, CreationCoherent
  <2>3. /\ UNCHANGED <<creating, callAt, call, attempts>>
        /\ \A p \in Operators \ {o} : op'[p] = op[p]
    BY <1>1, <1>7 DEF CommitReconcile, CommitCancel, CommitComplete, Idle, TypeOK
  <2>4. op'[o].at \in {"idle", "planning", "releasing"} /\
        (op'[o].at # "idle" => op'[o].session = op[o].session)
    BY <1>1, <1>7, <2>1, RequestFields
       DEF CommitReconcile, CommitCancel, CommitComplete, Idle, TypeOK, NoRequest, Requests
  <2>5. RequestOK(o)'
    BY <2>4 DEF RequestOK
  <2>6. ASSUME NEW d \in Calls
        PROVE  read'[d] = read[d] \/ read'[d] = [read[d] EXCEPT !.aborted = TRUE]
    BY <1>1, <1>7 DEF CommitReconcile, CommitCancel, CommitComplete, Abort, TypeOK
  <2>7. CASE ~CommitAllowed(op[o].session, op[o].revision)
    <3>1. UNCHANGED storeVars
      BY <1>7, <2>7 DEF CommitReconcile, CommitCancel, CommitComplete
    <3>2. QED
      BY <1>1, <2>2, <2>3, <2>4, <2>5, <2>6, <3>1, RequestQuiet
  <2>8. CASE CommitAllowed(op[o].session, op[o].revision)
    <3> DEFINE s == op[o].session
    <3>1. PICK target \in {"cancelling", "cancelled", "timed_out", "failed", "succeeded"} :
             /\ status' = [status EXCEPT ![s] = target]
             /\ status[s] = "cancelling" => target = "cancelled"
             /\ cancellation'[s] /\ ~cancellation[s] => target \in {"cancelling", "cancelled"}
      BY <1>1, <1>7, <2>1, <2>8 DEF CommitReconcile, CommitCancel, CommitComplete, RequestOK,
                                    CommitAllowed, TypeOK
    <3>2. PICK n \in 1..2 : revision' = [revision EXCEPT ![s] = @ + n]
      BY <1>7, <2>8 DEF CommitReconcile, CommitCancel, CommitComplete
    <3>3. /\ status[s] \in {"ready", "running", "cancelling"}
          /\ \A r \in Sessions \ {s} : cancellation'[r] = cancellation[r]
      BY <1>1, <1>7, <2>8 DEF CommitReconcile, CommitCancel, CommitComplete, RequestOK,
                              CommitAllowed, TypeOK
    <3>4. \A d \in Calls :
             \/ attempt'[d] = attempt[d]
             \/ attempt[d] = "running" /\ attempt'[d] \in {"timed_out", "failed"}
                /\ call[d].session = s /\ target # "cancelling"
      <4>1. CASE CommitReconcile(o)
        <5>1. target # "cancelling"
          BY <1>1, <2>1, <2>8, <3>1, <4>1 DEF CommitReconcile, RequestOK, CommitAllowed, TypeOK
        <5>2. QED
          BY <2>8, <4>1, <5>1 DEF CommitReconcile, OpenAttempts
      <4>2. CASE CommitCancel(o) \/ CommitComplete(o)
        BY <4>2 DEF CommitCancel, CommitComplete
      <4>3. QED
        BY <1>7, <4>1, <4>2
    <3>5. \A d \in Calls : attempt'[d] = "running" => attempt[d] = "running"
      BY <3>4
    <3> HIDE DEF s
    <3>6. revision'[s] > revision[s] /\ \A r \in Sessions \ {s} : revision'[r] = revision[r]
      BY <1>1, <2>1, <3>2 DEF TypeOK, s
    <3>7. /\ \A r \in Sessions \ {s} : status'[r] = status[r]
          /\ status'[s] = target
      BY <1>1, <2>1, <3>1 DEF TypeOK, s
    <3>8. \A r \in Sessions \ {s} : Kept(r)
      BY <2>3, <3>5, <3>7 DEF Kept
    <3>9. StoreFrame
      BY <2>1, <2>3, <3>3, <3>4, <3>6, <3>7, <3>8
         DEF StoreFrame, isTerminalSession, TERMINAL_SESSION_STATUSES, ATTEMPT_TERMINAL
    <3>10. ToolCallsWithinLimit'
      BY <2>3 DEF IInv, Promises, ToolCallsWithinLimit
    <3>11. CancelWins'
      BY <3>1, <3>3, <3>7 DEF IInv, Promises, CancelWins
    <3>12. OneSessionPerKey'
      BY <2>2, <3>7 DEF IInv, Promises, OneSessionPerKey, s
    <3>13. OneInvocationPerSession'
      BY <2>3, <3>5, NoBeginKeeps DEF NoBegin, Begun, IInv, Promises
    <3>14. ASSUME NEW d \in Calls
           PROVE  /\ read'[d].revision = read[d].revision /\ read'[d].made = read[d].made
                  /\ read'[d].open = read[d].open /\ read'[d].tries = read[d].tries
                  /\ read'[d].exit = read[d].exit
                  /\ \/ attempt'[d] = attempt[d]
                     \/ /\ attempt[d] = "running" /\ attempt'[d] # "running"
                        /\ isTerminalSession(call[d].session)'
      <4>1. read[d] \in Reads
        BY <1>1 DEF TypeOK
      <4>2. /\ read'[d].revision = read[d].revision /\ read'[d].made = read[d].made
            /\ read'[d].open = read[d].open /\ read'[d].tries = read[d].tries
            /\ read'[d].exit = read[d].exit
        BY <2>6, <4>1 DEF Reads
      <4>3. target # "cancelling" => status'[s] \in TERMINAL_SESSION_STATUSES
        BY <3>1, <3>7 DEF TERMINAL_SESSION_STATUSES
      <4>4. QED
        BY <2>3, <3>4, <4>2, <4>3 DEF isTerminalSession
    <3>15. Coherent'
      <4>1. \A r \in Sessions : status[r] = "absent" => status'[r] = "absent"
        BY <2>2, <3>7 DEF s
      <4>2. op'[o].at # "idle" => status'[op'[o].session] # "absent"
        BY <2>1, <2>2, <2>4, <3>9 DEF StoreFrame
      <4>3. QED
        BY <1>1, <2>3, <2>5, <3>9, <3>14, <4>1, <4>2, RequestCoherent
    <3>16. QED
      BY <1>1, <3>9, <3>10, <3>11, <3>12, <3>13, <3>15 DEF IInv, Promises
  <2>9. QED
    BY <2>7, <2>8
<1>8. QED
  BY <1>2, <1>3, <1>4, <1>5, <1>6, <1>7 DEF RequestStep

LEMMA WorldKeeps ==
  ASSUME IInv,
         \/ \E s \in Sessions : BudgetEnds(s) \/ AttemptOverdue(s)
         \/ \E i \in Instances : Crash(i)
  PROVE  IInv' /\ StoreFrame
<1> USE DEF storeVars, timeVars, callVars, instanceVars, evidence
<1>1. TypeOK /\ TypeOK'
  BY WorldTyped DEF IInv
<1>2. UNCHANGED <<creating, storeVars, call>>
  BY DEF BudgetEnds, AttemptOverdue, Crash
<1>3. \A c \in Calls :
         \/ callAt'[c] = callAt[c] /\ read'[c] = read[c]
         \/ callAt[c] # "unsent" /\ callAt'[c] = "answered"
  BY <1>1 DEF BudgetEnds, AttemptOverdue, Crash, RunsIn
<1>4. \A o \in Operators : op'[o] = op[o] \/ op'[o].at = "idle"
  BY DEF BudgetEnds, AttemptOverdue, Crash, NoRequest
<1>5. StoreFrame /\ ToolCallsWithinLimit' /\ CancelWins' /\ OneSessionPerKey'
  BY <1>2, QuietStore
<1>6. OneInvocationPerSession'
  BY <1>2, <1>3, NoBeginKeeps DEF NoBegin, Begun, IInv, Promises
<1>7. CreationCoherent'
  BY <1>2, <1>3, <1>4 DEF IInv, Coherent, CreationCoherent
<1>8. ASSUME NEW c \in Calls PROVE ReadOK(c)' /\ AttemptOK(c)'
  <2>1. ReadOK(c) /\ AttemptOK(c)
    BY DEF IInv, Coherent, ReadsFollowStore, AttemptsFollowCalls
  <2>2. CASE callAt'[c] = callAt[c] /\ read'[c] = read[c]
    BY <1>2, <2>1, <2>2 DEF ReadOK, AttemptOK, isTerminalSession
  <2>3. CASE callAt[c] # "unsent" /\ callAt'[c] = "answered"
    BY <1>2, <2>1, <2>3 DEF ReadOK, AttemptOK
  <2>4. QED
    BY <1>3, <2>2, <2>3
<1>9. ASSUME NEW o \in Operators PROVE RequestOK(o)'
  BY <1>2, <1>4 DEF RequestOK, IInv, Coherent, RequestsFollowStore
<1>10. QED
  BY <1>1, <1>5, <1>6, <1>7, <1>8, <1>9
     DEF IInv, Coherent, ReadsFollowStore, AttemptsFollowCalls, RequestsFollowStore, Promises

LEMMA NextKeeps ==
  ASSUME IInv, Next
  PROVE  IInv' /\ StoreFrame
  BY CreateKeeps, InvokeKeeps, CallKeeps, RequestKeeps, WorldKeeps DEF Next, Poll

LEMMA StutterKeeps ==
  ASSUME IInv, UNCHANGED vars
  PROVE  IInv'
<1> USE DEF vars, storeVars, timeVars, callVars, instanceVars, evidence
<1>1. TypeOK'
  BY DEF IInv, TypeOK
<1>2. Coherent'
  BY DEF IInv, Coherent, CreationCoherent, ReadsFollowStore, RequestsFollowStore,
         AttemptsFollowCalls, ReadOK, RequestOK, AttemptOK, isTerminalSession
<1>3. Promises'
  BY DEF IInv, Promises, OneInvocationPerSession, Begun, ToolCallsWithinLimit, CancelWins,
         OneSessionPerKey
<1>4. QED
  BY <1>1, <1>2, <1>3 DEF IInv

-------------------------------------------------------------------------------

(* The invariant the compare-and-swap discipline rests on is inductive.    *)
THEOREM Invariance == Spec => []IInv
<1>1. IInv /\ [Next]_vars => IInv'
  BY NextKeeps, StutterKeeps
<1>2. QED
  BY InitEstablishes, <1>1, PTL DEF Spec

(* Every variable keeps its type under every handler, throw and crash.     *)
THEOREM TypeCorrect == Spec => []TypeOK
  BY Invariance, PTL DEF IInv

(* However many instances invoke one session, beginAttempt on the copy     *)
(* that was read and the commit's revision check leave one invocation.     *)
THEOREM MutualExclusion == Spec => []OneInvocationPerSession
<1>1. IInv => OneInvocationPerSession
  BY DEF IInv, Promises
<1>2. QED
  BY Invariance, <1>1, PTL

(* maxToolCalls is never exceeded although performInvocation compares it   *)
(* with a copy of the session.                                             *)
THEOREM LimitHolds == Spec => []ToolCallsWithinLimit
<1>1. IInv => ToolCallsWithinLimit
  BY DEF IInv, Promises
<1>2. QED
  BY Invariance, <1>1, PTL

(* An accepted cancel or kill is not overtaken by an outcome, a            *)
(* reconciliation or a completion that was read before it.                 *)
THEOREM CancellationWins == Spec => []CancelWins
<1>1. IInv => CancelWins
  BY DEF IInv, Promises
<1>2. QED
  BY Invariance, <1>1, PTL

(* createSession makes one session per idempotency key.                    *)
THEOREM KeyIdempotent == Spec => []OneSessionPerKey
<1>1. IInv => OneSessionPerKey
  BY DEF IInv, Promises
<1>2. QED
  BY Invariance, <1>1, PTL

(* No late commit rewrites a session that ended or an attempt that closed. *)
THEOREM HistoryKept == Spec => HistoryIsFinal
<1>1. IInv /\ [Next]_vars => [EndedStays]_vars
  BY NextKeeps DEF StoreFrame, EndedStays
<1>2. QED
  BY Invariance, <1>1, PTL DEF Spec, HistoryIsFinal
===============================================================================
