----------------------- MODULE DestructiveActionsProofs -----------------------
(***************************************************************************)
(* Proofs about DestructiveActions for any requests, operators, targets,   *)
(* policies and numbers of revisions, changes and calls: what is executed  *)
(* was approved as it stands, by operators who still may, and once.        *)
(***************************************************************************)
EXTENDS DestructiveActions, TLAPS

USE DestructiveAssumption, AbsentAssumption

-------------------------------------------------------------------------------
(* The inductive invariant.                                                *)

\* Approval id of the store was requested for q, the record of request r.
Names(store, id, r, q) ==
    /\ id \in 1..Len(store)
    /\ store[id].request = r
    /\ store[id].revision = q.revision
    /\ store[id].target = q.target
    /\ store[id].requesterId = q.requestedBy
    /\ store[id].policyFingerprint = q.policyDecision

GrantedBy(store, id, q) ==
    /\ store[id].status = "approved"
    /\ store[id].decidedBy \in Operators
    /\ store[id].decidedBy # q.requestedBy

Passed == {"approved", "executing", "executed"}

\* What a record q of request r says about the approvals, and n, the number
\* of runs of each of its revisions.
RowOK(r, q, store, n) ==
    /\ Names(store, q.approvalId, r, q)
    /\ q.secondaryApprovalId # 0 =>
         /\ q.policyDecision.requiresTwoPersonApproval
         /\ Names(store, q.secondaryApprovalId, r, q)
         /\ q.secondaryApprovalId # q.approvalId
         /\ GrantedBy(store, q.approvalId, q)
    /\ q.status \in Passed =>
         /\ GrantedBy(store, q.approvalId, q)
         /\ q.policyDecision.requiresTwoPersonApproval =>
              /\ q.secondaryApprovalId # 0
              /\ GrantedBy(store, q.secondaryApprovalId, q)
              /\ store[q.secondaryApprovalId].decidedBy # store[q.approvalId].decidedBy
    /\ n[q.revision] # 0 =>
         /\ q.status # "approved"
         /\ store[q.approvalId].status # "requested"
         /\ q.policyDecision.requiresTwoPersonApproval =>
              /\ q.secondaryApprovalId # 0
              /\ store[q.secondaryApprovalId].status # "requested"
    /\ \A v \in Revisions : v > q.revision => n[v] = 0

Rows ==
    \A r \in Requests :
      IF request[r] = None THEN \A v \in Revisions : runs[r][v] = 0
      ELSE RowOK(r, request[r], approvals, runs[r])

CallsFollow ==
    \A c \in Calls :
      /\ call[c].at # "idle" => call[c].request \in Requests /\ request[call[c].request] # None
      /\ call[c].at = "resolving" => call[c].resolves \cup approvers \subseteq since[c]

IInv == TypeOK /\ Rows /\ CallsFollow /\ RunsOncePerRevision

-------------------------------------------------------------------------------
(* The store of approvals.                                                 *)

\* Approvals keep their binding, and a decided one keeps its decision.
Evolves(store, later) ==
    /\ Len(store) <= Len(later)
    /\ \A i \in 1..Len(store) :
         /\ later[i].request = store[i].request
         /\ later[i].revision = store[i].revision
         /\ later[i].target = store[i].target
         /\ later[i].requesterId = store[i].requesterId
         /\ later[i].policyFingerprint = store[i].policyFingerprint
         /\ store[i].status # "requested" =>
              later[i].status = store[i].status /\ later[i].decidedBy = store[i].decidedBy

(* What a record says of the approvals stays true as they evolve.          *)
LEMMA RowsLast ==
  ASSUME NEW store \in Seq(ApprovalRecords), NEW later \in Seq(ApprovalRecords), Evolves(store, later),
         NEW r \in Requests, NEW q \in RequestRecords, NEW n \in [Revisions -> Nat],
         RowOK(r, q, store, n)
  PROVE  RowOK(r, q, later, n)
<1>1. Len(store) \in Nat /\ Len(later) \in Nat
  OBVIOUS
<1>2. Names(later, q.approvalId, r, q)
  BY <1>1 DEF RowOK, Names, Evolves
<1>3. ASSUME q.secondaryApprovalId # 0
      PROVE  Names(later, q.secondaryApprovalId, r, q)
  BY <1>1, <1>3 DEF RowOK, Names, Evolves
<1>4. ASSUME NEW i \in 1..Len(store), GrantedBy(store, i, q)
      PROVE  GrantedBy(later, i, q) /\ later[i].decidedBy = store[i].decidedBy
  BY <1>4 DEF GrantedBy, Evolves
<1>5. ASSUME NEW i \in 1..Len(store), store[i].status # "requested"
      PROVE  later[i].status # "requested"
  BY <1>5 DEF Evolves
<1>6. q.approvalId \in 1..Len(store) /\ (q.secondaryApprovalId # 0 => q.secondaryApprovalId \in 1..Len(store))
  BY DEF RowOK, Names
<1>7. QED
  BY <1>2, <1>3, <1>4, <1>5, <1>6 DEF RowOK

LEMMA DecidingEvolves ==
  ASSUME NEW store \in Seq(ApprovalRecords), NEW id \in 1..Len(store), store[id].status = "requested",
         NEW outcome \in {"approved", "rejected"}, NEW o \in Operators
  PROVE  /\ Decided(store, id, outcome, o) \in Seq(ApprovalRecords)
         /\ Evolves(store, Decided(store, id, outcome, o))
         /\ Len(Decided(store, id, outcome, o)) = Len(store)
         /\ Decided(store, id, outcome, o)[id].status = outcome
         /\ Decided(store, id, outcome, o)[id].decidedBy = o
         /\ \A i \in 1..Len(store) : i # id => Decided(store, id, outcome, o)[i] = store[i]
<1> DEFINE later == Decided(store, id, outcome, o)
<1>1. store \in [1..Len(store) -> ApprovalRecords] /\ Len(store) \in Nat
  OBVIOUS
<1>2. store[id] \in ApprovalRecords
  BY <1>1
<1>3. later = [store EXCEPT ![id] = [store[id] EXCEPT !.status = outcome, !.decidedBy = o]]
  BY <1>1, <1>2 DEF Decided, ApprovalRecords
<1>4. [store[id] EXCEPT !.status = outcome, !.decidedBy = o] \in ApprovalRecords
  BY <1>2 DEF ApprovalRecords
<1>5. later \in Seq(ApprovalRecords) /\ Len(later) = Len(store)
  BY <1>1, <1>3, <1>4
<1>6. \A i \in 1..Len(store) : i # id => later[i] = store[i]
  BY <1>1, <1>3
<1>7. later[id] = [store[id] EXCEPT !.status = outcome, !.decidedBy = o]
  BY <1>1, <1>3
<1> HIDE DEF later
<1>8. Evolves(store, later)
  <2>1. /\ later[id].request = store[id].request
        /\ later[id].revision = store[id].revision
        /\ later[id].target = store[id].target
        /\ later[id].requesterId = store[id].requesterId
        /\ later[id].policyFingerprint = store[id].policyFingerprint
    BY <1>2, <1>7 DEF ApprovalRecords
  <2>2. QED
    BY <1>1, <1>5, <1>6, <2>1 DEF Evolves
<1>9. later[id].status = outcome /\ later[id].decidedBy = o
  BY <1>2, <1>7 DEF ApprovalRecords
<1>10. QED
  BY <1>5, <1>6, <1>8, <1>9 DEF later

LEMMA AppendingEvolves ==
  ASSUME NEW store \in Seq(ApprovalRecords), NEW a \in ApprovalRecords
  PROVE  /\ Append(store, a) \in Seq(ApprovalRecords)
         /\ Evolves(store, Append(store, a))
         /\ Len(Append(store, a)) = Len(store) + 1
         /\ Append(store, a)[Len(store) + 1] = a
         /\ \A i \in 1..Len(store) : Append(store, a)[i] = store[i]
  BY DEF Evolves

LEMMA RequestedTyped ==
  ASSUME NEW r \in Requests, NEW v \in Revisions, NEW t \in Targets, NEW o \in Operators,
         NEW d \in DecisionRecords
  PROVE  Requested(r, v, t, o, d) \in ApprovalRecords
  BY DEF Requested, ApprovalRecords

-------------------------------------------------------------------------------
(* Steps that give request r the record q.                                 *)

LEMMA MovePreserves ==
  ASSUME IInv, NEW r \in Requests, NEW q \in RequestRecords,
         request' = [request EXCEPT ![r] = q],
         approvals' \in Seq(ApprovalRecords), Evolves(approvals, approvals'),
         RowOK(r, q, approvals', runs[r]),
         UNCHANGED <<policy, approvers, granted, call, since, runs, changes>>
  PROVE  IInv'
<1>1. TypeOK'
  BY DEF IInv, TypeOK
<1>2. Rows'
  <2>1. SUFFICES ASSUME NEW x \in Requests
                 PROVE  IF request'[x] = None THEN \A v \in Revisions : runs[x][v] = 0
                        ELSE RowOK(x, request'[x], approvals', runs[x])
    BY DEF Rows
  <2>2. CASE x = r
    BY <2>2 DEF IInv, TypeOK
  <2>3. CASE x # r
    <3>1. request'[x] = request[x] /\ runs[x] \in [Revisions -> Nat] /\ approvals \in Seq(ApprovalRecords)
      BY <2>3 DEF IInv, TypeOK
    <3>2. CASE request[x] = None
      BY <3>1, <3>2 DEF IInv, Rows
    <3>3. CASE request[x] # None
      <4>1. request[x] \in RequestRecords /\ RowOK(x, request[x], approvals, runs[x])
        BY <3>3 DEF IInv, TypeOK, Rows
      <4>2. RowOK(x, request[x], approvals', runs[x])
        BY <3>1, <4>1, RowsLast
      <4>3. QED
        BY <3>1, <3>3, <4>2
    <3>4. QED
      BY <3>2, <3>3
  <2>4. QED
    BY <2>2, <2>3
<1>3. CallsFollow'
  BY DEF IInv, TypeOK, CallsFollow
<1>4. RunsOncePerRevision'
  BY DEF IInv, RunsOncePerRevision
<1>5. QED
  BY <1>1, <1>2, <1>3, <1>4 DEF IInv

LEMMA NothingEvolves ==
  ASSUME NEW store \in Seq(ApprovalRecords)
  PROVE  Evolves(store, store)
  BY DEF Evolves

(* The record of a request that exists.                                    *)
LEMMA Existing ==
  ASSUME IInv, NEW r \in Requests, request[r] # None
  PROVE  /\ request[r] \in RequestRecords
         /\ RowOK(r, request[r], approvals, runs[r])
         /\ request[r].approvalId \in 1..Len(approvals)
         /\ approvals \in Seq(ApprovalRecords)
         /\ runs[r] \in [Revisions -> Nat]
         /\ request[r].revision \in Revisions
  BY DEF IInv, TypeOK, Rows, RowOK, Names, RequestRecords

LEMMA RequestPreserves ==
  ASSUME IInv, NEW r \in Requests, NEW o \in Operators, NEW t \in Targets, NEW recovery \in BOOLEAN,
         Request(r, o, t, recovery)
  PROVE  IInv'
<1> DEFINE a == Requested(r, 1, t, o, policy[t])
           q == [status |-> "awaiting_approval", revision |-> 1, target |-> t,
                 requestedBy |-> o, policyDecision |-> policy[t], recovery |-> recovery,
                 approvalId |-> Len(approvals'), secondaryApprovalId |-> 0]
<1>1. policy[t] \in DecisionRecords /\ approvals \in Seq(ApprovalRecords) /\ 1 \in Revisions
  BY DEF IInv, TypeOK, Revisions
<1>2. a \in ApprovalRecords
  BY <1>1, RequestedTyped
<1>3. approvals' = Append(approvals, a) /\ request' = [request EXCEPT ![r] = q]
  BY DEF Request
<1>4. /\ approvals' \in Seq(ApprovalRecords) /\ Evolves(approvals, approvals')
      /\ Len(approvals') = Len(approvals) + 1 /\ approvals'[Len(approvals')] = a
  BY <1>1, <1>2, <1>3, AppendingEvolves
<1>5. q \in RequestRecords /\ Len(approvals') \in 1..Len(approvals')
  BY <1>1, <1>4 DEF RequestRecords, DESTRUCTIVE_ACTION_STATUSES
<1>6. \A v \in Revisions : runs[r][v] = 0
  BY DEF Request, IInv, Rows
<1>7. RowOK(r, q, approvals', runs[r])
  BY <1>1, <1>4, <1>5, <1>6 DEF RowOK, Names, Requested, Passed
<1>8. QED
  BY <1>3, <1>4, <1>5, <1>7, MovePreserves DEF Request

LEMMA RevisePreserves ==
  ASSUME IInv, NEW r \in Requests, NEW o \in Operators, NEW t \in Targets, NEW recovery \in BOOLEAN,
         Revise(r, o, t, recovery)
  PROVE  IInv'
<1> DEFINE v == request[r].revision + 1
           a == Requested(r, v, t, request[r].requestedBy, policy[t])
           q == [status |-> "awaiting_approval", revision |-> v, target |-> t,
                 requestedBy |-> request[r].requestedBy, policyDecision |-> policy[t],
                 recovery |-> recovery, approvalId |-> Len(approvals'), secondaryApprovalId |-> 0]
<1>0. request[r] # None
  BY DEF Revise
<1>1. /\ policy[t] \in DecisionRecords /\ approvals \in Seq(ApprovalRecords)
      /\ request[r] \in RequestRecords /\ RowOK(r, request[r], approvals, runs[r])
  BY <1>0, Existing DEF IInv, TypeOK
<1>2. v \in Revisions /\ request[r].requestedBy \in Operators
  BY <1>1 DEF Revise, Revisions, RequestRecords
<1>3. a \in ApprovalRecords
  BY <1>1, <1>2, RequestedTyped
<1>4. approvals' = Append(approvals, a) /\ request' = [request EXCEPT ![r] = q]
  BY DEF Revise
<1>5. /\ approvals' \in Seq(ApprovalRecords) /\ Evolves(approvals, approvals')
      /\ Len(approvals') = Len(approvals) + 1 /\ approvals'[Len(approvals')] = a
  BY <1>1, <1>3, <1>4, AppendingEvolves
<1>6. Len(approvals') \in 1..Len(approvals')
  BY <1>1, <1>5
<1>7. q \in RequestRecords
  BY <1>1, <1>2, <1>6 DEF RequestRecords, DESTRUCTIVE_ACTION_STATUSES
<1>8. \A w \in Revisions : w >= v => runs[r][w] = 0
  BY <1>1 DEF RowOK, Revisions, RequestRecords
<1>9. RowOK(r, q, approvals', runs[r])
  <2>1. /\ q.status = "awaiting_approval" /\ q.revision = v /\ q.target = t
        /\ q.policyDecision = policy[t] /\ q.approvalId = Len(approvals')
        /\ q.secondaryApprovalId = 0 /\ q.requestedBy = request[r].requestedBy
    OBVIOUS
  <2>2. Names(approvals', Len(approvals'), r, q)
    BY <1>5, <1>6, <2>1 DEF Names, Requested
  <2>3. \A w \in Revisions : w > q.revision => runs[r][w] = 0
    BY <1>2, <1>8, <2>1 DEF Revisions
  <2>4. runs[r][q.revision] = 0
    BY <1>2, <1>8, <2>1 DEF Revisions
  <2> HIDE DEF q, v
  <2>5. QED
    BY <2>1, <2>2, <2>3, <2>4 DEF RowOK, Passed
<1>10. QED
  BY <1>4, <1>5, <1>7, <1>9, MovePreserves DEF Revise

\* The record of r with another status and second approval.
Restated(r, status, second) ==
    [request[r] EXCEPT !.status = status, !.secondaryApprovalId = second]

LEMMA RestatedRecord ==
  ASSUME IInv, NEW r \in Requests, request[r] # None,
         NEW status \in DESTRUCTIVE_ACTION_STATUSES, NEW second \in Nat
  PROVE  /\ Restated(r, status, second) \in RequestRecords
         /\ Restated(r, status, second).status = status
         /\ Restated(r, status, second).secondaryApprovalId = second
         /\ Restated(r, status, second).approvalId = request[r].approvalId
         /\ Restated(r, status, second).revision = request[r].revision
         /\ Restated(r, status, second).target = request[r].target
         /\ Restated(r, status, second).requestedBy = request[r].requestedBy
         /\ Restated(r, status, second).policyDecision = request[r].policyDecision
  BY Existing DEF Restated, RequestRecords

LEMMA StatusStep ==
  ASSUME IInv, NEW r \in Requests, request[r] # None, NEW status \in DESTRUCTIVE_ACTION_STATUSES,
         request' = [request EXCEPT ![r].status = status]
  PROVE  request' = [request EXCEPT ![r] = Restated(r, status, request[r].secondaryApprovalId)]
<1>1. request[r] \in RequestRecords
  BY Existing
<1>2. [request[r] EXCEPT !.status = status] = Restated(r, status, request[r].secondaryApprovalId)
  BY <1>1 DEF Restated, RequestRecords
<1>3. QED
  BY <1>2 DEF IInv, TypeOK

(* A step that only gives a request a status that needs no approvals.      *)
LEMMA DemotionPreserves ==
  ASSUME IInv, NEW r \in Requests, request[r] # None,
         NEW status \in DESTRUCTIVE_ACTION_STATUSES \ Passed,
         request' = [request EXCEPT ![r].status = status],
         approvals' \in Seq(ApprovalRecords), Evolves(approvals, approvals'),
         UNCHANGED <<policy, approvers, granted, call, since, runs, changes>>
  PROVE  IInv'
<1> DEFINE q == Restated(r, status, request[r].secondaryApprovalId)
<1>1. /\ request[r] \in RequestRecords /\ RowOK(r, request[r], approvals, runs[r])
      /\ approvals \in Seq(ApprovalRecords) /\ runs[r] \in [Revisions -> Nat]
      /\ request[r].secondaryApprovalId \in Nat
  BY Existing DEF RequestRecords
<1>2. RowOK(r, request[r], approvals', runs[r])
  BY <1>1, RowsLast
<1>3. /\ q \in RequestRecords /\ q.status = status
      /\ q.secondaryApprovalId = request[r].secondaryApprovalId
      /\ q.approvalId = request[r].approvalId /\ q.revision = request[r].revision
      /\ q.target = request[r].target /\ q.requestedBy = request[r].requestedBy
      /\ q.policyDecision = request[r].policyDecision
  BY <1>1, RestatedRecord
<1>4. request' = [request EXCEPT ![r] = q]
  BY StatusStep
<1> HIDE DEF q
<1>5. RowOK(r, q, approvals', runs[r])
  BY <1>2, <1>3 DEF RowOK, Names, GrantedBy, Passed
<1>6. QED
  BY <1>3, <1>4, <1>5, MovePreserves

LEMMA ApproveAlonePreserves ==
  ASSUME IInv, NEW r \in Requests, NEW o \in Operators, ApproveAlone(r, o)
  PROVE  IInv'
<1> DEFINE q == Restated(r, "approved", request[r].secondaryApprovalId)
           id == request[r].approvalId
<1>1. request[r] # None /\ o # request[r].requestedBy /\ approvals[id].status = "requested"
  BY DEF ApproveAlone, MayDecide, Pending
<1>2. /\ request[r] \in RequestRecords /\ RowOK(r, request[r], approvals, runs[r])
      /\ approvals \in Seq(ApprovalRecords) /\ runs[r] \in [Revisions -> Nat]
      /\ request[r].secondaryApprovalId \in Nat /\ id \in 1..Len(approvals)
  BY <1>1, Existing DEF RequestRecords
<1>3. approvals' = Decided(approvals, id, "approved", o)
  BY DEF ApproveAlone
<1>4. /\ approvals' \in Seq(ApprovalRecords) /\ Evolves(approvals, approvals')
      /\ approvals'[id].status = "approved" /\ approvals'[id].decidedBy = o
  BY <1>1, <1>2, <1>3, DecidingEvolves
<1>5. RowOK(r, request[r], approvals', runs[r])
  BY <1>2, <1>4, RowsLast
<1>6. "approved" \in DESTRUCTIVE_ACTION_STATUSES
  BY DEF DESTRUCTIVE_ACTION_STATUSES
<1>7. /\ q \in RequestRecords /\ q.status = "approved"
      /\ q.secondaryApprovalId = request[r].secondaryApprovalId
      /\ q.approvalId = id /\ q.revision = request[r].revision
      /\ q.target = request[r].target /\ q.requestedBy = request[r].requestedBy
      /\ q.policyDecision = request[r].policyDecision
  BY <1>1, <1>2, <1>6, RestatedRecord
<1>8. request' = [request EXCEPT ![r] = q]
  BY <1>1, <1>6, StatusStep DEF ApproveAlone
<1>9. ~request[r].policyDecision.requiresTwoPersonApproval
  BY DEF ApproveAlone
<1>10. runs[r][request[r].revision] = 0
  BY <1>1, <1>2 DEF RowOK
<1> HIDE DEF q
<1>11. RowOK(r, q, approvals', runs[r])
  BY <1>1, <1>4, <1>5, <1>7, <1>9, <1>10 DEF RowOK, Names, GrantedBy, Passed
<1>12. QED
  BY <1>4, <1>7, <1>8, <1>11, MovePreserves DEF ApproveAlone

LEMMA ApproveFirstPreserves ==
  ASSUME IInv, NEW r \in Requests, NEW o \in Operators, ApproveFirst(r, o)
  PROVE  IInv'
<1> DEFINE id == request[r].approvalId
           mid == Decided(approvals, id, "approved", o)
           a == Requested(r, request[r].revision, request[r].target, request[r].requestedBy,
                          request[r].policyDecision)
           second == Len(approvals')
           q == Restated(r, "awaiting_approval", second)
<1>1. request[r] # None /\ o # request[r].requestedBy /\ approvals[id].status = "requested"
  BY DEF ApproveFirst, MayDecide
<1>2. /\ request[r] \in RequestRecords /\ RowOK(r, request[r], approvals, runs[r])
      /\ approvals \in Seq(ApprovalRecords) /\ runs[r] \in [Revisions -> Nat]
      /\ id \in 1..Len(approvals)
  BY <1>1, Existing
<1>3. a \in ApprovalRecords
  BY <1>2, RequestedTyped DEF RequestRecords
<1>4. approvals' = Append(mid, a)
  BY DEF ApproveFirst
<1>5. /\ mid \in Seq(ApprovalRecords) /\ Evolves(approvals, mid) /\ Len(mid) = Len(approvals)
      /\ mid[id].status = "approved" /\ mid[id].decidedBy = o
  BY <1>1, <1>2, DecidingEvolves
<1> HIDE DEF mid
<1>6. /\ approvals' \in Seq(ApprovalRecords) /\ Evolves(mid, approvals')
      /\ second = Len(approvals) + 1 /\ approvals'[second] = a
      /\ approvals'[id] = mid[id]
  BY <1>2, <1>3, <1>4, <1>5, AppendingEvolves
<1>7. Evolves(approvals, approvals')
  BY <1>2, <1>5, <1>6 DEF Evolves
<1>8. RowOK(r, request[r], approvals', runs[r])
  BY <1>2, <1>6, <1>7, RowsLast
<1>9. second \in Nat /\ second # 0 /\ second # id /\ second \in 1..Len(approvals')
  BY <1>2, <1>6
<1>10. "awaiting_approval" \in DESTRUCTIVE_ACTION_STATUSES
  BY DEF DESTRUCTIVE_ACTION_STATUSES
<1>11. /\ q \in RequestRecords /\ q.status = "awaiting_approval" /\ q.secondaryApprovalId = second
       /\ q.approvalId = id /\ q.revision = request[r].revision
       /\ q.target = request[r].target /\ q.requestedBy = request[r].requestedBy
       /\ q.policyDecision = request[r].policyDecision
  BY <1>1, <1>9, <1>10, RestatedRecord
<1>12. request' = [request EXCEPT ![r] = q]
  <2>1. [[request[r] EXCEPT !.status = "awaiting_approval"] EXCEPT !.secondaryApprovalId = second] = q
    BY <1>2 DEF Restated, RequestRecords
  <2>2. QED
    BY <1>2, <2>1 DEF ApproveFirst, IInv, TypeOK, Restated, RequestRecords
<1>13. request[r].policyDecision.requiresTwoPersonApproval
  BY DEF ApproveFirst
<1>14. runs[r][request[r].revision] = 0
  BY <1>1, <1>2 DEF RowOK
<1>15. Names(approvals', second, r, q)
  BY <1>6, <1>9, <1>11 DEF Names, Requested
<1>16. GrantedBy(approvals', id, q)
  BY <1>1, <1>5, <1>6, <1>11 DEF GrantedBy
<1> HIDE DEF q
<1>17. RowOK(r, q, approvals', runs[r])
  BY <1>8, <1>9, <1>11, <1>13, <1>14, <1>15, <1>16 DEF RowOK, Names, Passed
<1>18. QED
  BY <1>6, <1>7, <1>11, <1>12, <1>17, MovePreserves DEF ApproveFirst

LEMMA ApproveSecondPreserves ==
  ASSUME IInv, NEW r \in Requests, NEW o \in Operators, ApproveSecond(r, o)
  PROVE  IInv'
<1> DEFINE id == request[r].approvalId
           second == request[r].secondaryApprovalId
           q == Restated(r, "approved", second)
<1>1. /\ request[r] # None /\ o # request[r].requestedBy /\ second # 0
      /\ approvals[second].status = "requested" /\ approvals[id].decidedBy # o
  BY DEF ApproveSecond, MayDecide, Pending, DistinctSecond
<1>2. /\ request[r] \in RequestRecords /\ RowOK(r, request[r], approvals, runs[r])
      /\ approvals \in Seq(ApprovalRecords) /\ runs[r] \in [Revisions -> Nat]
      /\ second \in Nat /\ id \in 1..Len(approvals)
  BY <1>1, Existing DEF RequestRecords
<1>3. second \in 1..Len(approvals) /\ second # id /\ GrantedBy(approvals, id, request[r])
  BY <1>1, <1>2 DEF RowOK, Names
<1>4. approvals' = Decided(approvals, second, "approved", o)
  BY DEF ApproveSecond
<1>5. /\ approvals' \in Seq(ApprovalRecords) /\ Evolves(approvals, approvals')
      /\ approvals'[second].status = "approved" /\ approvals'[second].decidedBy = o
      /\ approvals'[id] = approvals[id]
  BY <1>1, <1>2, <1>3, <1>4, DecidingEvolves
<1>6. RowOK(r, request[r], approvals', runs[r])
  BY <1>2, <1>5, RowsLast
<1>7. "approved" \in DESTRUCTIVE_ACTION_STATUSES
  BY DEF DESTRUCTIVE_ACTION_STATUSES
<1>8. /\ q \in RequestRecords /\ q.status = "approved" /\ q.secondaryApprovalId = second
      /\ q.approvalId = id /\ q.revision = request[r].revision
      /\ q.target = request[r].target /\ q.requestedBy = request[r].requestedBy
      /\ q.policyDecision = request[r].policyDecision
  BY <1>1, <1>2, <1>7, RestatedRecord
<1>9. request' = [request EXCEPT ![r] = q]
  BY <1>1, <1>7, StatusStep DEF ApproveSecond
<1>10. request[r].policyDecision.requiresTwoPersonApproval
  BY DEF ApproveSecond
<1>11. runs[r][request[r].revision] = 0
  BY <1>1, <1>2, <1>10 DEF RowOK
<1>12. GrantedBy(approvals', id, q) /\ GrantedBy(approvals', second, q)
  BY <1>1, <1>3, <1>5, <1>8 DEF GrantedBy
<1> HIDE DEF q
<1>13. RowOK(r, q, approvals', runs[r])
  BY <1>1, <1>5, <1>6, <1>8, <1>11, <1>12 DEF RowOK, Names, Passed
<1>14. QED
  BY <1>5, <1>8, <1>9, <1>13, MovePreserves DEF ApproveSecond

LEMMA RejectPreserves ==
  ASSUME IInv, NEW r \in Requests, NEW o \in Operators, Reject(r, o)
  PROVE  IInv'
<1>1. request[r] # None /\ approvals[request[r].approvalId].status = "requested"
  BY DEF Reject, MayDecide, Pending
<1>2. request[r].approvalId \in 1..Len(approvals) /\ approvals \in Seq(ApprovalRecords)
  BY <1>1, Existing
<1>3. approvals' \in Seq(ApprovalRecords) /\ Evolves(approvals, approvals')
  BY <1>1, <1>2, DecidingEvolves DEF Reject
<1>4. "rejected" \in DESTRUCTIVE_ACTION_STATUSES \ Passed
  BY DEF DESTRUCTIVE_ACTION_STATUSES, DESTRUCTIVE_TERMINAL_STATUSES, Passed
<1>5. QED
  BY <1>1, <1>3, <1>4, DemotionPreserves DEF Reject

LEMMA SendBackPreserves ==
  ASSUME IInv, NEW r \in Requests, NEW o \in Operators,
         NEW decision \in {"request_changes", "prefer_safer_alternative"},
         SendBack(r, o, decision)
  PROVE  IInv'
<1>1. request[r] # None /\ approvals \in Seq(ApprovalRecords) /\ approvals' = approvals
  BY DEF SendBack, MayDecide, IInv, TypeOK
<1>2. Evolves(approvals, approvals')
  BY <1>1, NothingEvolves
<1>3. NextStatus(decision) \in DESTRUCTIVE_ACTION_STATUSES \ Passed
  BY DEF NextStatus, DESTRUCTIVE_ACTION_STATUSES, DESTRUCTIVE_TERMINAL_STATUSES, Passed
<1>4. QED
  BY <1>1, <1>2, <1>3, DemotionPreserves DEF SendBack

LEMMA CancelPreserves ==
  ASSUME IInv, NEW r \in Requests, NEW o \in Operators, Cancel(r, o)
  PROVE  IInv'
<1>1. request[r] # None /\ approvals \in Seq(ApprovalRecords) /\ approvals' = approvals
  BY DEF Cancel, IInv, TypeOK
<1>2. Evolves(approvals, approvals')
  BY <1>1, NothingEvolves
<1>3. "cancelled" \in DESTRUCTIVE_ACTION_STATUSES \ Passed
  BY DEF DESTRUCTIVE_ACTION_STATUSES, DESTRUCTIVE_TERMINAL_STATUSES, Passed
<1>4. QED
  BY <1>1, <1>2, <1>3, DemotionPreserves DEF Cancel

LEMMA DecideByCommandPreserves ==
  ASSUME IInv, NEW id \in DOMAIN approvals, NEW o \in Operators,
         NEW outcome \in {"approved", "rejected"}, DecideByCommand(id, o, outcome)
  PROVE  IInv'
<1>1. approvals \in Seq(ApprovalRecords) /\ id \in 1..Len(approvals)
  BY DEF IInv, TypeOK
<1>2. approvals' \in Seq(ApprovalRecords) /\ Evolves(approvals, approvals')
  BY <1>1, DecidingEvolves DEF DecideByCommand, Pending
<1>3. TypeOK'
  BY <1>2 DEF DecideByCommand, IInv, TypeOK
<1>4. Rows'
  <2>1. SUFFICES ASSUME NEW r \in Requests, request[r] # None
                 PROVE  RowOK(r, request[r], approvals', runs[r])
    BY DEF DecideByCommand, IInv, Rows
  <2>2. QED
    BY <1>1, <1>2, <2>1, Existing, RowsLast
<1>5. CallsFollow' /\ RunsOncePerRevision'
  BY DEF DecideByCommand, IInv, CallsFollow, RunsOncePerRevision
<1>6. QED
  BY <1>3, <1>4, <1>5 DEF IInv

-------------------------------------------------------------------------------
(* Executions.                                                             *)

LEMMA BeginExecutionPreserves ==
  ASSUME IInv, NEW c \in Calls, NEW r \in Requests, BeginExecution(c, r)
  PROVE  IInv'
<1>1. currentApproverIds(r) \subseteq Operators
  <2>1. request[r] # None
    BY DEF BeginExecution
  <2>2. SUFFICES ASSUME NEW id \in {request[r].approvalId, request[r].secondaryApprovalId} \ {0}
                 PROVE  approvals[id].decidedBy \in Operators \cup {None}
    BY DEF currentApproverIds
  <2>3. id \in 1..Len(approvals) /\ approvals \in Seq(ApprovalRecords)
    BY <2>1, Existing DEF RowOK, Names
  <2>4. approvals[id] \in ApprovalRecords
    BY <2>3
  <2>5. QED
    BY <2>4 DEF ApprovalRecords
<1> DEFINE d == [Idle EXCEPT !.at = "resolving", !.request = r, !.wanted = currentApproverIds(r)]
<1>2. d \in CallRecords /\ d.at = "resolving" /\ d.request = r /\ d.resolves = {}
  BY <1>1 DEF Idle, CallRecords
<1>3. call' = [call EXCEPT ![c] = d]
  BY DEF BeginExecution
<1> HIDE DEF d
<1>4. TypeOK'
  <2>1. call' \in [Calls -> CallRecords]
    BY <1>2, <1>3 DEF IInv, TypeOK
  <2>2. since' \in [Calls -> SUBSET Pairs]
    BY DEF BeginExecution, IInv, TypeOK
  <2>3. QED
    BY <2>1, <2>2 DEF BeginExecution, IInv, TypeOK
<1>5. CallsFollow'
  BY <1>2, <1>3 DEF BeginExecution, IInv, TypeOK, CallsFollow
<1>6. Rows' /\ RunsOncePerRevision'
  BY DEF BeginExecution, IInv, Rows, RunsOncePerRevision
<1>7. QED
  BY <1>4, <1>5, <1>6 DEF IInv

LEMMA LoadApproverPreserves ==
  ASSUME IInv, NEW c \in Calls, NEW o \in Operators, LoadApprover(c, o)
  PROVE  IInv'
<1> DEFINE d == [call[c] EXCEPT !.loaded = @ \cup {o},
                                !.resolves = @ \cup {pair \in approvers : pair[1] = o}]
<1>1. call[c] \in CallRecords /\ call[c].at = "resolving" /\ approvers \subseteq Pairs
  BY DEF LoadApprover, IInv, TypeOK
<1>2. /\ d \in CallRecords /\ d.at = "resolving" /\ d.request = call[c].request
      /\ d.resolves \subseteq call[c].resolves \cup approvers
  BY <1>1 DEF CallRecords
<1>3. call' = [call EXCEPT ![c] = d]
  BY DEF LoadApprover, IInv, TypeOK, CallRecords
<1> HIDE DEF d
<1>4. TypeOK'
  <2>1. call' \in [Calls -> CallRecords]
    BY <1>2, <1>3 DEF IInv, TypeOK
  <2>2. QED
    BY <2>1 DEF LoadApprover, IInv, TypeOK
<1>5. CallsFollow'
  BY <1>1, <1>2, <1>3 DEF LoadApprover, IInv, TypeOK, CallsFollow
<1>6. Rows' /\ RunsOncePerRevision'
  BY DEF LoadApprover, IInv, Rows, RunsOncePerRevision
<1>7. QED
  BY <1>4, <1>5, <1>6 DEF IInv

LEMMA AssertApprovedPreserves ==
  ASSUME IInv, NEW c \in Calls, NEW o \in Operators, NEW t \in Targets,
         NEW evidence \in SUBSET Evidence, AssertApproved(c, o, t, evidence)
  PROVE  IInv'
<1> DEFINE r == call[c].request
           v == request[r].revision
           q == Restated(r, "executing", request[r].secondaryApprovalId)
           n == [runs[r] EXCEPT ![v] = @ + 1]
           d == [Idle EXCEPT !.at = "executing", !.request = r]
<1>1. r \in Requests /\ request[r] # None
  BY DEF AssertApproved, Loaded, IInv, CallsFollow
<1>2. /\ request[r] \in RequestRecords /\ RowOK(r, request[r], approvals, runs[r])
      /\ runs[r] \in [Revisions -> Nat] /\ v \in Revisions
      /\ request[r].secondaryApprovalId \in Nat
  BY <1>1, Existing DEF RequestRecords
<1>3. request[r].status = "approved"
  BY DEF AssertApproved, Assertable
<1>4. runs[r][v] = 0
  BY <1>2, <1>3 DEF RowOK
<1>5. "executing" \in DESTRUCTIVE_ACTION_STATUSES
  BY DEF DESTRUCTIVE_ACTION_STATUSES
<1>6. /\ q \in RequestRecords /\ q.status = "executing"
      /\ q.secondaryApprovalId = request[r].secondaryApprovalId
      /\ q.approvalId = request[r].approvalId /\ q.revision = v
      /\ q.target = request[r].target /\ q.requestedBy = request[r].requestedBy
      /\ q.policyDecision = request[r].policyDecision
  BY <1>1, <1>2, <1>5, RestatedRecord
<1>7. request' = [request EXCEPT ![r] = q]
  BY <1>1, <1>5, StatusStep DEF AssertApproved
<1>8. runs' = [runs EXCEPT ![r] = n]
  BY DEF AssertApproved, IInv, TypeOK
<1>9. n \in [Revisions -> Nat] /\ n[v] = 1 /\ \A w \in Revisions : w # v => n[w] = runs[r][w]
  BY <1>2, <1>4
<1>10. d \in CallRecords /\ d.at = "executing" /\ d.request = r
  BY <1>1 DEF Idle, CallRecords
<1>11. call' = [call EXCEPT ![c] = d]
  BY DEF AssertApproved
<1> HIDE DEF q, n, d
<1>12. RowOK(r, q, approvals, n)
  <2>1. \A w \in Revisions : w > q.revision => n[w] = 0
    <3>1. \A w \in Revisions : w > v => runs[r][w] = 0
      BY <1>2 DEF RowOK
    <3>2. \A w \in Revisions : w > v => w # v
      BY <1>2 DEF Revisions
    <3>3. QED
      BY <1>6, <1>9, <3>1, <3>2
  <2>2. QED
    BY <1>2, <1>3, <1>6, <1>9, <2>1 DEF RowOK, Names, GrantedBy, Passed
<1>13. TypeOK'
  <2>1. request' \in [Requests -> RequestRecords \cup {None}]
    BY <1>6, <1>7 DEF IInv, TypeOK
  <2>2. call' \in [Calls -> CallRecords]
    BY <1>10, <1>11 DEF IInv, TypeOK
  <2>3. runs' \in [Requests -> [Revisions -> Nat]]
    BY <1>8, <1>9 DEF IInv, TypeOK
  <2>4. QED
    BY <2>1, <2>2, <2>3 DEF AssertApproved, IInv, TypeOK
<1>14. Rows'
  <2>1. SUFFICES ASSUME NEW x \in Requests
                 PROVE  IF request'[x] = None THEN \A w \in Revisions : runs'[x][w] = 0
                        ELSE RowOK(x, request'[x], approvals, runs'[x])
    BY DEF AssertApproved, Rows
  <2>2. CASE x = r
    <3>1. request'[x] = q /\ runs'[x] = n
      BY <1>7, <1>8, <2>2 DEF IInv, TypeOK
    <3>2. QED
      BY <1>6, <1>12, <2>2, <3>1
  <2>3. CASE x # r
    <3>1. request'[x] = request[x] /\ runs'[x] = runs[x]
      BY <1>7, <1>8, <2>3 DEF IInv, TypeOK
    <3>2. QED
      BY <3>1 DEF IInv, Rows
  <2>4. QED
    BY <2>2, <2>3
<1>15. CallsFollow'
  <2>1. SUFFICES ASSUME NEW x \in Calls
                 PROVE  /\ call'[x].at # "idle" =>
                             call'[x].request \in Requests /\ request'[call'[x].request] # None
                        /\ call'[x].at = "resolving" =>
                             call'[x].resolves \cup approvers \subseteq since[x]
    BY DEF AssertApproved, CallsFollow
  <2>2. \A y \in Requests : request[y] # None => request'[y] # None
    BY <1>6, <1>7 DEF IInv, TypeOK
  <2>3. CASE x = c
    BY <1>1, <1>10, <1>11, <2>2, <2>3 DEF IInv, TypeOK
  <2>4. CASE x # c
    BY <1>11, <2>2, <2>4 DEF IInv, TypeOK, CallsFollow
  <2>5. QED
    BY <2>3, <2>4
<1>16. RunsOncePerRevision'
  <2>1. SUFFICES ASSUME NEW x \in Requests, NEW w \in Revisions
                 PROVE  runs'[x][w] <= 1
    BY DEF RunsOncePerRevision
  <2>2. CASE x = r
    <3>1. runs'[x] = n
      BY <1>8, <2>2 DEF IInv, TypeOK
    <3>2. n[w] <= 1
      BY <1>1, <1>9 DEF IInv, RunsOncePerRevision
    <3>3. QED
      BY <3>1, <3>2
  <2>3. CASE x # r
    BY <1>8, <2>3 DEF IInv, TypeOK, RunsOncePerRevision
  <2>4. QED
    BY <2>2, <2>3
<1>17. QED
  BY <1>13, <1>14, <1>15, <1>16 DEF IInv

LEMMA AssertRefusedPreserves ==
  ASSUME IInv, NEW c \in Calls, AssertRefused(c)
  PROVE  IInv'
<1>1. Idle \in CallRecords /\ Idle.at = "idle"
  BY DEF Idle, CallRecords
<1>2. TypeOK'
  <2>1. call' \in [Calls -> CallRecords] /\ since' \in [Calls -> SUBSET Pairs]
    BY <1>1 DEF AssertRefused, IInv, TypeOK
  <2>2. QED
    BY <2>1 DEF AssertRefused, IInv, TypeOK
<1>3. CallsFollow'
  BY <1>1 DEF AssertRefused, IInv, TypeOK, CallsFollow
<1>4. Rows' /\ RunsOncePerRevision'
  BY DEF AssertRefused, IInv, Rows, RunsOncePerRevision
<1>5. QED
  BY <1>2, <1>3, <1>4 DEF IInv

(* A call ends and gives its request a status that rests on the same       *)
(* approvals, or on none.                                                  *)
LEMMA EndCallPreserves ==
  ASSUME IInv, NEW c \in Calls, NEW r \in Requests, request[r] # None,
         NEW status \in DESTRUCTIVE_ACTION_STATUSES,
         \/ status = request[r].status
         \/ status = "failed"
         \/ status = "executed" /\ request[r].status = "executing",
         EndCall(c, r, status)
  PROVE  IInv'
<1> DEFINE q == Restated(r, status, request[r].secondaryApprovalId)
<1>1. /\ request[r] \in RequestRecords /\ RowOK(r, request[r], approvals, runs[r])
      /\ request[r].secondaryApprovalId \in Nat
  BY Existing DEF RequestRecords
<1>2. /\ q \in RequestRecords /\ q.status = status
      /\ q.secondaryApprovalId = request[r].secondaryApprovalId
      /\ q.approvalId = request[r].approvalId /\ q.revision = request[r].revision
      /\ q.target = request[r].target /\ q.requestedBy = request[r].requestedBy
      /\ q.policyDecision = request[r].policyDecision
  BY <1>1, RestatedRecord
<1>3. request' = [request EXCEPT ![r] = q]
  BY StatusStep DEF EndCall
<1> HIDE DEF q
<1>4. RowOK(r, q, approvals, runs[r])
  BY <1>1, <1>2 DEF RowOK, Names, GrantedBy, Passed
<1>5. Idle \in CallRecords /\ Idle.at = "idle"
  BY DEF Idle, CallRecords
<1>6. TypeOK'
  <2>1. request' \in [Requests -> RequestRecords \cup {None}]
    BY <1>2, <1>3 DEF IInv, TypeOK
  <2>2. call' \in [Calls -> CallRecords] /\ since' \in [Calls -> SUBSET Pairs]
    BY <1>5 DEF EndCall, IInv, TypeOK
  <2>3. QED
    BY <2>1, <2>2 DEF EndCall, IInv, TypeOK
<1>7. Rows'
  <2>1. SUFFICES ASSUME NEW x \in Requests
                 PROVE  IF request'[x] = None THEN \A w \in Revisions : runs[x][w] = 0
                        ELSE RowOK(x, request'[x], approvals, runs[x])
    BY DEF EndCall, Rows
  <2>2. CASE x = r
    BY <1>2, <1>3, <1>4, <2>2 DEF IInv, TypeOK
  <2>3. CASE x # r
    BY <1>3, <2>3 DEF IInv, TypeOK, Rows
  <2>4. QED
    BY <2>2, <2>3
<1>8. CallsFollow'
  <2>1. \A y \in Requests : request[y] # None => request'[y] # None
    BY <1>2, <1>3 DEF IInv, TypeOK
  <2>2. \A x \in Calls : call'[x] = (IF x = c THEN Idle ELSE call[x])
                         /\ (x # c => since'[x] = since[x])
    BY DEF EndCall, IInv, TypeOK
  <2>3. approvers' = approvers
    BY DEF EndCall
  <2>4. QED
    BY <1>5, <2>1, <2>2, <2>3 DEF IInv, CallsFollow
<1>9. RunsOncePerRevision'
  BY DEF EndCall, IInv, RunsOncePerRevision
<1>10. QED
  BY <1>6, <1>7, <1>8, <1>9 DEF IInv

LEMMA OutcomePreserves ==
  ASSUME IInv, NEW c \in Calls, MarkExecuted(c) \/ MarkFailed(c) \/ OutcomeLost(c)
  PROVE  IInv'
<1>1. call[c].request \in Requests /\ request[call[c].request] # None
  BY DEF MarkExecuted, MarkFailed, OutcomeLost, IInv, CallsFollow
<1>2. request[call[c].request].status \in DESTRUCTIVE_ACTION_STATUSES
  BY <1>1, Existing DEF RequestRecords
<1>3. "executed" \in DESTRUCTIVE_ACTION_STATUSES /\ "failed" \in DESTRUCTIVE_ACTION_STATUSES
  BY DEF DESTRUCTIVE_ACTION_STATUSES, DESTRUCTIVE_TERMINAL_STATUSES
<1>4. CASE MarkExecuted(c)
  BY <1>1, <1>3, <1>4, EndCallPreserves DEF MarkExecuted
<1>5. CASE MarkFailed(c)
  BY <1>1, <1>3, <1>5, EndCallPreserves DEF MarkFailed
<1>6. CASE OutcomeLost(c)
  BY <1>1, <1>2, <1>6, EndCallPreserves DEF OutcomeLost
<1>7. QED
  BY <1>4, <1>5, <1>6

LEMMA RestartPreserves ==
  ASSUME IInv, Restart
  PROVE  IInv'
<1>1. Idle \in CallRecords /\ Idle.at = "idle"
  BY DEF Idle, CallRecords
<1>2. TypeOK'
  BY <1>1 DEF Restart, IInv, TypeOK
<1>3. CallsFollow'
  BY <1>1 DEF Restart, CallsFollow
<1>4. Rows' /\ RunsOncePerRevision'
  BY DEF Restart, IInv, Rows, RunsOncePerRevision
<1>5. QED
  BY <1>2, <1>3, <1>4 DEF IInv

LEMMA DriftPreserves ==
  ASSUME IInv, Drift
  PROVE  IInv'
<1>1. Rows' /\ RunsOncePerRevision'
  BY DEF Drift, PolicyChanges, Grant, Revoke, IInv, Rows, RunsOncePerRevision
<1>2. CASE \E t \in Targets, decision \in Decisions : PolicyChanges(t, decision)
  <2>1. TypeOK'
    BY <1>2 DEF PolicyChanges, IInv, TypeOK
  <2>2. CallsFollow'
    BY <1>2 DEF PolicyChanges, IInv, CallsFollow
  <2>3. QED
    BY <1>1, <2>1, <2>2 DEF IInv
<1>3. CASE \E pair \in Pairs : Grant(pair)
  <2>1. TypeOK'
    BY <1>3 DEF Grant, IInv, TypeOK
  <2>2. CallsFollow'
    BY <1>3 DEF Grant, IInv, TypeOK, CallsFollow
  <2>3. QED
    BY <1>1, <2>1, <2>2 DEF IInv
<1>4. CASE \E pair \in Pairs : Revoke(pair)
  <2>1. TypeOK'
    BY <1>4 DEF Revoke, IInv, TypeOK
  <2>2. CallsFollow'
    BY <1>4 DEF Revoke, IInv, TypeOK, CallsFollow
  <2>3. QED
    BY <1>1, <2>1, <2>2 DEF IInv
<1>5. QED
  BY <1>2, <1>3, <1>4 DEF Drift

-------------------------------------------------------------------------------
(* The theorems.                                                           *)

LEMMA InitHolds ==
  ASSUME Init
  PROVE  IInv
<1>1. Idle \in CallRecords /\ Idle.at = "idle"
  BY DEF Idle, CallRecords
<1>2. TypeOK
  BY <1>1 DEF Init, TypeOK, Pairs
<1>3. Rows /\ RunsOncePerRevision
  BY DEF Init, Rows, RunsOncePerRevision
<1>4. CallsFollow
  BY <1>1 DEF Init, CallsFollow
<1>5. QED
  BY <1>2, <1>3, <1>4 DEF IInv

LEMMA NextPreserves ==
  ASSUME IInv, Next
  PROVE  IInv'
<1>1. CASE RequestStep
  BY <1>1, RequestPreserves, RevisePreserves, ApproveAlonePreserves, ApproveFirstPreserves,
     ApproveSecondPreserves, RejectPreserves, SendBackPreserves, CancelPreserves DEF RequestStep
<1>2. CASE CallStep
  BY <1>2, BeginExecutionPreserves, LoadApproverPreserves, AssertApprovedPreserves,
     AssertRefusedPreserves, OutcomePreserves DEF CallStep
<1>3. CASE \E id \in DOMAIN approvals, o \in Operators, outcome \in {"approved", "rejected"} :
             DecideByCommand(id, o, outcome)
  BY <1>3, DecideByCommandPreserves
<1>4. QED
  BY <1>1, <1>2, <1>3, RestartPreserves, DriftPreserves DEF Next

(* The inductive invariant holds throughout: what each request's record    *)
(* says of the approval store and of the runs under its revision, and what *)
(* a call under way has seen of the approvers.                             *)
THEOREM Invariance == Spec => []IInv
<1>1. Init => IInv
  BY InitHolds
<1>2. IInv /\ [Next]_vars => IInv'
  <2>1. ASSUME IInv, UNCHANGED vars
        PROVE  IInv'
    BY <2>1 DEF vars, IInv, TypeOK, Rows, CallsFollow, RunsOncePerRevision
  <2>2. QED
    BY <2>1, NextPreserves
<1>3. QED
  BY <1>1, <1>2, PTL DEF Spec

(* The records, approvals and calls keep their types: statuses are those   *)
(* of the contract and revisions stay within the modelled bound.           *)
THEOREM TypeCorrect == Spec => []TypeOK
<1>1. IInv => TypeOK
  BY DEF IInv
<1>2. QED
  BY <1>1, Invariance, PTL

(* An approved revision is executed at most once, whatever decisions,      *)
(* failures and repeated calls follow (assertApproved, decide).            *)
THEOREM OncePerRevision == Spec => []RunsOncePerRevision
<1>1. IInv => RunsOncePerRevision
  BY DEF IInv
<1>2. QED
  BY <1>1, Invariance, PTL

(* The approvals a passed request names are bound to it, and no other is.  *)
LEMMA PassedBackers ==
  ASSUME IInv, NEW r \in Requests, request[r] # None, request[r].status \in Passed
  PROVE  /\ approvals[request[r].approvalId].decidedBy \in Backers(r)
         /\ \A o \in Backers(r) :
              \/ o = approvals[request[r].approvalId].decidedBy
              \/ /\ request[r].policyDecision.requiresTwoPersonApproval
                 /\ o = approvals[request[r].secondaryApprovalId].decidedBy
         /\ request[r].policyDecision.requiresTwoPersonApproval =>
              approvals[request[r].secondaryApprovalId].decidedBy \in Backers(r)
<1> DEFINE p == request[r].approvalId
           s == request[r].secondaryApprovalId
<1>1. /\ RowOK(r, request[r], approvals, runs[r]) /\ approvals \in Seq(ApprovalRecords)
      /\ request[r] \in RequestRecords
  BY Existing
<1>2. DOMAIN approvals = 1..Len(approvals) /\ Len(approvals) \in Nat
  BY <1>1
<1>3. p \in DOMAIN approvals /\ BoundApproval(r, p)
  BY <1>1, <1>2 DEF RowOK, Names, GrantedBy, BoundApproval
<1>4. request[r].policyDecision.requiresTwoPersonApproval => s \in DOMAIN approvals /\ BoundApproval(r, s)
  BY <1>1, <1>2 DEF RowOK, Names, GrantedBy, BoundApproval
<1>5. s \in DOMAIN approvals => request[r].policyDecision.requiresTwoPersonApproval
  BY <1>1, <1>2 DEF RowOK
<1>6. QED
  BY <1>3, <1>4, <1>5 DEF Backers

LEMMA BackedByRow ==
  ASSUME IInv, NEW r \in Requests, request[r] # None, request[r].status \in Passed
  PROVE  BackedFor(r, request[r].policyDecision)
<1>1. RowOK(r, request[r], approvals, runs[r])
  BY Existing
<1>2. /\ approvals[request[r].approvalId].decidedBy # request[r].requestedBy
      /\ request[r].policyDecision.requiresTwoPersonApproval =>
           /\ approvals[request[r].secondaryApprovalId].decidedBy # request[r].requestedBy
           /\ approvals[request[r].secondaryApprovalId].decidedBy
                # approvals[request[r].approvalId].decidedBy
  BY <1>1 DEF RowOK, GrantedBy
<1>3. QED
  BY <1>2, PassedBackers DEF BackedFor

(* A request that is approved, executing or executed has the approvals its *)
(* pinned policy asks for, of this revision and target, from as many       *)
(* distinct operators, none of them the requester (decide, revise).        *)
THEOREM ApprovalsBack == Spec => []ApprovedIsBacked
<1>1. IInv => ApprovedIsBacked
  BY BackedByRow DEF ApprovedIsBacked, Passed
<1>2. QED
  BY <1>1, Invariance, PTL

(* Only assertApproved makes a request executing.                          *)
LEMMA OnlyAssertExecutes ==
  ASSUME IInv, Next, NEW r \in Requests, request[r] # None, request[r].status # "executing",
         request'[r].status = "executing"
  PROVE  \E c \in Calls, o \in Operators, t \in Targets, evidence \in SUBSET Evidence :
           call[c].request = r /\ AssertApproved(c, o, t, evidence)
<1>1. ASSUME NEW x \in Requests, request[x] # None, NEW status \in DESTRUCTIVE_ACTION_STATUSES,
             request' = [request EXCEPT ![x].status = status]
      PROVE  x = r /\ status = "executing"
  <2>1. Restated(x, status, request[x].secondaryApprovalId).status = status
    <3>1. request[x].secondaryApprovalId \in Nat
      BY <1>1, Existing DEF RequestRecords
    <3>2. QED
      BY <1>1, <3>1, RestatedRecord
  <2>2. request' = [request EXCEPT ![x] = Restated(x, status, request[x].secondaryApprovalId)]
    BY <1>1, StatusStep
  <2>3. QED
    BY <2>1, <2>2 DEF IInv, TypeOK
<1>2. /\ {"approved", "rejected", "cancelled", "executed", "failed", "changes_requested", "executing"}
             \subseteq DESTRUCTIVE_ACTION_STATUSES
  BY DEF DESTRUCTIVE_ACTION_STATUSES, DESTRUCTIVE_TERMINAL_STATUSES
<1>3. request' # request
  OBVIOUS
<1>4. ASSUME NEW x \in Requests, NEW o \in Operators, NEW t \in Targets, NEW recovery \in BOOLEAN,
             Request(x, o, t, recovery) \/ Revise(x, o, t, recovery)
      PROVE  FALSE
  <2>1. request \in [Requests -> RequestRecords \cup {None}]
    BY DEF IInv, TypeOK
  <2>2. request'[x].status = "awaiting_approval" /\ \A y \in Requests : y # x => request'[y] = request[y]
    <3>1. CASE Request(x, o, t, recovery)
      BY <2>1, <3>1 DEF Request
    <3>2. CASE Revise(x, o, t, recovery)
      BY <2>1, <3>2 DEF Revise
    <3>3. QED
      BY <1>4, <3>1, <3>2
  <2>3. QED
    BY <2>2
<1>5. ASSUME NEW x \in Requests, NEW o \in Operators, ApproveFirst(x, o)
      PROVE  FALSE
  <2>1. request[x] # None
    BY <1>5 DEF ApproveFirst, MayDecide
  <2>2. request[x] \in RequestRecords
    BY <2>1, Existing
  <2>3. request'[x].status = "awaiting_approval" /\ \A y \in Requests : y # x => request'[y] = request[y]
    BY <1>5, <2>2 DEF ApproveFirst, IInv, TypeOK, RequestRecords
  <2>4. QED
    BY <2>3
<1>6. ASSUME NEW x \in Requests, NEW o \in Operators,
             \/ ApproveAlone(x, o) \/ ApproveSecond(x, o) \/ Reject(x, o) \/ Cancel(x, o)
             \/ \E decision \in {"request_changes", "prefer_safer_alternative"} : SendBack(x, o, decision)
      PROVE  FALSE
  <2>1. request[x] # None
    BY <1>6 DEF ApproveAlone, ApproveSecond, Reject, Cancel, SendBack, MayDecide
  <2>2. \E status \in {"approved", "rejected", "cancelled", "changes_requested"} :
          request' = [request EXCEPT ![x].status = status]
    BY <1>6 DEF ApproveAlone, ApproveSecond, Reject, Cancel, SendBack, NextStatus
  <2>3. QED
    BY <1>1, <1>2, <2>1, <2>2
<1>7. ASSUME NEW c \in Calls, MarkExecuted(c) \/ MarkFailed(c) \/ OutcomeLost(c)
      PROVE  FALSE
  <2>1. call[c].request \in Requests /\ request[call[c].request] # None
    BY <1>7 DEF MarkExecuted, MarkFailed, OutcomeLost, IInv, CallsFollow
  <2>2. request[call[c].request].status \in DESTRUCTIVE_ACTION_STATUSES
    BY <2>1, Existing DEF RequestRecords
  <2>3. \E status \in DESTRUCTIVE_ACTION_STATUSES \ {"executing"} :
          request' = [request EXCEPT ![call[c].request].status = status]
    BY <1>2, <1>7, <2>2 DEF MarkExecuted, MarkFailed, OutcomeLost, EndCall
  <2>4. QED
    BY <1>1, <2>1, <2>3
<1>8. ASSUME NEW c \in Calls, NEW o \in Operators, NEW t \in Targets,
             NEW evidence \in SUBSET Evidence, AssertApproved(c, o, t, evidence)
      PROVE  call[c].request = r
  <2>1. call[c].request \in Requests /\ request[call[c].request] # None
    BY <1>8 DEF AssertApproved, Loaded, IInv, CallsFollow
  <2>2. QED
    BY <1>1, <1>2, <1>8, <2>1 DEF AssertApproved
<1>9. ~RequestStep
  BY <1>4, <1>5, <1>6 DEF RequestStep
<1>10. CallStep
  BY <1>3, <1>9 DEF Next, DecideByCommand, Restart, Drift, PolicyChanges, Grant, Revoke
<1>11. PICK c \in Calls : \E o \in Operators, t \in Targets, evidence \in SUBSET Evidence :
                            AssertApproved(c, o, t, evidence)
  BY <1>3, <1>7, <1>10 DEF CallStep, BeginExecution, LoadApprover, AssertRefused
<1>12. QED
  BY <1>8, <1>11

(* An execution begins only for a call under way whose approvers were all  *)
(* approvers of the project at some moment since it began, under a policy  *)
(* that allows the action and demands no more than was approved            *)
(* (assertApproved against revocations and changes of policy).             *)
THEOREM ExecutionAuthorised == Spec => ExecutionIsAuthorised
<1> DEFINE Starts(r) ==
      request[r] # None /\ request[r].status # "executing" /\ request'[r].status = "executing"
    Authorised(r) ==
      /\ \E c \in Calls : /\ call[c].request = r
                          /\ \A o \in Backers(r) : <<o, ProjectOf[request[r].target]>> \in since[c]
      /\ policy[request[r].target].allowed
      /\ BackedFor(r, policy[request[r].target])
<1>1. ASSUME IInv, [Next]_vars, NEW r \in Requests, Starts(r)
      PROVE  Authorised(r)
  <2>1. Next
    BY <1>1 DEF vars
  <2>2. PICK c \in Calls, o \in Operators, t \in Targets, evidence \in SUBSET Evidence :
          call[c].request = r /\ AssertApproved(c, o, t, evidence)
    BY <1>1, <2>1, OnlyAssertExecutes
  <2>3. Loaded(c) /\ Assertable(c, o, t, evidence)
    BY <2>2 DEF AssertApproved
  <2>4. request[r].status \in Passed
    BY <2>2, <2>3 DEF Assertable, Passed
  <2>5. request[r] \in RequestRecords /\ request[r].policyDecision \in DecisionRecords
    BY <1>1, Existing DEF RequestRecords
  <2>6. policy[request[r].target] \in DecisionRecords
    BY <1>1, <2>5 DEF IInv, TypeOK, RequestRecords
  <2>7. policy[request[r].target].allowed
    BY <2>2, <2>3 DEF Assertable
  <2>8. policy[request[r].target].requiresTwoPersonApproval =>
          request[r].policyDecision.requiresTwoPersonApproval
    BY <2>2, <2>3 DEF Assertable, policyIsStricter
  <2>9. BackedFor(r, request[r].policyDecision)
    BY <1>1, <2>4, BackedByRow
  <2>10. BackedFor(r, policy[request[r].target])
    BY <2>8, <2>9 DEF BackedFor
  <2>11. \A b \in Backers(r) : Resolves(c, b)
    <3>1. Resolves(c, approvals[request[r].approvalId].decidedBy)
      BY <2>2, <2>3 DEF Assertable
    <3>2. request[r].policyDecision.requiresTwoPersonApproval =>
            Resolves(c, approvals[request[r].secondaryApprovalId].decidedBy)
      BY <2>2, <2>3 DEF Assertable, strongestOf
    <3>3. QED
      BY <1>1, <2>4, <3>1, <3>2, PassedBackers
  <2>12. \A b \in Backers(r) : <<b, ProjectOf[request[r].target]>> \in since[c]
    BY <1>1, <2>2, <2>3, <2>11 DEF Resolves, Loaded, IInv, CallsFollow
  <2>13. QED
    BY <2>2, <2>7, <2>10, <2>12
<1>2. IInv /\ [Next]_vars => [\A r \in Requests : Starts(r) => Authorised(r)]_vars
  BY <1>1
<1>3. QED
  BY <1>2, Invariance, PTL DEF Spec, ExecutionIsAuthorised
===============================================================================
