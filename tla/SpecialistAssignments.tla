------------------------ MODULE SpecialistAssignments -------------------------
(***************************************************************************)
(* Who works on a task and who may write where:                            *)
(* SpecialistAssignmentService (core/orchestrator/assignment-system.ts)    *)
(* and WriteScopeLeaseManager (core/orchestrator/lease-manager.ts) over    *)
(* the two write-through repositories                                      *)
(* (adapters/firebase/firestore-assignment-repository.ts and               *)
(* firestore-write-scope-lease-repository.ts).                             *)
(*                                                                         *)
(* The services are synchronous and read the cache of the one Control      *)
(* Plane instance.  Every upsert also starts a write to Firestore that     *)
(* nobody awaits and nothing orders; a cold start reads what has landed.   *)
(***************************************************************************)
EXTENDS Naturals, Sequences, FiniteSets

CONSTANTS
    Tasks, Agents, Projects, Workspaces,
    ProjectOf,       \* the project of each task
    Assignments,     \* ids createId("assign") may give
    Leases,          \* ids createId("lease") may give
    Segments, Paths, \* workspace-relative paths, as sequences of segments
    Scopes,          \* the write scopes asked for: sets of scope roots
    Whole,           \* the scope root "*"
    None,
    MaxBacklog,      \* bound: unsettled writes with which an operation still starts
    MaxFaults        \* bound: cold starts and background writes that fail

ASSUME ScopeAssumption ==
    /\ ProjectOf \in [Tasks -> Projects]
    /\ Assignments \cap Leases = {}
    /\ None \notin Assignments \cup Leases \cup Agents
    /\ Paths \subseteq Seq(Segments)
    /\ Whole \notin Paths
    /\ \A scope \in Scopes : scope \subseteq Paths \cup {Whole}
    /\ MaxBacklog \in Nat /\ MaxFaults \in Nat

VARIABLES
    cache,      \* items of both repositories, by document id
    stored,     \* the documents in Firestore
    flight,     \* writes that were started and have not settled
    expired,    \* leases whose expiresAt has passed
    loaded,     \* documents this instance found when it started
    faults

vars == <<cache, stored, flight, expired, loaded, faults>>

ASSIGNMENT_STATUSES == {"assigned", "accepted", "executing", "completed", "failed", "cancelled",
                        "reassigned"}
EndedAssignment == {"completed", "failed", "cancelled", "reassigned"}

\* ASSIGNMENT_TRANSITIONS; "pending" is never given to an assignment.
canTransitionAssignment(from, to) ==
    \/ from = "assigned" /\ to \in {"accepted", "failed", "cancelled", "reassigned"}
    \/ from = "accepted" /\ to \in {"executing", "failed", "cancelled", "reassigned"}
    \/ from = "executing" /\ to \in {"completed", "failed", "cancelled", "reassigned"}

AssignmentRecords == [task : Tasks, agent : Agents, status : ASSIGNMENT_STATUSES]
LeaseRecords == [task : Tasks, agent : Agents, workspace : Workspaces, scope : Scopes,
                 status : {"active", "released", "expired"}]

ASSUME NoneAssumption == None \notin AssignmentRecords \cup LeaseRecords

Docs == Assignments \cup Leases
Contents == [Docs -> AssignmentRecords \cup LeaseRecords \cup {None}]

TypeOK ==
    /\ cache \in Contents /\ stored \in Contents
    /\ \A x \in Assignments : {cache[x], stored[x]} \subseteq AssignmentRecords \cup {None}
    /\ \A l \in Leases : {cache[l], stored[l]} \subseteq LeaseRecords \cup {None}
    /\ \A w \in flight : IF w.doc \in Leases THEN w.value \in LeaseRecords
                         ELSE w.doc \in Assignments /\ w.value \in AssignmentRecords
    /\ expired \subseteq Leases
    /\ loaded \subseteq Docs
    /\ faults \in 0..MaxFaults

Init ==
    /\ cache = [d \in Docs |-> None]
    /\ stored = [d \in Docs |-> None]
    /\ flight = {}
    /\ expired = {}
    /\ loaded = {}
    /\ faults = 0

-------------------------------------------------------------------------------
(* Scopes.  A path is the sequence of its segments: "./src/" is            *)
(* <<".", "src", "">>.                                                     *)

\* normalize: one leading "./" goes, and every trailing "/".
normalize(path) ==
    LET p == IF Len(path) > 1 /\ path[1] = "." THEN Tail(path) ELSE path
        named == {n \in 1..Len(p) : p[n] # "" /\ \A m \in n + 1 .. Len(p) : p[m] = ""}
    IN IF named = {} THEN <<"">> ELSE SubSeq(p, 1, CHOOSE n \in named : TRUE)

\* The root's segments begin the path's.
rootCovers(root, path) ==
    \/ root = Whole
    \/ LET r == normalize(root)
           p == normalize(path)
       IN Len(r) <= Len(p) /\ \A n \in 1..Len(r) : r[n] = p[n]

scopeCovers(scope, path) == \E root \in scope : rootCovers(root, path)

\* Faulty variant: the second scope's roots are not looked at from above.
scopesConflictOneWay(a, b) ==
    \/ Whole \in a \cup b
    \/ \E left \in a, right \in b : rootCovers(left, right)

scopesConflict(a, b) ==
    \/ Whole \in a \cup b
    \/ \E left \in a, right \in b : rootCovers(left, right) \/ rootCovers(right, left)

-------------------------------------------------------------------------------
(* Leases.                                                                 *)

isLive(l) == cache[l] # None /\ cache[l].status = "active" /\ l \notin expired

\* The live leases of the workspace and the project that overlap the scope,
\* among those of c.
conflictingLeases(c, t, workspace, scope) ==
    {l \in Leases : /\ c[l] # None /\ c[l].status = "active" /\ l \notin expired
                    /\ c[l].workspace = workspace
                    /\ ProjectOf[c[l].task] = ProjectOf[t]
                    /\ scopesConflict(c[l].scope, scope)}

\* The leases releaseForTask gives up.
HeldForTask(c, t) ==
    {l \in Leases : c[l] # None /\ c[l].status = "active" /\ c[l].task = t}

ReleasedForTask(c, t) ==
    [d \in Docs |-> IF d \in HeldForTask(c, t) THEN [c[d] EXCEPT !.status = "released"] ELSE c[d]]

-------------------------------------------------------------------------------
(* Every upsert changes the cache and starts a write.                      *)

Persist(c) ==
    /\ Cardinality(flight) <= MaxBacklog
    /\ cache' = c
    /\ flight' = flight \cup {[doc |-> d, value |-> c[d]] : d \in {e \in Docs : c[e] # cache[e]}}

\* Faulty variant: left in the status before "assigned".
AssignedPending(t, a) == [task |-> t, agent |-> a, status |-> "pending"]

\* buildAssignment.  The links to the lease and to the assignment that is
\* replaced are left out: nothing reads them.
Assigned(t, a) == [task |-> t, agent |-> a, status |-> "assigned"]

\* The contents after assign made x, with a lease l unless l is None.
WithAssignment(c, x, t, a, l, workspace, scope) ==
    [d \in Docs |->
       IF d = x THEN Assigned(t, a)
       ELSE IF d = l
       THEN [task |-> t, agent |-> a, workspace |-> workspace, scope |-> scope,
             status |-> "active"]
       ELSE c[d]]

\* assign: any agent that qualifies; none, and nothing is written.  A write
\* scope that overlaps a live lease throws before anything is written.
Assign(x, t, a, l, workspace, scope) ==
    /\ cache[x] = None /\ stored[x] = None
    /\ l # None => /\ cache[l] = None /\ stored[l] = None
                   /\ conflictingLeases(cache, t, workspace, scope) = {}
    /\ Persist(WithAssignment(cache, x, t, a, l, workspace, scope))
    /\ UNCHANGED <<stored, expired, loaded, faults>>

\* Faulty variant: a cancelled assignment keeps its leases.
ReleasesCompleted(to) == to \in {"completed", "failed", "reassigned"}

\* The statuses whose transition gives the task's leases up.
Releases(to) == to \in {"completed", "failed", "cancelled", "reassigned"}

transition(x, to) ==
    /\ cache[x] # None
    /\ canTransitionAssignment(cache[x].status, to)
    /\ LET moved == [cache EXCEPT ![x].status = to]
       IN Persist(IF Releases(to) THEN ReleasedForTask(moved, cache[x].task) ELSE moved)
    /\ UNCHANGED <<stored, expired, loaded, faults>>

\* reassign: the old assignment is superseded and the task's leases are given
\* up before a replacement is looked for.
Superseded(x) == ReleasedForTask([cache EXCEPT ![x].status = "reassigned"], cache[x].task)

\* Nobody qualifies, or the replacement's scope overlaps a live lease.
ReassignFails(x) ==
    /\ cache[x] # None
    /\ cache[x].status \notin {"reassigned", "cancelled"}
    /\ Persist(Superseded(x))
    /\ UNCHANGED <<stored, expired, loaded, faults>>

\* Any agent but the one that held it.
Reassign(x, y, a, l, workspace, scope) ==
    /\ cache[x] # None
    /\ cache[x].status \notin {"reassigned", "cancelled"}
    /\ cache[y] = None /\ stored[y] = None
    /\ a # cache[x].agent
    /\ l # None =>
          /\ cache[l] = None /\ stored[l] = None
          /\ conflictingLeases(Superseded(x), cache[x].task, workspace, scope) = {}
    /\ Persist(WithAssignment(Superseded(x), y, cache[x].task, a, l, workspace, scope))
    /\ UNCHANGED <<stored, expired, loaded, faults>>

\* WriteScopeLeaseManager.release and expireStale.
release(l) ==
    /\ cache[l] # None /\ cache[l].status = "active"
    /\ Persist([cache EXCEPT ![l].status = "released"])
    /\ UNCHANGED <<stored, expired, loaded, faults>>

expireStale ==
    LET stale == {l \in expired : cache[l] # None /\ cache[l].status = "active"}
    IN /\ stale # {}
       /\ Persist([d \in Docs |-> IF d \in stale THEN [cache[d] EXCEPT !.status = "expired"]
                                  ELSE cache[d]])
       /\ UNCHANGED <<stored, expired, loaded, faults>>

-------------------------------------------------------------------------------
(* The world.                                                              *)

TtlEnds(l) ==
    /\ isLive(l)
    /\ expired' = expired \cup {l}
    /\ UNCHANGED <<cache, stored, flight, loaded, faults>>

\* Writes of one document are not ordered either.
WriteLands(w) ==
    /\ stored' = [stored EXCEPT ![w.doc] = w.value]
    /\ flight' = flight \ {w}
    /\ UNCHANGED <<cache, expired, loaded, faults>>

\* onError is told, and the write forgotten.
WriteFails(w) ==
    /\ faults < MaxFaults
    /\ faults' = faults + 1
    /\ flight' = flight \ {w}
    /\ UNCHANGED <<cache, stored, expired, loaded>>

\* The instance goes, with the writes it had not got out, and a new one loads.
ColdStart ==
    /\ faults < MaxFaults
    /\ faults' = faults + 1
    /\ cache' = stored
    /\ flight' = {}
    /\ loaded' = {d \in Docs : stored[d] # None}
    /\ UNCHANGED <<stored, expired>>

Next ==
    \/ \E x \in Assignments, a \in Agents, l \in Leases \cup {None}, workspace \in Workspaces,
          scope \in Scopes :
          \/ \E t \in Tasks : Assign(x, t, a, l, workspace, scope)
          \/ \E y \in Assignments : Reassign(x, y, a, l, workspace, scope)
    \/ \E x \in Assignments :
          \/ \E to \in ASSIGNMENT_STATUSES : transition(x, to)
          \/ ReassignFails(x)
    \/ \E l \in Leases : release(l) \/ TtlEnds(l)
    \/ expireStale
    \/ \E w \in flight : WriteLands(w) \/ WriteFails(w)
    \/ ColdStart

Spec == Init /\ [][Next]_vars

-------------------------------------------------------------------------------
(* Properties.                                                             *)

\* "Two specialists must never write the same path at the same time": a lease
\* that was granted since the cold start shares no path with any other live
\* lease of its workspace and project, however both were spelled.
GrantedAlone ==
    \A l, m \in Leases :
        /\ l # m /\ isLive(l) /\ isLive(m) /\ l \notin loaded
        /\ cache[l].workspace = cache[m].workspace
        /\ ProjectOf[cache[l].task] = ProjectOf[cache[m].task]
        => \A path \in Paths :
              ~(scopeCovers(cache[l].scope, path) /\ scopeCovers(cache[m].scope, path))

\* "A finished or abandoned task must not keep holding the workspace": a lease
\* granted since the cold start is held for an assignment of the same task and
\* agent that has not ended.
HeldByTheWorking ==
    \A l \in Leases :
        cache[l] # None /\ cache[l].status = "active" /\ l \notin loaded =>
        \E x \in Assignments : /\ cache[x] # None /\ cache[x].status \notin EndedAssignment
                               /\ cache[x].task = cache[l].task /\ cache[x].agent = cache[l].agent
===============================================================================
