--------------------- MODULE SpecialistAssignmentsProofs ----------------------
(***************************************************************************)
(* Proofs about SpecialistAssignments for any tasks, agents, scopes and    *)
(* any backlog of unordered writes: a lease that was granted shares no     *)
(* path with another live one, and is held for work that goes on.          *)
(***************************************************************************)
EXTENDS SpecialistAssignments, TLAPS

USE ScopeAssumption, NoneAssumption

-------------------------------------------------------------------------------
(* Scopes.                                                                 *)

LEMMA NormalizedPath ==
  ASSUME NEW path \in Paths
  PROVE  Len(normalize(path)) \in Nat
<1> DEFINE p == IF Len(path) > 1 /\ path[1] = "." THEN Tail(path) ELSE path
           named == {n \in 1..Len(p) : p[n] # "" /\ \A m \in n + 1 .. Len(p) : p[m] = ""}
<1>1. path \in Seq(Segments)
  OBVIOUS
<1>2. p \in Seq(Segments)
  <2>1. CASE Len(path) > 1
    <3>1. path # << >>
      BY <1>1, <2>1
    <3>2. Tail(path) \in Seq(Segments)
      BY <1>1, <3>1
    <3>3. QED
      BY <1>1, <3>2
  <2>2. CASE ~(Len(path) > 1)
    BY <1>1, <2>2
  <2>3. QED
    BY <2>1, <2>2
<1>3. normalize(path) = IF named = {} THEN <<"">> ELSE SubSeq(p, 1, CHOOSE n \in named : TRUE)
  BY DEF normalize
<1> HIDE DEF p
<1>4. CASE named = {}
  <2>1. normalize(path) = <<"">>
    BY <1>3, <1>4
  <2>2. Len(<<"">>) = 1
    OBVIOUS
  <2>3. Len(normalize(path)) = 1
    BY <2>1, <2>2, Zenon
  <2>4. QED
    BY <2>3
<1>5. CASE named # {}
  <2>1. (CHOOSE n \in named : TRUE) \in named
    BY <1>5
  <2>2. PICK n \in 1..Len(p) : normalize(path) = SubSeq(p, 1, n)
    BY <1>3, <1>5, <2>1
  <2>3. QED
    BY <1>2, <2>2
<1>6. QED
  BY <1>4, <1>5

(* Two roots that cover one path are not disjoint: one covers the other.   *)
LEMMA RootsComparable ==
  ASSUME NEW r1 \in Paths, NEW r2 \in Paths, NEW path \in Paths,
         rootCovers(r1, path), rootCovers(r2, path)
  PROVE  rootCovers(r1, r2) \/ rootCovers(r2, r1)
<1> DEFINE a == normalize(r1)
           b == normalize(r2)
           q == normalize(path)
<1>1. Len(a) \in Nat /\ Len(b) \in Nat /\ Len(q) \in Nat
  BY NormalizedPath
<1>2. /\ Len(a) <= Len(q) /\ \A n \in 1..Len(a) : a[n] = q[n]
      /\ Len(b) <= Len(q) /\ \A n \in 1..Len(b) : b[n] = q[n]
  BY DEF rootCovers
<1>3. \/ Len(a) <= Len(b) /\ \A n \in 1..Len(a) : a[n] = b[n]
      \/ Len(b) <= Len(a) /\ \A n \in 1..Len(b) : b[n] = a[n]
  <2> HIDE DEF a, b, q
  <2>1. QED
    BY <1>1, <1>2
<1>4. QED
  BY <1>3 DEF rootCovers

(* What acquisition compares and what enforcement asks agree: scopes that  *)
(* share a path conflict.                                                  *)
LEMMA SharedPathConflicts ==
  ASSUME NEW s1 \in Scopes, NEW s2 \in Scopes, NEW path \in Paths,
         scopeCovers(s1, path), scopeCovers(s2, path)
  PROVE  scopesConflict(s1, s2) /\ scopesConflict(s2, s1)
<1>1. PICK r1 \in s1 : rootCovers(r1, path)
  BY DEF scopeCovers
<1>2. PICK r2 \in s2 : rootCovers(r2, path)
  BY DEF scopeCovers
<1>3. CASE r1 = Whole \/ r2 = Whole
  BY <1>1, <1>2, <1>3 DEF scopesConflict
<1>4. CASE r1 # Whole /\ r2 # Whole
  <2>1. r1 \in Paths /\ r2 \in Paths
    BY <1>1, <1>2, <1>4
  <2>2. rootCovers(r1, r2) \/ rootCovers(r2, r1)
    BY <1>1, <1>2, <2>1, RootsComparable
  <2>3. QED
    BY <1>1, <1>2, <2>2 DEF scopesConflict
<1>5. QED
  BY <1>3, <1>4

-------------------------------------------------------------------------------
(* The contents of the repositories.  Every operation computes the next    *)
(* contents from the cache; the promises are stated of any contents, so    *)
(* that the intermediate ones of reassign can be spoken about.             *)

Typed(c) ==
    /\ c \in Contents
    /\ \A x \in Assignments : c[x] \in AssignmentRecords \cup {None}
    /\ \A l \in Leases : c[l] \in LeaseRecords \cup {None}

ActiveIn(c, l) == c[l] # None /\ c[l].status = "active"

Overlap(c, l, m) ==
    /\ c[l].workspace = c[m].workspace
    /\ ProjectOf[c[l].task] = ProjectOf[c[m].task]
    /\ \E path \in Paths : scopeCovers(c[l].scope, path) /\ scopeCovers(c[m].scope, path)

AloneIn(c) ==
    \A l, m \in Leases :
        l # m /\ ActiveIn(c, l) /\ ActiveIn(c, m) /\ {l, m} \cap expired = {} /\ l \notin loaded
        => ~Overlap(c, l, m)

WorksOn(c, x, l) ==
    /\ c[x] # None /\ c[x].status \notin EndedAssignment
    /\ c[x].task = c[l].task /\ c[x].agent = c[l].agent

HeldIn(c) ==
    \A l \in Leases : ActiveIn(c, l) /\ l \notin loaded => \E x \in Assignments : WorksOn(c, x, l)

\* Nothing that was there is gone.
Keeps(c, d) == \A k \in Docs : c[k] # None => d[k] # None

LoadedThere(c) == \A k \in loaded : k \in Docs /\ c[k] # None

Good(c) == Typed(c) /\ AloneIn(c) /\ HeldIn(c) /\ LoadedThere(c)

\* The promises and what they rest on: a document the instance loaded is still
\* in the cache, so a fresh lease is not mistaken for a loaded one.
IInv == TypeOK /\ LoadedThere(cache) /\ GrantedAlone /\ HeldByTheWorking

LEMMA GoodCache == IInv <=> TypeOK /\ Good(cache)
<1>1. TypeOK => Typed(cache)
  BY DEF TypeOK, Typed
<1>2. GrantedAlone <=> AloneIn(cache)
  BY DEF GrantedAlone, AloneIn, isLive, ActiveIn, Overlap
<1>3. HeldByTheWorking <=> HeldIn(cache)
  BY DEF HeldByTheWorking, HeldIn, ActiveIn, WorksOn
<1>4. QED
  BY <1>1, <1>2, <1>3 DEF IInv, Good

(* Contents whose active leases were active before share no path anew.     *)
LEMMA FewerLeases ==
  ASSUME NEW c, NEW d, AloneIn(c),
         \A l \in Leases : ActiveIn(d, l) => ActiveIn(c, l) /\ d[l] = c[l]
  PROVE  AloneIn(d)
BY DEF AloneIn, Overlap

(* Giving up the leases of a task.                                         *)
LEMMA ReleaseKeeps ==
  ASSUME NEW c, Typed(c), NEW t \in Tasks
  PROVE  /\ Typed(ReleasedForTask(c, t))
         /\ Keeps(c, ReleasedForTask(c, t))
         /\ \A x \in Assignments : ReleasedForTask(c, t)[x] = c[x]
         /\ \A l \in Leases : ActiveIn(ReleasedForTask(c, t), l) =>
               ActiveIn(c, l) /\ ReleasedForTask(c, t)[l] = c[l] /\ c[l].task # t
<1> DEFINE d == ReleasedForTask(c, t)
<1>1. \A k \in Docs : d[k] = IF k \in HeldForTask(c, t) THEN [c[k] EXCEPT !.status = "released"]
                              ELSE c[k]
  BY DEF ReleasedForTask
<1>2. DOMAIN d = Docs /\ d = [k \in Docs |-> d[k]]
  BY DEF ReleasedForTask
<1>3. \A x \in Assignments : x \in Docs /\ x \notin HeldForTask(c, t)
  BY DEF Docs, HeldForTask
<1>4. ASSUME NEW l \in Leases
      PROVE  /\ d[l] \in LeaseRecords \cup {None}
             /\ c[l] # None => d[l] # None
             /\ ActiveIn(d, l) => ActiveIn(c, l) /\ d[l] = c[l] /\ c[l].task # t
  <2>1. l \in Docs /\ c[l] \in LeaseRecords \cup {None}
    BY DEF Docs, Typed
  <2>2. CASE l \in HeldForTask(c, t)
    <3>1. c[l] \in LeaseRecords /\ d[l] = [c[l] EXCEPT !.status = "released"]
      BY <1>1, <2>1, <2>2 DEF HeldForTask
    <3>2. d[l] \in LeaseRecords /\ d[l].status = "released"
      BY <3>1 DEF LeaseRecords
    <3>3. QED
      BY <3>2 DEF ActiveIn
  <2>3. CASE l \notin HeldForTask(c, t)
    BY <1>1, <2>1, <2>3 DEF HeldForTask, ActiveIn
  <2>4. QED
    BY <2>2, <2>3
<1>5. \A x \in Assignments : d[x] = c[x]
  BY <1>1, <1>3
<1>6. Typed(d)
  <2>1. \A x \in Assignments : d[x] \in AssignmentRecords \cup {None}
    BY <1>5 DEF Typed
  <2>2. d \in Contents
    BY <1>2, <1>4, <2>1 DEF Contents, Docs
  <2>3. QED
    BY <1>4, <2>1, <2>2 DEF Typed
<1>7. Keeps(c, d)
  BY <1>4, <1>5 DEF Keeps, Docs
<1>8. QED
  BY <1>4, <1>5, <1>6, <1>7

(* An assignment whose status moves.                                       *)
Moved(x, to) == [cache EXCEPT ![x].status = to]
Given(x, to) == ReleasedForTask(Moved(x, to), cache[x].task)

LEMMA MoveKeeps ==
  ASSUME Typed(cache), NEW x \in Assignments, cache[x] # None, NEW to \in ASSIGNMENT_STATUSES,
         NEW moved, moved = Moved(x, to)
  PROVE  /\ Typed(moved)
         /\ Keeps(cache, moved)
         /\ moved[x] \in AssignmentRecords /\ moved[x].status = to
         /\ moved[x].task = cache[x].task /\ moved[x].agent = cache[x].agent
         /\ \A k \in Docs \ {x} : moved[k] = cache[k]
         /\ x \in Docs \ Leases /\ cache[x].task \in Tasks
<1>1. cache \in [Docs -> AssignmentRecords \cup LeaseRecords \cup {None}]
  BY DEF Typed, Contents
<1>2. x \in Docs \ Leases /\ cache[x] \in AssignmentRecords
  BY DEF Docs, Typed
<1>3. moved[x] = [cache[x] EXCEPT !.status = to] /\ DOMAIN moved = Docs
  BY <1>1, <1>2 DEF Moved
<1>4. /\ moved[x] \in AssignmentRecords /\ moved[x].status = to
      /\ moved[x].task = cache[x].task /\ moved[x].agent = cache[x].agent
      /\ cache[x].task \in Tasks
  BY <1>2, <1>3 DEF AssignmentRecords
<1>5. \A k \in Docs \ {x} : moved[k] = cache[k]
  BY <1>1, <1>2 DEF Moved
<1>6. moved \in Contents
  BY <1>1, <1>2, <1>4, <1>5 DEF Contents, Moved
<1>7. Typed(moved)
  BY <1>2, <1>4, <1>5, <1>6 DEF Typed, Docs
<1>8. Keeps(cache, moved)
  BY <1>4, <1>5 DEF Keeps
<1>9. QED
  BY <1>2, <1>4, <1>5, <1>7, <1>8

(* Work that goes on keeps its leases.                                     *)
LEMMA WorkGoesOn ==
  ASSUME Good(cache), NEW x \in Assignments, cache[x] # None,
         NEW to \in ASSIGNMENT_STATUSES \ EndedAssignment,
         NEW moved, moved = Moved(x, to)
  PROVE  Good(moved) /\ Keeps(cache, moved)
<1>1. Typed(cache)
  BY DEF Good
<1>2. /\ Typed(moved) /\ Keeps(cache, moved)
      /\ moved[x] # None /\ moved[x].status = to
      /\ moved[x].task = cache[x].task /\ moved[x].agent = cache[x].agent
      /\ \A k \in Docs \ {x} : moved[k] = cache[k]
      /\ x \in Docs \ Leases
  BY <1>1, MoveKeeps
<1>3. \A l \in Leases : moved[l] = cache[l]
  BY <1>2 DEF Docs
<1>4. AloneIn(moved)
  <2>1. AloneIn(cache)
    BY DEF Good
  <2>2. QED
    BY <1>3, <2>1, FewerLeases DEF ActiveIn
<1>5. HeldIn(moved)
  <2> SUFFICES ASSUME NEW l \in Leases, ActiveIn(moved, l), l \notin loaded
               PROVE  \E y \in Assignments : WorksOn(moved, y, l)
    BY DEF HeldIn
  <2>1. PICK y \in Assignments : WorksOn(cache, y, l)
    BY <1>3 DEF Good, HeldIn, ActiveIn
  <2>2. WorksOn(moved, y, l)
    BY <1>2, <1>3, <2>1 DEF WorksOn, Docs
  <2>3. QED
    BY <2>2
<1>6. LoadedThere(moved)
  BY <1>2 DEF Good, LoadedThere, Keeps
<1>7. QED
  BY <1>2, <1>4, <1>5, <1>6 DEF Good

(* Work that ends gives the leases of its task up, whoever held them.      *)
LEMMA WorkEnds ==
  ASSUME Good(cache), NEW x \in Assignments, cache[x] # None, NEW to \in ASSIGNMENT_STATUSES,
         NEW given, given = Given(x, to)
  PROVE  Good(given) /\ Keeps(cache, given)
<1> DEFINE moved == Moved(x, to)
<1>1. Typed(cache)
  BY DEF Good
<1>2. /\ Typed(moved) /\ Keeps(cache, moved)
      /\ \A k \in Docs \ {x} : moved[k] = cache[k]
      /\ x \in Docs \ Leases /\ cache[x].task \in Tasks
      /\ moved[x].task = cache[x].task
  BY <1>1, MoveKeeps
<1> HIDE DEF moved
<1>3. /\ Typed(given) /\ Keeps(moved, given)
      /\ \A y \in Assignments : given[y] = moved[y]
      /\ \A l \in Leases : ActiveIn(given, l) =>
            ActiveIn(moved, l) /\ given[l] = moved[l] /\ moved[l].task # cache[x].task
  <2>1. given = ReleasedForTask(moved, cache[x].task)
    BY DEF moved, Given
  <2>2. QED
    BY <1>2, <2>1, ReleaseKeeps
<1>4. \A l \in Leases : moved[l] = cache[l]
  BY <1>2 DEF Docs
<1>5. AloneIn(given)
  <2>1. AloneIn(cache)
    BY DEF Good
  <2>2. QED
    BY <1>3, <1>4, <2>1, FewerLeases DEF ActiveIn
<1>6. HeldIn(given)
  <2> SUFFICES ASSUME NEW l \in Leases, ActiveIn(given, l), l \notin loaded
               PROVE  \E y \in Assignments : WorksOn(given, y, l)
    BY DEF HeldIn
  <2>1. ActiveIn(cache, l) /\ given[l] = cache[l] /\ cache[l].task # cache[x].task
    BY <1>3, <1>4 DEF ActiveIn
  <2>2. PICK y \in Assignments : WorksOn(cache, y, l)
    BY <2>1 DEF Good, HeldIn
  <2>3. y # x
    BY <2>1, <2>2 DEF WorksOn
  <2>4. given[y] = cache[y]
    BY <1>2, <1>3, <2>3 DEF Docs
  <2>5. QED
    BY <2>1, <2>2, <2>4 DEF WorksOn
<1>7. Keeps(cache, given)
  BY <1>2, <1>3 DEF Keeps
<1>8. QED
  BY <1>3, <1>5, <1>6, <1>7 DEF Good, LoadedThere, Keeps

(* A new assignment, and its lease when the scope is free.                 *)
LEMMA GrantKeeps ==
  ASSUME NEW c, Good(c), NEW x \in Assignments, c[x] = None, NEW t \in Tasks, NEW a \in Agents,
         NEW l \in Leases \cup {None}, NEW workspace \in Workspaces, NEW scope \in Scopes,
         l # None => c[l] = None /\ conflictingLeases(c, t, workspace, scope) = {},
         NEW d, d = WithAssignment(c, x, t, a, l, workspace, scope)
  PROVE  Good(d) /\ Keeps(c, d)
<1> DEFINE lease == [task |-> t, agent |-> a, workspace |-> workspace, scope |-> scope,
                     status |-> "active"]
<1>1. /\ Typed(c) /\ AloneIn(c) /\ HeldIn(c) /\ LoadedThere(c)
      /\ x \in Docs /\ x # l /\ x \notin Leases
  BY DEF Good, Docs
<1>2. /\ d \in [Docs -> {d[k] : k \in Docs}]
      /\ d[x] = Assigned(t, a)
      /\ l # None => d[l] = lease
      /\ \A k \in Docs \ {x, l} : d[k] = c[k]
  BY <1>1 DEF WithAssignment, Docs
<1>3. Assigned(t, a) \in AssignmentRecords /\ lease \in LeaseRecords
  BY DEF Assigned, AssignmentRecords, ASSIGNMENT_STATUSES, LeaseRecords
<1>4. Typed(d)
  <2>1. \A y \in Assignments : d[y] \in AssignmentRecords \cup {None}
    BY <1>1, <1>2, <1>3 DEF Typed, Docs
  <2>2. \A m \in Leases : d[m] \in LeaseRecords \cup {None}
    BY <1>1, <1>2, <1>3 DEF Typed, Docs
  <2>3. d \in Contents
    BY <1>2, <2>1, <2>2 DEF Contents, Docs
  <2>4. QED
    BY <2>1, <2>2, <2>3 DEF Typed
<1>5. Keeps(c, d)
  <2> SUFFICES ASSUME NEW k \in Docs, c[k] # None PROVE d[k] # None
    BY DEF Keeps
  <2>1. k # None /\ k # x
    BY DEF Docs
  <2>2. k # l
    BY <2>1
  <2>3. QED
    BY <1>2, <2>1, <2>2
<1>6. \A m \in Leases : m # l => d[m] = c[m]
  BY <1>1, <1>2 DEF Docs
<1>7. AloneIn(d)
  <2> SUFFICES ASSUME NEW m \in Leases, NEW n \in Leases, m # n, ActiveIn(d, m), ActiveIn(d, n),
                      {m, n} \cap expired = {}, m \notin loaded, Overlap(d, m, n)
               PROVE  FALSE
    BY DEF AloneIn
  <2>1. CASE m # l /\ n # l
    BY <1>1, <1>6, <2>1 DEF AloneIn, ActiveIn, Overlap
  <2>2. ASSUME NEW k \in Leases, l # None, k # l, ActiveIn(d, k), k \notin expired,
               d[k].workspace = d[l].workspace, ProjectOf[d[k].task] = ProjectOf[d[l].task],
               NEW path \in Paths, scopeCovers(d[k].scope, path), scopeCovers(d[l].scope, path)
        PROVE  FALSE
    <3>1. d[k] = c[k] /\ d[l] = lease
      BY <1>2, <1>6, <2>2
    <3>2. c[k] \in LeaseRecords
      BY <1>1, <2>2, <3>1 DEF Typed, ActiveIn
    <3>3. c[k].scope \in Scopes
      BY <3>2 DEF LeaseRecords
    <3>4. scopesConflict(c[k].scope, scope)
      BY <2>2, <3>1, <3>3, SharedPathConflicts
    <3>5. k \in conflictingLeases(c, t, workspace, scope)
      BY <2>2, <3>1, <3>4 DEF conflictingLeases, ActiveIn
    <3>6. QED
      BY <2>2, <3>5
  <2>3. CASE m = l
    BY <2>2, <2>3 DEF Overlap
  <2>4. CASE n = l
    BY <2>2, <2>4 DEF Overlap
  <2>5. QED
    BY <2>1, <2>3, <2>4
<1>8. HeldIn(d)
  <2> SUFFICES ASSUME NEW m \in Leases, ActiveIn(d, m), m \notin loaded
               PROVE  \E y \in Assignments : WorksOn(d, y, m)
    BY DEF HeldIn
  <2>1. CASE m = l
    <3>1. d[m] = lease
      BY <1>2, <2>1
    <3>2. WorksOn(d, x, m)
      BY <1>2, <1>3, <3>1 DEF WorksOn, Assigned, EndedAssignment
    <3>3. QED
      BY <3>2
  <2>2. CASE m # l
    <3>1. PICK y \in Assignments : WorksOn(c, y, m)
      BY <1>1, <1>6, <2>2 DEF HeldIn, ActiveIn
    <3>2. y # x /\ y # l /\ y \in Docs
      BY <3>1 DEF WorksOn, Docs
    <3>3. WorksOn(d, y, m)
      BY <1>2, <1>6, <2>2, <3>1, <3>2 DEF WorksOn
    <3>4. QED
      BY <3>3
  <2>3. QED
    BY <2>1, <2>2
<1>9. LoadedThere(d)
  BY <1>1, <1>5 DEF LoadedThere, Keeps
<1>10. QED
  BY <1>4, <1>5, <1>7, <1>8, <1>9 DEF Good

-------------------------------------------------------------------------------
(* Steps.                                                                  *)

LEMMA PersistPreserves ==
  ASSUME TypeOK, NEW c, Good(c), Keeps(cache, c), Persist(c),
         UNCHANGED <<stored, expired, loaded, faults>>
  PROVE  IInv'
<1>1. cache' = c /\ Typed(c)
  BY DEF Persist, Good
<1>2. \A w \in flight' : IF w.doc \in Leases THEN w.value \in LeaseRecords
                         ELSE w.doc \in Assignments /\ w.value \in AssignmentRecords
  <2> SUFFICES ASSUME NEW d \in Docs, c[d] # cache[d]
               PROVE  IF d \in Leases THEN c[d] \in LeaseRecords
                      ELSE d \in Assignments /\ c[d] \in AssignmentRecords
    BY DEF Persist, TypeOK
  <2>1. c[d] # None
    BY DEF Keeps
  <2>2. QED
    BY <1>1, <2>1 DEF Typed, Docs
<1>3. TypeOK'
  BY <1>1, <1>2 DEF TypeOK, Typed
<1>4. Good(cache)'
  <2>1. LoadedThere(cache)'
    BY <1>1 DEF Good, LoadedThere
  <2>2. Typed(cache)'
    BY <1>1 DEF Typed
  <2>3. AloneIn(cache)'
    BY <1>1 DEF Good, AloneIn, ActiveIn, Overlap
  <2>4. HeldIn(cache)'
    BY <1>1 DEF Good, HeldIn, ActiveIn, WorksOn
  <2>5. QED
    BY <2>1, <2>2, <2>3, <2>4 DEF Good
<1>5. (TypeOK /\ Good(cache) => IInv)'
  BY GoodCache, PTL
<1>6. QED
  BY <1>3, <1>4, <1>5

LEMMA AssignPreserves ==
  ASSUME IInv, NEW x \in Assignments, NEW t \in Tasks, NEW a \in Agents,
         NEW l \in Leases \cup {None}, NEW workspace \in Workspaces, NEW scope \in Scopes,
         Assign(x, t, a, l, workspace, scope)
  PROVE  IInv'
<1> DEFINE d == WithAssignment(cache, x, t, a, l, workspace, scope)
<1>1. TypeOK /\ Good(cache)
  BY GoodCache
<1>2. /\ cache[x] = None
      /\ l # None => cache[l] = None /\ conflictingLeases(cache, t, workspace, scope) = {}
      /\ Persist(d) /\ UNCHANGED <<stored, expired, loaded, faults>>
  BY DEF Assign
<1>3. Good(d) /\ Keeps(cache, d)
  BY <1>1, <1>2, GrantKeeps
<1> HIDE DEF d
<1>4. QED
  BY <1>1, <1>2, <1>3, PersistPreserves

LEMMA TransitionPreserves ==
  ASSUME IInv, NEW x \in Assignments, NEW to \in ASSIGNMENT_STATUSES, transition(x, to)
  PROVE  IInv'
<1>1. TypeOK /\ Good(cache)
  BY GoodCache
<1>2. cache[x] # None /\ UNCHANGED <<stored, expired, loaded, faults>>
  BY DEF transition
<1>3. CASE Releases(to)
  <2>1. Persist(Given(x, to))
    BY <1>3 DEF transition, Given, Moved
  <2>2. Good(Given(x, to)) /\ Keeps(cache, Given(x, to))
    BY <1>1, <1>2, WorkEnds
  <2>3. QED
    BY <1>1, <1>2, <2>1, <2>2, PersistPreserves
<1>4. CASE ~Releases(to)
  <2>1. Persist(Moved(x, to))
    BY <1>4 DEF transition, Moved
  <2>2. to \in ASSIGNMENT_STATUSES \ EndedAssignment
    BY <1>4 DEF Releases, ASSIGNMENT_STATUSES, EndedAssignment
  <2>3. Good(Moved(x, to)) /\ Keeps(cache, Moved(x, to))
    BY <1>1, <1>2, <2>2, WorkGoesOn
  <2>4. QED
    BY <1>1, <1>2, <2>1, <2>3, PersistPreserves
<1>5. QED
  BY <1>3, <1>4

(* The contents between the two halves of reassign.                        *)
LEMMA SupersededKeeps ==
  ASSUME Good(cache), NEW x \in Assignments, cache[x] # None
  PROVE  Good(Superseded(x)) /\ Keeps(cache, Superseded(x))
<1>1. "reassigned" \in ASSIGNMENT_STATUSES
  BY DEF ASSIGNMENT_STATUSES
<1>2. Superseded(x) = Given(x, "reassigned")
  BY DEF Superseded, Given, Moved
<1>3. QED
  BY <1>1, <1>2, WorkEnds

LEMMA ReassignFailsPreserves ==
  ASSUME IInv, NEW x \in Assignments, ReassignFails(x)
  PROVE  IInv'
<1>1. TypeOK /\ Good(cache)
  BY GoodCache
<1>2. /\ cache[x] # None /\ Persist(Superseded(x))
      /\ UNCHANGED <<stored, expired, loaded, faults>>
  BY DEF ReassignFails
<1>3. Good(Superseded(x)) /\ Keeps(cache, Superseded(x))
  BY <1>1, <1>2, SupersededKeeps
<1>4. QED
  BY <1>1, <1>2, <1>3, PersistPreserves

LEMMA ReassignPreserves ==
  ASSUME IInv, NEW x \in Assignments, NEW y \in Assignments, NEW a \in Agents,
         NEW l \in Leases \cup {None}, NEW workspace \in Workspaces, NEW scope \in Scopes,
         Reassign(x, y, a, l, workspace, scope)
  PROVE  IInv'
<1> DEFINE c == Superseded(x)
           t == cache[x].task
           d == WithAssignment(c, y, t, a, l, workspace, scope)
<1>1. TypeOK /\ Good(cache)
  BY GoodCache
<1>2. /\ cache[x] # None /\ cache[y] = None
      /\ l # None => cache[l] = None /\ conflictingLeases(c, t, workspace, scope) = {}
      /\ Persist(d) /\ UNCHANGED <<stored, expired, loaded, faults>>
  BY DEF Reassign
<1>3. Good(c) /\ Keeps(cache, c)
  BY <1>1, <1>2, SupersededKeeps
<1>4. t \in Tasks
  <2>1. cache[x] \in AssignmentRecords
    BY <1>1, <1>2 DEF TypeOK
  <2>2. QED
    BY <2>1 DEF AssignmentRecords
<1>5. c[y] = None /\ (l # None => c[l] = None)
  <2>1. \A k \in Docs : cache[k] = None => c[k] = None
    <3> SUFFICES ASSUME NEW k \in Docs, cache[k] = None PROVE c[k] = None
      OBVIOUS
    <3>1. Typed(cache) /\ "reassigned" \in ASSIGNMENT_STATUSES
      BY <1>1 DEF Good, ASSIGNMENT_STATUSES
    <3>2. Moved(x, "reassigned")[k] = cache[k]
      BY <1>2, <3>1, MoveKeeps
    <3>3. c = ReleasedForTask(Moved(x, "reassigned"), t)
      BY DEF Superseded, Moved
    <3>4. QED
      BY <3>2, <3>3 DEF ReleasedForTask, HeldForTask
  <2>2. QED
    BY <1>2, <2>1 DEF Docs
<1> HIDE DEF c, t
<1>6. Good(d) /\ Keeps(c, d)
  BY <1>2, <1>3, <1>4, <1>5, GrantKeeps
<1>7. Keeps(cache, d)
  BY <1>3, <1>6 DEF Keeps
<1> HIDE DEF d
<1>8. QED
  BY <1>1, <1>2, <1>6, <1>7, PersistPreserves

(* release and expireStale leave fewer active leases.                      *)
LEMMA DropKeeps ==
  ASSUME Good(cache), NEW c, Typed(c), Keeps(cache, c),
         \A x \in Assignments : c[x] = cache[x],
         \A l \in Leases : ActiveIn(c, l) => c[l] = cache[l]
  PROVE  Good(c)
<1>1. \A l \in Leases : ActiveIn(c, l) => ActiveIn(cache, l) /\ c[l] = cache[l]
  BY DEF ActiveIn
<1>2. AloneIn(c)
  BY <1>1, FewerLeases DEF Good
<1>3. HeldIn(c)
  BY <1>1 DEF Good, HeldIn, WorksOn
<1>4. LoadedThere(c)
  BY DEF Good, LoadedThere, Keeps
<1>5. QED
  BY <1>2, <1>3, <1>4 DEF Good

LEMMA ReleasePreserves ==
  ASSUME IInv, NEW l \in Leases, release(l)
  PROVE  IInv'
<1> DEFINE c == [cache EXCEPT ![l].status = "released"]
<1>1. TypeOK /\ Good(cache)
  BY GoodCache
<1>2. /\ cache[l] # None /\ Persist(c) /\ UNCHANGED <<stored, expired, loaded, faults>>
  BY DEF release
<1>3. cache[l] \in LeaseRecords /\ l \in Docs \ Assignments
  BY <1>1, <1>2 DEF TypeOK, Docs
<1>4. /\ c[l] \in LeaseRecords /\ c[l].status = "released"
      /\ \A k \in Docs \ {l} : c[k] = cache[k]
      /\ c \in Contents
  BY <1>1, <1>3 DEF TypeOK, Contents, LeaseRecords
<1> HIDE DEF c
<1>5. Typed(c) /\ Keeps(cache, c)
  BY <1>1, <1>3, <1>4 DEF TypeOK, Typed, Keeps, Docs
<1>6. /\ \A x \in Assignments : c[x] = cache[x]
      /\ \A m \in Leases : ActiveIn(c, m) => c[m] = cache[m]
  BY <1>3, <1>4 DEF Docs, ActiveIn
<1>7. Good(c)
  BY <1>1, <1>5, <1>6, DropKeeps
<1>8. QED
  BY <1>1, <1>2, <1>5, <1>7, PersistPreserves

LEMMA ExpirePreserves ==
  ASSUME IInv, expireStale
  PROVE  IInv'
<1> DEFINE stale == {l \in expired : cache[l] # None /\ cache[l].status = "active"}
           c == [d \in Docs |-> IF d \in stale THEN [cache[d] EXCEPT !.status = "expired"]
                                ELSE cache[d]]
<1>1. TypeOK /\ Good(cache)
  BY GoodCache
<1>2. Persist(c) /\ UNCHANGED <<stored, expired, loaded, faults>>
  BY DEF expireStale
<1>3. ASSUME NEW l \in Leases
      PROVE  /\ c[l] \in LeaseRecords \cup {None}
             /\ cache[l] # None => c[l] # None
             /\ ActiveIn(c, l) => c[l] = cache[l]
  <2>1. l \in Docs /\ cache[l] \in LeaseRecords \cup {None}
    BY <1>1 DEF TypeOK, Docs
  <2>2. CASE l \in stale
    <3>1. c[l] = [cache[l] EXCEPT !.status = "expired"] /\ cache[l] \in LeaseRecords
      BY <2>1, <2>2
    <3>2. c[l] \in LeaseRecords /\ c[l].status = "expired"
      BY <3>1 DEF LeaseRecords
    <3>3. QED
      BY <3>2 DEF ActiveIn
  <2>3. CASE l \notin stale
    BY <2>1, <2>3
  <2>4. QED
    BY <2>2, <2>3
<1>4. \A x \in Assignments : c[x] = cache[x] /\ c[x] \in AssignmentRecords \cup {None}
  BY <1>1 DEF TypeOK, Docs
<1>5. c \in Contents
  BY <1>3, <1>4 DEF Contents, Docs
<1> HIDE DEF c
<1>6. Typed(c) /\ Keeps(cache, c)
  BY <1>3, <1>4, <1>5 DEF Typed, Keeps, Docs
<1>7. Good(c)
  BY <1>1, <1>3, <1>4, <1>6, DropKeeps
<1>8. QED
  BY <1>1, <1>2, <1>6, <1>7, PersistPreserves

LEMMA WorldPreserves ==
  ASSUME IInv,
         \/ \E l \in Leases : TtlEnds(l)
         \/ \E w \in flight : WriteLands(w) \/ WriteFails(w)
         \/ ColdStart
  PROVE  IInv'
<1>1. CASE \E l \in Leases : TtlEnds(l)
  <2>1. UNCHANGED <<cache, stored, flight, loaded, faults>> /\ expired \subseteq expired'
    BY <1>1 DEF TtlEnds
  <2>2. TypeOK'
    BY <1>1, <2>1 DEF IInv, TypeOK, TtlEnds, Contents, Docs, AssignmentRecords, LeaseRecords
  <2>3. QED
    BY <2>1, <2>2 DEF IInv, LoadedThere, GrantedAlone, HeldByTheWorking, isLive, scopeCovers
<1>2. ASSUME NEW w \in flight, WriteLands(w)
      PROVE  IInv'
  <2>1. /\ w.doc \in Docs /\ UNCHANGED <<cache, expired, loaded, faults>>
        /\ stored' = [stored EXCEPT ![w.doc] = w.value]
        /\ flight' \subseteq flight
    BY <1>2 DEF IInv, TypeOK, WriteLands, Docs
  <2>2. TypeOK'
    BY <2>1 DEF IInv, TypeOK, Contents, Docs
  <2>3. QED
    BY <2>1, <2>2 DEF IInv, LoadedThere, GrantedAlone, HeldByTheWorking, isLive, scopeCovers
<1>3. ASSUME NEW w \in flight, WriteFails(w)
      PROVE  IInv'
  <2>1. /\ UNCHANGED <<cache, stored, expired, loaded>> /\ flight' \subseteq flight
        /\ faults' \in 0..MaxFaults
    BY <1>3 DEF IInv, TypeOK, WriteFails
  <2>2. TypeOK'
    BY <2>1 DEF IInv, TypeOK
  <2>3. QED
    BY <2>1, <2>2 DEF IInv, LoadedThere, GrantedAlone, HeldByTheWorking, isLive, scopeCovers
<1>4. CASE ColdStart
  <2>1. /\ cache' = stored /\ flight' = {} /\ UNCHANGED <<stored, expired>>
        /\ loaded' = {d \in Docs : stored[d] # None}
        /\ faults' \in 0..MaxFaults
    BY <1>4 DEF IInv, TypeOK, ColdStart
  <2>2. TypeOK'
    BY <2>1 DEF IInv, TypeOK
  <2>3. \A l \in Leases : l \notin loaded' => cache'[l] = None
    BY <2>1 DEF Docs
  <2>4. QED
    BY <2>1, <2>2, <2>3 DEF IInv, LoadedThere, GrantedAlone, HeldByTheWorking, isLive
<1>5. QED
  BY <1>1, <1>2, <1>3, <1>4

LEMMA NextPreserves == IInv /\ [Next]_vars => IInv'
<1> SUFFICES ASSUME IInv, [Next]_vars PROVE IInv'
  OBVIOUS
<1>1. ASSUME NEW x \in Assignments, NEW a \in Agents, NEW l \in Leases \cup {None},
             NEW workspace \in Workspaces, NEW scope \in Scopes,
             \/ \E t \in Tasks : Assign(x, t, a, l, workspace, scope)
             \/ \E y \in Assignments : Reassign(x, y, a, l, workspace, scope)
      PROVE  IInv'
  BY <1>1, AssignPreserves, ReassignPreserves
<1>2. ASSUME NEW x \in Assignments,
             (\E to \in ASSIGNMENT_STATUSES : transition(x, to)) \/ ReassignFails(x)
      PROVE  IInv'
  BY <1>2, TransitionPreserves, ReassignFailsPreserves
<1>3. ASSUME NEW l \in Leases, release(l) PROVE IInv'
  BY <1>3, ReleasePreserves
<1>4. CASE expireStale
  BY <1>4, ExpirePreserves
<1>5. CASE \/ \E l \in Leases : TtlEnds(l)
           \/ \E w \in flight : WriteLands(w) \/ WriteFails(w)
           \/ ColdStart
  BY <1>5, WorldPreserves
<1>6. CASE UNCHANGED vars
  BY <1>6 DEF vars, IInv, TypeOK, LoadedThere, GrantedAlone, HeldByTheWorking, isLive, scopeCovers
<1>7. QED
  BY <1>1, <1>2, <1>3, <1>4, <1>5, <1>6 DEF Next

-------------------------------------------------------------------------------
(* Theorems.                                                               *)

\* Assignments and leases keep to the invariant, whatever is asked of the two
\* services, whichever writes land and whenever the instance is replaced.
THEOREM Invariance == Spec => []IInv
<1>1. Init => IInv
  BY DEF Init, IInv, TypeOK, Contents, LoadedThere, GrantedAlone, HeldByTheWorking, isLive, Docs
<1>2. QED
  BY <1>1, NextPreserves, PTL DEF Spec

\* Documents keep their form in the cache, in Firestore and on the way there.
THEOREM TypeCorrect == Spec => []TypeOK
<1>1. IInv => TypeOK
  BY DEF IInv
<1>2. QED
  BY <1>1, Invariance, PTL

\* acquire compares scope roots with each other, hasValidLease a root with a
\* path: however the roots are spelled, two leases that may both be used never
\* cover one path, unless a cold start loaded both.
THEOREM WritersApart == Spec => []GrantedAlone
<1>1. IInv => GrantedAlone
  BY DEF IInv
<1>2. QED
  BY <1>1, Invariance, PTL

\* transition and reassign give a task's leases up whenever its assignment
\* ends, so that a lease granted by this instance is held for work that goes on.
THEOREM LeasesFollowWork == Spec => []HeldByTheWorking
<1>1. IInv => HeldByTheWorking
  BY DEF IInv
<1>2. QED
  BY <1>1, Invariance, PTL
===============================================================================
