---------------------------- MODULE SoftwareFactory ---------------------------
(***************************************************************************)
(* SoftwareFactoryOrchestrator                                             *)
(* (core/orchestrator/software-factory-orchestrator.ts) over the           *)
(* write-behind repositories of the Control Plane                          *)
(* (core/persistence/cached-repository.ts, one per collection).            *)
(*                                                                         *)
(* Programs hold workstreams, workstreams hold planned tasks.  A tick      *)
(* walks the planned tasks and submits those whose dependencies are        *)
(* completed; each submission makes a new task, which takes the planned    *)
(* one's place in the workstream, and an alias from the old id to the new. *)
(* Between two awaits the code runs alone; a tick awaits each submission.  *)
(* Reads are served by the cache; every write also joins the queue of its  *)
(* collection, which is drained in order, and a restart loads what landed. *)
(***************************************************************************)
EXTENDS Naturals, Sequences, FiniteSets

CONSTANTS
    Programs, Workstreams,
    Ticks,           \* tick requests that may be under way together
    None,
    MaxTasks,        \* bound: tasks that are made
    MaxPlan,         \* bound: subtasks in the answer of the planning agent
    MaxBacklog,      \* bound: writes queued when the factory still goes on
    MaxRestarts,     \* bound: restarts of the instance
    MaxLost,         \* bound: writes that fail
    MaxCancels,      \* bound: tasks that operators cancel
    MaxMishaps       \* bound: restarts and failed writes together

ASSUME FactoryAssumption ==
    /\ Programs \cap Workstreams = {}
    /\ None \notin Programs \cup Workstreams \cup Nat
    /\ Workstreams \cap {"none", "failed", "partial", "whole"} = {}
    /\ {MaxTasks, MaxPlan, MaxBacklog, MaxRestarts, MaxLost, MaxCancels, MaxMishaps}
           \subseteq Nat

VARIABLES
    cache,      \* the contents of each collection in memory
    stored,     \* and in Firestore
    queue,      \* writes of each collection that have not settled
    tick,       \* the walk of each tick request
    plan,       \* planFromObjective of each program
    issued,     \* how many ids createId has given
    servedBy,   \* the planned task for which a task was submitted
    withdrawn,  \* history: the tasks an operator cancelled
    restarts, lost

vars == <<cache, stored, queue, tick, plan, issued, servedBy, withdrawn, restarts, lost>>

\* Task ids, numbered as createId gives them.
Tasks == 1..MaxTasks

Collections == {"programs", "workstreams", "aliases", "tasks"}
Docs == [programs |-> Programs, workstreams |-> Workstreams, aliases |-> Tasks, tasks |-> Tasks]

AliasRecords == [task : Tasks, workstream : Workstreams]
WorkstreamRecords == [program : Programs, tasks : Seq(Tasks)]
TaskRecords == [status : {"created", "running", "waiting", "completed", "failed", "cancelled"},
                workstream : Workstreams, deps : SUBSET Tasks]

\* The absence of a document is no document.
ASSUME NoneAssumption == None \notin AliasRecords \cup WorkstreamRecords \cup TaskRecords

\* The documents of the four collections.
Content(c) ==
    /\ DOMAIN c = Collections
    /\ \A p \in Programs : c["programs"][p] # None => c["programs"][p] \in Seq(Workstreams)
    /\ \A w \in Workstreams : c["workstreams"][w] \in WorkstreamRecords \cup {None}
    /\ \A t \in Tasks : /\ c["aliases"][t] \in AliasRecords \cup {None}
                         /\ c["tasks"][t] \in TaskRecords \cup {None}

Empty == [c \in Collections |-> [d \in Docs[c] |-> None]]
Idle == [program |-> None]

Init ==
    /\ cache = Empty
    /\ stored = Empty
    /\ queue = [c \in Collections |-> << >>]
    /\ tick = [k \in Ticks |-> Idle]
    /\ plan = [p \in Programs |-> "none"]
    /\ issued = 0
    /\ servedBy = [t \in Tasks |-> None]
    /\ withdrawn = {}
    /\ restarts = 0
    /\ lost = 0

-------------------------------------------------------------------------------
(* CachedRepository.                                                       *)

Put(c, d, v) == [in |-> c, doc |-> d, value |-> v]

\* The contents after the writes.
Written(content, writes) ==
    [c \in Collections |-> [d \in Docs[c] |->
       LET mine == {n \in 1..Len(writes) : writes[n].in = c /\ writes[n].doc = d}
       IN IF mine = {} THEN content[c][d]
          ELSE writes[CHOOSE n \in mine : \A m \in mine : m <= n].value]]

\* The writes to a collection, in order.
Of(writes, c) ==
    LET upTo[n \in 0..Len(writes)] ==
            IF n = 0 THEN << >>
            ELSE IF writes[n].in = c THEN Append(upTo[n - 1], writes[n]) ELSE upTo[n - 1]
    IN upTo[Len(writes)]

\* Faulty variant: the newest write overtakes those that wait.
EnqueueFirst(waiting, writes) ==
    [n \in 1..Len(writes) |-> writes[Len(writes) + 1 - n]] \o waiting

Enqueue(waiting, writes) == waiting \o writes

Backlog == Len(queue["programs"]) + Len(queue["workstreams"]) + Len(queue["aliases"])
           + Len(queue["tasks"])

\* Handlers go on while the queues keep up.
KeepsUp == Backlog <= MaxBacklog

Mishaps == restarts + lost

\* upsert and delete: the cache at once, the store through the queue.
Persist(writes) ==
    /\ cache' = Written(cache, writes)
    /\ queue' = [c \in Collections |-> Enqueue(queue[c], Of(writes, c))]

WriteLands(c) ==
    /\ queue[c] # << >>
    /\ stored' = [stored EXCEPT ![c][Head(queue[c]).doc] = Head(queue[c]).value]
    /\ queue' = [queue EXCEPT ![c] = Tail(@)]
    /\ UNCHANGED <<cache, tick, plan, issued, servedBy, withdrawn, restarts, lost>>

\* onError is told, and the write is forgotten.
WriteFails(c) ==
    /\ queue[c] # << >> /\ lost < MaxLost /\ Mishaps < MaxMishaps
    /\ queue' = [queue EXCEPT ![c] = Tail(@)]
    /\ lost' = lost + 1
    /\ UNCHANGED <<cache, stored, tick, plan, issued, servedBy, withdrawn, restarts>>

-------------------------------------------------------------------------------
(* Programs, workstreams and planned tasks.                                *)

\* Faulty variant: the task is made in a status of its own.
PlannedDraft(w, deps) == [status |-> "planned", workstream |-> w, deps |-> deps]

Planned(w, deps) == [status |-> "created", workstream |-> w, deps |-> deps]

Listed(content, w) == IF content["workstreams"][w] = None THEN << >>
                      ELSE content["workstreams"][w].tasks
Members(content, w) == {Listed(content, w)[n] : n \in 1..Len(Listed(content, w))}

\* The end of the chain of aliases.  The code throws on a cycle; an alias leads
\* to a task that was made after it, so there is none.
resolveTaskId(content, t) ==
    LET after[n \in 0..MaxTasks] ==
            IF n = 0 THEN t
            ELSE LET u == after[n - 1]
                 IN IF content["aliases"][u] = None THEN u ELSE content["aliases"][u].task
    IN after[MaxTasks]

createProgram(p) ==
    /\ KeepsUp
    /\ cache["programs"][p] = None
    /\ Persist(<<Put("programs", p, << >>)>>)
    /\ UNCHANGED <<stored, tick, plan, issued, servedBy, withdrawn, restarts, lost>>

\* The workstream first, then the program that now names it.
NewWorkstream(w, p, named) ==
    <<Put("workstreams", w, [program |-> p, tasks |-> << >>]),
      Put("programs", p, Append(named, w))>>

createWorkstream(p, w) ==
    /\ KeepsUp
    /\ cache["programs"][p] # None
    /\ cache["workstreams"][w] = None
    /\ Persist(NewWorkstream(w, p, cache["programs"][p]))
    /\ UNCHANGED <<stored, tick, plan, issued, servedBy, withdrawn, restarts, lost>>

\* What addTask asks of a dependency.
DependencyKnown(w, d) ==
    LET e == resolveTaskId(cache, d)
    IN /\ d \in Members(cache, w) \/ e \in Members(cache, w)
       /\ cache["tasks"][e] # None
       /\ cache["tasks"][e].workstream = w

\* The task, the workstream that lists it, and the program, whose updatedAt moves.
Added(w, listed, t, deps) ==
    LET p == cache["workstreams"][w].program
    IN <<Put("tasks", t, Planned(w, deps)),
         Put("workstreams", w, [program |-> p, tasks |-> Append(listed, t)]),
         Put("programs", p, cache["programs"][p])>>

\* A dependency that is not known throws before anything is written.  A listed
\* task that is gone throws after the new one was made, and leaves it.  The
\* check for cycles cannot fail: nothing depends on an id that is new.
addTask(w, deps) ==
    LET t == issued + 1 IN
    /\ KeepsUp
    /\ cache["workstreams"][w] # None
    /\ t \in Tasks
    /\ \A d \in deps : DependencyKnown(w, d)
    /\ Persist(IF \A m \in Members(cache, w) : cache["tasks"][m] # None
               THEN Added(w, Listed(cache, w), t, deps)
               ELSE <<Put("tasks", t, Planned(w, deps))>>)
    /\ issued' = t
    /\ UNCHANGED <<stored, tick, plan, servedBy, withdrawn, restarts, lost>>

-------------------------------------------------------------------------------
(* planFromObjective.  The planning task itself is not part of a           *)
(* workstream and is left out.                                             *)

\* createProgram and createWorkstream, in one stretch.  A workstream id that is
\* taken throws in between, which leaves what createProgram alone leaves.
PlanStarts(p, w) ==
    /\ KeepsUp
    /\ cache["programs"][p] = None
    /\ cache["workstreams"][w] = None
    /\ Persist(<<Put("programs", p, << >>)>> \o NewWorkstream(w, p, << >>))
    /\ plan' = [plan EXCEPT ![p] = w]
    /\ UNCHANGED <<stored, tick, issued, servedBy, withdrawn, restarts, lost>>

\* The planning task did not complete, or its answer is not a list.
PlanFails(p) ==
    /\ plan[p] \in Workstreams
    /\ plan' = [plan EXCEPT ![p] = "failed"]
    /\ UNCHANGED <<cache, stored, queue, tick, issued, servedBy, withdrawn, restarts, lost>>

\* addTask for one after the other.
AddedAll(w, made) ==
    LET upTo[n \in 0..Len(made)] ==
            IF n = 0 THEN << >>
            ELSE upTo[n - 1] \o Added(w, Listed(cache, w) \o SubSeq(made, 1, n - 1), made[n], {})
    IN upTo[Len(made)]

\* The answer lists subtasks, which may name earlier ones as dependencies.  The
\* names are the planning agent's; the tasks get ids of their own, so that the
\* first subtask that names a dependency is refused, and with it the rest.
PlanAnswered(p, n, refused) ==
    /\ KeepsUp
    /\ plan[p] \in Workstreams
    /\ issued + n <= MaxTasks
    /\ Persist(AddedAll(plan[p], [i \in 1..n |-> issued + i]))
    /\ issued' = issued + n
    /\ plan' = [plan EXCEPT ![p] = IF refused THEN "partial" ELSE "whole"]
    /\ UNCHANGED <<stored, tick, servedBy, withdrawn, restarts, lost>>

-------------------------------------------------------------------------------
(* Ticks.                                                                  *)

\* Faulty variant: a dependency that was submitted will do.
dependenciesStarted(content, t) ==
    \A d \in content["tasks"][t].deps :
        LET e == content["tasks"][resolveTaskId(content, d)]
        IN e # None /\ e.status # "created"

dependenciesMet(content, t) ==
    \A d \in content["tasks"][t].deps :
        LET e == content["tasks"][resolveTaskId(content, d)]
        IN /\ e # None
           /\ e.workstream = content["tasks"][t].workstream
           /\ e.status = "completed"

\* What a walk still has before it, in order: the rest of the workstream it is
\* in (0), as listed when it got there, then the workstreams after it.
Ahead(content, walk, i) ==
    IF i = 0 THEN walk.left ELSE Listed(content, walk.todo[i])

\* Those it would submit: created, with dependencies met and an environment.
Ready(content, walk, routed) ==
    {at \in (0..Len(walk.todo)) \X Tasks :
        LET i == at[1]
            n == at[2]
        IN /\ n <= Len(Ahead(content, walk, i))
           /\ LET t == Ahead(content, walk, i)[n]
              IN /\ t \in routed
                 /\ content["tasks"][t] # None
                 /\ content["tasks"][t].status = "created"
                 /\ dependenciesMet(content, t)}

\* The walk stopped at the first of them; local is the workstream's list as
\* the walk knows it.
StoppedAt(content, walk, at) ==
    LET i == at[1]
        n == at[2]
        list == Ahead(content, walk, i)
    IN [program |-> walk.program,
        workstream |-> IF i = 0 THEN walk.workstream ELSE walk.todo[i],
        local |-> IF i = 0 THEN walk.local ELSE list,
        left |-> SubSeq(list, n + 1, Len(list)),
        todo |-> SubSeq(walk.todo, i + 1, Len(walk.todo)),
        planned |-> list[n],
        submitted |-> issued + 1]

\* One synchronous stretch of tickProgram: the writes it begins with, then on
\* to the next task to submit, which the orchestrator makes and starts.
Stretch(k, walk, writes, routed) ==
    LET content == Written(cache, writes)
        ready == Ready(content, walk, routed)
        first == CHOOSE at \in ready : \A o \in ready :
                    at[1] < o[1] \/ (at[1] = o[1] /\ at[2] <= o[2])
        next == StoppedAt(content, walk, first)
    IN \/ /\ ready = {}
          /\ Persist(writes)
          /\ tick' = [tick EXCEPT ![k] = Idle]
          /\ UNCHANGED <<issued, servedBy>>
       \/ /\ ready # {}
          /\ issued < MaxTasks
          /\ Persist(Append(writes, Put("tasks", issued + 1,
                [status |-> "running", workstream |-> next.workstream,
                 deps |-> {resolveTaskId(content, d) : d \in content["tasks"][next.planned].deps}])))
          /\ tick' = [tick EXCEPT ![k] = next]
          /\ issued' = issued + 1
          /\ servedBy' = [servedBy EXCEPT ![issued + 1] = next.planned]

\* Faulty variant: nobody looks for a tick of the program that is under way.
NoTickGuard(p) == TRUE

\* A second tick of a program returns the promise of the first.
NoTick(p) == \A k \in Ticks : tick[k].program # p

tickProgram(k, p, routed) ==
    /\ KeepsUp
    /\ tick[k] = Idle
    /\ NoTick(p)
    /\ cache["programs"][p] # None
    /\ LET walk == [program |-> p, workstream |-> None, local |-> << >>, left |-> << >>,
                    todo |-> cache["programs"][p]]
       IN Ready(cache, walk, routed) # {} /\ Stretch(k, walk, << >>, routed)
    /\ UNCHANGED <<stored, plan, withdrawn, restarts, lost>>

\* Orchestrator.submit, and later its resume, brought the task to a status.
Settles(t, to) ==
    /\ KeepsUp
    /\ cache["tasks"][t] # None
    /\ \/ cache["tasks"][t].status = "running" /\ to \in {"completed", "failed", "waiting"}
       \/ cache["tasks"][t].status = "waiting" /\ to \in {"completed", "failed"}
    /\ Persist(<<Put("tasks", t, [cache["tasks"][t] EXCEPT !.status = to])>>)
    /\ UNCHANGED <<stored, tick, plan, issued, servedBy, withdrawn, restarts, lost>>

\* The cancel_task command.  A submission that parks its task returns at once.
CancelTask(t) ==
    /\ KeepsUp
    /\ Cardinality(withdrawn) < MaxCancels
    /\ cache["tasks"][t] # None
    /\ \/ cache["tasks"][t].status \in {"created", "running"}
       \/ /\ cache["tasks"][t].status = "waiting"
          /\ \A k \in Ticks : tick[k] # Idle => tick[k].submitted # t
    /\ Persist(<<Put("tasks", t, [cache["tasks"][t] EXCEPT !.status = "cancelled"])>>)
    /\ withdrawn' = withdrawn \cup {t}
    /\ UNCHANGED <<stored, tick, plan, issued, servedBy, restarts, lost>>

\* The task was cancelled under its handler: the submission is rejected, and
\* with it the tick.  The planned task stays, for the next tick to submit.
SubmitRejected(k) ==
    /\ tick[k] # Idle
    /\ cache["tasks"][tick[k].submitted].status = "cancelled"
    /\ tick' = [tick EXCEPT ![k] = Idle]
    /\ UNCHANGED <<cache, stored, queue, plan, issued, servedBy, withdrawn, restarts, lost>>

Replace(list, old, new) == [n \in 1..Len(list) |-> IF list[n] = old THEN new ELSE list[n]]

\* Faulty variant: the alias is not kept.
ServedUnaliased(walk) ==
    <<Put("workstreams", walk.workstream,
          [program |-> walk.program, tasks |-> Replace(walk.local, walk.planned, walk.submitted)]),
      Put("tasks", walk.planned, None)>>

\* The submission returned: the alias, the workstream as the walk knows it with
\* the new task in the planned one's place, and the planned one goes.
Served(walk) ==
    <<Put("aliases", walk.planned, [task |-> walk.submitted, workstream |-> walk.workstream]),
      Put("workstreams", walk.workstream,
          [program |-> walk.program, tasks |-> Replace(walk.local, walk.planned, walk.submitted)]),
      Put("tasks", walk.planned, None)>>

SubmitReturns(k, routed) ==
    /\ KeepsUp
    /\ tick[k] # Idle
    /\ cache["tasks"][tick[k].submitted].status \notin {"running", "cancelled"}
    /\ LET walk == [tick[k] EXCEPT !.local = Replace(@, tick[k].planned, tick[k].submitted)]
       IN Stretch(k, walk, Served(tick[k]), routed)
    /\ UNCHANGED <<stored, plan, withdrawn, restarts, lost>>

-------------------------------------------------------------------------------
(* The instance.                                                           *)

\* validateState, of the constructor: it throws, and the Control Plane does
\* not start, unless what was loaded fits together.
validateState(content) ==
    /\ \A p \in Programs : content["programs"][p] # None =>
          \A n \in 1..Len(content["programs"][p]) :
             LET w == content["programs"][p][n]
             IN content["workstreams"][w] # None /\ content["workstreams"][w].program = p
    /\ \A w \in Workstreams : content["workstreams"][w] # None =>
          content["programs"][content["workstreams"][w].program] # None
    /\ \A t \in Tasks : content["aliases"][t] # None =>
          /\ content["workstreams"][content["aliases"][t].workstream] # None
          /\ content["aliases"][t].task # t

Restart ==
    /\ restarts < MaxRestarts /\ Mishaps < MaxMishaps
    /\ validateState(stored)
    /\ restarts' = restarts + 1
    /\ cache' = stored
    /\ queue' = [c \in Collections |-> << >>]
    /\ tick' = [k \in Ticks |-> Idle]
    /\ plan' = [p \in Programs |-> IF plan[p] \in Workstreams THEN "failed" ELSE plan[p]]
    /\ UNCHANGED <<stored, issued, servedBy, withdrawn, lost>>

Created == {t \in Tasks : cache["tasks"][t] # None /\ cache["tasks"][t].status = "created"}

Next ==
    \/ \E p \in Programs :
          \/ createProgram(p)
          \/ \E w \in Workstreams : createWorkstream(p, w) \/ PlanStarts(p, w)
          \/ PlanFails(p)
          \/ \E n \in 0..MaxPlan, refused \in BOOLEAN : PlanAnswered(p, n, refused)
          \/ \E k \in Ticks, routed \in SUBSET Created : tickProgram(k, p, routed)
    \/ \E w \in Workstreams, deps \in SUBSET Tasks : addTask(w, deps)
    \/ \E t \in Tasks, to \in {"completed", "failed", "waiting"} : Settles(t, to)
    \/ \E t \in Tasks : CancelTask(t)
    \/ \E k \in Ticks : SubmitRejected(k)
    \/ \E k \in Ticks, routed \in SUBSET Created : SubmitReturns(k, routed)
    \/ \E c \in Collections : WriteLands(c) \/ WriteFails(c)
    \/ Restart

Spec == Init /\ [][Next]_vars

-------------------------------------------------------------------------------
(* Properties.                                                             *)

TypeOK ==
    /\ Content(cache) /\ Content(stored)
    /\ \A c \in Collections : \A n \in 1..Len(queue[c]) :
          queue[c][n].in = c /\ queue[c][n].doc \in Docs[c]
    /\ \A k \in Ticks : tick[k] = Idle \/ {tick[k].planned, tick[k].submitted} \subseteq 1..issued
    /\ issued \in 0..MaxTasks
    /\ withdrawn \subseteq Tasks
    /\ restarts \in 0..MaxRestarts /\ lost \in 0..MaxLost

\* "for each task whose dependencies are all `completed`": work never starts
\* before that of the tasks it depends on is done, whatever ids stand for them
\* by then, and a restart never shows it so, since the tasks' writes stay in
\* order.
DependenciesFirst ==
    lost = 0 => \A t \in Tasks : cache["tasks"][t] # None /\ servedBy[t] # None =>
        \A d \in cache["tasks"][t].deps :
            cache["tasks"][d] # None /\ cache["tasks"][d].status = "completed"

\* However ticks, plans and additions overlap, a planned task is submitted
\* once in the life of an instance, unless the submission was cancelled.
SubmittedOnce ==
    \A t \in Tasks : Cardinality({u \in Tasks \ withdrawn : servedBy[u] = t}) <= 1 + restarts

\* "the planned id is retained as an execution alias so dependencies and the
\* graph stay stable": until the instance is replaced, what a task waits for
\* is always a task of its workstream.
DependenciesStayKnown ==
    restarts = 0 => \A t \in Tasks : cache["tasks"][t] # None =>
        \A d \in cache["tasks"][t].deps :
            LET e == cache["tasks"][resolveTaskId(cache, d)]
            IN e # None /\ e.workstream = cache["tasks"][t].workstream

\* "write through in order": once the queues are drained and no write failed,
\* a restart finds what the cache holds.
DrainedIsDurable == (Backlog = 0 /\ lost = 0) => stored = cache

\* "Adds the task to the workstream": a planned task that was not submitted is
\* in the list a tick walks.
PlannedIsListed ==
    restarts = 0 => \A t \in Tasks :
        cache["tasks"][t] # None /\ cache["tasks"][t].status = "created" =>
        t \in Members(cache, cache["tasks"][t].workstream)
===============================================================================
