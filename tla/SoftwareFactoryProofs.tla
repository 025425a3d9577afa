------------------------ MODULE SoftwareFactoryProofs -------------------------
(***************************************************************************)
(* Proofs about SoftwareFactory, for any programs, workstreams, ticks and  *)
(* bounds.                                                                 *)
(*                                                                         *)
(* A document is in the cache, in the store and, several times over, in a  *)
(* queue, and a restart makes an old copy the current one.  So the         *)
(* invariant says what every copy may hold, by two things that never       *)
(* change once an id is given: the workstream the task was made for (its   *)
(* home) and the planned task it was submitted for (servedBy).  What holds *)
(* of the cache alone is that the queues lead from the store to it, in the *)
(* order in which things happened.                                         *)
(***************************************************************************)
EXTENDS SoftwareFactory, WellFoundedInduction, FiniteSetTheorems, TLAPS

-------------------------------------------------------------------------------
(* The inductive invariant.                                                *)

\* A home for each task: the workstream it was made for, or None for an id
\* that was not given yet.  It is kept nowhere; the proof only needs that there
\* is one that every copy of every document agrees with.
Homes == [Tasks -> Workstreams \cup {None}]

\* What a document may hold, in any collection.
Values == Seq(Workstreams) \cup WorkstreamRecords \cup AliasRecords \cup TaskRecords \cup {None}
\* What upsert and delete put into a queue.
Writes == [in : Collections, doc : Programs \cup Workstreams \cup Tasks, value : Values]

\* The list names tasks that were made, for the workstream.
AllOf(home, made, list, w) ==
    \A n \in 1..Len(list) : list[n] <= made /\ home[list[n]] = w

\* A value that document d of collection c may hold, now or once a queued write
\* lands.  A workstream lists its own tasks; an alias leads from a planned task
\* to one that was submitted for it, in the same workstream; a submitted task is
\* never back to "created", and a planned one only waits or is cancelled.
Fits(home, made, served, c, d, v) ==
    \/ v = None
    \/ c = "programs" /\ v \in Seq(Workstreams)
    \/ c = "workstreams" /\ v \in WorkstreamRecords /\ AllOf(home, made, v.tasks, d)
    \/ /\ c = "aliases" /\ v \in AliasRecords
       /\ d <= made /\ v.task <= made
       /\ served[d] = None /\ served[v.task] = d /\ home[d] = home[v.task]
    \/ /\ c = "tasks" /\ v \in TaskRecords
       /\ d <= made /\ home[d] = v.workstream
       /\ v.status = "created" => served[d] = None
       /\ served[d] = None => v.status \in {"created", "cancelled"}

\* Every document of the cache, or of the store, fits.
ContentFits(home, made, served, content) ==
    /\ content = [c \in Collections |-> [d \in Docs[c] |-> content[c][d]]]
    /\ \A c \in Collections : \A d \in Docs[c] : Fits(home, made, served, c, d, content[c][d])

\* A write that puts a fitting value.
WriteFits(home, made, served, x) ==
    x \in Writes /\ x.doc \in Docs[x.in] /\ Fits(home, made, served, x.in, x.doc, x.value)

\* The queues hold writes of their own collection that fit.
QueueFits(home, made, served, q) ==
    /\ q \in [Collections -> Seq(Writes)]
    /\ \A c \in Collections : \A n \in 1..Len(q[c]) :
          q[c][n].in = c /\ WriteFits(home, made, served, q[c][n])

\* The counters are in their bounds, and only ids that were given are served.
Counters ==
    /\ issued \in 0..MaxTasks
    /\ withdrawn \subseteq Tasks
    /\ restarts \in 0..MaxRestarts /\ lost \in 0..MaxLost
    /\ servedBy \in [Tasks -> Tasks \cup {None}]
    /\ \A t \in Tasks : servedBy[t] # None => t <= issued /\ servedBy[t] <= issued

\* The workstream is there, and belongs to the program.
Owned(content, w, p) ==
    content["workstreams"][w] # None /\ content["workstreams"][w].program = p

\* A program lists workstreams of its own, and a plan waits for an answer on a
\* workstream that is there.
Trees ==
    /\ \A p \in Programs : cache["programs"][p] # None =>
          \A n \in 1..Len(cache["programs"][p]) : Owned(cache, cache["programs"][p][n], p)
    /\ plan \in [Programs -> Workstreams \cup {"none", "failed", "partial", "whole"}]
    /\ \A p \in Programs : plan[p] \in Workstreams => cache["workstreams"][plan[p]] # None

\* A tick that waits for a submission.
Walks == [program : Programs, workstream : Workstreams, local : Seq(Tasks), left : Seq(Tasks),
          todo : Seq(Workstreams), planned : Tasks, submitted : Tasks]

\* What such a tick may rely on when its submission returns: the workstreams it
\* has before it are still its program's, its lists hold tasks of its workstream,
\* the planned task is one, the submitted task was made for it and is still
\* there, and only an operator can have cancelled it.
Walking(home, made, served, content, gone, x) ==
    /\ x \in Walks
    /\ Owned(content, x.workstream, x.program)
    /\ \A n \in 1..Len(x.todo) : Owned(content, x.todo[n], x.program)
    /\ AllOf(home, made, x.local, x.workstream) /\ AllOf(home, made, x.left, x.workstream)
    /\ x.planned <= made /\ home[x.planned] = x.workstream /\ served[x.planned] = None
    /\ x.submitted <= made /\ home[x.submitted] = x.workstream
    /\ served[x.submitted] = x.planned
    /\ content["tasks"][x.submitted] # None
    /\ content["tasks"][x.submitted].status = "cancelled" => x.submitted \in gone

\* Every tick that is under way fits, and no program has two.
TicksFit(home) ==
    /\ tick = [k \in Ticks |-> tick[k]]
    /\ \A k \in Ticks : tick[k] = Idle \/ Walking(home, issued, servedBy, cache, withdrawn, tick[k])
    /\ \A j, k \in Ticks : tick[j] # Idle /\ tick[k] # Idle /\ tick[j].program = tick[k].program
          => j = k

\* The submissions for a planned task that nobody cancelled.
Serving(t) == {u \in Tasks \ withdrawn : servedBy[u] = t}
\* A planned task that the next tick may submit.
Open(t) == cache["tasks"][t] # None /\ cache["tasks"][t].status = "created"
\* Some tick has submitted the planned task, and waits.
UnderWay(t) ==
    \E k \in Ticks : tick[k] # Idle /\ tick[k].planned = t /\ tick[k].submitted \notin withdrawn

\* A planned task was submitted at most once by each instance.  One that is open,
\* and for which no tick waits, was not submitted by this instance: this is what
\* makes room for the next submission.
Once == \A t \in Tasks : /\ Cardinality(Serving(t)) <= 1 + restarts
                         /\ Open(t) /\ ~UnderWay(t) => Cardinality(Serving(t)) <= restarts

\* The n-th write of the queue is the last to document d.
LastOf(q, d, n) == n \in 1..Len(q) /\ q[n].doc = d /\ \A m \in 1..Len(q) : q[m].doc = d => m <= n

\* The cache is what the store will be when the queue of the collection is
\* drained.
Synced(c, content, base, q) ==
    \A d \in Docs[c] :
       \/ /\ \A n \in 1..Len(q[c]) : q[c][n].doc # d
          /\ content[c][d] = base[c][d]
       \/ \E n \in 1..Len(q[c]) : LastOf(q[c], d, n) /\ content[c][d] = q[c][n].value

\* The record of a task that is completed.
Completed(v) == v # None /\ v.status = "completed"

\* A completed task is not written again: not after it landed as completed, nor
\* behind the queued write that completes it.
Final(base, q) ==
    \A n \in 1..Len(q) :
       /\ ~Completed(base[q[n].doc])
       /\ Completed(q[n].value) => \A m \in 1..Len(q) : n < m => q[m].doc # q[n].doc

\* The store never shows a submitted task before its dependencies are completed:
\* the writes that complete them landed, or are ahead of it in the queue.
InOrder(base, q, served) ==
    /\ \A t \in Tasks : base[t] # None /\ served[t] # None => \A d \in base[t].deps : Completed(base[d])
    /\ \A n \in 1..Len(q) : q[n].value # None /\ served[q[n].doc] # None =>
          \A d \in q[n].value.deps :
             \/ Completed(base[d])
             \/ \E m \in 1..Len(q) : m < n /\ q[m].doc = d /\ Completed(q[m].value)

\* While no write was lost, the cache and the store differ by the queues only, in
\* the order in which things happened.
Lossless == lost = 0 => /\ \A c \in Collections : Synced(c, cache, stored, queue)
                        /\ Final(stored["tasks"], queue["tasks"])
                        /\ InOrder(stored["tasks"], queue["tasks"], servedBy)

\* The id that an alias leads to; one alias is all there is to follow.
Resolved(content, t) == IF content["aliases"][t] = None THEN t ELSE content["aliases"][t].task

\* What the task depends on is, by the aliases, in the workstream w.
KnownIn(content, t, w) ==
    \A d \in content["tasks"][t].deps :
        LET e == content["tasks"][Resolved(content, d)] IN e # None /\ e.workstream = w

\* In the life of one instance, what a task depends on is in its workstream.
Known ==
    restarts = 0 => \A t \in Tasks : cache["tasks"][t] # None =>
                       KnownIn(cache, t, cache["tasks"][t].workstream)

\* The documents, the queues and the ticks agree on where the tasks belong.
Placed(home) ==
    /\ ContentFits(home, issued, servedBy, cache)
    /\ ContentFits(home, issued, servedBy, stored)
    /\ QueueFits(home, issued, servedBy, queue)
    /\ TicksFit(home)

\* The parts of the invariant that do not speak of homes.
Rest == Counters /\ Trees /\ Once /\ Lossless /\ Known

\* The inductive invariant.
IInv == Rest /\ \E home \in Homes : Placed(home)

-------------------------------------------------------------------------------
(* Induction, and what recursive definitions compute.                      *)

\* A set of numbers that is not empty has a least one.
LEMMA LeastIn ==
  ASSUME NEW S, S \subseteq Nat, S # {}
  PROVE  \E n \in S : \A m \in S : n <= m
<1> DEFINE R == OpToRel(<, Nat)
<1>1. IsWellFoundedOn(R, Nat)
  BY NatLessThanWellFounded
<1> HIDE DEF R
<1>2. PICK n \in S : \A m \in S : <<m, n>> \notin R
  BY <1>1, WFMin, Zenon
<1>3. \A m \in S : ~(m < n)
  BY <1>2 DEF R, OpToRel
<1> QED
  BY <1>3

\* And a bounded one has a greatest.
LEMMA GreatestIn ==
  ASSUME NEW N \in Nat, NEW S, S \subseteq 0..N, S # {}
  PROVE  \E n \in S : \A m \in S : m <= n
<1> DEFINE T == {N - m : m \in S}
<1>0. \A m \in S : m \in 0..N /\ N - m \in Nat
  OBVIOUS
<1>1. T \subseteq Nat /\ T # {}
  BY <1>0
<1>2. PICK x \in T : \A y \in T : x <= y
  BY <1>1, LeastIn
<1>3. PICK n \in S : x = N - n
  BY <1>2
<1>4. ASSUME NEW m \in S PROVE m <= n
  <2>1. x <= N - m
    BY <1>2
  <2> QED
    BY <2>1, <1>0, <1>3
<1> QED
  BY <1>4

\* Induction over 0..N, for a set: the form in which the provers can use it.
LEMMA Induction ==
  ASSUME NEW N \in Nat, NEW S, 0 \in S,
         \A n \in 0..N : n # N /\ n \in S => n + 1 \in S
  PROVE  0..N \subseteq S
<1> SUFFICES ASSUME (0..N) \ S # {} PROVE FALSE
  OBVIOUS
<1> DEFINE T == (0..N) \ S
<1>0. T \subseteq Nat /\ T # {}
  OBVIOUS
<1>1. PICK n \in T : \A m \in T : n <= m
  <2> HIDE DEF T
  <2> QED BY <1>0, LeastIn
<1>2. n # 0 /\ n - 1 \in 0..N /\ n - 1 \notin (0..N) \ S
  BY <1>1
<1> QED
  BY <1>1, <1>2

\* The recursion of Of, as a step from what came before.
OfStep(writes, c, was, n) ==
    IF n = 0 THEN << >>
    ELSE IF writes[n].in = c THEN Append(was[n - 1], writes[n]) ELSE was[n - 1]

\* The recursive function of Of is there, so that Of is what its equation says.
LEMMA OfUnfolds ==
  ASSUME NEW X, NEW writes \in Seq(X), NEW c
  PROVE  \E f : /\ f = [n \in 0..Len(writes) |-> OfStep(writes, c, f, n)]
                /\ Of(writes, c) = f[Len(writes)]
<1> DEFINE G(m) == \E f : f = [n \in 0..m |-> OfStep(writes, c, f, n)]
           S == {m \in 0..Len(writes) : G(m)}
<1>1. 0 \in S
  <2>1. [n \in 0..0 |-> << >>] = [n \in 0..0 |-> OfStep(writes, c, [i \in 0..0 |-> << >>], n)]
    BY DEF OfStep
  <2> QED
    BY <2>1
<1>2. ASSUME NEW m \in 0..Len(writes), m # Len(writes), m \in S PROVE m + 1 \in S
  <2>1. PICK f : f = [n \in 0..m |-> OfStep(writes, c, f, n)]
    BY <1>2
  <2> DEFINE g == [n \in 0..(m + 1) |-> IF n = m + 1 THEN OfStep(writes, c, f, n) ELSE f[n]]
  <2>2. ASSUME NEW n \in 0..(m + 1) PROVE g[n] = OfStep(writes, c, g, n)
    <3>1. n # 0 => g[n - 1] = f[n - 1]
      OBVIOUS
    <3>2. OfStep(writes, c, g, n) = OfStep(writes, c, f, n)
      BY <3>1 DEF OfStep
    <3>3. n # m + 1 => f[n] = OfStep(writes, c, f, n)
      BY <2>1
    <3> QED
      BY <3>2, <3>3
  <2>3. g = [n \in 0..(m + 1) |-> OfStep(writes, c, g, n)]
    BY <2>2
  <2>4. m + 1 \in 0..Len(writes)
    BY <1>2
  <2>5. G(m + 1)
    BY <2>3
  <2> QED
    BY <2>4, <2>5
<1>3. 0..Len(writes) \subseteq S
  <2> HIDE DEF S
  <2> QED BY <1>1, <1>2, Induction
<1>4. G(Len(writes))
  BY <1>3
<1> DEFINE upTo[n \in 0..Len(writes)] ==
             IF n = 0 THEN << >>
             ELSE IF writes[n].in = c THEN Append(upTo[n - 1], writes[n]) ELSE upTo[n - 1]
<1>5. upTo = [n \in 0..Len(writes) |->
             IF n = 0 THEN << >>
             ELSE IF writes[n].in = c THEN Append(upTo[n - 1], writes[n]) ELSE upTo[n - 1]]
  BY <1>4, Zenon DEF OfStep
<1>6. Of(writes, c) = upTo[Len(writes)]
  BY DEF Of
<1> HIDE DEF upTo
<1> QED
  BY <1>5, <1>6 DEF OfStep

\* The sequence q holds the writes to c among the first m, in their order; at
\* tells where each of them stood.
Picks(writes, c, m, q, at) ==
    /\ at \in [1..Len(q) -> 1..m]
    /\ \A i \in 1..Len(q) : q[i] = writes[at[i]] /\ writes[at[i]].in = c
    /\ \A i, j \in 1..Len(q) : i < j => at[i] < at[j]
    /\ \A n \in 1..m : writes[n].in = c => \E i \in 1..Len(q) : at[i] = n

\* Of leaves out the writes to the other collections, and nothing else.
LEMMA OfPicks ==
  ASSUME NEW X, NEW writes \in Seq(X), NEW c
  PROVE  /\ Of(writes, c) \in Seq(X)
         /\ \E at : Picks(writes, c, Len(writes), Of(writes, c), at)
<1>1. PICK f : /\ f = [n \in 0..Len(writes) |-> OfStep(writes, c, f, n)]
               /\ Of(writes, c) = f[Len(writes)]
  BY OfUnfolds
<1> DEFINE G(m) == f[m] \in Seq(X) /\ \E at : Picks(writes, c, m, f[m], at)
           S == {m \in 0..Len(writes) : G(m)}
<1>2. 0 \in S
  <2>1. f[0] = << >>
    BY <1>1 DEF OfStep
  <2>2. Picks(writes, c, 0, << >>, << >>)
    BY DEF Picks
  <2>3. 0 \in 0..Len(writes) /\ << >> \in Seq(X)
    OBVIOUS
  <2> QED
    BY <2>1, <2>2, <2>3
<1>3. ASSUME NEW m \in 0..Len(writes), m # Len(writes), m \in S PROVE m + 1 \in S
  <2>0. m \in Nat /\ m + 1 \in 1..Len(writes) /\ m + 1 \in 0..Len(writes) /\ (m + 1) - 1 = m
    BY <1>3
  <2>1. f[m + 1] = IF writes[m + 1].in = c THEN Append(f[m], writes[m + 1]) ELSE f[m]
    <3>1. f[m + 1] = OfStep(writes, c, f, m + 1)
      BY <1>1, <2>0
    <3> QED
      BY <3>1, <2>0 DEF OfStep
  <2>2. f[m] \in Seq(X) /\ writes[m + 1] \in X
    BY <1>3, <2>0
  <2>3. PICK at : Picks(writes, c, m, f[m], at)
    BY <1>3
  <2>4. CASE writes[m + 1].in = c
    <3> DEFINE q == Append(f[m], writes[m + 1])
               to == [i \in 1..Len(q) |-> IF i = Len(q) THEN m + 1 ELSE at[i]]
    <3>1. f[m + 1] = q /\ q \in Seq(X) /\ Len(q) = Len(f[m]) + 1 /\ q[Len(q)] = writes[m + 1]
      BY <2>4, <2>1, <2>2
    <3>2. \A i \in 1..Len(q) : i # Len(q) => i \in 1..Len(f[m]) /\ q[i] = f[m][i] /\ at[i] \in 1..m
      BY <2>2, <2>3 DEF Picks
    <3> HIDE DEF q
    <3>3. to \in [1..Len(q) -> 1..(m + 1)]
      BY <3>2, <2>0
    <3>4. \A i \in 1..Len(q) : q[i] = writes[to[i]] /\ writes[to[i]].in = c
      BY <3>1, <3>2, <2>3, <2>4 DEF Picks
    <3>5. \A i, j \in 1..Len(q) : i < j => to[i] < to[j]
      BY <3>1, <3>2, <2>0, <2>3, <2>2 DEF Picks
    <3>6. ASSUME NEW n \in 1..(m + 1), writes[n].in = c PROVE \E i \in 1..Len(q) : to[i] = n
      <4>1. CASE n = m + 1
        BY <4>1, <3>1, <2>2
      <4>2. CASE n # m + 1
        <5>1. n \in 1..m
          BY <4>2, <2>0
        <5>2. PICK i \in 1..Len(f[m]) : at[i] = n
          BY <5>1, <3>6, <2>3 DEF Picks
        <5>3. i \in 1..Len(q) /\ i # Len(q)
          BY <3>1, <2>2
        <5> QED
          BY <5>2, <5>3
      <4> QED
        BY <4>1, <4>2
    <3>7. Picks(writes, c, m + 1, q, to)
      BY <3>3, <3>4, <3>5, <3>6 DEF Picks
    <3> QED
      BY <3>1, <3>7, <2>0
  <2>5. CASE writes[m + 1].in # c
    <3>1. f[m + 1] = f[m]
      BY <2>5, <2>1
    <3>2. Picks(writes, c, m + 1, f[m], at)
      <4>1. at \in [1..Len(f[m]) -> 1..(m + 1)]
        BY <2>3, <2>0, <2>2 DEF Picks
      <4>2. ASSUME NEW n \in 1..(m + 1), writes[n].in = c PROVE n \in 1..m
        BY <4>2, <2>5, <2>0
      <4> QED
        BY <4>1, <4>2, <2>3 DEF Picks
    <3> QED
      BY <3>1, <3>2, <2>2, <2>0
  <2> QED
    BY <2>4, <2>5
<1>4. Len(writes) \in S
  <2> HIDE DEF S
  <2>1. 0..Len(writes) \subseteq S
    BY <1>2, <1>3, Induction
  <2> QED
    BY <2>1
<1> QED
  BY <1>1, <1>4

\* After the writes a document holds the last value written to it, and what it
\* held before when there is none.
LEMMA WrittenIs ==
  ASSUME NEW content, NEW X, NEW writes \in Seq(X), NEW c \in Collections, NEW d \in Docs[c]
  PROVE  \/ /\ \A n \in 1..Len(writes) : ~(writes[n].in = c /\ writes[n].doc = d)
            /\ Written(content, writes)[c][d] = content[c][d]
         \/ \E n \in 1..Len(writes) :
               /\ writes[n].in = c /\ writes[n].doc = d
               /\ Written(content, writes)[c][d] = writes[n].value
               /\ \A m \in 1..Len(writes) : writes[m].in = c /\ writes[m].doc = d => m <= n
<1> DEFINE mine == {n \in 1..Len(writes) : writes[n].in = c /\ writes[n].doc = d}
           last == CHOOSE n \in mine : \A m \in mine : m <= n
<1>1. Written(content, writes)[c][d] = IF mine = {} THEN content[c][d] ELSE writes[last].value
  BY DEF Written
<1>2. mine # {} => last \in mine /\ \A m \in mine : m <= last
  <2>1. mine \subseteq 0..Len(writes) /\ Len(writes) \in Nat
    OBVIOUS
  <2> HIDE DEF mine
  <2>2. mine # {} => \E n \in mine : \A m \in mine : m <= n
    BY <2>1, GreatestIn
  <2> QED
    BY <2>2
<1>3. CASE mine = {}
  BY <1>1, <1>3
<1>4. CASE mine # {}
  <2>1. last \in mine /\ (\A m \in mine : m <= last)
        /\ Written(content, writes)[c][d] = writes[last].value
    BY <1>1, <1>2, <1>4
  <2> HIDE DEF last
  <2> QED
    BY <2>1
<1> QED
  BY <1>3, <1>4

-------------------------------------------------------------------------------
(* Documents.                                                              *)

\* The documents of each collection.
LEMMA DocsAre ==
  /\ Docs["programs"] = Programs /\ Docs["workstreams"] = Workstreams
  /\ Docs["aliases"] = Tasks /\ Docs["tasks"] = Tasks
  /\ \A c \in Collections : Docs[c] \subseteq Programs \cup Workstreams \cup Tasks
  BY DEF Docs, Collections

\* A fitting value makes a fitting write.
LEMMA PutFits ==
  ASSUME NEW home, NEW made, NEW served, NEW c \in Collections, NEW d \in Docs[c], NEW v,
         Fits(home, made, served, c, d, v)
  PROVE  /\ WriteFits(home, made, served, Put(c, d, v)) /\ Put(c, d, v) \in Writes
         /\ Put(c, d, v).in = c /\ Put(c, d, v).doc = d /\ Put(c, d, v).value = v
<1>1. v \in Values
  BY DEF Fits, Values
<1>2. d \in Programs \cup Workstreams \cup Tasks
  BY DocsAre
<1>3. Put(c, d, v) \in Writes
  BY <1>1, <1>2 DEF Put, Writes
<1> QED
  BY <1>3 DEF WriteFits, Put

\* More tasks were made; those that were there keep their home and whom they
\* serve.
Agree(home, made, served, home2, made2, served2) ==
    /\ made \in Nat /\ made2 \in Nat /\ made <= made2
    /\ \A t \in Tasks : t <= made => home2[t] = home[t] /\ served2[t] = served[t]

\* What fits still fits when more tasks were made.
LEMMA FitsGrows ==
  ASSUME NEW home, NEW made, NEW served, NEW home2, NEW made2, NEW served2,
         Agree(home, made, served, home2, made2, served2),
         NEW c \in Collections, NEW d \in Docs[c], NEW v, Fits(home, made, served, c, d, v)
  PROVE  Fits(home2, made2, served2, c, d, v)
<1> \A t \in Tasks : t \in Nat
  BY FactoryAssumption DEF Tasks
<1>1. CASE v = None
  BY <1>1 DEF Fits
<1>2. CASE c = "programs" /\ v # None
  BY <1>2 DEF Fits
<1>3. CASE c = "workstreams" /\ v # None
  <2>1. v \in WorkstreamRecords /\ AllOf(home, made, v.tasks, d)
    BY <1>3 DEF Fits
  <2>2. \A n \in 1..Len(v.tasks) : v.tasks[n] \in Tasks
    BY <2>1 DEF WorkstreamRecords
  <2>3. AllOf(home2, made2, v.tasks, d)
    BY <2>1, <2>2 DEF AllOf, Agree
  <2> QED
    BY <1>3, <2>1, <2>3 DEF Fits
<1>4. CASE c = "aliases" /\ v # None
  <2>1. d \in Tasks /\ v.task \in Tasks
    BY <1>4, DocsAre DEF Fits, AliasRecords
  <2> QED
    BY <1>4, <2>1 DEF Fits, Agree
<1>5. CASE c = "tasks" /\ v # None
  <2>1. d \in Tasks
    BY <1>5, DocsAre
  <2> QED
    BY <1>5, <2>1 DEF Fits, Agree
<1> QED
  BY <1>1, <1>2, <1>3, <1>4, <1>5 DEF Collections

\* So do the contents of the cache and of the store,
LEMMA ContentGrows ==
  ASSUME NEW home, NEW made, NEW served, NEW home2, NEW made2, NEW served2,
         Agree(home, made, served, home2, made2, served2),
         NEW content, ContentFits(home, made, served, content)
  PROVE  ContentFits(home2, made2, served2, content)
  BY FitsGrows DEF ContentFits

\* and the queues.
LEMMA QueueGrows ==
  ASSUME NEW home, NEW made, NEW served, NEW home2, NEW made2, NEW served2,
         Agree(home, made, served, home2, made2, served2),
         NEW q, QueueFits(home, made, served, q)
  PROVE  QueueFits(home2, made2, served2, q)
<1> SUFFICES ASSUME NEW c \in Collections, NEW n \in 1..Len(q[c])
             PROVE  q[c][n].in = c /\ WriteFits(home2, made2, served2, q[c][n])
  BY DEF QueueFits
<1>1. q[c][n].in = c /\ WriteFits(home, made, served, q[c][n])
  BY DEF QueueFits
<1> QED
  BY <1>1, FitsGrows DEF WriteFits

-------------------------------------------------------------------------------
(* Persist.                                                                *)

\* What the concatenation of two sequences holds.
LEMMA Joined ==
  ASSUME NEW X, NEW q \in Seq(X), NEW r \in Seq(X)
  PROVE  /\ q \o r \in Seq(X) /\ Len(q \o r) = Len(q) + Len(r)
         /\ Len(q) \in Nat /\ Len(r) \in Nat
         /\ \A n \in 1..Len(q) : n \in 1..Len(q \o r) /\ (q \o r)[n] = q[n]
         /\ \A n \in 1..Len(r) : Len(q) + n \in 1..Len(q \o r) /\ (q \o r)[Len(q) + n] = r[n]
         /\ \A n \in 1..Len(q \o r) : n > Len(q) => n - Len(q) \in 1..Len(r) /\ (q \o r)[n] = r[n - Len(q)]
  OBVIOUS

\* upsert and delete of fitting values leave a fitting cache and fitting queues.
LEMMA PersistFits ==
  ASSUME NEW home, NEW made, NEW served,
         ContentFits(home, made, served, cache), QueueFits(home, made, served, queue),
         NEW writes \in Seq(Writes), \A n \in 1..Len(writes) : WriteFits(home, made, served, writes[n]),
         Persist(writes)
  PROVE  ContentFits(home, made, served, cache') /\ QueueFits(home, made, served, queue')
<1>1. cache' = Written(cache, writes)
  BY DEF Persist
<1>2. cache' = [c \in Collections |-> [d \in Docs[c] |-> cache'[c][d]]]
  BY <1>1 DEF Written
<1>3. ASSUME NEW c \in Collections, NEW d \in Docs[c]
      PROVE  Fits(home, made, served, c, d, cache'[c][d])
  <2>1. CASE cache'[c][d] = cache[c][d]
    BY <2>1 DEF ContentFits
  <2>2. ASSUME NEW n \in 1..Len(writes), writes[n].in = c, writes[n].doc = d,
               cache'[c][d] = writes[n].value
        PROVE  Fits(home, made, served, c, d, cache'[c][d])
    BY <2>2 DEF WriteFits
  <2> QED
    BY <1>1, <2>1, <2>2, WrittenIs
<1>4. ASSUME NEW c \in Collections
      PROVE  /\ queue'[c] \in Seq(Writes)
             /\ \A n \in 1..Len(queue'[c]) :
                   queue'[c][n].in = c /\ WriteFits(home, made, served, queue'[c][n])
  <2>1. queue[c] \in Seq(Writes)
    BY DEF QueueFits
  <2>2. queue'[c] = queue[c] \o Of(writes, c)
    BY DEF Persist, Enqueue
  <2>3. Of(writes, c) \in Seq(Writes)
    BY OfPicks
  <2>4. PICK at : Picks(writes, c, Len(writes), Of(writes, c), at)
    BY OfPicks
  <2>5. \A n \in 1..Len(Of(writes, c)) : Of(writes, c)[n].in = c /\ WriteFits(home, made, served, Of(writes, c)[n])
    BY <2>4 DEF Picks
  <2>6. ASSUME NEW n \in 1..Len(queue'[c])
        PROVE  queue'[c][n].in = c /\ WriteFits(home, made, served, queue'[c][n])
    <3>1. CASE n <= Len(queue[c])
      <4>1. n \in 1..Len(queue[c]) /\ queue'[c][n] = queue[c][n]
        BY <3>1, <2>1, <2>2, <2>3, Joined
      <4> QED
        BY <4>1 DEF QueueFits
    <3>2. CASE n > Len(queue[c])
      BY <3>2, <2>1, <2>2, <2>3, <2>5, Joined
    <3> QED
      BY <3>1, <3>2, <2>1
  <2> QED
    BY <2>1, <2>2, <2>3, <2>6, Joined
<1>5. queue' \in [Collections -> Seq(Writes)]
  BY <1>4 DEF Persist
<1> QED
  BY <1>2, <1>3, <1>4, <1>5 DEF ContentFits, QueueFits

\* They change the cache and what the queue will come to in the same way.
LEMMA PersistSyncs ==
  ASSUME queue \in [Collections -> Seq(Writes)], NEW writes \in Seq(Writes), Persist(writes),
         NEW c \in Collections, Synced(c, cache, stored, queue)
  PROVE  Synced(c, cache', stored, queue')
<1>1. queue[c] \in Seq(Writes)
  OBVIOUS
<1>2. queue'[c] = queue[c] \o Of(writes, c)
  BY DEF Persist, Enqueue
<1>3. Of(writes, c) \in Seq(Writes)
  BY OfPicks
<1>4. PICK at : Picks(writes, c, Len(writes), Of(writes, c), at)
  BY OfPicks
<1> DEFINE q == queue[c]
           r == Of(writes, c)
           q2 == queue'[c]
<1>5. /\ q2 \in Seq(Writes) /\ Len(q2) = Len(q) + Len(r) /\ Len(q) \in Nat /\ Len(r) \in Nat
      /\ \A n \in 1..Len(q) : n \in 1..Len(q2) /\ q2[n] = q[n]
      /\ \A n \in 1..Len(r) : Len(q) + n \in 1..Len(q2) /\ q2[Len(q) + n] = r[n]
      /\ \A n \in 1..Len(q2) : n > Len(q) => n - Len(q) \in 1..Len(r) /\ q2[n] = r[n - Len(q)]
  BY <1>1, <1>2, <1>3, Joined
<1>6. /\ \A i \in 1..Len(r) : at[i] \in 1..Len(writes) /\ r[i] = writes[at[i]] /\ r[i].in = c
      /\ \A i, j \in 1..Len(r) : i < j => at[i] < at[j]
      /\ \A n \in 1..Len(writes) : writes[n].in = c => \E i \in 1..Len(r) : at[i] = n
  BY <1>4 DEF Picks
<1>7. cache' = Written(cache, writes) /\ Len(writes) \in Nat
  BY DEF Persist
<1> SUFFICES ASSUME NEW d \in Docs[c]
             PROVE  \/ /\ \A n \in 1..Len(q2) : q2[n].doc # d
                       /\ cache'[c][d] = stored[c][d]
                    \/ \E n \in 1..Len(q2) : LastOf(q2, d, n) /\ cache'[c][d] = q2[n].value
  BY DEF Synced
<1>8. \/ /\ \A n \in 1..Len(q) : q[n].doc # d
         /\ cache[c][d] = stored[c][d]
      \/ \E n \in 1..Len(q) : LastOf(q, d, n) /\ cache[c][d] = q[n].value
  BY DEF Synced
<1> HIDE DEF q, r, q2
<1>9. CASE /\ \A n \in 1..Len(writes) : ~(writes[n].in = c /\ writes[n].doc = d)
           /\ cache'[c][d] = cache[c][d]
  <2>1. \A n \in 1..Len(q2) : q2[n].doc = d => n \in 1..Len(q)
    <3> SUFFICES ASSUME NEW n \in 1..Len(q2), n > Len(q) PROVE q2[n].doc # d
      BY <1>5
    <3> DEFINE i == n - Len(q)
    <3>1. i \in 1..Len(r) /\ q2[n] = r[i]
      BY <1>5
    <3> HIDE DEF i
    <3> QED
      BY <3>1, <1>6, <1>9
  <2> QED
    BY <2>1, <1>5, <1>8, <1>9 DEF LastOf
<1>10. ASSUME NEW n \in 1..Len(writes), writes[n].in = c, writes[n].doc = d,
              cache'[c][d] = writes[n].value,
              \A m \in 1..Len(writes) : writes[m].in = c /\ writes[m].doc = d => m <= n
       PROVE  \E l \in 1..Len(q2) : LastOf(q2, d, l) /\ cache'[c][d] = q2[l].value
  <2>1. PICK i \in 1..Len(r) : at[i] = n
    BY <1>6, <1>10
  <2>2. Len(q) + i \in 1..Len(q2) /\ q2[Len(q) + i] = writes[n]
    BY <2>1, <1>5, <1>6
  <2>3. ASSUME NEW m \in 1..Len(q2), q2[m].doc = d PROVE m <= Len(q) + i
    <3> SUFFICES ASSUME m > Len(q) + i PROVE FALSE
      BY <1>5
    <3> DEFINE j == m - Len(q)
    <3>1. j \in 1..Len(r) /\ q2[m] = r[j] /\ i < j
      BY <1>5
    <3> HIDE DEF j
    <3>2. at[j] <= n /\ at[i] < at[j]
      BY <3>1, <2>3, <1>6, <1>10
    <3> QED
      BY <3>1, <3>2, <2>1, <1>6
  <2>4. LastOf(q2, d, Len(q) + i)
    BY <2>2, <2>3, <1>10 DEF LastOf
  <2> QED
    BY <2>2, <2>4, <1>10
<1>11. \/ /\ \A n \in 1..Len(writes) : ~(writes[n].in = c /\ writes[n].doc = d)
          /\ cache'[c][d] = cache[c][d]
       \/ \E n \in 1..Len(writes) :
             /\ writes[n].in = c /\ writes[n].doc = d
             /\ cache'[c][d] = writes[n].value
             /\ \A m \in 1..Len(writes) : writes[m].in = c /\ writes[m].doc = d => m <= n
  <2>1. \/ /\ \A n \in 1..Len(writes) : ~(writes[n].in = c /\ writes[n].doc = d)
           /\ Written(cache, writes)[c][d] = cache[c][d]
        \/ \E n \in 1..Len(writes) :
              /\ writes[n].in = c /\ writes[n].doc = d
              /\ Written(cache, writes)[c][d] = writes[n].value
              /\ \A m \in 1..Len(writes) : writes[m].in = c /\ writes[m].doc = d => m <= n
    BY WrittenIs
  <2> QED
    BY <2>1, <1>7
<1> QED
  BY <1>9, <1>10, <1>11

\* Task ids are numbers.
LEMMA TaskIsNat == \A t \in Tasks : t \in Nat /\ t # None /\ t >= 1 /\ t <= MaxTasks
  BY FactoryAssumption DEF Tasks

\* A task that is completed in the cache is so in the store, or will be.
LEMMA CompletedReachesStore ==
  ASSUME Synced("tasks", cache, stored, queue), NEW d \in Tasks, Completed(cache["tasks"][d])
  PROVE  \/ Completed(stored["tasks"][d])
         \/ \E m \in 1..Len(queue["tasks"]) :
               queue["tasks"][m].doc = d /\ Completed(queue["tasks"][m].value)
<1>1. d \in Docs["tasks"]
  BY DocsAre
<1> QED
  BY <1>1 DEF Synced, LastOf

\* And the other way round: no later write takes it back.
LEMMA CompletedIsKept ==
  ASSUME queue["tasks"] \in Seq(Writes), Synced("tasks", cache, stored, queue),
         Final(stored["tasks"], queue["tasks"]), NEW d \in Tasks,
         \/ Completed(stored["tasks"][d])
         \/ \E m \in 1..Len(queue["tasks"]) :
               queue["tasks"][m].doc = d /\ Completed(queue["tasks"][m].value)
  PROVE  Completed(cache["tasks"][d])
<1>1. d \in Docs["tasks"]
  BY DocsAre
<1>2. CASE Completed(stored["tasks"][d])
  <2>1. \A n \in 1..Len(queue["tasks"]) : queue["tasks"][n].doc # d
    BY <1>2 DEF Final
  <2> QED
    BY <1>1, <1>2, <2>1 DEF Synced, LastOf
<1>3. ASSUME NEW m \in 1..Len(queue["tasks"]), queue["tasks"][m].doc = d,
             Completed(queue["tasks"][m].value)
      PROVE  Completed(cache["tasks"][d])
  <2>1. PICK n \in 1..Len(queue["tasks"]) :
           LastOf(queue["tasks"], d, n) /\ cache["tasks"][d] = queue["tasks"][n].value
    BY <1>1, <1>3 DEF Synced
  <2>2. m <= n /\ queue["tasks"][n].doc = d
    BY <2>1, <1>3 DEF LastOf
  <2>3. ~(m < n)
    BY <2>2, <1>3 DEF Final
  <2> QED
    BY <2>1, <2>2, <2>3, <1>3
<1> QED
  BY <1>2, <1>3

\* With the queue in order, the cache shows no submitted task before its
\* dependencies are completed.
LEMMA CacheInOrder ==
  ASSUME queue["tasks"] \in Seq(Writes), Synced("tasks", cache, stored, queue),
         Final(stored["tasks"], queue["tasks"]),
         InOrder(stored["tasks"], queue["tasks"], servedBy),
         NEW t \in Tasks, cache["tasks"][t] # None, servedBy[t] # None,
         NEW d \in Tasks, d \in cache["tasks"][t].deps
  PROVE  Completed(cache["tasks"][d])
<1>1. t \in Docs["tasks"]
  BY DocsAre
<1>2. \/ cache["tasks"][t] = stored["tasks"][t]
      \/ \E n \in 1..Len(queue["tasks"]) :
            queue["tasks"][n].doc = t /\ cache["tasks"][t] = queue["tasks"][n].value
  BY <1>1 DEF Synced, LastOf
<1>3. \/ Completed(stored["tasks"][d])
      \/ \E m \in 1..Len(queue["tasks"]) :
            queue["tasks"][m].doc = d /\ Completed(queue["tasks"][m].value)
  BY <1>2 DEF InOrder
<1> QED
  BY <1>3, CompletedIsKept

\* What Persist asks of the writes to tasks, if the store is to see completed
\* tasks stay so and work start after its dependencies.
TaskWrite(x, served) ==
    x.in = "tasks" =>
       /\ ~Completed(cache["tasks"][x.doc])
       /\ x.value # None /\ served[x.doc] # None =>
             \A d \in x.value.deps : Completed(cache["tasks"][d])

\* Writes that leave completed tasks alone, and submit tasks whose dependencies
\* are completed in the cache, keep the queue of the tasks in order: what
\* completed the dependencies is in the store or ahead in the queue.
LEMMA PersistInOrder ==
  ASSUME NEW home, NEW served, QueueFits(home, issued, servedBy, queue),
         ContentFits(home, issued, servedBy, stored),
         \A t \in Tasks : t <= issued => served[t] = servedBy[t],
         NEW writes \in Seq(Writes), Persist(writes),
         \A n \in 1..Len(writes) : writes[n].doc \in Docs[writes[n].in] /\ TaskWrite(writes[n], served),
         \A n, m \in 1..Len(writes) :
            /\ n < m /\ writes[n].in = "tasks" /\ Completed(writes[n].value)
            /\ writes[m].in = "tasks"
            => writes[m].doc # writes[n].doc,
         \A n \in 1..Len(writes) : writes[n].in = "tasks" /\ writes[n].value # None =>
             writes[n].value.deps \subseteq Tasks,
         Synced("tasks", cache, stored, queue),
         Final(stored["tasks"], queue["tasks"]),
         InOrder(stored["tasks"], queue["tasks"], servedBy)
  PROVE  Final(stored["tasks"], queue'["tasks"]) /\ InOrder(stored["tasks"], queue'["tasks"], served)
<1> DEFINE q == queue["tasks"]
           r == Of(writes, "tasks")
           q2 == queue'["tasks"]
           base == stored["tasks"]
<1>0. "tasks" \in Collections /\ Docs["tasks"] = Tasks
  BY DocsAre DEF Collections
<1>1. q \in Seq(Writes)
  BY <1>0 DEF QueueFits
<1>2. q2 = q \o r
  BY <1>0 DEF Persist, Enqueue
<1>3. r \in Seq(Writes)
  BY OfPicks
<1>4. PICK at : Picks(writes, "tasks", Len(writes), r, at)
  BY OfPicks
<1>5. /\ q2 \in Seq(Writes) /\ Len(q2) = Len(q) + Len(r) /\ Len(q) \in Nat /\ Len(r) \in Nat
      /\ \A n \in 1..Len(q) : n \in 1..Len(q2) /\ q2[n] = q[n]
      /\ \A n \in 1..Len(q2) : n > Len(q) => n - Len(q) \in 1..Len(r) /\ q2[n] = r[n - Len(q)]
  BY <1>1, <1>2, <1>3, Joined
<1>6. /\ \A i \in 1..Len(r) : at[i] \in 1..Len(writes) /\ r[i] = writes[at[i]] /\ r[i].in = "tasks"
      /\ \A i, j \in 1..Len(r) : i < j => at[i] < at[j]
  BY <1>4 DEF Picks
<1>7. ASSUME NEW i \in 1..Len(r)
      PROVE  /\ r[i].doc \in Tasks /\ ~Completed(cache["tasks"][r[i].doc])
             /\ ~Completed(base[r[i].doc])
             /\ \A n \in 1..Len(q) : Completed(q[n].value) => q[n].doc # r[i].doc
             /\ r[i].value # None /\ served[r[i].doc] # None =>
                   \A d \in r[i].value.deps : d \in Tasks /\ Completed(cache["tasks"][d])
  <2>1. /\ r[i].doc \in Tasks /\ ~Completed(cache["tasks"][r[i].doc])
        /\ r[i].value # None /\ served[r[i].doc] # None =>
             \A d \in r[i].value.deps : d \in Tasks /\ Completed(cache["tasks"][d])
    BY <1>6, <1>0 DEF TaskWrite
  <2>2. /\ ~Completed(base[r[i].doc])
        /\ \A n \in 1..Len(q) : Completed(q[n].value) => q[n].doc # r[i].doc
    BY <2>1, <1>1, CompletedIsKept
  <2> QED
    BY <2>1, <2>2
<1>8. \A n \in 1..Len(q) : q[n].doc \in Tasks /\ (q[n].value # None => q[n].doc <= issued)
  <2> SUFFICES ASSUME NEW n \in 1..Len(q) PROVE q[n].doc \in Tasks /\ (q[n].value # None => q[n].doc <= issued)
    OBVIOUS
  <2>1. q[n].in = "tasks" /\ WriteFits(home, issued, servedBy, q[n])
    BY <1>0 DEF QueueFits
  <2> QED
    BY <2>1, <1>0 DEF WriteFits, Fits
<1>9. \A t \in Tasks : base[t] # None => t <= issued
  BY <1>0 DEF ContentFits, Fits
<1>10. Final(base, q) /\ InOrder(base, q, servedBy)
  OBVIOUS
<1>11. \A d \in Tasks : Completed(cache["tasks"][d]) =>
          Completed(base[d]) \/ \E m \in 1..Len(q) : q[m].doc = d /\ Completed(q[m].value)
  BY CompletedReachesStore
<1> HIDE DEF q, r, q2, base
<1>12. ASSUME NEW n \in 1..Len(q2)
       PROVE  /\ ~Completed(base[q2[n].doc])
              /\ Completed(q2[n].value) => \A m \in 1..Len(q2) : n < m => q2[m].doc # q2[n].doc
  <2>1. CASE n <= Len(q)
    <3>1. n \in 1..Len(q) /\ q2[n] = q[n]
      BY <2>1, <1>5
    <3>2. ~Completed(base[q2[n].doc])
      BY <3>1, <1>10 DEF Final
    <3>3. ASSUME Completed(q2[n].value), NEW m \in 1..Len(q2), n < m PROVE q2[m].doc # q2[n].doc
      <4>1. CASE m <= Len(q)
        <5>1. m \in 1..Len(q) /\ q2[m] = q[m]
          BY <4>1, <1>5
        <5> QED
          BY <5>1, <3>1, <3>3, <1>10 DEF Final
      <4>2. CASE m > Len(q)
        <5>1. m - Len(q) \in 1..Len(r) /\ q2[m] = r[m - Len(q)]
          BY <4>2, <1>5
        <5> QED
          BY <5>1, <3>1, <3>3, <1>7
      <4> QED
        BY <4>1, <4>2, <1>5
    <3> QED
      BY <3>2, <3>3
  <2>2. CASE n > Len(q)
    <3>1. n - Len(q) \in 1..Len(r) /\ q2[n] = r[n - Len(q)]
      BY <2>2, <1>5
    <3>2. ~Completed(base[q2[n].doc])
      BY <3>1, <1>7
    <3>3. ASSUME Completed(q2[n].value), NEW m \in 1..Len(q2), n < m PROVE q2[m].doc # q2[n].doc
      <4>1. m - Len(q) \in 1..Len(r) /\ q2[m] = r[m - Len(q)] /\ n - Len(q) < m - Len(q)
        BY <2>2, <3>3, <1>5
      <4> DEFINE i == n - Len(q)
                 j == m - Len(q)
      <4>2. i \in 1..Len(r) /\ j \in 1..Len(r) /\ i < j /\ q2[n] = r[i] /\ q2[m] = r[j]
        BY <4>1, <3>1
      <4> HIDE DEF i, j
      <4>3. at[i] < at[j] /\ at[i] \in 1..Len(writes) /\ at[j] \in 1..Len(writes)
            /\ r[i] = writes[at[i]] /\ r[j] = writes[at[j]] /\ r[i].in = "tasks" /\ r[j].in = "tasks"
        BY <4>2, <1>6
      <4> QED
        BY <4>2, <4>3, <3>3
    <3> QED
      BY <3>2, <3>3
  <2> QED
    BY <2>1, <2>2, <1>5
<1>13. Final(base, q2)
  BY <1>12 DEF Final
<1>14. ASSUME NEW t \in Tasks, base[t] # None, served[t] # None, NEW d \in base[t].deps
       PROVE  Completed(base[d])
  BY <1>9, <1>10, <1>14 DEF InOrder
<1>15. ASSUME NEW n \in 1..Len(q2), q2[n].value # None, served[q2[n].doc] # None,
              NEW d \in q2[n].value.deps
       PROVE  \/ Completed(base[d])
              \/ \E m \in 1..Len(q2) : m < n /\ q2[m].doc = d /\ Completed(q2[m].value)
  <2>1. CASE n <= Len(q)
    <3>1. n \in 1..Len(q) /\ q2[n] = q[n]
      BY <2>1, <1>5
    <3>2. servedBy[q[n].doc] # None
      BY <3>1, <1>8, <1>15
    <3>3. \/ Completed(base[d])
          \/ \E m \in 1..Len(q) : m < n /\ q[m].doc = d /\ Completed(q[m].value)
      BY <3>1, <3>2, <1>10, <1>15 DEF InOrder
    <3> QED
      BY <3>3, <1>5
  <2>2. CASE n > Len(q)
    <3>1. n - Len(q) \in 1..Len(r) /\ q2[n] = r[n - Len(q)]
      BY <2>2, <1>5
    <3>2. d \in Tasks /\ Completed(cache["tasks"][d])
      BY <3>1, <1>7, <1>15
    <3>3. \/ Completed(base[d])
          \/ \E m \in 1..Len(q) : q[m].doc = d /\ Completed(q[m].value)
      BY <3>2, <1>11
    <3>4. \A m \in 1..Len(q) : m < n
      BY <2>2, <1>5
    <3> QED
      BY <3>3, <3>4, <1>5
  <2> QED
    BY <2>1, <2>2, <1>5
<1>16. InOrder(base, q2, served)
  BY <1>14, <1>15 DEF InOrder
<1> QED
  BY <1>13, <1>16 DEF base, q2

\* All that upsert and delete keep, in one.
LEMMA PersistKeeps ==
  ASSUME NEW home, NEW home2, Agree(home, issued, servedBy, home2, issued', servedBy'),
         Placed(home), Lossless,
         NEW writes \in Seq(Writes), Persist(writes), stored' = stored, lost' = lost,
         \A n \in 1..Len(writes) : WriteFits(home2, issued', servedBy', writes[n]),
         lost = 0 => \A n \in 1..Len(writes) : TaskWrite(writes[n], servedBy'),
         \A n, m \in 1..Len(writes) :
            /\ n < m /\ writes[n].in = "tasks" /\ Completed(writes[n].value)
            /\ writes[m].in = "tasks"
            => writes[m].doc # writes[n].doc
  PROVE  /\ ContentFits(home2, issued', servedBy', cache')
         /\ ContentFits(home2, issued', servedBy', stored')
         /\ QueueFits(home2, issued', servedBy', queue')
         /\ Lossless'
<1>1. /\ ContentFits(home2, issued', servedBy', cache)
      /\ ContentFits(home2, issued', servedBy', stored)
      /\ QueueFits(home2, issued', servedBy', queue)
  BY ContentGrows, QueueGrows DEF Placed
<1>2. /\ ContentFits(home2, issued', servedBy', cache')
      /\ QueueFits(home2, issued', servedBy', queue')
  BY <1>1, PersistFits
<1>3. ASSUME lost = 0
      PROVE  /\ \A c \in Collections : Synced(c, cache', stored, queue')
             /\ Final(stored["tasks"], queue'["tasks"])
             /\ InOrder(stored["tasks"], queue'["tasks"], servedBy')
  <2>1. \A c \in Collections : Synced(c, cache', stored, queue')
    <3>1. queue \in [Collections -> Seq(Writes)]
      BY DEF Placed, QueueFits
    <3> QED
      BY <3>1, <1>3, PersistSyncs DEF Lossless
  <2>2. \A n \in 1..Len(writes) : writes[n].in = "tasks" /\ writes[n].value # None =>
           writes[n].value.deps \subseteq Tasks
    <3> SUFFICES ASSUME NEW n \in 1..Len(writes), writes[n].in = "tasks", writes[n].value # None
                 PROVE  writes[n].value.deps \subseteq Tasks
      OBVIOUS
    <3>1. writes[n].value \in TaskRecords
      BY DEF WriteFits, Fits
    <3> QED
      BY <3>1 DEF TaskRecords
  <2>3. /\ Synced("tasks", cache, stored, queue) /\ Final(stored["tasks"], queue["tasks"])
        /\ InOrder(stored["tasks"], queue["tasks"], servedBy)
    BY <1>3 DEF Lossless, Collections
  <2>4. \A t \in Tasks : t <= issued => servedBy'[t] = servedBy[t]
    BY DEF Agree
  <2>5. \A n \in 1..Len(writes) : writes[n].doc \in Docs[writes[n].in] /\ TaskWrite(writes[n], servedBy')
    BY <1>3 DEF WriteFits
  <2>6. QueueFits(home, issued, servedBy, queue) /\ ContentFits(home, issued, servedBy, stored)
    BY DEF Placed
  <2>7. Final(stored["tasks"], queue'["tasks"]) /\ InOrder(stored["tasks"], queue'["tasks"], servedBy')
    BY <2>2, <2>3, <2>4, <2>5, <2>6, PersistInOrder
  <2> QED
    BY <2>1, <2>7
<1> QED
  BY <1>1, <1>2, <1>3 DEF Lossless

\* What the cache holds after upsert and delete.
LEMMA CacheAfter ==
  ASSUME NEW writes \in Seq(Writes), Persist(writes), NEW c \in Collections, NEW d \in Docs[c]
  PROVE  \/ /\ \A n \in 1..Len(writes) : ~(writes[n].in = c /\ writes[n].doc = d)
            /\ cache'[c][d] = cache[c][d]
         \/ \E n \in 1..Len(writes) :
               /\ writes[n].in = c /\ writes[n].doc = d
               /\ cache'[c][d] = writes[n].value
               /\ \A m \in 1..Len(writes) : writes[m].in = c /\ writes[m].doc = d => m <= n
  BY WrittenIs DEF Persist

\* A workstream that is written stays with its program.
StreamWrite(x) ==
    x.in = "workstreams" =>
       /\ x.value # None
       /\ cache["workstreams"][x.doc] # None =>
             x.value.program = cache["workstreams"][x.doc].program

\* Workstreams stay with their programs,
LEMMA OwnedStays ==
  ASSUME NEW writes \in Seq(Writes), Persist(writes),
         \A n \in 1..Len(writes) : StreamWrite(writes[n]),
         NEW w \in Workstreams, NEW p, Owned(cache, w, p)
  PROVE  Owned(cache', w, p)
<1>1. "workstreams" \in Collections /\ w \in Docs["workstreams"]
  BY DocsAre DEF Collections
<1>2. CASE cache'["workstreams"][w] = cache["workstreams"][w]
  BY <1>2 DEF Owned
<1>3. ASSUME NEW n \in 1..Len(writes), writes[n].in = "workstreams", writes[n].doc = w,
             cache'["workstreams"][w] = writes[n].value
      PROVE  Owned(cache', w, p)
  BY <1>3 DEF Owned, StreamWrite
<1> QED
  BY <1>1, <1>2, <1>3, CacheAfter

\* and programs list workstreams of their own.
LEMMA TreesStay ==
  ASSUME NEW home, ContentFits(home, issued, servedBy, cache), Trees,
         NEW writes \in Seq(Writes), Persist(writes),
         \A n \in 1..Len(writes) : StreamWrite(writes[n]),
         \A n \in 1..Len(writes) : writes[n].in = "programs" /\ writes[n].value # None =>
            \A i \in 1..Len(writes[n].value) : Owned(cache', writes[n].value[i], writes[n].doc)
  PROVE  /\ \A p \in Programs : cache'["programs"][p] # None =>
               \A n \in 1..Len(cache'["programs"][p]) : Owned(cache', cache'["programs"][p][n], p)
         /\ \A w \in Workstreams : cache["workstreams"][w] # None => cache'["workstreams"][w] # None
<1>1. "programs" \in Collections /\ Docs["programs"] = Programs
  BY DocsAre DEF Collections
<1>2. ASSUME NEW p \in Programs, cache'["programs"][p] # None, NEW n \in 1..Len(cache'["programs"][p])
      PROVE  Owned(cache', cache'["programs"][p][n], p)
  <2>1. CASE cache'["programs"][p] = cache["programs"][p]
    <3>1. cache["programs"][p] \in Seq(Workstreams)
      BY <1>1, <1>2, <2>1 DEF ContentFits, Fits
    <3>2. Owned(cache, cache["programs"][p][n], p) /\ cache["programs"][p][n] \in Workstreams
      BY <1>2, <2>1, <3>1 DEF Trees
    <3> QED
      BY <2>1, <3>2, OwnedStays
  <2>2. ASSUME NEW m \in 1..Len(writes), writes[m].in = "programs", writes[m].doc = p,
               cache'["programs"][p] = writes[m].value
        PROVE  Owned(cache', cache'["programs"][p][n], p)
    BY <1>2, <2>2
  <2> QED
    BY <1>1, <2>1, <2>2, CacheAfter
<1>3. ASSUME NEW w \in Workstreams, cache["workstreams"][w] # None
      PROVE  cache'["workstreams"][w] # None
  BY <1>3, OwnedStays DEF Owned
<1> QED
  BY <1>2, <1>3

\* A list of a workstream's tasks stays one when more tasks were made.
LEMMA AllOfGrows ==
  ASSUME NEW home, NEW made, NEW served, NEW home2, NEW made2, NEW served2,
         Agree(home, made, served, home2, made2, served2),
         NEW list \in Seq(Tasks), NEW w, AllOf(home, made, list, w)
  PROVE  AllOf(home2, made2, list, w)
<1>1. \A n \in 1..Len(list) : list[n] \in Tasks /\ list[n] \in Nat
  BY TaskIsNat
<1> QED
  BY <1>1 DEF AllOf, Agree

\* A tick that waits is not disturbed by what others do meanwhile, as long as its
\* workstreams and its submission stay.
LEMMA WalkingStays ==
  ASSUME NEW home, NEW home2, Agree(home, issued, servedBy, home2, issued', servedBy'),
         NEW x, Walking(home, issued, servedBy, cache, withdrawn, x),
         \A w \in Workstreams, p \in Programs : Owned(cache, w, p) => Owned(cache', w, p),
         cache'["tasks"][x.submitted] # None,
         cache'["tasks"][x.submitted].status = "cancelled" => x.submitted \in withdrawn'
  PROVE  Walking(home2, issued', servedBy', cache', withdrawn', x)
<1>1. /\ x \in Walks /\ x.program \in Programs /\ x.workstream \in Workstreams
      /\ x.local \in Seq(Tasks) /\ x.left \in Seq(Tasks) /\ x.todo \in Seq(Workstreams)
      /\ x.planned \in Tasks /\ x.submitted \in Tasks
  BY DEF Walking, Walks
<1>2. /\ Owned(cache', x.workstream, x.program)
      /\ \A n \in 1..Len(x.todo) : Owned(cache', x.todo[n], x.program)
  BY <1>1 DEF Walking
<1>3. /\ AllOf(home2, issued', x.local, x.workstream) /\ AllOf(home2, issued', x.left, x.workstream)
  BY <1>1, AllOfGrows DEF Walking
<1>4. /\ x.planned <= issued' /\ home2[x.planned] = x.workstream /\ servedBy'[x.planned] = None
      /\ x.submitted <= issued' /\ home2[x.submitted] = x.workstream
      /\ servedBy'[x.submitted] = x.planned
  BY <1>1, TaskIsNat DEF Walking, Agree
<1> QED
  BY <1>1, <1>2, <1>3, <1>4 DEF Walking

\* The same of all ticks, for a step that ends and starts none.
LEMMA TicksStay ==
  ASSUME NEW home, NEW home2, Agree(home, issued, servedBy, home2, issued', servedBy'),
         Placed(home), tick' = tick, withdrawn \subseteq withdrawn',
         NEW writes \in Seq(Writes), Persist(writes),
         \A n \in 1..Len(writes) : StreamWrite(writes[n]),
         \A n \in 1..Len(writes) : \A k \in Ticks :
            writes[n].in = "tasks" /\ tick[k] # Idle /\ writes[n].doc = tick[k].submitted =>
            /\ writes[n].value # None
            /\ writes[n].value.status = "cancelled" => tick[k].submitted \in withdrawn'
  PROVE  TicksFit(home2)'
<1>1. TicksFit(home)
  BY DEF Placed
<1>2. ASSUME NEW k \in Ticks, tick[k] # Idle
      PROVE  Walking(home2, issued', servedBy', cache', withdrawn', tick[k])
  <2>1. Walking(home, issued, servedBy, cache, withdrawn, tick[k])
    BY <1>1, <1>2 DEF TicksFit
  <2>2. "tasks" \in Collections /\ tick[k].submitted \in Docs["tasks"]
    BY <2>1, DocsAre DEF Walking, Walks, Collections
  <2>3. /\ cache'["tasks"][tick[k].submitted] # None
        /\ cache'["tasks"][tick[k].submitted].status = "cancelled" => tick[k].submitted \in withdrawn'
    <3>1. CASE cache'["tasks"][tick[k].submitted] = cache["tasks"][tick[k].submitted]
      BY <3>1, <2>1 DEF Walking
    <3>2. ASSUME NEW n \in 1..Len(writes), writes[n].in = "tasks", writes[n].doc = tick[k].submitted,
                 cache'["tasks"][tick[k].submitted] = writes[n].value
          PROVE  /\ cache'["tasks"][tick[k].submitted] # None
                 /\ cache'["tasks"][tick[k].submitted].status = "cancelled" => tick[k].submitted \in withdrawn'
      BY <3>2, <1>2
    <3> QED
      BY <2>2, <3>1, <3>2, CacheAfter
  <2>4. \A w \in Workstreams, p \in Programs : Owned(cache, w, p) => Owned(cache', w, p)
    BY OwnedStays
  <2> QED
    BY <2>1, <2>3, <2>4, WalkingStays
<1> QED
  BY <1>1, <1>2 DEF TicksFit

\* A step that submits nothing and opens nothing but new ids counts the same.
LEMMA OnceStays ==
  ASSUME Counters, Once, UNCHANGED <<tick, servedBy, withdrawn, restarts>>,
         \A t \in Tasks : Open(t)' => Open(t) \/ t > issued
  PROVE  Once'
<1> SUFFICES ASSUME NEW t \in Tasks
             PROVE  /\ Cardinality(Serving(t))' <= 1 + restarts
                    /\ (Open(t) /\ ~UnderWay(t))' => Cardinality(Serving(t))' <= restarts
  BY DEF Once
<1>1. Serving(t)' = Serving(t) /\ (UnderWay(t)' <=> UnderWay(t))
  BY DEF Serving, UnderWay
<1>2. ASSUME t > issued PROVE Cardinality(Serving(t)) <= restarts
  <2>1. Serving(t) = {}
    BY <1>2, TaskIsNat DEF Serving, Counters
  <2> QED
    BY <2>1, FS_EmptySet, FactoryAssumption DEF Counters
<1> QED
  BY <1>1, <1>2 DEF Once

\* A step that takes away no task and no alias leaves dependencies known.
LEMMA KnownStays ==
  ASSUME NEW home, ContentFits(home, issued, servedBy, cache), Known, restarts' = restarts,
         \A t \in Tasks : cache'["aliases"][t] = cache["aliases"][t],
         \A t \in Tasks : cache["tasks"][t] # None =>
            cache'["tasks"][t] # None /\ cache'["tasks"][t].workstream = cache["tasks"][t].workstream,
         \A t \in Tasks : cache'["tasks"][t] # None =>
            /\ cache'["tasks"][t].deps \subseteq Tasks
            /\ \/ /\ cache["tasks"][t] # None
                  /\ cache'["tasks"][t].deps = cache["tasks"][t].deps
                  /\ cache'["tasks"][t].workstream = cache["tasks"][t].workstream
               \/ \A d \in cache'["tasks"][t].deps :
                     LET e == cache["tasks"][Resolved(cache, d)]
                     IN e # None /\ e.workstream = cache'["tasks"][t].workstream
  PROVE  Known'
<1> SUFFICES ASSUME restarts = 0, NEW t \in Tasks, cache'["tasks"][t] # None,
                    NEW d \in cache'["tasks"][t].deps
             PROVE  LET e == cache'["tasks"][Resolved(cache', d)]
                    IN e # None /\ e.workstream = cache'["tasks"][t].workstream
  BY DEF Known, KnownIn
<1>1. LET e == cache["tasks"][Resolved(cache, d)]
      IN e # None /\ e.workstream = cache'["tasks"][t].workstream
  BY DEF Known, KnownIn
<1>2. d \in Tasks
  OBVIOUS
<1>3. "aliases" \in Collections /\ d \in Docs["aliases"]
  BY <1>2, DocsAre DEF Collections
<1>4. Resolved(cache, d) \in Tasks
  BY <1>2, <1>3 DEF Resolved, ContentFits, Fits, AliasRecords
<1>5. Resolved(cache', d) = Resolved(cache, d)
  BY <1>2 DEF Resolved
<1> QED
  BY <1>1, <1>4, <1>5

-------------------------------------------------------------------------------
(* resolveTaskId: a chain of aliases has one link.                         *)

\* An alias never leads to a task that has one: the task it leads to was
\* submitted, and only planned tasks are aliased.
LEMMA AliasesAreShort ==
  ASSUME NEW home, NEW made, NEW served, NEW content, ContentFits(home, made, served, content),
         NEW t \in Tasks, content["aliases"][t] # None
  PROVE  /\ content["aliases"][t].task \in Tasks
         /\ content["aliases"][content["aliases"][t].task] = None
<1>1. "aliases" \in Collections /\ Docs["aliases"] = Tasks
  BY DocsAre DEF Collections
<1> DEFINE u == content["aliases"][t].task
<1>2. u \in Tasks /\ served[u] = t
  BY <1>1 DEF ContentFits, Fits, AliasRecords
<1>3. served[u] # None
  BY <1>2, TaskIsNat
<1>4. content["aliases"][u] # None => served[u] = None
  BY <1>1, <1>2 DEF ContentFits, Fits
<1> QED
  BY <1>2, <1>3, <1>4

\* So resolveTaskId, which follows the chain to its end, follows one alias.
LEMMA ResolvesTo ==
  ASSUME NEW home, NEW made, NEW served, NEW content, ContentFits(home, made, served, content),
         NEW t \in Tasks
  PROVE  resolveTaskId(content, t) = Resolved(content, t) /\ Resolved(content, t) \in Tasks
<1> DEFINE r == Resolved(content, t)
           Link(u) == IF content["aliases"][u] = None THEN u ELSE content["aliases"][u].task
           g == [n \in 0..MaxTasks |-> IF n = 0 THEN t ELSE r]
<1>1. r \in Tasks /\ Link(t) = r /\ Link(r) = r
  BY AliasesAreShort DEF Resolved
<1>2. MaxTasks \in Nat /\ MaxTasks # 0
  BY FactoryAssumption DEF Tasks
<1>3. g = [n \in 0..MaxTasks |-> IF n = 0 THEN t ELSE Link(g[n - 1])]
  <2> SUFFICES ASSUME NEW n \in 0..MaxTasks PROVE g[n] = IF n = 0 THEN t ELSE Link(g[n - 1])
    OBVIOUS
  <2>1. n # 0 => g[n - 1] = IF n = 1 THEN t ELSE r
    BY <1>2
  <2> HIDE DEF Link, r
  <2>2. n # 0 => Link(g[n - 1]) = r
    BY <1>1, <2>1
  <2> QED
    BY <2>2
<1> DEFINE after[n \in 0..MaxTasks] ==
             IF n = 0 THEN t
             ELSE LET u == after[n - 1]
                  IN IF content["aliases"][u] = None THEN u ELSE content["aliases"][u].task
<1>4. after = [n \in 0..MaxTasks |-> IF n = 0 THEN t ELSE Link(after[n - 1])]
  <2> HIDE DEF g
  <2> QED BY <1>3, Zenon
<1>5. resolveTaskId(content, t) = after[MaxTasks]
  BY DEF resolveTaskId
<1> HIDE DEF after, Link, r, g
<1> DEFINE S == {n \in 0..MaxTasks : n = 0 \/ after[n] = r}
<1>6. 0 \in S
  BY <1>2
<1>7. ASSUME NEW n \in 0..MaxTasks, n # MaxTasks, n \in S PROVE n + 1 \in S
  <2>1. n + 1 \in 0..MaxTasks /\ n + 1 # 0 /\ (n + 1) - 1 = n
    BY <1>7, <1>2
  <2>2. after[n + 1] = Link(after[n])
    BY <2>1, <1>4
  <2>3. after[n] = t \/ after[n] = r
    BY <1>7, <1>4
  <2> QED
    BY <2>1, <2>2, <2>3, <1>1
<1>8. MaxTasks \in S
  <2> HIDE DEF S
  <2>1. 0..MaxTasks \subseteq S
    BY <1>2, <1>6, <1>7, Induction
  <2> QED
    BY <2>1, <1>2
<1> QED
  BY <1>1, <1>2, <1>5, <1>8 DEF r

-------------------------------------------------------------------------------
(* Programs, workstreams and planned tasks.                                *)

\* A document that is not written stays.
LEMMA Untouched ==
  ASSUME NEW writes \in Seq(Writes), Persist(writes), NEW c \in Collections, NEW d \in Docs[c],
         \A n \in 1..Len(writes) : ~(writes[n].in = c /\ writes[n].doc = d)
  PROVE  cache'[c][d] = cache[c][d]
  BY CacheAfter

\* What the document of a task tells.
LEMMA TaskDoc ==
  ASSUME NEW home, NEW made, NEW served, NEW content, ContentFits(home, made, served, content),
         NEW t \in Tasks, content["tasks"][t] # None
  PROVE  /\ content["tasks"][t] \in TaskRecords /\ t <= made
         /\ home[t] = content["tasks"][t].workstream
         /\ content["tasks"][t].status = "created" => served[t] = None
         /\ served[t] = None => content["tasks"][t].status \in {"created", "cancelled"}
<1>1. "tasks" \in Collections /\ t \in Docs["tasks"]
  BY DocsAre DEF Collections
<1> QED
  BY <1>1 DEF ContentFits, Fits

\* What the document of a workstream tells.
LEMMA StreamDoc ==
  ASSUME NEW home, NEW made, NEW served, NEW content, ContentFits(home, made, served, content),
         NEW w \in Workstreams, content["workstreams"][w] # None
  PROVE  /\ content["workstreams"][w] \in WorkstreamRecords
         /\ AllOf(home, made, content["workstreams"][w].tasks, w)
<1>1. "workstreams" \in Collections /\ w \in Docs["workstreams"]
  BY DocsAre DEF Collections
<1> QED
  BY <1>1 DEF ContentFits, Fits

\* What a dependency that is known comes to.
KnownDep(d, w) ==
    d \in Tasks /\ LET e == cache["tasks"][Resolved(cache, d)] IN e # None /\ e.workstream = w

\* A task that is written is new, planned, and depends on known tasks.
NewTask(x) ==
    x.in = "tasks" =>
       /\ x.doc > issued /\ x.value # None /\ x.value.status = "created"
       /\ \A d \in x.value.deps : KnownDep(d, x.value.workstream)

\* The states of planFromObjective.
PlanTypes == Workstreams \cup {"none", "failed", "partial", "whole"}

\* A step that adds documents and submits nothing keeps the invariant.
LEMMA GrowStep ==
  ASSUME NEW home \in Homes, Placed(home), Rest,
         NEW home2 \in Homes, Agree(home, issued, servedBy, home2, issued', servedBy'),
         issued' \in 0..MaxTasks,
         NEW writes \in Seq(Writes), Persist(writes),
         \A n \in 1..Len(writes) : WriteFits(home2, issued', servedBy', writes[n]),
         \A n \in 1..Len(writes) :
            /\ writes[n].in # "aliases"
            /\ StreamWrite(writes[n]) /\ NewTask(writes[n])
            /\ writes[n].in = "programs" /\ writes[n].value # None =>
                 \A i \in 1..Len(writes[n].value) : Owned(cache', writes[n].value[i], writes[n].doc),
         UNCHANGED <<stored, tick, servedBy, withdrawn, restarts, lost>>,
         plan' \in [Programs -> PlanTypes],
         \A p \in Programs : plan'[p] \in Workstreams => cache'["workstreams"][plan'[p]] # None
  PROVE  IInv'
<1>0. Counters /\ Trees /\ Once /\ Lossless /\ Known /\ ContentFits(home, issued, servedBy, cache)
  BY DEF Rest, Placed
<1>1. "tasks" \in Collections /\ "aliases" \in Collections /\ Docs["tasks"] = Tasks /\ Docs["aliases"] = Tasks
  BY DocsAre DEF Collections
<1>2. ASSUME NEW n \in 1..Len(writes), writes[n].in = "tasks"
      PROVE  /\ writes[n].doc \in Tasks /\ writes[n].value \in TaskRecords
             /\ cache["tasks"][writes[n].doc] = None /\ servedBy[writes[n].doc] = None
             /\ ~Completed(writes[n].value)
  <2>1. writes[n].doc \in Tasks /\ writes[n].value \in TaskRecords /\ ~Completed(writes[n].value)
    BY <1>1, <1>2 DEF WriteFits, Fits, NewTask, Completed
  <2>2. writes[n].doc > issued
    BY <1>2 DEF NewTask
  <2>3. cache["tasks"][writes[n].doc] = None /\ servedBy[writes[n].doc] = None
    BY <1>0, <2>1, <2>2, TaskDoc, TaskIsNat DEF Counters
  <2> QED
    BY <2>1, <2>3
<1>3. /\ ContentFits(home2, issued', servedBy', cache')
      /\ ContentFits(home2, issued', servedBy', stored')
      /\ QueueFits(home2, issued', servedBy', queue')
      /\ Lossless'
  <2>1. \A n \in 1..Len(writes) : TaskWrite(writes[n], servedBy')
    BY <1>2 DEF TaskWrite, Completed
  <2>2. \A n, m \in 1..Len(writes) :
            /\ n < m /\ writes[n].in = "tasks" /\ Completed(writes[n].value)
            /\ writes[m].in = "tasks"
            => writes[m].doc # writes[n].doc
    BY <1>2
  <2>3. stored' = stored /\ lost' = lost
    OBVIOUS
  <2> QED
    BY <1>0, <2>1, <2>2, <2>3, PersistKeeps
<1>4. Trees'
  BY <1>0, TreesStay DEF Trees, PlanTypes
<1>5. TicksFit(home2)'
  <2>1. ASSUME NEW n \in 1..Len(writes), NEW k \in Ticks, writes[n].in = "tasks", tick[k] # Idle,
               writes[n].doc = tick[k].submitted
        PROVE  FALSE
    <3>1. Walking(home, issued, servedBy, cache, withdrawn, tick[k])
      BY <2>1 DEF Placed, TicksFit
    <3> QED
      BY <3>1, <2>1, <1>2 DEF Walking
  <2>2. tick' = tick /\ withdrawn \subseteq withdrawn'
    OBVIOUS
  <2> QED
    BY <2>1, <2>2, TicksStay
<1>6. ASSUME NEW t \in Tasks
      PROVE  /\ cache'["aliases"][t] = cache["aliases"][t]
             /\ cache["tasks"][t] # None => cache'["tasks"][t] = cache["tasks"][t]
             /\ cache["tasks"][t] = None /\ cache'["tasks"][t] # None =>
                  \E n \in 1..Len(writes) : /\ writes[n].in = "tasks" /\ writes[n].doc = t
                                            /\ cache'["tasks"][t] = writes[n].value
  <2>1. cache'["aliases"][t] = cache["aliases"][t]
    BY <1>1, Untouched
  <2>2. \/ cache'["tasks"][t] = cache["tasks"][t]
        \/ \E n \in 1..Len(writes) : /\ writes[n].in = "tasks" /\ writes[n].doc = t
                                     /\ cache'["tasks"][t] = writes[n].value
    BY <1>1, CacheAfter
  <2> QED
    BY <2>1, <2>2, <1>2
<1>7. Once'
  <2>1. ASSUME NEW t \in Tasks, Open(t)' PROVE Open(t) \/ t > issued
    <3>1. CASE cache["tasks"][t] # None
      BY <3>1, <2>1, <1>6 DEF Open
    <3>2. CASE cache["tasks"][t] = None
      BY <3>2, <2>1, <1>6 DEF Open, NewTask
    <3> QED
      BY <3>1, <3>2
  <2>2. UNCHANGED <<tick, servedBy, withdrawn, restarts>>
    OBVIOUS
  <2> QED
    BY <1>0, <2>1, <2>2, OnceStays
<1>8. Known'
  <2>1. ASSUME NEW t \in Tasks, cache["tasks"][t] # None
        PROVE  /\ cache'["tasks"][t] # None
               /\ cache'["tasks"][t].workstream = cache["tasks"][t].workstream
    BY <2>1, <1>6
  <2>2. ASSUME NEW t \in Tasks, cache'["tasks"][t] # None
        PROVE  /\ cache'["tasks"][t].deps \subseteq Tasks
               /\ \/ /\ cache["tasks"][t] # None
                     /\ cache'["tasks"][t].deps = cache["tasks"][t].deps
                     /\ cache'["tasks"][t].workstream = cache["tasks"][t].workstream
                  \/ \A d \in cache'["tasks"][t].deps :
                        LET e == cache["tasks"][Resolved(cache, d)]
                        IN e # None /\ e.workstream = cache'["tasks"][t].workstream
    <3>1. cache'["tasks"][t].deps \subseteq Tasks
      BY <2>2, <1>3, TaskDoc DEF TaskRecords
    <3>2. CASE cache["tasks"][t] # None
      BY <3>1, <3>2, <1>6
    <3>3. CASE cache["tasks"][t] = None
      <4>1. PICK n \in 1..Len(writes) : /\ writes[n].in = "tasks" /\ writes[n].doc = t
                                        /\ cache'["tasks"][t] = writes[n].value
        BY <3>3, <2>2, <1>6
      <4>2. \A d \in writes[n].value.deps : KnownDep(d, writes[n].value.workstream)
        BY <4>1 DEF NewTask
      <4> QED
        BY <3>1, <4>1, <4>2 DEF KnownDep
    <3> QED
      BY <3>2, <3>3
  <2>3. \A t \in Tasks : cache'["aliases"][t] = cache["aliases"][t]
    BY <1>6
  <2>4. restarts' = restarts
    OBVIOUS
  <2> QED
    BY <1>0, <2>1, <2>2, <2>3, <2>4, KnownStays
<1>9. Counters'
  <2>1. \A t \in Tasks : servedBy[t] # None => t <= issued' /\ servedBy[t] <= issued'
    BY <1>0, TaskIsNat DEF Counters, Agree
  <2> QED
    BY <1>0, <2>1 DEF Counters
<1>10. Placed(home2)'
  BY <1>3, <1>5 DEF Placed
<1> QED
  BY <1>3, <1>4, <1>7, <1>8, <1>9, <1>10 DEF IInv, Rest

\* Nothing was made.
LEMMA SameHome ==
  ASSUME NEW home, Counters, issued' = issued, servedBy' = servedBy
  PROVE  Agree(home, issued, servedBy, home, issued', servedBy')
  BY DEF Agree, Counters

\* createProgram.
LEMMA CreateProgramKeeps ==
  ASSUME NEW home \in Homes, Placed(home), Rest, NEW p \in Programs, createProgram(p)
  PROVE  IInv'
<1> DEFINE x == Put("programs", p, << >>)
           writes == <<x>>
<1>1. /\ Persist(writes) /\ issued' = issued /\ plan' = plan
      /\ UNCHANGED <<stored, tick, servedBy, withdrawn, restarts, lost>>
  BY DEF createProgram
<1>2. "programs" \in Collections /\ p \in Docs["programs"]
  BY DocsAre DEF Collections
<1>3. /\ WriteFits(home, issued', servedBy', x) /\ x \in Writes
      /\ x.in = "programs" /\ x.doc = p /\ x.value = << >>
  <2>1. Fits(home, issued', servedBy', "programs", p, << >>)
    BY DEF Fits
  <2> QED
    BY <1>2, <2>1, PutFits
<1> HIDE DEF x
<1>4. writes \in Seq(Writes) /\ \A n \in 1..Len(writes) : writes[n] = x
  BY <1>3
<1>5. StreamWrite(x) /\ NewTask(x)
  BY <1>3 DEF StreamWrite, NewTask
<1>6. Agree(home, issued, servedBy, home, issued', servedBy') /\ issued' \in 0..MaxTasks
  BY <1>1, SameHome DEF Rest, Counters
<1> HIDE DEF writes
<1>7. \A n \in 1..Len(writes) : StreamWrite(writes[n])
  BY <1>4, <1>5
<1>8. /\ plan' \in [Programs -> PlanTypes]
      /\ \A o \in Programs : plan'[o] \in Workstreams => cache'["workstreams"][plan'[o]] # None
  BY <1>1, <1>4, <1>7, TreesStay, <1>3 DEF Rest, Trees, PlanTypes, Placed
<1> QED
  BY <1>1, <1>3, <1>4, <1>5, <1>6, <1>8, GrowStep

\* What the two writes of createWorkstream are.
NewStreamWrites(home, made, served, w, p, named, s) ==
    /\ s \in Seq(Writes) /\ Len(s) = 2
    /\ WriteFits(home, made, served, s[1]) /\ WriteFits(home, made, served, s[2])
    /\ s[1].in = "workstreams" /\ s[1].doc = w
    /\ s[1].value # None /\ s[1].value.program = p
    /\ s[2].in = "programs" /\ s[2].doc = p /\ s[2].value = Append(named, w)

\* They fit.
LEMMA NewWorkstreamFits ==
  ASSUME NEW home, NEW made, NEW served, NEW w \in Workstreams, NEW p \in Programs,
         NEW named \in Seq(Workstreams)
  PROVE  NewStreamWrites(home, made, served, w, p, named, NewWorkstream(w, p, named))
<1> DEFINE v == [program |-> p, tasks |-> << >>]
           x == Put("workstreams", w, v)
           u == Append(named, w)
           y == Put("programs", p, u)
<1>1. v \in WorkstreamRecords /\ AllOf(home, made, v.tasks, w) /\ v.program = p
  <2>1. << >> \in Seq(Tasks)
    OBVIOUS
  <2> QED
    BY <2>1 DEF WorkstreamRecords, AllOf
<1>2. /\ "workstreams" \in Collections /\ w \in Docs["workstreams"]
      /\ "programs" \in Collections /\ p \in Docs["programs"]
  BY DocsAre DEF Collections
<1>3. u \in Seq(Workstreams)
  OBVIOUS
<1>4. NewWorkstream(w, p, named) = <<x, y>>
  BY DEF NewWorkstream
<1> HIDE DEF v, u
<1>5. /\ Fits(home, made, served, "workstreams", w, v) /\ v # None
      /\ Fits(home, made, served, "programs", p, u)
  BY <1>1, <1>3, NoneAssumption DEF Fits
<1>6. /\ WriteFits(home, made, served, x) /\ x \in Writes
      /\ x.in = "workstreams" /\ x.doc = w /\ x.value = v
  BY <1>2, <1>5, PutFits
<1>7. /\ WriteFits(home, made, served, y) /\ y \in Writes
      /\ y.in = "programs" /\ y.doc = p /\ y.value = u
  BY <1>2, <1>5, PutFits
<1> HIDE DEF x, y
<1>8. <<x, y>> \in Seq(Writes) /\ Len(<<x, y>>) = 2 /\ <<x, y>>[1] = x /\ <<x, y>>[2] = y
  BY <1>6, <1>7
<1> QED
  BY <1>1, <1>4, <1>5, <1>6, <1>7, <1>8 DEF NewStreamWrites, u

\* createWorkstream.
LEMMA CreateWorkstreamKeeps ==
  ASSUME NEW home \in Homes, Placed(home), Rest, NEW p \in Programs, NEW w \in Workstreams,
         createWorkstream(p, w)
  PROVE  IInv'
<1> DEFINE named == cache["programs"][p]
           writes == NewWorkstream(w, p, named)
<1>1. /\ Persist(writes) /\ issued' = issued /\ plan' = plan
      /\ UNCHANGED <<stored, tick, servedBy, withdrawn, restarts, lost>>
      /\ cache["workstreams"][w] = None /\ named # None
  BY DEF createWorkstream
<1>2. "programs" \in Collections /\ p \in Docs["programs"]
      /\ "workstreams" \in Collections /\ w \in Docs["workstreams"]
  BY DocsAre DEF Collections
<1>3. named \in Seq(Workstreams)
  BY <1>1, <1>2 DEF Placed, ContentFits, Fits
<1>4. NewStreamWrites(home, issued', servedBy', w, p, named, writes)
  BY <1>3, NewWorkstreamFits
<1>6. \A i \in 1..Len(named) : Owned(cache, named[i], p) /\ named[i] \in Workstreams
  BY <1>1, <1>3 DEF Rest, Trees
<1>7. Agree(home, issued, servedBy, home, issued', servedBy') /\ issued' \in 0..MaxTasks
  BY <1>1, SameHome DEF Rest, Counters
<1> HIDE DEF writes, named
<1>5. /\ writes \in Seq(Writes) /\ Len(writes) = 2
      /\ \A n \in 1..2 : WriteFits(home, issued', servedBy', writes[n])
      /\ \A n \in 1..2 : writes[n].in = "workstreams" => n = 1
  BY <1>4 DEF NewStreamWrites
<1>8. \A n \in 1..Len(writes) : StreamWrite(writes[n]) /\ NewTask(writes[n]) /\ writes[n].in # "aliases"
  BY <1>1, <1>4, <1>5 DEF StreamWrite, NewTask, NewStreamWrites
<1>9. Owned(cache', w, p)
  <2>1. cache'["workstreams"][w] = writes[1].value
    BY <1>1, <1>2, <1>4, <1>5, CacheAfter DEF NewStreamWrites
  <2> QED
    BY <2>1, <1>4 DEF Owned, NewStreamWrites
<1>10. \A i \in 1..Len(Append(named, w)) : Owned(cache', Append(named, w)[i], p)
  <2>1. \A i \in 1..Len(named) : Owned(cache', named[i], p)
    BY <1>1, <1>5, <1>6, <1>8, OwnedStays
  <2> QED
    BY <1>3, <1>9, <2>1
<1>11. \A n \in 1..Len(writes) : writes[n].in = "programs" /\ writes[n].value # None =>
          \A i \in 1..Len(writes[n].value) : Owned(cache', writes[n].value[i], writes[n].doc)
  <2>1. writes[1].in = "workstreams" /\ writes[2].doc = p /\ writes[2].value = Append(named, w)
    BY <1>4 DEF NewStreamWrites
  <2>2. \A n \in 1..Len(writes) : writes[n].in = "programs" => n = 2
    BY <1>5, <2>1
  <2> QED
    BY <1>10, <2>1, <2>2
<1>12. /\ plan' \in [Programs -> PlanTypes]
       /\ \A o \in Programs : plan'[o] \in Workstreams => cache'["workstreams"][plan'[o]] # None
  BY <1>1, <1>5, <1>8, <1>11, TreesStay DEF Rest, Trees, PlanTypes, Placed
<1> QED
  BY <1>1, <1>5, <1>7, <1>8, <1>11, <1>12, GrowStep

\* The start of planFromObjective.
LEMMA PlanStartsKeeps ==
  ASSUME NEW home \in Homes, Placed(home), Rest, NEW p \in Programs, NEW w \in Workstreams,
         PlanStarts(p, w)
  PROVE  IInv'
<1> DEFINE x == Put("programs", p, << >>)
           z == NewWorkstream(w, p, << >>)
           writes == <<x>> \o z
<1>1. /\ Persist(writes) /\ issued' = issued /\ plan' = [plan EXCEPT ![p] = w]
      /\ UNCHANGED <<stored, tick, servedBy, withdrawn, restarts, lost>>
      /\ cache["workstreams"][w] = None
  BY DEF PlanStarts
<1>2. "programs" \in Collections /\ p \in Docs["programs"]
      /\ "workstreams" \in Collections /\ w \in Docs["workstreams"]
  BY DocsAre DEF Collections
<1>3. /\ WriteFits(home, issued', servedBy', x) /\ x \in Writes
      /\ x.in = "programs" /\ x.doc = p /\ x.value = << >>
  <2>1. Fits(home, issued', servedBy', "programs", p, << >>)
    BY DEF Fits
  <2> QED
    BY <1>2, <2>1, PutFits
<1>4. NewStreamWrites(home, issued', servedBy', w, p, << >>, z)
  <2>1. << >> \in Seq(Workstreams)
    OBVIOUS
  <2> QED
    BY <2>1, NewWorkstreamFits
<1> HIDE DEF x, z
<1>5. writes \in Seq(Writes) /\ Len(writes) = 3 /\ writes[1] = x /\ writes[2] = z[1] /\ writes[3] = z[2]
  <2> DEFINE y == <<x>>
  <2>1. y \in Seq(Writes) /\ Len(y) = 1 /\ y[1] = x
    BY <1>3
  <2>0. writes = y \o z
    OBVIOUS
  <2> HIDE DEF y, writes
  <2>2. z \in Seq(Writes) /\ Len(z) = 2
    BY <1>4 DEF NewStreamWrites
  <2>3. /\ writes \in Seq(Writes) /\ Len(writes) = Len(y) + Len(z)
        /\ \A n \in 1..Len(y) : writes[n] = y[n]
        /\ \A n \in 1..Len(z) : writes[Len(y) + n] = z[n]
    <3>1. y \in Seq(Writes) /\ z \in Seq(Writes)
      BY <2>1, <2>2
    <3>2. /\ y \o z \in Seq(Writes) /\ Len(y \o z) = Len(y) + Len(z)
          /\ \A n \in 1..Len(y) : n \in 1..Len(y \o z) /\ (y \o z)[n] = y[n]
          /\ \A n \in 1..Len(z) : Len(y) + n \in 1..Len(y \o z) /\ (y \o z)[Len(y) + n] = z[n]
      BY <3>1, Joined
    <3> QED
      BY <2>0, <3>2
  <2>4. writes[1] = x /\ writes[1 + 1] = z[1] /\ writes[1 + 2] = z[2]
    BY <2>1, <2>2, <2>3
  <2> QED
    BY <2>1, <2>2, <2>3, <2>4
<1>7. Agree(home, issued, servedBy, home, issued', servedBy') /\ issued' \in 0..MaxTasks
  BY <1>1, SameHome DEF Rest, Counters
<1> HIDE DEF writes
<1>8. \A n \in 1..Len(writes) : /\ StreamWrite(writes[n]) /\ NewTask(writes[n])
                                /\ writes[n].in # "aliases"
                                /\ WriteFits(home, issued', servedBy', writes[n])
  BY <1>1, <1>3, <1>4, <1>5 DEF StreamWrite, NewTask, NewStreamWrites
<1>9. Owned(cache', w, p)
  <2>1. cache'["workstreams"][w] = writes[2].value
    <3>1. \A n \in 1..Len(writes) : writes[n].in = "workstreams" /\ writes[n].doc = w <=> n = 2
      BY <1>3, <1>4, <1>5 DEF NewStreamWrites
    <3> QED
      BY <1>1, <1>2, <1>5, <3>1, CacheAfter
  <2> QED
    BY <2>1, <1>4, <1>5 DEF Owned, NewStreamWrites
<1>10. \A n \in 1..Len(writes) : writes[n].in = "programs" /\ writes[n].value # None =>
          \A i \in 1..Len(writes[n].value) : Owned(cache', writes[n].value[i], writes[n].doc)
  BY <1>3, <1>4, <1>5, <1>9 DEF NewStreamWrites
<1>11. \A v \in Workstreams : cache["workstreams"][v] # None => cache'["workstreams"][v] # None
  BY <1>1, <1>5, <1>8, <1>10, TreesStay DEF Rest, Placed
<1>12. plan' \in [Programs -> PlanTypes]
  BY <1>1 DEF Rest, Trees, PlanTypes
<1>13. \A o \in Programs : plan'[o] \in Workstreams => cache'["workstreams"][plan'[o]] # None
  BY <1>1, <1>9, <1>11 DEF Rest, Trees, Owned
<1> QED
  BY <1>1, <1>5, <1>7, <1>8, <1>10, <1>12, <1>13, GrowStep

\* What addTask may write.
AddedWrite(home, made, served, x) ==
    /\ x \in Writes /\ WriteFits(home, made, served, x)
    /\ x.in # "aliases" /\ StreamWrite(x) /\ NewTask(x)
    /\ x.in = "programs" => x.value = cache["programs"][x.doc]

\* The record of a task that is planned.
LEMMA PlannedFits ==
  ASSUME NEW home, NEW made, NEW served, NEW w \in Workstreams, NEW t \in Tasks, t > issued, t <= made,
         home[t] = w, served[t] = None, NEW deps \in SUBSET Tasks, \A d \in deps : KnownDep(d, w)
  PROVE  AddedWrite(home, made, served, Put("tasks", t, Planned(w, deps)))
<1> DEFINE v == Planned(w, deps)
           x == Put("tasks", t, v)
<1>1. /\ v \in TaskRecords /\ v.status = "created" /\ v.workstream = w /\ v.deps = deps
  BY DEF Planned, TaskRecords
<1> HIDE DEF v
<1>2. v # None
  BY <1>1, NoneAssumption
<1>3. Fits(home, made, served, "tasks", t, v)
  BY <1>1 DEF Fits
<1>4. "tasks" \in Collections /\ t \in Docs["tasks"]
  BY DocsAre DEF Collections
<1>5. /\ WriteFits(home, made, served, x) /\ x \in Writes
      /\ x.in = "tasks" /\ x.doc = t /\ x.value = v
  BY <1>3, <1>4, PutFits
<1> HIDE DEF x
<1>6. StreamWrite(x) /\ NewTask(x)
  BY <1>1, <1>2, <1>5 DEF StreamWrite, NewTask
<1>7. AddedWrite(home, made, served, x)
  BY <1>5, <1>6 DEF AddedWrite
<1> QED
  BY <1>7 DEF x, v

\* The three writes of addTask.
LEMMA AddedFits ==
  ASSUME NEW home, NEW made, NEW served, ContentFits(home, made, served, cache),
         NEW w \in Workstreams, cache["workstreams"][w] # None,
         NEW list \in Seq(Tasks), AllOf(home, made, list, w),
         NEW t \in Tasks, t > issued, t <= made,
         home[t] = w, served[t] = None, NEW deps \in SUBSET Tasks, \A d \in deps : KnownDep(d, w)
  PROVE  /\ Added(w, list, t, deps) \in Seq(Writes)
         /\ \A n \in 1..Len(Added(w, list, t, deps)) :
               AddedWrite(home, made, served, Added(w, list, t, deps)[n])
<1> DEFINE p == cache["workstreams"][w].program
           x == Put("tasks", t, Planned(w, deps))
           v == [program |-> p, tasks |-> Append(list, t)]
           y == Put("workstreams", w, v)
           u == cache["programs"][p]
           z == Put("programs", p, u)
<1>1. AddedWrite(home, made, served, x)
  BY PlannedFits
<1>2. p \in Programs
  BY StreamDoc DEF WorkstreamRecords
<1>3. /\ "workstreams" \in Collections /\ w \in Docs["workstreams"]
      /\ "programs" \in Collections /\ p \in Docs["programs"]
  BY <1>2, DocsAre DEF Collections
<1>4. v \in WorkstreamRecords /\ AllOf(home, made, v.tasks, w) /\ v.program = p
  <2>1. Append(list, t) \in Seq(Tasks) /\ AllOf(home, made, Append(list, t), w)
    BY DEF AllOf
  <2> QED
    BY <1>2, <2>1 DEF WorkstreamRecords
<1>5. Fits(home, made, served, "programs", p, u)
  BY <1>3 DEF ContentFits
<1>6. Added(w, list, t, deps) = <<x, y, z>>
  BY DEF Added
<1>7. p = cache["workstreams"][w].program
  OBVIOUS
<1> HIDE DEF v, p
<1>8. Fits(home, made, served, "workstreams", w, v) /\ v # None
  BY <1>4, NoneAssumption DEF Fits
<1>9. /\ WriteFits(home, made, served, y) /\ y \in Writes
      /\ y.in = "workstreams" /\ y.doc = w /\ y.value = v
  BY <1>3, <1>8, PutFits
<1>10. /\ WriteFits(home, made, served, z) /\ z \in Writes
       /\ z.in = "programs" /\ z.doc = p /\ z.value = cache["programs"][p]
  BY <1>3, <1>5, PutFits
<1> HIDE DEF x, y, z
<1>11. AddedWrite(home, made, served, y)
  BY <1>4, <1>7, <1>8, <1>9 DEF AddedWrite, StreamWrite, NewTask
<1>12. AddedWrite(home, made, served, z)
  BY <1>10 DEF AddedWrite, StreamWrite, NewTask
<1>13. x \in Writes /\ y \in Writes /\ z \in Writes
  BY <1>1, <1>11, <1>12 DEF AddedWrite
<1> QED
  BY <1>1, <1>6, <1>11, <1>12, <1>13

\* A step that adds tasks keeps the invariant.
LEMMA AddStep ==
  ASSUME NEW home \in Homes, Placed(home), Rest,
         NEW home2 \in Homes, Agree(home, issued, servedBy, home2, issued', servedBy'),
         issued' \in 0..MaxTasks,
         NEW writes \in Seq(Writes), Persist(writes),
         \A n \in 1..Len(writes) : AddedWrite(home2, issued', servedBy', writes[n]),
         UNCHANGED <<stored, tick, servedBy, withdrawn, restarts, lost>>,
         plan' \in [Programs -> PlanTypes],
         \A p \in Programs : plan'[p] \in Workstreams => plan'[p] = plan[p]
  PROVE  IInv'
<1>1. \A n \in 1..Len(writes) : /\ StreamWrite(writes[n]) /\ NewTask(writes[n])
                                /\ writes[n].in # "aliases"
                                /\ WriteFits(home2, issued', servedBy', writes[n])
  BY DEF AddedWrite
<1>2. ASSUME NEW n \in 1..Len(writes), writes[n].in = "programs", writes[n].value # None,
             NEW i \in 1..Len(writes[n].value)
      PROVE  Owned(cache', writes[n].value[i], writes[n].doc)
  <2>1. writes[n].value = cache["programs"][writes[n].doc] /\ writes[n].doc \in Programs
    BY <1>2, DocsAre DEF AddedWrite, WriteFits
  <2>2. writes[n].value \in Seq(Workstreams)
    BY <1>2, <1>1 DEF WriteFits, Fits
  <2>3. Owned(cache, writes[n].value[i], writes[n].doc) /\ writes[n].value[i] \in Workstreams
    BY <1>2, <2>1, <2>2 DEF Rest, Trees
  <2> QED
    BY <1>1, <2>3, OwnedStays
<1>3. \A w \in Workstreams : cache["workstreams"][w] # None => cache'["workstreams"][w] # None
  BY <1>1, <1>2, TreesStay DEF Rest, Placed
<1>4. \A p \in Programs : plan'[p] \in Workstreams => cache'["workstreams"][plan'[p]] # None
  BY <1>3 DEF Rest, Trees
<1> QED
  BY <1>1, <1>2, <1>4, GrowStep

\* addTask, whether or not a listed task is gone.
LEMMA AddTaskKeeps ==
  ASSUME NEW home \in Homes, Placed(home), Rest, NEW w \in Workstreams, NEW deps \in SUBSET Tasks,
         addTask(w, deps)
  PROVE  IInv'
<1> DEFINE t == issued + 1
           home2 == [home EXCEPT ![t] = w]
           writes == IF \A m \in Members(cache, w) : cache["tasks"][m] # None
                     THEN Added(w, Listed(cache, w), t, deps)
                     ELSE <<Put("tasks", t, Planned(w, deps))>>
<1>1. /\ Persist(writes) /\ issued' = t /\ plan' = plan /\ t \in Tasks
      /\ UNCHANGED <<stored, tick, servedBy, withdrawn, restarts, lost>>
      /\ cache["workstreams"][w] # None /\ \A d \in deps : DependencyKnown(w, d)
  BY DEF addTask
<1>2. ContentFits(home, issued, servedBy, cache) /\ Counters
  BY DEF Rest, Placed
<1>3. /\ issued \in Nat /\ t > issued /\ t <= issued' /\ issued' \in 0..MaxTasks /\ home2 \in Homes
      /\ home2[t] = w /\ servedBy'[t] = None
  BY <1>1, <1>2, TaskIsNat DEF Counters, Homes
<1>4. Agree(home, issued, servedBy, home2, issued', servedBy')
  BY <1>1, <1>3, TaskIsNat DEF Agree, Homes
<1>5. \A d \in deps : KnownDep(d, w)
  BY <1>1, <1>2, ResolvesTo DEF DependencyKnown, KnownDep
<1>6. Listed(cache, w) \in Seq(Tasks) /\ AllOf(home2, issued', Listed(cache, w), w)
  BY <1>1, <1>2, <1>4, StreamDoc, AllOfGrows DEF Listed, WorkstreamRecords
<1>7. ContentFits(home2, issued', servedBy', cache)
  BY <1>2, <1>4, ContentGrows
<1> HIDE DEF t, home2
<1>8. /\ Added(w, Listed(cache, w), t, deps) \in Seq(Writes)
      /\ \A n \in 1..Len(Added(w, Listed(cache, w), t, deps)) :
            AddedWrite(home2, issued', servedBy', Added(w, Listed(cache, w), t, deps)[n])
  BY <1>1, <1>3, <1>5, <1>6, <1>7, AddedFits
<1>9. AddedWrite(home2, issued', servedBy', Put("tasks", t, Planned(w, deps)))
  BY <1>1, <1>3, <1>5, PlannedFits
<1>10. /\ <<Put("tasks", t, Planned(w, deps))>> \in Seq(Writes)
       /\ \A n \in 1..Len(<<Put("tasks", t, Planned(w, deps))>>) :
             AddedWrite(home2, issued', servedBy', <<Put("tasks", t, Planned(w, deps))>>[n])
  <2> DEFINE x == Put("tasks", t, Planned(w, deps))
  <2>1. AddedWrite(home2, issued', servedBy', x) /\ x \in Writes
    BY <1>9 DEF AddedWrite
  <2> HIDE DEF x
  <2>2. <<x>> \in Seq(Writes) /\ \A n \in 1..Len(<<x>>) : AddedWrite(home2, issued', servedBy', <<x>>[n])
    BY <2>1
  <2> QED
    BY <2>2 DEF x
<1>11. /\ writes \in Seq(Writes)
       /\ \A n \in 1..Len(writes) : AddedWrite(home2, issued', servedBy', writes[n])
  BY <1>8, <1>10
<1>12. /\ plan' \in [Programs -> PlanTypes]
       /\ \A p \in Programs : plan'[p] \in Workstreams => plan'[p] = plan[p]
  BY <1>1 DEF Rest, Trees, PlanTypes
<1> HIDE DEF writes
<1> QED
  BY <1>1, <1>3, <1>4, <1>11, <1>12, AddStep

\* The recursion of AddedAll, as a step from what came before.
AddedStep(w, made, was, n) ==
    IF n = 0 THEN << >>
    ELSE was[n - 1] \o Added(w, Listed(cache, w) \o SubSeq(made, 1, n - 1), made[n], {})

\* Its recursive function is there.
LEMMA AddedAllUnfolds ==
  ASSUME NEW w, NEW made, Len(made) \in Nat
  PROVE  \E f : /\ f = [n \in 0..Len(made) |-> AddedStep(w, made, f, n)]
                /\ AddedAll(w, made) = f[Len(made)]
<1> DEFINE G(m) == \E f : f = [n \in 0..m |-> AddedStep(w, made, f, n)]
           S == {m \in 0..Len(made) : G(m)}
<1>1. 0 \in S
  <2>1. [n \in 0..0 |-> << >>] = [n \in 0..0 |-> AddedStep(w, made, [i \in 0..0 |-> << >>], n)]
    BY DEF AddedStep
  <2> QED
    BY <2>1
<1>2. ASSUME NEW m \in 0..Len(made), m # Len(made), m \in S PROVE m + 1 \in S
  <2>1. PICK f : f = [n \in 0..m |-> AddedStep(w, made, f, n)]
    BY <1>2
  <2> DEFINE g == [n \in 0..(m + 1) |-> IF n = m + 1 THEN AddedStep(w, made, f, n) ELSE f[n]]
  <2>2. ASSUME NEW n \in 0..(m + 1) PROVE g[n] = AddedStep(w, made, g, n)
    <3>1. n # 0 => g[n - 1] = f[n - 1]
      OBVIOUS
    <3>2. AddedStep(w, made, g, n) = AddedStep(w, made, f, n)
      BY <3>1 DEF AddedStep
    <3>3. n # m + 1 => f[n] = AddedStep(w, made, f, n)
      BY <2>1
    <3> QED
      BY <3>2, <3>3
  <2>3. g = [n \in 0..(m + 1) |-> AddedStep(w, made, g, n)]
    BY <2>2
  <2>4. m + 1 \in 0..Len(made)
    BY <1>2
  <2>5. G(m + 1)
    BY <2>3
  <2> QED
    BY <2>4, <2>5
<1>3. 0..Len(made) \subseteq S
  <2> HIDE DEF S
  <2> QED
    BY <1>1, <1>2, Induction
<1>4. G(Len(made))
  BY <1>3
<1> DEFINE upTo[n \in 0..Len(made)] ==
             IF n = 0 THEN << >>
             ELSE upTo[n - 1] \o Added(w, Listed(cache, w) \o SubSeq(made, 1, n - 1), made[n], {})
<1>5. upTo = [n \in 0..Len(made) |->
             IF n = 0 THEN << >>
             ELSE upTo[n - 1] \o Added(w, Listed(cache, w) \o SubSeq(made, 1, n - 1), made[n], {})]
  BY <1>4, Zenon DEF AddedStep
<1>6. AddedAll(w, made) = upTo[Len(made)]
  BY DEF AddedAll
<1> HIDE DEF upTo
<1> QED
  BY <1>5, <1>6 DEF AddedStep

\* The writes of addTask for one after the other.
LEMMA AddedAllFits ==
  ASSUME NEW home, NEW made, NEW served, NEW w, NEW tasks, Len(tasks) \in Nat,
         \A i \in 1..Len(tasks) :
            LET s == Added(w, Listed(cache, w) \o SubSeq(tasks, 1, i - 1), tasks[i], {})
            IN /\ s \in Seq(Writes)
               /\ \A n \in 1..Len(s) : AddedWrite(home, made, served, s[n])
  PROVE  /\ AddedAll(w, tasks) \in Seq(Writes)
         /\ \A n \in 1..Len(AddedAll(w, tasks)) : AddedWrite(home, made, served, AddedAll(w, tasks)[n])
<1>1. PICK f : /\ f = [n \in 0..Len(tasks) |-> AddedStep(w, tasks, f, n)]
               /\ AddedAll(w, tasks) = f[Len(tasks)]
  BY AddedAllUnfolds
<1> DEFINE Good(s) == s \in Seq(Writes) /\ \A n \in 1..Len(s) : AddedWrite(home, made, served, s[n])
           S == {m \in 0..Len(tasks) : Good(f[m])}
<1>2. 0 \in S
  <2>1. f[0] = << >> /\ 0 \in 0..Len(tasks)
    BY <1>1 DEF AddedStep
  <2>2. Good(<< >>)
    OBVIOUS
  <2> QED
    BY <2>1, <2>2
<1>3. ASSUME NEW m \in 0..Len(tasks), m # Len(tasks), m \in S PROVE m + 1 \in S
  <2>0. m + 1 \in 1..Len(tasks) /\ m + 1 \in 0..Len(tasks) /\ (m + 1) - 1 = m
    BY <1>3
  <2> DEFINE s == Added(w, Listed(cache, w) \o SubSeq(tasks, 1, m), tasks[m + 1], {})
             q == f[m]
  <2>1. f[m + 1] = q \o s
    <3>1. f[m + 1] = AddedStep(w, tasks, f, m + 1)
      BY <1>1, <2>0
    <3>2. m + 1 # 0
      BY <1>3
    <3>3. AddedStep(w, tasks, f, m + 1)
          = f[(m + 1) - 1] \o Added(w, Listed(cache, w) \o SubSeq(tasks, 1, (m + 1) - 1), tasks[m + 1], {})
      BY <3>2, Zenon DEF AddedStep
    <3> QED
      BY <3>1, <3>3, <2>0, Zenon
  <2>2. Good(q) /\ Good(s)
    BY <1>3, <2>0
  <2> HIDE DEF s, q
  <2>3. /\ q \o s \in Seq(Writes) /\ Len(q) \in Nat
        /\ \A n \in 1..Len(q) : (q \o s)[n] = q[n]
        /\ \A n \in 1..Len(q \o s) : n > Len(q) => n - Len(q) \in 1..Len(s) /\ (q \o s)[n] = s[n - Len(q)]
    BY <2>2, Joined
  <2>4. ASSUME NEW n \in 1..Len(q \o s) PROVE AddedWrite(home, made, served, (q \o s)[n])
    <3>1. CASE n \in 1..Len(q)
      BY <3>1, <2>2, <2>3
    <3>2. CASE n > Len(q)
      BY <3>2, <2>2, <2>3
    <3> QED
      BY <3>1, <3>2, <2>3
  <2> QED
    BY <2>0, <2>1, <2>3, <2>4
<1>4. Len(tasks) \in S
  <2> HIDE DEF S
  <2>1. 0..Len(tasks) \subseteq S
    BY <1>2, <1>3, Induction
  <2> QED
    BY <2>1
<1> QED
  BY <1>1, <1>4

\* The answer of the planning task.
LEMMA PlanAnsweredKeeps ==
  ASSUME NEW home \in Homes, Placed(home), Rest, NEW p \in Programs, NEW n \in 0..MaxPlan,
         NEW refused \in BOOLEAN, PlanAnswered(p, n, refused)
  PROVE  IInv'
<1> DEFINE w == plan[p]
           tasks == [i \in 1..n |-> issued + i]
           writes == AddedAll(w, tasks)
           home2 == [t \in Tasks |-> IF t > issued /\ t <= issued + n THEN w ELSE home[t]]
<1>0. n \in Nat
  BY FactoryAssumption
<1>1. /\ Persist(writes) /\ issued' = issued + n /\ issued + n <= MaxTasks /\ w \in Workstreams
      /\ UNCHANGED <<stored, tick, servedBy, withdrawn, restarts, lost>>
      /\ plan' = [plan EXCEPT ![p] = IF refused THEN "partial" ELSE "whole"]
  BY DEF PlanAnswered
<1>2. /\ ContentFits(home, issued, servedBy, cache) /\ Counters /\ cache["workstreams"][w] # None
      /\ MaxTasks \in Nat /\ issued \in Nat
  BY <1>1, FactoryAssumption DEF Rest, Placed, Trees, Counters
<1>3. home2 \in Homes /\ issued' \in 0..MaxTasks
  BY <1>0, <1>1, <1>2 DEF Homes
<1>4. Agree(home, issued, servedBy, home2, issued', servedBy')
  BY <1>0, <1>1, <1>2, TaskIsNat DEF Agree
<1>5. Listed(cache, w) \in Seq(Tasks) /\ AllOf(home2, issued', Listed(cache, w), w)
  BY <1>1, <1>2, <1>4, StreamDoc, AllOfGrows DEF Listed, WorkstreamRecords
<1>6. ContentFits(home2, issued', servedBy', cache)
  BY <1>2, <1>4, ContentGrows
<1>7. /\ tasks \in Seq(Tasks) /\ Len(tasks) = n
      /\ \A i \in 1..n : /\ tasks[i] \in Tasks /\ tasks[i] > issued /\ tasks[i] <= issued'
                         /\ home2[tasks[i]] = w /\ servedBy'[tasks[i]] = None
  <2>1. \A i \in 1..n : issued + i \in Tasks /\ issued + i > issued /\ issued + i <= issued'
    BY <1>0, <1>1, <1>2 DEF Tasks
  <2>2. \A i \in 1..n : home2[issued + i] = w
    BY <2>1, <1>0, <1>1, <1>2
  <2>3. \A i \in 1..n : servedBy'[issued + i] = None
    BY <2>1, <1>0, <1>1, <1>2 DEF Counters
  <2>4. tasks \in Seq(Tasks) /\ Len(tasks) = n
    BY <2>1, <1>0
  <2> QED
    BY <2>1, <2>2, <2>3, <2>4
<1> HIDE DEF tasks, home2, w
<1>8. ASSUME NEW i \in 1..Len(tasks)
      PROVE  LET s == Added(w, Listed(cache, w) \o SubSeq(tasks, 1, i - 1), tasks[i], {})
             IN /\ s \in Seq(Writes)
                /\ \A m \in 1..Len(s) : AddedWrite(home2, issued', servedBy', s[m])
  <2> DEFINE head == SubSeq(tasks, 1, i - 1)
             list == Listed(cache, w) \o head
  <2>1. head \in Seq(Tasks) /\ AllOf(home2, issued', head, w)
    BY <1>0, <1>7 DEF AllOf
  <2> HIDE DEF head
  <2>2. list \in Seq(Tasks) /\ AllOf(home2, issued', list, w)
    BY <1>5, <2>1 DEF AllOf
  <2> HIDE DEF list
  <2>3. /\ tasks[i] \in Tasks /\ tasks[i] > issued /\ tasks[i] <= issued'
        /\ home2[tasks[i]] = w /\ servedBy'[tasks[i]] = None
    BY <1>7
  <2>4. {} \in SUBSET Tasks /\ \A d \in {} : KnownDep(d, w)
    OBVIOUS
  <2>5. /\ Added(w, list, tasks[i], {}) \in Seq(Writes)
        /\ \A m \in 1..Len(Added(w, list, tasks[i], {})) :
              AddedWrite(home2, issued', servedBy', Added(w, list, tasks[i], {})[m])
    BY <1>1, <1>2, <1>6, <2>2, <2>3, <2>4, AddedFits DEF w
  <2> QED
    BY <2>5 DEF list, head
<1>9. /\ writes \in Seq(Writes)
      /\ \A m \in 1..Len(writes) : AddedWrite(home2, issued', servedBy', writes[m])
  BY <1>0, <1>7, <1>8, AddedAllFits
<1>10. /\ plan' \in [Programs -> PlanTypes]
       /\ \A o \in Programs : plan'[o] \in Workstreams => plan'[o] = plan[o]
  BY <1>1, FactoryAssumption DEF Rest, Trees, PlanTypes
<1> HIDE DEF writes
<1> QED
  BY <1>1, <1>3, <1>4, <1>9, <1>10, AddStep

-------------------------------------------------------------------------------
(* Tasks change status.                                                    *)

\* A write that changes the status of a task, and nothing else.
StatusWritten(home, t, to, v, x) ==
    /\ v \in TaskRecords /\ v # None /\ v.status = to
    /\ v.workstream = cache["tasks"][t].workstream /\ v.deps = cache["tasks"][t].deps
    /\ WriteFits(home, issued, servedBy, x) /\ x \in Writes
    /\ x.in = "tasks" /\ x.doc = t /\ x.value = v

\* What the record of a task is after its status changed.
LEMMA StatusWrite ==
  ASSUME NEW home \in Homes, Placed(home), Rest, NEW t \in Tasks, cache["tasks"][t] # None,
         NEW to \in {"completed", "failed", "waiting", "cancelled"},
         servedBy[t] = None => to = "cancelled"
  PROVE  StatusWritten(home, t, to, [cache["tasks"][t] EXCEPT !.status = to],
                       Put("tasks", t, [cache["tasks"][t] EXCEPT !.status = to]))
<1> DEFINE u == cache["tasks"][t]
           v == [u EXCEPT !.status = to]
           x == Put("tasks", t, v)
<1>1. /\ u \in TaskRecords /\ t <= issued /\ home[t] = u.workstream
      /\ servedBy[t] = None => u.status \in {"created", "cancelled"}
  BY TaskDoc DEF Placed
<1>2. v \in TaskRecords /\ v.status = to /\ v.workstream = u.workstream /\ v.deps = u.deps
  BY <1>1 DEF TaskRecords
<1>3. "tasks" \in Collections /\ t \in Docs["tasks"]
  BY DocsAre DEF Collections
<1> HIDE DEF v
<1>4. v # None
  BY <1>2, NoneAssumption
<1>5. Fits(home, issued, servedBy, "tasks", t, v)
  BY <1>1, <1>2 DEF Fits
<1>6. /\ WriteFits(home, issued, servedBy, x) /\ x \in Writes
      /\ x.in = "tasks" /\ x.doc = t /\ x.value = v
  BY <1>3, <1>5, PutFits
<1>7. StatusWritten(home, t, to, v, x)
  BY <1>2, <1>4, <1>6 DEF StatusWritten
<1> QED
  BY <1>7 DEF v

\* A step that changes the status of a task that was submitted, or cancels one,
\* keeps all but the count of submissions.
LEMMA StatusStep ==
  ASSUME NEW home \in Homes, Placed(home), Rest, NEW t \in Tasks, cache["tasks"][t] # None,
         NEW to \in {"completed", "failed", "waiting", "cancelled"},
         servedBy[t] = None => to = "cancelled", cache["tasks"][t].status # "completed",
         Persist(<<Put("tasks", t, [cache["tasks"][t] EXCEPT !.status = to])>>),
         UNCHANGED <<stored, tick, plan, issued, servedBy, restarts, lost>>,
         withdrawn' \subseteq Tasks, withdrawn \subseteq withdrawn', to = "cancelled" => t \in withdrawn'
  PROVE  /\ Placed(home)' /\ Counters' /\ Trees' /\ Lossless' /\ Known'
         /\ \A s \in Tasks : s # t => cache'["tasks"][s] = cache["tasks"][s]
         /\ cache'["tasks"][t] # None /\ cache'["tasks"][t].status = to
<1> DEFINE v == [cache["tasks"][t] EXCEPT !.status = to]
           x == Put("tasks", t, v)
           writes == <<x>>
<1>0. StatusWritten(home, t, to, v, x)
  BY StatusWrite
<1>2. Persist(writes)
  OBVIOUS
<1> HIDE DEF v, x
<1>1. /\ v \in TaskRecords /\ v # None /\ v.status = to
      /\ v.workstream = cache["tasks"][t].workstream /\ v.deps = cache["tasks"][t].deps
      /\ WriteFits(home, issued, servedBy, x) /\ x \in Writes
      /\ x.in = "tasks" /\ x.doc = t /\ x.value = v
  BY <1>0 DEF StatusWritten
<1>3. writes \in Seq(Writes) /\ Len(writes) = 1 /\ \A n \in 1..Len(writes) : n = 1 /\ writes[n] = x
  BY <1>1
<1> HIDE DEF writes
<1>4. /\ ContentFits(home, issued, servedBy, cache) /\ QueueFits(home, issued, servedBy, queue)
      /\ Counters /\ Trees /\ Lossless /\ Known /\ TicksFit(home)
  BY DEF Rest, Placed
<1>5. Agree(home, issued, servedBy, home, issued', servedBy')
  BY <1>4, SameHome
<1>6. "tasks" \in Collections /\ "aliases" \in Collections /\ Docs["tasks"] = Tasks /\ Docs["aliases"] = Tasks
  BY DocsAre DEF Collections
<1>7. lost = 0 => TaskWrite(x, servedBy')
  <2> SUFFICES ASSUME lost = 0, servedBy[t] # None, NEW d \in v.deps
               PROVE  Completed(cache["tasks"][d])
    BY <1>1 DEF TaskWrite, Completed
  <2>1. d \in Tasks
    BY <1>1 DEF TaskRecords
  <2>2. /\ Synced("tasks", cache, stored, queue) /\ Final(stored["tasks"], queue["tasks"])
        /\ InOrder(stored["tasks"], queue["tasks"], servedBy) /\ queue["tasks"] \in Seq(Writes)
    BY <1>4, <1>6 DEF Lossless, QueueFits
  <2> QED
    BY <1>1, <2>1, <2>2, CacheInOrder
<1>8. /\ ContentFits(home, issued', servedBy', cache')
      /\ ContentFits(home, issued', servedBy', stored')
      /\ QueueFits(home, issued', servedBy', queue')
      /\ Lossless'
  <2>1. /\ \A n \in 1..Len(writes) : WriteFits(home, issued', servedBy', writes[n])
        /\ lost = 0 => \A n \in 1..Len(writes) : TaskWrite(writes[n], servedBy')
    BY <1>1, <1>3, <1>7
  <2>2. \A n, m \in 1..Len(writes) : ~(n < m)
    BY <1>3
  <2> QED
    BY <1>2, <1>3, <1>4, <1>5, <2>1, <2>2, PersistKeeps
<1>9. \A n \in 1..Len(writes) : StreamWrite(writes[n]) /\ writes[n].in # "programs"
  BY <1>1, <1>3 DEF StreamWrite
<1>10. Trees'
  BY <1>2, <1>3, <1>4, <1>9, TreesStay DEF Trees
<1>11. TicksFit(home)'
  <2>1. \A n \in 1..Len(writes) : \A k \in Ticks :
            writes[n].in = "tasks" /\ tick[k] # Idle /\ writes[n].doc = tick[k].submitted =>
            /\ writes[n].value # None
            /\ writes[n].value.status = "cancelled" => tick[k].submitted \in withdrawn'
    BY <1>1, <1>3
  <2> QED
    BY <1>2, <1>3, <1>5, <1>9, <2>1, TicksStay
<1>12. \A s \in Tasks : /\ cache'["aliases"][s] = cache["aliases"][s]
                        /\ s # t => cache'["tasks"][s] = cache["tasks"][s]
  BY <1>1, <1>2, <1>3, <1>6, Untouched
<1>13. cache'["tasks"][t] = v
  BY <1>1, <1>2, <1>3, <1>6, CacheAfter
<1>14. Known'
  <2>1. ASSUME NEW s \in Tasks
        PROVE  /\ cache["tasks"][s] # None => /\ cache'["tasks"][s] # None
                                              /\ cache'["tasks"][s].workstream = cache["tasks"][s].workstream
               /\ cache'["tasks"][s] # None =>
                     /\ cache'["tasks"][s].deps \subseteq Tasks /\ cache["tasks"][s] # None
                     /\ cache'["tasks"][s].deps = cache["tasks"][s].deps
                     /\ cache'["tasks"][s].workstream = cache["tasks"][s].workstream
    <3>1. cache["tasks"][s] # None => cache["tasks"][s].deps \subseteq Tasks
      BY <1>4, TaskDoc DEF TaskRecords
    <3>2. CASE s = t
      BY <3>1, <3>2, <1>1, <1>13
    <3>3. CASE s # t
      BY <3>1, <3>3, <1>12
    <3> QED
      BY <3>2, <3>3
  <2> QED
    BY <1>4, <1>12, <2>1, KnownStays
<1>15. Counters'
  BY <1>4 DEF Counters
<1> QED
  BY <1>1, <1>8, <1>10, <1>11, <1>12, <1>13, <1>14, <1>15 DEF Placed

\* The orchestrator brings a task to a status.
LEMMA SettlesKeeps ==
  ASSUME NEW home \in Homes, Placed(home), Rest, NEW t \in Tasks,
         NEW to \in {"completed", "failed", "waiting"}, Settles(t, to)
  PROVE  IInv'
<1>1. /\ cache["tasks"][t] # None /\ cache["tasks"][t].status \in {"running", "waiting"}
      /\ Persist(<<Put("tasks", t, [cache["tasks"][t] EXCEPT !.status = to])>>)
      /\ UNCHANGED <<stored, tick, plan, issued, servedBy, withdrawn, restarts, lost>>
  BY DEF Settles
<1>2. servedBy[t] # None
  BY <1>1, TaskDoc DEF Placed
<1>3. Counters /\ Once
  BY DEF Rest
<1>4. /\ Placed(home)' /\ Counters' /\ Trees' /\ Lossless' /\ Known'
      /\ \A s \in Tasks : s # t => cache'["tasks"][s] = cache["tasks"][s]
      /\ cache'["tasks"][t] # None /\ cache'["tasks"][t].status = to
  <2>1. withdrawn' \subseteq Tasks /\ withdrawn \subseteq withdrawn' /\ to # "cancelled"
    BY <1>1, <1>3 DEF Counters
  <2> QED
    BY <1>1, <1>2, <2>1, StatusStep
<1>5. Once'
  <2>1. \A s \in Tasks : Open(s)' => Open(s)
    BY <1>4 DEF Open
  <2> QED
    BY <1>1, <1>3, <2>1, OnceStays
<1> QED
  BY <1>4, <1>5 DEF IInv, Rest

\* The submissions of a task can be counted.
LEMMA ServingIsFinite ==
  ASSUME NEW t \in Tasks
  PROVE  IsFiniteSet(Serving(t)) /\ Cardinality(Serving(t)) \in Nat
<1>1. IsFiniteSet(Tasks)
  BY FS_Interval, FactoryAssumption DEF Tasks
<1>2. IsFiniteSet(Serving(t))
  BY <1>1, FS_Subset DEF Serving
<1> QED
  BY <1>2, FS_CardinalityType

\* cancel_task: a submission that is cancelled counts no more, and its planned
\* task is free to be submitted again.
LEMMA CancelTaskKeeps ==
  ASSUME NEW home \in Homes, Placed(home), Rest, NEW t \in Tasks, CancelTask(t)
  PROVE  IInv'
<1>1. /\ cache["tasks"][t] # None /\ cache["tasks"][t].status \in {"created", "running", "waiting"}
      /\ Persist(<<Put("tasks", t, [cache["tasks"][t] EXCEPT !.status = "cancelled"])>>)
      /\ UNCHANGED <<stored, tick, plan, issued, servedBy, restarts, lost>>
      /\ withdrawn' = withdrawn \cup {t}
  BY DEF CancelTask
<1>2. Counters /\ Once /\ TicksFit(home)
  BY DEF Rest, Placed
<1>3. /\ Placed(home)' /\ Counters' /\ Trees' /\ Lossless' /\ Known'
      /\ \A s \in Tasks : s # t => cache'["tasks"][s] = cache["tasks"][s]
      /\ cache'["tasks"][t] # None /\ cache'["tasks"][t].status = "cancelled"
  <2>1. withdrawn' \subseteq Tasks /\ withdrawn \subseteq withdrawn' /\ t \in withdrawn'
    BY <1>1, <1>2 DEF Counters
  <2> QED
    BY <1>1, <2>1, StatusStep
<1>4. ASSUME NEW s \in Tasks
      PROVE  /\ Cardinality(Serving(s))' <= 1 + restarts'
             /\ (Open(s) /\ ~UnderWay(s))' => Cardinality(Serving(s))' <= restarts'
  <2>1. Serving(s)' = Serving(s) \ {t}
    BY <1>1 DEF Serving
  <2>2. IsFiniteSet(Serving(s)) /\ Cardinality(Serving(s)) \in Nat
    BY ServingIsFinite
  <2>3. /\ Cardinality(Serving(s) \ {t}) \in Nat
        /\ Cardinality(Serving(s) \ {t})
              = IF t \in Serving(s) THEN Cardinality(Serving(s)) - 1 ELSE Cardinality(Serving(s))
    BY <2>2, FS_RemoveElement, FS_CardinalityType
  <2>4. restarts \in Nat /\ restarts' = restarts
    BY <1>1, <1>2, FactoryAssumption DEF Counters
  <2>5. ASSUME Open(s)', ~UnderWay(s)', UnderWay(s) PROVE t \in Serving(s)
    <3>1. PICK k \in Ticks : tick[k] # Idle /\ tick[k].planned = s /\ tick[k].submitted \notin withdrawn
      BY <2>5 DEF UnderWay
    <3>2. tick[k].submitted = t
      BY <3>1, <2>5, <1>1 DEF UnderWay
    <3>3. servedBy[t] = s
      BY <3>1, <3>2, <1>2 DEF TicksFit, Walking
    <3> QED
      BY <3>1, <3>2, <3>3 DEF Serving
  <2>6. Open(s)' => Open(s)
    BY <1>3 DEF Open
  <2>7. /\ Cardinality(Serving(s)) <= 1 + restarts
        /\ Open(s) /\ ~UnderWay(s) => Cardinality(Serving(s)) <= restarts
    BY <1>2 DEF Once
  <2>8. CASE Open(s)' /\ ~UnderWay(s)'
    <3>1. CASE UnderWay(s)
      BY <2>1, <2>2, <2>3, <2>4, <2>5, <2>7, <2>8, <3>1
    <3>2. CASE ~UnderWay(s)
      BY <2>1, <2>2, <2>3, <2>4, <2>6, <2>7, <2>8, <3>2
    <3> QED
      BY <3>1, <3>2
  <2>9. CASE ~(Open(s)' /\ ~UnderWay(s)')
    BY <2>1, <2>2, <2>3, <2>4, <2>7, <2>9
  <2> QED
    BY <2>8, <2>9
<1>5. Once'
  BY <1>4 DEF Once
<1> QED
  BY <1>3, <1>5 DEF IInv, Rest

-------------------------------------------------------------------------------
(* The queue drains, and the instance is replaced.                         *)

\* A step that leaves ticks and documents alone counts the same.
LEMMA OnceSame ==
  ASSUME Counters, Once, UNCHANGED <<cache, tick, servedBy, withdrawn, restarts>>
  PROVE  Once'
<1>1. \A t \in Tasks : Open(t)' => Open(t) \/ t > issued
  BY DEF Open
<1>2. UNCHANGED <<tick, servedBy, withdrawn, restarts>>
  OBVIOUS
<1> QED
  BY <1>1, <1>2, OnceStays

\* The planning task failed.
LEMMA PlanFailsKeeps ==
  ASSUME NEW home \in Homes, Placed(home), Rest, NEW p \in Programs, PlanFails(p)
  PROVE  IInv'
<1>1. /\ UNCHANGED <<cache, stored, queue, tick, issued, servedBy, withdrawn, restarts, lost>>
      /\ plan' = [plan EXCEPT ![p] = "failed"]
  BY DEF PlanFails
<1>2. Placed(home)'
  BY <1>1 DEF Placed, TicksFit
<1>3. Trees'
  BY <1>1, FactoryAssumption DEF Rest, Trees
<1>4. Counters' /\ Lossless' /\ Known'
  BY <1>1 DEF Rest, Counters, Lossless, Known
<1>5. Once'
  BY <1>1, OnceSame DEF Rest
<1> QED
  BY <1>2, <1>3, <1>4, <1>5 DEF IInv, Rest

\* The submission was cancelled: the tick ends, and what it had submitted counts
\* no more.
LEMMA SubmitRejectedKeeps ==
  ASSUME NEW home \in Homes, Placed(home), Rest, NEW k \in Ticks, SubmitRejected(k)
  PROVE  IInv'
<1>1. /\ UNCHANGED <<cache, stored, queue, plan, issued, servedBy, withdrawn, restarts, lost>>
      /\ tick' = [tick EXCEPT ![k] = Idle] /\ tick[k] # Idle
      /\ cache["tasks"][tick[k].submitted].status = "cancelled"
  BY DEF SubmitRejected
<1>2. TicksFit(home) /\ Once
  BY DEF Placed, Rest
<1>3. tick' = [j \in Ticks |-> IF j = k THEN Idle ELSE tick[j]]
  BY <1>1, <1>2 DEF TicksFit
<1>4. TicksFit(home)'
  BY <1>1, <1>2, <1>3 DEF TicksFit
<1>5. Placed(home)'
  BY <1>1, <1>4 DEF Placed
<1>6. Counters' /\ Lossless' /\ Known' /\ Trees'
  BY <1>1 DEF Rest, Counters, Lossless, Known, Trees
<1>7. tick[k].submitted \in withdrawn
  BY <1>1, <1>2 DEF TicksFit, Walking
<1>8. ASSUME NEW t \in Tasks
      PROVE  /\ Serving(t)' = Serving(t) /\ (Open(t)' <=> Open(t))
             /\ UnderWay(t)' <=> UnderWay(t)
  <2>1. Serving(t)' = Serving(t) /\ (Open(t)' <=> Open(t))
    BY <1>1 DEF Serving, Open
  <2>2. UnderWay(t)' <=> UnderWay(t)
    BY <1>1, <1>3, <1>7 DEF UnderWay
  <2> QED
    BY <2>1, <2>2
<1>9. Once'
  BY <1>1, <1>2, <1>8 DEF Once
<1> QED
  BY <1>5, <1>6, <1>9 DEF IInv, Rest

\* What is left of a queue.
LEMMA TailOf ==
  ASSUME NEW X, NEW q \in Seq(X), q # << >>
  PROVE  /\ Tail(q) \in Seq(X) /\ Len(q) \in Nat /\ Len(Tail(q)) = Len(q) - 1 /\ Len(q) >= 1
         /\ Head(q) = q[1] /\ Head(q) \in X
         /\ \A n \in 1..Len(Tail(q)) : n + 1 \in 1..Len(q) /\ Tail(q)[n] = q[n + 1]
         /\ \A n \in 1..Len(q) : n # 1 => n - 1 \in 1..Len(Tail(q)) /\ Tail(q)[n - 1] = q[n]
  OBVIOUS

\* A queue stays fitting when its first write goes.
LEMMA QueueDrains ==
  ASSUME NEW home, NEW made, NEW served, QueueFits(home, made, served, queue), NEW c \in Collections,
         queue[c] # << >>, queue' = [queue EXCEPT ![c] = Tail(@)]
  PROVE  QueueFits(home, made, served, queue')
<1>1. queue[c] \in Seq(Writes) /\ queue \in [Collections -> Seq(Writes)]
  BY DEF QueueFits
<1>2. /\ Tail(queue[c]) \in Seq(Writes)
      /\ \A n \in 1..Len(Tail(queue[c])) : n + 1 \in 1..Len(queue[c]) /\ Tail(queue[c])[n] = queue[c][n + 1]
  BY <1>1, TailOf
<1>3. queue' \in [Collections -> Seq(Writes)] /\ queue'[c] = Tail(queue[c])
      /\ \A b \in Collections : b # c => queue'[b] = queue[b]
  BY <1>1, <1>2
<1>4. ASSUME NEW b \in Collections, NEW n \in 1..Len(queue'[b])
      PROVE  queue'[b][n].in = b /\ WriteFits(home, made, served, queue'[b][n])
  BY <1>2, <1>3, <1>4 DEF QueueFits
<1> QED
  BY <1>3, <1>4 DEF QueueFits

\* When the first write lands, what the queue will come to stays the same.
LEMMA LandsSyncs ==
  ASSUME NEW c \in Collections, queue \in [Collections -> Seq(Writes)], queue[c] # << >>,
         queue' = [queue EXCEPT ![c] = Tail(@)],
         \A b \in Collections : \A d \in Docs[b] :
            stored'[b][d] = IF b = c /\ d = Head(queue[c]).doc THEN Head(queue[c]).value ELSE stored[b][d],
         NEW b \in Collections, Synced(b, cache, stored, queue)
  PROVE  Synced(b, cache, stored', queue')
<1>1. CASE b # c
  BY <1>1 DEF Synced
<1>2. CASE b = c
  <2> DEFINE q == queue[c]
             r == Tail(queue[c])
  <2>1. queue'[c] = r /\ q \in Seq(Writes) /\ q # << >>
    OBVIOUS
  <2>2. /\ r \in Seq(Writes) /\ Len(q) \in Nat /\ Len(r) = Len(q) - 1 /\ Len(q) >= 1 /\ Head(q) = q[1]
        /\ \A n \in 1..Len(r) : n + 1 \in 1..Len(q) /\ r[n] = q[n + 1]
        /\ \A n \in 1..Len(q) : n # 1 => n - 1 \in 1..Len(r) /\ r[n - 1] = q[n]
    BY <2>1, TailOf
  <2> SUFFICES ASSUME NEW d \in Docs[c]
               PROVE  \/ (\A n \in 1..Len(r) : r[n].doc # d) /\ cache[c][d] = stored'[c][d]
                      \/ \E n \in 1..Len(r) : LastOf(r, d, n) /\ cache[c][d] = r[n].value
    BY <1>2, <2>1 DEF Synced
  <2>3. stored'[c][d] = IF d = q[1].doc THEN q[1].value ELSE stored[c][d]
    BY <2>2
  <2>4. \/ (\A n \in 1..Len(q) : q[n].doc # d) /\ cache[c][d] = stored[c][d]
        \/ \E n \in 1..Len(q) : LastOf(q, d, n) /\ cache[c][d] = q[n].value
    BY <1>2 DEF Synced
  <2> HIDE DEF q, r
  <2>5. CASE (\A n \in 1..Len(q) : q[n].doc # d) /\ cache[c][d] = stored[c][d]
    BY <2>2, <2>3, <2>5
  <2>6. ASSUME NEW n \in 1..Len(q), LastOf(q, d, n), cache[c][d] = q[n].value
        PROVE  \/ (\A m \in 1..Len(r) : r[m].doc # d) /\ cache[c][d] = stored'[c][d]
               \/ \E m \in 1..Len(r) : LastOf(r, d, m) /\ cache[c][d] = r[m].value
    <3>1. CASE n = 1
      <4>1. \A m \in 1..Len(r) : r[m].doc # d
        BY <2>2, <2>6, <3>1 DEF LastOf
      <4>2. stored'[c][d] = q[1].value
        BY <2>3, <2>6, <3>1 DEF LastOf
      <4> QED
        BY <2>6, <3>1, <4>1, <4>2
    <3>2. CASE n # 1
      <4>1. n - 1 \in 1..Len(r) /\ r[n - 1] = q[n]
        BY <2>2, <3>2
      <4>2. \A m \in 1..Len(r) : r[m].doc = d => m <= n - 1
        BY <2>2, <2>6 DEF LastOf
      <4>3. LastOf(r, d, n - 1)
        BY <4>1, <4>2, <2>6 DEF LastOf
      <4> QED
        BY <4>1, <4>3, <2>6
    <3> QED
      BY <3>1, <3>2
  <2> QED
    BY <2>4, <2>5, <2>6
<1> QED
  BY <1>1, <1>2

\* A write that lands keeps the order: what it depends on landed before it.
LEMMA LandsInOrder ==
  ASSUME NEW q \in Seq(Writes), q # << >>, NEW base, NEW base2, NEW served,
         \A n \in 1..Len(q) : q[n].doc \in Tasks /\ (q[n].value # None => q[n].value.deps \subseteq Tasks),
         \A t \in Tasks : base[t] # None => base[t].deps \subseteq Tasks,
         \A t \in Tasks : base2[t] = IF t = Head(q).doc THEN Head(q).value ELSE base[t],
         Final(base, q), InOrder(base, q, served)
  PROVE  Final(base2, Tail(q)) /\ InOrder(base2, Tail(q), served)
<1> DEFINE r == Tail(q)
<1>1. /\ r \in Seq(Writes) /\ Len(q) \in Nat /\ Len(r) = Len(q) - 1 /\ Len(q) >= 1 /\ Head(q) = q[1]
      /\ \A n \in 1..Len(r) : n + 1 \in 1..Len(q) /\ r[n] = q[n + 1]
      /\ \A n \in 1..Len(q) : n # 1 => n - 1 \in 1..Len(r) /\ r[n - 1] = q[n]
  BY TailOf
<1>2. \A t \in Tasks : base2[t] = IF t = q[1].doc THEN q[1].value ELSE base[t]
  BY <1>1
<1> HIDE DEF r
<1>3. \A t \in Tasks : Completed(base[t]) => base2[t] = base[t]
  BY <1>1, <1>2 DEF Final
<1>4. Final(base2, r)
  <2> SUFFICES ASSUME NEW n \in 1..Len(r)
               PROVE  /\ ~Completed(base2[r[n].doc])
                      /\ Completed(r[n].value) => \A m \in 1..Len(r) : n < m => r[m].doc # r[n].doc
    BY DEF Final
  <2>1. n + 1 \in 1..Len(q) /\ r[n] = q[n + 1] /\ r[n].doc \in Tasks /\ 1 \in 1..Len(q) /\ 1 < n + 1
    BY <1>1
  <2>2. ~Completed(base2[r[n].doc])
    <3>1. CASE r[n].doc = q[1].doc
      BY <3>1, <2>1, <1>2 DEF Final
    <3>2. CASE r[n].doc # q[1].doc
      BY <3>2, <2>1, <1>2 DEF Final
    <3> QED
      BY <3>1, <3>2
  <2>3. ASSUME Completed(r[n].value), NEW m \in 1..Len(r), n < m PROVE r[m].doc # r[n].doc
    <3>1. m + 1 \in 1..Len(q) /\ r[m] = q[m + 1] /\ n + 1 < m + 1
      BY <2>3, <1>1
    <3> QED
      BY <2>1, <2>3, <3>1 DEF Final
  <2> QED
    BY <2>2, <2>3
<1>5. ASSUME NEW t \in Tasks, base2[t] # None, served[t] # None, NEW d \in base2[t].deps
      PROVE  Completed(base2[d])
  <2>1. CASE t = q[1].doc
    <3>1. 1 \in 1..Len(q) /\ base2[t] = q[1].value /\ d \in Tasks
      BY <1>1, <1>2, <1>5, <2>1
    <3>2. \A m \in 1..Len(q) : ~(m < 1)
      BY <1>1
    <3>3. Completed(base[d])
      BY <3>1, <3>2, <1>5, <2>1 DEF InOrder
    <3> QED
      BY <3>1, <3>3, <1>3
  <2>2. CASE t # q[1].doc
    <3>1. base2[t] = base[t]
      BY <1>2, <2>2
    <3>2. Completed(base[d]) /\ d \in Tasks
      BY <3>1, <1>5 DEF InOrder
    <3> QED
      BY <3>2, <1>3
  <2> QED
    BY <2>1, <2>2
<1>6. ASSUME NEW n \in 1..Len(r), r[n].value # None, served[r[n].doc] # None, NEW d \in r[n].value.deps
      PROVE  \/ Completed(base2[d])
             \/ \E m \in 1..Len(r) : m < n /\ r[m].doc = d /\ Completed(r[m].value)
  <2>1. n + 1 \in 1..Len(q) /\ r[n] = q[n + 1] /\ d \in Tasks
    BY <1>1, <1>6
  <2>2. \/ Completed(base[d])
        \/ \E m \in 1..Len(q) : m < n + 1 /\ q[m].doc = d /\ Completed(q[m].value)
    BY <2>1, <1>6 DEF InOrder
  <2>3. CASE Completed(base[d])
    BY <2>1, <2>3, <1>3
  <2>4. ASSUME NEW m \in 1..Len(q), m < n + 1, q[m].doc = d, Completed(q[m].value)
        PROVE  \/ Completed(base2[d])
               \/ \E l \in 1..Len(r) : l < n /\ r[l].doc = d /\ Completed(r[l].value)
    <3>1. CASE m = 1
      BY <3>1, <2>1, <2>4, <1>2
    <3>2. CASE m # 1
      <4>1. m - 1 \in 1..Len(r) /\ r[m - 1] = q[m] /\ m - 1 < n
        BY <3>2, <2>4, <1>1
      <4> QED
        BY <4>1, <2>4
    <3> QED
      BY <3>1, <3>2
  <2> QED
    BY <2>2, <2>3, <2>4
<1>7. InOrder(base2, r, served)
  BY <1>5, <1>6 DEF InOrder
<1> QED
  BY <1>4, <1>7 DEF r

\* A write lands.
LEMMA WriteLandsKeeps ==
  ASSUME NEW home \in Homes, Placed(home), Rest, NEW c \in Collections, WriteLands(c)
  PROVE  IInv'
<1> DEFINE x == Head(queue[c])
<1>1. /\ queue[c] # << >> /\ queue' = [queue EXCEPT ![c] = Tail(@)]
      /\ stored' = [stored EXCEPT ![c][x.doc] = x.value]
      /\ UNCHANGED <<cache, tick, plan, issued, servedBy, withdrawn, restarts, lost>>
  BY DEF WriteLands
<1>2. /\ ContentFits(home, issued, servedBy, stored) /\ QueueFits(home, issued, servedBy, queue)
      /\ ContentFits(home, issued, servedBy, cache) /\ TicksFit(home) /\ Lossless
  BY DEF Placed, Rest
<1>3. queue \in [Collections -> Seq(Writes)] /\ queue[c] \in Seq(Writes)
  BY <1>2 DEF QueueFits
<1>4. /\ x = queue[c][1] /\ 1 \in 1..Len(queue[c])
  BY <1>1, <1>3, TailOf
<1>5. x.in = c /\ WriteFits(home, issued, servedBy, x)
  BY <1>2, <1>4 DEF QueueFits
<1>6. x.doc \in Docs[c] /\ Fits(home, issued, servedBy, c, x.doc, x.value)
  BY <1>5 DEF WriteFits
<1> HIDE DEF x
<1>7. /\ stored' = [b \in Collections |-> [d \in Docs[b] |->
                       IF b = c /\ d = x.doc THEN x.value ELSE stored[b][d]]]
  BY <1>1, <1>2, <1>6 DEF ContentFits
<1>8. /\ stored' = [b \in Collections |-> [d \in Docs[b] |-> stored'[b][d]]]
      /\ \A b \in Collections : \A d \in Docs[b] :
            stored'[b][d] = IF b = c /\ d = x.doc THEN x.value ELSE stored[b][d]
  BY <1>7
<1>9. ContentFits(home, issued, servedBy, stored')
  BY <1>2, <1>6, <1>8 DEF ContentFits
<1>10. QueueFits(home, issued, servedBy, queue')
  BY <1>1, <1>2, QueueDrains
<1>11. Placed(home)'
  BY <1>1, <1>2, <1>9, <1>10 DEF Placed, TicksFit
<1>12. ASSUME lost = 0
       PROVE  /\ \A b \in Collections : Synced(b, cache, stored', queue')
              /\ Final(stored'["tasks"], queue'["tasks"])
              /\ InOrder(stored'["tasks"], queue'["tasks"], servedBy)
  <2>1. /\ \A b \in Collections : Synced(b, cache, stored, queue)
        /\ Final(stored["tasks"], queue["tasks"])
        /\ InOrder(stored["tasks"], queue["tasks"], servedBy)
    BY <1>2, <1>12 DEF Lossless
  <2>2. \A b \in Collections : Synced(b, cache, stored', queue')
    BY <2>1, <1>1, <1>3, <1>8, LandsSyncs DEF x
  <2>3. CASE c = "tasks"
    <3>1. Docs["tasks"] = Tasks /\ "tasks" \in Collections
      BY DocsAre DEF Collections
    <3>2. ASSUME NEW n \in 1..Len(queue["tasks"])
          PROVE  /\ queue["tasks"][n].doc \in Tasks
                 /\ queue["tasks"][n].value # None => queue["tasks"][n].value.deps \subseteq Tasks
      <4>1. queue["tasks"][n].in = "tasks" /\ WriteFits(home, issued, servedBy, queue["tasks"][n])
        BY <1>2, <3>1 DEF QueueFits
      <4> QED
        BY <4>1, <3>1 DEF WriteFits, Fits, TaskRecords
    <3>3. \A t \in Tasks : stored["tasks"][t] # None => stored["tasks"][t].deps \subseteq Tasks
      BY <1>2, TaskDoc DEF TaskRecords
    <3>4. \A t \in Tasks : stored'["tasks"][t] =
             IF t = Head(queue["tasks"]).doc THEN Head(queue["tasks"]).value ELSE stored["tasks"][t]
      BY <1>8, <2>3, <3>1 DEF x
    <3>5. queue["tasks"] \in Seq(Writes) /\ queue["tasks"] # << >> /\ queue'["tasks"] = Tail(queue["tasks"])
      BY <1>1, <1>3, <2>3, <3>1
    <3>6. Final(stored'["tasks"], Tail(queue["tasks"])) /\ InOrder(stored'["tasks"], Tail(queue["tasks"]), servedBy)
      BY <2>1, <3>2, <3>3, <3>4, <3>5, LandsInOrder
    <3> QED
      BY <2>2, <3>5, <3>6
  <2>4. CASE c # "tasks"
    <3>1. "tasks" \in Collections
      BY DEF Collections
    <3>2. queue'["tasks"] = queue["tasks"] /\ stored'["tasks"] = stored["tasks"]
      BY <1>1, <1>2, <1>3, <2>4, <3>1 DEF ContentFits
    <3> QED
      BY <2>1, <2>2, <3>2
  <2> QED
    BY <2>3, <2>4
<1>13. Lossless'
  BY <1>1, <1>12 DEF Lossless
<1>14. Counters' /\ Known' /\ Trees'
  BY <1>1 DEF Rest, Counters, Known, Trees
<1>15. Once'
  BY <1>1, OnceSame DEF Rest
<1> QED
  BY <1>11, <1>13, <1>14, <1>15 DEF IInv, Rest

\* A write fails, and is lost.
LEMMA WriteFailsKeeps ==
  ASSUME NEW home \in Homes, Placed(home), Rest, NEW c \in Collections, WriteFails(c)
  PROVE  IInv'
<1>1. /\ queue[c] # << >> /\ queue' = [queue EXCEPT ![c] = Tail(@)] /\ lost < MaxLost /\ lost' = lost + 1
      /\ UNCHANGED <<cache, stored, tick, plan, issued, servedBy, withdrawn, restarts>>
  BY DEF WriteFails
<1>2. QueueFits(home, issued, servedBy, queue')
  BY <1>1, QueueDrains DEF Placed
<1>3. Placed(home)'
  BY <1>1, <1>2 DEF Placed, TicksFit
<1>4. lost' \in 0..MaxLost /\ lost' # 0
  BY <1>1, FactoryAssumption DEF Rest, Counters
<1>5. Lossless' /\ Counters' /\ Known' /\ Trees'
  BY <1>1, <1>4 DEF Rest, Counters, Known, Trees, Lossless
<1>6. Once'
  BY <1>1, OnceSame DEF Rest
<1> QED
  BY <1>3, <1>5, <1>6 DEF IInv, Rest

\* The instance is replaced: the ticks and the queues are gone, and the store,
\* which validateState accepted, is the new cache.  Each planned task may then be
\* submitted once more.
LEMMA RestartKeeps ==
  ASSUME NEW home \in Homes, Placed(home), Rest, Restart
  PROVE  IInv'
<1>1. /\ restarts < MaxRestarts /\ validateState(stored) /\ restarts' = restarts + 1
      /\ cache' = stored /\ queue' = [c \in Collections |-> << >>] /\ tick' = [k \in Ticks |-> Idle]
      /\ plan' = [p \in Programs |-> IF plan[p] \in Workstreams THEN "failed" ELSE plan[p]]
      /\ UNCHANGED <<stored, issued, servedBy, withdrawn, lost>>
  BY DEF Restart
<1>2. /\ ContentFits(home, issued, servedBy, stored) /\ Counters /\ Trees /\ Once /\ Lossless
  BY DEF Placed, Rest
<1>3. QueueFits(home, issued', servedBy', queue')
  BY <1>1 DEF QueueFits
<1>4. TicksFit(home)'
  BY <1>1 DEF TicksFit
<1>5. Placed(home)'
  BY <1>1, <1>2, <1>3, <1>4 DEF Placed
<1>6. restarts' \in 0..MaxRestarts /\ restarts' # 0
  BY <1>1, <1>2, FactoryAssumption DEF Counters
<1>7. Counters' /\ Known'
  BY <1>1, <1>2, <1>6 DEF Counters, Known
<1>8. Trees'
  BY <1>1, <1>2, FactoryAssumption DEF Trees, validateState, Owned
<1>9. ASSUME NEW t \in Tasks PROVE Cardinality(Serving(t))' <= restarts'
  <2>1. Serving(t)' = Serving(t)
    BY <1>1 DEF Serving
  <2> QED
    BY <2>1, <1>1, <1>2, ServingIsFinite, FactoryAssumption DEF Once, Counters
<1>10. Once'
  <2>1. \A t \in Tasks : Cardinality(Serving(t))' <= 1 + restarts'
    <3> SUFFICES ASSUME NEW t \in Tasks PROVE Cardinality(Serving(t))' <= 1 + restarts'
      OBVIOUS
    <3>1. Serving(t)' = Serving(t)
      BY <1>1 DEF Serving
    <3> QED
      BY <3>1, <1>9, <1>6, ServingIsFinite, FactoryAssumption
  <2> QED
    BY <2>1, <1>9 DEF Once
<1>11. Lossless'
  <2> SUFFICES ASSUME lost = 0
               PROVE  /\ \A c \in Collections : Synced(c, cache', stored', queue')
                      /\ Final(stored'["tasks"], queue'["tasks"])
                      /\ InOrder(stored'["tasks"], queue'["tasks"], servedBy')
    BY <1>1 DEF Lossless
  <2>1. \A c \in Collections : queue'[c] = << >> /\ Len(queue'[c]) = 0
    BY <1>1
  <2>2. \A c \in Collections : Synced(c, cache', stored', queue')
    BY <1>1, <2>1 DEF Synced
  <2>3. Len(queue'["tasks"]) = 0
    BY <2>1 DEF Collections
  <2>4. Final(stored'["tasks"], queue'["tasks"])
    BY <2>3 DEF Final
  <2>5. InOrder(stored'["tasks"], queue'["tasks"], servedBy')
    BY <1>1, <1>2, <2>3 DEF InOrder, Lossless
  <2> QED
    BY <2>2, <2>4, <2>5
<1> QED
  BY <1>5, <1>7, <1>8, <1>10, <1>11 DEF IInv, Rest

-------------------------------------------------------------------------------
(* Ticks.                                                                  *)

\* The cache with fitting writes applied fits.
LEMMA WrittenFits ==
  ASSUME NEW home, NEW made, NEW served, NEW content, ContentFits(home, made, served, content),
         NEW writes \in Seq(Writes), \A n \in 1..Len(writes) : WriteFits(home, made, served, writes[n])
  PROVE  ContentFits(home, made, served, Written(content, writes))
<1> DEFINE after == Written(content, writes)
<1>1. after = [c \in Collections |-> [d \in Docs[c] |-> after[c][d]]]
  BY DEF Written
<1>2. ASSUME NEW c \in Collections, NEW d \in Docs[c]
      PROVE  Fits(home, made, served, c, d, after[c][d])
  <2>1. CASE after[c][d] = content[c][d]
    BY <2>1 DEF ContentFits
  <2>2. ASSUME NEW n \in 1..Len(writes), writes[n].in = c, writes[n].doc = d,
               after[c][d] = writes[n].value
        PROVE  Fits(home, made, served, c, d, after[c][d])
    BY <2>2 DEF WriteFits
  <2> HIDE DEF after
  <2>3. \/ after[c][d] = content[c][d]
        \/ \E n \in 1..Len(writes) : /\ writes[n].in = c /\ writes[n].doc = d
                                     /\ after[c][d] = writes[n].value
    BY WrittenIs DEF after
  <2> QED
    BY <2>1, <2>2, <2>3
<1> QED
  BY <1>1, <1>2 DEF ContentFits

\* One more write.
LEMMA WrittenAppend ==
  ASSUME NEW content, NEW writes \in Seq(Writes), NEW x \in Writes,
         NEW c \in Collections, NEW d \in Docs[c]
  PROVE  Written(content, Append(writes, x))[c][d] =
            IF x.in = c /\ x.doc = d THEN x.value ELSE Written(content, writes)[c][d]
<1> DEFINE more == Append(writes, x)
           L == Len(writes)
<1>1. /\ more \in Seq(Writes) /\ L \in Nat /\ Len(more) = L + 1 /\ more[L + 1] = x
      /\ \A n \in 1..L : n \in 1..Len(more) /\ more[n] = writes[n]
      /\ \A n \in 1..Len(more) : n = L + 1 \/ n \in 1..L
  OBVIOUS
<1> DEFINE a == Written(content, more)[c][d]
           b == Written(content, writes)[c][d]
<1>2. \/ /\ \A n \in 1..Len(more) : ~(more[n].in = c /\ more[n].doc = d)
         /\ a = content[c][d]
      \/ \E n \in 1..Len(more) :
            /\ more[n].in = c /\ more[n].doc = d /\ a = more[n].value
            /\ \A m \in 1..Len(more) : more[m].in = c /\ more[m].doc = d => m <= n
  <2> HIDE DEF more
  <2> QED
    BY <1>1, WrittenIs
<1>3. \/ /\ \A n \in 1..L : ~(writes[n].in = c /\ writes[n].doc = d)
         /\ b = content[c][d]
      \/ \E n \in 1..L :
            /\ writes[n].in = c /\ writes[n].doc = d /\ b = writes[n].value
            /\ \A m \in 1..L : writes[m].in = c /\ writes[m].doc = d => m <= n
  BY WrittenIs
<1> HIDE DEF more, a, b, L
<1>4. CASE x.in = c /\ x.doc = d
  <2>1. L + 1 \in 1..Len(more)
    BY <1>1
  <2>2. a = x.value
    BY <1>1, <1>2, <1>4, <2>1
  <2> QED
    BY <2>2, <1>4 DEF a, more
<1>5. CASE ~(x.in = c /\ x.doc = d)
  <2>1. \A n \in 1..Len(more) : more[n].in = c /\ more[n].doc = d => n \in 1..L /\ more[n] = writes[n]
    BY <1>1, <1>5
  <2>2. ASSUME \A n \in 1..L : ~(writes[n].in = c /\ writes[n].doc = d) PROVE a = b
    BY <1>2, <1>3, <2>1, <2>2
  <2>3. ASSUME NEW m \in 1..L, writes[m].in = c, writes[m].doc = d PROVE a = b
    <3>1. PICK n \in 1..Len(more) :
             /\ more[n].in = c /\ more[n].doc = d /\ a = more[n].value
             /\ \A l \in 1..Len(more) : more[l].in = c /\ more[l].doc = d => l <= n
      BY <1>1, <1>2, <2>3
    <3>2. PICK o \in 1..L :
             /\ writes[o].in = c /\ writes[o].doc = d /\ b = writes[o].value
             /\ \A l \in 1..L : writes[l].in = c /\ writes[l].doc = d => l <= o
      BY <1>3, <2>3
    <3>3. n \in 1..L /\ more[n] = writes[n] /\ n <= o
      BY <2>1, <3>1, <3>2
    <3>4. o <= n
      BY <1>1, <3>1, <3>2
    <3> QED
      BY <3>1, <3>2, <3>3, <3>4, <1>1
  <2>4. a = b
    BY <2>2, <2>3
  <2> QED
    BY <2>4, <1>5 DEF a, b, more
<1> QED
  BY <1>4, <1>5

\* What a stretch asks of the walk it goes on with.
WalkFits(home, made, content, walk) ==
    /\ walk.program \in Programs /\ walk.todo \in Seq(Workstreams)
    /\ walk.local \in Seq(Tasks) /\ walk.left \in Seq(Tasks)
    /\ \A n \in 1..Len(walk.todo) : Owned(content, walk.todo[n], walk.program)
    /\ walk.left # << >> =>
          /\ walk.workstream \in Workstreams /\ Owned(content, walk.workstream, walk.program)
          /\ AllOf(home, made, walk.local, walk.workstream)
          /\ AllOf(home, made, walk.left, walk.workstream)

\* Of the tasks that are ready there is a first.
LEMMA FirstIsReady ==
  ASSUME NEW N \in Nat, NEW ready \in SUBSET ((0..N) \X Tasks), ready # {}
  PROVE  (CHOOSE at \in ready : \A o \in ready :
            at[1] < o[1] \/ (at[1] = o[1] /\ at[2] <= o[2])) \in ready
<1> DEFINE I == {at[1] : at \in ready}
<1>1. \A at \in ready : at[1] \in Nat /\ at[2] \in Nat
  BY TaskIsNat
<1>2. PICK i \in I : \A j \in I : i <= j
  <2>1. I \subseteq Nat /\ I # {}
    BY <1>1
  <2> QED
    BY <2>1, LeastIn
<1> DEFINE J == {at[2] : at \in {o \in ready : o[1] = i}}
<1>3. PICK j \in J : \A m \in J : j <= m
  <2>1. J \subseteq Nat /\ J # {}
    BY <1>1, <1>2
  <2> QED
    BY <2>1, LeastIn
<1>4. PICK at \in ready : at[1] = i /\ at[2] = j
  BY <1>3
<1>5. ASSUME NEW o \in ready PROVE at[1] < o[1] \/ (at[1] = o[1] /\ at[2] <= o[2])
  <2>1. i <= o[1] /\ i \in Nat /\ o[1] \in Nat
    BY <1>1, <1>2, <1>4
  <2>2. o[1] = i => j <= o[2]
    BY <1>3
  <2> QED
    BY <2>1, <2>2, <1>4
<1>6. \E x \in ready : \A o \in ready : x[1] < o[1] \/ (x[1] = o[1] /\ x[2] <= o[2])
  BY <1>5
<1> QED
  BY <1>6

\* The walk where it stops.
Stopped(home, content, walk, routed, next) ==
    /\ next.program = walk.program /\ next.workstream \in Workstreams
    /\ next.local \in Seq(Tasks) /\ next.left \in Seq(Tasks) /\ next.todo \in Seq(Workstreams)
    /\ Owned(content, next.workstream, next.program)
    /\ \A n \in 1..Len(next.todo) : Owned(content, next.todo[n], next.program)
    /\ AllOf(home, issued, next.local, next.workstream)
    /\ AllOf(home, issued, next.left, next.workstream)
    /\ next.planned \in Tasks /\ next.planned <= issued /\ home[next.planned] = next.workstream
    /\ content["tasks"][next.planned] # None
    /\ content["tasks"][next.planned].status = "created"
    /\ dependenciesMet(content, next.planned)
    /\ next.submitted = issued + 1
    /\ next = [program |-> next.program, workstream |-> next.workstream, local |-> next.local,
               left |-> next.left, todo |-> next.todo, planned |-> next.planned,
               submitted |-> next.submitted]

\* Where a walk stops is a planned task of its own workstream whose dependencies
\* are completed.
LEMMA StopsWell ==
  ASSUME NEW home, NEW content, ContentFits(home, issued, servedBy, content), NEW walk, NEW routed,
         WalkFits(home, issued, content, walk), NEW at \in Ready(content, walk, routed)
  PROVE  Stopped(home, content, walk, routed, StoppedAt(content, walk, at))
<1> DEFINE i == at[1]
           n == at[2]
           list == Ahead(content, walk, i)
           t == list[n]
           w == IF i = 0 THEN walk.workstream ELSE walk.todo[i]
           local == IF i = 0 THEN walk.local ELSE list
           left == SubSeq(list, n + 1, Len(list))
           todo == SubSeq(walk.todo, i + 1, Len(walk.todo))
           next == StoppedAt(content, walk, at)
<1>1. /\ i \in 0..Len(walk.todo) /\ n \in Tasks /\ n <= Len(list)
      /\ content["tasks"][t] # None /\ content["tasks"][t].status = "created"
      /\ dependenciesMet(content, t)
  BY DEF Ready
<1>2. /\ walk.todo \in Seq(Workstreams) /\ Len(walk.todo) \in Nat
      /\ walk.program \in Programs /\ walk.local \in Seq(Tasks) /\ walk.left \in Seq(Tasks)
      /\ n \in Nat /\ n >= 1
  BY <1>1, TaskIsNat DEF WalkFits
<1>3. /\ w \in Workstreams /\ Owned(content, w, walk.program)
      /\ local \in Seq(Tasks) /\ list \in Seq(Tasks)
      /\ AllOf(home, issued, local, w) /\ AllOf(home, issued, list, w)
  <2>1. CASE i = 0
    <3>1. list = walk.left
      BY <2>1 DEF Ahead
    <3>2. walk.left # << >>
      BY <3>1, <1>1, <1>2
    <3> QED
      BY <3>1, <3>2, <2>1 DEF WalkFits
  <2>2. CASE i # 0
    <3>1. i \in 1..Len(walk.todo)
      BY <2>2, <1>1, <1>2
    <3>2. w = walk.todo[i] /\ w \in Workstreams /\ Owned(content, w, walk.program)
      BY <2>2, <3>1 DEF WalkFits
    <3>3. content["workstreams"][w] # None
      BY <3>2 DEF Owned
    <3>4. list = content["workstreams"][w].tasks /\ local = list
      BY <2>2, <3>2, <3>3 DEF Ahead, Listed
    <3>5. list \in Seq(Tasks) /\ AllOf(home, issued, list, w)
      BY <3>2, <3>3, <3>4, StreamDoc DEF WorkstreamRecords
    <3> QED
      BY <3>2, <3>4, <3>5
  <2> QED
    BY <2>1, <2>2
<1>4. next = [program |-> walk.program, workstream |-> w, local |-> local, left |-> left,
              todo |-> todo, planned |-> t, submitted |-> issued + 1]
  BY DEF StoppedAt
<1> HIDE DEF w, local, list, i, n, next
<1>5. /\ left \in Seq(Tasks) /\ \A m \in 1..Len(left) : m + n \in 1..Len(list) /\ left[m] = list[m + n]
  BY <1>1, <1>2, <1>3
<1>6. AllOf(home, issued, left, w)
  BY <1>3, <1>5 DEF AllOf
<1>7. /\ todo \in Seq(Workstreams)
      /\ \A m \in 1..Len(todo) : m + i \in 1..Len(walk.todo) /\ todo[m] = walk.todo[m + i]
  BY <1>1, <1>2
<1>8. \A m \in 1..Len(todo) : Owned(content, todo[m], walk.program)
  BY <1>7 DEF WalkFits
<1>9. t \in Tasks /\ t <= issued /\ home[t] = w
  <2>1. n \in 1..Len(list)
    BY <1>1, <1>2, <1>3
  <2> QED
    BY <2>1, <1>3 DEF AllOf
<1> HIDE DEF left, todo, t
<1>10. /\ next.program = walk.program /\ next.workstream = w /\ next.local = local /\ next.left = left
       /\ next.todo = todo /\ next.planned = t /\ next.submitted = issued + 1
  BY <1>4
<1>11. Stopped(home, content, walk, routed, next)
  BY <1>1, <1>3, <1>4, <1>5, <1>6, <1>7, <1>8, <1>9, <1>10 DEF Stopped, t
<1> QED
  BY <1>11 DEF next

\* In these contents, what a task depends on is in its workstream.
KnownOf(content) ==
    \A t \in Tasks : content["tasks"][t] # None => KnownIn(content, t, content["tasks"][t].workstream)

\* What a stretch asks of the writes it begins with.
ServedWrite(home, x) ==
    /\ WriteFits(home, issued, servedBy, x) /\ StreamWrite(x) /\ x.in # "programs"
    /\ x.in = "tasks" => x.value = None /\ servedBy[x.doc] = None

\* What a stretch asks of the writes it begins with and of the ticks: no other
\* tick is at the program, and the task for which this one waited is gone.
StretchFits(home, k, walk, writes) ==
    /\ writes \in Seq(Writes)
    /\ \A n \in 1..Len(writes) : ServedWrite(home, writes[n])
    /\ WalkFits(home, issued, Written(cache, writes), walk)
    /\ \A j \in Ticks : tick[j] # Idle /\ (j = k \/ tick[j].program = walk.program) =>
          /\ j = k /\ tick[k].program = walk.program
          /\ Written(cache, writes)["tasks"][tick[k].planned] = None
    /\ restarts = 0 => KnownOf(Written(cache, writes))

\* The writes of a stretch take away planned tasks, and touch no others.
LEMMA StretchTasks ==
  ASSUME NEW home, Placed(home), Rest, NEW writes \in Seq(Writes),
         \A n \in 1..Len(writes) : ServedWrite(home, writes[n]), NEW t \in Tasks
  PROVE  /\ Written(cache, writes)["tasks"][t] # None =>
               Written(cache, writes)["tasks"][t] = cache["tasks"][t]
         /\ servedBy[t] # None => Written(cache, writes)["tasks"][t] = cache["tasks"][t]
<1> DEFINE after == Written(cache, writes)
<1>1. "tasks" \in Collections /\ t \in Docs["tasks"]
  BY DocsAre DEF Collections
<1>2. \/ after["tasks"][t] = cache["tasks"][t]
      \/ \E n \in 1..Len(writes) : /\ writes[n].in = "tasks" /\ writes[n].doc = t
                                   /\ after["tasks"][t] = writes[n].value
  BY <1>1, WrittenIs
<1> HIDE DEF after
<1>3. \/ after["tasks"][t] = cache["tasks"][t]
      \/ after["tasks"][t] = None /\ servedBy[t] = None
  BY <1>2 DEF ServedWrite
<1> QED
  BY <1>3 DEF after

\* A tick that ends, or goes on to the next submission, leaves the others alone.
LEMMA TickLeaves ==
  ASSUME NEW home, NEW home2, Agree(home, issued, servedBy, home2, issued', servedBy'), Counters,
         NEW k \in Ticks, TicksFit(home), NEW next, tick' = [tick EXCEPT ![k] = next],
         withdrawn' = withdrawn,
         \A w \in Workstreams, p \in Programs : Owned(cache, w, p) => Owned(cache', w, p),
         \A t \in Tasks : t <= issued /\ servedBy[t] # None => cache'["tasks"][t] = cache["tasks"][t],
         next = Idle \/ Walking(home2, issued', servedBy', cache', withdrawn', next),
         \A j \in Ticks : next # Idle /\ tick[j] # Idle /\ tick[j].program = next.program => j = k
  PROVE  TicksFit(home2)'
<1>1. tick' = [j \in Ticks |-> IF j = k THEN next ELSE tick[j]]
  BY DEF TicksFit
<1>2. ASSUME NEW j \in Ticks, j # k, tick[j] # Idle
      PROVE  Walking(home2, issued', servedBy', cache', withdrawn', tick[j])
  <2>1. Walking(home, issued, servedBy, cache, withdrawn, tick[j])
    BY <1>2 DEF TicksFit
  <2>2. /\ tick[j].submitted \in Tasks /\ tick[j].submitted <= issued
        /\ servedBy[tick[j].submitted] # None
    BY <2>1, TaskIsNat DEF Walking, Walks
  <2>3. cache'["tasks"][tick[j].submitted] = cache["tasks"][tick[j].submitted]
    BY <2>2
  <2> QED
    BY <2>1, <2>3, WalkingStays DEF Walking
<1>3. \A j \in Ticks : tick'[j] = Idle \/ Walking(home2, issued', servedBy', cache', withdrawn', tick'[j])
  BY <1>1, <1>2
<1>4. \A i, j \in Ticks : tick'[i] # Idle /\ tick'[j] # Idle /\ tick'[i].program = tick'[j].program => i = j
  BY <1>1 DEF TicksFit
<1> QED
  BY <1>1, <1>3, <1>4 DEF TicksFit

\* A stretch that finds nothing to submit.
LEMMA StretchEnds ==
  ASSUME NEW home \in Homes, Placed(home), Rest, NEW k \in Ticks, NEW walk, NEW writes,
         StretchFits(home, k, walk, writes), Persist(writes), tick' = [tick EXCEPT ![k] = Idle],
         UNCHANGED <<issued, servedBy, stored, plan, withdrawn, restarts, lost>>
  PROVE  IInv'
<1>1. /\ ContentFits(home, issued, servedBy, cache) /\ TicksFit(home)
      /\ Counters /\ Trees /\ Once /\ Lossless /\ Known
  BY DEF Placed, Rest
<1>2. /\ writes \in Seq(Writes) /\ \A n \in 1..Len(writes) : ServedWrite(home, writes[n])
      /\ cache' = Written(cache, writes)
  BY DEF StretchFits, Persist
<1>3. Agree(home, issued, servedBy, home, issued', servedBy')
  BY <1>1, SameHome
<1>4. \A t \in Tasks : /\ cache'["tasks"][t] # None => cache'["tasks"][t] = cache["tasks"][t]
                       /\ servedBy[t] # None => cache'["tasks"][t] = cache["tasks"][t]
  BY <1>2, StretchTasks
<1>5. /\ ContentFits(home, issued', servedBy', cache')
      /\ ContentFits(home, issued', servedBy', stored')
      /\ QueueFits(home, issued', servedBy', queue')
      /\ Lossless'
  <2>1. \A n \in 1..Len(writes) : WriteFits(home, issued', servedBy', writes[n])
    BY <1>2 DEF ServedWrite
  <2>2. ASSUME NEW n \in 1..Len(writes), writes[n].in = "tasks"
        PROVE  TaskWrite(writes[n], servedBy') /\ ~Completed(writes[n].value)
    <3>1. writes[n].value = None /\ servedBy[writes[n].doc] = None /\ writes[n].doc \in Tasks
      BY <1>2, <2>2, DocsAre DEF ServedWrite, WriteFits
    <3>2. ~Completed(cache["tasks"][writes[n].doc])
      BY <3>1, <1>1, TaskDoc DEF Completed
    <3> QED
      BY <3>1, <3>2 DEF TaskWrite, Completed
  <2>3. \A n \in 1..Len(writes) : TaskWrite(writes[n], servedBy')
    BY <2>2 DEF TaskWrite
  <2>4. stored' = stored /\ lost' = lost
    OBVIOUS
  <2> QED
    BY <1>1, <1>2, <1>3, <2>1, <2>2, <2>3, <2>4, PersistKeeps
<1>6. \A n \in 1..Len(writes) : StreamWrite(writes[n]) /\ writes[n].in # "programs"
  BY <1>2 DEF ServedWrite
<1>7. Trees'
  BY <1>1, <1>2, <1>6, TreesStay DEF Trees
<1>8. TicksFit(home)'
  <2>1. \A w \in Workstreams, p \in Programs : Owned(cache, w, p) => Owned(cache', w, p)
    BY <1>2, <1>6, OwnedStays
  <2> QED
    BY <1>1, <1>3, <1>4, <2>1, TickLeaves
<1>9. Counters'
  BY <1>1 DEF Counters
<1>10. Known'
  BY <1>2 DEF Known, KnownOf, StretchFits
<1>11. ASSUME NEW t \in Tasks
       PROVE  Serving(t)' = Serving(t) /\ (Open(t)' /\ ~UnderWay(t)' => Open(t) /\ ~UnderWay(t))
  <2>1. Serving(t)' = Serving(t)
    BY DEF Serving
  <2>2. Open(t)' => Open(t)
    BY <1>4 DEF Open
  <2>3. ASSUME Open(t)', UnderWay(t) PROVE UnderWay(t)'
    <3>1. PICK j \in Ticks : tick[j] # Idle /\ tick[j].planned = t /\ tick[j].submitted \notin withdrawn
      BY <2>3 DEF UnderWay
    <3>2. j # k
      <4>1. j = k => cache'["tasks"][t] = None
        BY <3>1, <1>2 DEF StretchFits
      <4> QED
        BY <4>1, <2>3 DEF Open
    <3>3. tick'[j] = tick[j]
      BY <3>2
    <3> QED
      BY <3>1, <3>3 DEF UnderWay
  <2> QED
    BY <2>1, <2>2, <2>3
<1>12. Once'
  BY <1>1, <1>11 DEF Once
<1>13. Placed(home)'
  BY <1>5, <1>8 DEF Placed
<1> QED
  BY <1>5, <1>7, <1>9, <1>10, <1>12, <1>13 DEF IInv, Rest

\* A fitting write still fits when more tasks were made.
LEMMA WriteGrows ==
  ASSUME NEW home, NEW made, NEW served, NEW home2, NEW made2, NEW served2,
         Agree(home, made, served, home2, made2, served2),
         NEW x \in Writes, WriteFits(home, made, served, x)
  PROVE  WriteFits(home2, made2, served2, x)
<1>1. x.in \in Collections /\ x.doc \in Docs[x.in]
  BY DEF WriteFits, Writes
<1> QED
  BY <1>1, FitsGrows DEF WriteFits

\* The dependencies of a task that is submitted, as the submission names them.
LEMMA SubmittedDeps ==
  ASSUME NEW home, NEW content, ContentFits(home, issued, servedBy, content), NEW t \in Tasks,
         content["tasks"][t] # None, dependenciesMet(content, t),
         NEW e \in {resolveTaskId(content, d) : d \in content["tasks"][t].deps}
  PROVE  /\ e \in Tasks /\ Completed(content["tasks"][e]) /\ Resolved(content, e) = e
         /\ content["tasks"][e].workstream = content["tasks"][t].workstream
<1>1. PICK d \in content["tasks"][t].deps : e = resolveTaskId(content, d)
  OBVIOUS
<1>2. d \in Tasks
  BY TaskDoc DEF TaskRecords
<1>3. e = Resolved(content, d) /\ e \in Tasks
  BY <1>1, <1>2, ResolvesTo
<1>4. /\ content["tasks"][e] # None /\ content["tasks"][e].status = "completed"
      /\ content["tasks"][e].workstream = content["tasks"][t].workstream
  BY <1>1 DEF dependenciesMet
<1>5. Resolved(content, e) = e
  BY <1>2, <1>3, AliasesAreShort DEF Resolved
<1> QED
  BY <1>3, <1>4, <1>5 DEF Completed

\* A stretch that submits: the new task is in its planned one's workstream, its
\* dependencies are completed, and no other submission of this instance serves
\* the planned task, since a tick of another program cannot be at its workstream.
LEMMA StretchSubmits ==
  ASSUME NEW home \in Homes, Placed(home), Rest, NEW k \in Ticks, NEW walk, NEW writes, NEW routed,
         StretchFits(home, k, walk, writes), NEW next,
         Stopped(home, Written(cache, writes), walk, routed, next), issued < MaxTasks,
         Persist(Append(writes, Put("tasks", issued + 1,
            [status |-> "running", workstream |-> next.workstream,
             deps |-> {resolveTaskId(Written(cache, writes), d) :
                         d \in Written(cache, writes)["tasks"][next.planned].deps}]))),
         tick' = [tick EXCEPT ![k] = next], issued' = issued + 1,
         servedBy' = [servedBy EXCEPT ![issued + 1] = next.planned],
         UNCHANGED <<stored, plan, withdrawn, restarts, lost>>,
         NEW home2, home2 = [home EXCEPT ![issued + 1] = next.workstream]
  PROVE  IInv'
<1> DEFINE content == Written(cache, writes)
           u == issued + 1
           t == next.planned
           deps == {resolveTaskId(content, d) : d \in content["tasks"][t].deps}
           v == [status |-> "running", workstream |-> next.workstream, deps |-> deps]
           x == Put("tasks", u, v)
           all == Append(writes, x)
<1>1. /\ ContentFits(home, issued, servedBy, cache) /\ TicksFit(home)
      /\ Counters /\ Trees /\ Once /\ Lossless /\ Known
  BY DEF Placed, Rest
<1>2. /\ writes \in Seq(Writes) /\ \A n \in 1..Len(writes) : ServedWrite(home, writes[n])
  BY DEF StretchFits
<1>3. ContentFits(home, issued, servedBy, content)
  BY <1>1, <1>2, WrittenFits DEF ServedWrite
<1>4. Persist(all)
  OBVIOUS
<1>5. /\ u \in Tasks /\ issued \in Nat /\ u > issued /\ issued' = u /\ servedBy[u] = None
      /\ issued' \in 0..MaxTasks
  BY <1>1, FactoryAssumption DEF Counters, Tasks
<1>5a. \A s \in Tasks : s <= issued => s <= issued' /\ s # u
  <2>1. issued' = issued + 1 /\ issued \in Nat /\ u = issued + 1
    BY <1>5
  <2> QED
    BY <2>1, TaskIsNat
<1>6. /\ next.workstream \in Workstreams /\ t \in Tasks /\ t <= issued /\ home[t] = next.workstream
      /\ content["tasks"][t] # None /\ content["tasks"][t].status = "created"
      /\ dependenciesMet(content, t) /\ next.submitted = u
      /\ Owned(content, next.workstream, next.program) /\ next.program = walk.program
  BY DEF Stopped
<1>7. /\ servedBy' = [s \in Tasks |-> IF s = u THEN t ELSE servedBy[s]]
      /\ home2 = [s \in Tasks |-> IF s = u THEN next.workstream ELSE home[s]]
  BY <1>1, <1>5 DEF Counters, Homes
<1>8. /\ home2 \in Homes /\ Agree(home, issued, servedBy, home2, issued', servedBy')
  BY <1>5, <1>6, <1>7, TaskIsNat DEF Homes, Agree
<1> HIDE DEF content
<1>9. /\ \A e \in deps : /\ e \in Tasks /\ Completed(content["tasks"][e]) /\ Resolved(content, e) = e
                         /\ content["tasks"][e].workstream = next.workstream
  <2>1. content["tasks"][t].workstream = next.workstream
    BY <1>3, <1>6, TaskDoc
  <2> QED
    BY <2>1, <1>3, <1>6, SubmittedDeps
<1> HIDE DEF deps, t, u
<1>10. /\ v \in TaskRecords /\ v # None /\ v.status = "running" /\ v.workstream = next.workstream
       /\ v.deps = deps
  <2>1. v \in TaskRecords
    BY <1>6, <1>9 DEF TaskRecords
  <2> QED
    BY <2>1, NoneAssumption
<1> HIDE DEF v
<1>11. /\ WriteFits(home2, issued', servedBy', x) /\ x \in Writes
       /\ x.in = "tasks" /\ x.doc = u /\ x.value = v
  <2>1. "tasks" \in Collections /\ u \in Docs["tasks"]
    BY <1>5, DocsAre DEF Collections
  <2>2. /\ u <= issued' /\ home2[u] = v.workstream /\ servedBy'[u] # None
    BY <1>5, <1>6, <1>7, <1>10, TaskIsNat
  <2>3. Fits(home2, issued', servedBy', "tasks", u, v)
    BY <1>10, <2>2 DEF Fits
  <2> QED
    BY <2>1, <2>3, PutFits
<1> HIDE DEF x
<1>12. /\ all \in Seq(Writes) /\ Len(writes) \in Nat /\ Len(all) = Len(writes) + 1
       /\ all[Len(all)] = x
       /\ \A n \in 1..Len(all) : n # Len(all) => n \in 1..Len(writes) /\ all[n] = writes[n]
  BY <1>2, <1>11
<1>13. cache' = Written(cache, all)
  BY <1>4 DEF Persist
<1>14. \A c \in Collections : \A d \in Docs[c] :
          cache'[c][d] = IF c = "tasks" /\ d = u THEN v ELSE content[c][d]
  BY <1>2, <1>11, <1>13, WrittenAppend DEF content
<1> HIDE DEF all
<1>15. ASSUME NEW s \in Tasks
       PROVE  /\ content["tasks"][s] # None => content["tasks"][s] = cache["tasks"][s]
              /\ servedBy[s] # None => content["tasks"][s] = cache["tasks"][s]
              /\ cache'["tasks"][s] = IF s = u THEN v ELSE content["tasks"][s]
              /\ cache'["aliases"][s] = content["aliases"][s]
              /\ content["tasks"][s] # None => s <= issued /\ s # u
  <2>1. /\ content["tasks"][s] # None => content["tasks"][s] = cache["tasks"][s]
        /\ servedBy[s] # None => content["tasks"][s] = cache["tasks"][s]
    BY <1>2, StretchTasks DEF content
  <2>2. /\ cache'["tasks"][s] = IF s = u THEN v ELSE content["tasks"][s]
        /\ cache'["aliases"][s] = content["aliases"][s]
    BY <1>14, DocsAre DEF Collections
  <2>3. content["tasks"][s] # None => s <= issued /\ s # u
    BY <1>3, <1>5, TaskDoc
  <2> QED
    BY <2>1, <2>2, <2>3
<1>16. /\ \A w \in Workstreams : cache'["workstreams"][w] = content["workstreams"][w]
  BY <1>14, DocsAre DEF Collections
<1>17. \A n \in 1..Len(all) : /\ StreamWrite(all[n]) /\ all[n].in # "programs"
                              /\ WriteFits(home2, issued', servedBy', all[n])
  <2>1. \A n \in 1..Len(writes) : /\ StreamWrite(writes[n]) /\ writes[n].in # "programs"
                                  /\ WriteFits(home2, issued', servedBy', writes[n])
    BY <1>2, <1>8, WriteGrows DEF ServedWrite
  <2>2. StreamWrite(x) /\ x.in # "programs"
    BY <1>11 DEF StreamWrite
  <2> QED
    BY <1>11, <1>12, <2>1, <2>2
<1>18. ASSUME NEW n \in 1..Len(all), all[n].in = "tasks"
       PROVE  TaskWrite(all[n], servedBy') /\ ~Completed(all[n].value)
  <2>1. CASE n = Len(all)
    <3>1. cache["tasks"][u] = None
      BY <1>1, <1>5, TaskDoc
    <3>2. \A e \in v.deps : Completed(cache["tasks"][e])
      BY <1>9, <1>10, <1>15 DEF Completed
    <3> QED
      BY <2>1, <3>1, <3>2, <1>10, <1>11, <1>12 DEF TaskWrite, Completed
  <2>2. CASE n # Len(all)
    <3>1. n \in 1..Len(writes) /\ all[n] = writes[n]
      BY <2>2, <1>12
    <3>2. all[n].value = None /\ servedBy[all[n].doc] = None /\ all[n].doc \in Tasks
      BY <1>2, <1>18, <3>1, DocsAre DEF ServedWrite, WriteFits
    <3>3. ~Completed(cache["tasks"][all[n].doc])
      BY <3>2, <1>1, TaskDoc DEF Completed
    <3> QED
      BY <3>2, <3>3 DEF TaskWrite, Completed
  <2> QED
    BY <2>1, <2>2
<1>19. /\ ContentFits(home2, issued', servedBy', cache')
       /\ ContentFits(home2, issued', servedBy', stored')
       /\ QueueFits(home2, issued', servedBy', queue')
       /\ Lossless'
  <2>1. \A n \in 1..Len(all) : TaskWrite(all[n], servedBy')
    BY <1>18 DEF TaskWrite
  <2>2. stored' = stored /\ lost' = lost
    OBVIOUS
  <2>3. \A n \in 1..Len(all) : WriteFits(home2, issued', servedBy', all[n])
    BY <1>17
  <2> QED
    BY <1>1, <1>4, <1>8, <1>12, <1>18, <2>1, <2>2, <2>3, PersistKeeps
<1>20. Trees'
  BY <1>1, <1>4, <1>12, <1>17, TreesStay DEF Trees
<1>21. \A w \in Workstreams, p \in Programs : Owned(cache, w, p) => Owned(cache', w, p)
  BY <1>4, <1>12, <1>17, OwnedStays
<1>22. servedBy[t] = None
  BY <1>3, <1>6, TaskDoc
<1>23. Walking(home2, issued', servedBy', cache', withdrawn', next)
  <2>1. /\ next.local \in Seq(Tasks) /\ next.left \in Seq(Tasks) /\ next.todo \in Seq(Workstreams)
        /\ next.program \in Programs
    BY DEF Stopped, StretchFits, WalkFits
  <2>2. next \in Walks
    <3>1. next = [program |-> next.program, workstream |-> next.workstream, local |-> next.local,
                  left |-> next.left, todo |-> next.todo, planned |-> next.planned,
                  submitted |-> next.submitted]
      BY DEF Stopped
    <3> QED
      BY <3>1, <2>1, <1>5, <1>6 DEF Walks, t
  <2>3. /\ Owned(cache', next.workstream, next.program)
        /\ \A n \in 1..Len(next.todo) : Owned(cache', next.todo[n], next.program)
    <3>1. \A n \in 1..Len(next.todo) : next.todo[n] \in Workstreams /\ Owned(content, next.todo[n], next.program)
      BY <2>1 DEF Stopped, content
    <3> QED
      BY <3>1, <1>6, <1>16 DEF Owned
  <2>4. /\ AllOf(home2, issued', next.local, next.workstream)
        /\ AllOf(home2, issued', next.left, next.workstream)
    BY <2>1, <1>8, AllOfGrows DEF Stopped
  <2>5. /\ t <= issued' /\ home2[t] = next.workstream /\ servedBy'[t] = None
        /\ u <= issued' /\ home2[u] = next.workstream /\ servedBy'[u] = t
    <3>1. t <= issued' /\ t # u /\ u <= issued' /\ u # None /\ u \in Tasks /\ t \in Tasks
      BY <1>5, <1>6, <1>5a, TaskIsNat
    <3>2. home2[t] = home[t] /\ servedBy'[t] = servedBy[t] /\ home2[u] = next.workstream /\ servedBy'[u] = t
      BY <3>1, <1>7
    <3> QED
      BY <3>1, <3>2, <1>6, <1>22
  <2>6. cache'["tasks"][u] = v
    BY <1>5, <1>15
  <2> QED
    BY <2>2, <2>3, <2>4, <2>5, <2>6, <1>6, <1>10 DEF Walking, t
<1>24. TicksFit(home2)'
  <2>1. \A s \in Tasks : s <= issued /\ servedBy[s] # None => cache'["tasks"][s] = cache["tasks"][s]
    BY <1>5, <1>15
  <2>2. \A j \in Ticks : next # Idle /\ tick[j] # Idle /\ tick[j].program = next.program => j = k
    BY <1>6 DEF StretchFits
  <2>3. withdrawn' = withdrawn
    OBVIOUS
  <2> QED
    BY <1>1, <1>8, <1>21, <1>23, <2>1, <2>2, <2>3, TickLeaves
<1>25. Counters'
  <2>1. servedBy' \in [Tasks -> Tasks \cup {None}]
    BY <1>1, <1>6, <1>7 DEF Counters
  <2>2. \A s \in Tasks : servedBy'[s] # None => s <= issued' /\ servedBy'[s] <= issued'
    <3> SUFFICES ASSUME NEW s \in Tasks, servedBy'[s] # None
                 PROVE  s <= issued' /\ servedBy'[s] <= issued'
      OBVIOUS
    <3>1. CASE s = u
      BY <3>1, <1>5, <1>6, <1>7, TaskIsNat
    <3>2. CASE s # u
      <4>1. servedBy'[s] = servedBy[s] /\ servedBy[s] \in Tasks /\ s <= issued /\ servedBy[s] <= issued
        BY <3>2, <1>1, <1>7 DEF Counters
      <4> QED
        BY <4>1, <1>5a
    <3> QED
      BY <3>1, <3>2
  <2> QED
    BY <1>1, <1>5, <2>1, <2>2 DEF Counters
<1>26. Known'
  <2> SUFFICES ASSUME restarts = 0, NEW s \in Tasks, cache'["tasks"][s] # None,
                      NEW d \in cache'["tasks"][s].deps
               PROVE  LET e == cache'["tasks"][Resolved(cache', d)]
                      IN e # None /\ e.workstream = cache'["tasks"][s].workstream
    BY DEF Known, KnownIn
  <2>1. d \in Tasks
    BY <1>19, TaskDoc DEF TaskRecords
  <2>2. Resolved(cache', d) = Resolved(content, d) /\ Resolved(content, d) \in Tasks
    BY <2>1, <1>3, <1>15, ResolvesTo DEF Resolved
  <2>3. LET e == content["tasks"][Resolved(content, d)]
        IN e # None /\ e.workstream = cache'["tasks"][s].workstream
    <3>1. CASE s = u
      BY <3>1, <1>5, <1>9, <1>10, <1>15 DEF Completed
    <3>2. CASE s # u
      <4>1. cache'["tasks"][s] = content["tasks"][s]
        BY <3>2, <1>15
      <4>2. KnownOf(content)
        BY DEF StretchFits, content
      <4> QED
        BY <4>1, <4>2 DEF KnownOf, KnownIn
    <3> QED
      BY <3>1, <3>2
  <2> QED
    BY <2>2, <2>3, <1>15
<1>27. Open(t) /\ ~UnderWay(t)
  <2>1. Open(t)
    BY <1>6, <1>15 DEF Open
  <2>2. ASSUME NEW j \in Ticks, tick[j] # Idle, tick[j].planned = t PROVE FALSE
    <3>1. Walking(home, issued, servedBy, cache, withdrawn, tick[j])
      BY <2>2, <1>1 DEF TicksFit
    <3>2. /\ tick[j].workstream = next.workstream /\ tick[j].program \in Programs
          /\ Owned(cache, next.workstream, tick[j].program)
      BY <2>2, <3>1, <1>6 DEF Walking, Walks
    <3>3. Owned(cache', next.workstream, tick[j].program) /\ Owned(cache', next.workstream, next.program)
      BY <3>2, <1>6, <1>16, <1>21 DEF Owned
    <3>4. tick[j].program = walk.program
      BY <3>3, <1>6 DEF Owned
    <3>5. content["tasks"][t] = None
      BY <2>2, <3>4 DEF StretchFits, content
    <3> QED
      BY <3>5, <1>6
  <2> QED
    BY <2>1, <2>2 DEF UnderWay
<1>28. ASSUME NEW s \in Tasks
       PROVE  /\ Cardinality(Serving(s))' <= 1 + restarts'
              /\ (Open(s) /\ ~UnderWay(s))' => Cardinality(Serving(s))' <= restarts'
  <2>1. /\ Cardinality(Serving(s)) <= 1 + restarts
        /\ Open(s) /\ ~UnderWay(s) => Cardinality(Serving(s)) <= restarts
        /\ restarts \in Nat /\ restarts' = restarts /\ withdrawn' = withdrawn
    BY <1>1, FactoryAssumption DEF Once, Counters
  <2>2. IsFiniteSet(Serving(s)) /\ Cardinality(Serving(s)) \in Nat
    BY ServingIsFinite
  <2>3. CASE s = t
    <3>1. Cardinality(Serving(s)) <= restarts
      BY <1>27, <2>1, <2>3
    <3>2. Serving(s)' = IF u \in withdrawn THEN Serving(s) ELSE Serving(s) \cup {u}
      BY <1>5, <1>7, <2>1, <2>3 DEF Serving
    <3>3. CASE u \in withdrawn
      BY <3>1, <3>2, <3>3, <2>1, <2>2
    <3>4. CASE u \notin withdrawn
      <4>1. UnderWay(s)'
        <5>1. tick'[k] = next
          BY <1>1 DEF TicksFit
        <5>2. next # Idle
          <6>1. next.program \in Programs /\ Idle.program = None
            BY <1>23 DEF Walking, Walks, Idle
          <6> QED
            BY <6>1, FactoryAssumption
        <5> QED
          BY <5>1, <5>2, <3>4, <2>3, <2>1, <1>6 DEF UnderWay, t
      <4>2. Cardinality(Serving(s) \cup {u}) =
               IF u \in Serving(s) THEN Cardinality(Serving(s)) ELSE Cardinality(Serving(s)) + 1
        BY <2>2, FS_AddElement
      <4>3. /\ Cardinality(Serving(s) \cup {u}) <= Cardinality(Serving(s)) + 1
            /\ Cardinality(Serving(s) \cup {u}) \in Nat
        BY <2>2, <4>2
      <4> QED
        BY <4>1, <4>2, <4>3, <3>1, <3>2, <3>4, <2>1, <2>2
    <3> QED
      BY <3>3, <3>4
  <2>4. CASE s # t
    <3>1. Serving(s)' = Serving(s)
      BY <1>5, <1>7, <2>1, <2>4, TaskIsNat DEF Serving
    <3>2. Open(s)' => Open(s)
      BY <1>10, <1>15 DEF Open
    <3>3. ASSUME Open(s)', UnderWay(s) PROVE UnderWay(s)'
      <4>1. PICK j \in Ticks : tick[j] # Idle /\ tick[j].planned = s /\ tick[j].submitted \notin withdrawn
        BY <3>3 DEF UnderWay
      <4>2. j # k
        <5>1. j = k => content["tasks"][s] = None
          BY <4>1 DEF StretchFits, content
        <5>2. content["tasks"][s] # None
          BY <3>3, <1>10, <1>15 DEF Open
        <5> QED
          BY <5>1, <5>2
      <4>3. tick'[j] = tick[j]
        BY <4>2
      <4> QED
        BY <4>1, <4>3, <2>1 DEF UnderWay
    <3> QED
      BY <3>1, <3>2, <3>3, <2>1
  <2> QED
    BY <2>3, <2>4
<1>29. Once'
  BY <1>28 DEF Once
<1>30. Placed(home2)'
  BY <1>19, <1>24 DEF Placed
<1> QED
  BY <1>8, <1>19, <1>20, <1>25, <1>26, <1>29, <1>30 DEF IInv, Rest

\* A stretch of a tick.
LEMMA StretchKeeps ==
  ASSUME NEW home \in Homes, Placed(home), Rest, NEW k \in Ticks, NEW walk, NEW writes, NEW routed,
         StretchFits(home, k, walk, writes), Stretch(k, walk, writes, routed),
         UNCHANGED <<stored, plan, withdrawn, restarts, lost>>
  PROVE  IInv'
<1> DEFINE content == Written(cache, writes)
           ready == Ready(content, walk, routed)
           first == CHOOSE at \in ready : \A o \in ready :
                       at[1] < o[1] \/ (at[1] = o[1] /\ at[2] <= o[2])
           next == StoppedAt(content, walk, first)
<1>1. CASE /\ ready = {} /\ Persist(writes) /\ tick' = [tick EXCEPT ![k] = Idle]
           /\ UNCHANGED <<issued, servedBy>>
  BY <1>1, StretchEnds
<1>2. CASE /\ ready # {} /\ issued < MaxTasks
           /\ Persist(Append(writes, Put("tasks", issued + 1,
                [status |-> "running", workstream |-> next.workstream,
                 deps |-> {resolveTaskId(content, d) : d \in content["tasks"][next.planned].deps}])))
           /\ tick' = [tick EXCEPT ![k] = next] /\ issued' = issued + 1
           /\ servedBy' = [servedBy EXCEPT ![issued + 1] = next.planned]
  <2>1. /\ writes \in Seq(Writes) /\ \A n \in 1..Len(writes) : WriteFits(home, issued, servedBy, writes[n])
        /\ WalkFits(home, issued, content, walk)
    BY DEF StretchFits, ServedWrite
  <2>2. ContentFits(home, issued, servedBy, content)
    BY <2>1, WrittenFits DEF Placed
  <2>3. first \in ready
    <3>1. Len(walk.todo) \in Nat
      BY <2>1 DEF WalkFits
    <3>2. ready \in SUBSET ((0..Len(walk.todo)) \X Tasks) /\ ready # {}
      BY <1>2 DEF Ready
    <3> HIDE DEF ready
    <3> QED
      BY <3>1, <3>2, FirstIsReady
  <2> HIDE DEF first
  <2>4. Stopped(home, content, walk, routed, next)
    BY <2>1, <2>2, <2>3, StopsWell
  <2> HIDE DEF next
  <2> QED
    BY <1>2, <2>4, StretchSubmits
<1> QED
  BY <1>1, <1>2 DEF Stretch

\* tickProgram, up to its first submission.
LEMMA TickProgramKeeps ==
  ASSUME NEW home \in Homes, Placed(home), Rest, NEW k \in Ticks, NEW p \in Programs, NEW routed,
         tickProgram(k, p, routed)
  PROVE  IInv'
<1> DEFINE walk == [program |-> p, workstream |-> None, local |-> << >>, left |-> << >>,
                    todo |-> cache["programs"][p]]
<1>1. /\ tick[k] = Idle /\ NoTick(p) /\ cache["programs"][p] # None
      /\ Stretch(k, walk, << >>, routed)
      /\ UNCHANGED <<stored, plan, withdrawn, restarts, lost>>
  BY DEF tickProgram
<1>2. /\ ContentFits(home, issued, servedBy, cache) /\ Trees /\ Known
  BY DEF Placed, Rest
<1>3. Written(cache, << >>) = cache
  BY <1>2 DEF Written, ContentFits
<1>4. << >> \in Seq(Writes) /\ Len(<< >>) = 0
  OBVIOUS
<1>5. cache["programs"][p] \in Seq(Workstreams)
  <2>1. "programs" \in Collections /\ p \in Docs["programs"]
    BY DocsAre DEF Collections
  <2>2. Fits(home, issued, servedBy, "programs", p, cache["programs"][p])
    BY <1>2, <2>1 DEF ContentFits
  <2> QED
    BY <1>1, <2>2 DEF Fits
<1>6. /\ walk.program = p /\ walk.local = << >> /\ walk.left = << >> /\ walk.todo = cache["programs"][p]
  OBVIOUS
<1> HIDE DEF walk
<1>7. \A n \in 1..Len(walk.todo) : Owned(cache, walk.todo[n], walk.program)
  BY <1>1, <1>2, <1>6 DEF Trees
<1>8. WalkFits(home, issued, cache, walk)
  BY <1>5, <1>6, <1>7 DEF WalkFits
<1>9. \A j \in Ticks : ~(tick[j] # Idle /\ (j = k \/ tick[j].program = walk.program))
  BY <1>1, <1>6 DEF NoTick
<1>10. restarts = 0 => KnownOf(cache)
  BY <1>2 DEF Known, KnownOf
<1>11. StretchFits(home, k, walk, << >>)
  BY <1>3, <1>4, <1>8, <1>9, <1>10 DEF StretchFits
<1> QED
  BY <1>1, <1>11, StretchKeeps

\* The list with the submitted task in the planned one's place.
LEMMA ReplacedFits ==
  ASSUME NEW home, NEW made, NEW list \in Seq(Tasks), NEW w, AllOf(home, made, list, w),
         NEW old, NEW new \in Tasks, new <= made, home[new] = w
  PROVE  Replace(list, old, new) \in Seq(Tasks) /\ AllOf(home, made, Replace(list, old, new), w)
<1> DEFINE r == Replace(list, old, new)
<1>1. r = [n \in 1..Len(list) |-> IF list[n] = old THEN new ELSE list[n]] /\ Len(list) \in Nat
  BY DEF Replace
<1>2. \A n \in 1..Len(list) : r[n] \in Tasks /\ r[n] <= made /\ home[r[n]] = w
  BY <1>1 DEF AllOf
<1>3. r \in Seq(Tasks) /\ Len(r) = Len(list)
  BY <1>1, <1>2
<1> QED
  BY <1>2, <1>3 DEF AllOf

\* What a tick writes when its submission returned, and what the cache is then.
LEMMA ServedFits ==
  ASSUME NEW home, Placed(home), Rest, NEW x, Walking(home, issued, servedBy, cache, withdrawn, x)
  PROVE  /\ Served(x) \in Seq(Writes)
         /\ \A n \in 1..Len(Served(x)) : ServedWrite(home, Served(x)[n])
         /\ \A t \in Tasks :
               /\ Written(cache, Served(x))["tasks"][t] = IF t = x.planned THEN None ELSE cache["tasks"][t]
               /\ Written(cache, Served(x))["aliases"][t] =
                     IF t = x.planned THEN [task |-> x.submitted, workstream |-> x.workstream]
                     ELSE cache["aliases"][t]
         /\ \A w \in Workstreams, p \in Programs :
               Owned(cache, w, p) => Owned(Written(cache, Served(x)), w, p)
<1> DEFINE alias == [task |-> x.submitted, workstream |-> x.workstream]
           stream == [program |-> x.program, tasks |-> Replace(x.local, x.planned, x.submitted)]
           x1 == Put("aliases", x.planned, alias)
           x2 == Put("workstreams", x.workstream, stream)
           x3 == Put("tasks", x.planned, None)
<1>1. /\ x.program \in Programs /\ x.workstream \in Workstreams /\ x.local \in Seq(Tasks)
      /\ x.planned \in Tasks /\ x.submitted \in Tasks /\ Owned(cache, x.workstream, x.program)
      /\ AllOf(home, issued, x.local, x.workstream)
      /\ x.planned <= issued /\ home[x.planned] = x.workstream /\ servedBy[x.planned] = None
      /\ x.submitted <= issued /\ home[x.submitted] = x.workstream
      /\ servedBy[x.submitted] = x.planned
  BY DEF Walking, Walks
<1>2. ServedWrite(home, x1) /\ x1 \in Writes /\ x1.in = "aliases" /\ x1.doc = x.planned /\ x1.value = alias
  <2>1. /\ alias \in AliasRecords /\ alias.task = x.submitted
        /\ "aliases" \in Collections /\ x.planned \in Docs["aliases"]
    BY <1>1, DocsAre DEF AliasRecords, Collections
  <2> HIDE DEF alias
  <2>2. Fits(home, issued, servedBy, "aliases", x.planned, alias)
    BY <1>1, <2>1 DEF Fits
  <2>3. /\ WriteFits(home, issued, servedBy, x1) /\ x1 \in Writes
        /\ x1.in = "aliases" /\ x1.doc = x.planned /\ x1.value = alias
    BY <2>1, <2>2, PutFits
  <2> HIDE DEF x1
  <2> QED
    BY <2>3 DEF ServedWrite, StreamWrite
<1>3. /\ ServedWrite(home, x2) /\ x2 \in Writes /\ x2.in = "workstreams" /\ x2.doc = x.workstream
      /\ x2.value = stream /\ stream.program = x.program /\ stream # None
  <2>1. /\ Replace(x.local, x.planned, x.submitted) \in Seq(Tasks)
        /\ AllOf(home, issued, Replace(x.local, x.planned, x.submitted), x.workstream)
    BY <1>1, ReplacedFits
  <2>2. /\ stream \in WorkstreamRecords /\ AllOf(home, issued, stream.tasks, x.workstream)
        /\ "workstreams" \in Collections /\ x.workstream \in Docs["workstreams"]
        /\ stream.program = x.program
    BY <1>1, <2>1, DocsAre DEF WorkstreamRecords, Collections
  <2> HIDE DEF stream
  <2>3. Fits(home, issued, servedBy, "workstreams", x.workstream, stream) /\ stream # None
    BY <2>2, NoneAssumption DEF Fits
  <2>4. /\ WriteFits(home, issued, servedBy, x2) /\ x2 \in Writes
        /\ x2.in = "workstreams" /\ x2.doc = x.workstream /\ x2.value = stream
    BY <2>2, <2>3, PutFits
  <2> HIDE DEF x2
  <2> QED
    BY <1>1, <2>2, <2>3, <2>4 DEF ServedWrite, StreamWrite, Owned
<1>4. ServedWrite(home, x3) /\ x3 \in Writes /\ x3.in = "tasks" /\ x3.doc = x.planned /\ x3.value = None
  <2>1. /\ Fits(home, issued, servedBy, "tasks", x.planned, None)
        /\ "tasks" \in Collections /\ x.planned \in Docs["tasks"]
    BY <1>1, DocsAre DEF Fits, Collections
  <2>2. /\ WriteFits(home, issued, servedBy, x3) /\ x3 \in Writes
        /\ x3.in = "tasks" /\ x3.doc = x.planned /\ x3.value = None
    BY <2>1, PutFits
  <2> HIDE DEF x3
  <2> QED
    BY <1>1, <2>2 DEF ServedWrite, StreamWrite
<1> DEFINE writes == <<x1, x2, x3>>
<1>5. Served(x) = writes
  BY DEF Served
<1> HIDE DEF x1, x2, x3, alias, stream
<1>6. /\ writes \in Seq(Writes) /\ Len(writes) = 3 /\ 1..3 = {1, 2, 3}
      /\ writes[1] = x1 /\ writes[2] = x2 /\ writes[3] = x3
  BY <1>2, <1>3, <1>4
<1> HIDE DEF writes
<1>7. \A n \in 1..Len(writes) : ServedWrite(home, writes[n])
  BY <1>2, <1>3, <1>4, <1>6
<1> DEFINE after == Written(cache, writes)
<1>8. ASSUME NEW c \in Collections, NEW d \in Docs[c]
      PROVE  after[c][d] =
                IF c = "aliases" /\ d = x.planned THEN alias
                ELSE IF c = "workstreams" /\ d = x.workstream THEN stream
                ELSE IF c = "tasks" /\ d = x.planned THEN None
                ELSE cache[c][d]
  <2>1. \/ /\ \A n \in 1..Len(writes) : ~(writes[n].in = c /\ writes[n].doc = d)
           /\ after[c][d] = cache[c][d]
        \/ \E n \in 1..Len(writes) :
              writes[n].in = c /\ writes[n].doc = d /\ after[c][d] = writes[n].value
    BY <1>6, WrittenIs
  <2> HIDE DEF after
  <2> QED
    BY <2>1, <1>2, <1>3, <1>4, <1>6
<1> HIDE DEF after
<1>9. \A t \in Tasks : /\ after["tasks"][t] = IF t = x.planned THEN None ELSE cache["tasks"][t]
                       /\ after["aliases"][t] = IF t = x.planned THEN alias ELSE cache["aliases"][t]
  BY <1>8, DocsAre DEF Collections
<1>10. ASSUME NEW w \in Workstreams, NEW p \in Programs, Owned(cache, w, p) PROVE Owned(after, w, p)
  <2>1. after["workstreams"][w] = IF w = x.workstream THEN stream ELSE cache["workstreams"][w]
    BY <1>8, DocsAre DEF Collections
  <2> QED
    BY <2>1, <1>1, <1>3, <1>10 DEF Owned
<1> QED
  BY <1>5, <1>6, <1>7, <1>9, <1>10 DEF after, alias

\* The submission returned.  Dependencies on the planned task, which goes, lead to
\* the submitted one by the alias.
LEMMA SubmitReturnsKeeps ==
  ASSUME NEW home \in Homes, Placed(home), Rest, NEW k \in Ticks, NEW routed, SubmitReturns(k, routed)
  PROVE  IInv'
<1> DEFINE x == tick[k]
           walk == [x EXCEPT !.local = Replace(@, x.planned, x.submitted)]
           after == Written(cache, Served(x))
<1>1. /\ x # Idle /\ Stretch(k, walk, Served(x), routed)
      /\ UNCHANGED <<stored, plan, withdrawn, restarts, lost>>
  BY DEF SubmitReturns
<1>2. /\ ContentFits(home, issued, servedBy, cache) /\ TicksFit(home) /\ Known
  BY DEF Placed, Rest
<1>3. Walking(home, issued, servedBy, cache, withdrawn, x)
  BY <1>1, <1>2 DEF TicksFit
<1>4. /\ x \in Walks /\ x.program \in Programs /\ x.workstream \in Workstreams
      /\ x.local \in Seq(Tasks) /\ x.left \in Seq(Tasks) /\ x.todo \in Seq(Workstreams)
      /\ x.planned \in Tasks /\ x.submitted \in Tasks /\ Owned(cache, x.workstream, x.program)
      /\ \A n \in 1..Len(x.todo) : Owned(cache, x.todo[n], x.program)
      /\ AllOf(home, issued, x.local, x.workstream) /\ AllOf(home, issued, x.left, x.workstream)
      /\ x.planned <= issued /\ home[x.planned] = x.workstream /\ servedBy[x.planned] = None
      /\ x.submitted <= issued /\ home[x.submitted] = x.workstream
      /\ servedBy[x.submitted] = x.planned /\ cache["tasks"][x.submitted] # None
  BY <1>3 DEF Walking, Walks
<1>5. /\ Served(x) \in Seq(Writes)
      /\ \A n \in 1..Len(Served(x)) : ServedWrite(home, Served(x)[n])
      /\ \A t \in Tasks :
            /\ after["tasks"][t] = IF t = x.planned THEN None ELSE cache["tasks"][t]
            /\ after["aliases"][t] = IF t = x.planned
                                     THEN [task |-> x.submitted, workstream |-> x.workstream]
                                     ELSE cache["aliases"][t]
      /\ \A w \in Workstreams, p \in Programs : Owned(cache, w, p) => Owned(after, w, p)
  BY <1>3, ServedFits
<1>6. /\ walk.program = x.program /\ walk.workstream = x.workstream /\ walk.left = x.left
      /\ walk.todo = x.todo /\ walk.local = Replace(x.local, x.planned, x.submitted)
  BY <1>4 DEF Walks
<1> HIDE DEF x, walk, after
<1>7. WalkFits(home, issued, after, walk)
  <2>1. /\ walk.local \in Seq(Tasks) /\ AllOf(home, issued, walk.local, walk.workstream)
    BY <1>4, <1>6, ReplacedFits
  <2>2. \A n \in 1..Len(walk.todo) : Owned(after, walk.todo[n], walk.program)
    BY <1>4, <1>5, <1>6
  <2>3. Owned(after, walk.workstream, walk.program)
    BY <1>4, <1>5, <1>6
  <2> QED
    BY <1>4, <1>6, <2>1, <2>2, <2>3 DEF WalkFits
<1>8. \A j \in Ticks : tick[j] # Idle /\ (j = k \/ tick[j].program = walk.program) =>
         j = k /\ tick[k].program = walk.program /\ after["tasks"][tick[k].planned] = None
  BY <1>1, <1>2, <1>4, <1>5, <1>6 DEF TicksFit, x
<1>9. ASSUME restarts = 0 PROVE KnownOf(after)
  <2> SUFFICES ASSUME NEW t \in Tasks, after["tasks"][t] # None, NEW d \in after["tasks"][t].deps
               PROVE  LET e == after["tasks"][Resolved(after, d)]
                      IN e # None /\ e.workstream = after["tasks"][t].workstream
    BY DEF KnownOf, KnownIn
  <2>1. t # x.planned /\ after["tasks"][t] = cache["tasks"][t]
    BY <1>5
  <2>2. d \in Tasks
    BY <2>1, <1>2, TaskDoc DEF TaskRecords
  <2> DEFINE e == Resolved(cache, d)
  <2>3. /\ e \in Tasks /\ cache["tasks"][e] # None
        /\ cache["tasks"][e].workstream = cache["tasks"][t].workstream
    BY <1>2, <1>9, <2>1, <2>2, ResolvesTo DEF Known, KnownIn
  <2>4. home[e] = cache["tasks"][t].workstream
    BY <1>2, <2>3, TaskDoc
  <2>5. cache["aliases"][d] # None => e = cache["aliases"][d].task /\ servedBy[e] = d /\ home[d] = home[e]
    <3>1. "aliases" \in Collections /\ d \in Docs["aliases"]
      BY <2>2, DocsAre DEF Collections
    <3>2. Fits(home, issued, servedBy, "aliases", d, cache["aliases"][d])
      BY <1>2, <3>1 DEF ContentFits
    <3> QED
      BY <3>2 DEF Fits, Resolved
  <2>6. cache["aliases"][d] = None => e = d
    BY DEF Resolved
  <2> HIDE DEF e
  <2>7. CASE d = x.planned
    <3>1. Resolved(after, d) = x.submitted
      <4>1. after["aliases"][d] = [task |-> x.submitted, workstream |-> x.workstream]
        BY <1>4, <1>5, <2>7
      <4>2. after["aliases"][d] \in AliasRecords
        BY <1>4, <4>1 DEF AliasRecords
      <4>3. after["aliases"][d] # None
        BY <4>2, NoneAssumption
      <4> QED
        BY <4>1, <4>3 DEF Resolved
    <3>2. x.workstream = cache["tasks"][t].workstream
      BY <2>4, <2>5, <2>6, <2>7, <1>4
    <3>3. x.submitted # x.planned
      BY <1>4, TaskIsNat
    <3>4. after["tasks"][x.submitted] = cache["tasks"][x.submitted]
      BY <1>4, <1>5, <3>3
    <3>5. cache["tasks"][x.submitted].workstream = x.workstream
      BY <1>2, <1>4, TaskDoc
    <3> QED
      BY <1>4, <2>1, <3>1, <3>2, <3>4, <3>5
  <2>8. CASE d # x.planned
    <3>1. Resolved(after, d) = e
      BY <1>5, <2>2, <2>8 DEF Resolved, e
    <3>2. e # x.planned
      BY <2>2, <2>5, <2>6, <2>8, <1>4, TaskIsNat
    <3>3. after["tasks"][e] = cache["tasks"][e]
      BY <1>5, <2>3, <3>2
    <3> QED
      BY <2>1, <2>3, <3>1, <3>3
  <2> QED
    BY <2>7, <2>8
<1>10. StretchFits(home, k, walk, Served(x))
  BY <1>5, <1>7, <1>8, <1>9 DEF StretchFits, after
<1> QED
  BY <1>1, <1>10, StretchKeeps

-------------------------------------------------------------------------------
(* The theorems.                                                           *)

\* The invariant holds of an empty factory.
LEMMA InitHolds == ASSUME Init PROVE IInv
<1> DEFINE home == [t \in Tasks |-> None]
<1>1. home \in Homes
  BY DEF Homes
<1>2. /\ cache = Empty /\ stored = Empty /\ queue = [c \in Collections |-> << >>]
      /\ tick = [k \in Ticks |-> Idle] /\ plan = [p \in Programs |-> "none"] /\ issued = 0
      /\ servedBy = [t \in Tasks |-> None] /\ withdrawn = {} /\ restarts = 0 /\ lost = 0
  BY DEF Init
<1>3. /\ \A c \in Collections : \A d \in Docs[c] : cache[c][d] = None /\ stored[c][d] = None
      /\ cache = [c \in Collections |-> [d \in Docs[c] |-> cache[c][d]]]
      /\ stored = [c \in Collections |-> [d \in Docs[c] |-> stored[c][d]]]
  BY <1>2 DEF Empty
<1>4. /\ ContentFits(home, issued, servedBy, cache) /\ ContentFits(home, issued, servedBy, stored)
  BY <1>3 DEF ContentFits, Fits
<1>5. /\ \A p \in Programs : cache["programs"][p] = None
      /\ \A t \in Tasks : cache["tasks"][t] = None /\ stored["tasks"][t] = None
  BY <1>3, DocsAre DEF Collections
<1>6. QueueFits(home, issued, servedBy, queue)
  BY <1>2 DEF QueueFits
<1>7. TicksFit(home)
  BY <1>2 DEF TicksFit
<1>8. Counters
  BY <1>2, FactoryAssumption DEF Counters
<1>9. Trees
  BY <1>2, <1>5, FactoryAssumption DEF Trees
<1>10. Once
  <2>1. ASSUME NEW t \in Tasks PROVE Cardinality(Serving(t)) = 0
    <3>1. Serving(t) = {}
      BY <1>2, TaskIsNat DEF Serving
    <3> QED
      BY <3>1, FS_EmptySet
  <2>2. ASSUME NEW t \in Tasks
        PROVE  /\ Cardinality(Serving(t)) <= 1 + restarts
               /\ Open(t) /\ ~UnderWay(t) => Cardinality(Serving(t)) <= restarts
    BY <1>2, <2>1
  <2> QED
    BY <2>2 DEF Once
<1>11. Lossless
  <2>1. \A c \in Collections : Synced(c, cache, stored, queue)
    BY <1>2, <1>3 DEF Synced
  <2>2. queue["tasks"] = << >>
    BY <1>2 DEF Collections
  <2>3. Final(stored["tasks"], queue["tasks"])
    BY <2>2 DEF Final
  <2>4. InOrder(stored["tasks"], queue["tasks"], servedBy)
    BY <1>5, <2>2 DEF InOrder
  <2> QED
    BY <2>1, <2>3, <2>4 DEF Lossless
<1>12. Known
  BY <1>5 DEF Known
<1> QED
  BY <1>1, <1>4, <1>6, <1>7, <1>8, <1>9, <1>10, <1>11, <1>12 DEF IInv, Rest, Placed

\* Every step keeps it.
LEMMA StepKeeps == ASSUME IInv, [Next]_vars PROVE IInv'
<1>1. Rest
  BY DEF IInv
<1>2. PICK home \in Homes : Placed(home)
  BY DEF IInv
<1>3. CASE UNCHANGED vars
  <2>1. UNCHANGED <<cache, stored, queue, tick, plan, issued, servedBy, withdrawn, restarts, lost>>
    BY <1>3 DEF vars
  <2>2. Placed(home)'
    BY <1>2, <2>1 DEF Placed, TicksFit
  <2>3. Counters' /\ Trees' /\ Lossless' /\ Known'
    BY <1>1, <2>1 DEF Rest, Counters, Trees, Lossless, Known
  <2>4. Once'
    BY <1>1, <2>1, OnceSame DEF Rest
  <2> QED
    BY <2>2, <2>3, <2>4 DEF IInv, Rest
<1>4. ASSUME NEW p \in Programs, createProgram(p) PROVE IInv'
  BY <1>1, <1>2, <1>4, CreateProgramKeeps
<1>5. ASSUME NEW p \in Programs, NEW w \in Workstreams, createWorkstream(p, w) PROVE IInv'
  BY <1>1, <1>2, <1>5, CreateWorkstreamKeeps
<1>6. ASSUME NEW p \in Programs, NEW w \in Workstreams, PlanStarts(p, w) PROVE IInv'
  BY <1>1, <1>2, <1>6, PlanStartsKeeps
<1>7. ASSUME NEW p \in Programs, PlanFails(p) PROVE IInv'
  BY <1>1, <1>2, <1>7, PlanFailsKeeps
<1>8. ASSUME NEW p \in Programs, NEW n \in 0..MaxPlan, NEW refused \in BOOLEAN,
             PlanAnswered(p, n, refused)
      PROVE  IInv'
  BY <1>1, <1>2, <1>8, PlanAnsweredKeeps
<1>9. ASSUME NEW p \in Programs, NEW k \in Ticks, NEW routed \in SUBSET Created,
             tickProgram(k, p, routed)
      PROVE  IInv'
  BY <1>1, <1>2, <1>9, TickProgramKeeps
<1>10. ASSUME NEW w \in Workstreams, NEW deps \in SUBSET Tasks, addTask(w, deps) PROVE IInv'
  BY <1>1, <1>2, <1>10, AddTaskKeeps
<1>11. ASSUME NEW t \in Tasks, NEW to \in {"completed", "failed", "waiting"}, Settles(t, to)
       PROVE  IInv'
  BY <1>1, <1>2, <1>11, SettlesKeeps
<1>12. ASSUME NEW t \in Tasks, CancelTask(t) PROVE IInv'
  BY <1>1, <1>2, <1>12, CancelTaskKeeps
<1>13. ASSUME NEW k \in Ticks, SubmitRejected(k) PROVE IInv'
  BY <1>1, <1>2, <1>13, SubmitRejectedKeeps
<1>14. ASSUME NEW k \in Ticks, NEW routed \in SUBSET Created, SubmitReturns(k, routed) PROVE IInv'
  BY <1>1, <1>2, <1>14, SubmitReturnsKeeps
<1>15. ASSUME NEW c \in Collections, WriteLands(c) PROVE IInv'
  BY <1>1, <1>2, <1>15, WriteLandsKeeps
<1>16. ASSUME NEW c \in Collections, WriteFails(c) PROVE IInv'
  BY <1>1, <1>2, <1>16, WriteFailsKeeps
<1>17. CASE Restart
  BY <1>1, <1>2, <1>17, RestartKeeps
<1> QED
  BY <1>3, <1>4, <1>5, <1>6, <1>7, <1>8, <1>9, <1>10, <1>11, <1>12, <1>13, <1>14, <1>15, <1>16,
     <1>17 DEF Next

\* The invariant holds in every state, for any programs, workstreams, ticks and
\* bounds.
THEOREM Inductive == Spec => []IInv
<1>1. Init => IInv
  BY InitHolds
<1>2. IInv /\ [Next]_vars => IInv'
  BY StepKeeps
<1> QED
  BY <1>1, <1>2, PTL DEF Spec

\* The documents in memory, in the store and in the queues are well formed, and a
\* tick waits for ids that createId gave.
THEOREM TypeCorrect == Spec => []TypeOK
<1>1. IInv => TypeOK
  <2> SUFFICES ASSUME IInv PROVE TypeOK
    OBVIOUS
  <2>1. PICK home \in Homes : Placed(home)
    BY DEF IInv
  <2>2. Counters
    BY DEF IInv, Rest
  <2>3. ASSUME NEW content, ContentFits(home, issued, servedBy, content) PROVE Content(content)
    <3>1. DOMAIN content = Collections
      BY <2>3 DEF ContentFits
    <3>2. \A p \in Programs : content["programs"][p] # None => content["programs"][p] \in Seq(Workstreams)
      <4>1. "programs" \in Collections /\ Docs["programs"] = Programs
        BY DocsAre DEF Collections
      <4> QED
        BY <2>3, <4>1 DEF ContentFits, Fits
    <3>3. \A w \in Workstreams : content["workstreams"][w] \in WorkstreamRecords \cup {None}
      BY <2>3, StreamDoc
    <3>4. \A t \in Tasks : content["tasks"][t] \in TaskRecords \cup {None}
      BY <2>3, TaskDoc
    <3>5. \A t \in Tasks : content["aliases"][t] \in AliasRecords \cup {None}
      <4>1. "aliases" \in Collections /\ Docs["aliases"] = Tasks
        BY DocsAre DEF Collections
      <4> QED
        BY <2>3, <4>1 DEF ContentFits, Fits
    <3> QED
      BY <3>1, <3>2, <3>3, <3>4, <3>5 DEF Content
  <2>4. Content(cache) /\ Content(stored)
    BY <2>1, <2>3 DEF Placed
  <2>5. \A c \in Collections : \A n \in 1..Len(queue[c]) :
           queue[c][n].in = c /\ queue[c][n].doc \in Docs[c]
    BY <2>1 DEF Placed, QueueFits, WriteFits
  <2>6. \A k \in Ticks : tick[k] = Idle \/ {tick[k].planned, tick[k].submitted} \subseteq 1..issued
    <3>1. \A t \in Tasks : t <= issued => t \in 1..issued
      BY <2>2, TaskIsNat DEF Counters
    <3> QED
      BY <2>1, <3>1 DEF Placed, TicksFit, Walking, Walks
  <2> QED
    BY <2>2, <2>4, <2>5, <2>6 DEF TypeOK, Counters
<1> QED
  BY <1>1, Inductive, PTL

\* "for each task whose dependencies are all `completed`": while no write is
\* lost, no submitted task is ever seen, before or after any restart, with a
\* dependency that is not completed.
THEOREM WorkWaitsForItsDependencies == Spec => []DependenciesFirst
<1>1. IInv => DependenciesFirst
  <2> SUFFICES ASSUME IInv, lost = 0, NEW t \in Tasks, cache["tasks"][t] # None, servedBy[t] # None,
                      NEW d \in cache["tasks"][t].deps
               PROVE  Completed(cache["tasks"][d])
    BY DEF DependenciesFirst, Completed
  <2>1. PICK home \in Homes : Placed(home)
    BY DEF IInv
  <2>2. /\ Synced("tasks", cache, stored, queue) /\ Final(stored["tasks"], queue["tasks"])
        /\ InOrder(stored["tasks"], queue["tasks"], servedBy)
    BY DEF IInv, Rest, Lossless, Collections
  <2>3. queue["tasks"] \in Seq(Writes)
    BY <2>1 DEF Placed, QueueFits, Collections
  <2>4. d \in Tasks
    BY <2>1, TaskDoc DEF Placed, TaskRecords
  <2> QED
    BY <2>2, <2>3, <2>4, CacheInOrder
<1> QED
  BY <1>1, Inductive, PTL

\* Ticks of one program never overlap, so that each instance submits a planned
\* task once, cancelled submissions aside.
THEOREM OnlyOneSubmission == Spec => []SubmittedOnce
<1>1. IInv => SubmittedOnce
  BY DEF IInv, Rest, Once, Serving, SubmittedOnce
<1> QED
  BY <1>1, Inductive, PTL

\* "the planned id is retained as an execution alias so dependencies and the graph
\* stay stable": until the instance is replaced, every dependency resolves to a
\* task of the same workstream.
THEOREM AliasesKeepDependencies == Spec => []DependenciesStayKnown
<1>1. IInv => DependenciesStayKnown
  <2> SUFFICES ASSUME IInv, restarts = 0, NEW t \in Tasks, cache["tasks"][t] # None,
                      NEW d \in cache["tasks"][t].deps
               PROVE  LET e == cache["tasks"][resolveTaskId(cache, d)]
                      IN e # None /\ e.workstream = cache["tasks"][t].workstream
    BY DEF DependenciesStayKnown
  <2>1. PICK home \in Homes : Placed(home)
    BY DEF IInv
  <2>2. ContentFits(home, issued, servedBy, cache) /\ Known
    BY <2>1 DEF Placed, IInv, Rest
  <2>3. d \in Tasks
    BY <2>2, TaskDoc DEF TaskRecords
  <2>4. resolveTaskId(cache, d) = Resolved(cache, d)
    BY <2>2, <2>3, ResolvesTo
  <2> QED
    BY <2>2, <2>4 DEF Known, KnownIn
<1> QED
  BY <1>1, Inductive, PTL

\* "write through in order": with no write lost and the queues drained, the store
\* holds exactly what the cache does.
THEOREM DrainedIsStored == Spec => []DrainedIsDurable
<1>1. IInv => DrainedIsDurable
  <2> SUFFICES ASSUME IInv, Backlog = 0, lost = 0 PROVE stored = cache
    BY DEF DrainedIsDurable
  <2>1. PICK home \in Homes : Placed(home)
    BY DEF IInv
  <2>2. /\ cache = [c \in Collections |-> [d \in Docs[c] |-> cache[c][d]]]
        /\ stored = [c \in Collections |-> [d \in Docs[c] |-> stored[c][d]]]
        /\ queue \in [Collections -> Seq(Writes)]
    BY <2>1 DEF Placed, ContentFits, QueueFits
  <2>3. \A c \in Collections : Synced(c, cache, stored, queue)
    BY DEF IInv, Rest, Lossless
  <2>4. \A c \in Collections : Len(queue[c]) = 0
    <3>1. /\ Len(queue["programs"]) \in Nat /\ Len(queue["workstreams"]) \in Nat
          /\ Len(queue["aliases"]) \in Nat /\ Len(queue["tasks"]) \in Nat
      BY <2>2 DEF Collections
    <3>2. /\ Len(queue["programs"]) = 0 /\ Len(queue["workstreams"]) = 0
          /\ Len(queue["aliases"]) = 0 /\ Len(queue["tasks"]) = 0
      <4>1. ASSUME NEW i \in Nat, NEW j \in Nat, NEW m \in Nat, NEW n \in Nat, i + j + m + n = 0
            PROVE  i = 0 /\ j = 0 /\ m = 0 /\ n = 0
        BY <4>1
      <4>2. Len(queue["programs"]) + Len(queue["workstreams"]) + Len(queue["aliases"])
            + Len(queue["tasks"]) = 0
        BY DEF Backlog
      <4> QED
        BY <3>1, <4>1, <4>2
    <3> QED
      BY <3>2 DEF Collections
  <2>5. \A c \in Collections : \A d \in Docs[c] : cache[c][d] = stored[c][d]
    BY <2>3, <2>4 DEF Synced
  <2>6. \A c \in Collections : [d \in Docs[c] |-> cache[c][d]] = [d \in Docs[c] |-> stored[c][d]]
    BY <2>5
  <2> QED
    BY <2>2, <2>6
<1> QED
  BY <1>1, Inductive, PTL

===============================================================================
