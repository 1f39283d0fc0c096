----------------------------- MODULE AcidProofs -----------------------------
(***************************************************************************)
(* The inductive invariant of Acid and what follows from it, for every     *)
(* number of objects, fields, links, collectors and workers.  Each action  *)
(* changes the heap by a function of module Heap, so that Good is kept by  *)
(* the lemmas of HeapProofs; what is left is that the links, objects and   *)
(* tasks that threads and variables hold stay allocated.                   *)
(***************************************************************************)
EXTENDS Acid, HeapProofs

\* g is a good heap with all the memory of h.
Grows(h, g) ==
  Good(g) /\ Allocated(h) \subseteq Allocated(g) /\ Known(h) \subseteq Known(g)

\* Where only a worker that runs a collector can be.
CollectorPCs == PCs \ {"idle", "remove_links", "destroy_links", "delete"}

\* Where a worker has an object in hand.
ObjectPCs == {"phantomize_node", "phantomize_links", "phantomized",
              "recover_node", "await", "rebuild_links", "rebuild_link",
              "recovered", "clean_node", "remove_links", "destroy_links",
              "dec_phantom", "delete"}

\* What a worker holds is allocated, and it runs a task that fits where it
\* is.
ThreadOK(h, t) ==
  /\ t \in Thread
  /\ t.links \subseteq Allocated(h)
  /\ t.lk # NULL => t.lk \in Allocated(h)
  /\ t.obj # NULL => t.obj \in Known(h)
  /\ t.pc # "idle" => t.task \in KnownTask(h)
  /\ t.pc \in CollectorPCs => t.task.run = "collector_run"
  /\ t.pc \in ObjectPCs => t.obj # NULL
  /\ t.pc = "rebuild_link" /\ h.failed = "none" => t.lk # NULL

\* So it is for every worker.
ThreadsOK ==
  /\ thr \in [Workers -> Thread]
  /\ \A w \in Workers : ThreadOK(heap, thr[w])

\* The program's variables, and object_set's old_link, hold allocated memory.
MutatorOK ==
  /\ root \in [Objects -> Nat]
  /\ \A o \in Objects : root[o] > 0 => o \in Known(heap)
  /\ old # NULL => old \in Allocated(heap)

\* The inductive invariant.
IInv == Good(heap) /\ ThreadsOK /\ MutatorOK

-----------------------------------------------------------------------------
(* Steps that lose no memory *)

\* A call that keeps memory, and the pool, loses none.
LEMMA KeepsGrows ==
  ASSUME NEW h, NEW g, Keeps(h, g)
  PROVE  Grows(h, g)
BY DEF Keeps, SameUsed, Grows

\* Nor does one that may take a collector from the pool.
LEMMA UsesGrows ==
  ASSUME NEW h, NEW g, Good(g), SameUsed(h, g)
  PROVE  Grows(h, g)
BY DEF SameUsed, Grows

\* What a worker holds stays allocated whatever other threads do: no memory
\* is un-allocated.
LEMMA ThreadKept ==
  ASSUME NEW h, NEW g, NEW t, Grows(h, g), h.failed = "none", ThreadOK(h, t)
  PROVE  ThreadOK(g, t)
<1>1. KnownTask(h) \subseteq KnownTask(g)
  BY DEF Grows, KnownTask
<1> QED
  BY <1>1 DEF ThreadOK, Grows

\* A worker's step keeps the invariant if the heap grows and the worker
\* itself is left in order.
LEMMA WorkerStep ==
  ASSUME IInv, Running, NEW w \in Workers, NEW t,
         Grows(heap, heap'), ThreadOK(heap', t),
         thr' = [thr EXCEPT ![w] = t], UNCHANGED <<root, old>>
  PROVE  IInv'
<1>1. Good(heap')
  BY DEF Grows
<1>2. thr' \in [Workers -> Thread]
  BY DEF IInv, ThreadsOK, ThreadOK
<1>3. \A v \in Workers : ThreadOK(heap', thr'[v])
  BY ThreadKept DEF IInv, ThreadsOK, Running
<1>4. MutatorOK'
  BY DEF IInv, MutatorOK, Grows
<1> QED
  BY <1>1, <1>2, <1>3, <1>4 DEF IInv, ThreadsOK

\* A step of the program keeps the invariant if the heap grows and its
\* variables are left in order.
LEMMA MutatorStep ==
  ASSUME IInv, Running, Grows(heap, heap'), thr' = thr, MutatorOK'
  PROVE  IInv'
<1>1. Good(heap')
  BY DEF Grows
<1>2. \A v \in Workers : ThreadOK(heap', thr'[v])
  BY ThreadKept DEF IInv, ThreadsOK, Running
<1> QED
  BY <1>1, <1>2 DEF IInv, ThreadsOK

\* The program reaches allocated objects only: its variables hold some, and
\* links lead from allocated ones to allocated ones.
LEMMA Reach ==
  ASSUME IInv
  PROVE  Accessible \subseteq Known(heap)
<1>1. {r \in Objects : root[r] > 0} \subseteq Known(heap)
  BY DEF IInv, MutatorOK
<1>2. LinkClosed(Known(heap))
  <2> SUFFICES ASSUME NEW o \in Known(heap), NEW l \in LinksOf(heap, o)
               PROVE  heap.link[l].target \in Known(heap)
    BY DEF LinkClosed
  <2>1. l \in Allocated(heap)
    BY DEF LinksOf, Known, IInv, Good, UsedOK, TablesOK
  <2> QED
    BY <2>1 DEF IInv, Good, UsedOK, LinksOK
<1>3. Known(heap) \in SUBSET Objects
  BY DEF Known
<1> QED
  BY <1>1, <1>2, <1>3 DEF Accessible

\* The invariant holds when acid_start returns.
LEMMA InitIInv == Init => IInv
<1> SUFFICES ASSUME Init PROVE IInv
  OBVIOUS
<1>1. heap = EmptyHeap
  BY DEF Init
<1>2. NoObject \in Object /\ NoLink \in Link
  BY DEF NoObject, Object, NoLink, Link, Memory, Bits
<1>3. /\ NoCollector \in Collector
      /\ NoCollector.lists \in [ListNames -> Seq(Known(heap))]
      /\ ~NoCollector.live /\ NoCollector.ref_count = 0
      /\ NoCollector.forward = NULL
  <2> DEFINE ls == [l \in ListNames |-> <<>>]
  <2>1. /\ ls \in [ListNames -> Seq(Objects)]
        /\ ls \in [ListNames -> Seq(Known(heap))]
    BY EmptySeq
  <2>2. NoCollector
          = [live |-> FALSE, ref_count |-> 0, forward |-> NULL, lists |-> ls]
    BY DEF NoCollector
  <2> HIDE DEF ls
  <2> QED
    BY <2>1, <2>2 DEF Collector
<1>4. /\ heap.obj = [o \in Objects |-> NoObject]
      /\ heap.link = [l \in Links |-> NoLink]
      /\ heap.coll = [c \in Collectors |-> NoCollector]
      /\ heap.work = <<>> /\ heap.failed = "none"
      /\ heap \in HeapType
  <2>1. heap = [obj |-> [o \in Objects |-> NoObject],
                link |-> [l \in Links |-> NoLink],
                coll |-> [c \in Collectors |-> NoCollector],
                work |-> <<>>, failed |-> "none"]
    BY <1>1 DEF EmptyHeap
  <2>2. <<>> \in Seq(Task) /\ "none" \in Failures
    BY EmptySeq DEF Failures
  <2> QED
    BY <1>2, <1>3, <2>1, <2>2 DEF HeapType
<1>5. Allocated(heap) = {} /\ Known(heap) = {}
  BY <1>4 DEF Allocated, Known, NoObject, NoLink
<1>6. UsedOK(heap)
  <2>1. \A o \in Objects : /\ heap.obj[o].collector = NULL
                           /\ \A f \in Fields : heap.obj[o].links[f] = NULL
    BY <1>4 DEF NoObject
  <2>2. LinksOK(heap) /\ TablesOK(heap) /\ MembersOK(heap)
    BY <1>5, <2>1 DEF LinksOK, TablesOK, MembersOK
  <2>3. ListsOK(heap)
    BY <1>3, <1>4 DEF ListsOK
  <2>4. WorkOK(heap)
    BY <1>4, EmptySeq DEF WorkOK
  <2> QED
    BY <2>2, <2>3, <2>4 DEF UsedOK
<1>7. CollectorsOK(heap)
  <2>1. \A c \in Collectors : Members(heap, c) = {} /\ Merged(heap, c) = {}
    BY <1>3, <1>4, HeapAssumption DEF Members, Merged, NoObject
  <2>2. RefExact(heap)
    <3>1. \A c \in Collectors : heap.coll[c].ref_count = 0
      BY <1>3, <1>4
    <3>2. Cardinality({}) = 0
      BY FS_EmptySet
    <3> QED
      BY <2>1, <3>1, <3>2 DEF RefExact
  <2>3. Acyclic(heap)
    BY <1>3, <1>4, HeapAssumption DEF Acyclic
  <2>4. DeadUnused(heap)
    BY <1>3, <1>4 DEF DeadUnused
  <2> QED
    BY <2>2, <2>3, <2>4 DEF CollectorsOK
<1>8. ThreadsOK
  <2>1. IdleThread \in Thread
    BY DEF IdleThread, Thread, PCs, ListNames
  <2>2. ThreadOK(heap, IdleThread)
    BY <2>1 DEF ThreadOK, IdleThread, CollectorPCs, ObjectPCs
  <2> QED
    BY <2>1, <2>2 DEF Init, ThreadsOK
<1>9. MutatorOK
  BY DEF Init, MutatorOK
<1> QED
  BY <1>4, <1>6, <1>7, <1>8, <1>9 DEF IInv, Good

-----------------------------------------------------------------------------
(* The program *)

\* acid_malloc keeps the invariant (acid.c:26-34).
LEMMA MallocStep ==
  ASSUME IInv, Running, NEW o \in Objects, acid_malloc(o)
  PROVE  IInv'
<1>1. /\ Good(heap') /\ Allocated(heap') = Allocated(heap)
      /\ Known(heap') = Known(heap) \cup {o}
  BY InitStrongGood DEF acid_malloc, IInv
<1>2. Grows(heap, heap')
  BY <1>1 DEF Grows
<1>3. MutatorOK'
  BY <1>1 DEF acid_malloc, IInv, MutatorOK
<1>4. thr' = thr
  BY DEF acid_malloc
<1> QED
  BY <1>2, <1>3, <1>4, MutatorStep

\* acid_harden keeps the invariant (acid.c:42-47).
LEMMA HardenStep ==
  ASSUME IInv, Running, NEW o \in Objects, acid_harden(o)
  PROVE  IInv'
<1>1. Good(heap) /\ o \in Known(heap)
  BY Reach DEF IInv, acid_harden
<1>2. Grows(heap, heap')
  BY <1>1, IncStrongGood, KeepsGrows DEF acid_harden
<1>3. MutatorOK'
  BY <1>1, <1>2 DEF acid_harden, IInv, MutatorOK, Grows
<1>4. thr' = thr
  BY DEF acid_harden
<1> QED
  BY <1>2, <1>3, <1>4, MutatorStep

\* acid_dissolve keeps the invariant, whichever collector object_dec starts
\* (acid.c:49-54).
LEMMA DissolveStep ==
  ASSUME IInv, Running, NEW o \in Objects, acid_dissolve(o)
  PROVE  IInv'
<1>1. Good(heap) /\ o \in Known(heap) /\ CanCreate(heap)
  BY DEF IInv, MutatorOK, acid_dissolve
<1>2. heap.obj[o].which \in 0..2
  BY <1>1, CountsInt
<1>3. Grows(heap, heap')
  BY <1>1, <1>2, ObjectDecGood, UsesGrows DEF acid_dissolve
<1>4. root' \in [Objects -> Nat] /\ \A p \in Objects : root'[p] > 0 => root[p] > 0
  BY DEF acid_dissolve, IInv, MutatorOK
<1>5. MutatorOK'
  BY <1>3, <1>4 DEF acid_dissolve, IInv, MutatorOK, Grows
<1>6. thr' = thr
  BY DEF acid_dissolve
<1> QED
  BY <1>3, <1>5, <1>6, MutatorStep

\* acid_set keeps the invariant: the value gains a count before the
\* variable's old object loses one (acid.c:60-77).
LEMMA SetStep ==
  ASSUME IInv, Running, NEW from \in Objects \cup {NULL}, NEW val \in Objects,
         acid_set(from, val)
  PROVE  IInv'
<1> DEFINE h1 == object_inc_strong(heap, val)
           w  == h1.obj[from].which
           g  == object_dec(h1, from, w)
<1>1. Good(heap) /\ val \in Known(heap) /\ CanCreate(heap)
  BY Reach DEF IInv, acid_set
<1>2. heap' \in {h1, g} /\ (from = NULL => heap' = h1)
  BY DEF acid_set
<1>3. Keeps(heap, h1)
  BY <1>1, IncStrongGood
<1> HIDE DEF h1
<1>4. ASSUME from # NULL
      PROVE  Good(g) /\ SameUsed(h1, g)
  <2>1. root[from] > 0 /\ from \in Objects
    BY <1>4 DEF acid_set
  <2>2. Good(h1) /\ from \in Known(h1) /\ CanCreate(h1)
    BY <1>1, <1>3, <2>1 DEF Keeps, SameUsed, CanCreate, IInv, MutatorOK
  <2>3. w \in 0..2
    BY <2>1, <2>2, CountsInt
  <2> HIDE DEF w
  <2> QED
    BY <2>2, <2>3, ObjectDecGood
<1> HIDE DEF g
<1>5. Good(heap') /\ SameUsed(heap, heap')
  BY <1>2, <1>3, <1>4 DEF Keeps, SameUsed
<1>6. root' \in [Objects -> Nat]
      /\ \A p \in Objects : root'[p] > 0 => p \in Known(heap)
  <2> SUFFICES ASSUME NEW p \in Objects
               PROVE  root'[p] \in Nat /\ (root'[p] > 0 => p \in Known(heap))
    BY DEF acid_set
  <2> DEFINE i == IF p = val THEN 1 ELSE 0
             j == IF p = from THEN 1 ELSE 0
  <2>1. root'[p] = root[p] + i - j
    BY DEF acid_set
  <2>2. root[p] \in Nat /\ i \in {0, 1} /\ j \in {0, 1}
    BY DEF IInv, MutatorOK
  <2>3. j = 1 => root[p] > 0
    BY HeapAssumption DEF acid_set
  <2>4. i = 1 => p \in Known(heap)
    BY <1>1
  <2>5. root[p] > 0 => p \in Known(heap)
    BY DEF IInv, MutatorOK
  <2> HIDE DEF i, j
  <2> QED
    BY <2>1, <2>2, <2>3, <2>4, <2>5
<1>7. MutatorOK'
  BY <1>5, <1>6 DEF acid_set, IInv, MutatorOK, SameUsed
<1>8. thr' = thr
  BY DEF acid_set
<1> QED
  BY <1>5, <1>7, <1>8, UsesGrows, MutatorStep

\* Clearing a field keeps the invariant; its link goes to old_link
\* (object.c:429-437).
LEMMA SetNullStep ==
  ASSUME IInv, Running, NEW o \in Objects, NEW f \in Fields,
         object_set_null(o, f)
  PROVE  IInv'
<1> DEFINE tb == [heap.obj[o].links EXCEPT ![f] = NULL]
<1>1. Good(heap)
  BY DEF IInv
<1>2. /\ heap.obj[o].links \in [Fields -> Allocated(heap) \cup {NULL}]
      /\ heap.obj[o].links[f] \in Allocated(heap)
  <2>1. heap.obj[o] \in Object
    BY <1>1 DEF Good, HeapType
  <2> QED
    BY <1>1, <2>1 DEF object_set_null, Good, UsedOK, TablesOK, Object
<1>3. tb \in [Fields -> Allocated(heap) \cup {NULL}]
  BY <1>2
<1>4. heap' = [heap EXCEPT !.obj[o].links = tb]
  BY DEF object_set_null
<1> HIDE DEF tb
<1>5. Grows(heap, heap')
  BY <1>1, <1>3, <1>4, TableGood, KeepsGrows
<1>6. MutatorOK'
  BY <1>2, <1>5 DEF object_set_null, IInv, MutatorOK, Grows
<1>7. thr' = thr
  BY DEF object_set_null
<1> QED
  BY <1>5, <1>6, <1>7, MutatorStep

\* Setting a field keeps the invariant; the link it replaces goes to old_link
\* (object.c:420-470).
LEMMA SetFieldStep ==
  ASSUME IInv, Running, NEW o \in Objects, NEW f \in Fields, NEW t \in Objects,
         object_set(o, f, t)
  PROVE  IInv'
<1> DEFINE l == CHOOSE k \in FreeLinks : TRUE
<1>1. /\ Good(heap) /\ o \in Known(heap) /\ t \in Known(heap)
  BY Reach DEF IInv, object_set
<1>2. l \in Links
  BY DEF object_set, FreeLinks
<1>3. heap' = object_set_link(heap, o, f, t, l)
  BY DEF object_set
<1> HIDE DEF l
<1>4. Grows(heap, heap')
  BY <1>1, <1>2, <1>3, SetLinkGood DEF Grows
<1>5. old' # NULL => old' \in Allocated(heap)
  BY <1>1 DEF object_set, Good, UsedOK, TablesOK
<1>6. MutatorOK'
  BY <1>4, <1>5 DEF object_set, IInv, MutatorOK, Grows
<1>7. thr' = thr
  BY DEF object_set
<1> QED
  BY <1>4, <1>6, <1>7, MutatorStep

\* Dropping old_link after the locks are released keeps the invariant
\* (object.c:469-474).
LEMMA CleanupStep ==
  ASSUME IInv, Running, object_set_cleanup
  PROVE  IInv'
<1>1. Good(heap) /\ old \in Allocated(heap) /\ CanCreate(heap)
  BY DEF IInv, MutatorOK, object_set_cleanup
<1>2. Grows(heap, heap')
  BY <1>1, LinkDecGood, UsesGrows DEF object_set_cleanup
<1>3. MutatorOK'
  BY <1>2 DEF object_set_cleanup, IInv, MutatorOK, Grows
<1>4. thr' = thr
  BY DEF object_set_cleanup
<1> QED
  BY <1>2, <1>3, <1>4, MutatorStep

-----------------------------------------------------------------------------
(* The workers *)

\* What the invariant says of one worker.
LEMMA WorkerFacts ==
  ASSUME IInv, Running, NEW w \in Workers
  PROVE  /\ Good(heap) /\ heap.failed = "none"
         /\ ThreadOK(heap, thr[w]) /\ thr[w] \in Thread
         /\ thr[w].pc \in CollectorPCs =>
              /\ thr[w].task.run = "collector_run"
              /\ Mine(w) \in Collectors
         /\ thr[w].pc \in ObjectPCs =>
              thr[w].obj \in Known(heap) /\ thr[w].obj \in Objects
<1>1. ThreadOK(heap, thr[w]) /\ Good(heap) /\ heap.failed = "none"
  BY DEF IInv, ThreadsOK, Running
<1>2. thr[w] \in Thread
  BY <1>1 DEF ThreadOK
<1>3. ASSUME thr[w].pc \in CollectorPCs
      PROVE  thr[w].task.run = "collector_run" /\ Mine(w) \in Collectors
  <2>1. thr[w].task \in KnownTask(heap) /\ thr[w].task.run = "collector_run"
    BY <1>1, <1>3 DEF ThreadOK, CollectorPCs
  <2> QED
    BY <2>1 DEF KnownTask, Mine
<1>4. ASSUME thr[w].pc \in ObjectPCs
      PROVE  thr[w].obj \in Known(heap) /\ thr[w].obj \in Objects
  BY <1>1, <1>4 DEF ThreadOK, Known
<1> QED
  BY <1>1, <1>2, <1>3, <1>4

\* A worker moves on within its task: what it still holds is allocated.
LEMMA ThreadMove ==
  ASSUME NEW h, NEW g, NEW t, NEW r \in Thread,
         Grows(h, g), h.failed = "none", ThreadOK(h, t),
         t.pc # "idle", r.task = t.task,
         r.links \subseteq Allocated(g),
         r.lk \in {t.lk, NULL} \cup Allocated(g),
         r.obj \in {t.obj, NULL} \cup Known(g),
         r.pc \in CollectorPCs => t.task.run = "collector_run",
         r.pc \in ObjectPCs => r.obj # NULL,
         r.pc = "rebuild_link" /\ g.failed = "none" => r.lk # NULL
  PROVE  ThreadOK(g, r)
<1>1. ThreadOK(g, t)
  BY ThreadKept
<1> QED
  BY <1>1 DEF ThreadOK

\* An idle worker holds nothing.
LEMMA IdleOK ==
  ASSUME NEW h
  PROVE  IdleThread \in Thread /\ ThreadOK(h, IdleThread)
<1>1. IdleThread \in Thread
  BY DEF IdleThread, Thread, PCs, ListNames
<1> QED
  BY <1>1 DEF ThreadOK, IdleThread, CollectorPCs, ObjectPCs

\* A task that is not done goes back to the queue (task.c:57-62).
LEMMA RequeueStep ==
  ASSUME IInv, Running, NEW w \in Workers, NEW h, Grows(heap, h),
         thr[w].pc # "idle", Requeue(w, h)
  PROVE  IInv'
<1> DEFINE q == Append(h.work, thr[w].task)
           g == [h EXCEPT !.work = q]
<1>1. thr[w].task \in KnownTask(heap)
  BY WorkerFacts DEF ThreadOK
<1>2. Good(h) /\ thr[w].task \in KnownTask(h)
  BY <1>1 DEF Grows, KnownTask
<1>3. q \in Seq(KnownTask(h))
  BY <1>2 DEF Good, UsedOK, WorkOK
<1> HIDE DEF q
<1>4. Good(g) /\ SameUsed(h, g)
  BY <1>2, <1>3, WorkUpdate
<1>5. heap' = g
  BY DEF Requeue, Become, q
<1> HIDE DEF g
<1>6. Grows(heap, heap')
  BY <1>4, <1>5 DEF Grows, SameUsed
<1>7. thr' = [thr EXCEPT ![w] = IdleThread] /\ UNCHANGED <<root, old>>
  BY DEF Requeue, Become
<1> QED
  BY <1>6, <1>7, IdleOK, WorkerStep

\* A worker whose task is done holds nothing (task.c:57-71).
LEMMA DoneStep ==
  ASSUME IInv, Running, NEW w \in Workers, NEW h, Grows(heap, h), Done(w, h)
  PROVE  IInv'
<1>1. /\ heap' = h /\ UNCHANGED <<root, old>>
      /\ thr' = [thr EXCEPT ![w] = IdleThread]
  BY DEF Done, Become
<1> QED
  BY <1>1, IdleOK, WorkerStep

\* The end of an iteration of collector_run's loops lets go of the node
\* (collector.c:99-124).
LEMMA NextObjectStep ==
  ASSUME IInv, Running, NEW w \in Workers, NEW h, Grows(heap, h),
         thr[w].pc \in CollectorPCs, NextObject(w, h)
  PROVE  IInv'
<1> DEFINE t == thr[w]
           r == [t EXCEPT !.pc = t.list, !.obj = NULL, !.lk = NULL]
<1>1. /\ ThreadOK(heap, t) /\ t \in Thread /\ t.task.run = "collector_run"
      /\ heap.failed = "none"
  BY WorkerFacts
<1>2. t.list \in {"collect", "recovery_list", "rebuild_list", "clean_list"}
  BY <1>1 DEF Thread, ListNames
<1>3. /\ r \in Thread /\ r.task = t.task /\ r.links = t.links
      /\ r.pc = t.list /\ r.obj = NULL /\ r.lk = NULL
  BY <1>1, <1>2 DEF Thread, PCs
<1>4. heap' = h /\ thr' = [thr EXCEPT ![w] = r] /\ UNCHANGED <<root, old>>
  BY DEF NextObject, Become
<1> HIDE DEF r
<1>5. ThreadOK(heap', r)
  <2>1. r.links \subseteq Allocated(heap')
    BY <1>1, <1>3, <1>4 DEF ThreadOK, Grows
  <2>2. r.pc \notin ObjectPCs /\ r.pc # "rebuild_link" /\ t.pc # "idle"
    BY <1>2, <1>3 DEF ObjectPCs, CollectorPCs
  <2> QED
    BY <1>1, <1>3, <1>4, <2>1, <2>2, ThreadMove
<1> QED
  BY <1>4, <1>5, WorkerStep

\* A worker goes to another place with all that it holds.
LEMMA GotoStep ==
  ASSUME IInv, Running, NEW w \in Workers, Grows(heap, heap'),
         NEW pc \in PCs, pc # "rebuild_link", thr[w].pc # "idle",
         pc \in CollectorPCs => thr[w].task.run = "collector_run",
         pc \in ObjectPCs => thr[w].obj # NULL,
         Goto(w, pc), UNCHANGED <<root, old>>
  PROVE  IInv'
<1> DEFINE t == thr[w]
           r == [t EXCEPT !.pc = pc]
<1>1. ThreadOK(heap, t) /\ t \in Thread /\ heap.failed = "none"
  BY WorkerFacts
<1>2. /\ r \in Thread /\ r.task = t.task /\ r.links = t.links
      /\ r.pc = pc /\ r.obj = t.obj /\ r.lk = t.lk
  BY <1>1 DEF Thread
<1>3. thr' = [thr EXCEPT ![w] = r]
  BY DEF Goto
<1> HIDE DEF r
<1>4. r.links \subseteq Allocated(heap')
  BY <1>1, <1>2 DEF ThreadOK, Grows
<1>5. ThreadOK(heap', r)
  BY <1>1, <1>2, <1>4, ThreadMove
<1> QED
  BY <1>3, <1>5, WorkerStep

\* A step that leaves the heap alone loses nothing.
LEMMA SelfGrows ==
  ASSUME IInv, heap' = heap
  PROVE  Grows(heap, heap')
BY DEF IInv, Grows

\* worker_get_next_task hands a task over from the queue to the worker
\* (worker.c:53-78).
LEMMA TaskStep ==
  ASSUME IInv, Running, NEW w \in Workers, worker_get_next_task(w)
  PROVE  IInv'
<1> DEFINE task == Head(heap.work)
           q == Tail(heap.work)
           r == IF task.run = "collector_run"
                  THEN [IdleThread EXCEPT !.pc = "collector_run", !.task = task]
                  ELSE [IdleThread EXCEPT !.pc = "remove_links", !.task = task,
                                          !.obj = task.arg]
<1>1. heap.work \in Seq(KnownTask(heap)) /\ heap.work # <<>> /\ Good(heap)
  BY DEF IInv, Good, UsedOK, WorkOK, worker_get_next_task
<1>2. task \in KnownTask(heap) /\ q \in Seq(KnownTask(heap))
  BY <1>1, HeadTailProperties
<1>3. /\ heap' = [heap EXCEPT !.work = q] /\ UNCHANGED <<root, old>>
      /\ thr' = [thr EXCEPT ![w] = r]
  BY DEF worker_get_next_task, Become
<1> HIDE DEF q, task
<1>4. Good(heap') /\ SameUsed(heap, heap')
  BY <1>1, <1>2, <1>3, WorkUpdate
<1>5. task \in KnownTask(heap')
  BY <1>2, <1>4 DEF SameUsed, KnownTask
<1>6. task \in Task
  BY <1>2 DEF KnownTask, Task, Known
<1>7. CASE task.run = "collector_run"
  <2>1. r = [pc |-> "collector_run", task |-> task, list |-> "collect",
             obj |-> NULL, links |-> {}, keys |-> {}, lk |-> NULL]
    BY <1>7 DEF IdleThread
  <2> HIDE DEF r
  <2>2. r \in Thread
    BY <1>6, <2>1 DEF Thread, PCs, ListNames
  <2>3. ThreadOK(heap', r)
    BY <1>5, <1>7, <2>1, <2>2 DEF ThreadOK, ObjectPCs
  <2> QED
    BY <1>3, <1>4, <2>3, UsesGrows, WorkerStep
<1>8. CASE task.run # "collector_run"
  <2>1. task.arg \in Known(heap') /\ task.arg \in Objects
    BY <1>5, <1>8 DEF KnownTask, Known
  <2>2. r = [pc |-> "remove_links", task |-> task, list |-> "collect",
             obj |-> task.arg, links |-> {}, keys |-> {}, lk |-> NULL]
    BY <1>8 DEF IdleThread
  <2> HIDE DEF r
  <2>3. r \in Thread
    BY <1>6, <2>1, <2>2 DEF Thread, PCs, ListNames
  <2>4. task.arg # NULL
    BY <2>1, HeapAssumption
  <2>5. ThreadOK(heap', r)
    BY <1>5, <2>1, <2>2, <2>3, <2>4 DEF ThreadOK, CollectorPCs
  <2> QED
    BY <1>3, <1>4, <2>5, UsesGrows, WorkerStep
<1> QED
  BY <1>7, <1>8

\* ThreadMove and WorkerStep for a step that keeps the worker's task.
LEMMA WorkerMove ==
  ASSUME IInv, Running, NEW w \in Workers, Grows(heap, heap'),
         NEW r \in Thread, thr[w].pc # "idle", r.task = thr[w].task,
         r.links \subseteq Allocated(heap'),
         r.lk \in {thr[w].lk, NULL} \cup Allocated(heap'),
         r.obj \in {thr[w].obj, NULL} \cup Known(heap'),
         r.pc \in CollectorPCs => thr[w].task.run = "collector_run",
         r.pc \in ObjectPCs => r.obj # NULL,
         r.pc = "rebuild_link" /\ heap'.failed = "none" => r.lk # NULL,
         thr' = [thr EXCEPT ![w] = r], UNCHANGED <<root, old>>
  PROVE  IInv'
<1>1. ThreadOK(heap, thr[w]) /\ heap.failed = "none"
  BY WorkerFacts
<1>2. ThreadOK(heap', r)
  BY <1>1, ThreadMove
<1> QED
  BY <1>2, WorkerStep

\* collector_run keeps the invariant where it waits, starts and ends; it
\* frees its collector only when nobody counts on it (collector.c:83-91,
\* 126-137).
LEMMA CollectorStep ==
  ASSUME IInv, Running, NEW w \in Workers,
         CollectorWaits(w) \/ CollectorStarts(w) \/ CollectorFinishes(w)
  PROVE  IInv'
<1>1. Good(heap) /\ Grows(heap, heap)
  BY DEF IInv, Grows
<1>2. CASE CollectorWaits(w)
  BY <1>1, <1>2, RequeueStep DEF CollectorWaits, At
<1>3. CASE CollectorStarts(w)
  <2>1. thr[w].pc \in CollectorPCs /\ thr[w].pc # "idle"
    BY <1>3 DEF CollectorStarts, At, CollectorPCs, PCs
  <2>2. thr[w].task.run = "collector_run"
    BY <2>1, WorkerFacts
  <2>3. /\ Goto(w, "merged") /\ UNCHANGED <<root, old>> /\ heap' = heap
        /\ "merged" \in PCs /\ "merged" \notin ObjectPCs
    BY <1>3 DEF CollectorStarts, PCs, ObjectPCs
  <2>4. Grows(heap, heap')
    BY <2>3, SelfGrows
  <2> QED
    BY <2>1, <2>2, <2>3, <2>4, GotoStep
<1>4. CASE CollectorFinishes(w)
  <2>1. thr[w].pc \in CollectorPCs /\ thr[w].pc # "idle"
    BY <1>4 DEF CollectorFinishes, At, CollectorPCs, PCs
  <2>2. Mine(w) \in Collectors
    BY <2>1, WorkerFacts
  <2>3. CASE counter_done(heap, Mine(w))
    <3>1. Done(w, collector_destroy(heap, Mine(w)))
      BY <1>4, <2>3 DEF CollectorFinishes
    <3>2. Grows(heap, collector_destroy(heap, Mine(w)))
      BY <1>1, <2>2, <2>3, DestroyGood, UsesGrows DEF counter_done
    <3> QED
      BY <3>1, <3>2, DoneStep
  <2>4. CASE ~counter_done(heap, Mine(w))
    <3>1. Requeue(w, heap)
      BY <1>4, <2>4 DEF CollectorFinishes
    <3> QED
      BY <1>1, <2>1, <3>1, RequeueStep
  <2> QED
    BY <2>3, <2>4
<1> QED
  BY <1>2, <1>3, <1>4

\* Draining merged_list keeps the invariant (collector.c:90-97).
LEMMA DrainStep ==
  ASSUME IInv, Running, NEW w \in Workers, DrainMerged(w)
  PROVE  IInv'
<1> DEFINE c  == Mine(w)
           t  == thr[w]
           m  == heap.coll[c].lists
           ls == [m EXCEPT !["recovery_list"] = @ \o m["merged_list"],
                           !["merged_list"] = <<>>]
           r  == [t EXCEPT !.pc = "collect", !.list = "collect"]
<1>1. t.pc \in CollectorPCs /\ t.pc # "idle"
  BY DEF DrainMerged, At, CollectorPCs, PCs
<1>2. /\ Good(heap) /\ ThreadOK(heap, t) /\ t \in Thread
      /\ t.task.run = "collector_run" /\ c \in Collectors
  BY <1>1, WorkerFacts
<1>3. m \in [ListNames -> Seq(Known(heap))]
  BY <1>2 DEF Good, UsedOK, ListsOK
<1>4. ls \in [ListNames -> Seq(Known(heap))]
  <2>1. /\ m["recovery_list"] \o m["merged_list"] \in Seq(Known(heap))
        /\ <<>> \in Seq(Known(heap))
    BY <1>3, ConcatProperties, EmptySeq DEF ListNames
  <2> QED
    BY <1>3, <2>1
<1>5. /\ heap' = [heap EXCEPT !.coll[c].lists = ls] /\ UNCHANGED <<root, old>>
      /\ thr' = [thr EXCEPT ![w] = r]
  BY DEF DrainMerged, Become
<1>6. /\ r \in Thread /\ r.task = t.task /\ r.links = t.links
      /\ r.pc = "collect" /\ r.obj = t.obj /\ r.lk = t.lk
  BY <1>2 DEF Thread, PCs, ListNames
<1> HIDE DEF ls, r
<1>7. Grows(heap, heap')
  BY <1>2, <1>4, <1>5, ListsGood, KeepsGrows
<1>8. r.links \subseteq Allocated(heap')
  BY <1>2, <1>6, <1>7 DEF ThreadOK, Grows
<1>9. r.pc \notin ObjectPCs /\ r.pc # "rebuild_link"
  BY <1>6 DEF ObjectPCs
<1> QED
  BY <1>1, <1>2, <1>5, <1>6, <1>7, <1>8, <1>9, WorkerMove

\* Taking a node off a list keeps the invariant (collector.c:99-124).
LEMMA PollStep ==
  ASSUME IInv, Running, NEW w \in Workers, PollObject(w)
  PROVE  IInv'
<1> DEFINE c  == Mine(w)
           t  == thr[w]
           o  == Head(heap.coll[c].lists[t.list])
           r  == [t EXCEPT !.pc = Handler[t.list], !.obj = o]
<1>1. t.pc \in CollectorPCs /\ t.pc # "idle"
  BY DEF PollObject, Draining, Handler, CollectorPCs, PCs
<1>2. /\ Good(heap) /\ ThreadOK(heap, t) /\ t \in Thread
      /\ t.task.run = "collector_run" /\ c \in Collectors
  BY <1>1, WorkerFacts
<1>3. t.list \in {"collect", "recovery_list", "rebuild_list", "clean_list"}
  BY <1>2 DEF Thread, ListNames
<1>4. /\ heap' = safelist_poll(heap, c, t.list) /\ UNCHANGED <<root, old>>
      /\ thr' = [thr EXCEPT ![w] = r] /\ heap.coll[c].lists[t.list] # <<>>
  BY DEF PollObject, Become
<1>5. Keeps(heap, heap') /\ o \in Known(heap)
  BY <1>2, <1>3, <1>4, SafelistPollGood DEF ListNames
<1>6. Handler[t.list] \in {"phantomize_node", "recover_node", "clean_node"}
  BY <1>3 DEF Handler
<1>7. o \in Objects /\ o # NULL
  BY <1>5, HeapAssumption DEF Known
<1> HIDE DEF o
<1>8. /\ r \in Thread /\ r.task = t.task /\ r.links = t.links
      /\ r.pc = Handler[t.list] /\ r.obj = o /\ r.lk = t.lk
  BY <1>2, <1>6, <1>7 DEF Thread, PCs
<1> HIDE DEF r
<1>9. Grows(heap, heap')
  BY <1>5, KeepsGrows
<1>10. r.links \subseteq Allocated(heap') /\ r.obj \in Known(heap')
  BY <1>2, <1>5, <1>8, <1>9 DEF ThreadOK, Grows
<1>11. r.pc # "rebuild_link"
  BY <1>6, <1>8
<1> QED
  BY <1>1, <1>2, <1>4, <1>7, <1>8, <1>9, <1>10, <1>11, WorkerMove

\* Going on to the next list keeps the invariant (collector.c:99-124).
LEMMA PollNothingStep ==
  ASSUME IInv, Running, NEW w \in Workers, PollNothing(w)
  PROVE  IInv'
<1> DEFINE t == thr[w]
           n == AfterList[t.list]
           r == [t EXCEPT !.pc = n, !.list = n]
<1>1. t.pc \in CollectorPCs /\ t.pc # "idle"
  BY DEF PollNothing, Draining, Handler, CollectorPCs, PCs
<1>2. /\ Good(heap) /\ ThreadOK(heap, t) /\ t \in Thread
      /\ t.task.run = "collector_run"
  BY <1>1, WorkerFacts
<1>3. heap' = heap /\ UNCHANGED <<root, old>>
  BY DEF PollNothing
<1>4. Grows(heap, heap')
  BY <1>3, SelfGrows
<1>5. CASE t.list = "clean_list"
  <2>1. Goto(w, "finish")
    BY <1>5 DEF PollNothing
  <2>2. "finish" \in PCs /\ "finish" \notin ObjectPCs
    BY DEF PCs, ObjectPCs
  <2> QED
    BY <1>1, <1>2, <1>3, <1>4, <2>1, <2>2, GotoStep
<1>6. CASE t.list # "clean_list"
  <2>1. thr' = [thr EXCEPT ![w] = r]
    BY <1>6 DEF PollNothing
  <2>2. t.list \in {"collect", "recovery_list", "rebuild_list"}
    BY <1>2, <1>6 DEF Thread, ListNames
  <2>3. n \in {"recovery_list", "rebuild_list", "clean_list"}
    BY <2>2 DEF AfterList
  <2> HIDE DEF n
  <2>4. /\ r \in Thread /\ r.task = t.task /\ r.links = t.links
        /\ r.pc = n /\ r.obj = t.obj /\ r.lk = t.lk
    BY <1>2, <2>3 DEF Thread, PCs, ListNames
  <2> HIDE DEF r
  <2>5. r.links \subseteq Allocated(heap')
    BY <1>2, <1>3, <2>4 DEF ThreadOK
  <2>6. r.pc \notin ObjectPCs /\ r.pc # "rebuild_link"
    BY <2>3, <2>4 DEF ObjectPCs
  <2> QED
    BY <1>1, <1>2, <1>3, <1>4, <2>1, <2>4, <2>5, <2>6, WorkerMove
<1> QED
  BY <1>5, <1>6

\* The locked section of object_phantomize_node keeps the invariant; the
\* phantoms it lists are allocated (object.c:170-209).
LEMMA PhantomizeNodeStep ==
  ASSUME IInv, Running, NEW w \in Workers, PhantomizeNode(w)
  PROVE  IInv'
<1> DEFINE t  == thr[w]
           o  == t.obj
           ls == LinksOf(heap, o)
           r  == [t EXCEPT !.pc = "phantomize_links", !.links = ls]
<1>1. /\ t.pc \in CollectorPCs /\ t.pc \in ObjectPCs /\ t.pc # "idle"
      /\ heap' = object_phantomize_node(heap, o) /\ UNCHANGED <<root, old>>
  BY DEF PhantomizeNode, At, CollectorPCs, ObjectPCs, PCs, Become
<1>2. /\ Good(heap) /\ ThreadOK(heap, t) /\ t \in Thread
      /\ t.task.run = "collector_run" /\ o \in Objects /\ o # NULL
  BY <1>1, WorkerFacts, HeapAssumption
<1>3. Keeps(heap, heap')
  BY <1>1, <1>2, PhantomizeNodeGood
<1>4. Grows(heap, heap')
  BY <1>3, KeepsGrows
<1>5. CASE Phantomizes(heap, o)
  <2>1. thr' = [thr EXCEPT ![w] = r]
    BY <1>5 DEF PhantomizeNode
  <2>2. ls \subseteq Allocated(heap)
    BY <1>2 DEF LinksOf, Good, UsedOK, TablesOK
  <2>3. ls \subseteq Links
    BY <2>2 DEF Allocated
  <2> HIDE DEF ls
  <2>4. /\ r \in Thread /\ r.task = t.task /\ r.links = ls
        /\ r.pc = "phantomize_links" /\ r.obj = t.obj /\ r.lk = t.lk
    BY <1>2, <2>3 DEF Thread, PCs
  <2> HIDE DEF r
  <2>5. r.links \subseteq Allocated(heap')
    BY <1>4, <2>2, <2>4 DEF Grows
  <2> QED
    BY <1>1, <1>2, <1>4, <2>1, <2>4, <2>5, WorkerMove
<1>6. CASE ~Phantomizes(heap, o)
  <2>1. Goto(w, "phantomized")
    BY <1>6 DEF PhantomizeNode, Goto
  <2>2. "phantomized" \in PCs
    BY DEF PCs
  <2> QED
    BY <1>1, <1>2, <1>4, <2>1, <2>2, GotoStep
<1> QED
  BY <1>5, <1>6

\* An assertion loses no memory.
LEMMA AssertGrows ==
  ASSUME NEW h, Good(h), NEW P, NEW what \in Failures
  PROVE  /\ Good(assert(h, P, what)) /\ SameUsed(h, assert(h, P, what))
         /\ CanCreate(h) => CanCreate(assert(h, P, what))
         /\ Grows(h, assert(h, P, what))
<1> DEFINE g == assert(h, P, what)
<1>1. SameBut(h, g)
  BY AssertSame
<1> HIDE DEF g
<1>2. Good(g) /\ SameUsed(h, g) /\ (CanCreate(h) => CanCreate(g))
  BY <1>1 DEF SameBut, Keeps, CanCreate
<1>3. Grows(h, g)
  BY <1>2, UsesGrows
<1> QED
  BY <1>2, <1>3 DEF g

\* Phantomizing one link of the snapshot keeps the invariant, also when the
\* link has been freed meanwhile (object.c:211-229).
LEMMA PhantomizeLinkStep ==
  ASSUME IInv, Running, NEW w \in Workers, NEW l \in Links,
         PhantomizeLink(w, l)
  PROVE  IInv'
<1> DEFINE t   == thr[w]
           src == heap.obj[heap.link[l].src]
           P1  == heap.obj[t.obj].phantomized
           P2  == src.phantomized
           P3  == src.collector # NULL
           h1  == assert(heap, P1, "object_phantomize_node:222")
           h2  == assert(h1, P2, "object_phantomize_node:224")
           h3  == assert(h2, P3, "object_phantomize_node:225")
           ls  == t.links \ {l}
           r   == [t EXCEPT !.links = ls]
<1>1. /\ t.pc \in CollectorPCs /\ t.pc \in ObjectPCs /\ t.pc # "idle"
      /\ t.pc = "phantomize_links"
      /\ l \in t.links /\ CanCreate(heap) /\ UNCHANGED <<root, old>>
      /\ thr' = [thr EXCEPT ![w] = r]
      /\ heap' \in {h1, link_phantomize(h3, l)}
  BY DEF PhantomizeLink, At, CollectorPCs, ObjectPCs, PCs, Become
<1>2. /\ Good(heap) /\ ThreadOK(heap, t) /\ t \in Thread
      /\ t.task.run = "collector_run" /\ t.obj # NULL
      /\ l \in Allocated(heap)
  BY <1>1, WorkerFacts, HeapAssumption DEF ThreadOK
<1>3. /\ "object_phantomize_node:222" \in Failures
      /\ "object_phantomize_node:224" \in Failures
      /\ "object_phantomize_node:225" \in Failures
  BY DEF Failures
<1> HIDE DEF P1, P2, P3
<1>4. Good(h1) /\ SameUsed(heap, h1) /\ CanCreate(h1)
  BY <1>1, <1>2, <1>3, AssertGrows
<1> HIDE DEF h1
<1>5. Good(h2) /\ SameUsed(h1, h2) /\ CanCreate(h2)
  BY <1>3, <1>4, AssertGrows
<1> HIDE DEF h2
<1>6. Good(h3) /\ SameUsed(h2, h3) /\ CanCreate(h3)
  BY <1>3, <1>5, AssertGrows
<1> HIDE DEF h3
<1>7. SameUsed(heap, h3) /\ l \in Allocated(h3)
  BY <1>2, <1>4, <1>5, <1>6 DEF SameUsed
<1>8. Good(link_phantomize(h3, l)) /\ SameUsed(h3, link_phantomize(h3, l))
  BY <1>6, <1>7, LinkPhantomizeGood
<1>9. Grows(heap, heap')
  BY <1>1, <1>4, <1>7, <1>8 DEF Grows, SameUsed
<1>10. /\ r \in Thread /\ r.task = t.task /\ r.links = ls
       /\ r.pc = "phantomize_links" /\ r.obj = t.obj /\ r.lk = t.lk
  BY <1>1, <1>2 DEF Thread
<1>11. ls \subseteq Allocated(heap')
  BY <1>2, <1>9 DEF ThreadOK, Grows
<1> HIDE DEF r, ls
<1> QED
  BY <1>1, <1>2, <1>9, <1>10, <1>11, WorkerMove

\* The end of a phantomization keeps the invariant (object.c:230-236).
LEMMA PhantomizeCompleteStep ==
  ASSUME IInv, Running, NEW w \in Workers, PhantomizeComplete(w)
  PROVE  IInv'
<1> DEFINE o == thr[w].obj
<1>1. /\ thr[w].pc \in CollectorPCs /\ thr[w].pc \in ObjectPCs
      /\ thr[w].pc # "idle"
      /\ heap' = [heap EXCEPT !.obj[o].phantomization_complete = TRUE]
      /\ UNCHANGED <<root, old>> /\ Goto(w, "phantomized")
  BY DEF PhantomizeComplete, At, CollectorPCs, ObjectPCs, PCs, Become
<1>2. /\ Good(heap) /\ thr[w].task.run = "collector_run"
      /\ o \in Objects /\ o # NULL
  BY <1>1, WorkerFacts, HeapAssumption
<1>3. Grows(heap, heap')
  BY <1>1, <1>2, CompleteGood, KeepsGrows
<1>4. "phantomized" \in PCs
  BY DEF PCs
<1> QED
  BY <1>1, <1>2, <1>3, <1>4, GotoStep

\* Passing a node on to the next list keeps the invariant
\* (collector.c:99-112).
LEMMA NextListStep ==
  ASSUME IInv, Running, NEW w \in Workers, ToRecovery(w) \/ ToClean(w)
  PROVE  IInv'
<1>1. PICK l \in {"recovery_list", "clean_list"} :
        NextObject(w, safelist_add(heap, Mine(w), l, thr[w].obj))
  BY DEF ToRecovery, ToClean
<1>2. thr[w].pc \in CollectorPCs /\ thr[w].pc \in ObjectPCs
  BY DEF ToRecovery, ToClean, At, CollectorPCs, ObjectPCs, PCs
<1>3. Good(heap) /\ Mine(w) \in Collectors /\ thr[w].obj \in Known(heap)
  BY <1>2, WorkerFacts
<1>4. l \in ListNames
  BY DEF ListNames
<1>5. Grows(heap, safelist_add(heap, Mine(w), l, thr[w].obj))
  BY <1>3, <1>4, SafelistAddGood, KeepsGrows
<1> QED
  BY <1>1, <1>2, <1>5, NextObjectStep

\* Dropping the phantom count of a cleaned node keeps the invariant
\* (object.c:337-341).
LEMMA DecPhantomStep ==
  ASSUME IInv, Running, NEW w \in Workers, DecPhantom(w)
  PROVE  IInv'
<1>1. /\ NextObject(w, object_dec_phantom(heap, thr[w].obj))
      /\ thr[w].pc \in CollectorPCs /\ thr[w].pc \in ObjectPCs
  BY DEF DecPhantom, At, CollectorPCs, ObjectPCs, PCs
<1>2. Good(heap) /\ thr[w].obj \in Known(heap)
  BY <1>1, WorkerFacts
<1>3. Grows(heap, object_dec_phantom(heap, thr[w].obj))
  BY <1>2, DecPhantomGood, KeepsGrows
<1> QED
  BY <1>1, <1>3, NextObjectStep

\* object_del keeps the invariant (object.c:71-83, 108-114).
LEMMA DeleteStep ==
  ASSUME IInv, Running, NEW w \in Workers, ObjectDel(w)
  PROVE  IInv'
<1>1. Done(w, object_del(heap, thr[w].obj)) /\ thr[w].pc \in ObjectPCs
  BY DEF ObjectDel, At, ObjectPCs
<1>2. Good(heap) /\ thr[w].obj \in Known(heap)
  BY <1>1, WorkerFacts
<1>3. Grows(heap, object_del(heap, thr[w].obj))
  BY <1>2, ObjectDelGood, KeepsGrows
<1> QED
  BY <1>1, <1>3, DoneStep

\* The part of object_recover_node for a strong node keeps the invariant
\* (object.c:289-296).
LEMMA RecoveredStep ==
  ASSUME IInv, Running, NEW w \in Workers, NEW h, Good(h), SameUsed(heap, h),
         thr[w].pc \in {"recover_node", "await"}, Recovered(w, h)
  PROVE  IInv'
<1> DEFINE t  == thr[w]
           o  == t.obj
           P  == h.obj[o].phantomization_complete
           h1 == assert(h, P, "object_recover_node:289")
           g  == [h1 EXCEPT !.obj[o].phantomized = FALSE]
           r  == [t EXCEPT !.pc = "rebuild_links", !.keys = KeysOf(h, o)]
<1>1. t.pc \in CollectorPCs /\ t.pc \in ObjectPCs /\ t.pc # "idle"
  BY DEF CollectorPCs, ObjectPCs, PCs
<1>2. /\ ThreadOK(heap, t) /\ t \in Thread
      /\ t.task.run = "collector_run" /\ o \in Objects /\ o # NULL
  BY <1>1, WorkerFacts, HeapAssumption
<1>3. /\ heap' = g /\ UNCHANGED <<root, old>> /\ thr' = [thr EXCEPT ![w] = r]
  BY DEF Recovered, Become
<1>4. /\ r \in Thread /\ r.task = t.task /\ r.links = t.links
      /\ r.pc = "rebuild_links" /\ r.obj = t.obj /\ r.lk = t.lk
  BY <1>2 DEF Thread, PCs, KeysOf
<1> HIDE DEF r, P
<1>5. "object_recover_node:289" \in Failures
  BY DEF Failures
<1>6. Good(h1) /\ SameUsed(h, h1)
  BY <1>5, AssertGrows
<1> HIDE DEF h1
<1>7. Good(g) /\ SameUsed(h1, g)
  BY <1>2, <1>6, PhantomizedGood DEF Keeps
<1>8. Grows(heap, heap')
  BY <1>3, <1>6, <1>7 DEF SameUsed, Grows
<1>9. r.links \subseteq Allocated(heap')
  BY <1>2, <1>4, <1>8 DEF ThreadOK, Grows
<1> QED
  BY <1>1, <1>2, <1>3, <1>4, <1>8, <1>9, WorkerMove

\* object_recover_node keeps the invariant whether it waits, recovers or
\* leaves the node (object.c:271-300).
LEMMA RecoverStep ==
  ASSUME IInv, Running, NEW w \in Workers,
         RecoverNode(w) \/ AwaitPhantomization(w)
  PROVE  IInv'
<1> DEFINE o == thr[w].obj
           h == FollowCollector(heap, o)
           Q == h.obj[o].count[Flip(h.obj[o].which)] = 0
<1>1. /\ thr[w].pc \in {"recover_node", "await"}
      /\ thr[w].pc \in CollectorPCs /\ thr[w].pc \in ObjectPCs
      /\ thr[w].pc # "idle"
  BY DEF RecoverNode, AwaitPhantomization, At, CollectorPCs, ObjectPCs, PCs
<1>2. /\ Good(heap) /\ thr[w].task.run = "collector_run"
      /\ o \in Objects /\ o # NULL
  BY <1>1, WorkerFacts, HeapAssumption
<1>3. Good(h) /\ SameUsed(heap, h) /\ SameUsed(heap, heap)
  BY <1>2, FollowGood DEF Keeps, SameUsed
<1>4. CASE AwaitPhantomization(w)
  <2>1. Recovered(w, heap)
    BY <1>4 DEF AwaitPhantomization
  <2> QED
    BY <1>1, <1>2, <1>3, <2>1, RecoveredStep
<1>5. CASE RecoverNode(w)
  <2>1. \/ heap' = h /\ UNCHANGED <<root, old>> /\ Goto(w, "await")
        \/ Recovered(w, h)
        \/ /\ heap' = assert(h, Q, "object_recover_node:298")
           /\ UNCHANGED <<root, old>> /\ Goto(w, "rebuild_links")
    BY <1>5 DEF RecoverNode, Become
  <2> HIDE DEF h, Q
  <2>2. "await" \in PCs /\ "rebuild_links" \in PCs
    BY DEF PCs
  <2>3. CASE heap' = h /\ UNCHANGED <<root, old>> /\ Goto(w, "await")
    <3>1. Grows(heap, heap')
      BY <1>3, <2>3, UsesGrows
    <3> QED
      BY <1>1, <1>2, <2>2, <2>3, <3>1, GotoStep
  <2>4. CASE Recovered(w, h)
    BY <1>1, <1>3, <2>4, RecoveredStep
  <2>5. CASE /\ heap' = assert(h, Q, "object_recover_node:298")
             /\ UNCHANGED <<root, old>> /\ Goto(w, "rebuild_links")
    <3>1. "object_recover_node:298" \in Failures
      BY DEF Failures
    <3>2. Good(heap') /\ SameUsed(h, heap')
      BY <1>3, <2>5, <3>1, AssertGrows
    <3>3. Grows(heap, heap')
      BY <1>3, <3>2 DEF SameUsed, Grows
    <3> QED
      BY <1>1, <1>2, <2>2, <2>5, <3>3, GotoStep
  <2> QED
    BY <2>1, <2>3, <2>4, <2>5
<1> QED
  BY <1>4, <1>5

\* Looking up a key keeps the invariant: lk is an allocated link, or the
\* assertion at object.c:306 ends the program.
LEMMA RebuildGetStep ==
  ASSUME IInv, Running, NEW w \in Workers, NEW f \in Fields, RebuildGet(w, f)
  PROVE  IInv'
<1> DEFINE t  == thr[w]
           l  == heap.obj[t.obj].links[f]
           lk == IF l # NULL THEN l ELSE t.lk
           P  == lk # NULL
           r  == [t EXCEPT !.pc = "rebuild_link", !.keys = @ \ {f}, !.lk = lk]
<1>1. /\ t.pc \in CollectorPCs /\ t.pc \in ObjectPCs /\ t.pc # "idle"
      /\ heap' = assert(heap, P, "object_recover_node:306")
      /\ UNCHANGED <<root, old>> /\ thr' = [thr EXCEPT ![w] = r]
  BY DEF RebuildGet, At, CollectorPCs, ObjectPCs, PCs, Become
<1>2. /\ Good(heap) /\ ThreadOK(heap, t) /\ t \in Thread
      /\ t.task.run = "collector_run" /\ t.obj # NULL /\ t.obj \in Objects
      /\ heap.failed = "none"
  BY <1>1, WorkerFacts, HeapAssumption
<1>3. "object_recover_node:306" \in Failures
  BY DEF Failures
<1>4. Grows(heap, heap')
  <2> HIDE DEF P
  <2> QED
    BY <1>1, <1>2, <1>3, AssertGrows
<1>5. lk = NULL \/ lk \in Allocated(heap)
  BY <1>2 DEF Good, UsedOK, TablesOK, ThreadOK
<1>6. heap'.failed = "none" => lk # NULL
  BY <1>1, <1>2 DEF assert, Good, HeapType
<1>7. lk \in Links \cup {NULL}
  BY <1>5 DEF Allocated
<1> HIDE DEF lk, P
<1>8. /\ r \in Thread /\ r.task = t.task /\ r.links = t.links
      /\ r.pc = "rebuild_link" /\ r.obj = t.obj /\ r.lk = lk
  BY <1>2, <1>7 DEF Thread, PCs
<1> HIDE DEF r
<1>9. /\ r.links \subseteq Allocated(heap')
      /\ r.lk \in {t.lk, NULL} \cup Allocated(heap')
  BY <1>2, <1>4, <1>5, <1>8 DEF ThreadOK, Grows
<1> QED
  BY <1>1, <1>2, <1>4, <1>6, <1>8, <1>9, WorkerMove

\* Rebuilding one link keeps the invariant (object.c:302-310).
LEMMA RebuildLinkStep ==
  ASSUME IInv, Running, NEW w \in Workers, RebuildLink(w)
  PROVE  IInv'
<1>1. /\ thr[w].pc \in CollectorPCs /\ thr[w].pc \in ObjectPCs
      /\ thr[w].pc # "idle" /\ thr[w].pc = "rebuild_link"
      /\ heap' = object_rebuild_link(heap, Mine(w), thr[w].lk)
      /\ UNCHANGED <<root, old>> /\ Goto(w, "rebuild_links")
  BY DEF RebuildLink, At, CollectorPCs, ObjectPCs, PCs, Become
<1>2. /\ Good(heap) /\ ThreadOK(heap, thr[w]) /\ Mine(w) \in Collectors
      /\ thr[w].task.run = "collector_run" /\ thr[w].obj # NULL
      /\ heap.failed = "none"
  BY <1>1, WorkerFacts, HeapAssumption
<1>3. thr[w].lk \in Allocated(heap)
  BY <1>1, <1>2 DEF ThreadOK
<1>4. Grows(heap, heap')
  BY <1>1, <1>2, <1>3, RebuildLinkGood, KeepsGrows
<1>5. "rebuild_links" \in PCs
  BY DEF PCs
<1> QED
  BY <1>1, <1>2, <1>4, <1>5, GotoStep

\* The end of object_recover_node keeps the invariant (object.c:312-317).
LEMMA RecoverEndStep ==
  ASSUME IInv, Running, NEW w \in Workers, RecoverEnd(w)
  PROVE  IInv'
<1> DEFINE o == thr[w].obj
           P == heap.obj[o].count[Phantom] = 0 => heap.obj[o].collector = NULL
           h == assert(heap, P, "object_recover_node:314")
<1>1. /\ thr[w].pc \in CollectorPCs /\ thr[w].pc \in ObjectPCs
      /\ thr[w].pc # "idle"
      /\ \/ heap' = h /\ UNCHANGED <<root, old>> /\ Goto(w, "recovered")
         \/ NextObject(w, h)
  BY DEF RecoverEnd, At, CollectorPCs, ObjectPCs, PCs, Become
<1>2. /\ Good(heap) /\ thr[w].task.run = "collector_run" /\ o # NULL
  BY <1>1, WorkerFacts, HeapAssumption
<1>3. "object_recover_node:314" \in Failures /\ "recovered" \in PCs
  BY DEF Failures, PCs
<1> HIDE DEF P
<1>4. Grows(heap, h)
  BY <1>2, <1>3, AssertGrows
<1> HIDE DEF h
<1> QED
  BY <1>1, <1>2, <1>3, <1>4, GotoStep, NextObjectStep

\* object_clean_node's check keeps the invariant (object.c:319-338).
LEMMA CleanNodeStep ==
  ASSUME IInv, Running, NEW w \in Workers, CleanNode(w)
  PROVE  IInv'
<1> DEFINE count == heap.obj[thr[w].obj].count
           P == count[0] >= 0 /\ count[1] >= 0
<1>1. /\ thr[w].pc \in CollectorPCs /\ thr[w].pc \in ObjectPCs
      /\ thr[w].pc # "idle"
      /\ heap' = assert(heap, P, "object_clean_node:332")
      /\ UNCHANGED <<root, old>>
      /\ \E pc \in {"dec_phantom", "remove_links"} : Goto(w, pc)
  BY DEF CleanNode, At, CollectorPCs, ObjectPCs, PCs, Become
<1> HIDE DEF P
<1>2. /\ Good(heap) /\ thr[w].task.run = "collector_run"
      /\ thr[w].obj # NULL
  BY <1>1, WorkerFacts, HeapAssumption
<1>3. "object_clean_node:332" \in Failures
  BY DEF Failures
<1>4. Grows(heap, heap')
  BY <1>1, <1>2, <1>3, AssertGrows
<1>5. "dec_phantom" \in PCs /\ "remove_links" \in PCs
  BY DEF PCs
<1> QED
  BY <1>1, <1>2, <1>4, <1>5, GotoStep

\* The two callers of object_remove_links are told apart by the worker's task
\* (object.c:108-114, 319-341).
LEMMA AfterLinksOK ==
  ASSUME IInv, Running, NEW w \in Workers, thr[w].pc # "idle"
  PROVE  /\ AfterLinks(w) \in {"delete", "dec_phantom"}
         /\ AfterLinks(w) \in CollectorPCs => thr[w].task.run = "collector_run"
<1>1. thr[w].task \in KnownTask(heap)
  BY WorkerFacts DEF ThreadOK
<1> QED
  BY <1>1 DEF AfterLinks, KnownTask, CollectorPCs

\* Taking the links out of a node's table keeps the invariant
\* (object.c:85-98).
LEMMA RemoveLinksStep ==
  ASSUME IInv, Running, NEW w \in Workers, RemoveLinks(w)
  PROVE  IInv'
<1> DEFINE t  == thr[w]
           ls == LinksOf(heap, t.obj)
           pc == IF ls = {} THEN AfterLinks(w) ELSE "destroy_links"
           r  == [t EXCEPT !.pc = pc, !.links = ls]
<1>1. /\ t.pc \in ObjectPCs /\ t.pc # "idle" /\ UNCHANGED <<root, old>>
      /\ heap' = object_remove_links(heap, t.obj)
      /\ thr' = [thr EXCEPT ![w] = r]
  BY DEF RemoveLinks, At, ObjectPCs, Become
<1>2. /\ Good(heap) /\ ThreadOK(heap, t) /\ t \in Thread
      /\ t.obj \in Objects /\ t.obj # NULL
  BY <1>1, WorkerFacts, HeapAssumption
<1>3. Grows(heap, heap')
  BY <1>1, <1>2, RemoveLinksGood, KeepsGrows
<1>4. ls \subseteq Allocated(heap)
  BY <1>2 DEF LinksOf, Good, UsedOK, TablesOK
<1>5. ls \subseteq Links
  BY <1>4 DEF Allocated
<1>6. /\ pc \in {"delete", "dec_phantom", "destroy_links"}
      /\ pc \in CollectorPCs => t.task.run = "collector_run"
  BY <1>1, AfterLinksOK DEF CollectorPCs
<1>7. pc \in PCs /\ pc # "rebuild_link"
  BY <1>6 DEF PCs
<1> HIDE DEF ls, pc
<1>8. /\ r \in Thread /\ r.task = t.task /\ r.links = ls
      /\ r.pc = pc /\ r.obj = t.obj /\ r.lk = t.lk
  BY <1>2, <1>5, <1>7 DEF Thread
<1> HIDE DEF r
<1>9. r.links \subseteq Allocated(heap')
  BY <1>3, <1>4, <1>8 DEF Grows
<1> QED
  BY <1>1, <1>2, <1>3, <1>6, <1>7, <1>8, <1>9, WorkerMove

\* Destroying one of them keeps the invariant (object.c:100-106).
LEMMA DestroyLinkStep ==
  ASSUME IInv, Running, NEW w \in Workers, NEW l \in Links, DestroyLink(w, l)
  PROVE  IInv'
<1> DEFINE t  == thr[w]
           ls == t.links \ {l}
           pc == IF t.links = {l} THEN AfterLinks(w) ELSE t.pc
           r  == [t EXCEPT !.pc = pc, !.links = ls]
<1>1. /\ t.pc = "destroy_links" /\ UNCHANGED <<root, old>>
      /\ l \in t.links /\ CanCreate(heap)
      /\ heap' = link_destroy(heap, l)
      /\ thr' = [thr EXCEPT ![w] = r]
  BY DEF DestroyLink, At, Become
<1>2. t.pc \in ObjectPCs /\ t.pc # "idle"
  BY <1>1 DEF ObjectPCs
<1>3. /\ Good(heap) /\ ThreadOK(heap, t) /\ t \in Thread /\ t.obj # NULL
  BY <1>2, WorkerFacts, HeapAssumption
<1>4. l \in Allocated(heap)
  BY <1>1, <1>3 DEF ThreadOK
<1>5. Grows(heap, heap')
  BY <1>1, <1>3, <1>4, LinkDestroyGood, UsesGrows
<1>6. /\ pc \in {"delete", "dec_phantom", "destroy_links"}
      /\ pc \in CollectorPCs => t.task.run = "collector_run"
  BY <1>1, <1>2, AfterLinksOK DEF CollectorPCs
<1>7. pc \in PCs /\ pc # "rebuild_link" /\ ls \subseteq Links
  BY <1>3, <1>6 DEF PCs, Thread
<1> HIDE DEF pc
<1>8. /\ r \in Thread /\ r.task = t.task /\ r.links = ls
      /\ r.pc = pc /\ r.obj = t.obj /\ r.lk = t.lk
  BY <1>3, <1>7 DEF Thread
<1> HIDE DEF r
<1>9. r.links \subseteq Allocated(heap')
  BY <1>3, <1>5, <1>8 DEF ThreadOK, Grows
<1> QED
  BY <1>1, <1>2, <1>3, <1>5, <1>6, <1>7, <1>8, <1>9, WorkerMove

-----------------------------------------------------------------------------
(* The theorems *)

\* Every step of the program and of the workers keeps the invariant.
LEMMA NextIInv == IInv /\ [Next]_vars => IInv'
<1> SUFFICES ASSUME IInv, [Next]_vars
             PROVE  IInv'
  OBVIOUS
<1>1. CASE UNCHANGED vars
  BY <1>1 DEF vars, IInv, ThreadsOK, MutatorOK
<1>2. CASE Next
  <2>1. Running
    BY <1>2 DEF Next
  <2>2. CASE MutatorNext
    <3>1. ASSUME NEW o \in Objects,
                 acid_malloc(o) \/ acid_harden(o) \/ acid_dissolve(o)
          PROVE  IInv'
      BY <2>1, <3>1, MallocStep, HardenStep, DissolveStep
    <3>2. ASSUME NEW from \in Objects \cup {NULL}, NEW val \in Objects,
                 acid_set(from, val)
          PROVE  IInv'
      BY <2>1, <3>2, SetStep
    <3>3. ASSUME NEW o \in Objects, NEW f \in Fields, object_set_null(o, f)
          PROVE  IInv'
      BY <2>1, <3>3, SetNullStep
    <3>4. ASSUME NEW o \in Objects, NEW t \in Objects, NEW f \in Fields,
                 object_set(o, f, t)
          PROVE  IInv'
      BY <2>1, <3>4, SetFieldStep
    <3>5. CASE object_set_cleanup
      BY <2>1, <3>5, CleanupStep
    <3> QED
      BY <2>2, <3>1, <3>2, <3>3, <3>4, <3>5 DEF MutatorNext
  <2>3. ASSUME NEW w \in Workers, WorkerNext(w)
        PROVE  IInv'
    <3>1. CASE worker_get_next_task(w)
      BY <2>1, <3>1, TaskStep
    <3>2. CASE CollectorWaits(w) \/ CollectorStarts(w) \/ CollectorFinishes(w)
      BY <2>1, <3>2, CollectorStep
    <3>3. CASE DrainMerged(w)
      BY <2>1, <3>3, DrainStep
    <3>4. CASE PollObject(w)
      BY <2>1, <3>4, PollStep
    <3>5. CASE PollNothing(w)
      BY <2>1, <3>5, PollNothingStep
    <3>6. CASE PhantomizeNode(w)
      BY <2>1, <3>6, PhantomizeNodeStep
    <3>7. ASSUME NEW l \in Links, PhantomizeLink(w, l)
          PROVE  IInv'
      BY <2>1, <3>7, PhantomizeLinkStep
    <3>8. CASE PhantomizeComplete(w)
      BY <2>1, <3>8, PhantomizeCompleteStep
    <3>9. CASE ToRecovery(w) \/ ToClean(w)
      BY <2>1, <3>9, NextListStep
    <3>10. CASE RecoverNode(w) \/ AwaitPhantomization(w)
      BY <2>1, <3>10, RecoverStep
    <3>11. ASSUME NEW f \in Fields, RebuildGet(w, f)
           PROVE  IInv'
      BY <2>1, <3>11, RebuildGetStep
    <3>12. CASE RebuildLink(w)
      BY <2>1, <3>12, RebuildLinkStep
    <3>13. CASE RecoverEnd(w)
      BY <2>1, <3>13, RecoverEndStep
    <3>14. CASE CleanNode(w)
      BY <2>1, <3>14, CleanNodeStep
    <3>15. CASE RemoveLinks(w)
      BY <2>1, <3>15, RemoveLinksStep
    <3>16. ASSUME NEW l \in Links, DestroyLink(w, l)
           PROVE  IInv'
      BY <2>1, <3>16, DestroyLinkStep
    <3>17. CASE DecPhantom(w)
      BY <2>1, <3>17, DecPhantomStep
    <3>18. CASE ObjectDel(w)
      BY <2>1, <3>18, DeleteStep
    <3> QED
      BY <2>3, <3>1, <3>2, <3>3, <3>4, <3>5, <3>6, <3>7, <3>8, <3>9, <3>10,
         <3>11, <3>12, <3>13, <3>14, <3>15, <3>16, <3>17, <3>18
         DEF WorkerNext
  <2> QED
    BY <1>2, <2>2, <2>3 DEF Next
<1> QED
  BY <1>1, <1>2

\* In every execution, for any number of objects, fields, links, collectors
\* and workers: memory refers to allocated memory only, collectors are
\* counted exactly, forward without cycles and are unused once freed.
THEOREM Invariant == Spec => []IInv
BY InitIInv, NextIInv, PTL DEF Spec

\* Every variable keeps its type, whatever schedule the workers run in
\* (object.h, link.h, collector.h).
THEOREM TypeCorrect == Spec => []TypeOK
<1>1. IInv => TypeOK
  <2> SUFFICES ASSUME IInv
               PROVE  TypeOK
    OBVIOUS
  <2>1. heap \in HeapType /\ thr \in [Workers -> Thread]
    BY DEF IInv, Good, ThreadsOK
  <2>2. root \in [Objects -> Nat] /\ old \in Links \cup {NULL}
    BY DEF IInv, MutatorOK, Allocated
  <2> QED
    BY <2>1, <2>2 DEF TypeOK
<1> QED
  BY <1>1, Invariant, PTL

\* A collector's reference count is always the number of pointers to it: no
\* schedule of merges, moves and frees makes counter_done free a collector
\* too early or never (counter.c:18-56, collector.c:42-58).
THEOREM RefCountsExact == Spec => []RefCountExact
<1>1. IInv => RefCountExact
  BY DEF IInv, Good, CollectorsOK, RefExact, Members, Merged, RefCountExact
<1> QED
  BY <1>1, Invariant, PTL

\* No object points to a freed collector, and every chain of forward pointers
\* ends at a live one, so the loops of collector_update and
\* object_merge_collectors terminate and read no freed memory
\* (collector.c:185-200, object.c:343-406).
THEOREM ChainsEndLive == Spec => []ChainsLive
<1>1. ASSUME IInv
      PROVE  ChainsLive
  <2>1. Good(heap)
    BY <1>1 DEF IInv
  <2>2. ASSUME NEW o \in Objects, heap.obj[o].collector # NULL
        PROVE  heap.coll[heap.obj[o].collector].live
    BY <2>1, <2>2, PointedLive
  <2>3. ASSUME NEW c \in Collectors, heap.coll[c].live
        PROVE  \E d \in ForwardChain(heap, c) :
                 heap.coll[d].live /\ heap.coll[d].forward = NULL
    BY <2>1, <2>3, UpdateCollector
  <2> QED
    BY <2>2, <2>3 DEF ChainsLive
<1>2. IInv => ChainsLive
  BY <1>1
<1> QED
  BY <1>2, Invariant, PTL
=============================================================================
