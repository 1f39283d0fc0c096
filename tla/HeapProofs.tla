----------------------------- MODULE HeapProofs -----------------------------
(***************************************************************************)
(* The functions of module Heap preserve Good, the invariant of the heap:  *)
(* memory refers to allocated memory only, and collectors are counted      *)
(* exactly, forward without cycles and are unused once freed.  One lemma   *)
(* per function; the functions change parts of the heap one at a time, and *)
(* the first lemmas are about a change to one part.                        *)
(***************************************************************************)
EXTENDS Heap, FiniteSetTheorems, SequenceTheorems, TLAPS

\* Links that link_create has returned, freed since or not.
Allocated(h) == {l \in Links : h.link[l].state # "none"}

\* Objects that acid_malloc has returned, freed since or not.
Known(h) == {o \in Objects : h.obj[o].state # "none"}

\* No step of the code un-allocates: g has the links and objects of h.
SameUsed(h, g) == Allocated(g) = Allocated(h) /\ Known(g) = Known(h)

\* An allocated link joins two allocated objects (link_create, link.c:10-17).
LinksOK(h) ==
  \A l \in Allocated(h) : h.link[l].src \in Known(h) /\ h.link[l].target \in Known(h)

\* Only an allocated object has a collector.
MembersOK(h) == \A o \in Objects : h.obj[o].collector # NULL => o \in Known(h)

\* The lists of collectors hold allocated objects.
ListsOK(h) ==
  \A c \in Collectors : h.coll[c].lists \in [ListNames -> Seq(Known(h))]

\* Tasks about collectors and allocated objects.
KnownTask(h) ==
  [run: {"collector_run"}, arg: Collectors]
    \cup [run: {"request_delete"}, arg: Known(h)]

\* The queue of tasks holds such tasks only.
WorkOK(h) == h.work \in Seq(KnownTask(h))

\* The tables of objects hold allocated links only.
TablesOK(h) ==
  \A o \in Objects : \A f \in Fields :
    h.obj[o].links[f] # NULL => h.obj[o].links[f] \in Allocated(h)

\* Forward pointers have no cycle: each set of collectors has a member that
\* forwards out of it, or not at all.
Acyclic(h) ==
  \A S \in SUBSET Collectors :
    S # {} => \E d \in S : h.coll[d].forward \notin S

\* The objects that point to c.
Members(h, c) == {o \in Objects : h.obj[o].collector = c}

\* The collectors that forward to c.
Merged(h, c) == {d \in Collectors : h.coll[d].forward = c}

\* Each reference count is the number of the pointers to the collector.
RefExact(h) ==
  \A c \in Collectors :
    h.coll[c].ref_count = Cardinality(Members(h, c)) + Cardinality(Merged(h, c))

\* A collector that is not allocated is not counted and forwards nowhere.
DeadUnused(h) ==
  \A c \in Collectors :
    ~h.coll[c].live => h.coll[c].ref_count = 0 /\ h.coll[c].forward = NULL

\* What makes collectors safe to follow and to free.
CollectorsOK(h) == Acyclic(h) /\ RefExact(h) /\ DeadUnused(h)

\* Memory refers to allocated memory.
UsedOK(h) ==
  LinksOK(h) /\ TablesOK(h) /\ MembersOK(h) /\ ListsOK(h) /\ WorkOK(h)

\* The invariant of the heap, preserved by every operator of module Heap.
Good(h) == h \in HeapType /\ UsedOK(h) /\ CollectorsOK(h)

-----------------------------------------------------------------------------
(* Changing one part of the heap *)

\* What is said of collectors depends only on their flags, forward pointers
\* and counts, and on the objects' collectors.
LEMMA FrameCollectors ==
  ASSUME NEW h, NEW g, CollectorsOK(h),
         \A c \in Collectors : /\ g.coll[c].forward = h.coll[c].forward
                               /\ g.coll[c].ref_count = h.coll[c].ref_count
                               /\ g.coll[c].live = h.coll[c].live,
         \A o \in Objects : g.obj[o].collector = h.obj[o].collector
  PROVE  CollectorsOK(g)
<1>1. \A c : Members(g, c) = Members(h, c) /\ Merged(g, c) = Merged(h, c)
  BY DEF Members, Merged
<1>2. Acyclic(g)
  BY DEF CollectorsOK, Acyclic
<1>3. RefExact(g)
  BY <1>1 DEF CollectorsOK, RefExact
<1>4. DeadUnused(g)
  BY DEF CollectorsOK, DeadUnused
<1> QED
  BY <1>2, <1>3, <1>4 DEF CollectorsOK

\* Memory still refers to allocated memory after a change that allocates
\* nothing and adds only references to allocated memory.
LEMMA UsedSame ==
  ASSUME NEW h, NEW g, UsedOK(h), SameUsed(h, g),
         \A l \in Allocated(h) : /\ g.link[l].src = h.link[l].src
                                /\ g.link[l].target = h.link[l].target,
         \A o \in Objects : g.obj[o].collector # NULL => o \in Known(h),
         \A o \in Objects : \A f \in Fields :
           g.obj[o].links[f] # NULL => g.obj[o].links[f] \in Allocated(h),
         \A c \in Collectors : g.coll[c].lists \in [ListNames -> Seq(Known(h))],
         g.work \in Seq(KnownTask(h))
  PROVE  UsedOK(g)
<1>1. Allocated(g) = Allocated(h) /\ Known(g) = Known(h)
  BY DEF SameUsed
<1>2. LinksOK(g)
  BY <1>1 DEF UsedOK, LinksOK
<1>3. TablesOK(g)
  BY <1>1 DEF TablesOK
<1>4. MembersOK(g)
  BY <1>1 DEF MembersOK
<1>5. ListsOK(g)
  BY <1>1 DEF ListsOK
<1>6. WorkOK(g)
  BY <1>1 DEF WorkOK, KnownTask
<1> QED
  BY <1>2, <1>3, <1>4, <1>5, <1>6 DEF UsedOK

\* A list of allocated objects is a list of objects.
LEMMA KnownSeq ==
  ASSUME NEW h, NEW q \in Seq(Known(h))
  PROVE  q \in Seq(Objects)
<1>1. Known(h) \subseteq Objects
  BY DEF Known
<1> QED
  BY <1>1, SeqMonotonic

\* Writing the header of an object without moving its collector keeps the
\* heap good (object.c).
LEMMA ObjectUpdate ==
  ASSUME NEW h, Good(h), NEW o \in Objects, NEW r \in Object,
         r.collector = h.obj[o].collector,
         r.state = "none" <=> h.obj[o].state = "none",
         \A f \in Fields : r.links[f] # NULL => r.links[f] \in Allocated(h)
  PROVE  /\ Good([h EXCEPT !.obj[o] = r])
         /\ SameUsed(h, [h EXCEPT !.obj[o] = r])
<1> DEFINE g == [h EXCEPT !.obj[o] = r]
<1>1. h \in HeapType
  BY DEF Good
<1>2. /\ g \in HeapType
      /\ g.link = h.link /\ g.coll = h.coll /\ g.work = h.work
      /\ g.obj = [h.obj EXCEPT ![o] = r]
  BY <1>1 DEF HeapType
<1> HIDE DEF g
<1>3. \A p \in Objects : g.obj[p] = IF p = o THEN r ELSE h.obj[p]
  BY <1>1, <1>2 DEF HeapType
<1>4. SameUsed(h, g)
  BY <1>2, <1>3 DEF SameUsed, Allocated, Known
<1>5. UsedOK(g)
  <2>1. \A p \in Objects :
          /\ g.obj[p].collector # NULL => p \in Known(h)
          /\ \A f \in Fields :
               g.obj[p].links[f] # NULL => g.obj[p].links[f] \in Allocated(h)
    BY <1>3 DEF Good, UsedOK, MembersOK, TablesOK
  <2>2. \A c \in Collectors : g.coll[c].lists \in [ListNames -> Seq(Known(h))]
    BY <1>2 DEF Good, UsedOK, ListsOK
  <2>3. g.work \in Seq(KnownTask(h))
    BY <1>2 DEF Good, UsedOK, WorkOK
  <2> QED
    BY <1>2, <1>4, <2>1, <2>2, <2>3, UsedSame DEF Good
<1>6. CollectorsOK(g)
  <2>1. CollectorsOK(h)
    BY DEF Good
  <2>2. \A p \in Objects : g.obj[p].collector = h.obj[p].collector
    BY <1>3
  <2> QED
    BY <1>2, <2>1, <2>2, FrameCollectors
<1>7. Good(g)
  BY <1>2, <1>5, <1>6 DEF Good
<1> QED
  BY <1>4, <1>7 DEF g

\* Writing a link, allocating it if need be, keeps the heap good
\* (link_create, link.c:10-17).
LEMMA LinkUpdate ==
  ASSUME NEW h, Good(h), NEW l \in Links, NEW r \in Link,
         r.state # "none", r.src \in Known(h), r.target \in Known(h)
  PROVE  /\ Good([h EXCEPT !.link[l] = r])
         /\ Allocated([h EXCEPT !.link[l] = r]) = Allocated(h) \cup {l}
         /\ Known([h EXCEPT !.link[l] = r]) = Known(h)
<1> DEFINE g == [h EXCEPT !.link[l] = r]
<1>1. h \in HeapType
  BY DEF Good
<1>2. /\ g \in HeapType
      /\ g.obj = h.obj /\ g.coll = h.coll /\ g.work = h.work
      /\ g.link = [h.link EXCEPT ![l] = r]
  BY <1>1 DEF HeapType
<1> HIDE DEF g
<1>3. \A k \in Links : g.link[k] = IF k = l THEN r ELSE h.link[k]
  BY <1>1, <1>2 DEF HeapType
<1>4. Allocated(g) = Allocated(h) \cup {l} /\ Known(g) = Known(h)
  BY <1>2, <1>3 DEF Allocated, Known
<1>5. UsedOK(g)
  <2>1. LinksOK(g)
    BY <1>3, <1>4 DEF Good, UsedOK, LinksOK, Allocated
  <2>2. TablesOK(g) /\ MembersOK(g)
    BY <1>2, <1>4 DEF Good, UsedOK, TablesOK, MembersOK
  <2>3. ListsOK(g) /\ WorkOK(g)
    BY <1>2, <1>4 DEF Good, UsedOK, ListsOK, WorkOK, KnownTask
  <2> QED
    BY <2>1, <2>2, <2>3 DEF UsedOK
<1>6. CollectorsOK(g)
  BY <1>2 DEF Good, CollectorsOK, Acyclic, RefExact, DeadUnused, Members, Merged
<1>7. Good(g)
  BY <1>2, <1>5, <1>6 DEF Good
<1> QED
  BY <1>4, <1>7 DEF g

\* Writing a collector's lists keeps the heap good (safelist.c).
LEMMA ListsUpdate ==
  ASSUME NEW h, Good(h), NEW c \in Collectors,
         NEW ls \in [ListNames -> Seq(Known(h))]
  PROVE  /\ Good([h EXCEPT !.coll[c].lists = ls])
         /\ SameUsed(h, [h EXCEPT !.coll[c].lists = ls])
<1> DEFINE g == [h EXCEPT !.coll[c].lists = ls]
           k == [h.coll[c] EXCEPT !.lists = ls]
<1>1. h \in HeapType
  BY DEF Good
<1>2. h.coll[c] \in Collector /\ ls \in [ListNames -> Seq(Objects)]
  <2>1. \A l \in ListNames : ls[l] \in Seq(Objects)
    BY KnownSeq
  <2> QED
    BY <1>1, <2>1 DEF HeapType
<1>3. /\ k \in Collector /\ k.lists = ls
      /\ k.live = h.coll[c].live
      /\ k.ref_count = h.coll[c].ref_count
      /\ k.forward = h.coll[c].forward
  BY <1>2 DEF Collector
<1>4. g = [h EXCEPT !.coll = [h.coll EXCEPT ![c] = k]]
  OBVIOUS
<1> HIDE DEF k, g
<1>5. /\ g \in HeapType
      /\ g.obj = h.obj /\ g.link = h.link /\ g.work = h.work
      /\ g.coll = [h.coll EXCEPT ![c] = k]
  BY <1>1, <1>3, <1>4 DEF HeapType
<1>6. \A d \in Collectors : g.coll[d] = IF d = c THEN k ELSE h.coll[d]
  BY <1>1, <1>5 DEF HeapType
<1>7. CollectorsOK(g)
  <2>1. CollectorsOK(h)
    BY DEF Good
  <2>2. \A d \in Collectors : /\ g.coll[d].forward = h.coll[d].forward
                              /\ g.coll[d].ref_count = h.coll[d].ref_count
                              /\ g.coll[d].live = h.coll[d].live
    BY <1>3, <1>6
  <2> QED
    BY <1>5, <2>1, <2>2, FrameCollectors
<1>8. SameUsed(h, g)
  BY <1>5 DEF SameUsed, Allocated, Known
<1>9. \A d \in Collectors : g.coll[d].lists \in [ListNames -> Seq(Known(h))]
  BY <1>3, <1>6 DEF Good, UsedOK, ListsOK
<1>10. UsedOK(g)
  BY <1>5, <1>8, <1>9, UsedSame DEF Good, UsedOK, MembersOK, TablesOK, WorkOK
<1>11. Good(g)
  BY <1>5, <1>7, <1>10 DEF Good
<1> QED
  BY <1>8, <1>11 DEF g

\* Writing the queue of tasks keeps the heap good (task.c:34-38, 57-71).
LEMMA WorkUpdate ==
  ASSUME NEW h, Good(h), NEW q \in Seq(KnownTask(h))
  PROVE  /\ Good([h EXCEPT !.work = q])
         /\ SameUsed(h, [h EXCEPT !.work = q])
<1> DEFINE g == [h EXCEPT !.work = q]
<1>1. q \in Seq(Task)
  <2>1. KnownTask(h) \subseteq Task
    BY DEF KnownTask, Task, Known
  <2> QED
    BY <2>1, SeqMonotonic
<1>2. /\ g \in HeapType
      /\ g.obj = h.obj /\ g.coll = h.coll /\ g.link = h.link
      /\ g.work = q
  BY <1>1 DEF Good, HeapType
<1> HIDE DEF g
<1>3. SameUsed(h, g)
  BY <1>2 DEF SameUsed, Allocated, Known
<1>4. UsedOK(g)
  BY <1>2, <1>3, UsedSame DEF Good, UsedOK, MembersOK, TablesOK, ListsOK
<1>5. CollectorsOK(g)
  BY <1>2, FrameCollectors DEF Good
<1> QED
  BY <1>2, <1>3, <1>4, <1>5 DEF g, Good

\* g is h with c as the collector of o, up to reference counts.
CollectorSet(h, o, c, g) ==
  /\ Good(g) /\ SameUsed(h, g)
  /\ g.obj = [h.obj EXCEPT ![o].collector = c]
  /\ \A d \in Collectors : /\ g.coll[d].live = h.coll[d].live
                          /\ g.coll[d].forward = h.coll[d].forward
                          /\ g.coll[d].lists = h.coll[d].lists
  /\ g.work = h.work /\ g.link = h.link

\* object_set_collector moves one pointer and the two reference counts with
\* it (object.c:25-37).
LEMMA SetCollector ==
  ASSUME NEW h, Good(h), NEW o \in Objects, NEW c \in Collectors \cup {NULL},
         c # NULL => h.coll[c].live /\ o \in Known(h)
  PROVE  CollectorSet(h, o, c, object_set_collector(h, o, c))
<1> DEFINE was == h.obj[o].collector
           r == [h.obj[o] EXCEPT !.collector = c]
           k(d) == [h.coll[d] EXCEPT !.ref_count =
                      @ + (IF d = c THEN 1 ELSE 0) - (IF d = was THEN 1 ELSE 0)]
           g == [h EXCEPT !.obj = [h.obj EXCEPT ![o] = r],
                          !.coll = [d \in Collectors |-> k(d)]]
<1>1. h \in HeapType /\ h.obj[o] \in Object
  BY DEF Good, HeapType
<1>2. CASE was = c
  <2>1. object_set_collector(h, o, c) = h
    BY <1>2 DEF object_set_collector
  <2>2. [h.obj EXCEPT ![o].collector = c] = h.obj
    BY <1>1, <1>2 DEF HeapType, Object
  <2> QED
    BY <2>1, <2>2 DEF CollectorSet, SameUsed
<1>3. CASE was # c
  <2>1. object_set_collector(h, o, c) = g
    BY <1>1, <1>3 DEF object_set_collector, counter_ref, HeapType
  <2>2. /\ r \in Object /\ r.collector = c
        /\ r.links = h.obj[o].links /\ r.state = h.obj[o].state
    BY <1>1 DEF Object
  <2>3. \A d \in Collectors :
          /\ k(d) \in Collector
          /\ k(d).live = h.coll[d].live
          /\ k(d).forward = h.coll[d].forward
          /\ k(d).lists = h.coll[d].lists
          /\ k(d).ref_count = h.coll[d].ref_count
                + (IF d = c THEN 1 ELSE 0) - (IF d = was THEN 1 ELSE 0)
    <3> TAKE d \in Collectors
    <3> DEFINE i == IF d = c THEN 1 ELSE 0
               j == IF d = was THEN 1 ELSE 0
    <3>1. h.coll[d] \in Collector
      BY <1>1 DEF HeapType
    <3>2. i \in Int /\ j \in Int
      OBVIOUS
    <3>3. k(d) = [h.coll[d] EXCEPT !.ref_count = @ + i - j]
      OBVIOUS
    <3> HIDE DEF i, j, k
    <3>4. /\ k(d) \in Collector
          /\ k(d).live = h.coll[d].live
          /\ k(d).forward = h.coll[d].forward
          /\ k(d).lists = h.coll[d].lists
          /\ k(d).ref_count = h.coll[d].ref_count + i - j
      BY <3>1, <3>2, <3>3 DEF Collector
    <3> QED
      BY <3>4 DEF i, j
  <2>4. [h.obj EXCEPT ![o].collector = c] = [h.obj EXCEPT ![o] = r]
    OBVIOUS
  <2> HIDE DEF k, r
  <2>5. /\ g \in HeapType
        /\ g.obj = [h.obj EXCEPT ![o] = r]
        /\ g.coll = [d \in Collectors |-> k(d)]
        /\ g.link = h.link /\ g.work = h.work
    BY <1>1, <2>2, <2>3 DEF HeapType
  <2> HIDE DEF g
  <2>6. \A p \in Objects : g.obj[p] = IF p = o THEN r ELSE h.obj[p]
    BY <1>1, <2>5 DEF HeapType
  <2>7. \A d \in Collectors : g.coll[d] = k(d)
    BY <2>5
  <2>8. Acyclic(g)
    BY <2>3, <2>7 DEF Good, CollectorsOK, Acyclic
  <2>9. RefExact(g)
    <3> SUFFICES ASSUME NEW d \in Collectors
                 PROVE  g.coll[d].ref_count
                          = Cardinality(Members(g, d)) + Cardinality(Merged(g, d))
      BY DEF RefExact
    <3>1. h.coll[d].ref_count
            = Cardinality(Members(h, d)) + Cardinality(Merged(h, d))
      BY DEF Good, CollectorsOK, RefExact
    <3>2. Merged(g, d) = Merged(h, d)
      BY <2>3, <2>7 DEF Merged
    <3>3. IsFiniteSet(Members(h, d)) /\ IsFiniteSet(Merged(h, d))
      BY FS_Subset, HeapAssumption DEF Members, Merged
    <3>4. Cardinality(Members(h, d)) \in Nat /\ Cardinality(Merged(h, d)) \in Nat
      BY <3>3, FS_CardinalityType
    <3>5. CASE d = c
      <4>1. Members(g, d) = Members(h, d) \cup {o} /\ o \notin Members(h, d)
        BY <1>3, <2>2, <2>6, <3>5 DEF Members
      <4>2. Cardinality(Members(g, d)) = Cardinality(Members(h, d)) + 1
        BY <3>3, <4>1, FS_AddElement
      <4> QED
        BY <1>3, <2>3, <2>7, <3>1, <3>2, <3>4, <3>5, <4>2
    <3>6. CASE d = was
      <4>1. Members(g, d) = Members(h, d) \ {o} /\ o \in Members(h, d)
        BY <1>3, <2>2, <2>6, <3>6 DEF Members
      <4>2. Cardinality(Members(g, d)) = Cardinality(Members(h, d)) - 1
        BY <3>3, <4>1, FS_RemoveElement
      <4> QED
        BY <1>3, <2>3, <2>7, <3>1, <3>2, <3>4, <3>6, <4>2
    <3>7. CASE d # c /\ d # was
      <4>1. Members(g, d) = Members(h, d)
        BY <2>2, <2>6, <3>7 DEF Members
      <4> QED
        BY <2>3, <2>7, <3>1, <3>2, <3>4, <3>7, <4>1
    <3> QED
      BY <3>5, <3>6, <3>7
  <2>10. DeadUnused(g)
    <3> SUFFICES ASSUME NEW d \in Collectors, ~g.coll[d].live
                 PROVE  g.coll[d].ref_count = 0 /\ g.coll[d].forward = NULL
      BY DEF DeadUnused
    <3>1. h.coll[d].ref_count = 0 /\ h.coll[d].forward = NULL /\ d # c
      BY <2>3, <2>7, HeapAssumption DEF Good, CollectorsOK, DeadUnused
    <3>2. d # was
      <4> SUFFICES ASSUME d = was PROVE FALSE
        OBVIOUS
      <4>1. o \in Members(h, d)
        BY DEF Members
      <4>2. IsFiniteSet(Members(h, d)) /\ IsFiniteSet(Merged(h, d))
        BY FS_Subset, HeapAssumption DEF Members, Merged
      <4>3. Cardinality(Members(h, d)) # 0
        BY <4>1, <4>2, FS_EmptySet
      <4> QED
        BY <3>1, <4>2, <4>3, FS_CardinalityType DEF Good, CollectorsOK, RefExact
    <3> QED
      BY <2>3, <2>7, <3>1, <3>2
  <2>11. SameUsed(h, g)
    BY <2>2, <2>5, <2>6 DEF SameUsed, Allocated, Known
  <2>12. \A p \in Objects :
           /\ g.obj[p].collector # NULL => p \in Known(h)
           /\ \A f \in Fields :
                g.obj[p].links[f] # NULL => g.obj[p].links[f] \in Allocated(h)
    BY <2>2, <2>6 DEF Good, UsedOK, MembersOK, TablesOK
  <2>13. \A d \in Collectors : g.coll[d].lists \in [ListNames -> Seq(Known(h))]
    BY <2>3, <2>7 DEF Good, UsedOK, ListsOK
  <2>14. UsedOK(g)
    BY <2>5, <2>11, <2>12, <2>13, UsedSame DEF Good, UsedOK, WorkOK
  <2>15. Good(g)
    BY <2>5, <2>8, <2>9, <2>10, <2>14 DEF Good, CollectorsOK
  <2> QED
    BY <2>1, <2>3, <2>4, <2>5, <2>7, <2>11, <2>15 DEF CollectorSet
<1> QED
  BY <1>2, <1>3

\* What an object or a forward pointer leads to is allocated: its reference
\* count is positive, so counter_done did not hold (counter.c:50-56).
LEMMA PointedLive ==
  ASSUME NEW h, Good(h)
  PROVE  /\ \A o \in Objects :
              h.obj[o].collector # NULL =>
                /\ h.obj[o].collector \in Collectors
                /\ h.coll[h.obj[o].collector].live
                /\ o \in Known(h)
         /\ \A d \in Collectors :
              h.coll[d].forward # NULL =>
                /\ h.coll[d].forward \in Collectors
                /\ h.coll[h.coll[d].forward].live
<1>1. h \in HeapType
  BY DEF Good
<1>2. \A c \in Collectors :
        /\ IsFiniteSet(Members(h, c)) /\ IsFiniteSet(Merged(h, c))
        /\ Cardinality(Members(h, c)) \in Nat /\ Cardinality(Merged(h, c)) \in Nat
  BY FS_Subset, FS_CardinalityType, HeapAssumption DEF Members, Merged
<1>3. \A c \in Collectors :
        ~h.coll[c].live => Members(h, c) = {} /\ Merged(h, c) = {}
  <2> SUFFICES ASSUME NEW c \in Collectors, ~h.coll[c].live
               PROVE  Members(h, c) = {} /\ Merged(h, c) = {}
    OBVIOUS
  <2>1. Cardinality(Members(h, c)) + Cardinality(Merged(h, c)) = 0
    BY DEF Good, CollectorsOK, RefExact, DeadUnused
  <2>2. Cardinality(Members(h, c)) = 0 /\ Cardinality(Merged(h, c)) = 0
    BY <1>2, <2>1
  <2> QED
    BY <1>2, <2>2, FS_EmptySet
<1>4. \A o \in Objects : h.obj[o].collector \in Collectors \cup {NULL}
  BY <1>1 DEF HeapType, Object
<1>5. \A d \in Collectors : h.coll[d].forward \in Collectors \cup {NULL}
  BY <1>1 DEF HeapType, Collector
<1> QED
  BY <1>3, <1>4, <1>5 DEF Members, Merged, Good, UsedOK, MembersOK

\* collector_update ends, at a live collector that has not been merged
\* (collector.c:185-200).
LEMMA UpdateCollector ==
  ASSUME NEW h, Good(h), NEW c \in Collectors, h.coll[c].live
  PROVE  /\ collector_update(h, c) \in Collectors
         /\ h.coll[collector_update(h, c)].live
         /\ h.coll[collector_update(h, c)].forward = NULL
         /\ collector_update(h, c) \in ForwardChain(h, c)
<1> DEFINE S == ForwardChain(h, c)
           L == {d \in Collectors : h.coll[d].live}
<1>1. c \in S /\ S \subseteq Collectors
  BY DEF ForwardChain
<1>2. ForwardClosed(h, S)
  BY PointedLive DEF ForwardClosed, ForwardChain
<1>3. PICK d \in S : h.coll[d].forward \notin S
  BY <1>1 DEF Good, CollectorsOK, Acyclic
<1>4. h.coll[d].forward = NULL
  BY <1>2, <1>3 DEF ForwardClosed
<1>5. ForwardClosed(h, L)
  BY PointedLive DEF ForwardClosed
<1>6. S \subseteq L
  BY <1>5 DEF ForwardChain
<1>7. CASE h.coll[c].forward = NULL
  BY <1>1, <1>7 DEF collector_update
<1>8. CASE h.coll[c].forward # NULL
  <2>1. collector_update(h, c) = CHOOSE e \in S : h.coll[e].forward = NULL
    BY <1>8 DEF collector_update
  <2>2. collector_update(h, c) \in S
        /\ h.coll[collector_update(h, c)].forward = NULL
    BY <1>3, <1>4, <2>1
  <2> QED
    BY <1>6, <2>2
<1> QED
  BY <1>7, <1>8

\* A collector nobody counts on may be freed, and a free one created
\* (collector.c:11-40).
LEMMA CollectorReset ==
  ASSUME NEW h, Good(h), NEW c \in Collectors, NEW b \in BOOLEAN,
         h.coll[c].ref_count = 0, h.coll[c].forward = NULL
  PROVE  LET g == [h EXCEPT !.coll[c] = [NoCollector EXCEPT !.live = b]]
         IN  /\ Good(g) /\ SameUsed(h, g)
             /\ g.obj = h.obj /\ g.link = h.link /\ g.work = h.work
             /\ g.coll[c].live = b
             /\ \A d \in Collectors \ {c} : g.coll[d] = h.coll[d]
<1> DEFINE k == [NoCollector EXCEPT !.live = b]
           g == [h EXCEPT !.coll[c] = k]
<1>1. h \in HeapType
  BY DEF Good
<1>2. /\ k \in Collector /\ k.lists \in [ListNames -> Seq(Known(h))]
      /\ k.live = b /\ k.ref_count = 0 /\ k.forward = NULL
  <2> DEFINE ls == [l \in ListNames |-> <<>>]
  <2>1. /\ ls \in [ListNames -> Seq(Objects)]
        /\ ls \in [ListNames -> Seq(Known(h))]
    BY EmptySeq
  <2>2. k = [live |-> b, ref_count |-> 0, forward |-> NULL, lists |-> ls]
    BY DEF NoCollector
  <2> HIDE DEF k, ls
  <2> QED
    BY <2>1, <2>2 DEF Collector
<1> HIDE DEF k
<1>3. /\ g \in HeapType
      /\ g.obj = h.obj /\ g.link = h.link /\ g.work = h.work
      /\ g.coll = [h.coll EXCEPT ![c] = k]
  BY <1>1, <1>2 DEF HeapType
<1> HIDE DEF g
<1>4. \A d \in Collectors : g.coll[d] = IF d = c THEN k ELSE h.coll[d]
  BY <1>1, <1>3 DEF HeapType
<1>5. \A d \in Collectors : /\ g.coll[d].forward = h.coll[d].forward
                            /\ g.coll[d].ref_count = h.coll[d].ref_count
  BY <1>2, <1>4
<1>6. \A d : Members(g, d) = Members(h, d) /\ Merged(g, d) = Merged(h, d)
  BY <1>3, <1>5 DEF Members, Merged
<1>7. Acyclic(g) /\ RefExact(g)
  BY <1>5, <1>6 DEF Good, CollectorsOK, Acyclic, RefExact
<1>8. DeadUnused(g)
  BY <1>2, <1>4 DEF Good, CollectorsOK, DeadUnused
<1>9. SameUsed(h, g)
  BY <1>3 DEF SameUsed, Allocated, Known
<1>10. \A d \in Collectors : g.coll[d].lists \in [ListNames -> Seq(Known(h))]
  BY <1>2, <1>4 DEF Good, UsedOK, ListsOK
<1>11. UsedOK(g)
  BY <1>3, <1>9, <1>10, UsedSame DEF Good, UsedOK, MembersOK, TablesOK, WorkOK
<1>12. Good(g)
  BY <1>3, <1>7, <1>8, <1>11 DEF Good, CollectorsOK
<1>13. /\ Good(g) /\ SameUsed(h, g)
       /\ g.obj = h.obj /\ g.link = h.link /\ g.work = h.work
       /\ g.coll[c].live = b
       /\ \A d \in Collectors \ {c} : g.coll[d] = h.coll[d]
  BY <1>2, <1>3, <1>4, <1>9, <1>12
<1> QED
  BY <1>13 DEF g, k

\* collector_set_forward to a live collector that forwards nowhere makes no
\* cycle and keeps reference counts exact (collector.c:42-58).
LEMMA SetForward ==
  ASSUME NEW h, Good(h), NEW c \in Collectors, NEW f \in Collectors \cup {NULL},
         f # NULL => /\ f # c /\ h.coll[c].live
                     /\ h.coll[f].live /\ h.coll[f].forward = NULL
  PROVE  LET g == collector_set_forward(h, c, f)
         IN  /\ Good(g) /\ SameUsed(h, g)
             /\ g.obj = h.obj /\ g.link = h.link /\ g.work = h.work
             /\ g.coll[c].forward = f
             /\ \A d \in Collectors :
                  /\ g.coll[d].live = h.coll[d].live
                  /\ d \notin {f, h.coll[c].forward} =>
                       g.coll[d].ref_count = h.coll[d].ref_count
<1> DEFINE was == h.coll[c].forward
           i(d) == IF d = f THEN 1 ELSE 0
           j(d) == IF d = was THEN 1 ELSE 0
           e(d) == IF d = c THEN f ELSE h.coll[d].forward
           k(d) == [h.coll[d] EXCEPT !.ref_count = @ + i(d) - j(d),
                                     !.forward = e(d)]
           g == [h EXCEPT !.coll = [d \in Collectors |-> k(d)]]
<1>1. h \in HeapType /\ was \in Collectors \cup {NULL}
  BY DEF Good, HeapType, Collector
<1>2. CASE was = f
  <2>1. collector_set_forward(h, c, f) = h
    BY <1>2 DEF collector_set_forward
  <2> QED
    BY <1>2, <2>1 DEF SameUsed
<1>3. CASE was # f
  <2>1. \A d \in Collectors :
          /\ k(d) \in Collector
          /\ k(d).live = h.coll[d].live
          /\ k(d).forward = e(d)
          /\ k(d).lists = h.coll[d].lists
          /\ k(d).ref_count = h.coll[d].ref_count + i(d) - j(d)
    <3> TAKE d \in Collectors
    <3>1. h.coll[d] \in Collector
      BY <1>1 DEF HeapType
    <3>2. i(d) \in Int /\ j(d) \in Int
      OBVIOUS
    <3>3. e(d) \in Collectors \cup {NULL}
      BY <3>1 DEF Collector
    <3>4. k(d) = [h.coll[d] EXCEPT !.ref_count = @ + i(d) - j(d),
                                   !.forward = e(d)]
      OBVIOUS
    <3> DEFINE n == h.coll[d].ref_count + i(d) - j(d)
    <3> HIDE DEF i, j, e, k
    <3>5. n \in Int
      BY <3>1, <3>2 DEF Collector
    <3>6. k(d) = [h.coll[d] EXCEPT !.ref_count = n, !.forward = e(d)]
      BY <3>4
    <3>7. k(d).ref_count = n
      BY <3>1, <3>6 DEF Collector
    <3> HIDE DEF n
    <3>8. /\ k(d) \in Collector
          /\ k(d).live = h.coll[d].live
          /\ k(d).forward = e(d)
          /\ k(d).lists = h.coll[d].lists
      BY <3>1, <3>3, <3>5, <3>6 DEF Collector
    <3> QED
      BY <3>7, <3>8 DEF n
  <2>2. collector_set_forward(h, c, f) = g
    <3>1. collector_set_forward(h, c, f)
            = [counter_ref(h, f, was) EXCEPT !.coll[c].forward = f]
      BY <1>3 DEF collector_set_forward
    <3>2. DOMAIN h.coll = Collectors /\ \A d \in Collectors : h.coll[d] \in Collector
      BY <1>1 DEF HeapType
    <3>3. counter_ref(h, f, was) =
            [h EXCEPT !.coll = [d \in Collectors |->
               [h.coll[d] EXCEPT !.ref_count = @ + i(d) - j(d)]]]
      BY DEF counter_ref
    <3> HIDE DEF i, j
    <3>4. \A d \in Collectors :
            [[h.coll[d] EXCEPT !.ref_count = @ + i(d) - j(d)] EXCEPT !.forward = e(d)]
              = k(d)
      OBVIOUS
    <3>5. \A d \in Collectors \ {c} :
            [h.coll[d] EXCEPT !.ref_count = @ + i(d) - j(d)] = k(d)
      BY <3>2 DEF Collector
    <3>6. [[d \in Collectors |-> [h.coll[d] EXCEPT !.ref_count = @ + i(d) - j(d)]]
             EXCEPT ![c].forward = f] = [d \in Collectors |-> k(d)]
      BY <3>4, <3>5
    <3> HIDE DEF k
    <3> QED
      BY <1>1, <3>1, <3>3, <3>6 DEF HeapType
  <2> HIDE DEF k
  <2>3. /\ g \in HeapType
        /\ g.obj = h.obj /\ g.link = h.link /\ g.work = h.work
        /\ \A d \in Collectors : g.coll[d] = k(d)
    BY <1>1, <2>1 DEF HeapType
  <2> HIDE DEF g
  <2>4. Acyclic(g)
    <3> SUFFICES ASSUME NEW S \in SUBSET Collectors, S # {}
                 PROVE  \E d \in S : g.coll[d].forward \notin S
      BY DEF Acyclic
    <3>1. PICK d \in S : h.coll[d].forward \notin S
      BY DEF Good, CollectorsOK, Acyclic
    <3>2. CASE d # c
      BY <2>1, <2>3, <3>1, <3>2
    <3>3. CASE d = c /\ f \notin S
      BY <2>1, <2>3, <3>3
    <3>4. CASE d = c /\ f \in S
      BY <2>1, <2>3, <3>4, HeapAssumption
    <3> QED
      BY <3>2, <3>3, <3>4
  <2>5. RefExact(g)
    <3> SUFFICES ASSUME NEW d \in Collectors
                 PROVE  g.coll[d].ref_count
                          = Cardinality(Members(g, d)) + Cardinality(Merged(g, d))
      BY DEF RefExact
    <3>1. h.coll[d].ref_count
            = Cardinality(Members(h, d)) + Cardinality(Merged(h, d))
      BY DEF Good, CollectorsOK, RefExact
    <3>2. Members(g, d) = Members(h, d)
      BY <2>3 DEF Members
    <3>3. IsFiniteSet(Members(h, d)) /\ IsFiniteSet(Merged(h, d))
      BY FS_Subset, HeapAssumption DEF Members, Merged
    <3>4. Cardinality(Members(h, d)) \in Nat /\ Cardinality(Merged(h, d)) \in Nat
      BY <3>3, FS_CardinalityType
    <3>5. CASE d = f
      <4>1. Merged(g, d) = Merged(h, d) \cup {c} /\ c \notin Merged(h, d)
        BY <1>3, <2>1, <2>3, <3>5 DEF Merged
      <4>2. Cardinality(Merged(g, d)) = Cardinality(Merged(h, d)) + 1
        BY <3>3, <4>1, FS_AddElement
      <4> QED
        BY <1>3, <2>1, <2>3, <3>1, <3>2, <3>4, <3>5, <4>2
    <3>6. CASE d = was
      <4>1. Merged(g, d) = Merged(h, d) \ {c} /\ c \in Merged(h, d)
        BY <1>3, <2>1, <2>3, <3>6 DEF Merged
      <4>2. Cardinality(Merged(g, d)) = Cardinality(Merged(h, d)) - 1
        BY <3>3, <4>1, FS_RemoveElement
      <4> QED
        BY <1>3, <2>1, <2>3, <3>1, <3>2, <3>4, <3>6, <4>2
    <3>7. CASE d # f /\ d # was
      <4>1. Merged(g, d) = Merged(h, d)
        BY <2>1, <2>3, <3>7 DEF Merged
      <4> QED
        BY <2>1, <2>3, <3>1, <3>2, <3>4, <3>7, <4>1
    <3> QED
      BY <3>5, <3>6, <3>7
  <2>6. DeadUnused(g)
    <3> SUFFICES ASSUME NEW d \in Collectors, ~g.coll[d].live
                 PROVE  g.coll[d].ref_count = 0 /\ g.coll[d].forward = NULL
      BY DEF DeadUnused
    <3>1. ~h.coll[d].live
      BY <2>1, <2>3
    <3>2. h.coll[d].ref_count = 0 /\ h.coll[d].forward = NULL
      BY <3>1 DEF Good, CollectorsOK, DeadUnused
    <3>3. d # f /\ d # was
      BY <3>1, PointedLive, HeapAssumption
    <3>4. d = c => f = NULL
      BY <3>1
    <3> QED
      BY <2>1, <2>3, <3>2, <3>3, <3>4
  <2>7. Good(g) /\ SameUsed(h, g)
    <3>1. SameUsed(h, g)
      BY <2>3 DEF SameUsed, Allocated, Known
    <3>2. \A d \in Collectors : g.coll[d].lists \in [ListNames -> Seq(Known(h))]
      BY <2>1, <2>3 DEF Good, UsedOK, ListsOK
    <3>3. UsedOK(g)
      BY <2>3, <3>1, <3>2, UsedSame DEF Good, UsedOK, MembersOK, TablesOK, WorkOK
    <3> QED
      BY <2>3, <2>4, <2>5, <2>6, <3>1, <3>3 DEF Good, CollectorsOK
  <2>8. g.coll[c].forward = f
    BY <2>1, <2>3
  <2>9. \A d \in Collectors :
          /\ g.coll[d].live = h.coll[d].live
          /\ d \notin {f, was} => g.coll[d].ref_count = h.coll[d].ref_count
    <3> TAKE d \in Collectors
    <3>1. h.coll[d].ref_count \in Int
      BY <1>1 DEF HeapType, Collector
    <3> QED
      BY <2>1, <2>3, <3>1
  <2> QED
    BY <2>2, <2>3, <2>7, <2>8, <2>9
<1> QED
  BY <1>2, <1>3
-----------------------------------------------------------------------------
(* The functions of safelist.c, collector.c, link.c and object.c *)

\* g is a good heap with the memory of h, and the pool of collectors is used
\* as in h.
Keeps(h, g) ==
  /\ Good(g)
  /\ SameUsed(h, g)
  /\ \A c \in Collectors : g.coll[c].live = h.coll[c].live

\* Each object keeps its collector and each collector its forward pointer.
SameNodes(h, g) ==
  \A o \in Objects : /\ g.obj[o].collector = h.obj[o].collector
                     /\ g.obj[o].which = h.obj[o].which

\* An object's counts are integers and its bits index them (object.h:9-25).
LEMMA CountsInt ==
  ASSUME NEW h, Good(h), NEW o \in Objects
  PROVE  /\ h.obj[o].which \in 0..2 /\ Flip(h.obj[o].which) \in 0..2
         /\ Phantom \in 0..2
         /\ \A w \in 0..2 : /\ h.obj[o].count[w] \in Int
                            /\ h.obj[o].count[w] + 1 \in Int
                            /\ h.obj[o].count[w] - 1 \in Int
<1>1. h.obj[o] \in Object
  BY DEF Good, HeapType
<1>2. h.obj[o].which \in {0, 1}
  BY <1>1 DEF Object, Bits
<1>3. \A w \in 0..2 : h.obj[o].count[w] \in Int
  BY <1>1 DEF Object
<1> QED
  BY <1>2, <1>3 DEF Flip, Phantom

\* Changing one of an object's counts disturbs nothing else.
LEMMA CountUpdate ==
  ASSUME NEW h, Good(h), NEW o \in Objects, NEW w \in 0..2, NEW v \in Int
  PROVE  LET g == [h EXCEPT !.obj[o].count[w] = v]
         IN  /\ Keeps(h, g) /\ SameNodes(h, g)
             /\ g.coll = h.coll /\ g.link = h.link /\ g.work = h.work
<1> DEFINE n == [h.obj[o].count EXCEPT ![w] = v]
           r == [h.obj[o] EXCEPT !.count = n]
           g == [h EXCEPT !.obj[o] = r]
<1>1. h \in HeapType /\ h.obj[o] \in Object
  BY DEF Good, HeapType
<1>2. n \in [0..2 -> Int]
  BY <1>1 DEF Object
<1>3. [h EXCEPT !.obj[o].count[w] = v] = g
  OBVIOUS
<1> HIDE DEF n
<1>4. /\ r \in Object /\ r.collector = h.obj[o].collector
      /\ r.links = h.obj[o].links /\ r.which = h.obj[o].which
      /\ r.state = h.obj[o].state
  BY <1>1, <1>2 DEF Object
<1> HIDE DEF r
<1>5. \A f \in Fields : r.links[f] # NULL => r.links[f] \in Allocated(h)
  BY <1>4 DEF Good, UsedOK, TablesOK
<1>6. Good(g) /\ SameUsed(h, g)
  BY <1>4, <1>5, ObjectUpdate
<1>7. /\ g.coll = h.coll /\ g.link = h.link /\ g.work = h.work
      /\ g.obj = [h.obj EXCEPT ![o] = r]
  BY <1>1 DEF HeapType
<1>8. SameNodes(h, g)
  BY <1>1, <1>4, <1>7 DEF SameNodes, HeapType
<1> QED
  BY <1>3, <1>6, <1>7, <1>8 DEF Keeps

\* task_start only appends to the queue (task.c:34-38).
LEMMA StartTask ==
  ASSUME NEW h, Good(h), NEW run, NEW arg,
         [run |-> run, arg |-> arg] \in KnownTask(h)
  PROVE  LET g == task_start(h, run, arg)
         IN  /\ Keeps(h, g) /\ SameNodes(h, g)
             /\ g.obj = h.obj /\ g.coll = h.coll /\ g.link = h.link
<1> DEFINE q == Append(h.work, [run |-> run, arg |-> arg])
           g == [h EXCEPT !.work = q]
<1>1. h \in HeapType
  BY DEF Good
<1>2. q \in Seq(KnownTask(h))
  BY DEF Good, UsedOK, WorkOK
<1>3. task_start(h, run, arg) = g
  BY DEF task_start
<1> HIDE DEF q
<1>4. Good(g) /\ SameUsed(h, g)
  BY <1>2, WorkUpdate
<1>5. g.obj = h.obj /\ g.coll = h.coll /\ g.link = h.link
  BY <1>1 DEF HeapType
<1> QED
  BY <1>3, <1>4, <1>5 DEF Keeps, SameNodes

\* An object without a collector gets a live one, and its task is queued
\* (object.c:129-133).
LEMMA StartCollectorGood ==
  ASSUME NEW h, Good(h), NEW o \in Known(h), CanCreate(h)
  PROVE  LET g == StartCollector(h, o)
         IN  /\ Good(g) /\ SameUsed(h, g)
             /\ g.obj[o].collector \in Collectors
<1> DEFINE c == FreshCollector(h)
           h1 == collector_create(h, c)
           h2 == object_set_collector(h1, o, c)
           h3 == task_start(h2, "collector_run", c)
<1>1. c \in Collectors /\ ~h.coll[c].live /\ o \in Objects
  BY DEF CanCreate, FreshCollector, Known
<1>2. StartCollector(h, o) = h3
  BY DEF StartCollector
<1> HIDE DEF c
<1>3. h.coll[c].ref_count = 0 /\ h.coll[c].forward = NULL
  BY <1>1 DEF Good, CollectorsOK, DeadUnused
<1>4. Good(h1) /\ SameUsed(h, h1) /\ h1.coll[c].live
  BY <1>1, <1>3, CollectorReset DEF collector_create
<1> HIDE DEF h1
<1>5. /\ Good(h2) /\ SameUsed(h1, h2)
      /\ h2.obj = [h1.obj EXCEPT ![o].collector = c]
  <2>1. o \in Known(h1)
    BY <1>4 DEF SameUsed
  <2>2. CollectorSet(h1, o, c, h2)
    BY <1>1, <1>4, <2>1, SetCollector
  <2> QED
    BY <2>2 DEF CollectorSet
<1> HIDE DEF h2
<1>6. h2.obj[o].collector = c
  BY <1>1, <1>4, <1>5 DEF Good, HeapType, Object
<1>7. [run |-> "collector_run", arg |-> c] \in KnownTask(h2)
  BY <1>1 DEF KnownTask
<1>8. Keeps(h2, h3) /\ h3.obj = h2.obj
  BY <1>5, <1>7, StartTask
<1> HIDE DEF h3
<1> QED
  BY <1>1, <1>2, <1>4, <1>5, <1>6, <1>8 DEF Keeps, SameUsed

\* Writing a collector's lists leaves every pointer and count as it was
\* (safelist.c:18-58).
LEMMA ListsGood ==
  ASSUME NEW h, Good(h), NEW c \in Collectors,
         NEW ls \in [ListNames -> Seq(Known(h))]
  PROVE  LET g == [h EXCEPT !.coll[c].lists = ls]
         IN  /\ Keeps(h, g) /\ SameNodes(h, g)
             /\ g.obj = h.obj /\ g.link = h.link /\ g.work = h.work
             /\ \A d \in Collectors :
                  /\ g.coll[d].forward = h.coll[d].forward
                  /\ g.coll[d].ref_count = h.coll[d].ref_count
             /\ g.coll[c].lists = ls
             /\ \A d \in Collectors \ {c} : g.coll[d] = h.coll[d]
<1> DEFINE k == [h.coll[c] EXCEPT !.lists = ls]
           g == [h EXCEPT !.coll[c].lists = ls]
<1>1. h \in HeapType /\ h.coll[c] \in Collector
  BY DEF Good, HeapType
<1>2. Good(g) /\ SameUsed(h, g)
  BY ListsUpdate
<1>3. /\ k.live = h.coll[c].live /\ k.forward = h.coll[c].forward
      /\ k.ref_count = h.coll[c].ref_count /\ k.lists = ls
  BY <1>1 DEF Collector
<1>4. g = [h EXCEPT !.coll = [h.coll EXCEPT ![c] = k]]
  OBVIOUS
<1> HIDE DEF g, k
<1>5. /\ g.obj = h.obj /\ g.link = h.link /\ g.work = h.work
      /\ g.coll = [h.coll EXCEPT ![c] = k]
  BY <1>1, <1>4 DEF HeapType
<1>6. \A d \in Collectors : g.coll[d] = IF d = c THEN k ELSE h.coll[d]
  BY <1>1, <1>5 DEF HeapType
<1>7. /\ Keeps(h, g) /\ SameNodes(h, g)
      /\ g.obj = h.obj /\ g.link = h.link /\ g.work = h.work
      /\ \A d \in Collectors :
           /\ g.coll[d].forward = h.coll[d].forward
           /\ g.coll[d].ref_count = h.coll[d].ref_count
      /\ g.coll[c].lists = ls
      /\ \A d \in Collectors \ {c} : g.coll[d] = h.coll[d]
  BY <1>2, <1>3, <1>5, <1>6 DEF Keeps, SameNodes
<1> QED
  BY <1>7 DEF g

\* g differs from h in the failed assertion at most.
SameBut(h, g) ==
  /\ Keeps(h, g) /\ SameNodes(h, g)
  /\ g.obj = h.obj /\ g.coll = h.coll
  /\ g.link = h.link /\ g.work = h.work

\* Two heaps with the same memory are equally good, whatever assertion
\* failed.
LEMMA SameParts ==
  ASSUME NEW h, Good(h), NEW g \in HeapType,
         g.obj = h.obj, g.coll = h.coll, g.link = h.link, g.work = h.work
  PROVE  SameBut(h, g)
<1>1. SameUsed(h, g)
  BY DEF SameUsed, Allocated, Known
<1>2. UsedOK(g)
  BY <1>1, UsedSame DEF Good, UsedOK, MembersOK, TablesOK, ListsOK, WorkOK
<1>3. CollectorsOK(g)
  BY FrameCollectors DEF Good
<1> QED
  BY <1>1, <1>2, <1>3 DEF Good, Keeps, SameNodes, SameBut

\* A heap differs from itself in nothing.
LEMMA KeepsSelf ==
  ASSUME NEW h, Good(h)
  PROVE  SameBut(h, h)
BY DEF Keeps, SameNodes, SameBut, SameUsed

\* The two parts of a call may be looked at one after the other.
LEMMA KeepsTrans ==
  ASSUME NEW h, NEW g, NEW k, Keeps(h, g), Keeps(g, k)
  PROVE  Keeps(h, k)
BY DEF Keeps, SameUsed

\* An assertion changes no memory, whether it fails or not.
LEMMA AssertSame ==
  ASSUME NEW h, Good(h), NEW P, NEW what \in Failures
  PROVE  SameBut(h, assert(h, P, what))
<1> DEFINE g == assert(h, P, what)
<1>1. /\ g \in HeapType
      /\ g.obj = h.obj /\ g.coll = h.coll /\ g.link = h.link
      /\ g.work = h.work
  BY DEF Good, HeapType, assert
<1> HIDE DEF g
<1>2. SameBut(h, g)
  BY <1>1, SameParts
<1> QED
  BY <1>2 DEF g

\* object_set_collector to a live collector keeps the heap good
\* (object.c:25-37).
LEMMA SetCollectorKeeps ==
  ASSUME NEW h, Good(h), NEW o \in Objects, NEW c \in Collectors \cup {NULL},
         c # NULL => h.coll[c].live /\ o \in Known(h)
  PROVE  Keeps(h, object_set_collector(h, o, c))
<1>1. CollectorSet(h, o, c, object_set_collector(h, o, c))
  BY SetCollector
<1> QED
  BY <1>1 DEF Keeps, CollectorSet

\* Writing the bit, the flag or the state of a link disturbs nothing else
\* (link.c, object.c:238-269).
LEMMA LinkFields ==
  ASSUME NEW h, Good(h), NEW l \in Allocated(h), NEW r \in Link,
         r.state # "none", r.src = h.link[l].src, r.target = h.link[l].target
  PROVE  LET g == [h EXCEPT !.link[l] = r]
         IN  /\ Keeps(h, g) /\ SameNodes(h, g)
             /\ g.obj = h.obj /\ g.coll = h.coll /\ g.work = h.work
<1> DEFINE g == [h EXCEPT !.link[l] = r]
<1>1. l \in Links /\ r.src \in Known(h) /\ r.target \in Known(h)
  BY DEF Good, UsedOK, LinksOK, Allocated
<1>2. Good(g) /\ SameUsed(h, g)
  BY <1>1, LinkUpdate DEF SameUsed
<1>3. g.obj = h.obj /\ g.coll = h.coll /\ g.work = h.work
  BY DEF Good, HeapType
<1> QED
  BY <1>2, <1>3 DEF Keeps, SameNodes

\* A list with one more allocated object is a list of allocated objects.
LEMMA AppendToList ==
  ASSUME NEW K, NEW m \in [ListNames -> Seq(K)], NEW l \in ListNames,
         NEW o \in K
  PROVE  [m EXCEPT ![l] = Append(@, o)] \in [ListNames -> Seq(K)]
<1>1. Append(m[l], o) \in Seq(K)
  OBVIOUS
<1> QED
  BY <1>1

\* collector_add_object follows the chain before it adds, so the object ends
\* with a live collector (collector.c:60-81).
LEMMA AddObjectGood ==
  ASSUME NEW h, Good(h), NEW o \in Known(h),
         NEW c \in Collectors, h.coll[c].live
  PROVE  LET g == collector_add_object(h, c, o)
         IN  Good(g) /\ SameUsed(h, g)
<1> DEFINE add_to == collector_update(h, c)
           w  == h.obj[o].which
           h1 == [h EXCEPT !.obj[o].count[w] = @ + 1]
           h2 == [h1 EXCEPT !.obj[o].count[Phantom] = @ + 1]
           ls == [h2.coll[add_to].lists EXCEPT !["collect"] = Append(@, o)]
           h3 == [h2 EXCEPT !.coll[add_to].lists = ls]
           h4 == object_set_collector(h3, o, add_to)
<1>1. add_to \in Collectors /\ h.coll[add_to].live /\ o \in Objects
  BY UpdateCollector DEF Known
<1>2. collector_add_object(h, c, o) = h4
  BY DEF collector_add_object
<1> HIDE DEF add_to
<1>3. w \in 0..2 /\ h.obj[o].count[w] + 1 \in Int
  BY <1>1, CountsInt
<1>4. Keeps(h, h1)
  BY <1>1, <1>3, CountUpdate
<1> HIDE DEF h1
<1>5. Phantom \in 0..2 /\ h1.obj[o].count[Phantom] + 1 \in Int
  BY <1>1, <1>4, CountsInt DEF Keeps
<1>6. Keeps(h1, h2)
  BY <1>1, <1>4, <1>5, CountUpdate DEF Keeps
<1> HIDE DEF h2
<1>7. ls \in [ListNames -> Seq(Known(h2))] /\ o \in Known(h2)
  <2>1. h2.coll[add_to].lists \in [ListNames -> Seq(Known(h2))]
    BY <1>1, <1>6 DEF Keeps, Good, UsedOK, ListsOK
  <2>2. o \in Known(h2)
    BY <1>4, <1>6 DEF Keeps, SameUsed
  <2> QED
    BY <2>1, <2>2, AppendToList DEF ListNames
<1> HIDE DEF ls
<1>8. Keeps(h2, h3)
  BY <1>1, <1>6, <1>7, ListsGood DEF Keeps
<1> HIDE DEF h3
<1>9. h3.coll[add_to].live /\ o \in Known(h3)
  BY <1>1, <1>4, <1>6, <1>7, <1>8 DEF Keeps, SameUsed
<1>10. Good(h4) /\ SameUsed(h3, h4)
  <2>1. Keeps(h3, h4)
    BY <1>1, <1>8, <1>9, SetCollectorKeeps DEF Keeps
  <2> QED
    BY <2>1 DEF Keeps
<1> QED
  BY <1>2, <1>4, <1>6, <1>8, <1>10 DEF Keeps, SameUsed

\* object_request_delete only queues a task (object.c:116-118).
LEMMA RequestDeleteGood ==
  ASSUME NEW h, Good(h), NEW o \in Known(h)
  PROVE  Keeps(h, object_request_delete(h, o))
<1>1. [run |-> "request_delete", arg |-> o] \in KnownTask(h)
  BY DEF KnownTask
<1> QED
  BY <1>1, StartTask DEF object_request_delete

\* object_dec keeps the heap good in each of its cases: count left, deletion,
\* collection (object.c:120-138).
LEMMA ObjectDecGood ==
  ASSUME NEW h, Good(h), NEW o \in Known(h), NEW w \in 0..2, CanCreate(h)
  PROVE  Good(object_dec(h, o, w)) /\ SameUsed(h, object_dec(h, o, w))
<1> DEFINE h1 == [h EXCEPT !.obj[o].count[w] = @ - 1]
           P  == h1.obj[o].count[w] >= 0
           h2 == assert(h1, P, "object_dec:123")
           h3 == IF h2.obj[o].collector = NULL THEN StartCollector(h2, o) ELSE h2
           g2 == object_request_delete(h2, o)
           g3 == collector_add_object(h3, h3.obj[o].collector, o)
<1>1. object_dec(h, o, w) \in {h2, g2, g3}
  BY DEF object_dec
<1>2. Keeps(h, h1)
  BY CountsInt, CountUpdate DEF Known
<1> HIDE DEF h1
<1> HIDE DEF P
<1>3. Keeps(h1, h2)
  <2>1. Good(h1)
    BY <1>2 DEF Keeps
  <2>2. "object_dec:123" \in Failures
    BY DEF Failures
  <2>3. SameBut(h1, h2)
    BY <2>1, <2>2, AssertSame
  <2> QED
    BY <2>3 DEF SameBut
<1> HIDE DEF h2
<1>4. /\ Keeps(h, h2) /\ CanCreate(h2)
      /\ o \in Known(h2) /\ o \in Objects
  BY <1>2, <1>3 DEF Keeps, CanCreate, SameUsed, Known
<1>5. Good(h3) /\ SameUsed(h2, h3) /\ h3.obj[o].collector \in Collectors
  <2>1. CASE h2.obj[o].collector = NULL
    <3>1. Good(h2)
      BY <1>4 DEF Keeps
    <3> QED
      BY <1>4, <2>1, <3>1, StartCollectorGood
  <2>2. CASE h2.obj[o].collector # NULL
    BY <1>4, <2>2, PointedLive DEF Keeps, SameUsed
  <2> QED
    BY <2>1, <2>2
<1> HIDE DEF h3
<1>6. Good(g2) /\ SameUsed(h2, g2)
  BY <1>4, RequestDeleteGood DEF Keeps
<1>7. Good(g3) /\ SameUsed(h3, g3)
  <2>1. h3.coll[h3.obj[o].collector].live /\ o \in Known(h3)
    BY <1>4, <1>5, PointedLive, HeapAssumption DEF SameUsed
  <2> QED
    BY <1>5, <2>1, AddObjectGood
<1> QED
  BY <1>1, <1>4, <1>5, <1>6, <1>7 DEF Keeps, SameUsed

\* object_dec_phantom keeps the heap good, and releases the collector with
\* the last phantom count (object.c:140-160).
LEMMA DecPhantomGood ==
  ASSUME NEW h, Good(h), NEW o \in Known(h)
  PROVE  Keeps(h, object_dec_phantom(h, o))
<1> DEFINE h1 == [h EXCEPT !.obj[o].count[Phantom] = @ - 1]
           P  == h1.obj[o].count[Phantom] >= 0
           h2 == assert(h1, P, "object_dec_phantom:150")
           g2 == object_request_delete(h2, o)
           g3 == object_set_collector(h2, o, NULL)
<1>1. object_dec_phantom(h, o) \in {h2, g2, g3}
  BY DEF object_dec_phantom
<1>2. Keeps(h, h1)
  BY CountsInt, CountUpdate DEF Known
<1> HIDE DEF h1
<1> HIDE DEF P
<1>3. Keeps(h1, h2)
  <2>1. Good(h1)
    BY <1>2 DEF Keeps
  <2>2. "object_dec_phantom:150" \in Failures
    BY DEF Failures
  <2>3. SameBut(h1, h2)
    BY <2>1, <2>2, AssertSame
  <2> QED
    BY <2>3 DEF SameBut
<1> HIDE DEF h2
<1>4. Good(h2) /\ o \in Known(h2) /\ o \in Objects
  BY <1>2, <1>3 DEF Keeps, SameUsed, Known
<1>5. Keeps(h2, g2)
  BY <1>4, RequestDeleteGood
<1>6. Keeps(h2, g3)
  BY <1>4, SetCollectorKeeps
<1> QED
  BY <1>1, <1>2, <1>3, <1>5, <1>6, KeepsTrans

\* link_dec keeps the heap good for a phantom link and for a counted one
\* (link.c:55-66).
LEMMA LinkDecGood ==
  ASSUME NEW h, Good(h), NEW l \in Allocated(h), CanCreate(h)
  PROVE  Good(link_dec(h, l)) /\ SameUsed(h, link_dec(h, l))
<1>1. /\ h.link[l].target \in Known(h)
      /\ h.link[l].which \in 0..2
  <2>1. h.link[l] \in Link
    BY DEF Good, HeapType, Allocated
  <2> QED
    BY <2>1 DEF Good, UsedOK, LinksOK, Link, Bits
<1> QED
  BY <1>1, ObjectDecGood, DecPhantomGood DEF link_dec, Keeps

\* collector_merge keeps the heap good when both collectors are live,
\* distinct and unmerged (collector.c:139-161).
LEMMA MergeGood ==
  ASSUME NEW h, Good(h), NEW t \in Collectors, NEW s \in Collectors, t # s,
         h.coll[t].live, h.coll[s].live,
         h.coll[t].forward = NULL, h.coll[s].forward = NULL
  PROVE  Keeps(h, collector_merge(h, t, s))
<1> DEFINE from == h.coll[s].lists
           into == h.coll[t].lists
           e  == [l \in ListNames |-> <<>>]
           ls == [into EXCEPT
                    !["collect"]      = @ \o from["collect"],
                    !["merged_list"]  = @ \o from["merged_list"]
                                          \o from["clean_list"]
                                          \o from["recovery_list"],
                    !["rebuild_list"] = @ \o from["rebuild_list"]]
           h1 == [h EXCEPT !.coll[s].lists = e]
           h2 == [h1 EXCEPT !.coll[t].lists = ls]
           h3 == collector_set_forward(h2, s, t)
<1>1. collector_merge(h, t, s) = h3
  BY DEF collector_merge
<1>2. e \in [ListNames -> Seq(Known(h))]
  BY EmptySeq
<1> HIDE DEF e
<1>3. Keeps(h, h1) /\ \A d \in Collectors : h1.coll[d].forward = h.coll[d].forward
  BY <1>2, ListsGood
<1> HIDE DEF h1
<1>4. ls \in [ListNames -> Seq(Known(h1))]
  <2> DEFINE K == Known(h1)
  <2>1. from \in [ListNames -> Seq(K)] /\ into \in [ListNames -> Seq(K)]
    BY <1>3 DEF Good, UsedOK, ListsOK, Keeps, SameUsed
  <2> HIDE DEF from, into, K
  <2>2. \A l \in ListNames : from[l] \in Seq(K) /\ into[l] \in Seq(K)
    BY <2>1
  <2>3. /\ into["collect"] \o from["collect"] \in Seq(K)
        /\ into["rebuild_list"] \o from["rebuild_list"] \in Seq(K)
        /\ into["merged_list"] \o from["merged_list"] \o from["clean_list"]
             \o from["recovery_list"] \in Seq(K)
    BY <2>2, ConcatProperties DEF ListNames
  <2>4. ls \in [ListNames -> Seq(K)]
    BY <2>1, <2>3
  <2> QED
    BY <2>4 DEF K
<1> HIDE DEF ls
<1>5. Keeps(h1, h2) /\ \A d \in Collectors : h2.coll[d].forward = h1.coll[d].forward
  <2>1. Good(h1)
    BY <1>3 DEF Keeps
  <2> QED
    BY <1>4, <2>1, ListsGood
<1> HIDE DEF h2
<1>6. /\ h2.coll[t].live /\ h2.coll[s].live
      /\ h2.coll[t].forward = NULL
  BY <1>3, <1>5 DEF Keeps
<1>7. Keeps(h2, h3)
  BY <1>5, <1>6, SetForward DEF Keeps
<1> QED
  BY <1>1, <1>3, <1>5, <1>7, KeepsTrans

\* object_merge_collectors only ever merges the ends of two chains, whatever
\* the two objects point to (object.c:343-406).
LEMMA MergeCollectorsGood ==
  ASSUME NEW h, Good(h), NEW o \in Known(h), NEW target \in Known(h)
  PROVE  Keeps(h, object_merge_collectors(h, o, target))
<1> DEFINE s == h.obj[o].collector
           t == h.obj[target].collector
           S == collector_update(h, s)
           T == collector_update(h, t)
           h1 == IF S = T THEN h ELSE collector_merge(h, T, S)
           g1 == object_set_collector(h, target, s)
           g2 == object_set_collector(h, o, t)
           g3 == object_set_collector(h1, target, T)
           g4 == object_set_collector(g3, o, T)
<1>1. /\ s # NULL => s \in Collectors /\ h.coll[s].live
      /\ t # NULL => t \in Collectors /\ h.coll[t].live
      /\ o \in Objects /\ target \in Objects
  BY PointedLive DEF Known
<1>2. CASE s = t
  BY <1>2 DEF object_merge_collectors, Keeps, SameUsed
<1>3. CASE s # t /\ t = NULL
  <2>1. object_merge_collectors(h, o, target) = g1
    BY <1>3 DEF object_merge_collectors
  <2> QED
    BY <1>1, <1>3, <2>1, SetCollectorKeeps
<1>4. CASE s # t /\ t # NULL /\ s = NULL
  <2>1. object_merge_collectors(h, o, target) = g2
    BY <1>4 DEF object_merge_collectors
  <2> QED
    BY <1>1, <1>4, <2>1, SetCollectorKeeps
<1>5. CASE s # t /\ t # NULL /\ s # NULL
  <2>1. object_merge_collectors(h, o, target) = g4
    BY <1>5 DEF object_merge_collectors
  <2>2. /\ S \in Collectors /\ h.coll[S].live /\ h.coll[S].forward = NULL
        /\ T \in Collectors /\ h.coll[T].live /\ h.coll[T].forward = NULL
    BY <1>1, <1>5, UpdateCollector
  <2> HIDE DEF S, T
  <2>3. Keeps(h, h1)
    BY <2>2, MergeGood, KeepsSelf DEF SameBut
  <2> HIDE DEF h1
  <2>4. Keeps(h1, g3)
    <3>1. Good(h1) /\ h1.coll[T].live /\ target \in Known(h1)
      BY <2>2, <2>3 DEF Keeps, SameUsed
    <3> QED
      BY <1>1, <2>2, <3>1, SetCollectorKeeps
  <2> HIDE DEF g3
  <2>5. Keeps(g3, g4)
    <3>1. Good(g3) /\ g3.coll[T].live /\ o \in Known(g3)
      BY <2>2, <2>3, <2>4 DEF Keeps, SameUsed
    <3> QED
      BY <1>1, <2>2, <3>1, SetCollectorKeeps
  <2> QED
    BY <2>1, <2>3, <2>4, <2>5, KeepsTrans
<1> QED
  BY <1>2, <1>3, <1>4, <1>5

\* link_phantomize keeps the heap good (link.c:36-53).
LEMMA LinkPhantomizeGood ==
  ASSUME NEW h, Good(h), NEW l \in Allocated(h), CanCreate(h)
  PROVE  Good(link_phantomize(h, l)) /\ SameUsed(h, link_phantomize(h, l))
<1> DEFINE o  == h.link[l].src
           t  == h.link[l].target
           h0 == [h EXCEPT !.obj[t].count[Phantom] = @ + 1]
           h1 == link_dec(h0, l)
           P  == h1.obj[t].collector # NULL \/ h1.obj[o].collector # NULL
           h2 == assert(h1, P, "link_phantomize:45")
           h3 == object_merge_collectors(h2, o, t)
           r  == [h3.link[l] EXCEPT !.phantomized = TRUE]
           h4 == [h3 EXCEPT !.link[l] = r]
           Q  == h4.obj[t].collector = h4.obj[o].collector
           h5 == assert(h4, Q, "link_phantomize:48")
<1>1. /\ o \in Known(h) /\ t \in Known(h)
      /\ o \in Objects /\ t \in Objects
  BY DEF Good, UsedOK, LinksOK, Known
<1>2. link_phantomize(h, l) \in {h, h5}
  BY DEF link_phantomize
<1> HIDE DEF o, t
<1>3. Keeps(h, h0)
  BY <1>1, CountsInt, CountUpdate
<1> HIDE DEF h0
<1>4. Good(h0) /\ l \in Allocated(h0) /\ CanCreate(h0)
  BY <1>3 DEF Keeps, CanCreate, SameUsed
<1>5. Good(h1) /\ SameUsed(h0, h1)
  BY <1>4, LinkDecGood
<1> HIDE DEF h1, P
<1>6. Good(h2) /\ SameUsed(h1, h2)
  <2>1. SameBut(h1, h2)
    BY <1>5, AssertSame DEF Failures
  <2> QED
    BY <2>1 DEF SameBut, Keeps
<1> HIDE DEF h2
<1>7. Good(h3) /\ SameUsed(h2, h3)
  <2>1. o \in Known(h2) /\ t \in Known(h2)
    BY <1>1, <1>3, <1>5, <1>6 DEF Keeps, SameUsed
  <2> QED
    BY <1>6, <2>1, MergeCollectorsGood DEF Keeps
<1> HIDE DEF h3
<1>8. l \in Allocated(h3)
  BY <1>4, <1>5, <1>6, <1>7 DEF SameUsed
<1>9. Good(h4) /\ SameUsed(h3, h4)
  <2>1. h3.link[l] \in Link /\ h3.link[l].state # "none"
    BY <1>7, <1>8 DEF Good, HeapType, Allocated
  <2>2. /\ r \in Link /\ r.state # "none"
        /\ r.src = h3.link[l].src /\ r.target = h3.link[l].target
    BY <2>1 DEF Link
  <2> HIDE DEF r
  <2> QED
    BY <1>7, <1>8, <2>2, LinkFields DEF Keeps
<1> HIDE DEF h4, Q
<1>10. Good(h5) /\ SameUsed(h4, h5)
  <2>1. SameBut(h4, h5)
    BY <1>9, AssertSame DEF Failures
  <2> QED
    BY <2>1 DEF SameBut, Keeps
<1> QED
  BY <1>2, <1>3, <1>5, <1>6, <1>7, <1>9, <1>10 DEF Keeps, SameUsed

\* Writing an object's header without moving its collector leaves the pool of
\* collectors alone.
LEMMA ObjectFields ==
  ASSUME NEW h, Good(h), NEW o \in Objects, NEW r \in Object,
         r.collector = h.obj[o].collector,
         r.state = "none" <=> h.obj[o].state = "none",
         \A f \in Fields : r.links[f] # NULL => r.links[f] \in Allocated(h)
  PROVE  Keeps(h, [h EXCEPT !.obj[o] = r])
<1> DEFINE g == [h EXCEPT !.obj[o] = r]
<1>1. Good(g) /\ SameUsed(h, g)
  BY ObjectUpdate
<1>2. g.coll = h.coll
  BY DEF Good, HeapType
<1> QED
  BY <1>1, <1>2 DEF Keeps

\* object_inc_strong keeps the heap good (object.c:164-168).
LEMMA IncStrongGood ==
  ASSUME NEW h, Good(h), NEW o \in Objects
  PROVE  Keeps(h, object_inc_strong(h, o))
<1> DEFINE w == h.obj[o].which
           g == [h EXCEPT !.obj[o].count[w] = @ + 1]
<1>1. w \in 0..2 /\ h.obj[o].count[w] + 1 \in Int
  BY CountsInt
<1>2. Keeps(h, g)
  BY <1>1, CountUpdate
<1> QED
  BY <1>2 DEF object_inc_strong

\* Setting or clearing a node's phantomized flag keeps the heap good
\* (object.c:197, 290).
LEMMA PhantomizedGood ==
  ASSUME NEW h, Good(h), NEW o \in Objects, NEW b \in BOOLEAN
  PROVE  Keeps(h, [h EXCEPT !.obj[o].phantomized = b])
<1> DEFINE r == [h.obj[o] EXCEPT !.phantomized = b]
<1>1. h.obj[o] \in Object
  BY DEF Good, HeapType
<1>2. /\ r \in Object /\ r.collector = h.obj[o].collector
      /\ r.links = h.obj[o].links /\ r.state = h.obj[o].state
  BY <1>1 DEF Object
<1>3. [h EXCEPT !.obj[o].phantomized = b] = [h EXCEPT !.obj[o] = r]
  OBVIOUS
<1> HIDE DEF r
<1>4. \A f \in Fields : r.links[f] # NULL => r.links[f] \in Allocated(h)
  BY <1>2 DEF Good, UsedOK, TablesOK
<1> QED
  BY <1>2, <1>3, <1>4, ObjectFields

\* So does setting phantomization_complete (object.c:230-236).
LEMMA CompleteGood ==
  ASSUME NEW h, Good(h), NEW o \in Objects, NEW b \in BOOLEAN
  PROVE  Keeps(h, [h EXCEPT !.obj[o].phantomization_complete = b])
<1> DEFINE r == [h.obj[o] EXCEPT !.phantomization_complete = b]
<1>1. h.obj[o] \in Object
  BY DEF Good, HeapType
<1>2. /\ r \in Object /\ r.collector = h.obj[o].collector
      /\ r.links = h.obj[o].links /\ r.state = h.obj[o].state
  BY <1>1 DEF Object
<1>3. [h EXCEPT !.obj[o].phantomization_complete = b] = [h EXCEPT !.obj[o] = r]
  OBVIOUS
<1> HIDE DEF r
<1>4. \A f \in Fields : r.links[f] # NULL => r.links[f] \in Allocated(h)
  BY <1>2 DEF Good, UsedOK, TablesOK
<1> QED
  BY <1>2, <1>3, <1>4, ObjectFields

\* So does writing its table of links (object.c:85-98, 429-470).
LEMMA TableGood ==
  ASSUME NEW h, Good(h), NEW o \in Objects,
         NEW t \in [Fields -> Allocated(h) \cup {NULL}]
  PROVE  Keeps(h, [h EXCEPT !.obj[o].links = t])
<1> DEFINE r == [h.obj[o] EXCEPT !.links = t]
<1>1. h \in HeapType /\ h.obj[o] \in Object
  BY DEF Good, HeapType
<1>2. t \in [Fields -> Links \cup {NULL}]
  BY DEF Allocated
<1>3. /\ r \in Object /\ r.collector = h.obj[o].collector
      /\ r.links = t /\ r.state = h.obj[o].state
  BY <1>1, <1>2 DEF Object
<1>4. [h EXCEPT !.obj[o].links = t] = [h EXCEPT !.obj[o] = r]
  OBVIOUS
<1> HIDE DEF r
<1> QED
  BY <1>3, <1>4, ObjectFields

\* safelist_add keeps the heap good, forwarded or not (safelist.c:18-36).
LEMMA SafelistAddGood ==
  ASSUME NEW h, Good(h), NEW c \in Collectors, NEW l \in ListNames,
         NEW o \in Known(h)
  PROVE  Keeps(h, safelist_add(h, c, l, o))
<1> DEFINE d == IF h.coll[c].forward = NULL THEN c ELSE collector_update(h, c)
           n == IF h.coll[c].forward = NULL THEN l ELSE ForwardedList(l)
           ls == [h.coll[d].lists EXCEPT ![n] = Append(@, o)]
           g == [h EXCEPT !.coll[d].lists = ls]
<1>1. d \in Collectors
  <2>1. h.coll[c].forward # NULL => h.coll[c].live
    BY DEF Good, CollectorsOK, DeadUnused
  <2> QED
    BY <2>1, UpdateCollector
<1>2. n \in ListNames
  BY DEF ForwardedList, ListNames
<1>3. safelist_add(h, c, l, o) = g
  BY DEF safelist_add
<1> HIDE DEF d, n
<1>4. ls \in [ListNames -> Seq(Known(h))]
  <2>1. h.coll[d].lists \in [ListNames -> Seq(Known(h))]
    BY <1>1 DEF Good, UsedOK, ListsOK
  <2> QED
    BY <1>2, <2>1, AppendToList
<1> HIDE DEF ls
<1>5. Keeps(h, g)
  BY <1>1, <1>4, ListsGood
<1> QED
  BY <1>3, <1>5

\* safelist_poll takes an allocated object off a list that is not empty
\* (safelist.c:47-58).
LEMMA SafelistPollGood ==
  ASSUME NEW h, Good(h), NEW c \in Collectors, NEW l \in ListNames,
         h.coll[c].lists[l] # <<>>
  PROVE  /\ Keeps(h, safelist_poll(h, c, l))
         /\ Head(h.coll[c].lists[l]) \in Known(h)
<1> DEFINE ls == [h.coll[c].lists EXCEPT ![l] = Tail(@)]
           g == [h EXCEPT !.coll[c].lists = ls]
<1>1. h.coll[c].lists \in [ListNames -> Seq(Known(h))]
  BY DEF Good, UsedOK, ListsOK
<1>2. h.coll[c].lists[l] \in Seq(Known(h))
  BY <1>1
<1>3. /\ Tail(h.coll[c].lists[l]) \in Seq(Known(h))
      /\ Head(h.coll[c].lists[l]) \in Known(h)
  BY <1>2, HeadTailProperties
<1>4. ls \in [ListNames -> Seq(Known(h))]
  BY <1>1, <1>3
<1>5. safelist_poll(h, c, l) = g
  BY DEF safelist_poll
<1> HIDE DEF ls
<1>6. Keeps(h, g)
  BY <1>4, ListsGood
<1> QED
  BY <1>3, <1>5, <1>6

\* A node may follow its collector to the end of its chain
\* (object.c:275-277).
LEMMA FollowGood ==
  ASSUME NEW h, Good(h), NEW o \in Objects
  PROVE  Keeps(h, FollowCollector(h, o))
<1> DEFINE c == h.obj[o].collector
           d == collector_update(h, c)
<1>1. CASE c = NULL
  BY <1>1, KeepsSelf DEF FollowCollector, SameBut
<1>2. CASE c # NULL
  <2>1. c \in Collectors /\ h.coll[c].live /\ o \in Known(h)
    BY <1>2, PointedLive
  <2>2. d \in Collectors /\ h.coll[d].live
    BY <2>1, UpdateCollector
  <2>3. FollowCollector(h, o) = object_set_collector(h, o, d)
    BY <1>2 DEF FollowCollector
  <2> HIDE DEF c, d
  <2> QED
    BY <2>1, <2>2, <2>3, SetCollectorKeeps
<1> QED
  BY <1>1, <1>2

\* collector_destroy frees a collector nobody counts on and keeps the heap
\* good (collector.c:26-40, 126-132).
LEMMA DestroyGood ==
  ASSUME NEW h, Good(h), NEW c \in Collectors, h.coll[c].ref_count = 0
  PROVE  Good(collector_destroy(h, c)) /\ SameUsed(h, collector_destroy(h, c))
<1> DEFINE h1 == collector_set_forward(h, c, NULL)
           g  == [h1 EXCEPT !.coll[c] = [NoCollector EXCEPT !.live = FALSE]]
<1>1. collector_destroy(h, c) = g
  BY DEF collector_destroy, NoCollector
<1>2. h.coll[c].forward # c
  <2>1. PICK d \in {c} : h.coll[d].forward \notin {c}
    BY DEF Good, CollectorsOK, Acyclic
  <2> QED
    BY <2>1
<1>3. /\ Good(h1) /\ SameUsed(h, h1) /\ h1.coll[c].forward = NULL
      /\ h1.coll[c].ref_count = 0
  BY <1>2, SetForward, HeapAssumption
<1> HIDE DEF h1
<1>4. Good(g) /\ SameUsed(h1, g)
  BY <1>3, CollectorReset
<1> HIDE DEF g
<1> QED
  BY <1>1, <1>3, <1>4 DEF SameUsed

\* Emptying a node's table keeps the heap good (object.c:85-98).
LEMMA RemoveLinksGood ==
  ASSUME NEW h, Good(h), NEW o \in Objects
  PROVE  Keeps(h, object_remove_links(h, o))
<1> DEFINE h1 == [h EXCEPT !.obj[o].links = [f \in Fields |-> NULL]]
           Q  == h.obj[o].count[0] = 0 /\ h.obj[o].count[1] = 0
           h2 == assert(h1, Q, "object_remove_links:96")
<1>1. [f \in Fields |-> NULL] \in [Fields -> Allocated(h) \cup {NULL}]
  OBVIOUS
<1>2. Keeps(h, h1)
  BY <1>1, TableGood
<1>3. object_remove_links(h, o) = h2
  BY DEF object_remove_links
<1> HIDE DEF h1, Q
<1>4. "object_remove_links:96" \in Failures
  BY DEF Failures
<1>5. SameBut(h1, h2)
  BY <1>2, <1>4, AssertSame DEF Keeps
<1> QED
  BY <1>2, <1>3, <1>5, KeepsTrans DEF SameBut

\* link_destroy keeps the heap good (link.c:19-34).
LEMMA LinkDestroyGood ==
  ASSUME NEW h, Good(h), NEW l \in Allocated(h), CanCreate(h)
  PROVE  Good(link_destroy(h, l)) /\ SameUsed(h, link_destroy(h, l))
<1> DEFINE h1 == link_dec(h, l)
           r  == [h1.link[l] EXCEPT !.state = "freed"]
           g  == [h1 EXCEPT !.link[l] = r]
<1>1. Good(h1) /\ SameUsed(h, h1)
  BY LinkDecGood
<1>2. link_destroy(h, l) = g
  BY DEF link_destroy
<1> HIDE DEF h1
<1>3. l \in Allocated(h1) /\ h1.link[l] \in Link
  BY <1>1 DEF SameUsed, Good, HeapType, Allocated
<1>4. /\ r \in Link /\ r.state # "none"
      /\ r.src = h1.link[l].src /\ r.target = h1.link[l].target
  BY <1>3 DEF Link, Memory
<1> HIDE DEF r
<1>5. Good(g) /\ SameUsed(h1, g)
  BY <1>1, <1>3, <1>4, LinkFields DEF Keeps
<1> HIDE DEF g
<1> QED
  BY <1>1, <1>2, <1>5 DEF SameUsed

\* acid_malloc's object joins the allocated ones (object.c:39-69).
LEMMA InitStrongGood ==
  ASSUME NEW h, Good(h), NEW o \in Objects, h.obj[o].state = "none"
  PROVE  LET g == object_init_strong(h, o)
         IN  /\ Good(g)
             /\ Allocated(g) = Allocated(h)
             /\ Known(g) = Known(h) \cup {o}
<1> DEFINE n == [NoObject.count EXCEPT ![0] = 1]
           r == [NoObject EXCEPT !.state = "live", !.count = n]
           g == [h EXCEPT !.obj[o] = r]
<1>1. h \in HeapType /\ h.obj[o].collector = NULL
  BY DEF Good, UsedOK, MembersOK, Known
<1>2. /\ r \in Object /\ r.collector = NULL /\ r.state = "live"
      /\ \A f \in Fields : r.links[f] = NULL
  <2>1. n \in [0..2 -> Int]
    BY DEF NoObject
  <2> HIDE DEF n
  <2> QED
    BY <2>1 DEF NoObject, Object, Memory, Bits
<1>3. object_init_strong(h, o) = g
  BY DEF object_init_strong
<1> HIDE DEF r
<1>4. /\ g \in HeapType /\ g.coll = h.coll /\ g.link = h.link
      /\ g.work = h.work /\ g.obj = [h.obj EXCEPT ![o] = r]
  BY <1>1, <1>2 DEF HeapType
<1> HIDE DEF g
<1>5. \A p \in Objects : g.obj[p] = IF p = o THEN r ELSE h.obj[p]
  BY <1>1, <1>4 DEF HeapType
<1>6. Allocated(g) = Allocated(h) /\ Known(g) = Known(h) \cup {o}
  BY <1>2, <1>4, <1>5 DEF Allocated, Known
<1>7. LinksOK(g) /\ TablesOK(g) /\ MembersOK(g)
  BY <1>1, <1>2, <1>4, <1>5, <1>6
     DEF Good, UsedOK, LinksOK, TablesOK, MembersOK
<1>8. ListsOK(g)
  <2> SUFFICES ASSUME NEW c \in Collectors
               PROVE  g.coll[c].lists \in [ListNames -> Seq(Known(g))]
    BY DEF ListsOK
  <2>1. h.coll[c].lists \in [ListNames -> Seq(Known(h))]
    BY DEF Good, UsedOK, ListsOK
  <2>2. \A l \in ListNames : h.coll[c].lists[l] \in Seq(Known(g))
    BY <1>6, <2>1, SeqMonotonic
  <2> QED
    BY <1>4, <2>1, <2>2
<1>9. WorkOK(g)
  <2>1. KnownTask(h) \subseteq KnownTask(g)
    BY <1>6 DEF KnownTask
  <2> QED
    BY <1>4, <2>1, SeqMonotonic DEF Good, UsedOK, WorkOK
<1>10. CollectorsOK(g)
  <2>1. \A p \in Objects : g.obj[p].collector = h.obj[p].collector
    BY <1>1, <1>2, <1>5
  <2> QED
    BY <1>4, <2>1, FrameCollectors DEF Good
<1>11. Good(g)
  BY <1>4, <1>7, <1>8, <1>9, <1>10 DEF Good, UsedOK
<1> QED
  BY <1>3, <1>6, <1>11

\* object_del keeps the heap good and releases the collector
\* (object.c:71-83).
LEMMA ObjectDelGood ==
  ASSUME NEW h, Good(h), NEW o \in Known(h)
  PROVE  Keeps(h, object_del(h, o))
<1> DEFINE h1 == object_set_collector(h, o, NULL)
           P  == KeysOf(h, o) = {}
           h2 == assert(h1, P, "object_del:74")
           r  == [h2.obj[o] EXCEPT !.state = "freed"]
           g  == [h2 EXCEPT !.obj[o] = r]
<1>1. Keeps(h, h1)
  BY SetCollectorKeeps DEF Known
<1>2. object_del(h, o) = g
  BY DEF object_del
<1> HIDE DEF h1, P
<1>3. "object_del:74" \in Failures
  BY DEF Failures
<1>4. SameBut(h1, h2)
  BY <1>1, <1>3, AssertSame DEF Keeps
<1> HIDE DEF h2
<1>5. Good(h2) /\ o \in Known(h2) /\ o \in Objects /\ h2.obj[o] \in Object
  BY <1>1, <1>4 DEF SameBut, Keeps, SameUsed, Known, Good, HeapType
<1>6. /\ r \in Object /\ r.collector = h2.obj[o].collector
      /\ r.links = h2.obj[o].links /\ r.state = "freed"
  BY <1>5 DEF Object, Memory
<1> HIDE DEF r
<1>7. \A f \in Fields : r.links[f] # NULL => r.links[f] \in Allocated(h2)
  BY <1>5, <1>6 DEF Good, UsedOK, TablesOK
<1>8. h2.obj[o].state # "none"
  BY <1>5 DEF Known
<1>9. Keeps(h2, g)
  BY <1>5, <1>6, <1>7, <1>8, ObjectFields
<1> QED
  BY <1>1, <1>2, <1>4, <1>9, KeepsTrans DEF SameBut

\* Rebuilding a link's count keeps the heap good, also when the target leaves
\* its collector (object.c:254-264).
LEMMA RebuildCountsGood ==
  ASSUME NEW h, Good(h), NEW t \in Known(h), NEW w \in 0..2
  PROVE  Keeps(h, RebuildCounts(h, t, w))
<1> DEFINE h1 == [h EXCEPT !.obj[t].count[w] = @ + 1]
           h2 == [h1 EXCEPT !.obj[t].count[Phantom] = @ - 1]
           h3 == IF h2.obj[t].count[Phantom] = 0
                   THEN object_set_collector(h2, t, NULL) ELSE h2
           P  == h3.obj[t].count[Phantom] >= 0
           h4 == assert(h3, P, "object_rebuild_link:263")
<1>1. RebuildCounts(h, t, w) = h4
  BY DEF RebuildCounts
<1>2. t \in Objects
  BY DEF Known
<1>3. Keeps(h, h1)
  <2>1. h.obj[t].count[w] + 1 \in Int
    BY <1>2, CountsInt
  <2> QED
    BY <1>2, <2>1, CountUpdate
<1> HIDE DEF h1
<1>4. Keeps(h1, h2)
  <2>1. Good(h1)
    BY <1>3 DEF Keeps
  <2>2. Phantom \in 0..2 /\ h1.obj[t].count[Phantom] - 1 \in Int
    BY <1>2, <2>1, CountsInt
  <2> QED
    BY <1>2, <2>1, <2>2, CountUpdate
<1> HIDE DEF h2
<1>5. Keeps(h2, h3)
  <2>1. Good(h2)
    BY <1>4 DEF Keeps
  <2>2. Keeps(h2, h2)
    BY <2>1, KeepsSelf DEF SameBut
  <2>3. Keeps(h2, object_set_collector(h2, t, NULL))
    BY <1>2, <2>1, SetCollectorKeeps
  <2> QED
    BY <2>2, <2>3
<1> HIDE DEF h3, P
<1>6. Keeps(h3, h4)
  <2>1. Good(h3)
    BY <1>5 DEF Keeps
  <2>2. "object_rebuild_link:263" \in Failures
    BY DEF Failures
  <2>3. SameBut(h3, h4)
    BY <2>1, <2>2, AssertSame
  <2> QED
    BY <2>3 DEF SameBut
<1> HIDE DEF h4
<1> QED
  BY <1>1, <1>3, <1>4, <1>5, <1>6, KeepsTrans

\* The bit given to a link is a bit (object.c:246-253, 459-466).
LEMMA LinkBitType ==
  ASSUME NEW h, Good(h), NEW o, NEW t \in Objects, NEW strong
  PROVE  LinkBit(h, o, t, strong) \in Bits /\ LinkBit(h, o, t, strong) \in 0..2
<1>1. h.obj[t] \in Object
  BY DEF Good, HeapType
<1>2. h.obj[t].which \in {0, 1}
  BY <1>1 DEF Object, Bits
<1>3. LinkBit(h, o, t, strong) \in {h.obj[t].which, Flip(h.obj[t].which)}
  BY DEF LinkBit
<1> QED
  BY <1>2, <1>3 DEF Flip, Bits

\* object_rebuild_link keeps the heap good (object.c:238-269).
LEMMA RebuildLinkGood ==
  ASSUME NEW h, Good(h), NEW c \in Collectors, NEW l \in Allocated(h)
  PROVE  Keeps(h, object_rebuild_link(h, c, l))
<1> DEFINE o  == h.link[l].src
           t  == h.link[l].target
           P  == h.obj[t].phantomized \/ KeysOf(h, t) = {}
           w  == LinkBit(h, o, t, P)
           r  == [h.link[l] EXCEPT !.which = w, !.phantomized = FALSE]
           h1 == [h EXCEPT !.link[l] = r]
           h2 == RebuildCounts(h1, t, w)
           g  == safelist_add(h2, c, "rebuild_list", t)
<1>1. t \in Known(h) /\ t \in Objects /\ h.link[l] \in Link /\ h.link[l].state # "none"
  BY DEF Good, HeapType, UsedOK, LinksOK, Known, Allocated
<1>2. w \in Bits /\ w \in 0..2
  <2> HIDE DEF o, t, P
  <2> QED
    BY <1>1, LinkBitType
<1>3. object_rebuild_link(h, c, l) \in {h, h2, g}
  BY DEF object_rebuild_link
<1> HIDE DEF o, t, w
<1>4. Keeps(h, h1)
  <2>1. /\ r \in Link /\ r.state # "none"
        /\ r.src = h.link[l].src /\ r.target = h.link[l].target
    BY <1>1, <1>2 DEF Link
  <2> HIDE DEF r
  <2> QED
    BY <2>1, LinkFields
<1> HIDE DEF h1
<1>5. Keeps(h1, h2)
  <2>1. Good(h1) /\ t \in Known(h1)
    BY <1>1, <1>4 DEF Keeps, SameUsed
  <2> QED
    BY <1>2, <2>1, RebuildCountsGood
<1> HIDE DEF h2
<1>6. Keeps(h2, g)
  <2>1. Good(h2) /\ t \in Known(h2)
    BY <1>1, <1>4, <1>5 DEF Keeps, SameUsed
  <2> QED
    BY <2>1, SafelistAddGood DEF ListNames
<1> HIDE DEF g
<1>7. Keeps(h, h)
  BY KeepsSelf DEF SameBut
<1> QED
  BY <1>3, <1>4, <1>5, <1>6, <1>7, KeepsTrans

\* The locked section that opens object_phantomize_node keeps the heap good
\* (object.c:177-209).
LEMMA PhantomizeNodeGood ==
  ASSUME NEW h, Good(h), NEW o \in Objects
  PROVE  Keeps(h, object_phantomize_node(h, o))
<1> DEFINE h1 == FollowCollector(h, o)
           h2 == DropStrong(h1, o)
           h3 == BecomePhantom(h2, o)
           F  == FALSE
           g  == assert(h, F, "collector_update:190")
<1>1. object_phantomize_node(h, o) \in {g, h2, h3}
  BY DEF object_phantomize_node
<1>2. Keeps(h, h1)
  BY FollowGood
<1> HIDE DEF h1
<1>3. Keeps(h1, h2)
  <2> DEFINE w == h1.obj[o].which
             k == [h1 EXCEPT !.obj[o].count[w] = @ - 1]
             P == k.obj[o].count[k.obj[o].which] >= 0
             m == assert(k, P, "object_phantomize_node:182")
  <2>1. DropStrong(h1, o) = m
    BY DEF DropStrong
  <2>2. Good(h1)
    BY <1>2 DEF Keeps
  <2>3. w \in 0..2 /\ h1.obj[o].count[w] - 1 \in Int
    BY <2>2, CountsInt
  <2>4. Keeps(h1, k)
    BY <2>2, <2>3, CountUpdate
  <2> HIDE DEF k, P
  <2>5. "object_phantomize_node:182" \in Failures
    BY DEF Failures
  <2>6. SameBut(k, m)
    BY <2>4, <2>5, AssertSame DEF Keeps
  <2> QED
    BY <2>1, <2>4, <2>6, KeepsTrans DEF SameBut
<1> HIDE DEF h2
<1>4. Keeps(h2, h3)
  <2> DEFINE node == h2.obj[o]
             bit  == Flip(node.which)
             b    == IF node.count[bit] > 0 THEN bit ELSE node.which
             q    == node.phantomized /\ node.phantomization_complete
             r    == [node EXCEPT !.which = b, !.phantomized = TRUE,
                                  !.phantomization_complete = q]
  <2>1. h3 = [h2 EXCEPT !.obj[o] = r]
    BY DEF BecomePhantom
  <2>2. Good(h2) /\ node \in Object
    BY <1>3 DEF Keeps, Good, HeapType
  <2>3. b \in Bits
    <3>1. node.which \in {0, 1}
      BY <2>2 DEF Object, Bits
    <3>2. b \in {bit, node.which}
      OBVIOUS
    <3> QED
      BY <3>1, <3>2 DEF Flip, Bits
  <2>4. q \in BOOLEAN
    BY <2>2 DEF Object
  <2> HIDE DEF b, q
  <2>5. /\ r \in Object /\ r.collector = node.collector
        /\ r.links = node.links /\ r.state = node.state
    BY <2>2, <2>3, <2>4 DEF Object
  <2> HIDE DEF r
  <2>6. \A f \in Fields : r.links[f] # NULL => r.links[f] \in Allocated(h2)
    BY <2>2, <2>5 DEF Good, UsedOK, TablesOK
  <2> QED
    BY <2>1, <2>2, <2>5, <2>6, ObjectFields
<1> HIDE DEF h3
<1>5. Keeps(h, g)
  <2>1. "collector_update:190" \in Failures
    BY DEF Failures
  <2> HIDE DEF F
  <2>2. SameBut(h, g)
    BY <2>1, AssertSame
  <2> QED
    BY <2>2 DEF SameBut
<1> HIDE DEF g
<1> QED
  BY <1>1, <1>2, <1>3, <1>4, <1>5, KeepsTrans

\* The locked section of object_set allocates one link and keeps the heap
\* good (object.c:448-470).
LEMMA SetLinkGood ==
  ASSUME NEW h, Good(h), NEW o \in Known(h), NEW f \in Fields,
         NEW t \in Known(h), NEW l \in Links
  PROVE  LET g == object_set_link(h, o, f, t, l)
         IN  Good(g) /\ Allocated(g) = Allocated(h) \cup {l} /\ Known(g) = Known(h)
<1> DEFINE h0 == [h EXCEPT !.link[l] =
                    [NoLink EXCEPT !.state = "live", !.src = o, !.target = t]]
           tb == [h0.obj[o].links EXCEPT ![f] = l]
           h1 == InstallLink(h, o, f, t, l)
           m  == object_merge_collectors(h1, o, t)
           P  == m.obj[o].collector # NULL
           m1 == assert(m, P, "object_set:455")
           m2 == [m1 EXCEPT !.obj[t].count[Phantom] = @ + 1]
           q1 == [m2.link[l] EXCEPT !.phantomized = TRUE]
           m3 == [m2 EXCEPT !.link[l] = q1]
           Q  == KeysOf(h1, t) = {}
           w  == LinkBit(h1, o, t, Q)
           h2 == [h1 EXCEPT !.obj[t].count[w] = @ + 1]
           q2 == [h2.link[l] EXCEPT !.which = w]
           h3 == [h2 EXCEPT !.link[l] = q2]
<1>1. object_set_link(h, o, f, t, l) \in {m3, h3}
  BY DEF object_set_link
<1>2. o \in Objects /\ t \in Objects
  BY DEF Known
<1>3. /\ Good(h0) /\ Allocated(h0) = Allocated(h) \cup {l}
      /\ Known(h0) = Known(h)
  <2> DEFINE r == [NoLink EXCEPT !.state = "live", !.src = o, !.target = t]
  <2>1. /\ r \in Link /\ r.state # "none"
        /\ r.src \in Known(h) /\ r.target \in Known(h)
    BY <1>2 DEF NoLink, Link, Memory, Bits
  <2>2. h0 = [h EXCEPT !.link[l] = r]
    OBVIOUS
  <2> HIDE DEF r, h0
  <2> QED
    BY <2>1, <2>2, LinkUpdate
<1>4. Keeps(h0, h1)
  <2>1. h1 = [h0 EXCEPT !.obj[o].links = tb]
    BY DEF InstallLink
  <2> HIDE DEF h0
  <2>2. tb \in [Fields -> Allocated(h0) \cup {NULL}]
    <3>1. h0.obj[o] \in Object
      BY <1>2, <1>3 DEF Good, HeapType
    <3>2. h0.obj[o].links \in [Fields -> Links \cup {NULL}]
      BY <3>1 DEF Object
    <3>3. \A k \in Fields : h0.obj[o].links[k] \in Allocated(h0) \cup {NULL}
      BY <1>2, <1>3 DEF Good, UsedOK, TablesOK
    <3> QED
      BY <1>3, <3>2, <3>3
  <2> HIDE DEF tb, h1
  <2> QED
    BY <1>2, <1>3, <2>1, <2>2, TableGood
<1> HIDE DEF h0, h1
<1>5. /\ Good(h1) /\ Allocated(h1) = Allocated(h) \cup {l}
      /\ Known(h1) = Known(h)
  BY <1>3, <1>4 DEF Keeps, SameUsed
<1>6. Keeps(h1, m3)
  <2>1. Keeps(h1, m)
    BY <1>5, MergeCollectorsGood
  <2> HIDE DEF m, P
  <2>2. Keeps(m, m1)
    <3>1. "object_set:455" \in Failures
      BY DEF Failures
    <3>2. SameBut(m, m1)
      BY <2>1, <3>1, AssertSame DEF Keeps
    <3> QED
      BY <3>2 DEF SameBut
  <2> HIDE DEF m1
  <2>3. Keeps(m1, m2)
    <3>1. Good(m1)
      BY <2>2 DEF Keeps
    <3>2. Phantom \in 0..2 /\ m1.obj[t].count[Phantom] + 1 \in Int
      BY <1>2, <3>1, CountsInt
    <3> QED
      BY <1>2, <3>1, <3>2, CountUpdate
  <2> HIDE DEF m2
  <2>4. Keeps(h1, m2)
    BY <2>1, <2>2, <2>3, KeepsTrans
  <2>5. Keeps(m2, m3)
    <3>1. Good(m2) /\ l \in Allocated(m2) /\ m2.link[l] \in Link
      BY <1>5, <2>4 DEF Keeps, SameUsed, Good, HeapType
    <3>2. /\ q1 \in Link /\ q1.state # "none"
          /\ q1.src = m2.link[l].src /\ q1.target = m2.link[l].target
      BY <3>1 DEF Link, Allocated
    <3> HIDE DEF q1
    <3> QED
      BY <3>1, <3>2, LinkFields
  <2> HIDE DEF m3
  <2> QED
    BY <2>4, <2>5, KeepsTrans
<1>7. Keeps(h1, h3)
  <2>1. w \in Bits /\ w \in 0..2
    <3> HIDE DEF Q
    <3> QED
      BY <1>2, <1>5, LinkBitType
  <2> HIDE DEF w
  <2>2. Keeps(h1, h2)
    <3>1. h1.obj[t].count[w] + 1 \in Int
      BY <1>2, <1>5, <2>1, CountsInt
    <3> QED
      BY <1>2, <1>5, <2>1, <3>1, CountUpdate
  <2> HIDE DEF h2
  <2>3. Keeps(h2, h3)
    <3>1. Good(h2) /\ l \in Allocated(h2) /\ h2.link[l] \in Link
      BY <1>5, <2>2 DEF Keeps, SameUsed, Good, HeapType
    <3>2. /\ q2 \in Link /\ q2.state # "none"
          /\ q2.src = h2.link[l].src /\ q2.target = h2.link[l].target
      BY <2>1, <3>1 DEF Link, Allocated
    <3> HIDE DEF q2
    <3> QED
      BY <3>1, <3>2, LinkFields
  <2> HIDE DEF h3
  <2> QED
    BY <2>2, <2>3, KeepsTrans
<1> HIDE DEF m3, h3
<1> QED
  BY <1>1, <1>5, <1>6, <1>7 DEF Keeps, SameUsed
=============================================================================
