--------------------------- MODULE AcidTaskProofs ---------------------------
(***************************************************************************)
(* Each collector has one task and each half phantomized node one worker,  *)
(* and nothing is left in the lists of a merged collector, for every       *)
(* number of objects, fields, links, collectors and workers.  As in        *)
(* HeapProofs there is one lemma per function of module Heap; the rest is  *)
(* about what threads do with their tasks and nodes.                       *)
(***************************************************************************)
EXTENDS AcidProofs

\* The task that object_dec starts for collector c.
CollTask(c) == [run |-> "collector_run", arg |-> c]

\* Where in the queue it is.
QueuedAt(h, c) == {i \in DOMAIN h.work : h.work[i] = CollTask(c)}

\* No node is phantomized, recovered or completed.
SameFlags(h, g) ==
  \A o \in Objects :
    /\ g.obj[o].phantomized = h.obj[o].phantomized
    /\ g.obj[o].phantomization_complete = h.obj[o].phantomization_complete

\* Collectors are created together with a task, and none is freed.
TaskPerNew(h, g) ==
  \A c \in Collectors :
    \/ g.coll[c].live = h.coll[c].live /\ QueuedAt(g, c) = QueuedAt(h, c)
    \/ /\ ~h.coll[c].live /\ g.coll[c].live
       /\ \E i : QueuedAt(g, c) = QueuedAt(h, c) \cup {i}

\* A collector that forwards has nothing in its lists.
Stored(h) ==
  \A c \in Collectors : h.coll[c].forward # NULL => store_count_zero(h, c)

\* What most functions do to all of this.
Mild(h, g) ==
  SameFlags(h, g) /\ TaskPerNew(h, g) /\ (Stored(h) => Stored(g))

-----------------------------------------------------------------------------
(* Changing one part of the heap *)

\* A call that leaves the queue, lists and forward pointers alone is mild.
LEMMA MildFrame ==
  ASSUME NEW h, NEW g, SameFlags(h, g), g.work = h.work,
         \A c \in Collectors : /\ g.coll[c].live = h.coll[c].live
                               /\ g.coll[c].forward = h.coll[c].forward
                               /\ g.coll[c].lists = h.coll[c].lists
  PROVE  Mild(h, g)
<1>1. TaskPerNew(h, g)
  BY DEF TaskPerNew, QueuedAt
<1>2. Stored(h) => Stored(g)
  BY DEF Stored, store_count_zero
<1> QED
  BY <1>1, <1>2 DEF Mild

\* The two parts of a call may be looked at one after the other.
LEMMA MildTrans ==
  ASSUME NEW h, NEW g, NEW k, Mild(h, g), Mild(g, k)
  PROVE  Mild(h, k)
<1>1. SameFlags(h, k)
  BY DEF Mild, SameFlags
<1>2. TaskPerNew(h, k)
  <2> SUFFICES ASSUME NEW c \in Collectors
               PROVE  \/ /\ k.coll[c].live = h.coll[c].live
                         /\ QueuedAt(k, c) = QueuedAt(h, c)
                      \/ /\ ~h.coll[c].live /\ k.coll[c].live
                         /\ \E i : QueuedAt(k, c) = QueuedAt(h, c) \cup {i}
    BY DEF TaskPerNew
  <2>1. \/ h.coll[c].live = g.coll[c].live /\ QueuedAt(h, c) = QueuedAt(g, c)
        \/ /\ ~h.coll[c].live /\ g.coll[c].live
           /\ \E i : QueuedAt(g, c) = QueuedAt(h, c) \cup {i}
    BY DEF Mild, TaskPerNew
  <2>2. \/ k.coll[c].live = g.coll[c].live /\ QueuedAt(k, c) = QueuedAt(g, c)
        \/ /\ ~g.coll[c].live /\ k.coll[c].live
           /\ \E i : QueuedAt(k, c) = QueuedAt(g, c) \cup {i}
    BY DEF Mild, TaskPerNew
  <2> QED
    BY <2>1, <2>2, Zenon
<1> QED
  BY <1>1, <1>2 DEF Mild

\* Doing nothing is mild.
LEMMA MildSelf ==
  ASSUME NEW h
  PROVE  Mild(h, h)
BY MildFrame DEF SameFlags

\* So is an assertion, whether it fails or not.
LEMMA MildAssert ==
  ASSUME NEW h, Good(h), NEW P, NEW what \in Failures
  PROVE  /\ Mild(h, assert(h, P, what))
         /\ SameBut(h, assert(h, P, what)) /\ Keeps(h, assert(h, P, what))
<1> DEFINE g == assert(h, P, what)
<1>1. SameBut(h, g)
  BY AssertSame
<1> HIDE DEF g
<1>2. Mild(h, g)
  BY <1>1, MildFrame DEF SameBut, SameFlags
<1> QED
  BY <1>1, <1>2 DEF SameBut, g

\* And writing an object's header but for its two flags (object.c).
LEMMA MildObject ==
  ASSUME NEW h, Good(h), NEW o \in Objects, NEW r,
         r.phantomized = h.obj[o].phantomized,
         r.phantomization_complete = h.obj[o].phantomization_complete
  PROVE  Mild(h, [h EXCEPT !.obj[o] = r])
<1> DEFINE g == [h EXCEPT !.obj[o] = r]
<1>1. g.work = h.work /\ g.coll = h.coll /\ g.obj = [h.obj EXCEPT ![o] = r]
      /\ h.obj \in [Objects -> Object]
  BY DEF Good, HeapType
<1> HIDE DEF g
<1>2. SameFlags(h, g)
  BY <1>1 DEF SameFlags
<1>3. Mild(h, g)
  BY <1>1, <1>2, MildFrame
<1> QED
  BY <1>3 DEF g

\* And changing one of its counts.
LEMMA MildCount ==
  ASSUME NEW h, Good(h), NEW o \in Objects, NEW w \in 0..2, NEW v \in Int
  PROVE  LET g == [h EXCEPT !.obj[o].count[w] = v]
         IN  Mild(h, g) /\ Keeps(h, g) /\ g.coll = h.coll
<1> DEFINE r == [h.obj[o] EXCEPT !.count[w] = v]
<1>1. r.phantomized = h.obj[o].phantomized
      /\ r.phantomization_complete = h.obj[o].phantomization_complete
  <2>1. h.obj[o] \in Object
    BY DEF Good, HeapType
  <2> QED
    BY <2>1 DEF Object
<1>2. [h EXCEPT !.obj[o].count[w] = v] = [h EXCEPT !.obj[o] = r]
  OBVIOUS
<1> HIDE DEF r
<1>3. Mild(h, [h EXCEPT !.obj[o] = r])
  BY <1>1, MildObject
<1> QED
  BY <1>2, <1>3, CountUpdate

\* And writing a link (link.c).
LEMMA MildLink ==
  ASSUME NEW h, Good(h), NEW l, NEW r
  PROVE  Mild(h, [h EXCEPT !.link[l] = r])
<1> DEFINE g == [h EXCEPT !.link[l] = r]
<1>1. g.work = h.work /\ g.coll = h.coll /\ g.obj = h.obj
  BY DEF Good, HeapType
<1> HIDE DEF g
<1>2. Mild(h, g)
  BY <1>1, MildFrame DEF SameFlags
<1> QED
  BY <1>2 DEF g

\* And object_set_collector (object.c:25-37).
LEMMA MildSetCollector ==
  ASSUME NEW h, Good(h), NEW o \in Objects, NEW c \in Collectors \cup {NULL},
         c # NULL => h.coll[c].live /\ o \in Known(h)
  PROVE  /\ Mild(h, object_set_collector(h, o, c))
         /\ Keeps(h, object_set_collector(h, o, c))
<1> DEFINE g == object_set_collector(h, o, c)
<1>1. CollectorSet(h, o, c, g)
  BY SetCollector
<1>2. h.obj \in [Objects -> Object]
  BY DEF Good, HeapType
<1> HIDE DEF g
<1>3. SameFlags(h, g)
  BY <1>1, <1>2 DEF CollectorSet, SameFlags, Object
<1>4. Mild(h, g)
  BY <1>1, <1>3, MildFrame DEF CollectorSet
<1> QED
  BY <1>4, SetCollectorKeeps DEF g

\* And writing the lists of a collector that does not forward, or emptying
\* those of one that does (safelist.c).
LEMMA MildLists ==
  ASSUME NEW h, Good(h), NEW c \in Collectors,
         NEW ls \in [ListNames -> Seq(Known(h))],
         Stored(h) => \/ h.coll[c].forward = NULL
                      \/ \A l \in ListNames : ls[l] = <<>>
  PROVE  LET g == [h EXCEPT !.coll[c].lists = ls]
         IN  Mild(h, g) /\ Keeps(h, g)
<1> DEFINE g == [h EXCEPT !.coll[c].lists = ls]
<1>0. Keeps(h, g)
  BY ListsGood
<1>1. /\ g.obj = h.obj /\ g.work = h.work
      /\ \A d \in Collectors : g.coll[d].forward = h.coll[d].forward
      /\ g.coll[c].lists = ls
      /\ \A d \in Collectors \ {c} : g.coll[d] = h.coll[d]
  BY DEF Good, HeapType, Collector
<1> HIDE DEF g
<1>2. SameFlags(h, g) /\ TaskPerNew(h, g)
  BY <1>0, <1>1 DEF SameFlags, TaskPerNew, QueuedAt, Keeps
<1>3. Stored(h) => Stored(g)
  BY <1>1 DEF Stored, store_count_zero
<1> QED
  BY <1>0, <1>2, <1>3 DEF Mild, g

-----------------------------------------------------------------------------
(* The queue *)

\* Where the task of c is once another one has been queued.
LEMMA QueuedAppend ==
  ASSUME NEW S, NEW q \in Seq(S), NEW t \in S, NEW u
  PROVE  {i \in DOMAIN Append(q, t) : Append(q, t)[i] = u} =
           {i \in DOMAIN q : q[i] = u} \cup (IF t = u THEN {Len(q) + 1} ELSE {})
<1>1. /\ Len(q) \in Nat /\ DOMAIN q = 1..Len(q)
      /\ DOMAIN Append(q, t) = 1..(Len(q) + 1)
      /\ Append(q, t)[Len(q) + 1] = t
      /\ \A i \in 1..Len(q) : Append(q, t)[i] = q[i]
  BY AppendProperties
<1>2. 1..(Len(q) + 1) = (1..Len(q)) \cup {Len(q) + 1}
  BY <1>1
<1> QED
  BY <1>1, <1>2

\* object_request_delete queues a task of an object (object.c:116-118).
LEMMA MildRequestDelete ==
  ASSUME NEW h, Good(h), NEW o \in Known(h)
  PROVE  LET g == object_request_delete(h, o)
         IN  Mild(h, g) /\ Keeps(h, g)
<1> DEFINE t == [run |-> "request_delete", arg |-> o]
           g == object_request_delete(h, o)
<1>1. t \in KnownTask(h) /\ \A c : t # CollTask(c)
  BY DEF KnownTask, CollTask
<1>2. h \in HeapType /\ h.work \in Seq(KnownTask(h))
  BY DEF Good, UsedOK, WorkOK
<1>3. g = [h EXCEPT !.work = Append(@, t)]
  BY DEF object_request_delete, task_start
<1> HIDE DEF t, g
<1>4. /\ g.obj = h.obj /\ g.coll = h.coll
      /\ g.work = Append(h.work, t)
  BY <1>2, <1>3 DEF HeapType
<1>5. \A c : QueuedAt(g, c) = QueuedAt(h, c)
  BY <1>1, <1>2, <1>4, QueuedAppend DEF QueuedAt
<1>6. Mild(h, g)
  BY <1>4, <1>5
     DEF Mild, SameFlags, TaskPerNew, Stored, store_count_zero
<1> QED
  BY <1>6, RequestDeleteGood DEF g

\* A collector is created with its task (object.c:129-133).
LEMMA MildStartCollector ==
  ASSUME NEW h, Good(h), NEW o \in Known(h), CanCreate(h)
  PROVE  Mild(h, StartCollector(h, o))
<1> DEFINE c == FreshCollector(h)
           h1 == collector_create(h, c)
           h2 == object_set_collector(h1, o, c)
           h3 == task_start(h2, "collector_run", c)
<1>1. c \in Collectors /\ ~h.coll[c].live /\ o \in Objects
  BY DEF CanCreate, FreshCollector, Known
<1>2. StartCollector(h, o) = h3
  BY DEF StartCollector
<1> HIDE DEF c
<1>3. h.coll[c].ref_count = 0 /\ h.coll[c].forward = NULL
  BY <1>1 DEF Good, CollectorsOK, DeadUnused
<1>4. /\ Good(h1) /\ SameUsed(h, h1) /\ h1.coll[c].live
      /\ h1.obj = h.obj /\ h1.work = h.work
      /\ \A d \in Collectors \ {c} : h1.coll[d] = h.coll[d]
  BY <1>1, <1>3, CollectorReset DEF collector_create
<1>5. h1.coll[c].forward = NULL
  BY <1>1 DEF collector_create, NoCollector, Good, HeapType
<1> HIDE DEF h1
<1>6. CollectorSet(h1, o, c, h2)
  <2>1. o \in Known(h1)
    BY <1>4 DEF SameUsed
  <2> QED
    BY <1>1, <1>4, <2>1, SetCollector
<1> HIDE DEF h2
<1>7. /\ h3.obj = h2.obj /\ h3.coll = h2.coll
      /\ h3.work = Append(h2.work, CollTask(c))
      /\ h2.work \in Seq(KnownTask(h2)) /\ CollTask(c) \in KnownTask(h2)
  BY <1>1, <1>6
     DEF CollectorSet, task_start, CollTask, Good, HeapType, UsedOK, WorkOK, KnownTask
<1> HIDE DEF h3
<1>8. \A d \in Collectors :
        QueuedAt(h3, d) = QueuedAt(h2, d)
          \cup (IF d = c THEN {Len(h2.work) + 1} ELSE {})
  <2> SUFFICES ASSUME NEW d \in Collectors
               PROVE  QueuedAt(h3, d) = QueuedAt(h2, d)
                        \cup (IF d = c THEN {Len(h2.work) + 1} ELSE {})
    OBVIOUS
  <2>1. CollTask(c) = CollTask(d) <=> d = c
    BY DEF CollTask
  <2> QED
    BY <1>7, <2>1, QueuedAppend DEF QueuedAt
<1>9. \A d \in Collectors : QueuedAt(h2, d) = QueuedAt(h, d)
  BY <1>4, <1>6 DEF QueuedAt, CollectorSet
<1>10. SameFlags(h, h3)
  <2>1. h1.obj \in [Objects -> Object]
    BY <1>4 DEF Good, HeapType
  <2> QED
    BY <1>4, <1>6, <1>7, <2>1 DEF CollectorSet, SameFlags, Object
<1>11. TaskPerNew(h, h3)
  <2>1. \A d \in Collectors : h3.coll[d].live = h1.coll[d].live
    BY <1>6, <1>7 DEF CollectorSet
  <2> QED
    BY <1>1, <1>4, <1>8, <1>9, <2>1 DEF TaskPerNew
<1>12. Stored(h) => Stored(h3)
  <2>1. \A d \in Collectors : /\ h3.coll[d].forward = h1.coll[d].forward
                             /\ h3.coll[d].lists = h1.coll[d].lists
    BY <1>6, <1>7 DEF CollectorSet
  <2> QED
    BY <1>4, <1>5, <2>1 DEF Stored, store_count_zero
<1> QED
  BY <1>2, <1>10, <1>11, <1>12 DEF Mild

-----------------------------------------------------------------------------
(* The functions of collector.c, object.c and link.c *)

\* collector_add_object puts the node on a list of the collector its chain
\* ends in (collector.c:60-81).
LEMMA MildAddObject ==
  ASSUME NEW h, Good(h), NEW o \in Known(h),
         NEW c \in Collectors, h.coll[c].live
  PROVE  Mild(h, collector_add_object(h, c, o))
<1> DEFINE add_to == collector_update(h, c)
           w  == h.obj[o].which
           h1 == [h EXCEPT !.obj[o].count[w] = @ + 1]
           h2 == [h1 EXCEPT !.obj[o].count[Phantom] = @ + 1]
           ls == [h2.coll[add_to].lists EXCEPT !["collect"] = Append(@, o)]
           h3 == [h2 EXCEPT !.coll[add_to].lists = ls]
           h4 == object_set_collector(h3, o, add_to)
<1>1. /\ add_to \in Collectors /\ h.coll[add_to].live /\ o \in Objects
      /\ h.coll[add_to].forward = NULL
  BY UpdateCollector DEF Known
<1>2. collector_add_object(h, c, o) = h4
  BY DEF collector_add_object
<1> HIDE DEF add_to
<1>3. w \in 0..2 /\ h.obj[o].count[w] + 1 \in Int
  BY <1>1, CountsInt
<1>4. Mild(h, h1) /\ Keeps(h, h1) /\ h1.coll = h.coll
  BY <1>1, <1>3, MildCount
<1> HIDE DEF h1
<1>5. /\ Good(h1) /\ Phantom \in 0..2
      /\ h1.obj[o].count[Phantom] + 1 \in Int
  BY <1>1, <1>4, CountsInt DEF Keeps
<1>6. Mild(h1, h2) /\ Keeps(h1, h2) /\ h2.coll = h1.coll
  BY <1>1, <1>5, MildCount
<1> HIDE DEF h2
<1>7. ls \in [ListNames -> Seq(Known(h2))] /\ o \in Known(h2)
  <2>1. h2.coll[add_to].lists \in [ListNames -> Seq(Known(h2))]
    BY <1>1, <1>6 DEF Keeps, Good, UsedOK, ListsOK
  <2>2. o \in Known(h2)
    BY <1>4, <1>6 DEF Keeps, SameUsed
  <2> QED
    BY <2>1, <2>2, AppendToList DEF ListNames
<1> HIDE DEF ls
<1>8. Mild(h2, h3) /\ Keeps(h2, h3)
  BY <1>1, <1>4, <1>6, <1>7, MildLists DEF Keeps
<1> HIDE DEF h3
<1>9. h3.coll[add_to].live /\ o \in Known(h3)
  BY <1>1, <1>4, <1>6, <1>7, <1>8 DEF Keeps, SameUsed
<1>10. Mild(h3, h4)
  BY <1>1, <1>8, <1>9, MildSetCollector DEF Keeps
<1> QED
  BY <1>2, <1>4, <1>6, <1>8, <1>10, MildTrans

\* object_dec starts at most one collector, with its task (object.c:120-138).
LEMMA MildDec ==
  ASSUME NEW h, Good(h), NEW o \in Known(h), NEW w \in 0..2, CanCreate(h)
  PROVE  Mild(h, object_dec(h, o, w))
<1> DEFINE h1 == [h EXCEPT !.obj[o].count[w] = @ - 1]
           P  == h1.obj[o].count[w] >= 0
           h2 == assert(h1, P, "object_dec:123")
           h3 == IF h2.obj[o].collector = NULL THEN StartCollector(h2, o) ELSE h2
           g2 == object_request_delete(h2, o)
           g3 == collector_add_object(h3, h3.obj[o].collector, o)
<1>1. object_dec(h, o, w) \in {h2, g2, g3}
  BY DEF object_dec
<1>2. Mild(h, h1) /\ Keeps(h, h1)
  BY CountsInt, MildCount DEF Known
<1> HIDE DEF h1
<1> HIDE DEF P
<1>3. Mild(h1, h2) /\ Keeps(h1, h2)
  BY <1>2, MildAssert DEF Keeps, Failures
<1> HIDE DEF h2
<1>4. /\ Good(h2) /\ CanCreate(h2)
      /\ o \in Known(h2) /\ o \in Objects
  BY <1>2, <1>3 DEF Keeps, CanCreate, SameUsed, Known
<1>5. /\ Mild(h2, h3)
      /\ Good(h3) /\ SameUsed(h2, h3) /\ h3.obj[o].collector \in Collectors
  <2>1. CASE h2.obj[o].collector = NULL
    BY <1>4, <2>1, StartCollectorGood, MildStartCollector
  <2>2. CASE h2.obj[o].collector # NULL
    BY <1>4, <2>2, PointedLive, MildSelf DEF SameUsed
  <2> QED
    BY <2>1, <2>2
<1> HIDE DEF h3
<1>6. Mild(h2, g2)
  BY <1>4, MildRequestDelete
<1>7. Mild(h3, g3)
  <2>1. h3.coll[h3.obj[o].collector].live /\ o \in Known(h3)
    BY <1>4, <1>5, PointedLive, HeapAssumption DEF SameUsed
  <2> QED
    BY <1>5, <2>1, MildAddObject
<1> HIDE DEF g2, g3
<1> QED
  BY <1>1, <1>2, <1>3, <1>5, <1>6, <1>7, MildTrans

\* object_dec_phantom starts none (object.c:140-160).
LEMMA MildDecPhantom ==
  ASSUME NEW h, Good(h), NEW o \in Known(h)
  PROVE  Mild(h, object_dec_phantom(h, o))
<1> DEFINE h1 == [h EXCEPT !.obj[o].count[Phantom] = @ - 1]
           P  == h1.obj[o].count[Phantom] >= 0
           h2 == assert(h1, P, "object_dec_phantom:150")
           g2 == object_request_delete(h2, o)
           g3 == object_set_collector(h2, o, NULL)
<1>1. object_dec_phantom(h, o) \in {h2, g2, g3}
  BY DEF object_dec_phantom
<1>2. Mild(h, h1) /\ Keeps(h, h1)
  BY CountsInt, MildCount DEF Known
<1> HIDE DEF h1
<1> HIDE DEF P
<1>3. Mild(h1, h2) /\ Keeps(h1, h2)
  BY <1>2, MildAssert DEF Keeps, Failures
<1> HIDE DEF h2
<1>4. Good(h2) /\ o \in Known(h2) /\ o \in Objects
  BY <1>2, <1>3 DEF Keeps, SameUsed, Known
<1>5. Mild(h2, g2)
  BY <1>4, MildRequestDelete
<1>6. Mild(h2, g3)
  BY <1>4, MildSetCollector
<1> HIDE DEF g2, g3
<1> QED
  BY <1>1, <1>2, <1>3, <1>5, <1>6, MildTrans

\* Neither does link_dec do more (link.c:55-66).
LEMMA MildLinkDec ==
  ASSUME NEW h, Good(h), NEW l \in Allocated(h), CanCreate(h)
  PROVE  Mild(h, link_dec(h, l))
<1>1. /\ h.link[l].target \in Known(h)
      /\ h.link[l].which \in 0..2
  <2>1. h.link[l] \in Link
    BY DEF Good, HeapType, Allocated
  <2> QED
    BY <2>1 DEF Good, UsedOK, LinksOK, Link, Bits
<1> QED
  BY <1>1, MildDec, MildDecPhantom DEF link_dec

\* A collector whose lists are empty may forward (collector.c:42-58).
LEMMA MildSetForward ==
  ASSUME NEW h, Good(h), NEW c \in Collectors, NEW f \in Collectors \cup {NULL},
         f # NULL => store_count_zero(h, c)
  PROVE  LET g == collector_set_forward(h, c, f)
         IN  /\ Mild(h, g)
             /\ \A d \in Collectors : /\ g.coll[d].live = h.coll[d].live
                                      /\ g.coll[d].lists = h.coll[d].lists
             /\ \A d \in Collectors \ {c} : g.coll[d].forward = h.coll[d].forward
             /\ g.obj = h.obj /\ g.work = h.work
<1> DEFINE g == collector_set_forward(h, c, f)
<1>1. h \in HeapType
  BY DEF Good
<1>2. /\ g.obj = h.obj /\ g.work = h.work
      /\ \A d \in Collectors : /\ g.coll[d].live = h.coll[d].live
                               /\ g.coll[d].lists = h.coll[d].lists
      /\ \A d \in Collectors \ {c} : g.coll[d].forward = h.coll[d].forward
      /\ g.coll[c].forward = f
  <2> DEFINE m == [d \in Collectors |->
                    [h.coll[d] EXCEPT !.ref_count =
                       @ + (IF d = f THEN 1 ELSE 0)
                         - (IF d = h.coll[c].forward THEN 1 ELSE 0)]]
             n == [m EXCEPT ![c].forward = f]
  <2>1. \A d \in Collectors : /\ m[d].live = h.coll[d].live
                              /\ m[d].lists = h.coll[d].lists
                              /\ m[d].forward = h.coll[d].forward
                              /\ m[d] \in Collector
    <3> SUFFICES ASSUME NEW d \in Collectors
                 PROVE  /\ m[d].live = h.coll[d].live
                        /\ m[d].lists = h.coll[d].lists
                        /\ m[d].forward = h.coll[d].forward
                        /\ m[d] \in Collector
      BY Zenon
    <3> DEFINE n1 == h.coll[d].ref_count + (IF d = f THEN 1 ELSE 0)
                       - (IF d = h.coll[c].forward THEN 1 ELSE 0)
    <3>1. h.coll[d] \in Collector
      BY <1>1 DEF HeapType
    <3>2. n1 \in Int
      BY <3>1 DEF Collector
    <3>3. m[d] = [h.coll[d] EXCEPT !.ref_count = n1]
      OBVIOUS
    <3> HIDE DEF m, n1
    <3> QED
      BY <3>1, <3>2, <3>3 DEF Collector
  <2> DEFINE k == [h EXCEPT !.coll = m]
  <2>2. g = IF h.coll[c].forward = f THEN h
            ELSE [k EXCEPT !.coll[c].forward = f]
    BY DEF collector_set_forward, counter_ref
  <2>3. m \in [Collectors -> Collector]
    BY <2>1
  <2> HIDE DEF m, g
  <2>4. /\ \A d \in Collectors : /\ n[d].live = h.coll[d].live
                                 /\ n[d].lists = h.coll[d].lists
        /\ \A d \in Collectors \ {c} : n[d].forward = h.coll[d].forward
        /\ n[c].forward = f
    BY <2>1, <2>3 DEF Collector
  <2>5. (g = h /\ h.coll[c].forward = f) \/ g = [h EXCEPT !.coll = n]
    BY <1>1, <2>2 DEF HeapType
  <2> HIDE DEF n, k
  <2> QED
    BY <1>1, <2>4, <2>5 DEF HeapType
<1> HIDE DEF g
<1>3. SameFlags(h, g) /\ TaskPerNew(h, g)
  BY <1>2 DEF SameFlags, TaskPerNew, QueuedAt
<1>4. Stored(h) => Stored(g)
  BY <1>2 DEF Stored, store_count_zero
<1> QED
  BY <1>2, <1>3, <1>4 DEF Mild, g

\* collector_merge drains every list of a collector before it forwards
\* (collector.c:139-161).
LEMMA MildMerge ==
  ASSUME NEW h, Good(h), NEW t \in Collectors, NEW s \in Collectors, t # s,
         h.coll[t].live, h.coll[s].live,
         h.coll[t].forward = NULL, h.coll[s].forward = NULL
  PROVE  Mild(h, collector_merge(h, t, s))
<1> DEFINE from == h.coll[s].lists
           into == h.coll[t].lists
           e  == [l \in ListNames |-> <<>>]
           ls == [into EXCEPT
                    !["collect"]      = @ \o from["collect"],
                    !["merged_list"]  = @ \o from["merged_list"]
                                          \o from["clean_list"]
                                          \o from["recovery_list"],
                    !["rebuild_list"] = @ \o from["rebuild_list"]]
           h1 == [h EXCEPT !.coll[s].lists = e]
           h2 == [h1 EXCEPT !.coll[t].lists = ls]
           h3 == collector_set_forward(h2, s, t)
<1>1. collector_merge(h, t, s) = h3
  BY DEF collector_merge
<1>2. e \in [ListNames -> Seq(Known(h))]
  BY EmptySeq
<1>3. /\ Mild(h, h1) /\ Keeps(h, h1)
      /\ h1.coll[t].forward = NULL /\ h1.coll[s].lists = e
  <2>1. Mild(h, h1) /\ Keeps(h, h1)
    BY <1>2, MildLists
  <2>2. h1.coll[t].forward = NULL /\ h1.coll[s].lists = e
    BY DEF Good, HeapType, Collector
  <2> QED
    BY <2>1, <2>2
<1>4. Good(h1) /\ h1.coll \in [Collectors -> Collector] /\ h1 \in HeapType
  BY <1>3 DEF Keeps, Good, HeapType
<1> HIDE DEF h1
<1>5. ls \in [ListNames -> Seq(Known(h1))]
  <2> DEFINE K == Known(h1)
  <2>1. from \in [ListNames -> Seq(K)] /\ into \in [ListNames -> Seq(K)]
    BY <1>3 DEF Good, UsedOK, ListsOK, Keeps, SameUsed
  <2> HIDE DEF from, into, K
  <2>2. \A l \in ListNames : from[l] \in Seq(K) /\ into[l] \in Seq(K)
    BY <2>1
  <2>3. /\ into["collect"] \o from["collect"] \in Seq(K)
        /\ into["rebuild_list"] \o from["rebuild_list"] \in Seq(K)
        /\ into["merged_list"] \o from["merged_list"] \o from["clean_list"]
             \o from["recovery_list"] \in Seq(K)
    BY <2>2, ConcatProperties DEF ListNames
  <2>4. ls \in [ListNames -> Seq(K)]
    BY <2>1, <2>3
  <2> QED
    BY <2>4 DEF K
<1> HIDE DEF ls
<1>6. /\ Mild(h1, h2) /\ Keeps(h1, h2)
      /\ h2.coll[s].lists = e
  <2>1. Mild(h1, h2) /\ Keeps(h1, h2)
    BY <1>3, <1>4, <1>5, MildLists
  <2>2. h2.coll[s].lists = h1.coll[s].lists
    BY <1>4 DEF HeapType, Collector
  <2> QED
    BY <1>3, <2>1, <2>2
<1> HIDE DEF h2
<1>7. store_count_zero(h2, s)
  BY <1>6 DEF store_count_zero
<1>8. Mild(h2, h3)
  BY <1>6, <1>7, MildSetForward DEF Keeps
<1> HIDE DEF h3
<1> QED
  BY <1>1, <1>3, <1>6, <1>8, MildTrans

\* object_merge_collectors merges the ends of two chains (object.c:343-406).
LEMMA MildMergeCollectors ==
  ASSUME NEW h, Good(h), NEW o \in Known(h), NEW target \in Known(h)
  PROVE  Mild(h, object_merge_collectors(h, o, target))
<1> DEFINE s == h.obj[o].collector
           t == h.obj[target].collector
           S == collector_update(h, s)
           T == collector_update(h, t)
           h1 == IF S = T THEN h ELSE collector_merge(h, T, S)
           g1 == object_set_collector(h, target, s)
           g2 == object_set_collector(h, o, t)
           g3 == object_set_collector(h1, target, T)
           g4 == object_set_collector(g3, o, T)
<1>1. /\ s # NULL => s \in Collectors /\ h.coll[s].live
      /\ t # NULL => t \in Collectors /\ h.coll[t].live
      /\ o \in Objects /\ target \in Objects
  BY PointedLive DEF Known
<1>2. CASE s = t
  BY <1>2, MildSelf DEF object_merge_collectors
<1>3. CASE s # t /\ t = NULL
  <2>1. object_merge_collectors(h, o, target) = g1
    BY <1>3 DEF object_merge_collectors
  <2> QED
    BY <1>1, <1>3, <2>1, MildSetCollector
<1>4. CASE s # t /\ t # NULL /\ s = NULL
  <2>1. object_merge_collectors(h, o, target) = g2
    BY <1>4 DEF object_merge_collectors
  <2> QED
    BY <1>1, <1>4, <2>1, MildSetCollector
<1>5. CASE s # t /\ t # NULL /\ s # NULL
  <2>1. object_merge_collectors(h, o, target) = g4
    BY <1>5 DEF object_merge_collectors
  <2>2. /\ S \in Collectors /\ h.coll[S].live /\ h.coll[S].forward = NULL
        /\ T \in Collectors /\ h.coll[T].live /\ h.coll[T].forward = NULL
    BY <1>1, <1>5, UpdateCollector
  <2> HIDE DEF S, T
  <2>3. Mild(h, h1) /\ Keeps(h, h1)
    BY <2>2, MergeGood, MildMerge, KeepsSelf, MildSelf DEF SameBut
  <2> HIDE DEF h1
  <2>4. Mild(h1, g3) /\ Keeps(h1, g3)
    <3>1. Good(h1) /\ h1.coll[T].live /\ target \in Known(h1)
      BY <2>2, <2>3 DEF Keeps, SameUsed
    <3> QED
      BY <1>1, <2>2, <3>1, MildSetCollector
  <2> HIDE DEF g3
  <2>5. Mild(g3, g4)
    <3>1. Good(g3) /\ g3.coll[T].live /\ o \in Known(g3)
      BY <2>2, <2>3, <2>4 DEF Keeps, SameUsed
    <3> QED
      BY <1>1, <2>2, <3>1, MildSetCollector
  <2> QED
    BY <2>1, <2>3, <2>4, <2>5, MildTrans
<1> QED
  BY <1>2, <1>3, <1>4, <1>5

\* link_phantomize, in whose course a collector may be created
\* (link.c:36-53).
LEMMA MildLinkPhantomize ==
  ASSUME NEW h, Good(h), NEW l \in Allocated(h), CanCreate(h)
  PROVE  Mild(h, link_phantomize(h, l))
<1> DEFINE o  == h.link[l].src
           t  == h.link[l].target
           h0 == [h EXCEPT !.obj[t].count[Phantom] = @ + 1]
           h1 == link_dec(h0, l)
           P  == h1.obj[t].collector # NULL \/ h1.obj[o].collector # NULL
           h2 == assert(h1, P, "link_phantomize:45")
           h3 == object_merge_collectors(h2, o, t)
           r  == [h3.link[l] EXCEPT !.phantomized = TRUE]
           h4 == [h3 EXCEPT !.link[l] = r]
           Q  == h4.obj[t].collector = h4.obj[o].collector
           h5 == assert(h4, Q, "link_phantomize:48")
<1>1. /\ o \in Known(h) /\ t \in Known(h)
      /\ o \in Objects /\ t \in Objects
  BY DEF Good, UsedOK, LinksOK, Known
<1>2. link_phantomize(h, l) \in {h, h5}
  BY DEF link_phantomize
<1> HIDE DEF o, t
<1>3. Mild(h, h0) /\ Keeps(h, h0)
  BY <1>1, CountsInt, MildCount
<1> HIDE DEF h0
<1>4. Good(h0) /\ l \in Allocated(h0) /\ CanCreate(h0)
  BY <1>3 DEF Keeps, CanCreate, SameUsed
<1>5. Mild(h0, h1) /\ Good(h1) /\ SameUsed(h0, h1)
  BY <1>4, LinkDecGood, MildLinkDec
<1> HIDE DEF h1, P
<1>6. Mild(h1, h2) /\ Keeps(h1, h2)
  BY <1>5, MildAssert DEF Failures
<1> HIDE DEF h2
<1>7. Mild(h2, h3) /\ Keeps(h2, h3)
  <2>1. Good(h2) /\ o \in Known(h2) /\ t \in Known(h2)
    BY <1>1, <1>3, <1>5, <1>6 DEF Keeps, SameUsed
  <2> QED
    BY <2>1, MergeCollectorsGood, MildMergeCollectors
<1> HIDE DEF h3
<1>8. /\ Good(h3) /\ l \in Allocated(h3) /\ l \in Links
      /\ h3.link[l] \in Link /\ h3.link[l].state # "none"
  BY <1>4, <1>5, <1>6, <1>7
     DEF Keeps, SameUsed, Allocated, Good, HeapType
<1>9. Mild(h3, h4) /\ Good(h4)
  <2>1. /\ r \in Link /\ r.state # "none"
        /\ r.src = h3.link[l].src /\ r.target = h3.link[l].target
    BY <1>8 DEF Link
  <2> HIDE DEF r
  <2> QED
    BY <1>8, <2>1, LinkFields, MildLink DEF Keeps
<1> HIDE DEF h4, Q
<1>10. Mild(h4, h5)
  BY <1>9, MildAssert DEF Failures
<1> HIDE DEF h5
<1> QED
  BY <1>2, <1>3, <1>5, <1>6, <1>7, <1>9, <1>10, MildTrans, MildSelf

\* Writing the table of a node (object.c:85-98, 429-470).
LEMMA MildTable ==
  ASSUME NEW h, Good(h), NEW o \in Objects, NEW t
  PROVE  Mild(h, [h EXCEPT !.obj[o].links = t])
<1> DEFINE r == [h.obj[o] EXCEPT !.links = t]
<1>1. h.obj[o] \in Object
  BY DEF Good, HeapType
<1>2. /\ r.phantomized = h.obj[o].phantomized
      /\ r.phantomization_complete = h.obj[o].phantomization_complete
  BY <1>1 DEF Object
<1>3. [h EXCEPT !.obj[o].links = t] = [h EXCEPT !.obj[o] = r]
  OBVIOUS
<1> HIDE DEF r
<1> QED
  BY <1>2, <1>3, MildObject

\* safelist_add follows the wires to a collector that does not forward
\* (safelist.c:18-36).
LEMMA MildSafelistAdd ==
  ASSUME NEW h, Good(h), NEW c \in Collectors, NEW l \in ListNames,
         NEW o \in Known(h)
  PROVE  Mild(h, safelist_add(h, c, l, o))
<1> DEFINE d == IF h.coll[c].forward = NULL THEN c ELSE collector_update(h, c)
           n == IF h.coll[c].forward = NULL THEN l ELSE ForwardedList(l)
           ls == [h.coll[d].lists EXCEPT ![n] = Append(@, o)]
           g == [h EXCEPT !.coll[d].lists = ls]
<1>1. d \in Collectors /\ h.coll[d].forward = NULL
  <2>1. h.coll[c].forward # NULL => h.coll[c].live
    BY DEF Good, CollectorsOK, DeadUnused
  <2> QED
    BY <2>1, UpdateCollector
<1>2. n \in ListNames
  BY DEF ForwardedList, ListNames
<1>3. safelist_add(h, c, l, o) = g
  BY DEF safelist_add
<1> HIDE DEF d, n
<1>4. ls \in [ListNames -> Seq(Known(h))]
  <2>1. h.coll[d].lists \in [ListNames -> Seq(Known(h))]
    BY <1>1 DEF Good, UsedOK, ListsOK
  <2> QED
    BY <1>2, <2>1, AppendToList
<1> HIDE DEF ls
<1> QED
  BY <1>1, <1>3, <1>4, MildLists

\* safelist_poll takes a node off a list (safelist.c:47-58).
LEMMA MildSafelistPoll ==
  ASSUME NEW h, Good(h), NEW c \in Collectors, NEW l \in ListNames,
         h.coll[c].lists[l] # <<>>
  PROVE  Mild(h, safelist_poll(h, c, l))
<1> DEFINE ls == [h.coll[c].lists EXCEPT ![l] = Tail(@)]
<1>1. h.coll[c].lists \in [ListNames -> Seq(Known(h))]
  BY DEF Good, UsedOK, ListsOK
<1>2. h.coll[c].lists[l] \in Seq(Known(h))
  BY <1>1
<1>3. Tail(h.coll[c].lists[l]) \in Seq(Known(h))
  BY <1>2, HeadTailProperties
<1>4. ls \in [ListNames -> Seq(Known(h))]
  BY <1>1, <1>3
<1>5. safelist_poll(h, c, l) = [h EXCEPT !.coll[c].lists = ls]
  BY DEF safelist_poll
<1>6. Stored(h) => h.coll[c].forward = NULL
  BY DEF Stored, store_count_zero
<1> HIDE DEF ls
<1> QED
  BY <1>4, <1>5, <1>6, MildLists

\* A node follows its collector (object.c:275-277).
LEMMA MildFollow ==
  ASSUME NEW h, Good(h), NEW o \in Objects
  PROVE  LET g == FollowCollector(h, o)
         IN  /\ Mild(h, g)
             /\ g.obj[o].which = h.obj[o].which
             /\ g.obj[o].count = h.obj[o].count
<1> DEFINE c == h.obj[o].collector
           d == collector_update(h, c)
<1>1. CASE c = NULL
  BY <1>1, MildSelf DEF FollowCollector
<1>2. CASE c # NULL
  <2>1. c \in Collectors /\ h.coll[c].live /\ o \in Known(h)
    BY <1>2, PointedLive
  <2>2. d \in Collectors /\ h.coll[d].live
    BY <2>1, UpdateCollector
  <2>3. FollowCollector(h, o) = object_set_collector(h, o, d)
    BY <1>2 DEF FollowCollector
  <2> HIDE DEF c, d
  <2>4. CollectorSet(h, o, d, object_set_collector(h, o, d))
    BY <2>1, <2>2, SetCollector
  <2>5. h.obj \in [Objects -> Object]
    BY DEF Good, HeapType
  <2>6. /\ object_set_collector(h, o, d).obj[o].which = h.obj[o].which
        /\ object_set_collector(h, o, d).obj[o].count = h.obj[o].count
    BY <2>4, <2>5 DEF CollectorSet, Object
  <2> QED
    BY <2>1, <2>2, <2>3, <2>6, MildSetCollector
<1> QED
  BY <1>1, <1>2

\* collector_destroy frees a collector nobody counts on (collector.c:26-40,
\* 126-132).
LEMMA DestroyFrees ==
  ASSUME NEW h, Good(h), NEW c \in Collectors, h.coll[c].ref_count = 0
  PROVE  LET g == collector_destroy(h, c)
         IN  /\ SameFlags(h, g) /\ g.work = h.work
             /\ ~g.coll[c].live
             /\ \A d \in Collectors \ {c} : g.coll[d].live = h.coll[d].live
             /\ Stored(h) => Stored(g)
<1> DEFINE h1 == collector_set_forward(h, c, NULL)
           g  == [h1 EXCEPT !.coll[c] = NoCollector]
<1>1. collector_destroy(h, c) = g
  BY DEF collector_destroy
<1>2. h.coll[c].forward # c
  <2>1. PICK d \in {c} : h.coll[d].forward \notin {c}
    BY DEF Good, CollectorsOK, Acyclic
  <2> QED
    BY <2>1
<1>3. Good(h1)
  BY <1>2, SetForward, HeapAssumption
<1>4. /\ Mild(h, h1)
      /\ \A d \in Collectors : h1.coll[d].live = h.coll[d].live
      /\ h1.work = h.work
  BY HeapAssumption, MildSetForward
<1> HIDE DEF h1
<1>5. /\ g.obj = h1.obj /\ g.work = h1.work /\ g.coll[c] = NoCollector
      /\ \A d \in Collectors \ {c} : g.coll[d] = h1.coll[d]
  BY <1>3 DEF Good, HeapType
<1> HIDE DEF g
<1>6. SameFlags(h, g)
  BY <1>4, <1>5 DEF Mild, SameFlags
<1>7. Stored(h) => Stored(g)
  BY <1>4, <1>5 DEF Mild, Stored, store_count_zero, NoCollector
<1> QED
  BY <1>1, <1>4, <1>5, <1>6, <1>7 DEF NoCollector

\* object_remove_links empties a table (object.c:85-98).
LEMMA MildRemoveLinks ==
  ASSUME NEW h, Good(h), NEW o \in Objects
  PROVE  Mild(h, object_remove_links(h, o))
<1> DEFINE t  == [f \in Fields |-> NULL]
           h1 == [h EXCEPT !.obj[o].links = t]
           Q  == h.obj[o].count[0] = 0 /\ h.obj[o].count[1] = 0
           h2 == assert(h1, Q, "object_remove_links:96")
<1>1. t \in [Fields -> Allocated(h) \cup {NULL}]
  OBVIOUS
<1>2. object_remove_links(h, o) = h2
  BY DEF object_remove_links
<1> HIDE DEF t, Q
<1>3. Mild(h, h1) /\ Good(h1)
  BY <1>1, TableGood, MildTable DEF Keeps
<1> HIDE DEF h1
<1>4. Mild(h1, h2)
  BY <1>3, MildAssert DEF Failures
<1> QED
  BY <1>2, <1>3, <1>4, MildTrans

\* link_destroy drops its target's count first (link.c:19-34).
LEMMA MildLinkDestroy ==
  ASSUME NEW h, Good(h), NEW l \in Allocated(h), CanCreate(h)
  PROVE  Mild(h, link_destroy(h, l))
<1> DEFINE h1 == link_dec(h, l)
           r  == [h1.link[l] EXCEPT !.state = "freed"]
<1>1. Mild(h, h1) /\ Good(h1)
  BY LinkDecGood, MildLinkDec
<1>2. link_destroy(h, l) = [h1 EXCEPT !.link[l] = r]
  BY DEF link_destroy
<1> HIDE DEF h1, r
<1> QED
  BY <1>1, <1>2, MildLink, MildTrans

\* object_del releases the collector (object.c:71-83).
LEMMA MildObjectDel ==
  ASSUME NEW h, Good(h), NEW o \in Known(h)
  PROVE  Mild(h, object_del(h, o))
<1> DEFINE h1 == object_set_collector(h, o, NULL)
           P  == KeysOf(h, o) = {}
           h2 == assert(h1, P, "object_del:74")
           r  == [h2.obj[o] EXCEPT !.state = "freed"]
<1>0. o \in Objects
  BY DEF Known
<1>1. Mild(h, h1) /\ Good(h1)
  BY <1>0, MildSetCollector DEF Keeps
<1>2. object_del(h, o) = [h2 EXCEPT !.obj[o] = r]
  BY DEF object_del
<1> HIDE DEF h1, P
<1>3. Mild(h1, h2) /\ Good(h2)
  BY <1>1, MildAssert DEF Failures, Keeps
<1> HIDE DEF h2
<1>4. /\ r.phantomized = h2.obj[o].phantomized
      /\ r.phantomization_complete = h2.obj[o].phantomization_complete
  <2>1. h2.obj[o] \in Object
    BY <1>0, <1>3 DEF Good, HeapType
  <2> QED
    BY <2>1 DEF Object
<1> HIDE DEF r
<1> QED
  BY <1>0, <1>1, <1>2, <1>3, <1>4, MildObject, MildTrans

\* So does the last phantom count that is rebuilt (object.c:254-264).
LEMMA MildRebuildCounts ==
  ASSUME NEW h, Good(h), NEW t \in Known(h), NEW w \in 0..2
  PROVE  Mild(h, RebuildCounts(h, t, w))
<1> DEFINE h1 == [h EXCEPT !.obj[t].count[w] = @ + 1]
           h2 == [h1 EXCEPT !.obj[t].count[Phantom] = @ - 1]
           h3 == IF h2.obj[t].count[Phantom] = 0
                   THEN object_set_collector(h2, t, NULL) ELSE h2
           P  == h3.obj[t].count[Phantom] >= 0
           h4 == assert(h3, P, "object_rebuild_link:263")
<1>1. RebuildCounts(h, t, w) = h4
  BY DEF RebuildCounts
<1>2. t \in Objects
  BY DEF Known
<1>3. Mild(h, h1) /\ Good(h1)
  <2>1. h.obj[t].count[w] + 1 \in Int
    BY <1>2, CountsInt
  <2> QED
    BY <1>2, <2>1, MildCount DEF Keeps
<1> HIDE DEF h1
<1>4. Mild(h1, h2) /\ Good(h2)
  <2>1. Phantom \in 0..2 /\ h1.obj[t].count[Phantom] - 1 \in Int
    BY <1>2, <1>3, CountsInt
  <2> QED
    BY <1>2, <1>3, <2>1, MildCount DEF Keeps
<1> HIDE DEF h2
<1>5. Mild(h2, h3) /\ Good(h3)
  <2>1. Mild(h2, h2)
    BY MildSelf
  <2>2. LET k == object_set_collector(h2, t, NULL) IN Mild(h2, k) /\ Good(k)
    BY <1>2, <1>4, MildSetCollector DEF Keeps
  <2> QED
    BY <1>4, <2>1, <2>2
<1> HIDE DEF h3, P
<1>6. Mild(h3, h4)
  BY <1>5, MildAssert DEF Failures
<1> HIDE DEF h4
<1> QED
  BY <1>1, <1>3, <1>4, <1>5, <1>6, MildTrans

\* A rebuilt link may put its target on a rebuild list (object.c:238-269).
LEMMA MildRebuildLink ==
  ASSUME NEW h, Good(h), NEW c \in Collectors, NEW l \in Allocated(h)
  PROVE  Mild(h, object_rebuild_link(h, c, l))
<1> DEFINE o  == h.link[l].src
           t  == h.link[l].target
           P  == h.obj[t].phantomized \/ KeysOf(h, t) = {}
           w  == LinkBit(h, o, t, P)
           r  == [h.link[l] EXCEPT !.which = w, !.phantomized = FALSE]
           h1 == [h EXCEPT !.link[l] = r]
           h2 == RebuildCounts(h1, t, w)
           g  == safelist_add(h2, c, "rebuild_list", t)
<1>1. t \in Known(h) /\ t \in Objects /\ h.link[l] \in Link /\ h.link[l].state # "none"
  BY DEF Good, HeapType, UsedOK, LinksOK, Known, Allocated
<1>2. w \in Bits /\ w \in 0..2
  <2> HIDE DEF o, t, P
  <2> QED
    BY <1>1, LinkBitType
<1>3. object_rebuild_link(h, c, l) \in {h, h2, g}
  BY DEF object_rebuild_link
<1> HIDE DEF o, t, w
<1>4. Mild(h, h1) /\ Good(h1) /\ t \in Known(h1)
  <2>1. /\ r \in Link /\ r.state # "none"
        /\ r.src = h.link[l].src /\ r.target = h.link[l].target
    BY <1>1, <1>2 DEF Link
  <2> HIDE DEF r
  <2>2. Keeps(h, h1)
    BY <2>1, LinkFields
  <2> QED
    BY <1>1, <2>2, MildLink DEF Keeps, SameUsed
<1> HIDE DEF h1
<1>5. Mild(h1, h2) /\ Good(h2) /\ t \in Known(h2)
  BY <1>2, <1>4, RebuildCountsGood, MildRebuildCounts DEF Keeps, SameUsed
<1> HIDE DEF h2
<1>6. Mild(h2, g)
  BY <1>5, MildSafelistAdd DEF ListNames
<1> HIDE DEF g
<1> QED
  BY <1>3, <1>4, <1>5, <1>6, MildTrans, MildSelf

\* The locked section of object_set may merge two collectors
\* (object.c:448-470).
LEMMA MildSetLink ==
  ASSUME NEW h, Good(h), NEW o \in Known(h), NEW f \in Fields,
         NEW t \in Known(h), NEW l \in Links
  PROVE  Mild(h, object_set_link(h, o, f, t, l))
<1> DEFINE r0 == [NoLink EXCEPT !.state = "live", !.src = o, !.target = t]
           h0 == [h EXCEPT !.link[l] = r0]
           tb == [h0.obj[o].links EXCEPT ![f] = l]
           h1 == InstallLink(h, o, f, t, l)
           m  == object_merge_collectors(h1, o, t)
           P  == m.obj[o].collector # NULL
           m1 == assert(m, P, "object_set:455")
           m2 == [m1 EXCEPT !.obj[t].count[Phantom] = @ + 1]
           q1 == [m2.link[l] EXCEPT !.phantomized = TRUE]
           m3 == [m2 EXCEPT !.link[l] = q1]
           Q  == KeysOf(h1, t) = {}
           w  == LinkBit(h1, o, t, Q)
           h2 == [h1 EXCEPT !.obj[t].count[w] = @ + 1]
           q2 == [h2.link[l] EXCEPT !.which = w]
           h3 == [h2 EXCEPT !.link[l] = q2]
<1>1. object_set_link(h, o, f, t, l) \in {m3, h3}
  BY DEF object_set_link
<1>2. o \in Objects /\ t \in Objects
  BY DEF Known
<1>3. h1 = [h0 EXCEPT !.obj[o].links = tb]
  BY DEF InstallLink
<1>4. /\ Mild(h, h0) /\ Good(h0) /\ Allocated(h0) = Allocated(h) \cup {l}
      /\ Known(h0) = Known(h)
  <2>1. /\ r0 \in Link /\ r0.state # "none"
        /\ r0.src \in Known(h) /\ r0.target \in Known(h)
    BY <1>2 DEF NoLink, Link, Memory, Bits
  <2> HIDE DEF r0
  <2> QED
    BY <2>1, LinkUpdate, MildLink
<1> HIDE DEF h0
<1>5. tb \in [Fields -> Allocated(h0) \cup {NULL}]
  <2>1. h0.obj[o] \in Object
    BY <1>2, <1>4 DEF Good, HeapType
  <2>2. h0.obj[o].links \in [Fields -> Links \cup {NULL}]
    BY <2>1 DEF Object
  <2>3. \A k \in Fields : h0.obj[o].links[k] \in Allocated(h0) \cup {NULL}
    BY <1>2, <1>4 DEF Good, UsedOK, TablesOK
  <2> QED
    BY <1>4, <2>2, <2>3
<1> HIDE DEF tb, h1
<1>6. Mild(h0, h1) /\ Good(h1) /\ Known(h1) = Known(h)
  BY <1>2, <1>3, <1>4, <1>5, TableGood, MildTable DEF Keeps, SameUsed
<1>7. Mild(h1, m3)
  <2>1. Mild(h1, m) /\ Good(m)
    BY <1>6, MergeCollectorsGood, MildMergeCollectors DEF Keeps
  <2> HIDE DEF m, P
  <2>2. Mild(m, m1) /\ Good(m1)
    BY <2>1, MildAssert DEF Failures, Keeps
  <2> HIDE DEF m1
  <2>3. Mild(m1, m2) /\ Good(m2)
    <3>1. Phantom \in 0..2 /\ m1.obj[t].count[Phantom] + 1 \in Int
      BY <1>2, <2>2, CountsInt
    <3> QED
      BY <1>2, <2>2, <3>1, MildCount DEF Keeps
  <2> HIDE DEF m2, q1
  <2>4. Mild(m2, m3)
    BY <2>3, MildLink
  <2> HIDE DEF m3
  <2> QED
    BY <2>1, <2>2, <2>3, <2>4, MildTrans
<1>8. Mild(h1, h3)
  <2>1. w \in 0..2
    <3> HIDE DEF Q
    <3> QED
      BY <1>2, <1>6, LinkBitType
  <2> HIDE DEF w
  <2>2. Mild(h1, h2) /\ Good(h2)
    <3>1. h1.obj[t].count[w] + 1 \in Int
      BY <1>2, <1>6, <2>1, CountsInt
    <3> QED
      BY <1>2, <1>6, <2>1, <3>1, MildCount DEF Keeps
  <2> HIDE DEF h2, q2
  <2>3. Mild(h2, h3)
    BY <2>2, MildLink
  <2> HIDE DEF h3
  <2> QED
    BY <2>2, <2>3, MildTrans
<1> HIDE DEF m3, h3
<1> QED
  BY <1>1, <1>4, <1>6, <1>7, <1>8, MildTrans

\* object_inc_strong is mild (object.c:164-168).
LEMMA MildIncStrong ==
  ASSUME NEW h, Good(h), NEW o \in Objects
  PROVE  Mild(h, object_inc_strong(h, o))
<1> DEFINE w == h.obj[o].which
<1>1. w \in 0..2 /\ h.obj[o].count[w] + 1 \in Int
  BY CountsInt
<1> QED
  BY <1>1, MildCount DEF object_inc_strong

\* A new object is not phantomized (object.c:39-69).
LEMMA InitStrongTasks ==
  ASSUME NEW h, Good(h), NEW o \in Objects
  PROVE  LET g == object_init_strong(h, o)
         IN  /\ g.coll = h.coll /\ g.work = h.work
             /\ \A p \in Objects : BeingPhantomized(g, p)
                  <=> p # o /\ BeingPhantomized(h, p)
<1> DEFINE r == [NoObject EXCEPT !.state = "live", !.count[0] = 1]
           g == object_init_strong(h, o)
<1>1. g = [h EXCEPT !.obj[o] = r] /\ ~r.phantomized
  BY DEF object_init_strong, NoObject
<1>2. h \in HeapType
  BY DEF Good
<1> HIDE DEF r, g
<1>3. g.coll = h.coll /\ g.work = h.work /\ g.obj = [h.obj EXCEPT ![o] = r]
  BY <1>1, <1>2 DEF HeapType
<1>4. \A p \in Objects : g.obj[p] = IF p = o THEN r ELSE h.obj[p]
  BY <1>2, <1>3 DEF HeapType
<1>5. \A p \in Objects : BeingPhantomized(g, p)
                          <=> p # o /\ BeingPhantomized(h, p)
  BY <1>1, <1>4 DEF BeingPhantomized
<1> QED
  BY <1>3, <1>5 DEF g

\* object_phantomize_node starts the phantomization of a node that loses its
\* last strong count and is not phantomized yet (object.c:177-209).
LEMMA PhantomizeNodeTasks ==
  ASSUME NEW h, Good(h), NEW o \in Objects
  PROVE  LET g == object_phantomize_node(h, o)
         IN  /\ TaskPerNew(h, g)
             /\ Stored(h) => Stored(g)
             /\ \A p \in Objects : BeingPhantomized(g, p)
                  <=> BeingPhantomized(h, p) \/ (p = o /\ Phantomizes(h, o))
<1> DEFINE h1 == FollowCollector(h, o)
           w  == h1.obj[o].which
           k  == [h1 EXCEPT !.obj[o].count[w] = @ - 1]
           P  == k.obj[o].count[k.obj[o].which] >= 0
           h2 == assert(k, P, "object_phantomize_node:182")
           h3 == BecomePhantom(h2, o)
           F  == FALSE
           e  == assert(h, F, "collector_update:190")
           g  == object_phantomize_node(h, o)
<1>0. /\ h.obj[o].collector = NULL => g = e
      /\ h.obj[o].collector # NULL =>
           g = IF h2.obj[o].count[h2.obj[o].which] > 0 THEN h2 ELSE h3
  BY DEF object_phantomize_node, DropStrong
<1> HIDE DEF g
<1>1. /\ Mild(h, h1) /\ Good(h1)
      /\ h1.obj[o].which = h.obj[o].which /\ h1.obj[o].count = h.obj[o].count
  BY FollowGood, MildFollow DEF Keeps
<1> HIDE DEF h1
<1>2. /\ w \in 0..2 /\ h1.obj[o].count[w] \in Int
      /\ h1.obj[o].count[w] - 1 \in Int
      /\ h1.obj[o] \in Object /\ h1 \in HeapType
  BY <1>1, CountsInt DEF Good, HeapType
<1>3. /\ Mild(h1, k) /\ Good(k)
      /\ k.obj[o].which = w /\ k.obj[o].count[w] = h1.obj[o].count[w] - 1
  <2>1. Mild(h1, k) /\ Good(k)
    BY <1>1, <1>2, MildCount DEF Keeps
  <2>2. /\ k.obj[o].which = w
        /\ k.obj[o].count[w] = h1.obj[o].count[w] - 1
    BY <1>2 DEF HeapType, Object
  <2> QED
    BY <2>1, <2>2
<1> HIDE DEF k, P
<1>4. Mild(k, h2) /\ Good(h2) /\ h2.obj = k.obj
  BY <1>3, MildAssert DEF Failures, Keeps, SameBut
<1> HIDE DEF h2
<1>5. Mild(h, h2)
  BY <1>1, <1>3, <1>4, MildTrans
<1>6. h2.obj[o].count[h2.obj[o].which] > 0
        <=> ~(h.obj[o].count[h.obj[o].which] <= 1)
  <2>1. h2.obj[o].count[h2.obj[o].which] = h.obj[o].count[h.obj[o].which] - 1
    BY <1>1, <1>3, <1>4
  <2>2. h.obj[o].count[h.obj[o].which] \in Int
    BY <1>1, <1>2
  <2> QED
    BY <2>1, <2>2
<1>7. CASE h.obj[o].collector = NULL
  <2> HIDE DEF F
  <2>1. Mild(h, e)
    BY MildAssert DEF Failures
  <2> HIDE DEF e
  <2> QED
    BY <1>0, <1>7, <2>1
       DEF Mild, SameFlags, BeingPhantomized, Phantomizes, g
<1>8. CASE /\ h.obj[o].collector # NULL
           /\ ~(h.obj[o].count[h.obj[o].which] <= 1)
  <2>1. g = h2
    BY <1>0, <1>6, <1>8
  <2>2. TaskPerNew(h, h2) /\ (Stored(h) => Stored(h2)) /\ SameFlags(h, h2)
    BY <1>5 DEF Mild
  <2> QED
    BY <1>8, <2>1, <2>2 DEF SameFlags, BeingPhantomized, Phantomizes, g
<1>9. CASE /\ h.obj[o].collector # NULL
           /\ h.obj[o].count[h.obj[o].which] <= 1
  <2>1. g = h3
    BY <1>0, <1>6, <1>9
  <2> DEFINE node == h2.obj[o]
             bit  == Flip(node.which)
             b    == IF node.count[bit] > 0 THEN bit ELSE node.which
             q    == node.phantomized /\ node.phantomization_complete
             r    == [node EXCEPT !.which = b, !.phantomized = TRUE,
                                  !.phantomization_complete = q]
  <2>2. h3 = [h2 EXCEPT !.obj[o] = r]
    BY DEF BecomePhantom
  <2>3. h2 \in HeapType /\ node \in Object
    BY <1>4 DEF Good, HeapType
  <2> HIDE DEF h3, b
  <2>4. r.phantomized = TRUE /\ r.phantomization_complete = q
    BY <2>3 DEF Object
  <2> HIDE DEF r
  <2>5. /\ h3.work = h2.work /\ h3.coll = h2.coll
        /\ h3.obj = [h2.obj EXCEPT ![o] = r]
    BY <2>2, <2>3 DEF HeapType
  <2>6. \A p \in Objects : h3.obj[p] = IF p = o THEN r ELSE h2.obj[p]
    BY <2>3, <2>5 DEF HeapType
  <2>7. TaskPerNew(h, h3)
    <3>1. \A c \in Collectors : /\ QueuedAt(h3, c) = QueuedAt(h2, c)
                                /\ h3.coll[c] = h2.coll[c]
      BY <2>5 DEF QueuedAt
    <3> QED
      BY <1>5, <3>1, Zenon DEF Mild, TaskPerNew
  <2>8. Stored(h) => Stored(h3)
    BY <1>5, <2>5 DEF Mild, Stored, store_count_zero
  <2>9. /\ h2.obj[o].phantomized = h.obj[o].phantomized
        /\ h2.obj[o].phantomization_complete = h.obj[o].phantomization_complete
        /\ \A p \in Objects : BeingPhantomized(h2, p) = BeingPhantomized(h, p)
    BY <1>5 DEF Mild, SameFlags, BeingPhantomized
  <2>10. BeingPhantomized(h3, o) <=> ~(h.obj[o].phantomized
                                         /\ h.obj[o].phantomization_complete)
    BY <2>4, <2>6, <2>9 DEF BeingPhantomized
  <2>11. \A p \in Objects : BeingPhantomized(h3, p)
           <=> BeingPhantomized(h, p) \/ (p = o /\ Phantomizes(h, o))
    BY <1>9, <2>6, <2>9, <2>10 DEF BeingPhantomized, Phantomizes
  <2> QED
    BY <2>1, <2>7, <2>8, <2>11 DEF g
<1> QED
  BY <1>7, <1>8, <1>9

-----------------------------------------------------------------------------
(* What the threads hold *)

\* The workers that run the task of c.
RunBy(c) == {w \in Workers : thr[w].task = CollTask(c)}

\* A live collector's task is in one place, and a free one has none.
OneTask ==
  \A c \in Collectors :
    /\ heap.coll[c].live <=> QueuedAt(heap, c) # {} \/ RunBy(c) # {}
    /\ QueuedAt(heap, c) = {} \/ RunBy(c) = {}
    /\ \A i, j \in QueuedAt(heap, c) : i = j
    /\ \A v, w \in RunBy(c) : v = w

\* Worker w is in the loop over the phantoms of o.
Phantomizing(w, o) == thr[w].pc = "phantomize_links" /\ thr[w].obj = o

\* A node is half phantomized exactly while one worker is in that loop.
OneHand ==
  \A o \in Objects :
    /\ BeingPhantomized(heap, o) <=> \E w \in Workers : Phantomizing(w, o)
    /\ \A v, w \in Workers : Phantomizing(v, o) /\ Phantomizing(w, o) => v = w

\* An idle worker runs no task, and one that deletes was asked to.
OwnTask ==
  \A w \in Workers :
    /\ thr[w].pc = "idle" => thr[w].task = NULL
    /\ thr[w].pc = "delete" => thr[w].task.run = "request_delete"

\* Together with IInv, the inductive invariant.
TInv == Stored(heap) /\ OneTask /\ OneHand /\ OwnTask

\* As many nodes are half phantomized in g as in h.
SameBeing(h, g) ==
  \A o \in Objects : BeingPhantomized(g, o) <=> BeingPhantomized(h, o)

\* What a call may do while its worker stays in, or out of, that loop.
Calm(h, g) ==
  SameBeing(h, g) /\ TaskPerNew(h, g) /\ (Stored(h) => Stored(g))

\* A mild call is calm.
LEMMA MildCalm ==
  ASSUME NEW h, NEW g, Mild(h, g)
  PROVE  Calm(h, g)
BY DEF Mild, Calm, SameBeing, SameFlags, BeingPhantomized

\* Tasks stay in one place when only new collectors get one.
LEMMA TasksKept ==
  ASSUME OneTask, TaskPerNew(heap, heap'),
         \A c \in Collectors : RunBy(c)' = RunBy(c)
  PROVE  OneTask'
<1> SUFFICES ASSUME NEW c \in Collectors
             PROVE  LET Q == QueuedAt(heap', c)
                        R == RunBy(c)'
                    IN  /\ heap'.coll[c].live <=> Q # {} \/ R # {}
                        /\ Q = {} \/ R = {}
                        /\ \A i, j \in Q : i = j
                        /\ \A v, w \in R : v = w
  BY DEF OneTask, QueuedAt
<1> DEFINE Q == QueuedAt(heap, c)
           R == RunBy(c)
           G == QueuedAt(heap', c)
<1>1. /\ heap.coll[c].live <=> Q # {} \/ R # {}
      /\ Q = {} \/ R = {}
      /\ \A i, j \in Q : i = j
      /\ \A v, w \in R : v = w
  BY DEF OneTask
<1>2. \/ heap'.coll[c].live = heap.coll[c].live /\ G = Q
      \/ /\ ~heap.coll[c].live /\ heap'.coll[c].live
         /\ \E i : G = Q \cup {i}
  BY DEF TaskPerNew
<1>3. RunBy(c)' = R
  OBVIOUS
<1> HIDE DEF Q, R, G
<1>4. CASE heap'.coll[c].live = heap.coll[c].live /\ G = Q
  BY <1>1, <1>3, <1>4, Zenon DEF G
<1>5. CASE /\ ~heap.coll[c].live /\ heap'.coll[c].live
           /\ \E i : G = Q \cup {i}
  <2>1. Q = {} /\ R = {}
    BY <1>1, <1>5
  <2>2. PICK i : G = {i}
    BY <1>5, <2>1
  <2> QED
    BY <1>3, <1>5, <2>1, <2>2 DEF G
<1> QED
  BY <1>2, <1>4, <1>5

\* Half phantomized nodes stay in the same hands.
LEMMA HandsKept ==
  ASSUME OneHand, SameBeing(heap, heap'),
         \A w \in Workers, o \in Objects :
           Phantomizing(w, o)' <=> Phantomizing(w, o)
  PROVE  OneHand'
<1>1. \A o \in Objects : BeingPhantomized(heap, o)' <=> BeingPhantomized(heap, o)
  BY DEF SameBeing, BeingPhantomized
<1> QED
  BY <1>1, Zenon DEF OneHand

\* A step of the program that is mild keeps all of this.
LEMMA ProgramKeeps ==
  ASSUME TInv, thr' = thr, Mild(heap, heap')
  PROVE  TInv'
<1>1. Calm(heap, heap')
  BY MildCalm
<1>2. OneTask'
  BY <1>1, TasksKept DEF TInv, Calm, RunBy
<1>3. OneHand'
  BY <1>1, HandsKept DEF TInv, Calm, Phantomizing
<1>4. OwnTask' /\ Stored(heap')
  BY <1>1 DEF TInv, OwnTask, Calm
<1> QED
  BY <1>2, <1>3, <1>4 DEF TInv, Stored, store_count_zero

\* Worker w goes to pc within its task.
Moves(w, pc) ==
  /\ \A v \in Workers \ {w} : thr'[v] = thr[v]
  /\ thr'[w].task = thr[w].task /\ thr'[w].pc = pc

\* So does a step of a worker within its task that is calm.
LEMMA WorkerKeeps ==
  ASSUME TInv, NEW w \in Workers, NEW pc, Moves(w, pc),
         Calm(heap, heap'), pc # "idle",
         pc = "delete" => thr[w].task.run = "request_delete",
         \A o \in Objects : Phantomizing(w, o)' <=> Phantomizing(w, o)
  PROVE  TInv'
<1>1. OneTask'
  <2>1. \A v \in Workers : thr'[v].task = thr[v].task
    BY DEF Moves
  <2>2. \A c \in Collectors : RunBy(c)' = RunBy(c)
    BY <2>1 DEF RunBy
  <2> QED
    BY <2>2, TasksKept DEF TInv, Calm
<1>2. OneHand'
  <2>1. \A v \in Workers, o \in Objects :
          Phantomizing(v, o)' <=> Phantomizing(v, o)
    BY DEF Moves, Phantomizing
  <2> QED
    BY <2>1, HandsKept DEF TInv, Calm
<1>3. OwnTask'
  BY DEF TInv, OwnTask, Moves
<1>4. Stored(heap')
  BY DEF TInv, Calm
<1> QED
  BY <1>1, <1>2, <1>3, <1>4 DEF TInv, Stored, store_count_zero

\* Outside that loop it only has to stay outside.
LEMMA MoveKeeps ==
  ASSUME TInv, NEW w \in Workers, NEW pc, Moves(w, pc),
         Calm(heap, heap'), pc \notin {"idle", "phantomize_links"},
         pc = "delete" => thr[w].task.run = "request_delete",
         thr[w].pc # "phantomize_links"
  PROVE  TInv'
<1>1. \A o \in Objects : Phantomizing(w, o)' <=> Phantomizing(w, o)
  BY DEF Phantomizing, Moves
<1> QED
  BY <1>1, WorkerKeeps

\* Going to another place is such a move.
LEMMA GotoMoves ==
  ASSUME IInv, NEW w \in Workers, NEW pc \in PCs, Goto(w, pc)
  PROVE  Moves(w, pc)
BY DEF IInv, ThreadsOK, Goto, Moves, Thread

\* And so is the end of an iteration (collector.c:99-124).
LEMMA NextObjectMoves ==
  ASSUME IInv, NEW w \in Workers, NEW h, NextObject(w, h)
  PROVE  /\ Moves(w, thr[w].list) /\ heap' = h
         /\ thr[w].list \notin {"idle", "phantomize_links", "delete"}
<1>1. thr \in [Workers -> Thread] /\ thr[w] \in Thread
  BY DEF IInv, ThreadsOK
<1>2. thr[w].list \notin {"idle", "phantomize_links", "delete"}
  BY <1>1 DEF Thread, ListNames
<1>3. Moves(w, thr[w].list)
  BY <1>1 DEF NextObject, Moves, Thread
<1> QED
  BY <1>2, <1>3 DEF NextObject, Become

-----------------------------------------------------------------------------
(* The program *)

\* No worker has a new object in hand (acid.c:26-34).
LEMMA MallocTasks ==
  ASSUME IInv, TInv, NEW o \in Objects, acid_malloc(o)
  PROVE  TInv'
<1>1. /\ heap'.coll = heap.coll /\ heap'.work = heap.work /\ thr' = thr
      /\ \A p \in Objects : BeingPhantomized(heap', p)
           <=> p # o /\ BeingPhantomized(heap, p)
  BY InitStrongTasks DEF acid_malloc, IInv
<1>2. \A w \in Workers : ~Phantomizing(w, o)
  BY HeapAssumption
     DEF acid_malloc, IInv, ThreadsOK, ThreadOK, Known, Phantomizing
<1>3. ~BeingPhantomized(heap, o)
  BY <1>2 DEF TInv, OneHand
<1>4. OneHand'
  <2>1. SameBeing(heap, heap')
    BY <1>1, <1>3 DEF SameBeing
  <2> QED
    BY <1>1, <2>1, HandsKept DEF TInv, Phantomizing
<1>5. OneTask'
  <2>1. TaskPerNew(heap, heap')
    BY <1>1 DEF TaskPerNew, QueuedAt
  <2> QED
    BY <1>1, <2>1, TasksKept DEF TInv, RunBy
<1>6. OwnTask' /\ Stored(heap)'
  BY <1>1 DEF TInv, OwnTask, Stored, store_count_zero
<1> QED
  BY <1>4, <1>5, <1>6 DEF TInv

\* The other steps of the program are mild (acid.c:36-77, object.c:410-474).
LEMMA ProgramTasks ==
  ASSUME IInv, Running, TInv, MutatorNext
  PROVE  TInv'
<1> USE DEF Running
<1>1. Good(heap)
  BY DEF IInv
<1>2. ASSUME NEW o \in Objects, acid_harden(o)
      PROVE  TInv'
  BY <1>1, <1>2, MildIncStrong, ProgramKeeps DEF acid_harden
<1>3. ASSUME NEW o \in Objects, acid_dissolve(o)
      PROVE  TInv'
  <2>1. o \in Known(heap) /\ CanCreate(heap) /\ heap.obj[o].which \in 0..2
    BY <1>1, <1>3, CountsInt DEF IInv, MutatorOK, acid_dissolve
  <2>2. Mild(heap, heap') /\ thr' = thr
    BY <1>1, <1>3, <2>1, MildDec DEF acid_dissolve
  <2> QED
    BY <2>2, ProgramKeeps
<1>4. ASSUME NEW from \in Objects \cup {NULL}, NEW val \in Objects,
             acid_set(from, val)
      PROVE  TInv'
  <2> DEFINE h1 == object_inc_strong(heap, val)
             w  == h1.obj[from].which
             g  == object_dec(h1, from, w)
  <2>1. CanCreate(heap) /\ thr' = thr
        /\ heap' \in {h1, g} /\ (from = NULL => heap' = h1)
    BY <1>4 DEF acid_set
  <2>2. Mild(heap, h1) /\ Keeps(heap, h1)
    BY <1>1, MildIncStrong, IncStrongGood
  <2> HIDE DEF h1
  <2>3. ASSUME from # NULL
        PROVE  Mild(h1, g)
    <3>1. root[from] > 0 /\ from \in Objects
      BY <1>4, <2>3 DEF acid_set
    <3>2. Good(h1) /\ from \in Known(h1) /\ CanCreate(h1)
      BY <2>1, <2>2, <3>1 DEF Keeps, SameUsed, CanCreate, IInv, MutatorOK
    <3>3. w \in 0..2
      BY <3>1, <3>2, CountsInt
    <3> HIDE DEF w
    <3> QED
      BY <3>2, <3>3, MildDec
  <2> HIDE DEF g
  <2>4. Mild(heap, heap')
    BY <2>1, <2>2, <2>3, MildTrans
  <2> QED
    BY <2>1, <2>4, ProgramKeeps
<1>5. ASSUME NEW o \in Objects, NEW f \in Fields, object_set_null(o, f)
      PROVE  TInv'
  <2> DEFINE tb == [heap.obj[o].links EXCEPT ![f] = NULL]
  <2>1. heap' = [heap EXCEPT !.obj[o].links = tb] /\ thr' = thr
    BY <1>5 DEF object_set_null
  <2> HIDE DEF tb
  <2> QED
    BY <1>1, <2>1, MildTable, ProgramKeeps
<1>6. ASSUME NEW o \in Objects, NEW t \in Objects, NEW f \in Fields,
             object_set(o, f, t)
      PROVE  TInv'
  <2> DEFINE l == CHOOSE k \in FreeLinks : TRUE
  <2>1. o \in Known(heap) /\ t \in Known(heap)
    BY <1>6, Reach DEF object_set
  <2>2. l \in Links
    BY <1>6 DEF object_set, FreeLinks
  <2>3. heap' = object_set_link(heap, o, f, t, l) /\ thr' = thr
    BY <1>6 DEF object_set
  <2> HIDE DEF l
  <2> QED
    BY <1>1, <2>1, <2>2, <2>3, MildSetLink, ProgramKeeps
<1>7. ASSUME object_set_cleanup
      PROVE  TInv'
  <2>1. old \in Allocated(heap) /\ CanCreate(heap)
        /\ heap' = link_dec(heap, old) /\ thr' = thr
    BY <1>7 DEF IInv, MutatorOK, object_set_cleanup
  <2> QED
    BY <1>1, <2>1, MildLinkDec, ProgramKeeps
<1> QED
  BY <1>2, <1>3, <1>4, <1>5, <1>6, <1>7, MallocTasks, Zenon DEF MutatorNext

-----------------------------------------------------------------------------
(* The workers: getting and leaving a task *)

\* A worker in collector_run runs its collector's task (collector.c:83).
LEMMA MineTask ==
  ASSUME IInv, Running, NEW w \in Workers, thr[w].pc \in CollectorPCs
  PROVE  thr[w].task = CollTask(Mine(w)) /\ Mine(w) \in Collectors
<1>1. /\ thr[w].task \in KnownTask(heap)
      /\ thr[w].task.run = "collector_run" /\ Mine(w) \in Collectors
  BY WorkerFacts DEF ThreadOK, CollectorPCs
<1>2. thr[w].task.arg \in Collectors
  BY <1>1 DEF Mine
<1>3. thr[w].task \in [run: {"collector_run"}, arg: Collectors]
  BY <1>1 DEF KnownTask
<1> QED
  BY <1>1, <1>3 DEF CollTask, Mine

\* A collector's task is not NULL.
LEMMA TaskNotNull ==
  ASSUME NEW c \in Collectors
  PROVE  CollTask(c) # NULL
<1>1. CollTask(c) \in Task
  BY DEF CollTask, Task
<1> QED
  BY <1>1, AcidAssumption

\* A worker that is idle again runs no collector's task and has no node in
\* hand (task.c:57-71).
LEMMA IdleAgain ==
  ASSUME IInv, TInv, NEW w \in Workers, thr' = [thr EXCEPT ![w] = IdleThread],
         thr[w].pc # "phantomize_links", SameBeing(heap, heap')
  PROVE  /\ OneHand' /\ OwnTask'
         /\ \A c \in Collectors : RunBy(c)' = RunBy(c) \ {w}
<1>1. /\ \A v \in Workers \ {w} : thr'[v] = thr[v]
      /\ thr'[w] = IdleThread
  BY DEF IInv, ThreadsOK
<1>2. IdleThread.pc = "idle" /\ IdleThread.task = NULL
  BY DEF IdleThread
<1>3. \A v \in Workers, o \in Objects :
        Phantomizing(v, o)' <=> Phantomizing(v, o)
  BY <1>1, <1>2 DEF Phantomizing
<1>4. OneHand'
  BY <1>3, HandsKept DEF TInv
<1>5. OwnTask'
  BY <1>1, <1>2 DEF OwnTask, TInv
<1>6. ASSUME NEW c \in Collectors
      PROVE  RunBy(c)' = RunBy(c) \ {w}
  BY <1>1, <1>2, TaskNotNull DEF RunBy
<1> QED
  BY <1>4, <1>5, <1>6

\* A task that is not done goes back to the queue (task.c:57-62).
LEMMA RequeueTasks ==
  ASSUME IInv, Running, TInv, NEW w \in Workers, thr[w].pc \in CollectorPCs,
         thr[w].pc # "phantomize_links", Requeue(w, heap)
  PROVE  TInv'
<1> DEFINE task == thr[w].task
           q    == Append(heap.work, task)
<1>1. /\ task = CollTask(Mine(w)) /\ Mine(w) \in Collectors
      /\ heap \in HeapType
  BY MineTask DEF IInv, Good
<1>2. /\ heap' = [heap EXCEPT !.work = q]
      /\ thr' = [thr EXCEPT ![w] = IdleThread]
  BY DEF Requeue, Become
<1>3. heap'.work = q /\ heap'.obj = heap.obj /\ heap'.coll = heap.coll
  BY <1>1, <1>2 DEF HeapType
<1>4. /\ OneHand' /\ OwnTask'
      /\ \A c \in Collectors : RunBy(c)' = RunBy(c) \ {w}
  BY <1>2, <1>3, IdleAgain DEF SameBeing, BeingPhantomized
<1>5. \A c \in Collectors :
        QueuedAt(heap', c) = QueuedAt(heap, c)
          \cup (IF task = CollTask(c) THEN {Len(heap.work) + 1} ELSE {})
  <2>1. heap.work \in Seq(Task) /\ task \in Task
    BY <1>1 DEF HeapType, CollTask, Task
  <2> HIDE DEF task
  <2> QED
    BY <1>3, <2>1, QueuedAppend DEF QueuedAt
<1>6. ASSUME NEW c \in Collectors
      PROVE  LET Q == QueuedAt(heap', c)
                 R == RunBy(c)'
             IN  /\ heap'.coll[c].live <=> Q # {} \/ R # {}
                 /\ Q = {} \/ R = {}
                 /\ \A i, j \in Q : i = j
                 /\ \A u, v \in R : u = v
  <2> DEFINE Q == QueuedAt(heap, c)
             R == RunBy(c)
  <2>1. /\ heap.coll[c].live <=> Q # {} \/ R # {}
        /\ Q = {} \/ R = {}
        /\ \A i, j \in Q : i = j
        /\ \A u, v \in R : u = v
    BY DEF TInv, OneTask
  <2>2. w \in R <=> task = CollTask(c)
    BY DEF RunBy
  <2>3. RunBy(c)' = R \ {w} /\ heap'.coll[c].live = heap.coll[c].live
    BY <1>3, <1>4
  <2> HIDE DEF Q, R
  <2>4. CASE task = CollTask(c)
    <3>1. R = {w} /\ Q = {}
      BY <2>1, <2>2, <2>4
    <3>2. QueuedAt(heap', c) = {Len(heap.work) + 1} /\ RunBy(c)' = {}
      BY <1>5, <2>3, <2>4, <3>1 DEF Q
    <3> QED
      BY <2>1, <2>3, <3>1, <3>2
  <2>5. CASE task # CollTask(c)
    <3>1. QueuedAt(heap', c) = Q /\ RunBy(c)' = R
      BY <1>5, <2>2, <2>3, <2>5 DEF Q
    <3> QED
      BY <2>1, <2>3, <3>1
  <2> QED
    BY <2>4, <2>5
<1>7. OneTask'
  BY <1>6 DEF OneTask, QueuedAt
<1>8. Stored(heap)'
  BY <1>3 DEF TInv, Stored, store_count_zero
<1> QED
  BY <1>4, <1>7, <1>8 DEF TInv

\* A collector is freed with its task: none is queued, and the worker that
\* frees it leaves it (collector.c:126-137).
LEMMA FinishTasks ==
  ASSUME IInv, Running, TInv, NEW w \in Workers, CollectorFinishes(w)
  PROVE  TInv'
<1> DEFINE c == Mine(w)
<1>1. /\ thr[w].pc \in CollectorPCs /\ thr[w].pc # "phantomize_links"
      /\ Good(heap)
  BY DEF CollectorFinishes, At, CollectorPCs, PCs, IInv
<1>2. thr[w].task = CollTask(c) /\ c \in Collectors
  BY <1>1, MineTask
<1>3. CASE ~counter_done(heap, c)
  BY <1>1, <1>3, RequeueTasks DEF CollectorFinishes
<1>4. CASE counter_done(heap, c)
  <2>1. /\ heap' = collector_destroy(heap, c)
        /\ thr' = [thr EXCEPT ![w] = IdleThread]
    BY <1>4 DEF CollectorFinishes, Done, Become
  <2>2. heap.coll[c].ref_count = 0
    BY <1>4 DEF counter_done
  <2> HIDE DEF c
  <2>3. /\ SameFlags(heap, heap') /\ heap'.work = heap.work
        /\ ~heap'.coll[c].live
        /\ \A d \in Collectors \ {c} : heap'.coll[d].live = heap.coll[d].live
        /\ Stored(heap) => Stored(heap')
    BY <1>1, <1>2, <2>1, <2>2, DestroyFrees
  <2>4. SameBeing(heap, heap')
    BY <2>3 DEF SameFlags, SameBeing, BeingPhantomized
  <2>5. /\ OneHand' /\ OwnTask'
        /\ \A d \in Collectors : RunBy(d)' = RunBy(d) \ {w}
    BY <1>1, <2>1, <2>4, IdleAgain
  <2>6. ASSUME NEW d \in Collectors
        PROVE  LET Q == QueuedAt(heap', d)
                   R == RunBy(d)'
               IN  /\ heap'.coll[d].live <=> Q # {} \/ R # {}
                   /\ Q = {} \/ R = {}
                   /\ \A i, j \in Q : i = j
                   /\ \A u, v \in R : u = v
    <3> DEFINE Q == QueuedAt(heap, d)
               R == RunBy(d)
    <3>1. /\ heap.coll[d].live <=> Q # {} \/ R # {}
          /\ Q = {} \/ R = {}
          /\ \A i, j \in Q : i = j
          /\ \A u, v \in R : u = v
      BY DEF TInv, OneTask
    <3>2. w \in R <=> d = c
      BY <1>2 DEF RunBy, CollTask
    <3>3. QueuedAt(heap', d) = Q /\ RunBy(d)' = R \ {w}
      BY <2>3, <2>5 DEF QueuedAt
    <3> HIDE DEF Q, R
    <3>4. CASE d = c
      <4>1. R = {w} /\ Q = {}
        BY <3>1, <3>2, <3>4
      <4> QED
        BY <2>3, <3>3, <3>4, <4>1
    <3>5. CASE d # c
      <4>1. R \ {w} = R /\ heap'.coll[d].live = heap.coll[d].live
        BY <2>3, <3>2, <3>5
      <4> QED
        BY <3>1, <3>3, <4>1
    <3> QED
      BY <3>4, <3>5
  <2>7. OneTask'
    BY <2>6 DEF OneTask, QueuedAt
  <2>8. Stored(heap)'
    BY <2>3 DEF TInv, Stored, store_count_zero
  <2> QED
    BY <2>5, <2>7, <2>8 DEF TInv
<1> QED
  BY <1>3, <1>4

\* Deleting an object is nobody's collection (object.c:71-83, 108-114).
LEMMA DeleteTasks ==
  ASSUME IInv, Running, TInv, NEW w \in Workers, ObjectDel(w)
  PROVE  TInv'
<1>1. /\ thr[w].pc = "delete" /\ thr[w].pc \in ObjectPCs
      /\ heap' = object_del(heap, thr[w].obj)
      /\ thr' = [thr EXCEPT ![w] = IdleThread]
  BY DEF ObjectDel, At, ObjectPCs, Done, Become
<1>2. Good(heap) /\ thr[w].obj \in Known(heap)
  BY <1>1, WorkerFacts
<1>3. Calm(heap, heap')
  BY <1>1, <1>2, MildObjectDel, MildCalm
<1>4. /\ OneHand' /\ OwnTask'
      /\ \A c \in Collectors : RunBy(c)' = RunBy(c) \ {w}
  BY <1>1, <1>3, IdleAgain DEF Calm
<1>5. thr[w].task.run = "request_delete"
  BY <1>1 DEF TInv, OwnTask
<1>6. \A c \in Collectors : RunBy(c)' = RunBy(c)
  BY <1>4, <1>5 DEF RunBy, CollTask
<1>7. OneTask'
  BY <1>3, <1>6, TasksKept DEF TInv, Calm
<1>8. Stored(heap)'
  BY <1>3 DEF TInv, Calm, Stored, store_count_zero
<1> QED
  BY <1>4, <1>7, <1>8 DEF TInv

\* A worker takes the first task of the queue (worker.c:53-78).
LEMMA NextTaskTasks ==
  ASSUME IInv, Running, TInv, NEW w \in Workers, worker_get_next_task(w)
  PROVE  TInv'
<1> DEFINE q    == heap.work
           task == Head(q)
           t    == Tail(q)
<1>1. /\ q \in Seq(KnownTask(heap)) /\ q # <<>> /\ heap \in HeapType
      /\ thr[w].pc = "idle" /\ thr[w].task = NULL
      /\ heap' = [heap EXCEPT !.work = t]
  BY DEF IInv, Good, UsedOK, WorkOK, worker_get_next_task, At, Become,
         TInv, OwnTask
<1>2. /\ task = q[1] /\ task \in KnownTask(heap)
      /\ Len(t) = Len(q) - 1 /\ Len(q) \in Nat \ {0} /\ t \in Seq(KnownTask(heap))
      /\ \A i \in 1..Len(t) : t[i] = q[i + 1]
  BY <1>1, HeadTailProperties, LenProperties, EmptySeq
<1>3. DOMAIN q = 1..Len(q) /\ DOMAIN t = 1..Len(t)
  BY <1>1, <1>2
<1>4. heap'.work = t /\ heap'.obj = heap.obj /\ heap'.coll = heap.coll
  BY <1>1 DEF HeapType
<1>5. /\ \A v \in Workers \ {w} : thr'[v] = thr[v]
      /\ thr'[w].task = task
      /\ thr'[w].pc \in {"collector_run", "remove_links"}
  BY DEF IInv, ThreadsOK, worker_get_next_task, IdleThread
<1> HIDE DEF q, task, t
<1>6. OneHand'
  <2>1. \A v \in Workers, o \in Objects :
          Phantomizing(v, o)' <=> Phantomizing(v, o)
    BY <1>1, <1>5 DEF Phantomizing
  <2>2. SameBeing(heap, heap')
    BY <1>4 DEF SameBeing, BeingPhantomized
  <2> QED
    BY <2>1, <2>2, HandsKept DEF TInv
<1>7. OwnTask'
  BY <1>5 DEF TInv, OwnTask
<1>8. ASSUME NEW c \in Collectors
      PROVE  LET Q == QueuedAt(heap', c)
                 R == RunBy(c)'
             IN  /\ heap'.coll[c].live <=> Q # {} \/ R # {}
                 /\ Q = {} \/ R = {}
                 /\ \A i, j \in Q : i = j
                 /\ \A u, v \in R : u = v
  <2> DEFINE Q == QueuedAt(heap, c)
             R == RunBy(c)
             G == QueuedAt(heap', c)
  <2>1. /\ heap.coll[c].live <=> Q # {} \/ R # {}
        /\ Q = {} \/ R = {}
        /\ \A i, j \in Q : i = j
        /\ \A u, v \in R : u = v
    BY DEF TInv, OneTask
  <2>2. /\ \A i \in Q : i \in 1..Len(q) /\ q[i] = CollTask(c)
        /\ \A i \in 1..Len(q) : q[i] = CollTask(c) => i \in Q
    BY <1>3 DEF QueuedAt, q
  <2>3. /\ \A i \in G : i \in 1..Len(t) /\ t[i] = CollTask(c)
        /\ \A i \in 1..Len(t) : t[i] = CollTask(c) => i \in G
    BY <1>3, <1>4 DEF QueuedAt
  <2>4. heap'.coll[c].live = heap.coll[c].live
    BY <1>4
  <2>5. RunBy(c)' = R \cup (IF task = CollTask(c) THEN {w} ELSE {})
    BY <1>1, <1>5, TaskNotNull DEF RunBy
  <2> HIDE DEF Q, R, G
  <2>6. \A i \in G : i + 1 \in Q /\ i \in Nat
    BY <1>2, <2>2, <2>3
  <2>7. CASE task = CollTask(c)
    <3>1. 1 \in Q
      <4>1. 1 \in 1..Len(q) /\ q[1] = CollTask(c)
        BY <1>2, <2>7
      <4> QED
        BY <2>2, <4>1
    <3>2. R = {} /\ \A i \in Q : i = 1
      BY <2>1, <3>1
    <3>3. G = {}
      <4> SUFFICES ASSUME NEW i \in G PROVE FALSE
        OBVIOUS
      <4>1. i + 1 = 1 /\ i \in 1..Len(t)
        BY <2>3, <2>6, <3>2
      <4> QED
        BY <1>2, <4>1
    <3>4. RunBy(c)' = {w}
      BY <2>5, <2>7, <3>2
    <3> QED
      BY <2>1, <2>4, <3>1, <3>3, <3>4 DEF G
  <2>8. CASE task # CollTask(c)
    <3>1. RunBy(c)' = R
      BY <2>5, <2>8
    <3>2. Q # {} => G # {}
      <4> SUFFICES ASSUME NEW i \in Q PROVE G # {}
        OBVIOUS
      <4>1. i \in 2..Len(q) /\ q[i] = CollTask(c)
        <5>1. i \in 1..Len(q) /\ q[i] = CollTask(c) /\ i # 1
          BY <1>2, <2>2, <2>8
        <5> QED
          BY <1>2, <5>1
      <4>2. i - 1 \in 1..Len(t) /\ (i - 1) + 1 = i
        BY <1>2, <4>1
      <4>3. t[i - 1] = CollTask(c)
        BY <1>2, <4>1, <4>2
      <4> QED
        BY <2>3, <4>2, <4>3
    <3>3. \A i, j \in G : i = j
      <4> SUFFICES ASSUME NEW i \in G, NEW j \in G PROVE i = j
        OBVIOUS
      <4>1. i + 1 = j + 1 /\ i \in Nat /\ j \in Nat
        BY <2>1, <2>6
      <4> QED
        BY <4>1
    <3>4. G # {} => Q # {}
      BY <2>6
    <3> QED
      BY <2>1, <2>4, <3>1, <3>2, <3>3, <3>4, Zenon DEF G
  <2> QED
    BY <2>7, <2>8
<1>9. OneTask'
  BY <1>8 DEF OneTask, QueuedAt
<1>10. Stored(heap)'
  BY <1>4 DEF TInv, Stored, store_count_zero
<1> QED
  BY <1>6, <1>7, <1>9, <1>10 DEF TInv

-----------------------------------------------------------------------------
(* The workers: collector_run *)

\* Between lists and at their ends a worker moves mildly (collector.c:83-124).
LEMMA ListTasks ==
  ASSUME IInv, Running, TInv, NEW w \in Workers,
         \/ CollectorWaits(w) \/ CollectorStarts(w) \/ DrainMerged(w)
         \/ PollObject(w) \/ PollNothing(w) \/ ToRecovery(w) \/ ToClean(w)
  PROVE  TInv'
<1> DEFINE c == Mine(w)
<1>1. /\ thr[w].pc \in CollectorPCs /\ thr[w].pc # "phantomize_links"
      /\ thr[w].pc \in ObjectPCs \/ ~(ToRecovery(w) \/ ToClean(w))
  BY DEF CollectorWaits, CollectorStarts, DrainMerged, PollObject, PollNothing,
         ToRecovery, ToClean, At, Draining, Handler, CollectorPCs, PCs,
         ObjectPCs
<1>2. /\ Good(heap) /\ ThreadOK(heap, thr[w]) /\ thr[w] \in Thread
      /\ c \in Collectors /\ thr \in [Workers -> Thread]
  BY <1>1, WorkerFacts DEF IInv, ThreadsOK
<1>3. Calm(heap, heap)
  BY MildSelf, MildCalm
<1>4. CASE CollectorWaits(w)
  BY <1>1, <1>4, RequeueTasks DEF CollectorWaits
<1>5. CASE CollectorStarts(w)
  <2>1. heap' = heap /\ Moves(w, "merged")
    BY <1>5, GotoMoves DEF CollectorStarts, PCs
  <2> QED
    BY <1>1, <1>3, <2>1, MoveKeeps
<1>6. CASE DrainMerged(w)
  <2> DEFINE m  == heap.coll[c].lists
             ls == [m EXCEPT !["recovery_list"] = @ \o m["merged_list"],
                             !["merged_list"] = <<>>]
  <2>1. m \in [ListNames -> Seq(Known(heap))]
    BY <1>2 DEF Good, UsedOK, ListsOK
  <2>2. ls \in [ListNames -> Seq(Known(heap))]
    <3>1. /\ m["recovery_list"] \o m["merged_list"] \in Seq(Known(heap))
          /\ <<>> \in Seq(Known(heap))
      BY <2>1, ConcatProperties, EmptySeq DEF ListNames
    <3> QED
      BY <2>1, <3>1
  <2>3. heap' = [heap EXCEPT !.coll[c].lists = ls]
    BY <1>6 DEF DrainMerged, Become
  <2>4. Stored(heap) => \/ heap.coll[c].forward = NULL
                        \/ \A l \in ListNames : ls[l] = <<>>
    <3> SUFFICES ASSUME Stored(heap), heap.coll[c].forward # NULL,
                        NEW l \in ListNames
                 PROVE  ls[l] = <<>>
      OBVIOUS
    <3>1. \A k \in ListNames : m[k] = <<>>
      BY <1>2 DEF Stored, store_count_zero
    <3>2. "recovery_list" \in ListNames /\ "merged_list" \in ListNames
      BY DEF ListNames
    <3>3. m["recovery_list"] \o m["merged_list"] = <<>> \o <<>>
      BY <3>1, <3>2
    <3>4. <<>> \o <<>> = <<>>
      OBVIOUS
    <3> QED
      BY <2>1, <3>1, <3>2, <3>3, <3>4
  <2>5. Moves(w, "collect")
    BY <1>2, <1>6 DEF DrainMerged, Moves, Thread
  <2> HIDE DEF ls, c
  <2>6. Calm(heap, heap')
    BY <1>2, <2>2, <2>3, <2>4, MildLists, MildCalm
  <2> QED
    BY <1>1, <2>5, <2>6, MoveKeeps
<1>7. CASE PollObject(w)
  <2> DEFINE l == thr[w].list
  <2>1. /\ l \in {"collect", "recovery_list", "rebuild_list", "clean_list"}
        /\ l \in ListNames
    BY <1>2 DEF Thread, ListNames
  <2>2. heap' = safelist_poll(heap, c, l) /\ heap.coll[c].lists[l] # <<>>
    BY <1>7 DEF PollObject, Become
  <2>3. Handler[l] \in {"phantomize_node", "recover_node", "clean_node"}
    BY <2>1 DEF Handler
  <2>4. Moves(w, Handler[l])
    BY <1>2, <1>7 DEF PollObject, Moves, Thread
  <2>5. Calm(heap, heap')
    BY <1>2, <2>1, <2>2, MildSafelistPoll, MildCalm
  <2> QED
    BY <1>1, <2>3, <2>4, <2>5, MoveKeeps
<1>8. CASE PollNothing(w)
  <2> DEFINE l == thr[w].list
             n == IF l = "clean_list" THEN "finish" ELSE AfterList[l]
  <2>1. l \in {"collect", "recovery_list", "rebuild_list", "clean_list"}
    BY <1>2 DEF Thread, ListNames
  <2>2. n \in {"finish", "recovery_list", "rebuild_list", "clean_list"}
    BY <2>1 DEF AfterList
  <2>3. Moves(w, n) /\ heap' = heap
    <3>1. CASE l = "clean_list"
      <4>1. Goto(w, "finish") /\ "finish" \in PCs /\ heap' = heap
        BY <1>8, <3>1 DEF PollNothing, PCs
      <4> QED
        BY <3>1, <4>1, GotoMoves
    <3>2. CASE l # "clean_list"
      BY <1>2, <1>8, <3>2 DEF PollNothing, Moves, Thread
    <3> QED
      BY <3>1, <3>2
  <2> HIDE DEF n
  <2>4. Calm(heap, heap')
    BY <1>3, <2>3
  <2> QED
    BY <1>1, <2>2, <2>3, <2>4, MoveKeeps
<1>9. CASE ToRecovery(w) \/ ToClean(w)
  <2>1. thr[w].obj \in Known(heap)
    BY <1>1, <1>9, WorkerFacts
  <2>2. PICK l \in ListNames :
          NextObject(w, safelist_add(heap, c, l, thr[w].obj))
    BY <1>9 DEF ToRecovery, ToClean, ListNames
  <2>3. /\ heap' = safelist_add(heap, c, l, thr[w].obj)
        /\ Moves(w, thr[w].list)
        /\ thr[w].list \notin {"idle", "phantomize_links", "delete"}
    BY <2>2, NextObjectMoves
  <2>4. Calm(heap, heap')
    BY <1>2, <2>1, <2>3, MildSafelistAdd, MildCalm
  <2> QED
    BY <1>1, <2>3, <2>4, MoveKeeps
<1> QED
  BY <1>4, <1>5, <1>6, <1>7, <1>8, <1>9

-----------------------------------------------------------------------------
(* The workers: phantomizing, recovering and cleaning a node *)

\* The locked section of object_phantomize_node enters the loop over the
\* phantoms of a node exactly when it starts its phantomization, which nobody
\* else has under way (object.c:170-209).
LEMMA PhantomizeNodeStart ==
  ASSUME IInv, Running, TInv, NEW w \in Workers, PhantomizeNode(w)
  PROVE  TInv'
<1> DEFINE o == thr[w].obj
<1>1. /\ thr[w].pc = "phantomize_node" /\ thr[w].pc \in ObjectPCs
      /\ heap' = object_phantomize_node(heap, o)
  BY DEF PhantomizeNode, At, ObjectPCs, Become
<1>2. /\ Good(heap) /\ thr[w] \in Thread /\ o \in Objects
      /\ thr \in [Workers -> Thread]
  BY <1>1, WorkerFacts DEF IInv, ThreadsOK
<1>3. /\ TaskPerNew(heap, heap') /\ (Stored(heap) => Stored(heap'))
      /\ \A p \in Objects : BeingPhantomized(heap', p)
           <=> BeingPhantomized(heap, p) \/ (p = o /\ Phantomizes(heap, o))
  BY <1>1, <1>2, PhantomizeNodeTasks
<1>4. CASE ~Phantomizes(heap, o)
  <2>1. Moves(w, "phantomized")
    BY <1>2, <1>4 DEF PhantomizeNode, Moves, Thread
  <2>2. Calm(heap, heap')
    BY <1>3, <1>4 DEF Calm, SameBeing
  <2> QED
    BY <1>1, <2>1, <2>2, MoveKeeps
<1>5. CASE Phantomizes(heap, o)
  <2>1. /\ \A v \in Workers \ {w} : thr'[v] = thr[v]
        /\ thr'[w].task = thr[w].task /\ thr'[w].pc = "phantomize_links"
        /\ thr'[w].obj = o
    BY <1>2, <1>5 DEF PhantomizeNode, Thread
  <2>2. ~BeingPhantomized(heap, o)
    BY <1>5 DEF Phantomizes, BeingPhantomized
  <2>3. \A v \in Workers : ~Phantomizing(v, o)
    BY <1>2, <2>2 DEF TInv, OneHand
  <2>4. \A v \in Workers, p \in Objects :
          Phantomizing(v, p)' <=> Phantomizing(v, p) \/ (v = w /\ p = o)
    BY <1>1, <2>1 DEF Phantomizing
  <2>5. \A p \in Objects : BeingPhantomized(heap, p)'
          <=> BeingPhantomized(heap, p) \/ p = o
    BY <1>3, <1>5 DEF BeingPhantomized
  <2>6. \A p \in Objects :
          /\ BeingPhantomized(heap, p) <=> \E v \in Workers : Phantomizing(v, p)
          /\ \A u, v \in Workers :
               Phantomizing(u, p) /\ Phantomizing(v, p) => u = v
    BY DEF TInv, OneHand
  <2>7. OneHand'
    <3> SUFFICES ASSUME NEW p \in Objects
                 PROVE  /\ BeingPhantomized(heap, p)'
                             <=> \E v \in Workers : Phantomizing(v, p)'
                        /\ \A u, v \in Workers :
                             Phantomizing(u, p)' /\ Phantomizing(v, p)' => u = v
      BY DEF OneHand
    <3>1. CASE p = o
      BY <2>3, <2>4, <2>5, <3>1, Zenon
    <3>2. CASE p # o
      BY <2>4, <2>5, <2>6, <3>2, Zenon
    <3> QED
      BY <3>1, <3>2
  <2>8. OneTask'
    <3>1. \A v \in Workers : thr'[v].task = thr[v].task
      BY <2>1
    <3>2. \A c \in Collectors : RunBy(c)' = RunBy(c)
      BY <3>1 DEF RunBy
    <3> QED
      BY <1>3, <3>2, TasksKept DEF TInv
  <2>9. OwnTask'
    BY <2>1 DEF TInv, OwnTask
  <2>10. Stored(heap)'
    BY <1>3 DEF TInv, Stored, store_count_zero
  <2> QED
    BY <2>7, <2>8, <2>9, <2>10 DEF TInv
<1> QED
  BY <1>4, <1>5

\* In that loop a worker stays with its node (object.c:211-229).
LEMMA PhantomizeLinkTasks ==
  ASSUME IInv, Running, TInv, NEW w \in Workers, NEW l \in Links,
         PhantomizeLink(w, l)
  PROVE  TInv'
<1> DEFINE t   == thr[w]
           src == heap.obj[heap.link[l].src]
           P1  == heap.obj[t.obj].phantomized
           P2  == src.phantomized
           P3  == src.collector # NULL
           h1  == assert(heap, P1, "object_phantomize_node:222")
           h2  == assert(h1, P2, "object_phantomize_node:224")
           h3  == assert(h2, P3, "object_phantomize_node:225")
<1>1. /\ t.pc = "phantomize_links" /\ t.pc \in CollectorPCs
      /\ l \in t.links /\ CanCreate(heap)
      /\ thr' = [thr EXCEPT ![w].links = @ \ {l}]
      /\ heap' \in {h1, link_phantomize(h3, l)}
  BY DEF PhantomizeLink, At, CollectorPCs, PCs, Become
<1>2. /\ Good(heap) /\ t \in Thread /\ l \in Allocated(heap)
      /\ thr \in [Workers -> Thread]
  BY <1>1, WorkerFacts DEF ThreadOK, IInv, ThreadsOK
<1>3. /\ "object_phantomize_node:222" \in Failures
      /\ "object_phantomize_node:224" \in Failures
      /\ "object_phantomize_node:225" \in Failures
  BY DEF Failures
<1> HIDE DEF P1, P2, P3
<1>4. Mild(heap, h1) /\ Good(h1) /\ SameUsed(heap, h1) /\ CanCreate(h1)
  BY <1>1, <1>2, <1>3, MildAssert, AssertGrows
<1> HIDE DEF h1
<1>5. Mild(h1, h2) /\ Good(h2) /\ SameUsed(h1, h2) /\ CanCreate(h2)
  BY <1>3, <1>4, MildAssert, AssertGrows
<1> HIDE DEF h2
<1>6. Mild(h2, h3) /\ Good(h3) /\ SameUsed(h2, h3) /\ CanCreate(h3)
  BY <1>3, <1>5, MildAssert, AssertGrows
<1> HIDE DEF h3
<1>7. l \in Allocated(h3)
  BY <1>2, <1>4, <1>5, <1>6 DEF SameUsed
<1>8. Mild(h3, link_phantomize(h3, l))
  BY <1>6, <1>7, MildLinkPhantomize
<1>9. Mild(heap, h3)
  BY <1>4, <1>5, <1>6, MildTrans
<1>10. Calm(heap, heap')
  BY <1>1, <1>4, <1>8, <1>9, MildTrans, MildCalm
<1>11. Moves(w, "phantomize_links") /\ thr'[w].obj = t.obj
  BY <1>1, <1>2 DEF Moves, Thread
<1>12. \A o \in Objects : Phantomizing(w, o)' <=> Phantomizing(w, o)
  BY <1>1, <1>11 DEF Phantomizing, Moves
<1> QED
  BY <1>10, <1>11, <1>12, WorkerKeeps

\* It leaves the loop when the phantomization is complete
\* (object.c:230-236).
LEMMA PhantomizeCompleteTasks ==
  ASSUME IInv, Running, TInv, NEW w \in Workers, PhantomizeComplete(w)
  PROVE  TInv'
<1> DEFINE o == thr[w].obj
<1>1. /\ thr[w].pc = "phantomize_links" /\ thr[w].pc \in ObjectPCs
      /\ heap' = [heap EXCEPT !.obj[o].phantomization_complete = TRUE]
      /\ Goto(w, "phantomized") /\ "phantomized" \in PCs
  BY DEF PhantomizeComplete, At, ObjectPCs, PCs, Become
<1>2. /\ heap \in HeapType /\ thr[w] \in Thread /\ o \in Objects
      /\ thr \in [Workers -> Thread]
  BY <1>1, WorkerFacts DEF IInv, ThreadsOK, Good
<1>3. /\ heap'.coll = heap.coll /\ heap'.work = heap.work
      /\ \A p \in Objects : BeingPhantomized(heap, p)'
           <=> BeingPhantomized(heap, p) /\ p # o
  <2> DEFINE r == [heap.obj[o] EXCEPT !.phantomization_complete = TRUE]
  <2>1. r.phantomization_complete
    BY <1>2 DEF HeapType, Object
  <2>2. heap' = [heap EXCEPT !.obj[o] = r]
    BY <1>1
  <2> HIDE DEF r
  <2>3. /\ heap'.coll = heap.coll /\ heap'.work = heap.work
        /\ heap'.obj = [heap.obj EXCEPT ![o] = r]
    BY <1>2, <2>2 DEF HeapType
  <2>4. \A p \in Objects : heap'.obj[p] = IF p = o THEN r ELSE heap.obj[p]
    BY <1>2, <2>3 DEF HeapType
  <2> QED
    BY <2>1, <2>3, <2>4 DEF BeingPhantomized
<1>4. Moves(w, "phantomized")
  BY <1>1, GotoMoves
<1>5. Phantomizing(w, o) /\ BeingPhantomized(heap, o)
  BY <1>1, <1>2 DEF Phantomizing, TInv, OneHand
<1>6. \A v \in Workers, p \in Objects :
        Phantomizing(v, p)' <=> Phantomizing(v, p) /\ v # w
  BY <1>4 DEF Phantomizing, Moves
<1>7. OneHand'
  <2>1. \A p \in Objects :
          /\ BeingPhantomized(heap, p) <=> \E v \in Workers : Phantomizing(v, p)
          /\ \A u, v \in Workers :
               Phantomizing(u, p) /\ Phantomizing(v, p) => u = v
    BY DEF TInv, OneHand
  <2> SUFFICES ASSUME NEW p \in Objects
               PROVE  /\ BeingPhantomized(heap, p)'
                           <=> \E v \in Workers : Phantomizing(v, p)'
                      /\ \A u, v \in Workers :
                           Phantomizing(u, p)' /\ Phantomizing(v, p)' => u = v
    BY DEF OneHand
  <2>2. CASE p = o
    BY <1>3, <1>5, <1>6, <2>1, <2>2, Zenon
  <2>3. CASE p # o
    <3>1. ~Phantomizing(w, p)
      BY <2>3 DEF Phantomizing
    <3> QED
      BY <1>3, <1>6, <2>1, <2>3, <3>1, Zenon
  <2> QED
    BY <2>2, <2>3
<1>8. OneTask'
  <2>1. \A c \in Collectors : RunBy(c)' = RunBy(c)
    BY <1>4 DEF RunBy, Moves
  <2>2. TaskPerNew(heap, heap')
    BY <1>3 DEF TaskPerNew, QueuedAt
  <2> QED
    BY <2>1, <2>2, TasksKept DEF TInv
<1>9. OwnTask'
  BY <1>4 DEF TInv, OwnTask, Moves
<1>10. Stored(heap)'
  BY <1>3 DEF TInv, Stored, store_count_zero
<1> QED
  BY <1>7, <1>8, <1>9, <1>10 DEF TInv

\* A node is recovered when it is not half phantomized, so nobody loses one
\* (object.c:289-296).
LEMMA RecoveredTasks ==
  ASSUME IInv, Running, TInv, NEW w \in Workers, NEW h, Good(h),
         Mild(heap, h), ~BeingPhantomized(h, thr[w].obj),
         thr[w].pc \in {"recover_node", "await"}, Recovered(w, h)
  PROVE  TInv'
<1> DEFINE o  == thr[w].obj
           P  == h.obj[o].phantomization_complete
           h1 == assert(h, P, "object_recover_node:289")
           r  == [h1.obj[o] EXCEPT !.phantomized = FALSE]
<1>1. /\ thr[w].pc \in ObjectPCs /\ thr[w].pc # "phantomize_links"
      /\ thr[w] \in Thread /\ thr \in [Workers -> Thread]
  BY WorkerFacts DEF ObjectPCs, IInv, ThreadsOK
<1>2. o \in Objects
  BY <1>1, WorkerFacts
<1>3. Moves(w, "rebuild_links")
  BY <1>1 DEF Recovered, Moves, Thread
<1>4. heap' = [h1 EXCEPT !.obj[o].phantomized = FALSE]
  BY DEF Recovered, Become
<1>5. "object_recover_node:289" \in Failures
  BY DEF Failures
<1> HIDE DEF P
<1>6. Mild(h, h1) /\ SameBut(h, h1) /\ Keeps(h, h1)
  BY <1>5, MildAssert
<1> HIDE DEF h1
<1>7. h1 \in HeapType /\ h1.obj = h.obj
  BY <1>6 DEF Keeps, Good, SameBut
<1>8. r.phantomized = FALSE
  BY <1>2, <1>7 DEF HeapType, Object
<1>9. heap' = [h1 EXCEPT !.obj[o] = r]
  BY <1>4
<1> HIDE DEF r
<1>10. /\ heap'.coll = h1.coll /\ heap'.work = h1.work
       /\ heap'.obj = [h1.obj EXCEPT ![o] = r]
  BY <1>7, <1>9 DEF HeapType
<1>11. \A p \in Objects : heap'.obj[p] = IF p = o THEN r ELSE h1.obj[p]
  BY <1>2, <1>7, <1>10 DEF HeapType
<1>12. Calm(heap, h1)
  BY <1>6, MildTrans, MildCalm
<1>13. SameBeing(heap, heap')
  <2>1. \A p \in Objects : BeingPhantomized(heap', p)
          <=> p # o /\ BeingPhantomized(h1, p)
    BY <1>8, <1>11 DEF BeingPhantomized
  <2>2. ~BeingPhantomized(h1, o)
    BY <1>7 DEF BeingPhantomized
  <2>3. \A p \in Objects : BeingPhantomized(h1, p) <=> BeingPhantomized(heap, p)
    BY <1>12 DEF Calm, SameBeing
  <2> QED
    BY <2>1, <2>2, <2>3, Zenon DEF SameBeing
<1>14. TaskPerNew(heap, heap')
  <2>1. \A c \in Collectors : /\ QueuedAt(heap', c) = QueuedAt(h1, c)
                              /\ heap'.coll[c] = h1.coll[c]
    BY <1>10 DEF QueuedAt
  <2> QED
    BY <1>12, <2>1, Zenon DEF Calm, TaskPerNew
<1>15. Stored(heap) => Stored(heap')
  BY <1>10, <1>12 DEF Calm, Stored, store_count_zero
<1>16. Calm(heap, heap')
  BY <1>13, <1>14, <1>15 DEF Calm
<1> QED
  BY <1>1, <1>3, <1>16, MoveKeeps

\* object_recover_node waits while its node is half phantomized
\* (object.c:271-300).
LEMMA RecoverTasks ==
  ASSUME IInv, Running, TInv, NEW w \in Workers,
         RecoverNode(w) \/ AwaitPhantomization(w)
  PROVE  TInv'
<1> DEFINE o == thr[w].obj
           h == FollowCollector(heap, o)
           Q == h.obj[o].count[Flip(h.obj[o].which)] = 0
<1>1. /\ thr[w].pc \in {"recover_node", "await"} /\ thr[w].pc \in ObjectPCs
      /\ thr[w].pc # "phantomize_links"
  BY DEF RecoverNode, AwaitPhantomization, At, ObjectPCs
<1>2. Good(heap) /\ o \in Objects
  BY <1>1, WorkerFacts
<1>3. Mild(heap, h) /\ Good(h) /\ Mild(heap, heap)
  BY <1>2, MildFollow, FollowGood, MildSelf DEF Keeps
<1>4. CASE AwaitPhantomization(w)
  BY <1>1, <1>2, <1>3, <1>4, RecoveredTasks DEF AwaitPhantomization
<1>5. CASE RecoverNode(w)
  <2>1. \/ heap' = h /\ Goto(w, "await")
        \/ ~BeingPhantomized(h, o) /\ Recovered(w, h)
        \/ /\ heap' = assert(h, Q, "object_recover_node:298")
           /\ Goto(w, "rebuild_links")
    BY <1>5 DEF RecoverNode, Become
  <2> HIDE DEF h, Q
  <2>2. /\ "await" \in PCs /\ "rebuild_links" \in PCs
        /\ "object_recover_node:298" \in Failures
    BY DEF PCs, Failures
  <2>3. CASE heap' = h /\ Goto(w, "await")
    BY <1>1, <1>3, <2>2, <2>3, GotoMoves, MildCalm, MoveKeeps
  <2>4. CASE ~BeingPhantomized(h, o) /\ Recovered(w, h)
    BY <1>1, <1>3, <2>4, RecoveredTasks
  <2>5. CASE /\ heap' = assert(h, Q, "object_recover_node:298")
             /\ Goto(w, "rebuild_links")
    <3>1. Calm(heap, heap')
      BY <1>3, <2>2, <2>5, MildAssert, MildTrans, MildCalm
    <3>2. Moves(w, "rebuild_links")
      BY <2>2, <2>5, GotoMoves
    <3> QED
      BY <1>1, <3>1, <3>2, MoveKeeps
  <2> QED
    BY <2>1, <2>3, <2>4, <2>5
<1> QED
  BY <1>4, <1>5

\* Rebuilding links is mild (object.c:302-317).
LEMMA RebuildTasks ==
  ASSUME IInv, Running, TInv, NEW w \in Workers,
         \/ \E f \in Fields : RebuildGet(w, f)
         \/ RebuildLink(w) \/ RecoverEnd(w)
  PROVE  TInv'
<1>1. /\ thr[w].pc \in {"rebuild_links", "rebuild_link"}
      /\ thr[w].pc \in CollectorPCs /\ thr[w].pc # "phantomize_links"
  BY DEF RebuildGet, RebuildLink, RecoverEnd, At, CollectorPCs, PCs
<1>2. /\ Good(heap) /\ heap.failed = "none" /\ ThreadOK(heap, thr[w])
      /\ thr[w] \in Thread /\ Mine(w) \in Collectors
      /\ thr \in [Workers -> Thread]
  BY <1>1, WorkerFacts DEF IInv, ThreadsOK
<1>3. ASSUME NEW f \in Fields, RebuildGet(w, f)
      PROVE  TInv'
  <2>1. PICK P : heap' = assert(heap, P, "object_recover_node:306")
    BY <1>3 DEF RebuildGet, Become
  <2>2. "object_recover_node:306" \in Failures
    BY DEF Failures
  <2>3. Calm(heap, heap')
    BY <1>2, <2>1, <2>2, MildAssert, MildCalm
  <2>4. Moves(w, "rebuild_link")
    BY <1>2, <1>3 DEF RebuildGet, Moves, Thread
  <2> QED
    BY <1>1, <2>3, <2>4, MoveKeeps
<1>4. CASE RebuildLink(w)
  <2>1. /\ heap' = object_rebuild_link(heap, Mine(w), thr[w].lk)
        /\ Goto(w, "rebuild_links") /\ "rebuild_links" \in PCs
        /\ thr[w].pc = "rebuild_link"
    BY <1>4 DEF RebuildLink, Become, PCs, At
  <2>2. thr[w].lk \in Allocated(heap)
    BY <1>2, <2>1 DEF ThreadOK
  <2>3. Calm(heap, heap')
    BY <1>2, <2>1, <2>2, MildRebuildLink, MildCalm
  <2>4. Moves(w, "rebuild_links")
    BY <2>1, GotoMoves
  <2> QED
    BY <1>1, <2>3, <2>4, MoveKeeps
<1>5. CASE RecoverEnd(w)
  <2> DEFINE o == thr[w].obj
             P == heap.obj[o].count[Phantom] = 0
                    => heap.obj[o].collector = NULL
             h == assert(heap, P, "object_recover_node:314")
  <2>1. \/ heap' = h /\ Goto(w, "recovered")
        \/ NextObject(w, h)
    BY <1>5 DEF RecoverEnd, Become
  <2>2. "object_recover_node:314" \in Failures /\ "recovered" \in PCs
    BY DEF Failures, PCs
  <2> HIDE DEF P
  <2>3. Calm(heap, h)
    BY <1>2, <2>2, MildAssert, MildCalm
  <2> HIDE DEF h
  <2>4. CASE heap' = h /\ Goto(w, "recovered")
    BY <1>1, <2>2, <2>3, <2>4, GotoMoves, MoveKeeps
  <2>5. CASE NextObject(w, h)
    BY <1>1, <2>3, <2>5, NextObjectMoves, MoveKeeps
  <2> QED
    BY <2>1, <2>4, <2>5
<1> QED
  BY <1>3, <1>4, <1>5

\* Cleaning a node is mild, and only a worker asked to deletes
\* (object.c:85-114, 319-341).
LEMMA CleanTasks ==
  ASSUME IInv, Running, TInv, NEW w \in Workers,
         \/ CleanNode(w) \/ RemoveLinks(w) \/ DecPhantom(w)
         \/ \E l \in Links : DestroyLink(w, l)
  PROVE  TInv'
<1> DEFINE t == thr[w]
           o == t.obj
<1>1. /\ t.pc \in {"clean_node", "remove_links", "destroy_links", "dec_phantom"}
      /\ t.pc \in ObjectPCs /\ t.pc # "phantomize_links" /\ t.pc # "idle"
  BY DEF CleanNode, RemoveLinks, DecPhantom, DestroyLink, At, ObjectPCs
<1>2. /\ Good(heap) /\ ThreadOK(heap, t) /\ t \in Thread
      /\ o \in Known(heap) /\ o \in Objects /\ thr \in [Workers -> Thread]
  BY <1>1, WorkerFacts DEF IInv, ThreadsOK
<1>3. /\ AfterLinks(w) \in {"delete", "dec_phantom"}
      /\ AfterLinks(w) = "delete" => t.task.run = "request_delete"
  BY DEF AfterLinks
<1>4. CASE CleanNode(w)
  <2>1. PICK P : heap' = assert(heap, P, "object_clean_node:332")
    BY <1>4 DEF CleanNode, Become
  <2>2. PICK pc \in {"dec_phantom", "remove_links"} : Goto(w, pc)
    BY <1>4 DEF CleanNode
  <2>3. "object_clean_node:332" \in Failures /\ pc \in PCs
    BY DEF Failures, PCs
  <2>4. Calm(heap, heap')
    BY <1>2, <2>1, <2>3, MildAssert, MildCalm
  <2>5. Moves(w, pc)
    BY <2>2, <2>3, GotoMoves
  <2> QED
    BY <1>1, <2>2, <2>4, <2>5, MoveKeeps
<1>5. CASE RemoveLinks(w)
  <2> DEFINE pc == IF LinksOf(heap, o) = {} THEN AfterLinks(w)
                                             ELSE "destroy_links"
  <2>1. Moves(w, pc)
    BY <1>2, <1>5 DEF RemoveLinks, Moves, Thread
  <2>2. /\ pc \notin {"idle", "phantomize_links"}
        /\ pc = "delete" => t.task.run = "request_delete"
    BY <1>3
  <2>3. Calm(heap, heap')
    BY <1>2, <1>5, MildRemoveLinks, MildCalm DEF RemoveLinks, Become
  <2> HIDE DEF pc
  <2> QED
    BY <1>1, <2>1, <2>2, <2>3, MoveKeeps
<1>6. CASE DecPhantom(w)
  <2>1. NextObject(w, object_dec_phantom(heap, o))
    BY <1>6 DEF DecPhantom
  <2>2. /\ heap' = object_dec_phantom(heap, o) /\ Moves(w, t.list)
        /\ t.list \notin {"idle", "phantomize_links", "delete"}
    BY <2>1, NextObjectMoves
  <2>3. Calm(heap, heap')
    BY <1>2, <2>2, MildDecPhantom, MildCalm
  <2> QED
    BY <1>1, <2>2, <2>3, MoveKeeps
<1>7. ASSUME NEW l \in Links, DestroyLink(w, l)
      PROVE  TInv'
  <2> DEFINE pc == IF t.links = {l} THEN AfterLinks(w) ELSE t.pc
  <2>1. /\ t.pc = "destroy_links" /\ l \in t.links /\ CanCreate(heap)
        /\ heap' = link_destroy(heap, l)
    BY <1>7 DEF DestroyLink, At, Become
  <2>2. Moves(w, pc)
    BY <1>2, <1>7 DEF DestroyLink, Moves, Thread
  <2>3. /\ pc \notin {"idle", "phantomize_links"}
        /\ pc = "delete" => t.task.run = "request_delete"
    BY <1>3, <2>1
  <2>4. l \in Allocated(heap)
    BY <1>2, <2>1 DEF ThreadOK
  <2>5. Calm(heap, heap')
    BY <1>2, <2>1, <2>4, MildLinkDestroy, MildCalm
  <2> HIDE DEF pc
  <2> QED
    BY <1>1, <2>2, <2>3, <2>5, MoveKeeps
<1> QED
  BY <1>4, <1>5, <1>6, <1>7

-----------------------------------------------------------------------------
(* The theorems *)

\* The queue and the workers start empty handed (acid.c:8-24).
LEMMA InitTasks == Init => TInv
<1> SUFFICES ASSUME Init PROVE TInv
  OBVIOUS
<1>1. /\ \A c \in Collectors : heap.coll[c] = NoCollector
      /\ \A o \in Objects : heap.obj[o] = NoObject
      /\ heap.work = <<>>
      /\ \A w \in Workers : thr[w] = IdleThread
  BY DEF Init, EmptyHeap
<1>2. /\ ~NoCollector.live /\ NoCollector.forward = NULL
      /\ ~NoObject.phantomized
      /\ IdleThread.pc = "idle" /\ IdleThread.task = NULL
  BY DEF NoCollector, NoObject, IdleThread
<1>3. Stored(heap)
  BY <1>1, <1>2 DEF Stored
<1>4. OneTask
  <2>1. \A c \in Collectors : QueuedAt(heap, c) = {}
    BY <1>1 DEF QueuedAt
  <2>2. \A c \in Collectors : RunBy(c) = {}
    BY <1>1, <1>2, TaskNotNull DEF RunBy
  <2> QED
    BY <1>1, <1>2, <2>1, <2>2 DEF OneTask
<1>5. OneHand
  BY <1>1, <1>2 DEF OneHand, BeingPhantomized, Phantomizing
<1>6. OwnTask
  BY <1>1, <1>2 DEF OwnTask
<1> QED
  BY <1>3, <1>4, <1>5, <1>6 DEF TInv

\* Every step of the program and of the workers keeps what is said of tasks,
\* nodes and lists.
LEMMA NextTasks == IInv /\ TInv /\ [Next]_vars => TInv'
<1> SUFFICES ASSUME IInv, TInv, [Next]_vars
             PROVE  TInv'
  OBVIOUS
<1>1. CASE UNCHANGED vars
  BY <1>1, MildSelf, ProgramKeeps DEF vars
<1>2. CASE Next
  <2>1. Running
    BY <1>2 DEF Next
  <2>2. CASE MutatorNext
    BY <2>1, <2>2, ProgramTasks
  <2>3. ASSUME NEW w \in Workers, WorkerNext(w)
        PROVE  TInv'
    <3>1. CASE worker_get_next_task(w)
      BY <2>1, <3>1, NextTaskTasks
    <3>2. CASE \/ CollectorWaits(w) \/ CollectorStarts(w) \/ DrainMerged(w)
               \/ PollObject(w) \/ PollNothing(w)
               \/ ToRecovery(w) \/ ToClean(w)
      BY <2>1, <3>2, ListTasks
    <3>3. CASE CollectorFinishes(w)
      BY <2>1, <3>3, FinishTasks
    <3>4. CASE PhantomizeNode(w)
      BY <2>1, <3>4, PhantomizeNodeStart
    <3>5. CASE \E l \in Links : PhantomizeLink(w, l)
      BY <2>1, <3>5, PhantomizeLinkTasks
    <3>6. CASE PhantomizeComplete(w)
      BY <2>1, <3>6, PhantomizeCompleteTasks
    <3>7. CASE RecoverNode(w) \/ AwaitPhantomization(w)
      BY <2>1, <3>7, RecoverTasks
    <3>8. CASE \/ \E f \in Fields : RebuildGet(w, f)
               \/ RebuildLink(w) \/ RecoverEnd(w)
      BY <2>1, <3>8, RebuildTasks
    <3>9. CASE \/ CleanNode(w) \/ RemoveLinks(w) \/ DecPhantom(w)
               \/ \E l \in Links : DestroyLink(w, l)
      BY <2>1, <3>9, CleanTasks
    <3>10. CASE ObjectDel(w)
      BY <2>1, <3>10, DeleteTasks
    <3> QED
      BY <2>3, <3>1, <3>2, <3>3, <3>4, <3>5, <3>6, <3>7, <3>8, <3>9, <3>10,
         Zenon DEF WorkerNext
  <2> QED
    BY <1>2, <2>2, <2>3 DEF Next
<1> QED
  BY <1>1, <1>2

\* In every execution, for any number of objects, fields, links, collectors
\* and workers: a live collector's task is in one place, a half phantomized
\* node in one worker's hands, and a merged collector's lists are empty.
THEOREM TaskInvariant == Spec => [](IInv /\ TInv)
<1>1. Init => IInv /\ TInv
  BY InitIInv, InitTasks
<1>2. (IInv /\ TInv) /\ [Next]_vars => (IInv /\ TInv)'
  BY NextIInv, NextTasks
<1> QED
  BY <1>1, <1>2, PTL DEF Spec

\* How many there are of what there is at most one of.
LEMMA AtMostOne ==
  ASSUME NEW S, \A x, y \in S : x = y
  PROVE  Cardinality(S) = IF S = {} THEN 0 ELSE 1
<1>1. CASE S = {}
  BY <1>1, FS_EmptySet
<1>2. ASSUME NEW x \in S PROVE Cardinality(S) = 1
  <2>1. S = {x}
    BY <1>2
  <2> QED
    BY <2>1, FS_Singleton
<1> QED
  BY <1>1, <1>2

\* Nothing is ever left in, or added to, the lists of a merged collector,
\* whatever order merges, safelist_add and drains come in (safelist.c:18-36
\* and 60-69, collector.c:139-161).
THEOREM MergedStoreNothing == Spec => []NothingStranded
<1>1. IInv /\ TInv => NothingStranded
  BY DEF TInv, Stored, NothingStranded
<1> QED
  BY <1>1, TaskInvariant, PTL

\* Each live collector has exactly one collector_run task, queued or running,
\* and a freed one has none: no schedule makes two workers run one collector,
\* frees one whose task is still queued, or loses the task of one that still
\* has work (object.c:130-133, collector.c:126-137, task.c:57-71).
THEOREM TasksPerCollector == Spec => []OneTaskPerCollector
<1>1. ASSUME IInv, TInv, NEW c \in Collectors
      PROVE  Cardinality(QueuedAt(heap, c)) + Cardinality(RunBy(c))
               = IF heap.coll[c].live THEN 1 ELSE 0
  <2> DEFINE Q == QueuedAt(heap, c)
             R == RunBy(c)
  <2>1. /\ heap.coll[c].live <=> Q # {} \/ R # {}
        /\ Q = {} \/ R = {}
        /\ \A i, j \in Q : i = j
        /\ \A v, w \in R : v = w
    BY <1>1 DEF TInv, OneTask
  <2> HIDE DEF Q, R
  <2>2. /\ Cardinality(Q) = IF Q = {} THEN 0 ELSE 1
        /\ Cardinality(R) = IF R = {} THEN 0 ELSE 1
    BY <2>1, AtMostOne
  <2>3. Cardinality(Q) + Cardinality(R) = IF heap.coll[c].live THEN 1 ELSE 0
    BY <2>1, <2>2
  <2> QED
    BY <2>3 DEF Q, R
<1>2. IInv /\ TInv => OneTaskPerCollector
  BY <1>1 DEF OneTaskPerCollector, QueuedAt, RunBy, CollTask
<1> QED
  BY <1>2, TaskInvariant, PTL

\* A node whose phantomization is not complete is in the hands of exactly one
\* worker, and any other node in nobody's: object_recover_node never waits
\* for a thread that has gone, and no two threads snapshot one node's links
\* (object.c:197-234, 281).
THEOREM PhantomizersUnique == Spec => []OnePhantomizer
<1>1. ASSUME IInv, TInv, NEW o \in Objects
      PROVE  Holding(o, {"phantomize_links"})
               = IF BeingPhantomized(heap, o) THEN 1 ELSE 0
  <2> DEFINE H == {w \in Workers : thr[w].obj = o
                                     /\ thr[w].pc \in {"phantomize_links"}}
  <2>1. /\ BeingPhantomized(heap, o) <=> H # {}
        /\ \A v, w \in H : v = w
    BY <1>1 DEF TInv, OneHand, Phantomizing
  <2>2. Holding(o, {"phantomize_links"}) = Cardinality(H)
    BY DEF Holding
  <2> HIDE DEF H
  <2> QED
    BY <2>1, <2>2, AtMostOne
<1>2. IInv /\ TInv => OnePhantomizer
  BY <1>1 DEF OnePhantomizer
<1> QED
  BY <1>2, TaskInvariant, PTL

=============================================================================
