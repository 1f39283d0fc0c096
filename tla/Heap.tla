-------------------------------- MODULE Heap --------------------------------
(***************************************************************************)
(* The memory that acid's threads share - object headers, links,           *)
(* collectors and the task queue - and the C functions that change it, as  *)
(* operators from a heap to a heap.  Each operator is one call made while  *)
(* the locks of the objects it touches are held, so a module that composes *)
(* them takes the whole locked section as one step.  The operators keep    *)
(* the names of the functions they model.                                  *)
(***************************************************************************)
EXTENDS Integers, Sequences, FiniteSets

CONSTANTS
  Objects,     \* addresses acid_malloc may return, each used at most once
  Fields,      \* the field offsets that key an object's table of links
  Links,       \* addresses link_create may return, each used at most once
  Collectors,  \* addresses collector_create may return, reused after free
  NULL         \* the null pointer

ASSUME HeapAssumption ==
  /\ NULL \notin Objects \cup Links \cup Collectors
  /\ IsFiniteSet(Objects)
  /\ IsFiniteSet(Collectors)

-----------------------------------------------------------------------------
(* Types *)

Bits    == {0, 1}       \* bit_t: which of the two counts is the strong one
Phantom == 2            \* index of the phantom count

ListNames == {"collect", "merged_list", "recovery_list", "rebuild_list",
              "clean_list"}

\* Memory is "none" before it is allocated and "freed" after free().
Memory == {"none", "live", "freed"}

Object ==
  [state: Memory,
   links: [Fields -> Links \cup {NULL}],
   which: Bits,
   phantomized: BOOLEAN,
   phantomization_complete: BOOLEAN,
   count: [0..2 -> Int],
   collector: Collectors \cup {NULL}]

Link ==
  [state: Memory,
   src: Objects \cup {NULL},
   target: Objects \cup {NULL},
   which: Bits,
   phantomized: BOOLEAN]

Collector ==
  [live: BOOLEAN,
   ref_count: Int,
   forward: Collectors \cup {NULL},
   lists: [ListNames -> Seq(Objects)]]

Task == [run: {"collector_run"}, arg: Collectors]
          \cup [run: {"request_delete"}, arg: Objects]

\* The assertion, or the null pointer use, that ended the program, by
\* function and line; "none" while it runs.
Failures ==
  {"none", "collector_update:190", "link_phantomize:45", "link_phantomize:48",
   "object_clean_node:332", "object_dec:123", "object_dec_phantom:150",
   "object_del:74", "object_phantomize_node:182",
   "object_phantomize_node:222", "object_phantomize_node:224",
   "object_phantomize_node:225", "object_rebuild_link:263",
   "object_recover_node:289", "object_recover_node:298",
   "object_recover_node:306", "object_recover_node:314",
   "object_remove_links:96", "object_set:455"}

HeapType ==
  [obj: [Objects -> Object],
   link: [Links -> Link],
   coll: [Collectors -> Collector],
   work: Seq(Task),
   failed: Failures]

NoObject ==
  [state |-> "none", links |-> [f \in Fields |-> NULL], which |-> 0,
   phantomized |-> FALSE, phantomization_complete |-> TRUE,
   count |-> [i \in 0..2 |-> 0], collector |-> NULL]

NoLink ==
  [state |-> "none", src |-> NULL, target |-> NULL, which |-> 0,
   phantomized |-> FALSE]

NoCollector ==
  [live |-> FALSE, ref_count |-> 0, forward |-> NULL,
   lists |-> [l \in ListNames |-> <<>>]]

EmptyHeap ==
  [obj |-> [o \in Objects |-> NoObject],
   link |-> [l \in Links |-> NoLink],
   coll |-> [c \in Collectors |-> NoCollector],
   work |-> <<>>,
   failed |-> "none"]

Flip(b) == 1 - b

\* A failing assert() (the default build keeps them) ends the program.
assert(h, P, what) ==
  IF P \/ h.failed # "none" THEN h ELSE [h EXCEPT !.failed = what]

LinksOf(h, o) == {h.obj[o].links[f] : f \in Fields} \ {NULL}

KeysOf(h, o) == {f \in Fields : h.obj[o].links[f] # NULL}

-----------------------------------------------------------------------------
(* counter.c, safelist.c, collector.c *)

\* counter_inc_ref on collector inc and counter_dec_ref on collector dec.
\* The store count is the number of elements in the five lists: safelist.c
\* moves both under the list's lock.
counter_ref(h, inc, dec) ==
  [h EXCEPT !.coll =
     [d \in Collectors |->
        [h.coll[d] EXCEPT !.ref_count = @ + (IF d = inc THEN 1 ELSE 0)
                                          - (IF d = dec THEN 1 ELSE 0)]]]

store_count_zero(h, c) == \A l \in ListNames : h.coll[c].lists[l] = <<>>

counter_continue_waiting(h, c) ==
  h.coll[c].ref_count > 0 /\ store_count_zero(h, c)

\* Mutant: a collector with empty lists is done, whoever refers to it.
DoneIgnoresRefs(h, c) == store_count_zero(h, c)

counter_done(h, c) == h.coll[c].ref_count = 0 /\ store_count_zero(h, c)

\* The collectors met when following forward pointers from c.
ForwardClosed(h, S) ==
  \A d \in S : h.coll[d].forward # NULL => h.coll[d].forward \in S

ForwardChain(h, c) ==
  {d \in Collectors :
     \A S \in SUBSET Collectors : c \in S /\ ForwardClosed(h, S) => d \in S}

collector_update(h, c) ==
  IF h.coll[c].forward = NULL
    THEN c
    ELSE CHOOSE d \in ForwardChain(h, c) : h.coll[d].forward = NULL

\* The list an element put in list l of a collector that has been merged
\* ends in: collector_forward_safelists_to wires the lists together.
ForwardedList(l) ==
  IF l \in {"collect", "rebuild_list"} THEN l ELSE "merged_list"

safelist_add(h, c, l, o) ==
  IF h.coll[c].forward = NULL
    THEN [h EXCEPT !.coll[c].lists[l] = Append(@, o)]
    ELSE [h EXCEPT !.coll[collector_update(h, c)].lists[ForwardedList(l)] =
                      Append(@, o)]

safelist_poll(h, c, l) == [h EXCEPT !.coll[c].lists[l] = Tail(@)]

\* The collector that collector_create would return; the pool is finite.
CanCreate(h) == \E c \in Collectors : ~h.coll[c].live
FreshCollector(h) == CHOOSE c \in Collectors : ~h.coll[c].live

collector_create(h, c) ==
  [h EXCEPT !.coll[c] = [NoCollector EXCEPT !.live = TRUE]]

collector_set_forward(h, c, f) ==
  IF h.coll[c].forward = f
    THEN h
    ELSE [counter_ref(h, f, h.coll[c].forward) EXCEPT !.coll[c].forward = f]

\* Mutant: the recovery list of s is not forwarded.
MergeKeepsRecoveryList(h, t, s) ==
  [collector_set_forward(h, s, t) EXCEPT
     !.coll[s].lists =
       [l \in ListNames |-> IF l = "recovery_list" THEN @[l] ELSE <<>>],
     !.coll[t].lists =
       [@ EXCEPT
          !["collect"]      = @ \o h.coll[s].lists["collect"],
          !["merged_list"]  = @ \o h.coll[s].lists["merged_list"]
                                \o h.coll[s].lists["clean_list"],
          !["rebuild_list"] = @ \o h.coll[s].lists["rebuild_list"]]]

\* Every list of s is drained into the list of t it forwards to, in the
\* order of collector_forward_safelists_to, and s forwards to t.
collector_merge(h, t, s) ==
  LET from == h.coll[s].lists
      into == h.coll[t].lists
      h1   == [h EXCEPT
        !.coll[s].lists = [l \in ListNames |-> <<>>],
        !.coll[t].lists =
          [into EXCEPT
             !["collect"]      = @ \o from["collect"],
             !["merged_list"]  = @ \o from["merged_list"]
                                   \o from["clean_list"]
                                   \o from["recovery_list"],
             !["rebuild_list"] = @ \o from["rebuild_list"]]]
  IN  collector_set_forward(h1, s, t)

\* Mutant: the memory is not freed.
DestroyLeaks(h, c) == collector_set_forward(h, c, NULL)

\* collector_terminate, then collector_destroy.
collector_destroy(h, c) ==
  [collector_set_forward(h, c, NULL) EXCEPT !.coll[c] = NoCollector]

-----------------------------------------------------------------------------
(* object.c and link.c: one object, under its lock *)

task_start(h, run, arg) ==
  [h EXCEPT !.work = Append(@, [run |-> run, arg |-> arg])]

\* Mutant: the collector the object had keeps its reference.
SetCollectorKeepsRef(h, o, c) ==
  IF h.obj[o].collector = c
    THEN h
    ELSE [counter_ref(h, c, NULL) EXCEPT !.obj[o].collector = c]

object_set_collector(h, o, c) ==
  IF h.obj[o].collector = c
    THEN h
    ELSE [counter_ref(h, c, h.obj[o].collector)
            EXCEPT !.obj[o].collector = c]

object_request_delete(h, o) == task_start(h, "request_delete", o)

object_init_strong(h, o) ==
  [h EXCEPT !.obj[o] =
     [NoObject EXCEPT !.state = "live", !.count[0] = 1]]

object_inc_strong(h, o) ==
  [h EXCEPT !.obj[o].count[h.obj[o].which] = @ + 1]

\* The collector takes a strong count, which object_phantomize_node drops,
\* and a phantom count, which object_dec_phantom drops after cleaning.
collector_add_object(h, c, o) ==
  LET add_to == collector_update(h, c)
      h1 == [h EXCEPT !.obj[o].count[h.obj[o].which] = @ + 1]
      h2 == [h1 EXCEPT !.obj[o].count[Phantom] = @ + 1]
      h3 == [h2 EXCEPT !.coll[add_to].lists["collect"] = Append(@, o)]
  IN  object_set_collector(h3, o, add_to)

\* Mutant: the task is created before the object has its collector.
StartCollectorEarly(h, o) ==
  LET c == FreshCollector(h)
  IN  object_set_collector(
        collector_create(task_start(h, "collector_run", h.obj[o].collector), c),
        o, c)

\* The collector an object without one is given, and its task.
StartCollector(h, o) ==
  LET c == FreshCollector(h)
  IN  task_start(object_set_collector(collector_create(h, c), o, c),
                 "collector_run", c)

\* Mutant: weak counts do not keep a node from being deleted.
DecIgnoresWeak(h, o, w) ==
  LET h1   == [h EXCEPT !.obj[o].count[w] = @ - 1]
      h2   == IF h1.obj[o].collector = NULL THEN StartCollector(h1, o) ELSE h1
      node == h1.obj[o]
  IN  IF node.count[w] # 0 \/ w # node.which
        THEN h1
        ELSE IF node.count[Phantom] = 0
          THEN object_request_delete(h1, o)
          ELSE collector_add_object(h2, h2.obj[o].collector, o)

\* Mutant: nor do phantom counts.
DecIgnoresPhantom(h, o, w) ==
  LET h1   == [h EXCEPT !.obj[o].count[w] = @ - 1]
      h2   == IF h1.obj[o].collector = NULL THEN StartCollector(h1, o) ELSE h1
      node == h1.obj[o]
  IN  IF node.count[w] # 0 \/ w # node.which
        THEN h1
        ELSE IF node.count[Flip(w)] = 0
          THEN object_request_delete(h1, o)
          ELSE collector_add_object(h2, h2.obj[o].collector, o)

object_dec(h, o, w) ==
  LET h1   == [h EXCEPT !.obj[o].count[w] = @ - 1]
      h2   == assert(h1, h1.obj[o].count[w] >= 0, "object_dec:123")
      h3   == IF h2.obj[o].collector = NULL THEN StartCollector(h2, o) ELSE h2
      node == h2.obj[o]
  IN  IF node.count[w] # 0 \/ w # node.which
        THEN h2
        ELSE IF node.count[Flip(w)] = 0 /\ node.count[Phantom] = 0
          THEN object_request_delete(h2, o)
          ELSE collector_add_object(h3, h3.obj[o].collector, o)

object_dec_phantom(h, o) ==
  LET h1   == [h EXCEPT !.obj[o].count[Phantom] = @ - 1]
      h2   == assert(h1, h1.obj[o].count[Phantom] >= 0, "object_dec_phantom:150")
      node == h2.obj[o]
  IN  IF node.count[Phantom] # 0
        THEN h2
        ELSE IF node.count[0] = 0 /\ node.count[1] = 0
          THEN object_request_delete(h2, o)
          ELSE object_set_collector(h2, o, NULL)

-----------------------------------------------------------------------------
(* object.c and link.c: two objects, under both locks *)

link_dec(h, l) ==
  IF h.link[l].phantomized
    THEN object_dec_phantom(h, h.link[l].target)
    ELSE object_dec(h, h.link[l].target, h.link[l].which)

\* Mutant: the two chains are not followed to their ends.
MergeOnlyPointers(h, o, target) ==
  LET s == h.obj[o].collector
      t == h.obj[target].collector
  IN  IF t = NULL THEN object_set_collector(h, target, s)
      ELSE object_set_collector(h, o, t)

\* Each pass of the loop replaces one of the two collectors by the one it
\* forwards to, so what it settles on depends on the two ends of the chains.
object_merge_collectors(h, o, target) ==
  LET s == h.obj[o].collector
      t == h.obj[target].collector
      S == collector_update(h, s)
      T == collector_update(h, t)
      h1 == IF S = T THEN h ELSE collector_merge(h, T, S)
  IN  IF s = t THEN h
      ELSE IF t = NULL THEN object_set_collector(h, target, s)
      ELSE IF s = NULL THEN object_set_collector(h, o, t)
      ELSE object_set_collector(object_set_collector(h1, target, T), o, T)

link_phantomize(h, l) ==
  LET o  == h.link[l].src
      t  == h.link[l].target
      h1 == link_dec([h EXCEPT !.obj[t].count[Phantom] = @ + 1], l)
      h2 == assert(h1, h1.obj[t].collector # NULL \/ h1.obj[o].collector # NULL,
                   "link_phantomize:45")
      h3 == object_merge_collectors(h2, o, t)
      h4 == [h3 EXCEPT !.link[l].phantomized = TRUE]
  IN  IF h.link[l].phantomized
        THEN h
        ELSE assert(h4, h4.obj[t].collector = h4.obj[o].collector,
                    "link_phantomize:48")

\* Mutant: every link is strong, as in plain reference counting.
LinkBitStrong(h, o, target, strong) == h.obj[target].which

\* The bit of a new or rebuilt link: a self-reference is weak, a reference
\* to a node that leads nowhere is strong, any other one is weak.
LinkBit(h, o, target, strong) ==
  IF target # o /\ strong THEN h.obj[target].which ELSE Flip(h.obj[target].which)

\* The target's counts after a link to it has been rebuilt with bit w.
RebuildCounts(h, t, w) ==
  LET h1 == [h EXCEPT !.obj[t].count[w] = @ + 1]
      h2 == [h1 EXCEPT !.obj[t].count[Phantom] = @ - 1]
      h3 == IF h2.obj[t].count[Phantom] = 0
              THEN object_set_collector(h2, t, NULL) ELSE h2
  IN  assert(h3, h3.obj[t].count[Phantom] >= 0, "object_rebuild_link:263")

object_rebuild_link(h, c, l) ==
  LET o  == h.link[l].src
      t  == h.link[l].target
      w  == LinkBit(h, o, t, h.obj[t].phantomized \/ KeysOf(h, t) = {})
      h1 == [h EXCEPT !.link[l].which = w, !.link[l].phantomized = FALSE]
      h2 == RebuildCounts(h1, t, w)
  IN  IF ~h.link[l].phantomized THEN h
      ELSE IF h2.obj[t].collector = NULL THEN h2
      ELSE safelist_add(h2, c, "rebuild_list", t)

\* A new link l in field f of o.
InstallLink(h, o, f, t, l) ==
  [h EXCEPT
     !.link[l] = [NoLink EXCEPT !.state = "live", !.src = o, !.target = t],
     !.obj[o].links[f] = l]

\* The locked section of object_set that installs it: the link of a
\* phantomized node is a phantom one, and merges the two collectors.
object_set_link(h, o, f, t, l) ==
  LET h1 == InstallLink(h, o, f, t, l)
      m  == object_merge_collectors(h1, o, t)
      m1 == assert(m, m.obj[o].collector # NULL, "object_set:455")
      m2 == [m1 EXCEPT !.obj[t].count[Phantom] = @ + 1]
      w  == LinkBit(h1, o, t, KeysOf(h1, t) = {})
      h2 == [h1 EXCEPT !.obj[t].count[w] = @ + 1]
  IN  IF h1.obj[o].phantomized
        THEN [m2 EXCEPT !.link[l].phantomized = TRUE]
        ELSE [h2 EXCEPT !.link[l].which = w]

-----------------------------------------------------------------------------
(* object.c: the nodes of a collection *)

\* A node follows its collector to the end of its chain.
FollowCollector(h, o) ==
  IF h.obj[o].collector = NULL
    THEN h
    ELSE object_set_collector(h, o, collector_update(h, h.obj[o].collector))

DropStrong(h, o) ==
  LET h1 == [h EXCEPT !.obj[o].count[h.obj[o].which] = @ - 1]
  IN  assert(h1, h1.obj[o].count[h1.obj[o].which] >= 0,
             "object_phantomize_node:182")

\* A node without strong counts flips its bit if it has weak ones and
\* becomes phantomized.
BecomePhantom(h, o) ==
  LET node == h.obj[o]
      bit  == Flip(node.which)
  IN  [h EXCEPT !.obj[o] =
         [node EXCEPT
            !.which = IF node.count[bit] > 0 THEN bit ELSE @,
            !.phantomized = TRUE,
            !.phantomization_complete = node.phantomized /\ @]]

\* The locked section that opens object_phantomize_node: the collector's
\* strong count goes back.
object_phantomize_node(h, o) ==
  LET h1   == DropStrong(FollowCollector(h, o), o)
      node == h1.obj[o]
  IN  IF h.obj[o].collector = NULL
        THEN assert(h, FALSE, "collector_update:190")
        ELSE IF node.count[node.which] > 0 THEN h1 ELSE BecomePhantom(h1, o)

\* Mutant: a node already phantomized is phantomized again.
PhantomizesAgain(h, o) ==
  /\ h.obj[o].collector # NULL
  /\ h.obj[o].count[h.obj[o].which] <= 1

\* Whether that section is the one that phantomizes the node.
Phantomizes(h, o) ==
  /\ h.obj[o].collector # NULL
  /\ ~h.obj[o].phantomized
  /\ h.obj[o].count[h.obj[o].which] <= 1

IsStrong(h, o) == h.obj[o].count[h.obj[o].which] > 0

\* object_remove_links: the table is emptied and the links handed over.
object_remove_links(h, o) ==
  LET h1 == [h EXCEPT !.obj[o].links = [f \in Fields |-> NULL]]
  IN  assert(h1, h.obj[o].count[0] = 0 /\ h.obj[o].count[1] = 0,
             "object_remove_links:96")

object_del(h, o) ==
  LET h1 == assert(object_set_collector(h, o, NULL), KeysOf(h, o) = {},
                   "object_del:74")
  IN  [h1 EXCEPT !.obj[o].state = "freed"]

link_destroy(h, l) == [link_dec(h, l) EXCEPT !.link[l].state = "freed"]
=============================================================================
