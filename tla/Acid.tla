-------------------------------- MODULE Acid --------------------------------
(***************************************************************************)
(* The acid collector: one mutator thread that builds and drops a graph of *)
(* objects through the public API, and the worker threads that run the     *)
(* collection and deletion tasks it causes.                                *)
(*                                                                         *)
(* A step is one outermost locked section of the code (locker_start ...    *)
(* locker_end) or one call on a collector's safe list, so steps of         *)
(* different threads interleave exactly where the code holds no object     *)
(* lock.                                                                   *)
(***************************************************************************)
EXTENDS Heap

CONSTANTS
  Workers,    \* the threads of workers_setup
  MaxRoots    \* bound on the strong references the mutator holds to an object

ASSUME AcidAssumption ==
  /\ IsFiniteSet(Workers)
  /\ MaxRoots \in Nat \ {0}
  /\ NULL \notin Task

VARIABLES
  heap,   \* the shared memory, see module Heap
  thr,    \* thr[w]: where worker w is and what it holds in local variables
  root,   \* root[o]: strong references of the mutator's variables to o
  old     \* object_set's old_link, between its locked section and link_dec

vars == <<heap, thr, root, old>>

\* A failed assertion ends the program.
Running == heap.failed = "none"

PCs == {"idle", "collector_run", "merged", "collect", "recovery_list",
        "rebuild_list", "clean_list", "finish", "phantomize_node",
        "phantomize_links", "phantomized", "recover_node", "await",
        "rebuild_links", "rebuild_link", "recovered", "clean_node",
        "remove_links", "destroy_links", "dec_phantom", "delete"}

Thread ==
  [pc: PCs,
   task: Task \cup {NULL},
   list: ListNames \ {"merged_list"},  \* the list being drained
   obj: Objects \cup {NULL},        \* the object at hand
   links: SUBSET Links,             \* phantoms, or lks: links still to do
   keys: SUBSET Fields,             \* rebuild: keys still to do
   lk: Links \cup {NULL}]

IdleThread ==
  [pc |-> "idle", task |-> NULL, list |-> "collect", obj |-> NULL,
   links |-> {}, keys |-> {}, lk |-> NULL]

TypeOK ==
  /\ heap \in HeapType
  /\ thr \in [Workers -> Thread]
  /\ root \in [Objects -> Nat]
  /\ old \in Links \cup {NULL}

Init ==
  /\ heap = EmptyHeap
  /\ thr = [w \in Workers |-> IdleThread]
  /\ root = [o \in Objects |-> 0]
  /\ old = NULL

-----------------------------------------------------------------------------
(* The mutator *)

\* What the program can reach: its variables, then fields of what it reaches.
LinkClosed(S) ==
  \A o \in S : \A l \in LinksOf(heap, o) : heap.link[l].target \in S

Accessible ==
  {o \in Objects :
     \A S \in SUBSET Objects :
       {r \in Objects : root[r] > 0} \subseteq S /\ LinkClosed(S) => o \in S}

acid_malloc(o) ==
  /\ old = NULL
  /\ heap.obj[o].state = "none"
  /\ heap' = object_init_strong(heap, o)
  /\ root' = [root EXCEPT ![o] = 1]
  /\ UNCHANGED <<thr, old>>

acid_harden(o) ==
  /\ old = NULL
  /\ o \in Accessible
  /\ root[o] < MaxRoots
  /\ heap' = object_inc_strong(heap, o)
  /\ root' = [root EXCEPT ![o] = @ + 1]
  /\ UNCHANGED <<thr, old>>

acid_dissolve(o) ==
  /\ old = NULL
  /\ root[o] > 0
  /\ CanCreate(heap)
  /\ heap' = object_dec(heap, o, heap.obj[o].which)
  /\ root' = [root EXCEPT ![o] = @ - 1]
  /\ UNCHANGED <<thr, old>>

\* acid_set(var, val), where var holds from (NULL when it holds nothing).
acid_set(from, val) ==
  LET h1 == object_inc_strong(heap, val)
  IN  /\ old = NULL
      /\ val \in Accessible
      /\ root[val] < MaxRoots
      /\ from # NULL => root[from] > 0
      /\ CanCreate(heap)
      /\ heap' = IF from = NULL THEN h1
                 ELSE object_dec(h1, from, h1.obj[from].which)
      /\ root' = [o \in Objects |->
                    root[o] + (IF o = val THEN 1 ELSE 0)
                            - (IF o = from THEN 1 ELSE 0)]
      /\ UNCHANGED <<thr, old>>

\* acid_set_field(o, f, NULL)
object_set_null(o, f) ==
  /\ old = NULL
  /\ o \in Accessible
  /\ heap.obj[o].links[f] # NULL
  /\ heap' = [heap EXCEPT !.obj[o].links[f] = NULL]
  /\ old' = heap.obj[o].links[f]
  /\ UNCHANGED <<thr, root>>

\* acid_set_field(o, f, t); nothing happens if the field already holds t.
FreeLinks == {l \in Links : heap.link[l].state = "none"}

object_set(o, f, t) ==
  LET was == heap.obj[o].links[f]
  IN  /\ old = NULL
      /\ {o, t} \subseteq Accessible
      /\ was # NULL => heap.link[was].target # t
      /\ FreeLinks # {}
      /\ heap' = object_set_link(heap, o, f, t, CHOOSE l \in FreeLinks : TRUE)
      /\ old' = was
      /\ UNCHANGED <<thr, root>>

\* The tail of object_set: link_dec(old_link), after the locks are released.
object_set_cleanup ==
  /\ old # NULL
  /\ CanCreate(heap)
  /\ heap' = link_dec(heap, old)
  /\ old' = NULL
  /\ UNCHANGED <<thr, root>>

MutatorNext ==
  \/ \E o \in Objects : acid_malloc(o) \/ acid_harden(o) \/ acid_dissolve(o)
  \/ \E from \in Objects \cup {NULL}, val \in Objects : acid_set(from, val)
  \/ \E o \in Objects, f \in Fields : object_set_null(o, f)
  \/ \E o, t \in Objects, f \in Fields : object_set(o, f, t)
  \/ object_set_cleanup

-----------------------------------------------------------------------------
(* The workers: task.c and worker.c *)

At(w, pc) == thr[w].pc = pc

\* The collector whose task w runs.
Mine(w) == thr[w].task.arg

Goto(w, pc) == thr' = [thr EXCEPT ![w].pc = pc]

Become(h) == heap' = h /\ UNCHANGED <<root, old>>

worker_get_next_task(w) ==
  LET task == Head(heap.work)
  IN  /\ At(w, "idle")
      /\ heap.work # <<>>
      /\ Become([heap EXCEPT !.work = Tail(@)])
      /\ thr' = [thr EXCEPT
           ![w] = IF task.run = "collector_run"
                    THEN [IdleThread EXCEPT !.pc = "collector_run",
                                            !.task = task]
                    ELSE [IdleThread EXCEPT !.pc = "remove_links",
                                            !.task = task,
                                            !.obj = task.arg]]

\* task_run when the task's function returned true, and when it did not.
Requeue(w, h) ==
  /\ Become([h EXCEPT !.work = Append(@, thr[w].task)])
  /\ thr' = [thr EXCEPT ![w] = IdleThread]

Done(w, h) ==
  /\ Become(h)
  /\ thr' = [thr EXCEPT ![w] = IdleThread]

-----------------------------------------------------------------------------
(* collector_run *)

CollectorWaits(w) ==
  /\ At(w, "collector_run")
  /\ counter_continue_waiting(heap, Mine(w))
  /\ Requeue(w, heap)

CollectorStarts(w) ==
  /\ At(w, "collector_run")
  /\ ~counter_continue_waiting(heap, Mine(w))
  /\ Goto(w, "merged")
  /\ UNCHANGED <<heap, root, old>>

\* The first loop runs under the collector's own lock, which a merge needs
\* too: a collector that has been merged has an empty merged_list.
DrainMerged(w) ==
  LET lists == heap.coll[Mine(w)].lists
  IN  /\ At(w, "merged")
      /\ Become([heap EXCEPT
           !.coll[Mine(w)].lists =
             [lists EXCEPT !["recovery_list"] = @ \o lists["merged_list"],
                           !["merged_list"] = <<>>]])
      /\ thr' = [thr EXCEPT ![w].pc = "collect", ![w].list = "collect"]

\* The loop over each list: which list comes next, and what is called on an
\* element.
AfterList ==
  [collect       |-> "recovery_list",
   recovery_list |-> "rebuild_list",
   rebuild_list  |-> "clean_list"]

Handler ==
  [collect       |-> "phantomize_node",
   recovery_list |-> "recover_node",
   rebuild_list  |-> "recover_node",
   clean_list    |-> "clean_node"]

Draining(w) == thr[w].pc \in DOMAIN Handler

PollObject(w) ==
  LET list == thr[w].list
  IN  /\ Draining(w)
      /\ heap.coll[Mine(w)].lists[list] # <<>>
      /\ Become(safelist_poll(heap, Mine(w), list))
      /\ thr' = [thr EXCEPT ![w].pc = Handler[list],
                            ![w].obj = Head(heap.coll[Mine(w)].lists[list])]

PollNothing(w) ==
  LET list == thr[w].list
  IN  /\ Draining(w)
      /\ heap.coll[Mine(w)].lists[list] = <<>>
      /\ IF list = "clean_list"
           THEN Goto(w, "finish")
           ELSE thr' = [thr EXCEPT ![w].pc = AfterList[list],
                                   ![w].list = AfterList[list]]
      /\ UNCHANGED <<heap, root, old>>

\* The end of an iteration: safelist_add onto the next list, if any.
NextObject(w, h) ==
  /\ Become(h)
  /\ thr' = [thr EXCEPT ![w].pc = thr[w].list, ![w].obj = NULL,
                        ![w].lk = NULL]

\* Mutant: the task of a collector that is done runs again.
FinishedRunsAgain(w) ==
  /\ At(w, "finish")
  /\ Requeue(w, IF counter_done(heap, Mine(w))
                  THEN collector_destroy(heap, Mine(w)) ELSE heap)

CollectorFinishes(w) ==
  /\ At(w, "finish")
  /\ IF counter_done(heap, Mine(w))
       THEN Done(w, collector_destroy(heap, Mine(w)))
       ELSE Requeue(w, heap)

-----------------------------------------------------------------------------
(* object_phantomize_node, then safelist_add(&collector->recovery_list) *)

PhantomizeNode(w) ==
  LET o == thr[w].obj
  IN  /\ At(w, "phantomize_node")
      /\ Become(object_phantomize_node(heap, o))
      /\ thr' = IF Phantomizes(heap, o)
                  THEN [thr EXCEPT ![w].pc = "phantomize_links",
                                   ![w].links = LinksOf(heap, o)]
                  ELSE [thr EXCEPT ![w].pc = "phantomized"]

PhantomizeLink(w, l) ==
  LET src == heap.obj[heap.link[l].src]
      h1  == assert(heap, heap.obj[thr[w].obj].phantomized,
                    "object_phantomize_node:222")
      h2  == assert(h1, src.phantomized, "object_phantomize_node:224")
      h3  == assert(h2, src.collector # NULL, "object_phantomize_node:225")
  IN  /\ At(w, "phantomize_links")
      /\ l \in thr[w].links
      /\ CanCreate(heap)
      /\ Become(IF heap.link[l].phantomized THEN h1 ELSE link_phantomize(h3, l))
      /\ thr' = [thr EXCEPT ![w].links = @ \ {l}]

PhantomizeComplete(w) ==
  /\ At(w, "phantomize_links")
  /\ thr[w].links = {}
  /\ Become([heap EXCEPT !.obj[thr[w].obj].phantomization_complete = TRUE])
  /\ Goto(w, "phantomized")

\* Mutant: a node that keeps a strong count is not put on the next list.
ToRecoveryIfPhantom(w) ==
  /\ At(w, "phantomized")
  /\ NextObject(w, IF IsStrong(heap, thr[w].obj) THEN heap
                     ELSE safelist_add(heap, Mine(w), "recovery_list", thr[w].obj))

ToRecovery(w) ==
  /\ At(w, "phantomized")
  /\ NextObject(w, safelist_add(heap, Mine(w), "recovery_list", thr[w].obj))

-----------------------------------------------------------------------------
(* object_recover_node, then safelist_add(&collector->clean_list) for what *)
(* came from the recovery list                                             *)

Recovered(w, h) ==
  LET o == thr[w].obj
      h1 == assert(h, h.obj[o].phantomization_complete,
                   "object_recover_node:289")
  IN  /\ Become([h1 EXCEPT !.obj[o].phantomized = FALSE])
      /\ thr' = [thr EXCEPT ![w].pc = "rebuild_links",
                            ![w].keys = KeysOf(h, o)]

BeingPhantomized(h, o) ==
  h.obj[o].phantomized /\ ~h.obj[o].phantomization_complete

RecoverNode(w) ==
  LET o == thr[w].obj
      h == FollowCollector(heap, o)
  IN  /\ At(w, "recover_node")
      /\ \/ /\ IsStrong(h, o)
            /\ BeingPhantomized(h, o)
            /\ Become(h)
            /\ Goto(w, "await")
         \/ /\ IsStrong(h, o)
            /\ ~BeingPhantomized(h, o)
            /\ Recovered(w, h)
         \/ /\ ~IsStrong(h, o)
            /\ Become(assert(h, h.obj[o].count[Flip(h.obj[o].which)] = 0,
                             "object_recover_node:298"))
            /\ Goto(w, "rebuild_links")

\* One millisecond sleeps until the thread that phantomizes the node is done.
AwaitPhantomization(w) ==
  /\ At(w, "await")
  /\ ~BeingPhantomized(heap, thr[w].obj)
  /\ Recovered(w, heap)

\* hashtable_get without the lock: a key that is gone leaves lk as it was.
RebuildGet(w, f) ==
  LET l  == heap.obj[thr[w].obj].links[f]
      lk == IF l # NULL THEN l ELSE thr[w].lk
  IN  /\ At(w, "rebuild_links")
      /\ f \in thr[w].keys
      /\ Become(assert(heap, lk # NULL, "object_recover_node:306"))
      /\ thr' = [thr EXCEPT ![w].pc = "rebuild_link",
                            ![w].keys = @ \ {f},
                            ![w].lk = lk]

RebuildLink(w) ==
  /\ At(w, "rebuild_link")
  /\ Become(object_rebuild_link(heap, Mine(w), thr[w].lk))
  /\ Goto(w, "rebuild_links")

RecoverEnd(w) ==
  LET o == thr[w].obj
      h == assert(heap, heap.obj[o].count[Phantom] = 0
                          => heap.obj[o].collector = NULL,
                  "object_recover_node:314")
  IN  /\ At(w, "rebuild_links")
      /\ thr[w].keys = {}
      /\ IF thr[w].list = "recovery_list"
           THEN Become(h) /\ Goto(w, "recovered")
           ELSE NextObject(w, h)

ToClean(w) ==
  /\ At(w, "recovered")
  /\ NextObject(w, safelist_add(heap, Mine(w), "clean_list", thr[w].obj))

-----------------------------------------------------------------------------
(* object_clean_node and _object_request_delete_task_run *)

\* Mutant: a node is cleaned when its strong count alone is zero.
CleanIgnoresWeak(w) ==
  LET o == thr[w].obj
  IN  /\ At(w, "clean_node")
      /\ Become(heap)
      /\ Goto(w, IF heap.obj[o].count[0] # 0 THEN "dec_phantom" ELSE "remove_links")

CleanNode(w) ==
  LET count == heap.obj[thr[w].obj].count
      h     == assert(heap, count[0] >= 0 /\ count[1] >= 0,
                      "object_clean_node:332")
  IN  /\ At(w, "clean_node")
      /\ Become(h)
      /\ Goto(w, IF count[0] # 0 \/ count[1] # 0 THEN "dec_phantom"
                                                 ELSE "remove_links")

AfterLinks(w) ==
  IF thr[w].task.run = "request_delete" THEN "delete" ELSE "dec_phantom"

RemoveLinks(w) ==
  LET lks == LinksOf(heap, thr[w].obj)
  IN  /\ At(w, "remove_links")
      /\ Become(object_remove_links(heap, thr[w].obj))
      /\ thr' = [thr EXCEPT
                   ![w].pc = IF lks = {} THEN AfterLinks(w) ELSE "destroy_links",
                   ![w].links = lks]

DestroyLink(w, l) ==
  /\ At(w, "destroy_links")
  /\ l \in thr[w].links
  /\ CanCreate(heap)
  /\ Become(link_destroy(heap, l))
  /\ thr' = [thr EXCEPT
               ![w].pc = IF thr[w].links = {l} THEN AfterLinks(w) ELSE @,
               ![w].links = @ \ {l}]

DecPhantom(w) ==
  /\ At(w, "dec_phantom")
  /\ NextObject(w, object_dec_phantom(heap, thr[w].obj))

ObjectDel(w) ==
  /\ At(w, "delete")
  /\ Done(w, object_del(heap, thr[w].obj))

-----------------------------------------------------------------------------

WorkerNext(w) ==
  \/ worker_get_next_task(w)
  \/ CollectorWaits(w) \/ CollectorStarts(w) \/ DrainMerged(w)
  \/ PollObject(w) \/ PollNothing(w) \/ CollectorFinishes(w)
  \/ PhantomizeNode(w) \/ (\E l \in Links : PhantomizeLink(w, l))
  \/ PhantomizeComplete(w) \/ ToRecovery(w)
  \/ RecoverNode(w) \/ AwaitPhantomization(w)
  \/ (\E f \in Fields : RebuildGet(w, f)) \/ RebuildLink(w)
  \/ RecoverEnd(w) \/ ToClean(w)
  \/ CleanNode(w) \/ RemoveLinks(w) \/ (\E l \in Links : DestroyLink(w, l))
  \/ DecPhantom(w) \/ ObjectDel(w)

Next ==
  /\ Running
  /\ MutatorNext \/ \E w \in Workers : WorkerNext(w)

Spec == Init /\ [][Next]_vars

-----------------------------------------------------------------------------
(* The holders of an object *)

\* Links that still have to be dropped from their target's counts: those in
\* a table, and those taken out of one by object_set or object_remove_links
\* and not yet through link_dec.
HeldLinks ==
  (UNION {LinksOf(heap, o) : o \in Objects})
    \cup ({old} \ {NULL})
    \cup (UNION {thr[w].links : w \in {v \in Workers : At(v, "destroy_links")}})

LinksTo(o, phantom) ==
  {l \in HeldLinks : heap.link[l].target = o
                        /\ heap.link[l].phantomized = phantom}

\* The links to o that its strong count stands for, and its weak count.
LinksOn(o, bit) == {l \in LinksTo(o, FALSE) : heap.link[l].which = bit}

\* How often o is in the named lists.
Entries(o, names) ==
  Cardinality(UNION {
    LET list == heap.coll[p[1]].lists[p[2]]
    IN  {<<p, i>> : i \in {j \in DOMAIN list : list[j] = o}} :
    p \in Collectors \X names})

\* How many workers are at one of pcs with o in hand.
Holding(o, pcs) ==
  Cardinality({w \in Workers : thr[w].obj = o /\ thr[w].pc \in pcs})

\* How many workers hold o as an element of a list that counts.
Handling(o) ==
  Cardinality({w \in Workers : /\ thr[w].obj = o
                               /\ thr[w].task.run = "collector_run"
                               /\ thr[w].list # "rebuild_list"})

\* Objects whose deletion has been requested.
Deleting ==
  {heap.work[i].arg : i \in {j \in DOMAIN heap.work :
                               heap.work[j].run = "request_delete"}}
    \cup {thr[w].obj : w \in {v \in Workers : thr[v].obj # NULL
                               /\ thr[v].task.run = "request_delete"}}

Quiet == heap.work = <<>> /\ \A w \in Workers : At(w, "idle")

\* The program clears or redirects a field only when no task is left, as after
\* task_wait_for_zero_threads (examples/main.c:341).  It may fill empty fields,
\* and gain and drop references, at any time.
Careful == old = NULL /\ old' # NULL => Quiet

CarefulSpec == Init /\ [][Next /\ Careful]_vars

-----------------------------------------------------------------------------
(* Safety *)

\* Each of an object's three counts is the number of its holders of that
\* kind: variables, links, list entries and the threads that carry an entry
\* (object.c:120-160, collector.c:60-81, link.c:37-66).
CountsExact ==
  \A o \in Objects :
    LET node == heap.obj[o]
    IN  node.state = "live" =>
          /\ node.count[node.which] =
               root[o] + Cardinality(LinksOn(o, node.which))
                 + Entries(o, {"collect"}) + Holding(o, {"phantomize_node"})
          /\ node.count[Flip(node.which)] =
               Cardinality(LinksOn(o, Flip(node.which)))
          /\ node.count[Phantom] =
               Cardinality(LinksTo(o, TRUE))
                 + Entries(o, ListNames \ {"rebuild_list"}) + Handling(o)

\* No assertion of object.c, link.c or collector.c fails, and no null
\* collector is followed.
NoFailure == Running

\* The assertions about one object's counts, and about what they guarantee:
\* that links and collectors which a collection still needs are there.
CountFailures ==
  {"object_dec:123", "object_dec_phantom:150", "object_phantomize_node:182",
   "object_rebuild_link:263", "object_clean_node:332", "collector_update:190",
   "link_phantomize:45", "link_phantomize:48", "object_phantomize_node:222",
   "object_phantomize_node:224", "object_phantomize_node:225",
   "object_recover_node:289", "object_recover_node:306", "object_del:74"}

\* None of them fails: no count is given back that was not taken, and no
\* collection loses the collector or the links it works on.
CountsHold == heap.failed \notin CountFailures

\* Nothing the program can reach is freed, or about to be, however its
\* counts were moved by the collector (README.md:66-71).
AccessibleAlive ==
  \A o \in Accessible : heap.obj[o].state = "live" /\ o \notin Deleting

\* Nor are the fields of such an object emptied: what object_clean_node has
\* found unused when it has object_remove_links called is not in use (object.c:328-339).
CleanedUnreachable ==
  \A w \in Workers :
    At(w, "remove_links") /\ LinksOf(heap, thr[w].obj) # {}
      => thr[w].obj \notin Accessible

\* No list, link or thread still leads to an object that object_del freed or
\* a link that link_destroy freed (object.c:81, link.c:33).
NoDangling ==
  /\ \A o \in Objects :
       heap.obj[o].state = "freed" =>
         /\ Entries(o, ListNames) = 0 /\ Holding(o, PCs) = 0
         /\ LinksTo(o, TRUE) \cup LinksTo(o, FALSE) = {}
  /\ \A w \in Workers : \A l \in thr[w].links \cup ({thr[w].lk} \ {NULL}) :
       heap.link[l].state = "live"

\* A collector's reference count is the number of objects and of merged
\* collectors that point to it, so that counter_done frees none in use
\* (counter.c:18-28, collector.c:42-58, object.h).
RefCountExact ==
  \A c \in Collectors :
    heap.coll[c].ref_count =
      Cardinality({o \in Objects : heap.obj[o].collector = c})
        + Cardinality({d \in Collectors : heap.coll[d].forward = c})

\* Whatever collector an object points to, or a collector forwards to, has
\* not been freed, and following forward pointers ends: collector_update and
\* object_merge_collectors read no freed collector and their loops terminate
\* (collector.c:185-200, object.c:343-406).
ChainsLive ==
  /\ \A o \in Objects :
       LET c == heap.obj[o].collector IN c # NULL => heap.coll[c].live
  /\ \A c \in Collectors :
       heap.coll[c].live =>
         \E d \in ForwardChain(heap, c) :
           heap.coll[d].live /\ heap.coll[d].forward = NULL

\* A collector has exactly one collector_run task, queued or running, until
\* that task frees it: no two workers run one collector, and none is left
\* without a task (object.c:130-133, collector.c:126-137, task.c:57-71).
OneTaskPerCollector ==
  \A c \in Collectors :
    LET task == [run |-> "collector_run", arg |-> c]
    IN  Cardinality({i \in DOMAIN heap.work : heap.work[i] = task})
          + Cardinality({w \in Workers : thr[w].task = task})
          = IF heap.coll[c].live THEN 1 ELSE 0

\* Nothing is left in, or added to, the lists of a merged collector
\* (safelist.c:18-36 and 60-69, collector.c:139-161).
NothingStranded ==
  \A c \in Collectors :
    heap.coll[c].forward # NULL => store_count_zero(heap, c)

\* An object is listed by the collector that its own pointer leads to, so a
\* collector never works on what another one owns, merges included
\* (collector.c:60-81, object.c:354-406).
OwnedByLister ==
  \A c \in Collectors, n \in ListNames \ {"rebuild_list"} :
    \A i \in DOMAIN heap.coll[c].lists[n] :
      LET owner == heap.obj[heap.coll[c].lists[n][i]].collector
      IN  owner # NULL /\ collector_update(heap, owner) = c

\* A node whose phantomization is not complete is in the hands of exactly
\* one worker, the one object_recover_node waits for (object.c:197-234, 281).
OnePhantomizer ==
  \A o \in Objects :
    Holding(o, {"phantomize_links"}) = IF BeingPhantomized(heap, o) THEN 1 ELSE 0

\* Finished collectors are freed soon enough for those of a bounded pool to
\* suffice: the code leaks none, and the bound on Collectors cuts nothing
\* off (collector.c:126-132).
CollectorsReclaimed == CanCreate(heap)

-----------------------------------------------------------------------------
(* What the README, a comment or an assertion says and some program or     *)
(* schedule refutes                                                        *)

\* object.c:123, assert(obj->count[w] >= 0), where the comment at
\* object.c:212-216 allows links to be redirected or cleared meanwhile.
CountNotNegative == heap.failed # "object_dec:123"
=============================================================================
