----------------------------- MODULE Collectors -----------------------------
(***************************************************************************)
(* Collectors and their safe lists lock by lock: what module Heap takes as *)
(* one step (adding an object, merging two collectors, following a chain   *)
(* of them, ending one) is here the sequence of locker_start and           *)
(* locker_end calls of the code, and other threads run in between.         *)
(*                                                                         *)
(* A safe list's lock is held over that list's own operation and nothing   *)
(* that blocks (safelist_forward holds two, under their collectors' locks),*)
(* so such an operation is one step; so is a section that takes one lock   *)
(* while the thread has no other.  Of an object's strong and weak counts   *)
(* only their sum is kept: whether a link that goes, or is phantomized,    *)
(* was a strong one is left open, and a worker takes either branch.        *)
(***************************************************************************)
EXTENDS Locker

CONSTANTS
  Mutator, Workers,
  Objects, Collectors,   \* each collector is used once
  Starts,    \* the states to start from, see Init
  Adds       \* bound on what the mutator does: the links it adds, each once

ListNames == {"collect", "merged_list", "recovery_list", "rebuild_list",
              "clean_list"}

ASSUME CollectorsAssumption ==
  /\ ToSet(Order) = Objects \cup Collectors /\ Objects \cap Collectors = {}
  /\ NULL \notin ListNames \cup {"delete"} \cup (Collectors \X ListNames)
  /\ Threads = Workers \cup {Mutator} /\ Mutator \notin Workers

\* Collectors come after objects, whichever was made first; the ids order each
\* of the two kinds.
ASSUME NestingAssumption ==
  \A j, k \in Locks :
    \/ j \in Objects /\ k \in Collectors
    \/ Id(j) < Id(k) /\ (j \in Objects <=> k \in Objects)
    => Rank(j) < Rank(k)

ASSUME StartsAssumption ==
  \A g \in Starts :
    /\ g.links \in [Objects -> SUBSET Objects] /\ g.roots \in SUBSET Objects
    /\ g.lists \in [Collectors -> Seq(Objects)]
    /\ g.work \in Seq(Collectors) /\ IsInjective(g.work)
    /\ \A c \in Collectors : c \in ToSet(g.work) <=> g.lists[c] # <<>>

VARIABLES
  coll,   \* collector_t
  obj,    \* Object
  th,     \* where each thread is, and its local variables
  work,   \* the task queue: collectors to run and objects to delete
  sets    \* the links that the mutator has added

vars == <<locker, coll, obj, th, work, sets>>

NewCollector ==
  [state |-> "none", forward |-> NULL,
   data |-> [l \in ListNames |-> <<>>],
   to |-> [l \in ListNames |-> NULL]]   \* the collector of a list's _forward

NewObject ==
  [collector |-> NULL, phantom |-> 0, phantomized |-> FALSE, root |-> FALSE,
   links |-> {}, phantoms |-> {}]   \* the targets of its links of either kind

IdleThread ==
  [pc |-> "idle",
   c |-> NULL, list |-> NULL,   \* the collector it runs, the list it drains
   o |-> NULL, t |-> NULL,      \* the object at hand, the target of a link
   todo |-> {},                 \* targets of links still to do
   x |-> NULL, y |-> NULL,      \* collectors it follows to their ends
   n |-> 0,                     \* lists forwarded
   e |-> NULL, at |-> NULL]     \* what it adds to which list of whom

-----------------------------------------------------------------------------
(* Collectors *)

\* The references that counter_inc_ref and counter_dec_ref count: they move
\* with the pointers, under the lock of what holds the pointer.
Refs(c) ==
  {o \in Objects : obj[o].collector = c} \cup
  {d \in Collectors : coll[d].forward = c}

Stored(c) == \E l \in ListNames : coll[c].data[l] # <<>>

counter_continue_waiting(c) == Refs(c) # {} /\ ~Stored(c)

\* Mutant of counter_done: the references are not looked at.
DoneWhenEmpty(c) == ~Stored(c)

counter_done(c) == Refs(c) = {} /\ ~Stored(c)

\* Where the elements of list l go when its collector is merged into another.
Receiver(l) ==
  IF l \in {"collect", "rebuild_list"} THEN l ELSE "merged_list"

Put(cs, c, l, o) == [cs EXCEPT ![c].data[l] = Append(@, o)]

\* Mutant of safelist_forward: what the list holds stays where it is.
ForwardOnly(cs, s, l, t) == [cs EXCEPT ![s].to[l] = t]

safelist_forward(cs, s, l, t) ==
  [cs EXCEPT ![t].data[Receiver(l)] = @ \o cs[s].data[l],
             ![s].data[l] = <<>>,
             ![s].to[l] = t]

\* The order of the calls in collector_forward_safelists_to.
ForwardOrder ==
  <<"collect", "merged_list", "rebuild_list", "clean_list", "recovery_list">>

object_set_collector(os, o, c) == [os EXCEPT ![o].collector = c]

\* collector_add_object gives o a strong count, object_phantomize_node takes it.
Collecting(o) ==
  \/ \E c \in Collectors : o \in ToSet(coll[c].data["collect"])
  \/ \E w \in Workers : th[w].o = o /\ th[w].list = "collect"
                        /\ th[w].pc \in {"phantomize", "update"}

\* The counts of o that are strong whatever its links are.
Strong(os, o) == os[o].root \/ Collecting(o)

\* A strong or weak count of o is left.
InUse(os, o) == Strong(os, o) \/ \E s \in Objects : o \in os[s].links

\* Mutant of dec_phantom: the collector is kept.
DecPhantomOnly(os, o) == [os EXCEPT ![o].phantom = @ - 1]

\* An object in use without phantom counts has no collector.
dec_phantom(os, o) ==
  [os EXCEPT ![o].phantom = @ - 1,
             ![o].collector =
               IF os[o].phantom = 1 /\ InUse(os, o) THEN NULL ELSE @]

-----------------------------------------------------------------------------
(* Threads *)

At(t, pc) == th[t].pc = pc /\ Ready(t)

Become(t, r) == th' = [th EXCEPT ![t] = r]
Goto(t, pc) == Become(t, [th[t] EXCEPT !.pc = pc])

Start(t, args) == locker' = [locker EXCEPT ![t] = started(args, @)]
Restart(t, args) == locker' = [locker EXCEPT ![t] = started(args, ended(@))]
End(t) == locker' = [locker EXCEPT ![t] = ended(@)]
EndTwo(t) == locker' = [locker EXCEPT ![t] = ended(ended(@))]

Lock(t) == idlock_lock(t) /\ UNCHANGED <<coll, obj, th, work, sets>>

\* The objects are now os, in which the phantom count of o has been dropped: an
\* object with no count is to be deleted.
DecPhantomTo(os, o) ==
  /\ obj' = os
  /\ work' = IF os[o].phantom = 0 /\ ~InUse(os, o) THEN Append(work, o) ELSE work

-----------------------------------------------------------------------------
(* object_dec, when one count of r.t is gone: os are the objects without   *)
(* it, r and lk the thread and its locks, r.t's last among them            *)

Unmade == {c \in Collectors : coll[c].state = "none"}

\* The collector that collector_create returns: the next in Order.
FreshCollector == CHOOSE c \in Unmade : \A d \in Unmade : Id(c) <= Id(d)

\* The mutator has nothing more to do; a worker goes on with the link.
AfterDec(r) ==
  CASE r.list = NULL                      -> IdleThread
    [] r.list = "collect"                 -> [r EXCEPT !.pc = "merge", !.x = NULL]
    [] r.list \in {"clean_list", "delete"} ->
         [r EXCEPT !.pc = "unlinks", !.x = NULL, !.t = NULL]

ReturnFromDec(t, r, lk) ==
  /\ Become(t, AfterDec(r))
  /\ locker' = [locker EXCEPT ![t] = IF r.list = "collect" THEN lk ELSE ended(lk)]

\* r.t is handed to its collector, or to a new one with a task of its own.
ToCollector(t, r, os, lk) ==
  LET new == os[r.t].collector = NULL
      c   == IF new THEN FreshCollector ELSE os[r.t].collector
  IN  /\ new => Unmade # {}
      /\ obj' = object_set_collector(os, r.t, c)
      /\ coll' = IF new THEN [coll EXCEPT ![c].state = "live"] ELSE coll
      /\ work' = IF new THEN Append(work, c) ELSE work
      /\ Become(t, [r EXCEPT !.pc = "add", !.x = c])
      /\ locker' = [locker EXCEPT ![t] = started({c, r.t}, lk)]

\* The count that goes is a strong one when the mutator drops it; that of a link
\* may be either.
object_dec(t, r, os, lk) ==
  \/ /\ InUse(os, r.t) \/ t # Mutator
     /\ obj' = os /\ ReturnFromDec(t, r, lk) /\ UNCHANGED <<coll, work>>
  \/ /\ ~Strong(os, r.t)
     /\ InUse(os, r.t) \/ os[r.t].phantom > 0
     /\ ToCollector(t, r, os, lk)
  \/ /\ ~InUse(os, r.t) /\ os[r.t].phantom = 0
     /\ obj' = os /\ work' = Append(work, r.t)
     /\ ReturnFromDec(t, r, lk) /\ UNCHANGED coll

collector_add_object(t) ==
  LET r == th[t]
      f == coll[r.x].forward
  IN  /\ At(t, "add") /\ UNCHANGED <<work, sets>>
      /\ \/ /\ f # NULL
            /\ Become(t, [r EXCEPT !.x = f]) /\ Restart(t, {f, r.t})
            /\ UNCHANGED <<coll, obj>>
         \/ /\ f = NULL
            /\ coll' = Put(coll, r.x, "collect", r.t)
            /\ obj' = object_set_collector([obj EXCEPT ![r.t].phantom = @ + 1],
                                           r.t, r.x)
            /\ ReturnFromDec(t, r, ended(locker[t]))

-----------------------------------------------------------------------------
(* object_merge_collectors(th[t].o, th[t].t), both of which are locked     *)

\* The link is a phantom one, os are the objects and lk the thread's locks.
\* object_set counts it and ends; link_phantomize, which has counted it, asserts
\* that the collectors are equal.
Linked(t, os, lk) ==
  LET r      == th[t]
      linked == [os EXCEPT ![r.o].links = @ \ {r.t},
                           ![r.o].phantoms = @ \cup {r.t}]
      x      == os[r.t].collector
      y      == os[r.o].collector
  IN  IF t = Mutator
      THEN /\ obj' = [linked EXCEPT ![r.t].phantom = @ + 1]
           /\ Become(t, IdleThread)
           /\ locker' = [locker EXCEPT ![t] = ended(lk)]
      ELSE /\ obj' = linked
           /\ Become(t, [r EXCEPT !.pc = "equals", !.x = x, !.y = y, !.n = 0])
           /\ locker' = [locker EXCEPT ![t] = started({x, y}, lk)]

\* Mutant of SetBoth: the source keeps its collector.
SetTarget(r, c) == object_set_collector(obj, r.t, c)

\* Both objects have collector c.
SetBoth(r, c) ==
  object_set_collector(object_set_collector(obj, r.t, c), r.o, c)

Merge(t) ==
  LET r == th[t]
      s == obj[r.o].collector
      u == obj[r.t].collector
  IN  /\ At(t, "merge") /\ UNCHANGED <<coll, work, sets>>
      /\ \/ /\ NULL \in {s, u} \/ s = u
            /\ Linked(t, SetBoth(r, IF s = NULL THEN u ELSE s), locker[t])
         \/ /\ NULL \notin {s, u} /\ s # u
            /\ Become(t, [r EXCEPT !.pc = "merging", !.x = s, !.y = u])
            /\ Start(t, {u, s, r.o, r.t}) /\ UNCHANGED obj

\* One pass of the loop: s is x and t is y.
Merging(t) ==
  LET r   == th[t]
      f   == coll[r.x].forward
      g   == coll[r.y].forward
      out == ended(locker[t])
      Pass(x, y) ==
        /\ Become(t, [r EXCEPT !.x = x, !.y = y])
        /\ Restart(t, {y, x, r.o, r.t}) /\ UNCHANGED obj
  IN  /\ At(t, "merging") /\ UNCHANGED <<coll, work, sets>>
      /\ IF g = r.x /\ f = NULL THEN Linked(t, SetBoth(r, r.x), out)
         ELSE IF f = r.y /\ g = NULL THEN Linked(t, SetBoth(r, r.y), out)
         ELSE IF g # NULL THEN Pass(r.x, g)
         ELSE IF f # NULL THEN Pass(f, r.y)
         ELSE IF r.x = r.y THEN Linked(t, obj, out)
         ELSE Goto(t, "forward") /\ UNCHANGED <<obj, locker>>

\* collector_merge(y, x): the lists one by one, then the collector.
Forward(t) ==
  LET r == th[t]
  IN  /\ At(t, "forward") /\ UNCHANGED <<work, sets>>
      /\ \/ /\ r.n < Len(ForwardOrder)
            /\ coll' = safelist_forward(coll, r.x, ForwardOrder[r.n + 1], r.y)
            /\ Become(t, [r EXCEPT !.n = @ + 1])
            /\ UNCHANGED <<obj, locker>>
         \/ /\ r.n = Len(ForwardOrder)
            /\ coll' = [coll EXCEPT ![r.x].forward = r.y]
            /\ Linked(t, SetBoth(r, r.y), ended(locker[t]))

\* collector_equals(x, y) in the assertion: where it follows a pointer it takes
\* new locks and does not let go of those it has.
collector_equals(w) ==
  LET r == th[w]
      Follow(x, y) == /\ Become(w, [r EXCEPT !.x = x, !.y = y])
                      /\ Start(w, {x, y})
  IN  /\ At(w, "equals") /\ UNCHANGED <<coll, obj, work, sets>>
      /\ IF r.x = r.y
         THEN /\ Become(w, [r EXCEPT !.pc = "links", !.t = NULL,
                                     !.x = NULL, !.y = NULL])
              /\ EndTwo(w)
         ELSE IF r.x # NULL /\ coll[r.x].forward # NULL
         THEN Follow(coll[r.x].forward, r.y)
         ELSE IF r.y # NULL /\ coll[r.y].forward # NULL
         THEN Follow(r.x, coll[r.y].forward)
         ELSE Goto(w, "failed") /\ UNCHANGED locker

-----------------------------------------------------------------------------
(* The mutator: acid_dissolve, and object_set on a new field               *)

\* The mutator has o in a variable, or finds it behind one.
Accessible(o) ==
  \/ obj[o].root
  \/ \E s \in Objects : obj[s].root /\ o \in obj[s].links \cup obj[s].phantoms

Drop(o) ==
  /\ At(Mutator, "idle") /\ FreeFor(Mutator, o)
  /\ obj[o].root
  /\ object_dec(Mutator, [IdleThread EXCEPT !.t = o],
                [obj EXCEPT ![o].root = FALSE], taken(o, locker[Mutator]))
  /\ UNCHANGED sets

Set(o, u) ==
  /\ At(Mutator, "idle") /\ Accessible(o) /\ Accessible(u) /\ <<o, u>> \in Adds \ sets
  /\ u \notin obj[o].links \cup obj[o].phantoms
  /\ ~ \E w \in Workers : th[w].o = o /\ th[w].t = u
  /\ Become(Mutator, [IdleThread EXCEPT !.pc = "set", !.o = o, !.t = u])
  /\ Start(Mutator, {o, u})
  /\ sets' = sets \cup {<<o, u>>}
  /\ UNCHANGED <<coll, obj, work>>

SetLink ==
  LET r == th[Mutator]
  IN  /\ At(Mutator, "set") /\ UNCHANGED <<coll, work, sets>>
      /\ IF obj[r.o].phantomized
         THEN Goto(Mutator, "merge") /\ UNCHANGED <<locker, obj>>
         ELSE /\ obj' = [obj EXCEPT ![r.o].links = @ \cup {r.t}]
              /\ Become(Mutator, IdleThread) /\ End(Mutator)

-----------------------------------------------------------------------------
(* collector_run *)

worker_get_next_task(w) ==
  /\ At(w, "idle") /\ work # <<>>
  /\ Become(w, LET x == Head(work) IN
       IF x \in Collectors THEN [IdleThread EXCEPT !.pc = "run", !.c = x]
       ELSE [IdleThread EXCEPT !.pc = "unlinks", !.list = "delete", !.o = x,
                               !.todo = obj[x].links \cup obj[x].phantoms])
  /\ work' = Tail(work)
  /\ UNCHANGED <<locker, coll, obj, sets>>

Requeue(w) == Become(w, IdleThread) /\ work' = Append(work, th[w].c)

Run(w) ==
  /\ At(w, "run") /\ UNCHANGED <<locker, coll, obj, sets>>
  /\ IF counter_continue_waiting(th[w].c) THEN Requeue(w)
     ELSE Goto(w, "merged") /\ UNCHANGED work

\* The loop under the collector's own lock; nothing in it blocks.
DrainMerged(w) ==
  LET c == th[w].c
  IN  /\ At(w, "merged") /\ FreeFor(w, c)
      /\ coll' = [coll EXCEPT
           ![c].data["recovery_list"] = @ \o coll[c].data["merged_list"],
           ![c].data["merged_list"] = <<>>]
      /\ Become(w, [th[w] EXCEPT !.pc = "poll", !.list = "collect"])
      /\ UNCHANGED <<locker, obj, work, sets>>

Handler ==
  [collect |-> "phantomize", recovery_list |-> "recover",
   rebuild_list |-> "recover", clean_list |-> "clean"]

AfterList ==
  [collect |-> "recovery_list", recovery_list |-> "rebuild_list",
   rebuild_list |-> "clean_list"]

Poll(w) ==
  LET r    == th[w]
      data == coll[r.c].data[r.list]
  IN  /\ At(w, "poll") /\ UNCHANGED <<locker, obj, work, sets>>
      /\ \/ /\ data # <<>>
            /\ coll' = [coll EXCEPT ![r.c].data[r.list] = Tail(@)]
            /\ Become(w, [r EXCEPT !.pc = Handler[r.list], !.o = Head(data)])
         \/ /\ data = <<>>
            /\ Become(w, IF r.list = "clean_list" THEN [r EXCEPT !.pc = "finish"]
                         ELSE [r EXCEPT !.list = AfterList[r.list]])
            /\ UNCHANGED coll

\* safelist_add, under the lock of the list; walked by if it is forwarded.
Add(w) ==
  LET r == th[w]
      f == coll[r.at[1]].to[r.at[2]]
      back == IF r.at[2] = "rebuild_list"
              THEN [r EXCEPT !.pc = "rebuild", !.t = NULL] ELSE [r EXCEPT !.pc = "poll", !.o = NULL]
  IN  /\ At(w, "put") /\ UNCHANGED <<obj, work, sets>>
      /\ \/ /\ f = NULL
            /\ coll' = Put(coll, r.at[1], r.at[2], r.e)
            /\ Become(w, [back EXCEPT !.e = NULL, !.at = NULL])
            /\ IF r.at[2] = "rebuild_list" THEN End(w) ELSE UNCHANGED locker
         \/ /\ f # NULL
            /\ Become(w, [r EXCEPT !.pc = "walk", !.at = <<f, Receiver(r.at[2])>>])
            /\ UNCHANGED <<coll, locker>>

\* The forward pointers are read without a lock (safelist.c:31).
Walk(w) ==
  LET r == th[w]
      f == coll[r.at[1]].to[r.at[2]]
  IN  /\ At(w, "walk")
      /\ Become(w, IF f = NULL THEN [r EXCEPT !.pc = "put"]
                   ELSE [r EXCEPT !.at = <<f, Receiver(r.at[2])>>])
      /\ UNCHANGED <<locker, coll, obj, work, sets>>

\* safelist_add(&collector->list, o) after the handler, or nothing.
PutOn(r, list) ==
  IF list = NULL THEN [r EXCEPT !.pc = "poll", !.o = NULL]
  ELSE [r EXCEPT !.pc = "put", !.e = r.o, !.at = <<r.c, list>>]

NextList ==
  [collect |-> "recovery_list", recovery_list |-> "clean_list",
   rebuild_list |-> NULL]

\* collector_update(o->collector), under the lock of o.
Update(w) ==
  LET r == th[w]
      c == obj[r.o].collector
      p == taken(r.o, locker[w])
  IN  /\ At(w, "phantomize") \/ At(w, "recover")
      /\ FreeFor(w, r.o) /\ UNCHANGED <<coll, obj, work, sets>>
      /\ Become(w, [r EXCEPT !.pc = IF c = NULL THEN "updated" ELSE "update",
                             !.x = c])
      /\ locker' = [locker EXCEPT ![w] = IF c = NULL THEN p ELSE started({c}, p)]

Updated(w) ==
  LET r == th[w]
      f == coll[r.x].forward
  IN  /\ At(w, "update") /\ UNCHANGED <<coll, work, sets>>
      /\ IF f # NULL
         THEN /\ Become(w, [r EXCEPT !.x = f])
              /\ Restart(w, {f}) /\ UNCHANGED obj
         ELSE /\ obj' = object_set_collector(obj, r.o, r.x)
              /\ Become(w, [r EXCEPT !.pc = "updated", !.x = NULL]) /\ End(w)

\* object_phantomize_node, the first section: a node that keeps a count, or is
\* phantomized already, only changes lists.
PhantomizeNode(w) ==
  LET r == th[w]
  IN  /\ At(w, "updated") /\ r.list = "collect" /\ End(w)
      /\ UNCHANGED <<coll, work, sets>>
      /\ \/ /\ InUse(obj, r.o) \/ obj[r.o].phantomized
            /\ Become(w, PutOn(r, "recovery_list")) /\ UNCHANGED obj
         \/ /\ ~Strong(obj, r.o) /\ ~obj[r.o].phantomized
            /\ obj' = [obj EXCEPT ![r.o].phantomized = TRUE]
            /\ Become(w, [r EXCEPT !.pc = "links", !.todo = obj[r.o].links])

\* The links, one by one, under the locks of both ends.
PhantomizeNext(w) ==
  LET r == th[w]
  IN  /\ At(w, "links") /\ UNCHANGED <<coll, obj, work, sets>>
      /\ \/ /\ r.todo = {}
            /\ Become(w, PutOn(r, "recovery_list")) /\ UNCHANGED locker
         \/ \E u \in r.todo :
              /\ Become(w, [r EXCEPT !.pc = "link", !.t = u, !.todo = @ \ {u}])
              /\ Start(w, {r.o, u})

\* link_phantomize: the phantom count first, then link_dec, which may be the
\* last count, then the merge.
PhantomizeLink(w) ==
  LET r  == th[w]
      os == [obj EXCEPT ![r.t].phantom = @ + 1, ![r.o].links = @ \ {r.t}]
  IN  /\ At(w, "link") /\ UNCHANGED sets
      /\ \/ /\ r.t \in obj[r.o].phantoms
            /\ Become(w, [r EXCEPT !.pc = "links", !.t = NULL]) /\ End(w)
            /\ UNCHANGED <<coll, obj, work>>
         \/ r.t \in obj[r.o].links /\ object_dec(w, r, os, locker[w])

BeingPhantomized(o) ==
  \E w \in Workers : /\ th[w].o = o /\ th[w].list = "collect"
                     /\ th[w].pc \in {"links", "link", "add", "merge",
                                      "merging", "forward", "equals"}

\* object_recover_node: a node that has a count again rebuilds its links,
\* when no one phantomizes them any more.
RecoverNode(w) ==
  LET r == th[w]
  IN  /\ At(w, "updated") /\ r.list # "collect" /\ End(w)
      /\ UNCHANGED <<coll, work, sets>>
      /\ \/ /\ ~InUse(obj, r.o)
            /\ Become(w, PutOn(r, NextList[r.list])) /\ UNCHANGED obj
         \/ InUse(obj, r.o) /\ BeingPhantomized(r.o) /\ Goto(w, "await") /\ UNCHANGED obj
         \/ /\ InUse(obj, r.o) /\ ~BeingPhantomized(r.o)
            /\ obj' = [obj EXCEPT ![r.o].phantomized = FALSE]
            /\ Become(w, [r EXCEPT !.pc = "rebuild",
                                   !.todo = obj[r.o].links \cup obj[r.o].phantoms])

Await(w) ==
  /\ At(w, "await") /\ ~BeingPhantomized(th[w].o) /\ FreeFor(w, th[w].o)
  /\ Goto(w, "updated")
  /\ locker' = [locker EXCEPT ![w] = taken(th[w].o, @)]
  /\ UNCHANGED <<coll, obj, work, sets>>

RebuildNext(w) ==
  LET r == th[w]
  IN  /\ At(w, "rebuild") /\ UNCHANGED <<coll, obj, work, sets>>
      /\ \/ /\ r.todo = {}
            /\ Become(w, PutOn(r, NextList[r.list])) /\ UNCHANGED locker
         \/ \E u \in r.todo :
              /\ Become(w, [r EXCEPT !.pc = "relink", !.t = u, !.todo = @ \ {u}])
              /\ Start(w, {r.o, u})

\* object_rebuild_link: a target that still has a collector is to be recovered
\* too.
RebuildLink(w) ==
  LET r  == th[w]
      os == dec_phantom([obj EXCEPT ![r.o].links = @ \cup {r.t},
                                    ![r.o].phantoms = @ \ {r.t}], r.t)
  IN  /\ At(w, "relink") /\ UNCHANGED <<coll, work, sets>>
      /\ IF r.t \notin obj[r.o].phantoms
         THEN /\ Become(w, [r EXCEPT !.pc = "rebuild", !.t = NULL]) /\ End(w)
              /\ UNCHANGED obj
         ELSE /\ obj' = os
              /\ IF os[r.t].collector = NULL
                 THEN Become(w, [r EXCEPT !.pc = "rebuild", !.t = NULL]) /\ End(w)
                 ELSE /\ Become(w, [r EXCEPT !.pc = "put", !.e = r.t,
                                             !.at = <<r.c, "rebuild_list">>])
                      /\ UNCHANGED locker

\* object_clean_node: a node out of use loses its links.
CleanNode(w) ==
  LET r == th[w]
  IN  /\ At(w, "clean") /\ FreeFor(w, r.o)
      /\ UNCHANGED <<locker, coll, obj, work, sets>>
      /\ IF InUse(obj, r.o) THEN Goto(w, "dec")
         ELSE Become(w, [r EXCEPT !.pc = "unlinks",
                          !.todo = obj[r.o].links \cup obj[r.o].phantoms])

\* object_remove_links, link_destroy
RemoveNext(w) ==
  LET r == th[w]
  IN  /\ At(w, "unlinks") /\ UNCHANGED <<coll, obj, work, sets>>
      /\ \/ /\ r.todo = {} /\ UNCHANGED locker
            /\ Goto(w, IF r.list = "delete" THEN "del" ELSE "dec")
         \/ \E u \in r.todo :
              /\ Become(w, [r EXCEPT !.pc = "unlink", !.t = u, !.todo = @ \ {u}])
              /\ Start(w, {r.o, u})

RemoveLink(w) ==
  LET r  == th[w]
      os == [obj EXCEPT ![r.o].links = @ \ {r.t}, ![r.o].phantoms = @ \ {r.t}]
  IN  /\ At(w, "unlink") /\ UNCHANGED sets
      /\ \/ /\ r.t \in obj[r.o].phantoms
            /\ DecPhantomTo(dec_phantom(os, r.t), r.t)
            /\ ReturnFromDec(w, r, locker[w]) /\ UNCHANGED coll
         \/ r.t \in obj[r.o].links /\ object_dec(w, r, os, locker[w])

\* object_dec_phantom(obj): the count that collector_add_object took.
DecPhantom(w) ==
  LET r == th[w]
  IN  /\ At(w, "dec") /\ FreeFor(w, r.o)
      /\ DecPhantomTo(dec_phantom(obj, r.o), r.o)
      /\ Become(w, [r EXCEPT !.pc = "poll", !.o = NULL])
      /\ UNCHANGED <<locker, coll, sets>>

object_del(w) ==
  /\ At(w, "del") /\ FreeFor(w, th[w].o)
  /\ obj' = object_set_collector(obj, th[w].o, NULL)
  /\ Become(w, IdleThread)
  /\ UNCHANGED <<locker, coll, work, sets>>

\* collector->forward is read before the lock is there.
Finish(w) ==
  LET r == th[w]
  IN  /\ At(w, "finish")
      /\ Goto(w, "ending") /\ Start(w, {r.c, coll[r.c].forward})
      /\ UNCHANGED <<coll, obj, work, sets>>

\* collector_terminate takes the same locks, and perhaps the forward one anew.
Ending(w) ==
  LET r == th[w]
  IN  /\ At(w, "ending") /\ UNCHANGED <<coll, obj, sets>>
      /\ IF counter_done(r.c)
         THEN /\ Goto(w, "terminate") /\ Start(w, {r.c, coll[r.c].forward})
              /\ UNCHANGED work
         ELSE Requeue(w) /\ End(w)

Terminate(w) ==
  /\ At(w, "terminate") /\ Become(w, IdleThread) /\ EndTwo(w)
  /\ coll' = [coll EXCEPT ![th[w].c] = [NewCollector EXCEPT !.state = "freed"]]
  /\ UNCHANGED <<obj, work, sets>>

-----------------------------------------------------------------------------
(* A start is a graph that the mutator has built: links[o], what o links   *)
(* to, and roots, what variables hold; it has since dropped the objects in *)
(* lists, all linked to, those in lists[c] to collector c.  Their tasks are *)
(* in the queue, in any order: a worker that finds nothing in a collector  *)
(* yet puts its task back.                                                 *)

Owner(g, o) ==
  IF \E c \in Collectors : o \in ToSet(g.lists[c])
    THEN CHOOSE c \in Collectors : o \in ToSet(g.lists[c]) ELSE NULL

Init ==
  /\ locker = [t \in Threads |-> NoLocks]
  /\ th = [t \in Threads |-> IdleThread]
  /\ sets = {}
  /\ \E g \in Starts :
       /\ obj = [o \in Objects |->
            [NewObject EXCEPT !.links = g.links[o],
                              !.root = o \in g.roots,
                              !.collector = Owner(g, o),
                              !.phantom = IF Owner(g, o) = NULL THEN 0 ELSE 1]]
       /\ coll = [c \in Collectors |->
            IF g.lists[c] = <<>> THEN NewCollector
            ELSE [NewCollector EXCEPT !.state = "live",
                                      !.data["collect"] = g.lists[c]]]
       /\ work = g.work

\* The sections that a thread can be in at any time.
Common(t) ==
  Lock(t) \/ collector_add_object(t) \/ Merge(t) \/ Merging(t) \/ Forward(t)

MutatorNext ==
  \/ Common(Mutator) \/ SetLink
  \/ \E o \in Objects : Drop(o) \/ \E u \in Objects : Set(o, u)

WorkerNext(w) ==
  \/ Common(w) \/ collector_equals(w)
  \/ worker_get_next_task(w) \/ Run(w) \/ DrainMerged(w) \/ Poll(w)
  \/ Add(w) \/ Walk(w) \/ Update(w) \/ Updated(w)
  \/ PhantomizeNode(w) \/ PhantomizeNext(w) \/ PhantomizeLink(w)
  \/ RecoverNode(w) \/ Await(w) \/ RebuildNext(w) \/ RebuildLink(w)
  \/ CleanNode(w) \/ RemoveNext(w) \/ RemoveLink(w)
  \/ DecPhantom(w) \/ object_del(w)
  \/ Finish(w) \/ Ending(w) \/ Terminate(w)

Next == MutatorNext \/ \E w \in Workers : WorkerNext(w)

\* A thread inside a call, or a worker with a task in the queue, can go on
\* unless it waits for a lock, or for the end of a phantomization.
CanStep(t) ==
  LET r == th[t]
  IN  CASE ~Ready(t)       -> FreeFor(t, NextLock(t))
        [] r.pc = "idle"   -> t \in Workers /\ work # <<>>
        [] r.pc = "merged" -> FreeFor(t, r.c)
        [] r.pc = "await"  -> FreeFor(t, r.o) /\ ~BeingPhantomized(r.o)
        [] r.pc \in {"phantomize", "recover", "clean", "dec", "del"} ->
                              FreeFor(t, r.o)
        [] OTHER           -> TRUE

Steps(t) == th'[t] # th[t] \/ locker'[t] # locker[t]

\* Weak fairness of each thread, its enabling condition written out: the system
\* schedules every thread that can run.  A thread may be passed over at a lock
\* that others take and release.
Fairness == \A t \in Threads : []<>~CanStep(t) \/ []<><<Steps(t)>>_vars

Spec == Init /\ [][Next]_vars /\ Fairness

-----------------------------------------------------------------------------
(* Properties *)

\* A thread between two calls has no lock: each locker_start of the code meets
\* its locker_end on every path.  collector_equals leaves an entry on the
\* stack where it follows a forward pointer (collector.c:172-175); the merge
\* before it leaves no pointer to follow, whoever else merges.
LocksReleased ==
  \A t \in Threads :
    /\ th[t].pc \in {"idle", "run", "merged", "poll", "links", "rebuild",
                     "unlinks", "dec", "finish"} => locker[t] = NoLocks
    /\ th[t].pc # "failed"

\* What a thread follows.
Followed(t) ==
  {th[t].c, th[t].x, th[t].y} \cup
  (IF th[t].at = NULL THEN {} ELSE {th[t].at[1]}) \cup
  ((HeldBy(t) \cup locker[t].want) \ Objects)

\* No one has, waits for, or walks through a collector that has been freed:
\* not the merges that read forward pointers between two locker_starts
\* (object.c:380-383), not safelist_add, which reads them without a lock
\* (safelist.c:31), and not collector_run, which reads its own before it has
\* its lock (collector.c:126).
CollectorsAlive ==
  /\ \A t \in Threads : \A c \in Followed(t) \ {NULL} : coll[c].state = "live"
  /\ \A c \in Collectors : coll[c].state = "freed" => Refs(c) = {}

\* Nothing is in a list that has been forwarded, which no one polls again.
NothingStranded ==
  \A c \in Collectors : \A l \in ListNames :
    coll[c].to[l] # NULL => coll[c].data[l] = <<>>

\* The places of o in the lists that count, and the workers that hold it as
\* an element of one.
Entries(o) ==
  UNION {{<<c, l, i>> : i \in {j \in DOMAIN coll[c].data[l] : coll[c].data[l][j] = o}} :
           c \in Collectors, l \in ListNames \ {"rebuild_list"}}

Handling(o) ==
  {w \in Workers : th[w].o = o /\ th[w].list \notin {"rebuild_list", "delete"}}

Deleting(o) ==
  o \in ToSet(work) \/ \E w \in Workers : th[w].o = o /\ th[w].list = "delete"

\* The links to o that are phantom ones, or counted as such and about to be.
PhantomLinks(o) ==
  {s \in Objects : o \in obj[s].phantoms} \cup
  {w \in Workers : /\ th[w].t = o /\ th[w].list = "collect"
                   /\ th[w].pc \in {"add", "merge", "merging", "forward"}}

Locked(o) == \E t \in Threads : o \in HeldBy(t)

\* The phantom count of an object is what stands for it: its entries in lists,
\* also while they are forwarded or in a worker's hands, and the phantom links
\* to it.  When no one has it locked, it has a collector just if there are any.
CountsKept ==
  \A o \in Objects :
    /\ obj[o].phantom = Cardinality(Entries(o)) + Cardinality(Handling(o))
                          + Cardinality(PhantomLinks(o))
    /\ obj[o].phantom > 0 => obj[o].collector # NULL \/ Locked(o)
    /\ obj[o].collector # NULL => obj[o].phantom > 0 \/ Locked(o) \/ Deleting(o)

\* Everything that is added to a collector is cleaned, and each collector is
\* destroyed: lists that are forwarded while their collector drains them are
\* drained by the other one, and no thread waits for ever.
AllCollected ==
  <>[](/\ \A c \in Collectors : coll[c].state # "live"
       /\ \A o \in Objects : obj[o].collector = NULL)
=============================================================================
